--------------------------- MODULE SearchService ---------------------------
(***************************************************************************)
(* cmd/search-service/main.go: authMiddleware and handleSearch over a      *)
(* database of the service's own, which init generates and nothing writes. *)
(* The handler reads the clock once and then what never changes, so it is  *)
(* one step.  call and reply are the connections from the edge.            *)
(***************************************************************************)
EXTENDS TokenManager

CONSTANTS
  Handlers, NoRequest, Nothing,
  Seeds,         \* the databases a start may generate: account |-> balance
  TenantOf,      \* account identifier |-> the tenant that owns it
  SearchAhead    \* how far this service's clock is ahead of now

VARIABLES
  now, call, reply,
  searchDb    \* db.Accounts: account |-> balance

SearchClock == now + SearchAhead

SearchInit == searchDb \in Seeds

SearchAdmits(r) == ValidateToken(r.token, SearchClock)

\* Faulty variant: any account that exists is shown.
FindAny(r) ==
  IF ~SearchAdmits(r) THEN 401
  ELSE IF ~r.wellFormed THEN 400
  ELSE IF r.account \notin DOMAIN searchDb THEN 404
  ELSE 200

\* The status of the answer: token, body, account, owner, in this order.
Find(r) ==
  IF ~SearchAdmits(r) THEN 401
  ELSE IF ~r.wellFormed THEN 400
  ELSE IF r.account \notin DOMAIN searchDb THEN 404
  ELSE IF TenantOf[r.account] # r.token.tenant THEN 403
  ELSE 200

Search(h) ==
  /\ call[h] # NoRequest
  /\ call[h].route = "search"
  /\ reply[h] = Nothing
  /\ LET s == Find(call[h]) IN
     reply' = [reply EXCEPT ![h] =
       [status |-> s,
        gives |-> IF s = 200
                    THEN [account |-> call[h].account, balance |-> searchDb[call[h].account]]
                    ELSE Nothing]]
  /\ UNCHANGED <<call, searchDb>>
=============================================================================
