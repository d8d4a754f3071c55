------------------------------ MODULE Platform ------------------------------
(***************************************************************************)
(* The services together, as docker-swarm-stack.yml deploys them: clients  *)
(* reach the edge alone, the edge forwards a request to the service its    *)
(* path names, and every service restarts without the others noticing.     *)
(* The transfer service is taken by its specification Bank, which          *)
(* TransferService implements.                                             *)
(*                                                                         *)
(* The edge has no timeout and the proxy does not repeat a POST: a call it *)
(* gave up goes on at the service, and its answer is dropped.  A handler   *)
(* takes no new request before the service is done with such a call; the   *)
(* number of handlers bounds the calls, whoever waits for them.            *)
(***************************************************************************)
EXTENDS EdgeGateway

CONSTANTS
  Queries,       \* the requests of clients, without the bearer token
  Credentials,   \* tenant |-> its api_key and secret
  Seeds,         \* the databases a start may generate: account |-> balance
  TenantOf,      \* account identifier |-> the tenant that owns it
  AuthAhead, SearchAhead, TransferAhead,   \* the clocks of the services
  Nothing,       \* no reply, or one without a content
  Budgets        \* bounds: records asks (query |-> how often it is sent),
                 \* restarts and until; a behaviour keeps within one of them

\* A request carries any token its client was given, and the time of the
\* login it is from, which the properties compare with the clocks.
Bearing(q, k) == [q EXCEPT !.token = k.token, !.issued = k.at]

ASSUME PlatformAssumption ==
  /\ Queries \subseteq Requests
  /\ \A r \in Requests :
       /\ DOMAIN r = {"route", "absolute", "namesLogin", "body", "edgeKey",
                      "wellFormed", "key", "secret", "account", "to", "amount",
                      "token", "issued"}
       /\ r.route \in {"login", "search", "transfer"}
       /\ r.amount \in Int
  /\ \A q \in Queries : q.token = Forged
  /\ {AuthAhead, SearchAhead, TransferAhead} \subseteq Int
  \* A key names the tenant whose it is: credentials.go 13-23, edge 290-297.
  /\ DOMAIN Credentials \subseteq Tenants
  /\ \A t \in DOMAIN Credentials : KeyTenant[Credentials[t].key] = t
  \* Requests has room for every token a login may give.
  /\ \A q \in {r \in Queries : r.route # "login"}, t \in DOMAIN Credentials, c \in 0..MaxTime :
       Bearing(q, [token |-> NewToken(t, c + AuthAhead), at |-> c]) \in Requests
  /\ \A s \in BackendStatuses : [status |-> s, gives |-> Nothing] # Nothing
  /\ Budgets \subseteq [asks : [Queries -> Nat], restarts : Nat, until : Nat]

VARIABLES
  call,       \* handler |-> the request a service works on for it
  reply,      \* handler |-> the service's answer the edge has not yet taken
  login,      \* handler |-> the auth service's token before it is answered
  searchDb,   \* the search service's database
  balance, breq, outcome,   \* the transfer service's, as Bank has them
  held,       \* the tokens clients hold, with the time of the login
  settled,    \* history: handler |-> how often its transfer has moved money
  asked,      \* query |-> how often it was sent so far
  restarts    \* restarts so far

BankRequest(r) == [tenant |-> r.token.tenant, from |-> r.account, to |-> r.to, amount |-> r.amount]

Auth == INSTANCE AuthService
Search == INSTANCE SearchService
Transfers == INSTANCE Bank WITH
  req <- breq,
  Requests <- {BankRequest(r) : r \in {q \in Requests : q.route = "transfer" /\ q.token # Forged}}

bankVars == <<balance, breq, outcome>>
linkVars == <<call, reply>>
clientVars == <<held, settled, asked, restarts>>
platformVars == <<edgeVars, linkVars, login, searchDb, bankVars, clientVars>>

PlatformInit ==
  /\ EdgeInit
  /\ call = [h \in Handlers |-> NoRequest]
  /\ reply = [h \in Handlers |-> Nothing]
  /\ Auth!AuthInit
  /\ Search!SearchInit
  /\ Transfers!Init
  /\ held = {}
  /\ settled = [h \in Handlers |-> 0]
  /\ asked = [q \in Queries |-> 0]
  /\ restarts = 0

\* Some budget allows as much.
Affordable(asks, starts, time) ==
  \E b \in Budgets :
    /\ \A q \in Queries : asks[q] <= b.asks[q]
    /\ starts <= b.restarts
    /\ time <= b.until

-----------------------------------------------------------------------------
(* A faulty variant, used to show that PlatformTypeOK can tell it from the *)
(* code.                                                                   *)

\* The answer to a call that was given up is kept for the next request.
DropCallOnly(h) ==
  /\ pc[h] # "proxying" /\ reply[h] # Nothing
  /\ call' = [call EXCEPT ![h] = NoRequest]
  /\ UNCHANGED <<edgeVars, reply, login, searchDb, bankVars, clientVars>>

-----------------------------------------------------------------------------
(* Clients and the edge. *)

\* A client sends a request: with a token if it has one and the path needs it.
Send(h) ==
  /\ call[h] = NoRequest
  /\ \E q \in Queries :
       /\ asked' = [asked EXCEPT ![q] = @ + 1]
       /\ Affordable(asked', restarts, now)
       /\ \/ Receive(h, q)
          \/ q.route # "login" /\ \E k \in held : Receive(h, Bearing(q, k))
  /\ settled' = [settled EXCEPT ![h] = 0]
  /\ UNCHANGED <<linkVars, login, searchDb, bankVars, held, restarts>>

\* The controls; the last of them hands the request to a service.
EdgeControl(h) ==
  /\ Control(h)
  /\ call' = IF pc'[h] = "proxying" THEN [call EXCEPT ![h] = req[h]] ELSE call
  /\ UNCHANGED <<reply, login, searchDb, bankVars, clientVars>>

\* A service's answer leaves it: the connection carries nothing any more.
Hangup(h) ==
  /\ call' = [call EXCEPT ![h] = NoRequest]
  /\ reply' = [reply EXCEPT ![h] = Nothing]
  /\ IF call[h].route = "transfer" THEN Transfers!Finish(h) ELSE UNCHANGED bankVars
  /\ UNCHANGED <<login, searchDb, settled, asked, restarts>>

\* The edge takes the answer and copies it to the client, who keeps a token.
TakeReply(h) ==
  /\ reply[h] # Nothing
  /\ Deliver(h, reply[h].status)
  /\ held' = IF call[h].route = "login" /\ reply[h].status = 200
               THEN held \cup {reply[h].gives}
               ELSE held
  /\ Hangup(h)

\* The answer breaks off while it is copied.
LoseReply(h) ==
  /\ reply[h] # Nothing
  /\ CopyBreaks(h)
  /\ Hangup(h)
  /\ UNCHANGED held

\* The edge gives up; the call, if the service still lives, goes on.
GiveUp(h) ==
  /\ ProxyFails(h)
  /\ UNCHANGED <<linkVars, login, searchDb, bankVars, clientVars>>

\* Nobody waits for the answer to a call that was given up.
Drop(h) ==
  /\ pc[h] # "proxying" /\ reply[h] # Nothing
  /\ Hangup(h)
  /\ UNCHANGED <<edgeVars, held>>

CloseClient(h) ==
  /\ Close(h)
  /\ UNCHANGED <<linkVars, login, searchDb, bankVars, clientVars>>

-----------------------------------------------------------------------------
(* The services. *)

AuthWorks(h) ==
  /\ Auth!AuthStep(h)
  /\ UNCHANGED <<edgeVars, searchDb, bankVars, clientVars>>

SearchWorks(h) ==
  /\ Search!Search(h)
  /\ UNCHANGED <<edgeVars, login, bankVars, clientVars>>

\* A transfer has reached its service, which has not looked at it.
TransferArrived(h) ==
  /\ call[h] # NoRequest
  /\ call[h].route = "transfer"
  /\ outcome[h] = "idle"

TransferReplies(h, s) ==
  /\ reply' = [reply EXCEPT ![h] = [status |-> s, gives |-> Nothing]]
  /\ UNCHANGED <<edgeVars, call, login, searchDb, held, asked, restarts>>

TransferAdmits(r) == ValidateToken(r.token, now + TransferAhead)

\* 401 from authMiddleware, 400 from the decoder.
TransferTurnsAway(h) ==
  /\ TransferArrived(h)
  /\ \/ ~TransferAdmits(call[h]) /\ TransferReplies(h, 401)
     \/ TransferAdmits(call[h]) /\ ~call[h].wellFormed /\ TransferReplies(h, 400)
  /\ Transfers!Refuse(h)
  /\ UNCHANGED settled

\* A valid token and a well-formed body.
TransferBegins(h) ==
  /\ TransferArrived(h)
  /\ TransferAdmits(call[h]) /\ call[h].wellFormed
  /\ breq' = [breq EXCEPT ![h] = BankRequest(call[h])]
  /\ Transfers!Submit(h)
  /\ UNCHANGED <<edgeVars, linkVars, login, searchDb, clientVars>>

TransferSettles(h) ==
  /\ Transfers!Settle(h)
  /\ settled' = [settled EXCEPT ![h] = @ + 1]
  /\ TransferReplies(h, 200)

\* The first check a transfer fails; the balance may be too low for any.
RefusalStatus(r) ==
  IF ~({r.from, r.to} \subseteq DOMAIN balance) THEN 404
  ELSE IF TenantOf[r.from] # r.tenant \/ TenantOf[r.to] # r.tenant THEN 403
  ELSE IF r.amount <= 0 THEN 400
  ELSE 402

TransferRefuses(h) ==
  /\ outcome[h] = "pending" /\ reply[h] = Nothing
  /\ Transfers!Refuse(h)
  /\ TransferReplies(h, RefusalStatus(breq[h]))
  /\ UNCHANGED settled

TransferWorks(h) ==
  \/ TransferTurnsAway(h) \/ TransferBegins(h)
  \/ TransferSettles(h) \/ TransferRefuses(h)

-----------------------------------------------------------------------------
(* Restarts.  The calls a process had are gone, and their answers with them. *)

CountRestart == restarts' = restarts + 1 /\ Affordable(asked, restarts', now)

CallsDie(route) ==
  LET gone == {h \in Handlers : call[h] # NoRequest /\ call[h].route = route} IN
  /\ call' = [h \in Handlers |-> IF h \in gone THEN NoRequest ELSE call[h]]
  /\ reply' = [h \in Handlers |-> IF h \in gone THEN Nothing ELSE reply[h]]

RestartEdge ==
  /\ CountRestart
  /\ EdgeRestart
  /\ UNCHANGED <<linkVars, login, searchDb, bankVars, held, settled, asked>>

RestartAuth ==
  /\ CountRestart
  /\ CallsDie("login")
  /\ login' = [h \in Handlers |-> Nothing]
  /\ UNCHANGED <<edgeVars, searchDb, bankVars, held, settled, asked>>

RestartSearch ==
  /\ CountRestart
  /\ CallsDie("search")
  /\ searchDb' \in Seeds
  /\ UNCHANGED <<edgeVars, login, bankVars, held, settled, asked>>

RestartTransfer ==
  /\ CountRestart
  /\ CallsDie("transfer")
  /\ Transfers!Restart
  /\ UNCHANGED <<edgeVars, login, searchDb, held, settled, asked>>

PlatformTick ==
  /\ EdgeTick /\ Affordable(asked, restarts, now')
  /\ UNCHANGED <<linkVars, login, searchDb, bankVars, clientVars>>

Serve(h) == AuthWorks(h) \/ SearchWorks(h) \/ TransferWorks(h)

Exchange(h) ==
  \/ Send(h) \/ EdgeControl(h) \/ TakeReply(h) \/ LoseReply(h)
  \/ GiveUp(h) \/ Drop(h) \/ CloseClient(h) \/ Serve(h)

PlatformNext ==
  \/ \E h \in Handlers : Exchange(h)
  \/ RestartEdge \/ RestartAuth \/ RestartSearch \/ RestartTransfer
  \/ PlatformTick

PlatformSpec == PlatformInit /\ [][PlatformNext]_platformVars

\* Goroutines that can run do, and the proxy notices that a service it waits
\* for is gone: its connection is reset.  Nothing is assumed about clients,
\* restarts and the steps at which the edge gives up for another reason.
PlatformFairness ==
  \A h \in Handlers :
    /\ WF_platformVars(EdgeControl(h))
    /\ WF_platformVars(CloseClient(h))
    /\ WF_platformVars(AuthWorks(h))
    /\ WF_platformVars(SearchWorks(h))
    /\ WF_platformVars(TransferWorks(h))
    /\ WF_platformVars(TakeReply(h))
    /\ WF_platformVars(call[h] = NoRequest /\ GiveUp(h))

FairPlatform == PlatformSpec /\ PlatformFairness
-----------------------------------------------------------------------------
(* Properties *)

\* Every variable has its type; an answer belongs to a call, and what a
\* service has begun, too: nothing of a request that is over stays behind.
PlatformTypeOK ==
  /\ EdgeTypeOK
  /\ call \in [Handlers -> Requests \cup {NoRequest}]
  /\ DOMAIN reply = Handlers
  /\ \A h \in Handlers :
       /\ reply[h] # Nothing => call[h] # NoRequest /\ reply[h].status \in BackendStatuses
       /\ login[h] # Nothing => call[h] # NoRequest
       /\ outcome[h] # "idle" => call[h] # NoRequest
       /\ pc[h] = "proxying" => call[h] \in {req[h], NoRequest}
  /\ settled \in [Handlers -> Nat]
  /\ \A k \in held : k.at \in 0..now

\* The tenant whose data an answer shows or has moved.
Served(h) ==
  CASE call[h].route = "login" -> reply[h].gives.token.tenant
    [] call[h].route = "search" -> TenantOf[reply[h].gives.account]
    [] call[h].route = "transfer" -> TenantOf[call[h].account]

Succeeded(h) == reply[h] # Nothing /\ reply[h].status = 200

\* Three services each take the tenant from elsewhere: auth from a table,
\* search and transfer from the owner of an account.  They agree with what the
\* client has shown: a request that succeeds, however it came past the edge,
\* has served the tenant whose key and secret or whose valid token it carries,
\* and a transfer has moved money within that tenant (auth 108, search 170,
\* transfer 179).
TenantIsolation ==
  \A h \in Handlers : Succeeded(h) =>
    /\ IF call[h].route = "login"
         THEN Credentials[Served(h)] = [key |-> call[h].key, secret |-> call[h].secret]
         ELSE Served(h) = call[h].token.tenant
    /\ call[h].route = "transfer" => TenantOf[call[h].to] = Served(h)

\* A request that the edge takes for what the service does: a login in whose
\* body both find one API key, or another request whose URI does not name the
\* login as well.
ReadAlike(r) == IF r.route = "login" THEN r.edgeKey = r.key ELSE ~r.namesLogin

\* The limit that pays for a request is the one of the tenant it serves, when
\* the edge reads the request as the service does.  Only then: the edge looks
\* for the login in the whole URI, the query included, and decodes the body
\* otherwise than auth; in the other cases the tenant of the key it finds is
\* charged, or "unknown" (edge 134-161, auth 99-108, search 170, transfer 179).
TenantCharged ==
  \A h \in Handlers :
    Succeeded(h) /\ pc[h] = "proxying" /\ ReadAlike(call[h]) => Served(h) = tenant[h]

\* By a clock that is ahead of now, a token is certainly valid, or certainly
\* not, given when it was signed; a second at either end may go either way.
SurelyValid(r, ahead) ==
  /\ r.token # Forged
  /\ now + ahead >= r.issued + AuthAhead
  /\ now + ahead + Second <= r.issued + AuthAhead + Lifetime

SurelyInvalid(r, ahead) ==
  \/ r.token = Forged
  \/ now + ahead + Second <= r.issued + AuthAhead
  \/ now + ahead >= r.issued + AuthAhead + Lifetime

\* An answer to r given in this step, 401 or not, is right by that clock.
Judged(r, s, ahead) ==
  IF s = 401 THEN ~SurelyValid(r, ahead) ELSE ~SurelyInvalid(r, ahead)

TokenStep ==
  \A h \in Handlers :
    /\ pc[h] = "idle" /\ pc'[h] # "idle" /\ ~req'[h].namesLogin /\ status'[h] # 400 =>
         Judged(req'[h], status'[h], EdgeAhead)
    /\ reply[h] = Nothing /\ reply'[h] # Nothing /\ call[h].route = "search" =>
         Judged(call[h], reply'[h].status, SearchAhead)
    /\ outcome[h] = "idle" /\ outcome'[h] # "idle" =>
         Judged(call[h], IF outcome'[h] = "pending" THEN 0 ELSE reply'[h].status, TransferAhead)

\* From a whole second after a login to a second before its twenty-four hours
\* are over, as each service's clock has them, no service refuses the token;
\* before and after that none accepts it, although dates are truncated, the
\* token is checked at two services at different times, and their clocks
\* differ from the one that signed it (auth.go:72-84, 106).  The edge looks at
\* the token of no request whose URI names the login: the service that such a
\* request is for judges it alone (edge 134, 142-155).
TokenHonoured == [][TokenStep]_platformVars

\* The expiry a client is told, read from the clock after the token was
\* signed, is never before the token's own: who trusts it gives no token up
\* early, and learns of its end by a 401 (auth-service main.go:125-134).
AnnouncedExpiry == \A k \in held : k.expiresAt >= k.token.expiresAt

\* What the client of a transfer knows.
Phase ==
  [h \in Handlers |->
     IF pc[h] # "idle" /\ req[h].route = "transfer"
       THEN IF pc[h] # "answered" THEN "pending"
            ELSE IF status[h] = 200 THEN "done"
            ELSE IF status[h] \in {0, 502} THEN "unknown"
            ELSE "refused"
     ELSE IF call[h] # NoRequest /\ call[h].route = "transfer" THEN "unknown"
     ELSE "idle"]

Moved == [h \in Handlers |-> IF Phase[h] = "idle" THEN 0 ELSE settled[h]]

ContractOf == INSTANCE TransferContract WITH phase <- Phase, moved <- Moved

\* The platform implements the contract of a transfer: an answer of 200 means
\* that the money has moved once, a refusal that it has not and will not, and
\* in every other case it moves at most once, whichever connections break and
\* whichever services restart, also after the edge has given up (edge 225-262,
\* transfer 145-239).
Contract == ContractOf!Spec

\* Every request is answered and its handler freed, unless the edge dies:
\* neither a service that restarts with the call, nor a lost answer, nor the
\* other requests keep it waiting for ever (edge 103-262, no timeout).
EveryRequestAnswered == \A h \in Handlers : pc[h] # "idle" ~> pc[h] = "idle"
=============================================================================
