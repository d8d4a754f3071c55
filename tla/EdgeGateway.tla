---------------------------- MODULE EdgeGateway ----------------------------
(***************************************************************************)
(* cmd/edge-service/main.go: securityMiddleware and the reverse proxy      *)
(* behind it.  A handler is the goroutine of one request; pc[h] is the     *)
(* control it is about to apply.  What handlers share is the rate limiter  *)
(* (the instance Limiter, whose methods are single steps), the gauge of    *)
(* requests in flight, and nothing else.                                   *)
(*                                                                         *)
(* Detect is AbuseDetector's subject; here its verdict is any of Verdicts. *)
(* The backends are the environment: Deliver takes any answer from them.   *)
(* Platform joins the gateway with the services.                           *)
(***************************************************************************)
EXTENDS TokenManager, FiniteSets, Sequences

CONSTANTS
  Handlers,    \* the requests the edge can have in flight at once
  Requests,    \* records with at least route, absolute, namesLogin, edgeKey,
               \* token, body
  NoRequest,   \* the request of an idle handler
  KeyTenant,   \* API key |-> the tenant its first part names, or "unknown"
  EdgeAhead,   \* how far the edge's clock is ahead of now
  Verdicts,    \* what Detect may find: "flagged", "passed"
  Tenants, InitLimits, Minute, MaxTime   \* the limiter's

ASSUME EdgeAssumption ==
  /\ IsFiniteSet(Handlers)
  /\ NoRequest \notin Requests
  /\ EdgeAhead \in Int
  /\ Verdicts \subseteq {"flagged", "passed"}
  /\ Minute \in Nat \ {0} /\ MaxTime \in Nat
  /\ "unknown" \in Tenants
  /\ DOMAIN InitLimits \subseteq Tenants
  /\ InitLimits \in [DOMAIN InitLimits -> Nat]
  /\ \A r \in Requests :
       /\ KeyTenant[r.edgeKey] \in Tenants
       /\ r.namesLogin \in BOOLEAN
       /\ r.route = "login" => r.namesLogin
       /\ r.token # Forged => r.token.tenant \in Tenants

VARIABLES
  limits, tokens, last, now, grants,   \* the limiter's, and the clock
  pc,         \* handler |-> the control it is about to apply
  req,        \* handler |-> the request it serves
  tenant,     \* handler |-> the tenant the request is charged to
  status,     \* handler |-> the HTTP status answered, 0 for none or a broken answer
  told,       \* handler |-> requests_allowed in the body of a 429
  inFlight,   \* the gauge RequestsInFlight
  mark,       \* history: handler |-> number of the tenant's grants when denied
  forwarded   \* history: tenant |-> requests handed to a backend since the start

Limiter == INSTANCE RateLimiter WITH NewLimits <- {}

limiterVars == <<limits, tokens, last, grants>>
handlerVars == <<pc, req, tenant, status, told, mark>>
edgeVars == <<limiterVars, now, handlerVars, inFlight, forwarded>>

Controls == {"idle", "limit", "deny", "detect", "forward", "proxying", "answered"}
BackendStatuses == {200, 400, 401, 402, 403, 404, 500}
Statuses == BackendStatuses \cup {0, 429, 502}

EdgeClock == now + EdgeAhead

EdgeInit ==
  /\ Limiter!Init
  /\ pc = [h \in Handlers |-> "idle"]
  /\ req = [h \in Handlers |-> NoRequest]
  /\ tenant = [h \in Handlers |-> "unknown"]
  /\ status = [h \in Handlers |-> 0]
  /\ told = [h \in Handlers |-> FALSE]
  /\ inFlight = 0
  /\ mark = [h \in Handlers |-> 0]
  /\ forwarded = [t \in Tenants |-> 0]

Answer(h, s) ==
  /\ pc' = [pc EXCEPT ![h] = "answered"]
  /\ status' = [status EXCEPT ![h] = s]

-----------------------------------------------------------------------------
(* Faulty variants, used to show that the properties can tell them from    *)
(* the code.                                                               *)

\* Denied requests are logged and let through.
DenyLetsThrough(h) ==
  /\ pc[h] = "limit"
  /\ Limiter!AllowDenies(tenant[h]) \/ Limiter!AllowUnknown(tenant[h])
  /\ pc' = [pc EXCEPT ![h] = "detect"]
  /\ mark' = [mark EXCEPT ![h] = Len(grants[tenant[h]])]
  /\ UNCHANGED <<now, req, tenant, status, told, inFlight, forwarded>>

\* The 429 body estimates the bucket as it is now.
ExplainEstimates(h) ==
  /\ pc[h] = "deny"
  /\ told' = [told EXCEPT ![h] = Limiter!WouldGrant(tenant[h])]
  /\ Answer(h, 429)
  /\ UNCHANGED <<limiterVars, now, req, tenant, mark, inFlight, forwarded>>

\* The gauge is decremented after the proxy returns, not deferred.
CopyBreaksKeepsGauge(h) ==
  /\ pc[h] = "proxying"
  /\ Answer(h, 0)
  /\ UNCHANGED <<limiterVars, now, req, tenant, told, mark, inFlight, forwarded>>

\* The proxy does not notice that a backend has gone.
ProxyWaits(h) == FALSE

\* The proxy tries again when the backend fails; the failed try does not count.
ProxyFailsRetries(h) ==
  /\ pc[h] = "proxying"
  /\ pc' = [pc EXCEPT ![h] = "forward"]
  /\ forwarded' = [forwarded EXCEPT ![tenant[h]] = @ - 1]
  /\ UNCHANGED <<limiterVars, now, req, tenant, status, told, mark, inFlight>>

\* The tenant is taken from the API key field of the body on every path.
ChargeKey(r) == KeyTenant[r.edgeKey]

-----------------------------------------------------------------------------
(* The controls, in the order of the middleware.                           *)

\* The answer before the tenant is known: the body cannot be read or looks
\* like it holds a secret; the bearer token is missing or not valid.
Screened(r) ==
  IF r.body \in {"unreadable", "secret"} THEN 400
  ELSE IF ~r.namesLogin /\ ~ValidateToken(r.token, EdgeClock) THEN 401
  ELSE 0

\* A request whose URI, the query included, names the login is charged to the
\* tenant of the key the edge reads in its body, all else to the token's.
Charge(r) == IF r.namesLogin THEN KeyTenant[r.edgeKey] ELSE r.token.tenant

\* A request arrives and is screened.  Nothing shared but the clock is read.
Receive(h, r) ==
  /\ pc[h] = "idle"
  /\ req' = [req EXCEPT ![h] = r]
  /\ IF Screened(r) = 0
       THEN /\ tenant' = [tenant EXCEPT ![h] = Charge(r)]
            /\ pc' = [pc EXCEPT ![h] = "limit"]
            /\ UNCHANGED status
       ELSE /\ Answer(h, Screened(r))
            /\ UNCHANGED tenant
  /\ UNCHANGED <<limiterVars, now, told, mark, inFlight, forwarded>>

Admit(h) ==
  /\ pc[h] = "limit"
  /\ Limiter!AllowGrants(tenant[h])
  /\ pc' = [pc EXCEPT ![h] = "detect"]
  /\ UNCHANGED <<req, tenant, status, told, mark, inFlight, forwarded>>

Deny(h) ==
  /\ pc[h] = "limit"
  /\ Limiter!AllowDenies(tenant[h]) \/ Limiter!AllowUnknown(tenant[h])
  /\ pc' = [pc EXCEPT ![h] = "deny"]
  /\ mark' = [mark EXCEPT ![h] = Len(grants[tenant[h]])]
  /\ UNCHANGED <<req, tenant, status, told, inFlight, forwarded>>

\* The 429 answer asks the limiter again: Allow has given its lock back.
Explain(h) ==
  /\ pc[h] = "deny"
  /\ told' = [told EXCEPT ![h] = Limiter!StatusAllowed(tenant[h])]
  /\ Answer(h, 429)
  /\ UNCHANGED <<limiterVars, now, req, tenant, mark, inFlight, forwarded>>

\* Detect found a reason to refuse.
Flag(h) ==
  /\ pc[h] = "detect" /\ "flagged" \in Verdicts
  /\ Answer(h, 403)
  /\ UNCHANGED <<limiterVars, now, req, tenant, told, mark, inFlight, forwarded>>

\* Detect found none.
Pass(h) ==
  /\ pc[h] = "detect" /\ "passed" \in Verdicts
  /\ inFlight' = inFlight + 1
  /\ pc' = [pc EXCEPT ![h] = "forward"]
  /\ UNCHANGED <<limiterVars, now, req, tenant, status, told, mark, forwarded>>

\* The body that Detect may have cut is the client's again, so a request is the
\* same for a backend as for the edge.  A URI in absolute form, which the
\* router accepts, has none of the prefixes that name a backend.
Forward(h) ==
  /\ pc[h] = "forward"
  /\ IF req[h].absolute
       THEN /\ Answer(h, 404)
            /\ inFlight' = inFlight - 1
            /\ UNCHANGED forwarded
       ELSE /\ pc' = [pc EXCEPT ![h] = "proxying"]
            /\ forwarded' = [forwarded EXCEPT ![tenant[h]] = @ + 1]
            /\ UNCHANGED <<status, inFlight>>
  /\ UNCHANGED <<limiterVars, now, req, tenant, told, mark>>

\* The proxy has returned, in one of three ways; the gauge is decremented by
\* a deferred call whichever it was.
Return(h, s) ==
  /\ pc[h] = "proxying"
  /\ Answer(h, s)
  /\ inFlight' = inFlight - 1
  /\ UNCHANGED <<limiterVars, now, req, tenant, told, mark, forwarded>>

\* The backend's answer was copied to the client.
Deliver(h, s) == Return(h, s)

\* No answer came: the backend cannot be reached, has closed the connection,
\* or the client has closed its own, which cancels the call.
ProxyFails(h) == Return(h, 502)

\* The answer broke off while it was copied: the proxy panics, and the server
\* closes the connection to the client.
CopyBreaks(h) == Return(h, 0)

Close(h) ==
  /\ pc[h] = "answered"
  /\ pc' = [pc EXCEPT ![h] = "idle"]
  /\ req' = [req EXCEPT ![h] = NoRequest]
  /\ tenant' = [tenant EXCEPT ![h] = "unknown"]
  /\ status' = [status EXCEPT ![h] = 0]
  /\ told' = [told EXCEPT ![h] = FALSE]
  /\ mark' = [mark EXCEPT ![h] = 0]
  /\ UNCHANGED <<limiterVars, now, inFlight, forwarded>>

\* The process dies and is started again: every bucket is full.
EdgeRestart ==
  /\ limits' = InitLimits
  /\ tokens' = [t \in {} |-> 0]
  /\ last' = [t \in {} |-> 0]
  /\ grants' = [t \in Tenants |-> <<>>]
  /\ pc' = [h \in Handlers |-> "idle"]
  /\ req' = [h \in Handlers |-> NoRequest]
  /\ tenant' = [h \in Handlers |-> "unknown"]
  /\ status' = [h \in Handlers |-> 0]
  /\ told' = [h \in Handlers |-> FALSE]
  /\ inFlight' = 0
  /\ mark' = [h \in Handlers |-> 0]
  /\ forwarded' = [t \in Tenants |-> 0]
  /\ UNCHANGED now

EdgeTick == Limiter!Tick /\ UNCHANGED <<handlerVars, inFlight, forwarded>>

\* The steps of a handler that wait for nobody.
Control(h) ==
  \/ Admit(h) \/ Deny(h) \/ Explain(h) \/ Flag(h) \/ Pass(h) \/ Forward(h)

EdgeNext ==
  \/ \E h \in Handlers :
       \/ \E r \in Requests : Receive(h, r)
       \/ Control(h)
       \/ \E s \in BackendStatuses : Deliver(h, s)
       \/ ProxyFails(h) \/ CopyBreaks(h) \/ Close(h)
  \/ EdgeRestart \/ EdgeTick

EdgeSpec == EdgeInit /\ [][EdgeNext]_edgeVars
-----------------------------------------------------------------------------
(* Properties *)

\* Every variable has its type; the tenants charged are those that log in and
\* "unknown".
EdgeTypeOK ==
  /\ Limiter!TypeOK
  /\ pc \in [Handlers -> Controls]
  /\ req \in [Handlers -> Requests \cup {NoRequest}]
  /\ tenant \in [Handlers -> Tenants]
  /\ status \in [Handlers -> Statuses]
  /\ told \in [Handlers -> BOOLEAN]
  /\ inFlight \in Nat
  /\ mark \in [Handlers -> Nat]
  /\ forwarded \in [Tenants -> Nat]

\* The handlers that have taken a grant and not yet used it.
Granted(t) == {h \in Handlers : tenant[h] = t /\ pc[h] \in {"detect", "forward"}}

\* Backends get no request the limiter has not granted to its tenant: since
\* the edge started, the requests handed on and those still being looked at
\* are no more than the grants, so that the limiter's bound on any stretch of
\* time binds the backends' load up to the handlers of the edge (164-209).
ForwardsPaid ==
  \A t \in Tenants :
    forwarded[t] + Cardinality(Granted(t)) <= Len(grants[t])

\* The gauge counts the handlers between their increment and the return of
\* the proxy, however it returned (195-209).
GaugeExact == inFlight = Cardinality({h \in Handlers : pc[h] \in {"forward", "proxying"}})

\* A 429 whose body says that requests are allowed is not a contradiction: a
\* request of the same tenant was granted between the denial and the answer,
\* and left a whole token.  Time alone never makes it say so (164-177).
DenialExplained ==
  \A h \in Handlers :
    told[h] => Len(grants[tenant[h]]) > mark[h]
=============================================================================
