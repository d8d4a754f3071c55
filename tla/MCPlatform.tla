----------------------------- MODULE MCPlatform -----------------------------
(***************************************************************************)
(* A small platform: tenants alpha and beta with a limit, two accounts of  *)
(* alpha's and one of beta's, and a third of alpha's that no start draws.  *)
(***************************************************************************)
EXTENDS Platform

MCKeyTenant == [k \in {"alphaKey", "betaKey", "noKey"} |->
  CASE k = "alphaKey" -> "alpha" [] k = "betaKey" -> "beta" [] OTHER -> "unknown"]

MCCredentials ==
  [t \in {"alpha", "beta"} |->
     IF t = "alpha" THEN [key |-> "alphaKey", secret |-> "alphaSecret"]
                    ELSE [key |-> "betaKey", secret |-> "betaSecret"]]

MCTenants == {"alpha", "beta", "unknown"}
MCInitLimits == [t \in {"alpha", "beta"} |-> IF t = "alpha" THEN 2 ELSE 1]

MCTenantOf ==
  [a \in {"a1", "a2", "a3", "b1"} |-> IF a = "b1" THEN "beta" ELSE "alpha"]
MCSeeds == {[a \in {"a1", "a2", "b1"} |-> 1]}

MCTransferAhead == -2

Blank ==
  [route |-> "search", absolute |-> FALSE, namesLogin |-> FALSE, body |-> "plain",
   edgeKey |-> "noKey", wellFormed |-> TRUE, key |-> "noKey", secret |-> "noSecret",
   account |-> "a1", to |-> "a1", amount |-> 0, token |-> Forged, issued |-> 0]

Login ==
  [Blank EXCEPT !.route = "login", !.namesLogin = TRUE,
                !.edgeKey = "alphaKey", !.key = "alphaKey", !.secret = "alphaSecret"]
Look == Blank
Pay == [Blank EXCEPT !.route = "transfer", !.to = "a2", !.amount = 1]

Stray == [Login EXCEPT !.secret = "betaSecret"]
Broken == [Login EXCEPT !.wellFormed = FALSE, !.edgeKey = "betaKey"]
Leak == [Login EXCEPT !.body = "secret"]
LookBeta == [Look EXCEPT !.edgeKey = "betaKey", !.account = "b1"]
LookOwn == [Look EXCEPT !.edgeKey = "betaKey"]
LookPast == [Look EXCEPT !.absolute = TRUE]
LookGone == [Look EXCEPT !.account = "a3"]
PayBeta == [Pay EXCEPT !.to = "b1"]

\* Requests that the edge and the service read differently.
LoginTwice == [Login EXCEPT !.edgeKey = "betaKey"]
LookNamed == [Look EXCEPT !.namesLogin = TRUE, !.edgeKey = "betaKey"]
PayNamed == [Pay EXCEPT !.namesLogin = TRUE]

MCQueries == {Login, Stray, Broken, Leak, LookBeta, LookOwn, LookPast, LookGone, Pay, PayBeta,
              LoginTwice, LookNamed, PayNamed}

Tokens == [tenant : DOMAIN MCCredentials, at : 0..MaxTime]

MCRequests ==
  MCQueries \cup
  {Bearing(q, [token |-> NewToken(k.tenant, k.at + AuthAhead), at |-> k.at]) :
     q \in {r \in MCQueries : r.route # "login"}, k \in Tokens}

\* What clients send in one behaviour, how often a service restarts, and
\* for how long it goes on.
Budget(some, n, starts, time) ==
  [asks |-> [q \in MCQueries |-> IF q \in some THEN n ELSE 0],
   restarts |-> starts, until |-> time]

MCBudgets ==
  {Budget({Stray}, 4, 0, 1),                \* denials, and why
   Budget({Stray, Broken}, 1, 1, 1),        \* an edge or auth restart
   Budget({Login, LookOwn, LookBeta}, 1, 1, 1),
   Budget({Login, LookGone, Pay}, 1, 0, 1),
   Budget({Login, Leak, LookPast}, 1, 0, 0),
   Budget({Login, Pay, PayBeta}, 1, 0, 1),
   Budget({LoginTwice, LookNamed}, 1, 0, 1), \* and their tokens, or none
   Budget({Login, PayNamed}, 1, 0, 2),
   Budget({Login, Pay}, 1, 2, 1),           \* calls that outlive processes
   Budget({Login, Pay}, 1, 0, 3),           \* tokens not yet valid
   Budget({Login, LookOwn}, 1, 0, 4)}       \* tokens no longer valid
=============================================================================
