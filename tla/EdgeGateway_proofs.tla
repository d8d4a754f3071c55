-------------------------- MODULE EdgeGateway_proofs --------------------------
(***************************************************************************)
(* Theorems about EdgeGateway, for any handlers, requests, limits, clocks  *)
(* and verdicts of the detector.  They use of the limiter's state only     *)
(* what its three ways to answer do to it.                                 *)
(***************************************************************************)
EXTENDS EdgeGateway, FiniteSetTheorems, SequenceTheorems, TLAPS

\* What the proofs need of the types.  That no bucket is without a limit is
\* the limiter's: a tenant that it does not know has no tokens to show.
Types ==
  /\ pc \in [Handlers -> Controls]
  /\ tenant \in [Handlers -> Tenants]
  /\ told \in [Handlers -> BOOLEAN]
  /\ mark \in [Handlers -> Nat]
  /\ forwarded \in [Tenants -> Nat]
  /\ now \in Nat
  /\ limits \in [DOMAIN limits -> Nat]
  /\ grants \in [Tenants -> Seq([at : Nat, peak : Nat])]
  /\ DOMAIN tokens \subseteq DOMAIN limits

\* The handlers the gauge counts.
Flying == {h \in Handlers : pc[h] \in {"forward", "proxying"}}

\* A handler that was denied and has not said why: an allowing status, if it
\* finds one, is due to a grant since.
Denied(h) ==
  pc[h] = "deny" =>
    /\ mark[h] <= Len(grants[tenant[h]])
    /\ Limiter!StatusAllowed(tenant[h]) => Len(grants[tenant[h]]) > mark[h]

DenialInv ==
  /\ DenialExplained
  /\ \A h \in Handlers : Denied(h)
  /\ \A h \in Handlers : told[h] => pc[h] = "answered"

EdgeInv == Types /\ GaugeExact /\ ForwardsPaid /\ DenialInv

-----------------------------------------------------------------------------
(* The sets that are counted                                               *)

LEMMA SetsFinite ==
  /\ IsFiniteSet(Flying) /\ Cardinality(Flying) \in Nat
  /\ \A t : IsFiniteSet(Granted(t)) /\ Cardinality(Granted(t)) \in Nat
<1>1. IsFiniteSet(Handlers)
  BY EdgeAssumption
<1>2. Flying \in SUBSET Handlers /\ \A t : Granted(t) \in SUBSET Handlers
  BY DEF Flying, Granted
<1> QED
  BY <1>1, <1>2, FS_Subset, FS_CardinalityType

\* Granting a handler that had no grant adds one to its tenant's.
LEMMA GrantedAdds ==
  ASSUME Types, NEW h \in Handlers, pc[h] = "limit",
         pc' = [pc EXCEPT ![h] = "detect"], tenant' = tenant
  PROVE  \A t : Cardinality(Granted(t)') =
                  IF t = tenant[h] THEN Cardinality(Granted(t)) + 1 ELSE Cardinality(Granted(t))
<1> SUFFICES ASSUME NEW t
             PROVE  Cardinality(Granted(t)') =
                      IF t = tenant[h] THEN Cardinality(Granted(t)) + 1 ELSE Cardinality(Granted(t))
  OBVIOUS
<1>1. h \notin Granted(t)
  BY DEF Granted
<1>2. CASE t = tenant[h]
  <2>1. Granted(t)' = Granted(t) \cup {h}
    BY <1>2 DEF Granted, Types
  <2> QED
    BY <1>1, <1>2, <2>1, SetsFinite, FS_AddElement
<1>3. CASE t # tenant[h]
  <2>1. Granted(t)' = Granted(t)
    BY <1>3 DEF Granted, Types
  <2> QED
    BY <1>3, <2>1
<1> QED
  BY <1>2, <1>3

\* A handler that has used its grant or thrown it away is counted no more.
LEMMA GrantedDrops ==
  ASSUME Types, NEW h \in Handlers, pc[h] \in {"detect", "forward"},
         pc'[h] \notin {"detect", "forward"},
         \A u \in Handlers : u # h => pc'[u] = pc[u], tenant' = tenant
  PROVE  \A t : Cardinality(Granted(t)') =
                  IF t = tenant[h] THEN Cardinality(Granted(t)) - 1 ELSE Cardinality(Granted(t))
<1> SUFFICES ASSUME NEW t
             PROVE  Cardinality(Granted(t)') =
                      IF t = tenant[h] THEN Cardinality(Granted(t)) - 1 ELSE Cardinality(Granted(t))
  OBVIOUS
<1>1. CASE t = tenant[h]
  <2>1. Granted(t)' = Granted(t) \ {h}
    BY <1>1 DEF Granted, Types
  <2>2. h \in Granted(t)
    BY <1>1 DEF Granted
  <2> QED
    BY <1>1, <2>1, <2>2, SetsFinite, FS_RemoveElement
<1>2. CASE t # tenant[h]
  <2>1. Granted(t)' = Granted(t)
    BY <1>2 DEF Granted, Types
  <2> QED
    BY <1>2, <2>1
<1> QED
  BY <1>1, <1>2

LEMMA FlyingAdds ==
  ASSUME Types, NEW h \in Handlers, pc[h] = "detect", pc' = [pc EXCEPT ![h] = "forward"]
  PROVE  Cardinality(Flying') = Cardinality(Flying) + 1
<1>1. Flying' = Flying \cup {h} /\ h \notin Flying
  BY DEF Flying, Types
<1> QED
  BY <1>1, SetsFinite, FS_AddElement

LEMMA FlyingDrops ==
  ASSUME Types, NEW h \in Handlers, pc[h] \in {"forward", "proxying"},
         pc' = [pc EXCEPT ![h] = "answered"]
  PROVE  Cardinality(Flying') = Cardinality(Flying) - 1
<1>1. Flying' = Flying \ {h} /\ h \in Flying
  BY DEF Flying, Types
<1> QED
  BY <1>1, SetsFinite, FS_RemoveElement

LEMMA FlyingStays ==
  ASSUME Types, NEW h \in Handlers, NEW c, pc' = [pc EXCEPT ![h] = c],
         pc[h] \in {"forward", "proxying"} <=> c \in {"forward", "proxying"}
  PROVE  Flying' = Flying
BY DEF Flying, Types

-----------------------------------------------------------------------------
(* The limiter                                                             *)

\* A grant is recorded; of the buckets only the tenant's changes.
LEMMA LimiterGrants ==
  ASSUME Types, NEW t \in Tenants, Limiter!AllowGrants(t)
  PROVE  /\ now' = now /\ limits' = limits
         /\ grants' \in [Tenants -> Seq([at : Nat, peak : Nat])]
         /\ Len(grants'[t]) = Len(grants[t]) + 1
         /\ \A u \in Tenants : u # t => grants'[u] = grants[u]
         /\ \A u \in Tenants : u # t => (Limiter!StatusAllowed(u)' <=> Limiter!StatusAllowed(u))
         /\ DOMAIN tokens' \subseteq DOMAIN limits'
<1> DEFINE g == [at |-> now, peak |-> limits[t]]
<1>1. /\ now' = now /\ limits' = limits
      /\ grants' = [grants EXCEPT ![t] = Append(@, g)]
      /\ tokens' = Limiter!Put(tokens, t, Limiter!Refilled(t) - Minute)
      /\ t \in DOMAIN limits
  BY DEF Limiter!AllowGrants, Limiter!WouldGrant
<1>2. grants[t] \in Seq([at : Nat, peak : Nat]) /\ g \in [at : Nat, peak : Nat]
  BY <1>1 DEF Types
<1>3. /\ Append(grants[t], g) \in Seq([at : Nat, peak : Nat])
      /\ Len(Append(grants[t], g)) = Len(grants[t]) + 1
  BY <1>2, AppendProperties
<1>4. \A u \in Tenants : u # t => (Limiter!StatusAllowed(u)' <=> Limiter!StatusAllowed(u))
  BY <1>1 DEF Limiter!StatusAllowed, Limiter!StatusTokens, Limiter!Get, Limiter!Put
<1>5. DOMAIN tokens' \subseteq DOMAIN limits'
  BY <1>1 DEF Limiter!Put, Types
<1> QED
  BY <1>1, <1>3, <1>4, <1>5 DEF Types

\* A denial leaves the tenant with less than a token, and no one with more.
LEMMA LimiterDenies ==
  ASSUME Types, NEW t \in Tenants, Limiter!AllowDenies(t) \/ Limiter!AllowUnknown(t)
  PROVE  /\ now' = now /\ limits' = limits /\ grants' = grants
         /\ ~Limiter!StatusAllowed(t)'
         /\ \A u \in Tenants : Limiter!StatusAllowed(u)' => Limiter!StatusAllowed(u)
         /\ DOMAIN tokens' \subseteq DOMAIN limits'
<1>1. Minute \in Nat \ {0}
  BY EdgeAssumption
<1>2. CASE Limiter!AllowDenies(t)
  <2>1. /\ now' = now /\ limits' = limits /\ grants' = grants
        /\ tokens' = Limiter!Put(tokens, t, Limiter!Refilled(t))
        /\ t \in DOMAIN limits
        /\ ~(Limiter!Refilled(t) >= Minute)
    BY <1>2 DEF Limiter!AllowDenies, Limiter!WouldGrant
  <2>2. ~Limiter!StatusAllowed(t)'
    BY <2>1 DEF Limiter!StatusAllowed, Limiter!StatusTokens, Limiter!Get, Limiter!Put
  <2>3. \A u \in Tenants : u # t => (Limiter!StatusAllowed(u)' <=> Limiter!StatusAllowed(u))
    BY <2>1 DEF Limiter!StatusAllowed, Limiter!StatusTokens, Limiter!Get, Limiter!Put
  <2>4. DOMAIN tokens' \subseteq DOMAIN limits'
    BY <2>1 DEF Limiter!Put, Types
  <2> QED
    BY <2>1, <2>2, <2>3, <2>4
<1>3. CASE Limiter!AllowUnknown(t)
  <2>1. now' = now /\ limits' = limits /\ grants' = grants /\ tokens' = tokens /\ t \notin DOMAIN limits
    BY <1>3 DEF Limiter!AllowUnknown, Limiter!vars
  <2>2. Limiter!StatusTokens(t)' = 0
    BY <2>1 DEF Types, Limiter!StatusTokens, Limiter!Get
  <2>3. ~Limiter!StatusAllowed(t)'
    BY <1>1, <2>2 DEF Limiter!StatusAllowed
  <2>4. \A u \in Tenants : Limiter!StatusAllowed(u)' <=> Limiter!StatusAllowed(u)
    BY <2>1 DEF Limiter!StatusAllowed, Limiter!StatusTokens, Limiter!Get
  <2> QED
    BY <2>1, <2>3, <2>4 DEF Types
<1> QED
  BY <1>2, <1>3

\* Where tokens stay, so does what a status says.
LEMMA StatusStays ==
  ASSUME tokens' = tokens, NEW t
  PROVE  Limiter!StatusAllowed(t)' <=> Limiter!StatusAllowed(t)
BY DEF Limiter!StatusAllowed, Limiter!StatusTokens, Limiter!Get

-----------------------------------------------------------------------------
(* Types                                                                   *)

LEMMA InitTypes == EdgeInit => Types
<1> SUFFICES ASSUME EdgeInit PROVE Types
  OBVIOUS
<1>1. grants = [t \in Tenants |-> <<>>] /\ now = 0 /\ tokens = [t \in {} |-> 0]
  BY DEF EdgeInit, Limiter!Init
<1>2. grants \in [Tenants -> Seq([at : Nat, peak : Nat])] /\ DOMAIN tokens \subseteq DOMAIN limits
  BY <1>1
<1> QED
  <2>1. limits \in [DOMAIN limits -> Nat]
    BY EdgeAssumption DEF EdgeInit, Limiter!Init
  <2>2. now \in Nat
    BY <1>1
  <2> QED
    BY <1>2, <2>1, <2>2, EdgeAssumption DEF EdgeInit, Types, Controls

\* Every request is charged to a tenant the assumption names.
LEMMA ChargeType ==
  ASSUME NEW r \in Requests, Screened(r) = 0
  PROVE  Charge(r) \in Tenants
<1>1. CASE r.namesLogin
  BY <1>1, EdgeAssumption DEF Charge
<1>2. CASE ~r.namesLogin
  <2>1. ValidateToken(r.token, EdgeClock)
    BY <1>2 DEF Screened
  <2> QED
    BY <1>2, <2>1, EdgeAssumption DEF Charge, ValidateToken
<1> QED
  BY <1>1, <1>2

\* The last control answers by itself or hands the request on.
LEMMA ForwardCases ==
  ASSUME NEW h \in Handlers, Forward(h)
  PROVE  \/ /\ pc' = [pc EXCEPT ![h] = "answered"]
            /\ inFlight' = inFlight - 1 /\ forwarded' = forwarded
         \/ /\ pc' = [pc EXCEPT ![h] = "proxying"]
            /\ inFlight' = inFlight
            /\ forwarded' = [forwarded EXCEPT ![tenant[h]] = @ + 1]
<1>1. CASE req[h].absolute
  BY <1>1, Zenon DEF Forward, Answer
<1>2. CASE ~req[h].absolute
  BY <1>2, Zenon DEF Forward
<1> QED
  BY <1>1, <1>2

\* Nothing changes here but for the handler's control.
LEMMA ForwardLeaves ==
  ASSUME NEW h \in Handlers, Forward(h)
  PROVE  /\ pc[h] = "forward"
         /\ UNCHANGED <<limiterVars, now, tenant, told, mark>>
BY Zenon DEF Forward

LEMMA ReceiveTypes ==
  ASSUME Types, NEW h \in Handlers, NEW r, Screened(r) = 0 => Charge(r) \in Tenants, Receive(h, r)
  PROVE  Types'
<1>1. pc' \in [Handlers -> Controls]
  BY DEF Types, Receive, Answer, Controls
<1>2. tenant' \in [Handlers -> Tenants]
  BY DEF Types, Receive
<1> QED
  BY <1>1, <1>2 DEF Types, Receive, limiterVars

LEMMA ControlTypes ==
  ASSUME Types, NEW h \in Handlers, Control(h)
  PROVE  Types'
<1>1. tenant[h] \in Tenants
  BY DEF Types
<1>2. CASE Admit(h)
  BY <1>1, <1>2, LimiterGrants DEF Types, Admit, Controls
<1>3. CASE Deny(h)
  <2>1. Len(grants[tenant[h]]) \in Nat
    BY <1>1, LenProperties DEF Types
  <2> QED
    BY <1>1, <1>3, <2>1, LimiterDenies DEF Types, Deny, Controls
<1>4. CASE Explain(h)
  <2>1. Limiter!StatusAllowed(tenant[h]) \in BOOLEAN
    BY DEF Limiter!StatusAllowed
  <2> QED
    BY <1>4, <2>1 DEF Types, Explain, Answer, Controls, limiterVars
<1>5. CASE Flag(h)
  BY <1>5 DEF Types, Flag, Answer, Controls, limiterVars
<1>6. CASE Pass(h)
  BY <1>6 DEF Types, Pass, Controls, limiterVars
<1>7. CASE Forward(h)
  <2>1. forwarded' \in [Tenants -> Nat]
    <3>1. forwarded \in [Tenants -> Nat]
      BY DEF Types
    <3>2. forwarded' = forwarded \/ forwarded' = [forwarded EXCEPT ![tenant[h]] = @ + 1]
      BY <1>7, ForwardCases
    <3> QED
      BY <1>1, <3>1, <3>2
  <2>2. pc' \in [Handlers -> Controls]
    BY <1>7, ForwardCases DEF Types, Controls
  <2> QED
    BY <1>7, <2>1, <2>2, ForwardLeaves DEF Types, limiterVars
<1> QED
  BY <1>2, <1>3, <1>4, <1>5, <1>6, <1>7 DEF Control

LEMMA ReturnTypes ==
  ASSUME Types, NEW h \in Handlers, NEW s, Return(h, s)
  PROVE  Types'
BY DEF Types, Return, Answer, Controls, limiterVars

LEMMA CloseTypes ==
  ASSUME Types, NEW h \in Handlers, Close(h)
  PROVE  Types'
BY EdgeAssumption DEF Types, Close, Controls, limiterVars

LEMMA RestartTypes ==
  ASSUME Types, EdgeRestart
  PROVE  Types'
<1>1. grants' \in [Tenants -> Seq([at : Nat, peak : Nat])] /\ DOMAIN tokens' \subseteq DOMAIN limits'
  BY DEF EdgeRestart
<1> QED
  BY <1>1, EdgeAssumption DEF Types, EdgeRestart, Controls

LEMMA TickTypes ==
  ASSUME Types, EdgeTick
  PROVE  Types'
BY DEF Types, EdgeTick, Limiter!Tick, handlerVars

-----------------------------------------------------------------------------
(* The gauge                                                               *)

LEMMA ControlGauge ==
  ASSUME Types, GaugeExact, NEW h \in Handlers, Control(h)
  PROVE  GaugeExact'
<1>0. inFlight = Cardinality(Flying) /\ (GaugeExact' <=> inFlight' = Cardinality(Flying'))
  BY DEF GaugeExact, Flying
<1>1. CASE Admit(h)
  <2>1. Flying' = Flying
    BY <1>1, FlyingStays DEF Admit
  <2> QED
    BY <1>0, <1>1, <2>1 DEF Admit
<1>2. CASE Deny(h)
  <2>1. Flying' = Flying
    BY <1>2, FlyingStays DEF Deny
  <2> QED
    BY <1>0, <1>2, <2>1 DEF Deny
<1>3. CASE Explain(h)
  <2>1. Flying' = Flying
    BY <1>3, FlyingStays DEF Explain, Answer
  <2> QED
    BY <1>0, <1>3, <2>1 DEF Explain
<1>4. CASE Flag(h)
  <2>1. Flying' = Flying
    BY <1>4, FlyingStays DEF Flag, Answer
  <2> QED
    BY <1>0, <1>4, <2>1 DEF Flag
<1>5. CASE Pass(h)
  <2>1. Cardinality(Flying') = Cardinality(Flying) + 1
    BY <1>5, FlyingAdds DEF Pass
  <2> QED
    BY <1>0, <1>5, <2>1 DEF Pass
<1>6. CASE Forward(h)
  <2>1. pc[h] = "forward"
    BY <1>6, ForwardLeaves
  <2>2. CASE pc' = [pc EXCEPT ![h] = "answered"] /\ inFlight' = inFlight - 1
    <3>1. Cardinality(Flying') = Cardinality(Flying) - 1
      BY <2>1, <2>2, FlyingDrops
    <3> QED
      BY <1>0, <2>2, <3>1
  <2>3. CASE pc' = [pc EXCEPT ![h] = "proxying"] /\ inFlight' = inFlight
    <3>1. Flying' = Flying
      BY <2>1, <2>3, FlyingStays
    <3> QED
      BY <1>0, <2>3, <3>1
  <2> QED
    BY <1>6, <2>2, <2>3, ForwardCases
<1> QED
  BY <1>1, <1>2, <1>3, <1>4, <1>5, <1>6 DEF Control

LEMMA OtherGauge ==
  ASSUME Types, GaugeExact,
         \/ \E h \in Handlers : (\E r : Receive(h, r)) \/ (\E s : Return(h, s)) \/ Close(h)
         \/ EdgeRestart \/ EdgeTick
  PROVE  GaugeExact'
<1>0. inFlight = Cardinality(Flying) /\ (GaugeExact' <=> inFlight' = Cardinality(Flying'))
  BY DEF GaugeExact, Flying
<1>1. ASSUME NEW h \in Handlers, NEW r, Receive(h, r)
      PROVE  GaugeExact'
  <2>1. Flying' = Flying
    <3>1. pc[h] = "idle" /\ \E c \in {"limit", "answered"} : pc' = [pc EXCEPT ![h] = c]
      BY <1>1 DEF Receive, Answer
    <3> QED
      BY <3>1, FlyingStays
  <2> QED
    BY <1>0, <1>1, <2>1 DEF Receive
<1>2. ASSUME NEW h \in Handlers, NEW s, Return(h, s)
      PROVE  GaugeExact'
  <2>1. Cardinality(Flying') = Cardinality(Flying) - 1
    BY <1>2, FlyingDrops DEF Return, Answer
  <2> QED
    BY <1>0, <1>2, <2>1 DEF Return
<1>3. ASSUME NEW h \in Handlers, Close(h)
      PROVE  GaugeExact'
  <2>1. Flying' = Flying
    BY <1>3, FlyingStays DEF Close
  <2> QED
    BY <1>0, <1>3, <2>1 DEF Close
<1>4. CASE EdgeRestart
  <2>1. Flying' = {} /\ inFlight' = 0
    BY <1>4 DEF EdgeRestart, Flying
  <2> QED
    BY <1>0, <2>1, FS_EmptySet
<1>5. CASE EdgeTick
  BY <1>5 DEF EdgeTick, GaugeExact, handlerVars
<1> QED
  BY <1>1, <1>2, <1>3, <1>4, <1>5

-----------------------------------------------------------------------------
(* Grants and the requests they pay for                                    *)

LEMMA ControlPaid ==
  ASSUME Types, ForwardsPaid, NEW h \in Handlers, Control(h)
  PROVE  ForwardsPaid'
<1> SUFFICES ASSUME NEW t \in Tenants
             PROVE  forwarded'[t] + Cardinality(Granted(t)') <= Len(grants'[t])
  BY DEF ForwardsPaid
<1>1. /\ forwarded[t] + Cardinality(Granted(t)) <= Len(grants[t])
      /\ forwarded[t] \in Nat /\ Len(grants[t]) \in Nat /\ tenant[h] \in Tenants
      /\ Cardinality(Granted(t)) \in Nat
  BY LenProperties, SetsFinite DEF ForwardsPaid, Types
<1>2. CASE Admit(h)
  <2>1. Cardinality(Granted(t)') = IF t = tenant[h] THEN Cardinality(Granted(t)) + 1 ELSE Cardinality(Granted(t))
    BY <1>2, GrantedAdds DEF Admit
  <2>2. /\ Len(grants'[tenant[h]]) = Len(grants[tenant[h]]) + 1
        /\ t # tenant[h] => grants'[t] = grants[t]
    BY <1>1, <1>2, LimiterGrants DEF Admit
  <2>3. forwarded' = forwarded
    BY <1>2 DEF Admit
  <2> QED
    BY <1>1, <2>1, <2>2, <2>3
<1>3. CASE Deny(h)
  <2>1. Granted(t)' = Granted(t)
    BY <1>3 DEF Deny, Granted, Types
  <2>2. grants' = grants /\ forwarded' = forwarded
    BY <1>1, <1>3, LimiterDenies DEF Deny
  <2> QED
    BY <1>1, <2>1, <2>2
<1>4. CASE Explain(h)
  <2>1. Granted(t)' = Granted(t)
    BY <1>4 DEF Explain, Answer, Granted, Types
  <2>2. grants' = grants /\ forwarded' = forwarded
    BY <1>4 DEF Explain, limiterVars
  <2> QED
    BY <1>1, <2>1, <2>2
<1>5. CASE Flag(h)
  <2>1. Cardinality(Granted(t)') = IF t = tenant[h] THEN Cardinality(Granted(t)) - 1 ELSE Cardinality(Granted(t))
    <3>1. /\ pc[h] = "detect" /\ pc'[h] = "answered" /\ tenant' = tenant
          /\ \A u \in Handlers : u # h => pc'[u] = pc[u]
      BY <1>5 DEF Flag, Answer, Types
    <3>2. pc[h] \in {"detect", "forward"} /\ pc'[h] \notin {"detect", "forward"}
      BY <3>1
    <3> QED
      BY <3>1, <3>2, GrantedDrops
  <2>2. grants' = grants /\ forwarded' = forwarded
    BY <1>5 DEF Flag, limiterVars
  <2> QED
    BY <1>1, <2>1, <2>2
<1>6. CASE Pass(h)
  <2>1. Granted(t)' = Granted(t)
    BY <1>6 DEF Pass, Granted, Types
  <2>2. grants' = grants /\ forwarded' = forwarded
    BY <1>6 DEF Pass, limiterVars
  <2> QED
    BY <1>1, <2>1, <2>2
<1>7. CASE Forward(h)
  <2>1. grants' = grants /\ tenant' = tenant /\ pc[h] = "forward"
    BY <1>7, ForwardLeaves DEF limiterVars
  <2>2. Cardinality(Granted(t)') = IF t = tenant[h] THEN Cardinality(Granted(t)) - 1 ELSE Cardinality(Granted(t))
    <3>1. /\ pc'[h] \in {"answered", "proxying"}
          /\ \A u \in Handlers : u # h => pc'[u] = pc[u]
      BY <1>7, ForwardCases DEF Types
    <3>2. pc[h] \in {"detect", "forward"} /\ pc'[h] \notin {"detect", "forward"}
      BY <2>1, <3>1
    <3> QED
      BY <2>1, <3>1, <3>2, GrantedDrops
  <2>3. forwarded'[t] = IF t = tenant[h] /\ forwarded' # forwarded THEN forwarded[t] + 1 ELSE forwarded[t]
    BY <1>1, <1>7, ForwardCases DEF Types
  <2> QED
    BY <1>1, <2>1, <2>2, <2>3
<1> QED
  BY <1>2, <1>3, <1>4, <1>5, <1>6, <1>7 DEF Control

LEMMA OtherPaid ==
  ASSUME Types, ForwardsPaid,
         \/ \E h \in Handlers : (\E r : Receive(h, r)) \/ (\E s : Return(h, s)) \/ Close(h)
         \/ EdgeRestart \/ EdgeTick
  PROVE  ForwardsPaid'
<1> SUFFICES ASSUME NEW t \in Tenants
             PROVE  forwarded'[t] + Cardinality(Granted(t)') <= Len(grants'[t])
  BY DEF ForwardsPaid
<1>1. forwarded[t] + Cardinality(Granted(t)) <= Len(grants[t])
  BY DEF ForwardsPaid
<1>2. ASSUME NEW h \in Handlers, NEW r, Receive(h, r)
      PROVE  Granted(t)' = Granted(t) /\ UNCHANGED <<grants, forwarded>>
  BY <1>2 DEF Receive, Answer, Granted, Types, limiterVars
<1>3. ASSUME NEW h \in Handlers, NEW s, Return(h, s)
      PROVE  Granted(t)' = Granted(t) /\ UNCHANGED <<grants, forwarded>>
  BY <1>3 DEF Return, Answer, Granted, Types, limiterVars
<1>4. ASSUME NEW h \in Handlers, Close(h)
      PROVE  forwarded'[t] + Cardinality(Granted(t)') <= Len(grants'[t])
  <2>1. Granted(t)' = Granted(t) /\ UNCHANGED <<grants, forwarded>>
    BY <1>4 DEF Close, Granted, Types, limiterVars
  <2> QED
    BY <1>1, <2>1
<1>5. CASE EdgeRestart
  <2>1. Granted(t)' = {} /\ forwarded'[t] = 0 /\ grants'[t] = <<>>
    BY <1>5 DEF EdgeRestart, Granted
  <2> QED
    BY <2>1, FS_EmptySet, EmptySeq
<1>6. CASE EdgeTick
  <2>1. Granted(t)' = Granted(t) /\ UNCHANGED <<grants, forwarded>>
    BY <1>6 DEF EdgeTick, Limiter!Tick, Granted, handlerVars
  <2> QED
    BY <1>1, <2>1
<1> QED
  BY <1>1, <1>2, <1>3, <1>4, <1>5, <1>6

-----------------------------------------------------------------------------
(* What a denied handler tells                                             *)

\* A step of a handler that touches no grant and no token, and neither makes
\* it tell nor follows on its telling, keeps all of it.
LEMMA DenialStays ==
  ASSUME Types, DenialInv, NEW h \in Handlers, NEW c, c # "deny", pc[h] # "answered",
         UNCHANGED <<grants, tokens, told, mark>>,
         pc' = [pc EXCEPT ![h] = c],
         \A u \in Handlers : u # h => tenant'[u] = tenant[u]
  PROVE  DenialInv'
<1>1. \A u \in Handlers : u # h => pc'[u] = pc[u]
  BY DEF Types
<1>2. pc'[h] = c /\ ~told[h]
  BY DEF Types, DenialInv
<1>3. ASSUME NEW u \in Handlers, told'[u]
      PROVE  Len(grants'[tenant'[u]]) > mark'[u] /\ pc'[u] = "answered"
  BY <1>1, <1>2, <1>3 DEF DenialInv, DenialExplained
<1>4. ASSUME NEW u \in Handlers
      PROVE  Denied(u)'
  <2>1. CASE u = h
    BY <1>2, <2>1 DEF Denied
  <2>2. CASE u # h
    <3>1. Denied(u)
      BY DEF DenialInv
    <3> QED
      BY <1>1, <2>2, <3>1, StatusStays DEF Denied
  <2> QED
    BY <2>1, <2>2
<1> QED
  BY <1>3, <1>4 DEF DenialInv, DenialExplained

LEMMA AdmitDenial ==
  ASSUME Types, DenialInv, NEW h \in Handlers, Admit(h)
  PROVE  DenialInv'
<1>1. tenant[h] \in Tenants /\ \A u \in Handlers : tenant[u] \in Tenants /\ mark[u] \in Nat
  BY DEF Types
<1>2. \A t \in Tenants : Len(grants[t]) \in Nat
  BY LenProperties DEF Types
<1>3. /\ Len(grants'[tenant[h]]) = Len(grants[tenant[h]]) + 1
      /\ \A t \in Tenants : t # tenant[h] => grants'[t] = grants[t]
      /\ \A t \in Tenants : t # tenant[h] => (Limiter!StatusAllowed(t)' <=> Limiter!StatusAllowed(t))
  BY <1>1, LimiterGrants DEF Admit
<1>4. UNCHANGED <<tenant, told, mark>> /\ \A u \in Handlers : pc'[u] = "deny" => pc[u] = "deny"
  BY DEF Admit, Types
<1>5. ASSUME NEW u \in Handlers, told'[u]
      PROVE  Len(grants'[tenant'[u]]) > mark'[u] /\ pc'[u] = "answered"
  <2>1. Len(grants[tenant[u]]) > mark[u] /\ pc[u] = "answered"
    BY <1>4, <1>5 DEF DenialInv, DenialExplained
  <2>2. pc'[u] = "answered"
    BY <2>1 DEF Admit, Types
  <2> QED
    BY <1>1, <1>2, <1>3, <1>4, <2>1, <2>2
<1>6. ASSUME NEW u \in Handlers
      PROVE  Denied(u)'
  <2>1. SUFFICES ASSUME pc'[u] = "deny"
                 PROVE  /\ mark[u] <= Len(grants'[tenant[u]])
                        /\ Limiter!StatusAllowed(tenant[u])' => Len(grants'[tenant[u]]) > mark[u]
    BY <1>4 DEF Denied
  <2>2. /\ mark[u] <= Len(grants[tenant[u]])
        /\ Limiter!StatusAllowed(tenant[u]) => Len(grants[tenant[u]]) > mark[u]
    BY <1>4, <2>1 DEF DenialInv, Denied
  <2>3. CASE tenant[u] = tenant[h]
    <3>1. Len(grants'[tenant[u]]) = Len(grants[tenant[u]]) + 1
      BY <1>3, <2>3
    <3>2. Len(grants[tenant[u]]) \in Nat /\ mark[u] \in Nat
      BY <1>1, <1>2
    <3> QED
      BY <2>2, <3>1, <3>2
  <2>4. CASE tenant[u] # tenant[h]
    BY <1>1, <1>3, <1>4, <2>2, <2>4
  <2> QED
    BY <2>3, <2>4
<1> QED
  BY <1>5, <1>6 DEF DenialInv, DenialExplained

LEMMA DenyDenial ==
  ASSUME Types, DenialInv, NEW h \in Handlers, Deny(h)
  PROVE  DenialInv'
<1>1. \A u \in Handlers : tenant[u] \in Tenants
  BY DEF Types
<1>2. Len(grants[tenant[h]]) \in Nat
  BY <1>1, LenProperties DEF Types
<1>3. /\ grants' = grants
      /\ ~Limiter!StatusAllowed(tenant[h])'
      /\ \A t \in Tenants : Limiter!StatusAllowed(t)' => Limiter!StatusAllowed(t)
  BY <1>1, LimiterDenies DEF Deny
<1>4. /\ UNCHANGED <<tenant, told>>
      /\ mark'[h] = Len(grants[tenant[h]])
      /\ \A u \in Handlers : u # h => mark'[u] = mark[u] /\ pc'[u] = pc[u]
  BY DEF Deny, Types
<1>5. ~told[h]
  BY DEF Deny, DenialInv
<1>6. ASSUME NEW u \in Handlers, told'[u]
      PROVE  Len(grants'[tenant'[u]]) > mark'[u] /\ pc'[u] = "answered"
  BY <1>3, <1>4, <1>5, <1>6 DEF DenialInv, DenialExplained
<1>7. ASSUME NEW u \in Handlers
      PROVE  Denied(u)'
  <2>1. CASE u = h
    BY <1>2, <1>3, <1>4, <2>1 DEF Denied
  <2>2. CASE u # h
    BY <1>1, <1>3, <1>4, <2>2 DEF DenialInv, Denied
  <2> QED
    BY <2>1, <2>2
<1> QED
  BY <1>6, <1>7 DEF DenialInv, DenialExplained

LEMMA ExplainDenial ==
  ASSUME Types, DenialInv, NEW h \in Handlers, Explain(h)
  PROVE  DenialInv'
<1>1. /\ pc[h] = "deny" /\ UNCHANGED <<grants, tokens, tenant, mark>>
      /\ pc'[h] = "answered"
      /\ told'[h] <=> Limiter!StatusAllowed(tenant[h])
      /\ \A u \in Handlers : u # h => told'[u] = told[u] /\ pc'[u] = pc[u]
  BY DEF Explain, Answer, Types, limiterVars
<1>2. ASSUME NEW u \in Handlers, told'[u]
      PROVE  Len(grants'[tenant'[u]]) > mark'[u] /\ pc'[u] = "answered"
  <2>1. CASE u = h
    BY <1>1, <1>2, <2>1 DEF DenialInv, Denied
  <2>2. CASE u # h
    BY <1>1, <1>2, <2>2 DEF DenialInv, DenialExplained
  <2> QED
    BY <2>1, <2>2
<1>3. ASSUME NEW u \in Handlers
      PROVE  Denied(u)'
  <2>1. Denied(u)
    BY DEF DenialInv
  <2> QED
    BY <1>1, <2>1, StatusStays DEF Denied
<1> QED
  BY <1>2, <1>3 DEF DenialInv, DenialExplained

LEMMA CloseDenial ==
  ASSUME Types, DenialInv, NEW h \in Handlers, Close(h)
  PROVE  DenialInv'
<1>1. /\ UNCHANGED <<grants, tokens>> /\ ~told'[h] /\ pc'[h] = "idle"
      /\ \A u \in Handlers : u # h =>
           told'[u] = told[u] /\ pc'[u] = pc[u] /\ tenant'[u] = tenant[u] /\ mark'[u] = mark[u]
  BY DEF Close, Types, limiterVars
<1>2. ASSUME NEW u \in Handlers, told'[u]
      PROVE  Len(grants'[tenant'[u]]) > mark'[u] /\ pc'[u] = "answered"
  BY <1>1, <1>2 DEF DenialInv, DenialExplained
<1>3. ASSUME NEW u \in Handlers
      PROVE  Denied(u)'
  <2>1. Denied(u)
    BY DEF DenialInv
  <2> QED
    BY <1>1, <2>1, StatusStays DEF Denied
<1> QED
  BY <1>2, <1>3 DEF DenialInv, DenialExplained

LEMMA ControlDenial ==
  ASSUME Types, DenialInv, NEW h \in Handlers, Control(h)
  PROVE  DenialInv'
<1>1. CASE Flag(h)
  BY <1>1, DenialStays DEF Flag, Answer, limiterVars
<1>2. CASE Pass(h)
  BY <1>2, DenialStays DEF Pass, limiterVars
<1>3. CASE Forward(h)
  <2>1. pc[h] = "forward" /\ UNCHANGED <<grants, tokens, told, mark, tenant>>
    BY <1>3, ForwardLeaves DEF limiterVars
  <2>2. CASE pc' = [pc EXCEPT ![h] = "answered"]
    BY <2>1, <2>2, DenialStays
  <2>3. CASE pc' = [pc EXCEPT ![h] = "proxying"]
    BY <2>1, <2>3, DenialStays
  <2> QED
    BY <1>3, <2>2, <2>3, ForwardCases
<1> QED
  BY <1>1, <1>2, <1>3, AdmitDenial, DenyDenial, ExplainDenial DEF Control

LEMMA OtherDenial ==
  ASSUME Types, DenialInv,
         \/ \E h \in Handlers : (\E r : Receive(h, r)) \/ (\E s : Return(h, s)) \/ Close(h)
         \/ EdgeRestart \/ EdgeTick
  PROVE  DenialInv'
<1>1. ASSUME NEW h \in Handlers, NEW r, Receive(h, r)
      PROVE  DenialInv'
  <2>1. /\ pc[h] = "idle" /\ UNCHANGED <<grants, tokens, told, mark>>
        /\ \A u \in Handlers : u # h => tenant'[u] = tenant[u]
    BY <1>1 DEF Receive, Types, limiterVars
  <2>2. CASE pc' = [pc EXCEPT ![h] = "limit"]
    BY <2>1, <2>2, DenialStays
  <2>3. CASE pc' = [pc EXCEPT ![h] = "answered"]
    BY <2>1, <2>3, DenialStays
  <2> QED
    BY <1>1, <2>2, <2>3 DEF Receive, Answer
<1>2. ASSUME NEW h \in Handlers, NEW s, Return(h, s)
      PROVE  DenialInv'
  BY <1>2, DenialStays DEF Return, Answer, limiterVars
<1>3. CASE EdgeRestart
  BY <1>3 DEF EdgeRestart, DenialInv, DenialExplained, Denied
<1>4. CASE EdgeTick
  <2>1. UNCHANGED <<grants, tokens, handlerVars>>
    BY <1>4 DEF EdgeTick, Limiter!Tick
  <2> QED
    BY <2>1, StatusStays DEF DenialInv, DenialExplained, Denied, handlerVars
<1> QED
  BY <1>1, <1>2, <1>3, <1>4, CloseDenial

-----------------------------------------------------------------------------
(* All types                                                               *)

\* A refill stays within the natural numbers, and so does what a grant
\* leaves of it.
LEMMA RefilledType ==
  ASSUME Limiter!TypeOK, NEW t \in DOMAIN limits
  PROVE  /\ Limiter!Refilled(t) \in Nat
         /\ Limiter!WouldGrant(t) => Limiter!Refilled(t) - Minute \in Nat
<1>1. Minute \in Nat /\ limits[t] \in Nat
  BY EdgeAssumption DEF Limiter!TypeOK
<1>2. \A l, d \in Nat : l * d \in Nat
  OBVIOUS
<1>3. Limiter!Refill(limits[t], Minute) \in Nat
  BY <1>1, <1>2 DEF Limiter!Refill
<1>4. CASE t \in DOMAIN last
  <2>1. tokens[t] \in Nat /\ now - last[t] \in Nat
    BY <1>4 DEF Limiter!TypeOK
  <2>2. Limiter!Refill(limits[t], now - last[t]) \in Nat
    BY <1>1, <1>2, <2>1 DEF Limiter!Refill
  <2> QED
    BY <1>1, <1>3, <1>4, <2>1, <2>2 DEF Limiter!Refilled, Limiter!Lesser, Limiter!WouldGrant
<1>5. CASE t \notin DOMAIN last
  BY <1>1, <1>3, <1>5 DEF Limiter!Refilled, Limiter!WouldGrant
<1> QED
  BY <1>4, <1>5

LEMMA AllowType ==
  ASSUME Limiter!TypeOK, NEW t \in Tenants, Limiter!Allow(t)
  PROVE  Limiter!TypeOK' /\ now' = now
<1>1. CASE Limiter!AllowUnknown(t)
  BY <1>1 DEF Limiter!AllowUnknown, Limiter!vars, Limiter!TypeOK
<1>2. CASE Limiter!AllowGrants(t) \/ Limiter!AllowDenies(t)
  <2>1. PICK n \in Nat :
          /\ t \in DOMAIN limits
          /\ last' = Limiter!Put(last, t, now) /\ tokens' = Limiter!Put(tokens, t, n)
          /\ limits' = limits /\ now' = now
          /\ \/ grants' = grants
             \/ grants' = [grants EXCEPT ![t] = Append(@, [at |-> now, peak |-> limits[t]])]
    BY <1>2, RefilledType DEF Limiter!AllowGrants, Limiter!AllowDenies, Limiter!WouldGrant
  <2>2. last' \in [DOMAIN last' -> 0..now'] /\ DOMAIN last' = DOMAIN last \cup {t}
    BY <2>1 DEF Limiter!TypeOK, Limiter!Put
  <2>3. tokens' \in [DOMAIN tokens' -> Nat] /\ DOMAIN tokens' = DOMAIN tokens \cup {t}
    BY <2>1 DEF Limiter!TypeOK, Limiter!Put
  <2>4. grants' \in [Tenants -> Seq([at : 0..now', peak : Nat])]
    <3>1. now \in 0..now /\ limits[t] \in Nat
      BY <2>1, EdgeAssumption DEF Limiter!TypeOK
    <3>2. grants[t] \in Seq([at : 0..now, peak : Nat])
      BY DEF Limiter!TypeOK
    <3>3. Append(grants[t], [at |-> now, peak |-> limits[t]]) \in Seq([at : 0..now, peak : Nat])
      BY <3>1, <3>2, AppendProperties
    <3> QED
      BY <2>1, <3>3 DEF Limiter!TypeOK
  <2> QED
    BY <2>1, <2>2, <2>3, <2>4 DEF Limiter!TypeOK
<1> QED
  BY <1>1, <1>2 DEF Limiter!Allow

LEMMA TickType ==
  ASSUME Limiter!TypeOK, Limiter!Tick
  PROVE  Limiter!TypeOK' /\ now' = now + 1
<1>1. now' = now + 1 /\ now' \in 0..MaxTime /\ UNCHANGED <<limits, tokens, last, grants>>
  BY EdgeAssumption DEF Limiter!Tick, Limiter!TypeOK
<1>2. 0..now \subseteq 0..now'
  BY <1>1 DEF Limiter!TypeOK
<1>3. grants' \in [Tenants -> Seq([at : 0..now', peak : Nat])]
  <2>1. [at : 0..now, peak : Nat] \subseteq [at : 0..now', peak : Nat]
    BY <1>2
  <2>2. Seq([at : 0..now, peak : Nat]) \subseteq Seq([at : 0..now', peak : Nat])
    BY <2>1, SeqMonotonic
  <2> QED
    BY <1>1, <2>2 DEF Limiter!TypeOK
<1>4. last' \in [DOMAIN last' -> 0..now']
  BY <1>1, <1>2 DEF Limiter!TypeOK
<1> QED
  BY <1>1, <1>3, <1>4 DEF Limiter!TypeOK

-----------------------------------------------------------------------------
(* The gateway                                                             *)

LEMMA InitEdge == EdgeInit => EdgeInv
<1> SUFFICES ASSUME EdgeInit PROVE EdgeInv
  OBVIOUS
<1>1. Types
  BY InitTypes
<1>2. GaugeExact
  <2>1. Flying = {} /\ inFlight = 0
    BY DEF EdgeInit, Flying
  <2> QED
    BY <2>1, FS_EmptySet DEF GaugeExact, Flying
<1>3. ForwardsPaid
  <2>1. \A t \in Tenants : Granted(t) = {} /\ forwarded[t] = 0 /\ grants[t] = <<>>
    BY DEF EdgeInit, Limiter!Init, Granted
  <2> QED
    BY <2>1, FS_EmptySet, EmptySeq DEF ForwardsPaid
<1>4. DenialInv
  BY DEF EdgeInit, DenialInv, DenialExplained, Denied
<1> QED
  BY <1>1, <1>2, <1>3, <1>4 DEF EdgeInv

\* What a handler does keeps the invariant, whatever its request is, as long
\* as it is charged to some tenant.
LEMMA HandlerStep ==
  ASSUME EdgeInv, NEW h \in Handlers,
         \/ \E r : (Screened(r) = 0 => Charge(r) \in Tenants) /\ Receive(h, r)
         \/ Control(h)
         \/ \E s : Return(h, s)
         \/ Close(h)
  PROVE  EdgeInv'
<1>1. CASE Control(h)
  BY <1>1, ControlTypes, ControlGauge, ControlPaid, ControlDenial DEF EdgeInv
<1>2. CASE (\E r : (Screened(r) = 0 => Charge(r) \in Tenants) /\ Receive(h, r)) \/ (\E s : Return(h, s)) \/ Close(h)
  <2>1. Types'
    BY <1>2, ReceiveTypes, ReturnTypes, CloseTypes DEF EdgeInv
  <2> QED
    BY <1>2, <2>1, OtherGauge, OtherPaid, OtherDenial DEF EdgeInv
<1> QED
  BY <1>1, <1>2

\* So do a restart and the clock.
LEMMA EdgeStep ==
  ASSUME EdgeInv, EdgeRestart \/ EdgeTick \/ UNCHANGED edgeVars
  PROVE  EdgeInv'
<1>1. Types'
  BY RestartTypes, TickTypes DEF EdgeInv, Types, edgeVars, limiterVars, handlerVars
<1>2. CASE UNCHANGED edgeVars
  BY <1>1, <1>2, StatusStays
     DEF EdgeInv, GaugeExact, ForwardsPaid, Granted, DenialInv, DenialExplained, Denied,
         edgeVars, limiterVars, handlerVars
<1>3. CASE EdgeRestart \/ EdgeTick
  BY <1>1, <1>3, OtherGauge, OtherPaid, OtherDenial DEF EdgeInv
<1> QED
  BY <1>2, <1>3

\* What EdgeTypeOK says of the handlers and the counters.
EdgeTypes ==
  /\ Limiter!TypeOK
  /\ req \in [Handlers -> Requests \cup {NoRequest}]
  /\ status \in [Handlers -> Statuses]
  /\ inFlight \in Nat

LEMMA AllTypes == EdgeInv /\ EdgeTypes => EdgeTypeOK
BY DEF EdgeInv, Types, EdgeTypes, EdgeTypeOK

LEMMA InitEdgeTypes == EdgeInit => EdgeTypes
<1> SUFFICES ASSUME EdgeInit PROVE EdgeTypes
  OBVIOUS
<1>1. now = 0 /\ grants = [t \in Tenants |-> <<>>] /\ tokens = [t \in {} |-> 0]
      /\ last = [t \in {} |-> 0] /\ limits = InitLimits
  BY DEF EdgeInit, Limiter!Init
<1>2. grants \in [Tenants -> Seq([at : 0..now, peak : Nat])]
  BY <1>1
<1>3. Limiter!TypeOK
  BY <1>1, <1>2, EdgeAssumption DEF Limiter!TypeOK
<1> QED
  BY <1>3 DEF EdgeInit, EdgeTypes, Statuses

\* Of the controls, only the limiter's touch the buckets; the gauge is as
\* large as the set it counts.
LEMMA HandlerEdgeTypes ==
  ASSUME EdgeInv, EdgeInv', EdgeTypes, NEW h \in Handlers,
         \/ \E r \in Requests : Receive(h, r)
         \/ Control(h)
         \/ \E s \in Statuses : Return(h, s)
         \/ Close(h)
  PROVE  EdgeTypes' /\ now' = now
<1>1. inFlight' \in Nat
  <2>1. IsFiniteSet(Handlers)
    BY EdgeAssumption
  <2>2. IsFiniteSet({u \in Handlers : pc'[u] \in {"forward", "proxying"}})
    BY <2>1, FS_Subset
  <2> QED
    BY <2>2, FS_CardinalityType DEF EdgeInv, GaugeExact
<1>2. Limiter!TypeOK' /\ now' = now
  <2>1. tenant[h] \in Tenants
    BY DEF EdgeInv, Types
  <2>2. CASE Admit(h) \/ Deny(h)
    BY <2>1, <2>2, AllowType DEF EdgeTypes, Admit, Deny, Limiter!Allow
  <2>3. CASE UNCHANGED <<limiterVars, now>>
    BY <2>3 DEF limiterVars, EdgeTypes, Limiter!TypeOK
  <2>4. CASE Forward(h)
    BY <2>3, <2>4, ForwardLeaves
  <2> QED
    BY <2>2, <2>3, <2>4 DEF Control, Receive, Explain, Flag, Pass, Return, Close
<1>3. req' \in [Handlers -> Requests \cup {NoRequest}] /\ status' \in [Handlers -> Statuses]
  <2>1. CASE \E r \in Requests : Receive(h, r)
    BY <2>1 DEF EdgeTypes, Receive, Answer, Screened, Statuses, BackendStatuses
  <2>2. CASE (\E s \in Statuses : Return(h, s)) \/ Close(h)
    BY <2>2 DEF EdgeTypes, Return, Close, Answer, Statuses
  <2>3. CASE Admit(h) \/ Deny(h) \/ Explain(h) \/ Flag(h) \/ Pass(h)
    BY <2>3 DEF EdgeTypes, Admit, Deny, Explain, Flag, Pass, Answer, Statuses, BackendStatuses
  <2>4. CASE Forward(h)
    <3>1. req' = req /\ (status' = status \/ status' = [status EXCEPT ![h] = 404])
      BY <2>4, Zenon DEF Forward, Answer
    <3> QED
      BY <3>1 DEF EdgeTypes, Statuses, BackendStatuses
  <2> QED
    BY <2>1, <2>2, <2>3, <2>4 DEF Control
<1> QED
  BY <1>1, <1>2, <1>3 DEF EdgeTypes

LEMMA EdgeStepTypes ==
  ASSUME EdgeTypes, EdgeRestart \/ EdgeTick \/ UNCHANGED edgeVars
  PROVE  EdgeTypes' /\ now <= now'
<1>0. now \in Nat
  BY DEF EdgeTypes, Limiter!TypeOK
<1>1. CASE EdgeRestart
  <2>1. grants' \in [Tenants -> Seq([at : 0..now', peak : Nat])]
    BY <1>1 DEF EdgeRestart
  <2>2. Limiter!TypeOK'
    BY <1>0, <1>1, <2>1, EdgeAssumption DEF EdgeRestart, EdgeTypes, Limiter!TypeOK
  <2> QED
    BY <1>0, <1>1, <2>2 DEF EdgeRestart, EdgeTypes, Statuses
<1>2. CASE EdgeTick
  <2>1. Limiter!TypeOK' /\ now' = now + 1
    BY <1>2, TickType DEF EdgeTick, EdgeTypes
  <2> QED
    BY <1>0, <1>2, <2>1 DEF EdgeTick, EdgeTypes, handlerVars
<1>3. CASE UNCHANGED edgeVars
  <2>1. UNCHANGED <<limits, tokens, last, grants, now, req, status, inFlight>>
    BY <1>3 DEF edgeVars, limiterVars, handlerVars
  <2>2. Limiter!TypeOK'
    BY <2>1, Zenon DEF EdgeTypes, Limiter!TypeOK
  <2> QED
    BY <1>0, <2>1, <2>2 DEF EdgeTypes
<1> QED
  BY <1>1, <1>2, <1>3

\* EdgeInv is inductive.
THEOREM GatewayInvariant == EdgeSpec => []EdgeInv
<1>1. EdgeInv /\ [EdgeNext]_edgeVars => EdgeInv'
  <2> SUFFICES ASSUME EdgeInv, [EdgeNext]_edgeVars
               PROVE  EdgeInv'
    OBVIOUS
  <2>1. ASSUME NEW h \in Handlers,
               \/ \E r \in Requests : Receive(h, r)
               \/ Control(h)
               \/ \E s \in BackendStatuses : Deliver(h, s)
               \/ ProxyFails(h) \/ CopyBreaks(h) \/ Close(h)
        PROVE  EdgeInv'
    <3>1. ASSUME NEW r \in Requests, Receive(h, r)
          PROVE  EdgeInv'
      BY <3>1, ChargeType, HandlerStep
    <3>2. CASE Control(h) \/ Close(h)
      BY <3>2, HandlerStep
    <3>3. CASE (\E s \in BackendStatuses : Deliver(h, s)) \/ ProxyFails(h) \/ CopyBreaks(h)
      <4>1. \E s : Return(h, s)
        BY <3>3 DEF Deliver, ProxyFails, CopyBreaks
      <4> QED
        BY <4>1, HandlerStep
    <3> QED
      BY <2>1, <3>1, <3>2, <3>3
  <2>2. CASE EdgeRestart \/ EdgeTick \/ UNCHANGED edgeVars
    BY <2>2, EdgeStep
  <2> QED
    BY <2>1, <2>2 DEF EdgeNext
<1> QED
  BY InitEdge, <1>1, PTL DEF EdgeSpec

\* Backends never get more requests of a tenant than the limiter has granted
\* it, for any number of handlers and any behaviour of the backends.
THEOREM ForwardsArePaid == EdgeSpec => []ForwardsPaid
<1>1. EdgeInv => ForwardsPaid
  BY DEF EdgeInv
<1> QED
  BY GatewayInvariant, <1>1, PTL

\* The gauge is exact, also when a backend fails or an answer breaks off.
THEOREM GaugeIsExact == EdgeSpec => []GaugeExact
<1>1. EdgeInv => GaugeExact
  BY DEF EdgeInv
<1> QED
  BY GatewayInvariant, <1>1, PTL

\* Only a grant between the denial and the answer makes a 429 say that
\* requests are allowed.
THEOREM DenialsExplained == EdgeSpec => []DenialExplained
<1>1. EdgeInv => DenialExplained
  BY DEF EdgeInv, DenialInv
<1> QED
  BY GatewayInvariant, <1>1, PTL

\* Every variable of the gateway keeps its type, the limiter's included.
THEOREM GatewayTypeCorrect == EdgeSpec => []EdgeTypeOK
<1>1. EdgeInv /\ EdgeInv' /\ EdgeTypes /\ [EdgeNext]_edgeVars => EdgeTypes'
  <2> SUFFICES ASSUME EdgeInv, EdgeInv', EdgeTypes, [EdgeNext]_edgeVars
               PROVE  EdgeTypes'
    OBVIOUS
  <2>1. ASSUME NEW h \in Handlers,
               \/ (\E s \in BackendStatuses : Deliver(h, s)) \/ ProxyFails(h) \/ CopyBreaks(h)
        PROVE  EdgeTypes'
    <3>1. \E s \in Statuses : Return(h, s)
      BY <2>1 DEF Deliver, ProxyFails, CopyBreaks, Statuses
    <3> QED
      BY <3>1, HandlerEdgeTypes
  <2>2. ASSUME NEW h \in Handlers, (\E r \in Requests : Receive(h, r)) \/ Control(h) \/ Close(h)
        PROVE  EdgeTypes'
    BY <2>2, HandlerEdgeTypes
  <2>3. CASE EdgeRestart \/ EdgeTick \/ UNCHANGED edgeVars
    BY <2>3, EdgeStepTypes
  <2> QED
    BY <2>1, <2>2, <2>3 DEF EdgeNext
<1> QED
  BY GatewayInvariant, InitEdgeTypes, AllTypes, <1>1, PTL DEF EdgeSpec
=============================================================================
