---------------------------- MODULE RateLimiter ----------------------------
(***************************************************************************)
(* pkg/ratelimit/ratelimit.go: one token bucket per tenant, shared by the  *)
(* edge service's requests and guarded by mu.  Each method is one critical *)
(* section that reads the clock inside, so each is one action.             *)
(*                                                                         *)
(* Time is counted in ticks, Minute of them to a minute.  A request costs  *)
(* one token and a bucket gains limit tokens in a minute; in units of      *)
(* 1/Minute token (shares) a request costs Minute shares and a bucket      *)
(* gains limit shares a tick, so the code's float64 fractions are exact    *)
(* integers here.                                                          *)
(***************************************************************************)
EXTENDS Integers, Sequences

CONSTANTS
  Tenants,     \* the tenants that ask, those without a limit included
  InitLimits,  \* the limits New starts with: tenant |-> requests per minute
  NewLimits,   \* the limits SetLimit is called with (production: none)
  Minute,      \* ticks in a minute
  MaxTime      \* bound of the clock

ASSUME LimiterAssumption ==
  /\ DOMAIN InitLimits \subseteq Tenants
  /\ InitLimits \in [DOMAIN InitLimits -> Nat]
  /\ NewLimits \subseteq Nat
  /\ Minute \in Nat \ {0}
  /\ MaxTime \in Nat

VARIABLES
  limits,   \* tl.limits: tenant |-> requests per minute
  tokens,   \* tl.tokens: tenant |-> shares
  last,     \* tl.last: tenant |-> time of the last refill
  now,      \* the clock
  grants    \* history: tenant |-> its grants in order: the time of each, and
            \* the largest limit of the tenant from then on

vars == <<limits, tokens, last, now, grants>>

\* m[k] = v, for a Go map as a function with a growing domain.
Put(m, k, v) == [x \in DOMAIN m \cup {k} |-> IF x = k THEN v ELSE m[x]]

\* m[k], which is zero for a key the map does not have.
Get(m, k) == IF k \in DOMAIN m THEN m[k] ELSE 0

Lesser(a, b) == IF a < b THEN a ELSE b
Larger(a, b) == IF a < b THEN b ELSE a

\* The shares a limit adds in some ticks; those of a minute fill its bucket.
Refill(limit, ticks) == limit * ticks

\* A history when its tenant's limit becomes l.
Raised(history, l) ==
  [i \in DOMAIN history |-> [history[i] EXCEPT !.peak = Larger(@, l)]]

Init ==
  /\ limits = InitLimits
  /\ tokens = [t \in {} |-> 0]
  /\ last = [t \in {} |-> 0]
  /\ now = 0
  /\ grants = [t \in Tenants |-> <<>>]

-----------------------------------------------------------------------------
(* Faulty variants, used to show that the properties can tell them from    *)
(* the code.                                                               *)

RefillUncapped(t) ==
  IF t \in DOMAIN last
    THEN tokens[t] + Refill(limits[t], now - last[t])
    ELSE Refill(limits[t], Minute)

RefillWholeTokens(t) ==
  IF t \in DOMAIN last
    THEN Lesser(Refill(limits[t], Minute),
                tokens[t] + Minute * (Refill(limits[t], now - last[t]) \div Minute))
    ELSE Refill(limits[t], Minute)

RefillForgetsRest(t) ==
  IF t \in DOMAIN last
    THEN Lesser(Refill(limits[t], Minute), Refill(limits[t], now - last[t]))
    ELSE Refill(limits[t], Minute)

SetLimitDropsBucket(t, l) ==
  /\ limits' = Put(limits, t, l)
  /\ tokens' = [x \in DOMAIN tokens \ {t} |-> tokens[x]]
  /\ grants' = [grants EXCEPT ![t] = Raised(@, l)]
  /\ UNCHANGED <<last, now>>

\* The bucket is filled for the new limit, although it was just drained.
SetLimitRefills(t, l) ==
  /\ limits' = Put(limits, t, l)
  /\ tokens' = Put(tokens, t, Refill(l, Minute))
  /\ grants' = [grants EXCEPT ![t] = Raised(@, l)]
  /\ UNCHANGED <<last, now>>

-----------------------------------------------------------------------------
\* The content of t's bucket once Allow has refilled it: full at the first
\* request, then what was left and what the time since has added, capped.
Refilled(t) ==
  IF t \in DOMAIN last
    THEN Lesser(Refill(limits[t], Minute), tokens[t] + Refill(limits[t], now - last[t]))
    ELSE Refill(limits[t], Minute)

\* What Allow(t) returns if it is called now.
WouldGrant(t) == t \in DOMAIN limits /\ Refilled(t) >= Minute

\* A tenant without a limit is denied before anything is touched.
AllowUnknown(t) ==
  /\ t \notin DOMAIN limits
  /\ UNCHANGED vars

\* The bucket has a whole token: it is taken and the request passes.
AllowGrants(t) ==
  /\ WouldGrant(t)
  /\ last' = Put(last, t, now)
  /\ tokens' = Put(tokens, t, Refilled(t) - Minute)
  /\ grants' = [grants EXCEPT ![t] = Append(@, [at |-> now, peak |-> limits[t]])]
  /\ UNCHANGED <<limits, now>>

\* It has not: the refill is kept, the request denied.
AllowDenies(t) ==
  /\ t \in DOMAIN limits
  /\ ~WouldGrant(t)
  /\ last' = Put(last, t, now)
  /\ tokens' = Put(tokens, t, Refilled(t))
  /\ UNCHANGED <<limits, now, grants>>

Allow(t) == AllowUnknown(t) \/ AllowGrants(t) \/ AllowDenies(t)

\* SetLimit neither caps nor refills a bucket that is already there, and
\* leaves the time of its refill alone: the next refill counts the whole time
\* since then at the new limit, and caps what is there.
SetLimit(t, l) ==
  /\ limits' = Put(limits, t, l)
  /\ tokens' = IF t \in DOMAIN tokens THEN tokens ELSE Put(tokens, t, Refill(l, Minute))
  /\ grants' = [grants EXCEPT ![t] = Raised(@, l)]
  /\ UNCHANGED <<last, now>>

\* What GetStatus reports: the bucket as the last Allow left it.
StatusTokens(t) == Get(tokens, t)
StatusAllowed(t) == StatusTokens(t) >= Minute

Tick ==
  /\ now < MaxTime
  /\ now' = now + 1
  /\ UNCHANGED <<limits, tokens, last, grants>>

Next ==
  \/ \E t \in Tenants : Allow(t)
  \/ \E t \in Tenants, l \in NewLimits : SetLimit(t, l)
  \/ Tick

Spec == Init /\ [][Next]_vars
-----------------------------------------------------------------------------
(* Properties *)

\* Every variable has its type; a bucket that was refilled is there, its
\* tenant has a limit, and no bucket is ever in debt.
TypeOK ==
  /\ DOMAIN limits \subseteq Tenants
  /\ limits \in [DOMAIN limits -> Nat]
  /\ tokens \in [DOMAIN tokens -> Nat]
  /\ now \in 0..MaxTime
  /\ last \in [DOMAIN last -> 0..now]
  /\ DOMAIN last \subseteq DOMAIN tokens
  /\ DOMAIN tokens \subseteq DOMAIN limits
  /\ grants \in [Tenants -> Seq([at : 0..now, peak : Nat])]

\* What t was granted between its i-th and its j-th grant, both included,
\* in shares, and what a bucket of the largest limit it had since the i-th can
\* give from then to some time.
Granted(i, j) == Minute * (j - i + 1)
Capacity(t, i, time) ==
  Refill(grants[t][i].peak, Minute) + Refill(grants[t][i].peak, time - grants[t][i].at)

\* No stretch between two grants of t had more grants than its bucket gives.
WindowOK(t) ==
  \A j \in DOMAIN grants[t] : \A i \in 1..j :
    Granted(i, j) <= Capacity(t, i, grants[t][j].at)

\* In no stretch of time is a tenant granted more than one full bucket and
\* what the refill adds in that stretch, both at the largest limit it has had
\* since the stretch began, however its requests, its denials and changes of
\* its limit are ordered: a change neither refills a drained bucket nor lets a
\* bucket keep more than a limit of that stretch fills (ratelimit.go:45-63,
\* 84-93).
WindowBound == \A t \in Tenants : WindowOK(t)

\* What WindowBound rests on: the grants since any one of them, together with
\* what the bucket still holds, are within the bound at the last refill.
BucketOK(t) ==
  \A i \in DOMAIN grants[t] :
    /\ t \in DOMAIN last
    /\ limits[t] <= grants[t][i].peak
    /\ Granted(i, Len(grants[t])) + tokens[t] <= Capacity(t, i, last[t])

BucketInv == \A t \in Tenants : BucketOK(t)

\* A limit SetLimit has not touched: it is the one New gave the tenant, and
\* none that SetLimit sets.
Steady(t) ==
  /\ t \in DOMAIN InitLimits
  /\ limits[t] = InitLimits[t]
  /\ InitLimits[t] \notin NewLimits

\* One more grant now would exceed the bound of WindowBound in some stretch.
Exhausted(t) ==
  \/ limits[t] = 0
  \/ \E i \in DOMAIN grants[t] :
       Granted(i, Len(grants[t]) + 1) > Capacity(t, i, now)

\* The limiter is exact while a limit does not change: the tenant is refused
\* only if the bound of WindowBound leaves no room for one more grant.  In
\* particular, requests that are denied cost nothing: polling does not lose
\* the fractions of a token it has earned (ratelimit.go:52-63).
DenialJustified ==
  \A t \in DOMAIN limits : Steady(t) /\ ~WouldGrant(t) => Exhausted(t)

\* What it rests on: a bucket is full, or some grant accounts for all of it.
ExactFor(t) ==
  \/ tokens[t] = Refill(limits[t], Minute)
  \/ \E i \in DOMAIN grants[t] :
       Granted(i, Len(grants[t])) + tokens[t] = Capacity(t, i, last[t])

ExactInv == \A t \in DOMAIN last : Steady(t) => ExactFor(t)

\* A status that says requests are allowed can be relied on, unless the
\* limit was set to zero since: the next Allow grants, although the status
\* is the one of an earlier time (ratelimit.go:73-80).
StatusSound ==
  \A t \in DOMAIN limits : StatusAllowed(t) /\ limits[t] > 0 => WouldGrant(t)
=============================================================================
