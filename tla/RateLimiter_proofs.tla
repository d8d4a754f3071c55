------------------------- MODULE RateLimiter_proofs -------------------------
(***************************************************************************)
(* Theorems about RateLimiter, for every set of tenants, every limits and  *)
(* every length of a minute.                                               *)
(***************************************************************************)
EXTENDS RateLimiter, SequenceTheorems, TLAPS

-----------------------------------------------------------------------------
(* Arithmetic of the bucket                                                *)

LEMMA RefillInt == \A l \in Nat, d \in Int : Refill(l, d) \in Int
BY DEF Refill

\* A limit gives over two adjoining stretches what it gives over both.
LEMMA RefillAdds ==
  ASSUME NEW l \in Nat, NEW a \in Int, NEW b \in Int, NEW c \in Int
  PROVE  /\ Refill(l, c - a) = Refill(l, b - a) + Refill(l, c - b)
         /\ Refill(l, b - a) \in Int /\ Refill(l, c - a) \in Int
         /\ b <= c => Refill(l, c - b) \in Nat
<1>1. \A x, y \in Int : l * (x + y) = l * x + l * y
  OBVIOUS
<1>2. \A x \in Int : x >= 0 => l * x \in Nat
  OBVIOUS
<1>3. c - a = (b - a) + (c - b)
  OBVIOUS
<1> QED
  BY <1>1, <1>2, <1>3 DEF Refill

\* A larger limit gives as much in the same time.
LEMMA RefillGrows ==
  ASSUME NEW l \in Nat, NEW p \in Nat, l <= p, NEW d \in Nat
  PROVE  Refill(l, d) <= Refill(p, d) /\ Refill(l, d) \in Nat /\ Refill(p, d) \in Nat
BY DEF Refill

\* A limit of at least one fills a bucket with at least one token.
LEMMA FullBucket ==
  ASSUME NEW l \in Nat
  PROVE  /\ Refill(l, Minute) \in Nat
         /\ l > 0 => Refill(l, Minute) >= Minute
         /\ Refill(l, 0) = 0
<1>1. Minute \in Nat
  BY LimiterAssumption
<1>2. l > 0 => l - 1 \in Nat
  OBVIOUS
<1>3. \A k \in Nat : k * Minute \in Nat /\ (k + 1) * Minute = k * Minute + Minute
  BY <1>1
<1>4. l > 0 => l * Minute = (l - 1) * Minute + Minute /\ (l - 1) * Minute \in Nat
  BY <1>2, <1>3
<1> QED
  BY <1>1, <1>3, <1>4 DEF Refill

\* One grant more costs Minute shares more.
LEMMA GrantedStep ==
  ASSUME NEW i \in Int, NEW j \in Int
  PROVE  /\ Granted(i, j) \in Int
         /\ Granted(i, j + 1) = Granted(i, j) + Minute
         /\ Granted(j + 1, j + 1) = Minute
<1>1. Minute \in Int
  BY LimiterAssumption
<1>2. \A k \in Int : Minute * k \in Int /\ Minute * (k + 1) = Minute * k + Minute
  BY <1>1
<1>3. Minute * 1 = Minute
  BY <1>1
<1>4. (j + 1) - i + 1 = (j - i + 1) + 1 /\ (j + 1) - (j + 1) + 1 = 1
  OBVIOUS
<1> QED
  BY <1>2, <1>3, <1>4 DEF Granted

\* The refilled bucket: never below zero, never above the limit.
LEMMA RefilledType ==
  ASSUME TypeOK, NEW t \in DOMAIN limits
  PROVE  /\ Refilled(t) \in Nat
         /\ Refilled(t) <= Refill(limits[t], Minute)
<1>1. limits[t] \in Nat /\ Refill(limits[t], Minute) \in Nat
  BY FullBucket DEF TypeOK
<1>2. CASE t \in DOMAIN last
  <2>1. tokens[t] \in Nat /\ last[t] \in Int /\ now \in Int /\ last[t] <= now
    BY <1>2 DEF TypeOK
  <2>2. Refill(limits[t], now - last[t]) \in Nat
    BY <1>1, <2>1, RefillAdds
  <2> QED
    BY <1>1, <1>2, <2>1, <2>2 DEF Refilled, Lesser
<1>3. CASE t \notin DOMAIN last
  BY <1>1, <1>3 DEF Refilled
<1> QED
  BY <1>2, <1>3

\* The grants there can be up to time n.
GrantsTo(n) == [at : 0..n, peak : Nat]

LEMMA PlainFacts ==
  ASSUME TypeOK
  PROVE  /\ now \in Nat /\ Minute \in Nat /\ Minute > 0
         /\ grants \in [Tenants -> Seq(GrantsTo(now))]
         /\ \A t \in DOMAIN limits : t \in Tenants /\ limits[t] \in Nat
         /\ \A l \in Nat : [at |-> now, peak |-> l] \in GrantsTo(now)
<1>1. now \in 0..MaxTime /\ MaxTime \in Nat /\ Minute \in Nat \ {0}
  BY LimiterAssumption DEF TypeOK
<1>2. now \in Nat /\ Minute \in Nat /\ Minute > 0
  BY <1>1
<1>3. \A t \in DOMAIN limits : t \in Tenants /\ limits[t] \in Nat
  BY DEF TypeOK
<1>4. \A l \in Nat : [at |-> now, peak |-> l] \in GrantsTo(now)
  BY <1>2 DEF GrantsTo
<1> QED
  BY <1>2, <1>3, <1>4 DEF TypeOK, GrantsTo

\* The history of a tenant: its times are not in the future.
LEMMA HistoryType ==
  ASSUME TypeOK, NEW t \in Tenants
  PROVE  /\ grants[t] \in Seq(GrantsTo(now))
         /\ Len(grants[t]) \in Nat
         /\ DOMAIN grants[t] = 1..Len(grants[t])
         /\ \A i \in DOMAIN grants[t] :
              /\ i \in Int /\ grants[t][i] \in GrantsTo(now)
              /\ grants[t][i].at \in Int /\ grants[t][i].at <= now
              /\ grants[t][i].peak \in Nat
<1>1. grants[t] \in Seq(GrantsTo(now))
  BY DEF TypeOK, GrantsTo
<1>2. now \in Int
  BY DEF TypeOK, LimiterAssumption
<1>3. \A g \in GrantsTo(now) : g.at \in Int /\ g.at <= now /\ g.peak \in Nat
  BY <1>2 DEF GrantsTo
<1>4. \A i \in 1..Len(grants[t]) : grants[t][i] \in GrantsTo(now)
  BY <1>1, ElementOfSeq
<1> QED
  BY <1>1, <1>3, <1>4, LenProperties

\* A history whose tenant gets another limit keeps its times; no peak falls,
\* and none is below the new limit.
LEMMA RaisedHistory ==
  ASSUME NEW n \in Nat, NEW h \in Seq(GrantsTo(n)), NEW l \in Nat
  PROVE  /\ Raised(h, l) \in Seq(GrantsTo(n))
         /\ DOMAIN Raised(h, l) = DOMAIN h /\ Len(Raised(h, l)) = Len(h)
         /\ \A i \in DOMAIN h : /\ Raised(h, l)[i].at = h[i].at
                                 /\ Raised(h, l)[i].peak \in Nat
                                 /\ h[i].peak <= Raised(h, l)[i].peak
                                 /\ l <= Raised(h, l)[i].peak
<1> DEFINE r == Raised(h, l)
<1>1. Len(h) \in Nat /\ DOMAIN h = 1..Len(h) /\ \A i \in 1..Len(h) : h[i] \in GrantsTo(n)
  BY LenProperties, ElementOfSeq
<1>2. ASSUME NEW i \in DOMAIN h
      PROVE  /\ r[i] \in GrantsTo(n) /\ r[i].at = h[i].at /\ r[i].peak \in Nat
             /\ h[i].peak <= r[i].peak /\ l <= r[i].peak
  <2>1. h[i] \in GrantsTo(n)
    BY <1>1, <1>2
  <2>2. r[i] = [h[i] EXCEPT !.peak = Larger(@, l)]
    BY <1>2 DEF Raised
  <2>3. h[i].peak \in Nat
    BY <2>1 DEF GrantsTo
  <2>4. Larger(h[i].peak, l) \in Nat /\ h[i].peak <= Larger(h[i].peak, l)
        /\ l <= Larger(h[i].peak, l)
    BY <2>3 DEF Larger
  <2> QED
    BY <2>1, <2>2, <2>4 DEF GrantsTo
<1>3. r = [i \in 1..Len(h) |-> r[i]]
  BY <1>1 DEF Raised
<1>4. r \in Seq(GrantsTo(n)) /\ Len(r) = Len(h)
  <2>1. r \in [1..Len(h) -> GrantsTo(n)]
    BY <1>1, <1>2, <1>3
  <2> HIDE DEF r
  <2> QED
    BY <1>1, <2>1, SeqDef
<1> QED
  BY <1>1, <1>2, <1>4 DEF Raised

-----------------------------------------------------------------------------
(* Types                                                                   *)

LEMMA InitType == Init => TypeOK
<1> SUFFICES ASSUME Init PROVE TypeOK
  OBVIOUS
<1>1. grants \in [Tenants -> Seq([at : 0..now, peak : Nat])]
  BY DEF Init
<1> QED
  BY <1>1, LimiterAssumption DEF Init, TypeOK

\* A refill, granted or denied, changes one bucket.
LEMMA RefillType ==
  ASSUME TypeOK, NEW t \in DOMAIN limits, NEW n \in Nat,
         last' = Put(last, t, now), tokens' = Put(tokens, t, n),
         limits' = limits, now' = now,
         \/ grants' = grants
         \/ grants' = [grants EXCEPT ![t] = Append(@, [at |-> now, peak |-> limits[t]])]
  PROVE  TypeOK'
<1>1. /\ last' \in [DOMAIN last' -> 0..now']
      /\ DOMAIN last' = DOMAIN last \cup {t}
  BY DEF TypeOK, Put
<1>2. /\ tokens' \in [DOMAIN tokens' -> Nat]
      /\ DOMAIN tokens' = DOMAIN tokens \cup {t}
  BY DEF TypeOK, Put
<1>3. grants' \in [Tenants -> Seq(GrantsTo(now'))]
  <2>1. t \in Tenants /\ grants \in [Tenants -> Seq(GrantsTo(now))]
    BY DEF TypeOK, GrantsTo
  <2>2. [at |-> now, peak |-> limits[t]] \in GrantsTo(now)
    BY LimiterAssumption DEF TypeOK, GrantsTo
  <2>3. Append(grants[t], [at |-> now, peak |-> limits[t]]) \in Seq(GrantsTo(now))
    BY <2>1, <2>2, AppendProperties
  <2> QED
    BY <2>1, <2>3
<1> QED
  BY <1>1, <1>2, <1>3 DEF TypeOK, GrantsTo

LEMMA NextType == TypeOK /\ [Next]_vars => TypeOK'
<1> SUFFICES ASSUME TypeOK, [Next]_vars PROVE TypeOK'
  OBVIOUS
<1>1. ASSUME NEW t \in Tenants, AllowUnknown(t) PROVE TypeOK'
  BY <1>1 DEF AllowUnknown, vars, TypeOK
<1>2. ASSUME NEW t \in Tenants, AllowGrants(t) PROVE TypeOK'
  <2>1. t \in DOMAIN limits /\ Refilled(t) - Minute \in Nat
    BY <1>2, RefilledType, LimiterAssumption DEF AllowGrants, WouldGrant
  <2> QED
    BY <1>2, <2>1, RefillType DEF AllowGrants
<1>3. ASSUME NEW t \in Tenants, AllowDenies(t) PROVE TypeOK'
  <2>1. Refilled(t) \in Nat
    BY <1>3, RefilledType DEF AllowDenies
  <2> QED
    BY <1>3, <2>1, RefillType DEF AllowDenies
<1>4. ASSUME NEW t \in Tenants, NEW l \in NewLimits, SetLimit(t, l)
      PROVE  TypeOK'
  <2>1. l \in Nat /\ Refill(l, Minute) \in Nat
    BY LimiterAssumption, FullBucket
  <2>2. /\ limits' \in [DOMAIN limits' -> Nat]
        /\ DOMAIN limits' = DOMAIN limits \cup {t}
    BY <1>4, <2>1 DEF SetLimit, Put, TypeOK
  <2>3. /\ tokens' \in [DOMAIN tokens' -> Nat]
        /\ DOMAIN tokens' = DOMAIN tokens \cup {t}
    BY <1>4, <2>1 DEF SetLimit, Put, TypeOK
  <2>4. grants' \in [Tenants -> Seq(GrantsTo(now'))]
    <3>1. grants \in [Tenants -> Seq(GrantsTo(now))] /\ now \in Nat
      BY PlainFacts
    <3>2. Raised(grants[t], l) \in Seq(GrantsTo(now))
      BY <2>1, <3>1, RaisedHistory
    <3> QED
      BY <1>4, <3>1, <3>2 DEF SetLimit
  <2> QED
    BY <1>4, <2>2, <2>3, <2>4 DEF SetLimit, TypeOK, GrantsTo
<1>5. CASE Tick
  <2>1. now \in Nat /\ now' = now + 1 /\ now' \in 0..MaxTime
    BY <1>5, LimiterAssumption DEF Tick, TypeOK
  <2>2. 0..now \subseteq 0..now'
    BY <2>1
  <2>3. grants' \in [Tenants -> Seq([at : 0..now', peak : Nat])]
    <3>1. [at : 0..now, peak : Nat] \subseteq [at : 0..now', peak : Nat]
      BY <2>2
    <3>2. Seq([at : 0..now, peak : Nat]) \subseteq Seq([at : 0..now', peak : Nat])
      BY <3>1, SeqMonotonic
    <3> QED
      BY <1>5, <3>2 DEF Tick, TypeOK
  <2>4. last' \in [DOMAIN last' -> 0..now']
    BY <1>5, <2>2 DEF Tick, TypeOK
  <2> QED
    BY <1>5, <2>1, <2>3, <2>4 DEF Tick, TypeOK
<1>6. CASE UNCHANGED vars
  BY <1>6 DEF vars, TypeOK
<1> QED
  BY <1>1, <1>2, <1>3, <1>4, <1>5, <1>6 DEF Next, Allow

\* The type invariant of the rate limiter: in particular no bucket is ever
\* in debt, and no refill is dated in the future.
THEOREM LimiterTypeCorrect == Spec => []TypeOK
BY InitType, NextType, PTL DEF Spec

\* A status that allows requests can be relied on in every reachable state.
THEOREM StatusIsSound == Spec => []StatusSound
<1>1. TypeOK => StatusSound
  <2> SUFFICES ASSUME TypeOK, NEW t \in DOMAIN limits,
                      StatusAllowed(t), limits[t] > 0
               PROVE  Refilled(t) >= Minute
    BY DEF StatusSound, WouldGrant
  <2>1. limits[t] \in Nat /\ Refill(limits[t], Minute) \in Nat /\ Minute \in Nat \ {0}
    BY LimiterAssumption, FullBucket DEF TypeOK
  <2>2. Refill(limits[t], Minute) >= Minute
    BY <2>1, FullBucket
  <2>3. CASE t \in DOMAIN last
    <3>1. /\ tokens[t] \in Nat /\ tokens[t] >= Minute
          /\ last[t] \in Int /\ now \in Int /\ last[t] <= now
      BY <2>3 DEF TypeOK, StatusAllowed, StatusTokens, Get
    <3>2. Refill(limits[t], now - last[t]) \in Nat
      BY <2>1, <3>1, RefillAdds
    <3> QED
      BY <2>1, <2>2, <2>3, <3>1, <3>2 DEF Refilled, Lesser
  <2>4. CASE t \notin DOMAIN last
    BY <2>2, <2>4 DEF Refilled
  <2> QED
    BY <2>3, <2>4
<1> QED
  BY <1>1, LimiterTypeCorrect, PTL

-----------------------------------------------------------------------------
(* The bound on every stretch of time                                      *)

\* The grants of a tenant are in the order of time, none after its last refill.
Ordered(t) ==
  \A j \in DOMAIN grants[t] :
    /\ grants[t][j].at <= last[t]
    /\ \A i \in 1..j : grants[t][i].at <= grants[t][j].at

\* A step that leaves a tenant's limit, bucket and history alone.
LEMMA TenantKept ==
  ASSUME TypeOK, NEW u \in Tenants, BucketOK(u), WindowOK(u),
         Ordered(u), grants'[u] = grants[u],
         u \in DOMAIN last =>
           /\ limits'[u] = limits[u] /\ u \in DOMAIN last'
           /\ last'[u] = last[u] /\ tokens'[u] = tokens[u]
  PROVE  BucketOK(u)' /\ WindowOK(u)' /\ Ordered(u)'
<1>0. Ordered(u)'
  BY DEF Ordered, BucketOK
<1>1. BucketOK(u)'
  BY DEF BucketOK, Granted, Capacity
<1>2. WindowOK(u)'
  <2>1. CASE u \in DOMAIN last
    BY <2>1 DEF WindowOK, Granted, Capacity
  <2>2. CASE u \notin DOMAIN last
    <3>1. DOMAIN grants[u] = {}
      BY <2>2 DEF BucketOK
    <3> QED
      BY <3>1 DEF WindowOK
  <2> QED
    BY <2>1, <2>2
<1> QED
  BY <1>0, <1>1, <1>2

\* Refilling a bucket keeps it within the bound, now that time has passed.
LEMMA RefillBounded ==
  ASSUME TypeOK, NEW t \in DOMAIN limits, BucketOK(t),
         NEW i \in DOMAIN grants[t]
  PROVE  Granted(i, Len(grants[t])) + Refilled(t) <= Capacity(t, i, now)
<1> DEFINE L == Len(grants[t])
           l == grants[t][i].peak
           g == grants[t][i].at
<1>1. /\ t \in DOMAIN last /\ limits[t] <= l
      /\ Granted(i, L) + tokens[t] <= Capacity(t, i, last[t])
  BY DEF BucketOK
<1>2. /\ l \in Nat /\ limits[t] \in Nat /\ t \in Tenants /\ tokens[t] \in Int
      /\ last[t] \in Int /\ now \in Int /\ last[t] <= now
      /\ g \in Int /\ i \in Int /\ L \in Int
  <2>1. t \in Tenants
    BY DEF TypeOK
  <2>2. g \in Int /\ i \in Int /\ L \in Int /\ l \in Nat
    BY <2>1, HistoryType
  <2> QED
    BY <1>1, <2>1, <2>2 DEF TypeOK
<1>3. /\ Refill(l, now - g) = Refill(l, last[t] - g) + Refill(l, now - last[t])
      /\ Refill(l, last[t] - g) \in Int
      /\ Refill(l, now - last[t]) \in Int
  <2> HIDE DEF l, g
  <2>1. Refill(l, now - g) = Refill(l, last[t] - g) + Refill(l, now - last[t])
    <3>1. l \in Nat /\ g \in Int /\ last[t] \in Int /\ now \in Int
      BY <1>2
    <3> QED
      BY <3>1, RefillAdds
  <2>2. last[t] - g \in Int /\ now - last[t] \in Int
    BY <1>2
  <2> QED
    BY <1>2, <2>1, <2>2, RefillInt
<1>4. Granted(i, L) \in Int /\ Refill(l, Minute) \in Int
  <2>1. Granted(i, L) \in Int
    BY <1>2, GrantedStep
  <2>2. Refill(l, Minute) \in Int
    BY <1>2, FullBucket
  <2> QED
    BY <2>1, <2>2
<1>5. Refilled(t) \in Int /\ Refilled(t) <= tokens[t] + Refill(l, now - last[t])
  <2>1. now - last[t] \in Nat
    BY <1>2
  <2>2. /\ Refill(limits[t], now - last[t]) <= Refill(l, now - last[t])
        /\ Refill(limits[t], now - last[t]) \in Int
    BY <1>1, <1>2, <2>1, RefillGrows
  <2>3. Refill(limits[t], Minute) \in Int
    BY <1>2, FullBucket
  <2>4. Refilled(t) \in Int /\ Refilled(t) <= tokens[t] + Refill(limits[t], now - last[t])
    BY <1>1, <1>2, <2>2, <2>3 DEF Refilled, Lesser
  <2> HIDE DEF l
  <2> QED
    BY <1>2, <1>3, <2>2, <2>4
<1>6. /\ Capacity(t, i, now) = Capacity(t, i, last[t]) + Refill(l, now - last[t])
      /\ Capacity(t, i, last[t]) \in Int
  BY <1>3, <1>4 DEF Capacity
<1> HIDE DEF L, l
<1>7. Granted(i, L) + Refilled(t) <= Capacity(t, i, now)
  BY <1>1, <1>2, <1>3, <1>4, <1>5, <1>6
<1> QED
  BY <1>7 DEF L

\* A grant is paid for: the bucket gives what the history gains.
LEMMA GrantBounded ==
  ASSUME TypeOK, NEW t \in Tenants, BucketOK(t), WindowOK(t), Ordered(t), AllowGrants(t)
  PROVE  BucketOK(t)' /\ WindowOK(t)' /\ Ordered(t)'
<1> DEFINE L == Len(grants[t])
           l == limits[t]
<1>1. /\ t \in DOMAIN limits /\ l \in Nat /\ Minute \in Int /\ now \in Int
      /\ Refilled(t) \in Nat /\ Refilled(t) >= Minute
      /\ Refilled(t) <= Refill(l, Minute) /\ Refill(l, Minute) \in Nat
  <2>1. t \in DOMAIN limits /\ Refilled(t) >= Minute
    BY DEF AllowGrants, WouldGrant
  <2>2. l \in Nat /\ Minute \in Int /\ now \in Int
    BY <2>1, PlainFacts
  <2> QED
    BY <2>1, <2>2, RefilledType, FullBucket
<1>2. /\ limits' = limits /\ last'[t] = now /\ t \in DOMAIN last'
      /\ tokens'[t] = Refilled(t) - Minute
      /\ grants'[t] = Append(grants[t], [at |-> now, peak |-> l])
  BY DEF AllowGrants, Put, TypeOK
<1>3. /\ L \in Nat /\ Len(grants'[t]) = L + 1
      /\ DOMAIN grants[t] = 1..L /\ DOMAIN grants'[t] = 1..(L + 1)
      /\ grants'[t][L + 1] = [at |-> now, peak |-> l]
      /\ \A i \in 1..L : /\ grants'[t][i] = grants[t][i]
                         /\ grants[t][i].at \in Int /\ grants[t][i].peak \in Nat
                         /\ limits[t] <= grants[t][i].peak
  <2>1. grants[t] \in Seq(GrantsTo(now)) /\ [at |-> now, peak |-> l] \in GrantsTo(now)
    BY <1>1, HistoryType, PlainFacts
  <2>2. \A i \in DOMAIN grants[t] : limits[t] <= grants[t][i].peak
    BY DEF BucketOK
  <2> HIDE DEF l
  <2> QED
    BY <1>2, <2>1, <2>2, HistoryType, AppendProperties
<1>o. \A i \in 1..L : grants[t][i].at <= now
  BY <1>3, HistoryType
<1>c. \A i \in 1..(L + 1) : /\ grants'[t][i].at \in Int /\ grants'[t][i].peak \in Nat
                            /\ limits'[t] <= grants'[t][i].peak /\ grants'[t][i].at <= now
  <2> HIDE DEF L, l
  <2>1. ASSUME NEW i \in 1..(L + 1)
        PROVE  /\ grants'[t][i].at \in Int /\ grants'[t][i].peak \in Nat
               /\ l <= grants'[t][i].peak /\ grants'[t][i].at <= now
    <3>1. CASE i = L + 1
      BY <1>1, <1>3, <3>1
    <3>2. CASE i # L + 1
      <4>1. i \in 1..L
        BY <1>3, <3>2
      <4> QED
        BY <1>3, <1>o, <4>1 DEF l
    <3> QED
      BY <3>1, <3>2
  <2> QED
    BY <1>2, <2>1 DEF l
<1>d. Ordered(t)'
  <2> HIDE DEF L, l
  <2>1. ASSUME NEW j \in 1..(L + 1), NEW i \in 1..j
        PROVE  grants'[t][i].at <= grants'[t][j].at
    <3>1. CASE j = L + 1
      BY <1>3, <1>c, <2>1, <3>1
    <3>2. CASE j # L + 1
      <4>1. j \in 1..L /\ i \in 1..L
        BY <1>3, <2>1, <3>2
      <4> QED
        BY <1>3, <2>1, <4>1 DEF Ordered
    <3> QED
      BY <3>1, <3>2
  <2> QED
    BY <1>2, <1>3, <1>c, <2>1 DEF Ordered
<1> HIDE DEF L, l
<1>4. ASSUME NEW i \in 1..(L + 1)
      PROVE  Granted(i, L + 1) + tokens'[t]
               <= Refill(grants'[t][i].peak, Minute)
                  + Refill(grants'[t][i].peak, now - grants'[t][i].at)
  <2>1. CASE i = L + 1
    <3>1. Granted(i, L + 1) = Minute
      <4>1. Granted(L + 1, L + 1) = Minute
        BY <1>3, GrantedStep
      <4> QED
        BY <2>1, <4>1
    <3>2. grants'[t][i].peak = l /\ Refill(l, now - grants'[t][i].at) = 0
      <4>1. now - grants'[t][i].at = 0 /\ grants'[t][i].peak = l
        BY <1>1, <1>3, <2>1
      <4> QED
        BY <1>1, <4>1, FullBucket
    <3>3. tokens'[t] = Refilled(t) - Minute
      BY <1>2
    <3> QED
      BY <1>1, <3>1, <3>2, <3>3
  <2>2. CASE i # L + 1
    <3>1. i \in 1..L
      BY <1>3, <2>2
    <3> DEFINE p == grants[t][i].peak
               c == Refill(p, Minute) + Refill(p, now - grants[t][i].at)
    <3>2. Granted(i, L) + Refilled(t) <= c
      BY <1>1, <1>3, <3>1, RefillBounded DEF Capacity, L, l
    <3>5. c \in Int
      <4>1. now - grants[t][i].at \in Int /\ p \in Nat
        BY <1>1, <1>3, <3>1
      <4>2. Refill(p, now - grants[t][i].at) \in Int
        BY <4>1, RefillInt
      <4>3. Refill(p, Minute) \in Int
        BY <4>1, FullBucket
      <4> QED
        BY <4>2, <4>3
    <3>3. Granted(i, L) \in Int /\ Granted(i, L + 1) = Granted(i, L) + Minute
      <4>1. i \in Int /\ L \in Int
        BY <1>3, <3>1
      <4> QED
        BY <4>1, GrantedStep
    <3>4. grants'[t][i] = grants[t][i]
      BY <1>3, <3>1
    <3> HIDE DEF c
    <3>6. Granted(i, L + 1) + tokens'[t] <= c
      BY <1>1, <1>2, <3>2, <3>3, <3>5
    <3> QED
      BY <3>4, <3>6 DEF c
  <2> QED
    BY <2>1, <2>2
<1>5. BucketOK(t)'
  BY <1>2, <1>3, <1>c, <1>4 DEF BucketOK, Granted, Capacity
<1>6. ASSUME NEW j \in 1..(L + 1), NEW i \in 1..j
      PROVE  Granted(i, j) <= Refill(grants'[t][i].peak, Minute)
                              + Refill(grants'[t][i].peak, grants'[t][j].at - grants'[t][i].at)
  <2>1. CASE j = L + 1
    <3>1. tokens'[t] \in Nat /\ Granted(i, L + 1) \in Int
      <4>1. i \in Int /\ L + 1 \in Int
        BY <1>3, <2>1
      <4>2. Granted(i, L + 1) \in Int
        BY <4>1, GrantedStep
      <4> QED
        BY <1>1, <1>2, <4>2
    <3> DEFINE p == grants'[t][i].peak
               c == Refill(p, Minute) + Refill(p, now - grants'[t][i].at)
    <3>2. i \in 1..(L + 1) /\ c \in Int
      <4>1. i \in 1..(L + 1) /\ now - grants'[t][i].at \in Int /\ p \in Nat
        BY <1>1, <1>3, <1>c, <2>1
      <4>2. Refill(p, now - grants'[t][i].at) \in Int
        BY <4>1, RefillInt
      <4>3. Refill(p, Minute) \in Int
        BY <4>1, FullBucket
      <4> QED
        BY <4>1, <4>2, <4>3
    <3>3. Granted(i, L + 1) + tokens'[t] <= c
      BY <1>4, <3>2
    <3> HIDE DEF c
    <3>4. Granted(i, L + 1) <= c
      BY <3>1, <3>2, <3>3
    <3>5. grants'[t][j].at = now
      BY <1>3, <2>1
    <3> QED
      BY <2>1, <3>4, <3>5 DEF c
  <2>2. CASE j # L + 1
    <3>1. j \in 1..L /\ i \in 1..L
      BY <1>3, <2>2
    <3>2. Granted(i, j) <= Capacity(t, i, grants[t][j].at)
      BY <1>3, <3>1 DEF WindowOK
    <3>3. grants'[t][i] = grants[t][i] /\ grants'[t][j] = grants[t][j]
      BY <1>3, <3>1
    <3> QED
      BY <3>2, <3>3 DEF Capacity, l
  <2> QED
    BY <2>1, <2>2
<1>7. WindowOK(t)'
  BY <1>2, <1>3, <1>6 DEF WindowOK, Granted, Capacity
<1> QED
  BY <1>5, <1>7, <1>d

LEMMA DenialBounded ==
  ASSUME TypeOK, NEW t \in Tenants, BucketOK(t), WindowOK(t), Ordered(t), AllowDenies(t)
  PROVE  BucketOK(t)' /\ WindowOK(t)' /\ Ordered(t)'
<1>1. /\ t \in DOMAIN limits
      /\ limits' = limits /\ grants' = grants
      /\ last'[t] = now /\ t \in DOMAIN last'
      /\ tokens'[t] = Refilled(t)
  BY DEF AllowDenies, Put
<1>2. BucketOK(t)'
  BY <1>1, RefillBounded DEF BucketOK, Granted, Capacity
<1>3. WindowOK(t)'
  BY <1>1 DEF WindowOK, Granted, Capacity
<1>4. Ordered(t)'
  BY <1>1, HistoryType DEF Ordered
<1> QED
  BY <1>2, <1>3, <1>4

\* A change of its limit raises what the history allows, and leaves the bucket
\* and the grants alone.
LEMMA SetLimitBounded ==
  ASSUME TypeOK, NEW t \in Tenants, BucketOK(t), WindowOK(t), Ordered(t),
         NEW l \in NewLimits, SetLimit(t, l)
  PROVE  BucketOK(t)' /\ WindowOK(t)' /\ Ordered(t)'
<1> DEFINE h == grants[t]
           r == Raised(h, l)
<1>1. /\ l \in Nat /\ now \in Nat /\ h \in Seq(GrantsTo(now))
      /\ DOMAIN h = 1..Len(h) /\ Len(h) \in Nat
      /\ \A i \in DOMAIN h : i \in Int /\ h[i].at \in Int /\ h[i].peak \in Nat
  <2>1. l \in Nat
    BY LimiterAssumption
  <2> QED
    BY <2>1, HistoryType, PlainFacts
<1>2. /\ DOMAIN r = DOMAIN h /\ Len(r) = Len(h)
      /\ \A i \in DOMAIN h : /\ r[i].at = h[i].at /\ r[i].peak \in Nat
                              /\ h[i].peak <= r[i].peak /\ l <= r[i].peak
  BY <1>1, RaisedHistory
<1>3. grants'[t] = r /\ limits'[t] = l /\ last' = last
      /\ (t \in DOMAIN tokens => tokens'[t] = tokens[t])
  BY DEF SetLimit, Put, TypeOK
<1> HIDE DEF h, r
<1>4. ASSUME NEW i \in DOMAIN h, NEW time \in Int, h[i].at <= time, NEW n \in Int,
             n <= Capacity(t, i, time)
      PROVE  n <= Refill(r[i].peak, Minute) + Refill(r[i].peak, time - r[i].at)
  <2>1. time - h[i].at \in Nat /\ Minute \in Nat
    BY <1>1, <1>4, LimiterAssumption
  <2>2. /\ Refill(h[i].peak, Minute) <= Refill(r[i].peak, Minute)
        /\ Refill(h[i].peak, Minute) \in Nat /\ Refill(r[i].peak, Minute) \in Nat
    BY <1>1, <1>2, <2>1, RefillGrows
  <2>3. /\ Refill(h[i].peak, time - h[i].at) <= Refill(r[i].peak, time - h[i].at)
        /\ Refill(h[i].peak, time - h[i].at) \in Nat
        /\ Refill(r[i].peak, time - h[i].at) \in Nat
    BY <1>1, <1>2, <2>1, RefillGrows
  <2>4. n <= Refill(h[i].peak, Minute) + Refill(h[i].peak, time - h[i].at)
    BY <1>4 DEF Capacity, h
  <2>5. n <= Refill(r[i].peak, Minute) + Refill(r[i].peak, time - h[i].at)
    BY <2>2, <2>3, <2>4
  <2> QED
    BY <1>2, <2>5
<1>5. ASSUME NEW i \in DOMAIN h
      PROVE  /\ t \in DOMAIN last
             /\ Granted(i, Len(h)) + tokens[t]
                  <= Refill(r[i].peak, Minute) + Refill(r[i].peak, last[t] - r[i].at)
  <2>1. /\ t \in DOMAIN last /\ h[i].at <= last[t]
        /\ Granted(i, Len(h)) + tokens[t] <= Capacity(t, i, last[t])
    BY DEF BucketOK, Ordered, h
  <2>2. last[t] \in Int /\ tokens[t] \in Int
    BY <2>1 DEF TypeOK
  <2>3. Granted(i, Len(h)) \in Int
    BY <1>1, GrantedStep
  <2>4. Granted(i, Len(h)) + tokens[t] \in Int
    BY <2>2, <2>3
  <2> QED
    BY <1>4, <2>1, <2>2, <2>4
<1>6. BucketOK(t)'
  <2>1. t \in DOMAIN last => t \in DOMAIN tokens
    BY DEF TypeOK
  <2> QED
    BY <1>2, <1>3, <1>5, <2>1 DEF BucketOK, Granted, Capacity
<1>7. ASSUME NEW j \in DOMAIN h, NEW i \in 1..j
      PROVE  Granted(i, j) <= Refill(r[i].peak, Minute)
                              + Refill(r[i].peak, r[j].at - r[i].at)
  <2>1. i \in DOMAIN h /\ h[j].at \in Int /\ h[i].at <= h[j].at
        /\ Granted(i, j) <= Capacity(t, i, h[j].at)
    BY <1>1, <1>7 DEF Ordered, WindowOK, h
  <2>2. Granted(i, j) \in Int
    BY <1>1, <2>1, GrantedStep
  <2> QED
    BY <1>2, <1>4, <2>1, <2>2
<1>8. WindowOK(t)'
  BY <1>2, <1>3, <1>7 DEF WindowOK, Granted, Capacity
<1>9. Ordered(t)'
  <2>1. ASSUME NEW j \in DOMAIN h, NEW i \in 1..j
        PROVE  i \in DOMAIN h /\ r[i].at <= r[j].at /\ r[j].at <= last[t]
    BY <1>1, <1>2, <2>1 DEF Ordered, h
  <2>2. ASSUME NEW j \in DOMAIN h PROVE r[j].at <= last[t]
    BY <1>2, <2>2 DEF Ordered, h
  <2> QED
    BY <1>2, <1>3, <2>1, <2>2 DEF Ordered
<1> QED
  BY <1>6, <1>8, <1>9

BoundInv == TypeOK /\ BucketInv /\ WindowBound /\ \A t \in Tenants : Ordered(t)

LEMMA InitBound == Init => BoundInv
<1> SUFFICES ASSUME Init PROVE BucketInv /\ WindowBound /\ \A t \in Tenants : Ordered(t)
  BY InitType DEF BoundInv
<1>1. \A t \in Tenants : grants[t] = <<>>
  BY DEF Init
<1> QED
  BY <1>1 DEF BucketInv, BucketOK, WindowBound, WindowOK, Ordered

LEMMA NextBound == BoundInv /\ [Next]_vars => BoundInv'
<1> SUFFICES ASSUME BoundInv, [Next]_vars, NEW u \in Tenants
             PROVE  BucketOK(u)' /\ WindowOK(u)' /\ Ordered(u)'
  BY NextType DEF BoundInv, BucketInv, WindowBound
<1>1. TypeOK /\ BucketOK(u) /\ WindowOK(u) /\ Ordered(u)
  BY DEF BoundInv, BucketInv, WindowBound
<1>2. ASSUME NEW t \in Tenants, AllowUnknown(t)
      PROVE  BucketOK(u)' /\ WindowOK(u)' /\ Ordered(u)'
  BY <1>1, <1>2, TenantKept DEF AllowUnknown, vars
<1>3. ASSUME NEW t \in Tenants, AllowGrants(t)
      PROVE  BucketOK(u)' /\ WindowOK(u)' /\ Ordered(u)'
  <2>1. CASE u = t
    BY <1>1, <1>3, <2>1, GrantBounded
  <2>2. CASE u # t
    <3>1. /\ grants'[u] = grants[u] /\ limits' = limits
          /\ u \in DOMAIN last => /\ u \in DOMAIN last' /\ u \in DOMAIN tokens
                                 /\ last'[u] = last[u] /\ tokens'[u] = tokens[u]
      BY <1>1, <1>3, <2>2 DEF AllowGrants, Put, TypeOK
    <3> QED
      BY <1>1, <3>1, TenantKept
  <2> QED
    BY <2>1, <2>2
<1>4. ASSUME NEW t \in Tenants, AllowDenies(t)
      PROVE  BucketOK(u)' /\ WindowOK(u)' /\ Ordered(u)'
  <2>1. CASE u = t
    BY <1>1, <1>4, <2>1, DenialBounded
  <2>2. CASE u # t
    <3>1. /\ grants'[u] = grants[u] /\ limits' = limits
          /\ u \in DOMAIN last => /\ u \in DOMAIN last' /\ u \in DOMAIN tokens
                                 /\ last'[u] = last[u] /\ tokens'[u] = tokens[u]
      BY <1>1, <1>4, <2>2 DEF AllowDenies, Put, TypeOK
    <3> QED
      BY <1>1, <3>1, TenantKept
  <2> QED
    BY <2>1, <2>2
<1>5. ASSUME NEW t \in Tenants, NEW l \in NewLimits, SetLimit(t, l)
      PROVE  BucketOK(u)' /\ WindowOK(u)' /\ Ordered(u)'
  <2>1. CASE u = t
    BY <1>1, <1>5, <2>1, SetLimitBounded
  <2>2. CASE u # t
    <3>1. /\ grants'[u] = grants[u] /\ last' = last
          /\ u \in DOMAIN last => limits'[u] = limits[u] /\ tokens'[u] = tokens[u]
      BY <1>1, <1>5, <2>2 DEF SetLimit, Put, TypeOK
    <3> QED
      BY <1>1, <3>1, TenantKept
  <2> QED
    BY <2>1, <2>2
<1>6. CASE Tick
  BY <1>1, <1>6, TenantKept DEF Tick
<1>7. CASE UNCHANGED vars
  BY <1>1, <1>7, TenantKept DEF vars
<1> QED
  BY <1>2, <1>3, <1>4, <1>5, <1>6, <1>7 DEF Next, Allow

\* Whatever the requests, the denials and the changes of limits, no stretch
\* of time holds more grants than one bucket and what it gained meanwhile, both
\* at the largest limit since the stretch began.
THEOREM WindowsBounded == Spec => []WindowBound
<1>1. BoundInv => WindowBound
  BY DEF BoundInv
<1> QED
  BY InitBound, NextBound, <1>1, PTL DEF Spec

\* The largest number of grants that any minute holds.
Twice == \A l, d, n \in Nat :
  n * Minute <= l * Minute + l * d /\ d < Minute /\ n > 0 => n < 2 * l

LEMMA LessThanTwice == Twice
<1> SUFFICES ASSUME NEW l \in Nat, NEW d \in Nat, NEW n \in Nat,
                    n * Minute <= l * Minute + l * d, d < Minute, n > 0
             PROVE  n < 2 * l
  BY DEF Twice
<1>1. Minute \in Nat /\ Minute > 0
  BY LimiterAssumption
<1>2. \A a, b, c \in Nat : a <= b => a * c <= b * c
  OBVIOUS
<1>3. CASE l = 0
  <2>1. l * Minute + l * d = 0
    BY <1>1, <1>3
  <2>2. 1 * Minute <= n * Minute
    BY <1>1, <1>2
  <2> QED
    BY <1>1, <2>1, <2>2
<1>4. CASE l > 0
  <2>1. l * d + l <= l * Minute
    <3>1. l * (d + 1) <= l * Minute
      BY <1>1, <1>2
    <3>2. l * (d + 1) = l * d + l
      OBVIOUS
    <3> QED
      BY <3>1, <3>2
  <2>2. ASSUME 2 * l <= n PROVE FALSE
    <3>1. (2 * l) * Minute <= n * Minute
      BY <1>1, <1>2, <2>2
    <3>2. (2 * l) * Minute = l * Minute + l * Minute
      BY <1>1
    <3>3. l * Minute \in Int /\ l * d \in Int /\ n * Minute \in Int
      BY <1>1
    <3> QED
      BY <1>4, <2>1, <3>1, <3>2, <3>3
  <2> QED
    BY <2>2
<1> QED
  BY <1>3, <1>4

\* The grants of less than a minute are fewer than twice the largest limit
\* since the first of them.
MinuteBound ==
  \A t \in Tenants : \A j \in DOMAIN grants[t] : \A i \in 1..j :
    grants[t][j].at - grants[t][i].at < Minute => j - i + 1 < 2 * grants[t][i].peak

\* The limit is one of requests per minute only up to a factor of two, as the
\* bucket starts full and refills while it is drained (ratelimit.go:45-63;
\* README.md:129 promises a refusal after the limit itself).
THEOREM MinutesBounded == Spec => []MinuteBound
<1>1. ASSUME BoundInv, NEW t \in Tenants, NEW j \in DOMAIN grants[t], NEW i \in 1..j,
             grants[t][j].at - grants[t][i].at < Minute
      PROVE  j - i + 1 < 2 * grants[t][i].peak
  <2> DEFINE l == grants[t][i].peak
             n == j - i + 1
             d == grants[t][j].at - grants[t][i].at
  <2>1. j \in Nat /\ i \in Nat /\ i \in DOMAIN grants[t] /\ n \in Nat /\ n > 0
    BY <1>1, HistoryType DEF BoundInv
  <2>2. l \in Nat
    BY <1>1, <2>1, HistoryType DEF BoundInv
  <2>3. grants[t][i].at \in Int /\ grants[t][j].at \in Int /\ d \in Int
    BY <1>1, <2>1, HistoryType DEF BoundInv
  <2>4. Minute * n <= l * Minute + l * d
    BY <1>1 DEF BoundInv, WindowBound, WindowOK, Granted, Capacity, Refill
  <2>5. Minute \in Nat /\ n * Minute = Minute * n /\ d < Minute
    BY <1>1, <2>1, LimiterAssumption
  <2> SUFFICES n < 2 * l
    OBVIOUS
  <2> HIDE DEF l, n, d
  <2>6. CASE d >= 0
    BY <2>1, <2>2, <2>3, <2>4, <2>5, <2>6, LessThanTwice DEF Twice
  <2>7. CASE d < 0
    <3>1. l * d <= 0 /\ l * d \in Int /\ l * 0 = 0
      BY <2>2, <2>3, <2>7
    <3>2. l * Minute \in Int /\ Minute > 0 /\ n * Minute \in Int
      BY <2>1, <2>2, <2>5, LimiterAssumption
    <3>3. n * Minute <= l * Minute + l * 0
      BY <2>4, <2>5, <3>1, <3>2
    <3> QED
      BY <2>1, <2>2, <3>2, <3>3, LessThanTwice DEF Twice
  <2> QED
    BY <2>3, <2>6, <2>7
<1>2. BoundInv => MinuteBound
  BY <1>1 DEF MinuteBound
<1> QED
  BY <1>2, InitBound, NextBound, PTL DEF Spec

-----------------------------------------------------------------------------
(* Exactness while limits do not change                                    *)

\* The history of a tenant whose limit was never changed has that limit alone.
Steadfast(t) == \A i \in DOMAIN grants[t] : grants[t][i].peak = limits[t]

SteadyInv == \A t \in DOMAIN limits : Steady(t) => Steadfast(t)

LEMMA InitSteady == Init => SteadyInv
BY LimiterAssumption DEF Init, SteadyInv, Steadfast

LEMMA NextSteady == TypeOK /\ SteadyInv /\ [Next]_vars => SteadyInv'
<1> SUFFICES ASSUME TypeOK, SteadyInv, [Next]_vars, NEW u \in DOMAIN limits',
                    Steady(u)'
             PROVE  Steadfast(u)'
  BY DEF SteadyInv
<1>1. ASSUME UNCHANGED <<limits, grants>>
      PROVE  Steadfast(u)'
  BY <1>1 DEF SteadyInv, Steady, Steadfast
<1>2. ASSUME NEW t \in Tenants, AllowGrants(t)
      PROVE  Steadfast(u)'
  <2>1. u \in DOMAIN limits /\ limits' = limits /\ Steadfast(u) /\ u \in Tenants
    BY <1>2 DEF AllowGrants, SteadyInv, Steady, TypeOK
  <2>2. CASE u # t
    BY <1>2, <2>1, <2>2 DEF AllowGrants, Steadfast, TypeOK
  <2>3. CASE u = t
    <3> DEFINE g == [at |-> now, peak |-> limits[t]]
    <3>1. g \in GrantsTo(now) /\ grants[t] \in Seq(GrantsTo(now))
      BY <2>1, <2>3, HistoryType, PlainFacts
    <3>2. grants'[t] = Append(grants[t], g)
      BY <1>2 DEF AllowGrants, TypeOK
    <3>4. g.peak = limits[t]
      OBVIOUS
    <3> HIDE DEF g
    <3>3. /\ DOMAIN grants'[t] = 1..(Len(grants[t]) + 1)
          /\ grants'[t][Len(grants[t]) + 1] = g
          /\ \A i \in 1..Len(grants[t]) : i \in DOMAIN grants[t] /\ grants'[t][i] = grants[t][i]
      BY <3>1, <3>2, AppendProperties, LenProperties
    <3>5. Len(grants[t]) \in Nat
      BY <3>1, LenProperties
    <3> QED
      BY <2>1, <2>3, <3>3, <3>4, <3>5 DEF Steadfast
  <2> QED
    BY <2>2, <2>3
<1>3. ASSUME NEW t \in Tenants, NEW l \in NewLimits, SetLimit(t, l)
      PROVE  Steadfast(u)'
  <2>1. u # t
    BY <1>3 DEF SetLimit, Put, Steady
  <2>2. u \in DOMAIN limits /\ limits'[u] = limits[u] /\ grants'[u] = grants[u]
    BY <1>3, <2>1 DEF SetLimit, Put, TypeOK
  <2> QED
    BY <2>2 DEF SteadyInv, Steady, Steadfast
<1> QED
  BY <1>1, <1>2, <1>3 DEF Next, Allow, AllowUnknown, AllowDenies, Tick, vars

\* Refilling keeps the account: the bucket is full, or the grant that
\* accounted for it still does.
LEMMA RefillExact ==
  ASSUME TypeOK, NEW t \in DOMAIN limits, Steadfast(t), t \in DOMAIN last => ExactFor(t)
  PROVE  \/ Refilled(t) = Refill(limits[t], Minute)
         \/ \E i \in DOMAIN grants[t] :
              Granted(i, Len(grants[t])) + Refilled(t) = Capacity(t, i, now)
<1> DEFINE l == limits[t]
           b == last[t]
           e == Refill(l, now - b)
           L == Len(grants[t])
<1>1. CASE t \notin DOMAIN last
  BY <1>1 DEF Refilled
<1>2. CASE t \in DOMAIN last
  <2>1. Refilled(t) = Lesser(Refill(l, Minute), tokens[t] + e)
    BY <1>2 DEF Refilled
  <2>2. /\ l \in Nat /\ t \in Tenants /\ tokens[t] \in Int
        /\ b \in Int /\ now \in Int /\ b <= now
    BY <1>2 DEF TypeOK
  <2> HIDE DEF l, b
  <2>3. Refill(l, Minute) \in Int
    BY <2>2, FullBucket
  <2>4. e \in Nat
    BY <2>2, RefillAdds
  <2>5. CASE tokens[t] = Refill(l, Minute)
    <3> HIDE DEF e
    <3>1. Refilled(t) = Refill(l, Minute)
      BY <2>1, <2>3, <2>4, <2>5 DEF Lesser
    <3> QED
      BY <3>1 DEF l
  <2>6. CASE tokens[t] # Refill(l, Minute) /\ Refilled(t) # Refill(l, Minute)
    <3>1. Refilled(t) = tokens[t] + e
      BY <2>1, <2>6, Zenon DEF Lesser
    <3>2. PICK i \in DOMAIN grants[t] :
            Granted(i, L) + tokens[t] = Capacity(t, i, b)
      BY <1>2, <2>6 DEF ExactFor, l, b
    <3> DEFINE g == grants[t][i].at
    <3>3. i \in Int /\ L \in Int /\ g \in Int
      BY <2>2, HistoryType
    <3>4. /\ Capacity(t, i, now) = Refill(l, Minute) + Refill(l, now - g)
          /\ Capacity(t, i, b) = Refill(l, Minute) + Refill(l, b - g)
      BY DEF Capacity, Steadfast, l
    <3> HIDE DEF g, L
    <3>5. Granted(i, L) \in Int
      BY <3>3, GrantedStep
    <3>6. Refill(l, now - g) = Refill(l, b - g) + e /\ Refill(l, b - g) \in Int
      <4>1. l \in Nat /\ g \in Int /\ b \in Int /\ now \in Int
        BY <2>2, <3>3
      <4>2. Refill(l, now - g) = Refill(l, b - g) + Refill(l, now - b)
        BY <4>1, RefillAdds
      <4>3. Refill(l, b - g) \in Int
        BY <4>1, RefillAdds
      <4> QED
        BY <4>2, <4>3
    <3> HIDE DEF e
    <3>7. Granted(i, L) + Refilled(t) = Capacity(t, i, now)
      BY <2>2, <2>3, <2>4, <3>1, <3>2, <3>4, <3>5, <3>6
    <3> QED
      BY <3>7 DEF L
  <2> QED
    BY <2>5, <2>6 DEF l
<1> QED
  BY <1>1, <1>2

LEMMA InitExact == Init => ExactInv
BY DEF Init, ExactInv

LEMMA NextExact == TypeOK /\ SteadyInv /\ ExactInv /\ [Next]_vars => ExactInv'
<1> SUFFICES ASSUME TypeOK, SteadyInv, ExactInv, [Next]_vars, NEW u \in DOMAIN last',
                    Steady(u)'
             PROVE  ExactFor(u)'
  BY DEF ExactInv
<1>1. ASSUME limits'[u] = limits[u], u \in DOMAIN last
      PROVE  ExactFor(u)
  BY <1>1 DEF ExactInv, Steady
<1>s. ASSUME limits'[u] = limits[u], u \in DOMAIN limits
      PROVE  Steadfast(u)
  BY <1>s DEF SteadyInv, Steady
<1>2. ASSUME u \in DOMAIN last, limits'[u] = limits[u], grants'[u] = grants[u],
             last'[u] = last[u], tokens'[u] = tokens[u]
      PROVE  ExactFor(u)'
  BY <1>1, <1>2 DEF ExactFor, Granted, Capacity
<1>3. ASSUME NEW t \in Tenants, AllowGrants(t) PROVE ExactFor(u)'
  <2>1. CASE u # t
    <3>1. u \in DOMAIN last /\ u \in DOMAIN tokens
      BY <1>3, <2>1 DEF AllowGrants, Put, TypeOK
    <3> QED
      BY <1>2, <1>3, <2>1, <3>1 DEF AllowGrants, Put, TypeOK
  <2>2. CASE u = t
    <3> DEFINE L == Len(grants[t])
               l == limits[t]
    <3>1. /\ t \in DOMAIN limits /\ l \in Nat /\ Minute \in Int /\ now \in Int
          /\ Refilled(t) \in Nat /\ Refill(l, Minute) \in Nat
      <4>1. t \in DOMAIN limits
        BY <1>3 DEF AllowGrants, WouldGrant
      <4>2. l \in Nat /\ Minute \in Int /\ now \in Int
        BY <4>1, PlainFacts
      <4> QED
        BY <4>1, <4>2, RefilledType, FullBucket
    <3>2. /\ limits' = limits /\ last'[t] = now
          /\ tokens'[t] = Refilled(t) - Minute
          /\ grants'[t] = Append(grants[t], [at |-> now, peak |-> l])
      BY <1>3 DEF AllowGrants, Put, TypeOK
    <3>3. /\ L \in Nat /\ Len(grants'[t]) = L + 1
          /\ DOMAIN grants[t] = 1..L /\ DOMAIN grants'[t] = 1..(L + 1)
          /\ grants'[t][L + 1] = [at |-> now, peak |-> l]
          /\ \A i \in 1..L : grants'[t][i] = grants[t][i]
      <4>1. grants[t] \in Seq(GrantsTo(now)) /\ [at |-> now, peak |-> l] \in GrantsTo(now)
        BY <3>1, HistoryType, PlainFacts
      <4> HIDE DEF l
      <4> QED
        BY <3>2, <4>1, HistoryType, AppendProperties
    <3>p. Steadfast(t) /\ \A i \in 1..L : grants'[t][i].peak = l
      <4>1. Steadfast(t)
        BY <1>s, <2>2, <3>1, <3>2
      <4> QED
        BY <3>3, <4>1 DEF Steadfast
    <3>4. \E i \in 1..(L + 1) :
            Granted(i, L + 1) + tokens'[t]
              = Refill(l, Minute) + Refill(l, now - grants'[t][i].at)
      <4>1. CASE Refilled(t) = Refill(l, Minute)
        <5> HIDE DEF l, L
        <5>1. Granted(L + 1, L + 1) = Minute
          BY <3>3, GrantedStep
        <5>2. now - grants'[t][L + 1].at = 0
          BY <3>1, <3>3
        <5>3. Refill(l, now - grants'[t][L + 1].at) = 0
          BY <3>1, <5>2, FullBucket
        <5>4. Granted(L + 1, L + 1) + tokens'[t]
                = Refill(l, Minute) + Refill(l, now - grants'[t][L + 1].at)
          <6>1. /\ tokens'[t] = Refill(l, Minute) - Minute
                /\ Refill(l, Minute) \in Int /\ Minute \in Int
            BY <3>1, <3>2, <4>1
          <6> QED
            BY <5>1, <5>3, <6>1
        <5>5. L + 1 \in 1..(L + 1)
          BY <3>3
        <5> QED
          BY <5>4, <5>5
      <4>2. CASE Refilled(t) # Refill(l, Minute)
        <5>1. PICK i \in DOMAIN grants[t] :
                Granted(i, L) + Refilled(t) = Capacity(t, i, now)
          BY <1>1, <2>2, <3>1, <3>2, <3>p, <4>2, RefillExact
        <5>2. Capacity(t, i, now) = Refill(l, Minute) + Refill(l, now - grants[t][i].at)
          BY <3>p DEF Capacity, Steadfast
        <5> HIDE DEF l, L
        <5>3. i \in 1..L /\ i \in 1..(L + 1) /\ i \in Int /\ L \in Int
          BY <3>3, <5>1
        <5>4. Granted(i, L) \in Int /\ Granted(i, L + 1) = Granted(i, L) + Minute
          BY <5>3, GrantedStep
        <5>5. grants'[t][i] = grants[t][i]
          BY <3>3, <5>3
        <5>6. Granted(i, L + 1) + tokens'[t] = Granted(i, L) + Refilled(t)
          BY <3>1, <3>2, <5>4
        <5> QED
          BY <5>1, <5>2, <5>3, <5>5, <5>6
      <4> QED
        BY <4>1, <4>2
    <3>5. \A i \in 1..(L + 1) : grants'[t][i].peak = l
      <4> HIDE DEF l, L
      <4>1. \A i \in 1..(L + 1) : i \in 1..L \/ i = L + 1
        BY <3>3
      <4> QED
        BY <3>3, <3>p, <4>1
    <3> QED
      BY <2>2, <3>2, <3>3, <3>4, <3>5 DEF ExactFor, Granted, Capacity
  <2> QED
    BY <2>1, <2>2
<1>4. ASSUME NEW t \in Tenants, AllowDenies(t) PROVE ExactFor(u)'
  <2>1. CASE u # t
    <3>1. u \in DOMAIN last /\ u \in DOMAIN tokens
      BY <1>4, <2>1 DEF AllowDenies, Put, TypeOK
    <3> QED
      BY <1>2, <1>4, <2>1, <3>1 DEF AllowDenies, Put, TypeOK
  <2>2. CASE u = t
    <3>1. /\ t \in DOMAIN limits
          /\ limits' = limits /\ last'[t] = now /\ grants' = grants
          /\ tokens'[t] = Refilled(t)
      BY <1>4 DEF AllowDenies, Put
    <3> QED
      BY <1>1, <1>s, <2>2, <3>1, RefillExact DEF ExactFor, Granted, Capacity
  <2> QED
    BY <2>1, <2>2
<1>5. CASE Tick
  BY <1>2, <1>5 DEF Tick
<1>6. CASE UNCHANGED vars
  BY <1>2, <1>6 DEF vars
<1>7. ASSUME NEW t \in Tenants, AllowUnknown(t) PROVE ExactFor(u)'
  BY <1>6, <1>7 DEF AllowUnknown
<1>8. ASSUME NEW t \in Tenants, NEW l \in NewLimits, SetLimit(t, l)
      PROVE  ExactFor(u)'
  <2>1. u # t
    BY <1>8 DEF SetLimit, Put, Steady
  <2>2. /\ u \in DOMAIN last /\ u \in DOMAIN tokens /\ u \in DOMAIN limits
        /\ last' = last
    BY <1>8 DEF SetLimit, TypeOK
  <2>3. limits'[u] = limits[u]
    BY <1>8, <2>1, <2>2 DEF SetLimit, Put
  <2>4. tokens'[u] = tokens[u]
    BY <1>8, <2>1, <2>2 DEF SetLimit, Put
  <2>5. grants'[u] = grants[u]
    BY <1>8, <2>1, <2>2 DEF SetLimit, TypeOK
  <2> QED
    BY <1>2, <2>2, <2>3, <2>4, <2>5
<1> QED
  BY <1>3, <1>4, <1>5, <1>6, <1>7, <1>8 DEF Next, Allow

LEMMA ExactJustifies == TypeOK /\ SteadyInv /\ ExactInv => DenialJustified
<1> SUFFICES ASSUME TypeOK, SteadyInv, ExactInv, NEW t \in DOMAIN limits, Steady(t),
                    ~WouldGrant(t), limits[t] # 0
             PROVE  \E i \in DOMAIN grants[t] :
                      Granted(i, Len(grants[t]) + 1) > Capacity(t, i, now)
  BY DEF DenialJustified, Exhausted
<1>1. /\ limits[t] \in Nat /\ limits[t] > 0 /\ t \in Tenants
      /\ Refilled(t) \in Nat /\ Minute \in Nat
  <2>1. limits[t] \in Nat /\ t \in Tenants /\ Minute \in Nat
    BY PlainFacts
  <2> QED
    BY <2>1, RefilledType
<1>2. Refilled(t) < Minute
  BY <1>1 DEF WouldGrant
<1>3. Refilled(t) # Refill(limits[t], Minute)
  <2>1. Refill(limits[t], Minute) \in Nat /\ Refill(limits[t], Minute) >= Minute
    BY <1>1, FullBucket
  <2> QED
    BY <1>1, <1>2, <2>1
<1>4. Steadfast(t) /\ (t \in DOMAIN last => ExactFor(t))
  BY DEF SteadyInv, ExactInv
<1>5. PICK i \in DOMAIN grants[t] :
        Granted(i, Len(grants[t])) + Refilled(t) = Capacity(t, i, now)
  BY <1>3, <1>4, RefillExact
<1>6. i \in Int /\ Len(grants[t]) \in Int
  BY <1>1, HistoryType
<1> DEFINE L == Len(grants[t])
<1> HIDE DEF L
<1>7. Granted(i, L) \in Int /\ Granted(i, L + 1) = Granted(i, L) + Minute
  BY <1>6, GrantedStep DEF L
<1>8. Granted(i, L + 1) > Capacity(t, i, now)
  <2>1. Granted(i, L) + Refilled(t) = Capacity(t, i, now)
    BY <1>5 DEF L
  <2> QED
    BY <1>1, <1>2, <1>7, <2>1
<1> QED
  BY <1>8 DEF L

\* A tenant whose limit was never changed is refused only when one more grant
\* would exceed the bound of WindowsBounded.
THEOREM DenialsJustified == Spec => []DenialJustified
<1>1. TypeOK /\ SteadyInv /\ ExactInv /\ [Next]_vars => (TypeOK /\ SteadyInv /\ ExactInv)'
  BY NextType, NextSteady, NextExact
<1>2. Init => TypeOK /\ SteadyInv /\ ExactInv
  BY InitType, InitSteady, InitExact
<1>3. TypeOK /\ SteadyInv /\ ExactInv => DenialJustified
  BY ExactJustifies
<1> QED
  BY <1>1, <1>2, <1>3, PTL DEF Spec
=============================================================================
