------------------------ MODULE AbuseDetector_proofs ------------------------
(***************************************************************************)
(* Theorems about AbuseDetector, for every number of workers, every set of *)
(* requests, every threshold and every length of time.                     *)
(*                                                                         *)
(* The first group says what one pass over a list of times keeps, the      *)
(* second proves the types.  Most theorems hold with any set of cleaners.  *)
(* HistoriesComplete, AdmissionBounded and VelocityNeverDetects are about  *)
(* the detector as the services run it, without a caller of                *)
(* CleanupOldData: with one, the history of a source can be lost, which    *)
(* run detector_cleanup shows.                                             *)
(***************************************************************************)
EXTENDS AbuseDetector, FiniteSetTheorems, SequenceTheorems,
        WellFoundedInduction, TLAPS

-----------------------------------------------------------------------------
(* Lists of times                                                          *)

LEMMA SmallestNumber ==
  ASSUME NEW T \in SUBSET Nat, T # {}
  PROVE  \E n \in T : \A m \in T : n <= m
<1>1. PICK n \in T : \A m \in T : <<m, n>> \notin OpToRel(<, Nat)
  BY NatLessThanWellFounded, WFMin
<1>2. \A m \in T : ~(m < n)
  BY <1>1 DEF OpToRel
<1> QED
  BY <1>2

\* The pass of Since: what it has kept of the first i entries, when g says
\* what it had kept of fewer.
Keep(times, b, g, i) ==
  IF i = 0 THEN <<>>
  ELSE IF times[i] > b THEN Append(g[i - 1], times[i])
  ELSE g[i - 1]

Kept(times, b) == CHOOSE g : g = [i \in 0..Len(times) |-> Keep(times, b, g, i)]

LEMMA SinceIsKept ==
  ASSUME NEW times, NEW span, NEW t
  PROVE  Since(times, span, t) = Kept(times, t - span)[Len(times)]
BY DEF Since, Kept, Keep

LEMMA KeptExists ==
  ASSUME NEW times, Len(times) \in Nat, NEW b
  PROVE  \E g : g = [i \in 0..Len(times) |-> Keep(times, b, g, i)]
<1> DEFINE Tabulated(n) == \E g : g = [i \in 0..n |-> Keep(times, b, g, i)]
           T == {n \in Nat : ~Tabulated(n)}
<1>1. ASSUME NEW n \in T, \A m \in T : n <= m
      PROVE  FALSE
  <2>1. CASE n = 0
    <3> DEFINE g == [i \in 0..0 |-> <<>>]
    <3>1. g = [i \in 0..n |-> Keep(times, b, g, i)]
      BY <2>1 DEF Keep
    <3> QED
      BY <1>1, <3>1
  <2>2. CASE n # 0
    <3>1. n - 1 \in Nat /\ n - 1 \notin T
      BY <1>1, <2>2
    <3>2. PICK g : g = [i \in 0..(n - 1) |-> Keep(times, b, g, i)]
      BY <3>1
    <3> DEFINE h == [i \in 0..n |-> IF i = n THEN Keep(times, b, g, n) ELSE g[i]]
    <3>3. ASSUME NEW i \in 0..n
          PROVE  h[i] = Keep(times, b, h, i)
      <4>1. CASE i = n
        <5>1. h[n - 1] = g[n - 1]
          BY <3>1
        <5> QED
          BY <2>2, <4>1, <5>1 DEF Keep
      <4>2. CASE i # n
        <5>1. i \in 0..(n - 1) /\ (i # 0 => i - 1 \in 0..(n - 1))
          BY <4>2
        <5>2. h[i] = Keep(times, b, g, i)
          BY <3>2, <4>2, <5>1
        <5>3. i # 0 => h[i - 1] = g[i - 1]
          BY <5>1
        <5> QED
          BY <5>2, <5>3 DEF Keep
      <4> QED
        BY <4>1, <4>2
    <3>4. h = [i \in 0..n |-> Keep(times, b, h, i)]
      BY <3>3
    <3> QED
      BY <1>1, <3>4
  <2> QED
    BY <2>1, <2>2
<1>2. T = {}
  <2>1. T \in SUBSET Nat
    OBVIOUS
  <2> HIDE DEF T
  <2> QED
    BY <1>1, <2>1, SmallestNumber
<1> QED
  BY <1>2

LEMMA KeptStep ==
  ASSUME NEW times, Len(times) \in Nat, NEW b, NEW i \in 0..Len(times)
  PROVE  Kept(times, b)[i] = Keep(times, b, Kept(times, b), i)
<1>1. Kept(times, b) = [j \in 0..Len(times) |-> Keep(times, b, Kept(times, b), j)]
  BY KeptExists DEF Kept
<1> QED
  BY <1>1

\* The entries after c among the first n, and their number.
After(times, n, c) == {j \in 1..n : times[j] > c}

Count(times, c) == Cardinality(After(times, Len(times), c))

LEMMA AfterNext ==
  ASSUME NEW times, NEW n \in Nat, NEW c
  PROVE  /\ IsFiniteSet(After(times, n, c))
         /\ Cardinality(After(times, n, c)) \in Nat
         /\ Cardinality(After(times, n + 1, c)) =
              Cardinality(After(times, n, c)) + (IF times[n + 1] > c THEN 1 ELSE 0)
<1>1. IsFiniteSet(1..n)
  BY FS_Interval
<1>2. IsFiniteSet(After(times, n, c))
  BY <1>1, FS_Subset DEF After
<1>3. n + 1 \notin After(times, n, c)
  BY DEF After
<1>4. After(times, n + 1, c) = IF times[n + 1] > c
                                 THEN After(times, n, c) \cup {n + 1}
                                 ELSE After(times, n, c)
  BY DEF After
<1> QED
  BY <1>2, <1>3, <1>4, FS_AddElement, FS_CardinalityType

LEMMA CountAppend ==
  ASSUME NEW S, NEW times \in Seq(S), NEW u \in S, NEW c
  PROVE  /\ Count(times, c) \in Nat
         /\ Count(Append(times, u), c) = Count(times, c) + (IF u > c THEN 1 ELSE 0)
<1> DEFINE n == Len(times)
           new == Append(times, u)
<1>1. n \in Nat /\ Len(new) = n + 1 /\ new[n + 1] = u
      /\ \A j \in 1..n : new[j] = times[j]
  BY LenProperties, AppendProperties
<1>2. After(new, n, c) = After(times, n, c)
  BY <1>1 DEF After
<1>3. /\ Cardinality(After(times, n, c)) \in Nat
      /\ Cardinality(After(new, n + 1, c)) =
           Cardinality(After(new, n, c)) + (IF new[n + 1] > c THEN 1 ELSE 0)
  <2> HIDE DEF n, new
  <2> QED
    BY <1>1, AfterNext
<1> QED
  BY <1>1, <1>2, <1>3 DEF Count

\* What the pass has kept of the first n entries: a list of them, all after
\* the cutoff b, and none of those after a later cutoff is missing.
KeptWell(times, b, S, n) ==
  /\ Kept(times, b)[n] \in Seq(S)
  /\ Len(Kept(times, b)[n]) = Cardinality(After(times, n, b))
  /\ \A c \in Int : c >= b =>
       Count(Kept(times, b)[n], c) = Cardinality(After(times, n, c))

LEMMA KeptFacts ==
  ASSUME NEW S \in SUBSET Int, NEW times \in Seq(S), NEW b \in Int,
         NEW n \in 0..Len(times)
  PROVE  KeptWell(times, b, S, n)
<1> DEFINE T == {m \in Nat : m <= Len(times) /\ ~KeptWell(times, b, S, m)}
<1>1. Len(times) \in Nat /\ \A j \in 1..Len(times) : times[j] \in S
  BY LenProperties
<1>2. ASSUME NEW m \in T, \A k \in T : m <= k
      PROVE  FALSE
  <2>1. m \in 0..Len(times) /\ ~KeptWell(times, b, S, m)
    BY <1>1
  <2>2. Kept(times, b)[m] = Keep(times, b, Kept(times, b), m)
    BY <1>1, <2>1, KeptStep
  <2>3. CASE m = 0
    <3>1. Kept(times, b)[m] = <<>>
      BY <2>2, <2>3 DEF Keep
    <3>2. \A c \in Int : After(times, m, c) = {} /\ After(<<>>, 0, c) = {}
      BY <2>3 DEF After
    <3>3. Len(<<>>) = 0 /\ <<>> \in Seq(S)
      OBVIOUS
    <3> QED
      BY <2>1, <3>1, <3>2, <3>3, FS_EmptySet DEF KeptWell, Count
  <2>4. CASE m # 0
    <3> DEFINE old == Kept(times, b)[m - 1]
               u == times[m]
    <3>1. m - 1 \in Nat /\ m - 1 \notin T /\ m - 1 <= Len(times)
      BY <1>1, <1>2, <2>1, <2>4
    <3>2. KeptWell(times, b, S, m - 1)
      BY <3>1
    <3>3. u \in S /\ u \in Int
      <4>1. m \in 1..Len(times)
        BY <1>1, <2>1, <2>4
      <4>2. times[m] \in S
        BY <1>1, <4>1
      <4> QED
        BY <4>2
    <3>4. \A c : /\ Cardinality(After(times, m - 1, c)) \in Nat
                 /\ Cardinality(After(times, m, c)) =
                      Cardinality(After(times, m - 1, c)) + (IF u > c THEN 1 ELSE 0)
      BY <3>1, AfterNext
    <3>5. CASE u > b
      <4>1. Kept(times, b)[m] = Append(old, u)
        BY <2>2, <2>4, <3>5 DEF Keep
      <4>2. /\ old \in Seq(S)
            /\ Len(old) = Cardinality(After(times, m - 1, b))
            /\ \A c \in Int : c >= b => Count(old, c) = Cardinality(After(times, m - 1, c))
        BY <3>2 DEF KeptWell
      <4> HIDE DEF old, u
      <4>3. Append(old, u) \in Seq(S) /\ Len(Append(old, u)) = Len(old) + 1
        BY <3>3, <4>2, AppendProperties
      <4>4. Len(Append(old, u)) = Cardinality(After(times, m, b))
        BY <3>4, <3>5, <4>2, <4>3
      <4>5. ASSUME NEW c \in Int, c >= b
            PROVE  Count(Append(old, u), c) = Cardinality(After(times, m, c))
        BY <3>3, <3>4, <4>2, <4>5, CountAppend
      <4> QED
        BY <2>1, <4>1, <4>3, <4>4, <4>5 DEF KeptWell
    <3>6. CASE ~(u > b)
      <4>1. Kept(times, b)[m] = old
        BY <2>2, <2>4, <3>6 DEF Keep
      <4>2. \A c \in Int : c >= b => ~(u > c)
        BY <3>3, <3>6
      <4> HIDE DEF u
      <4>3. \A c \in Int : c >= b =>
              Cardinality(After(times, m, c)) = Cardinality(After(times, m - 1, c))
        BY <3>4, <4>2
      <4> QED
        BY <2>1, <3>2, <4>1, <4>3 DEF KeptWell
    <3> QED
      BY <3>5, <3>6
  <2> QED
    BY <2>3, <2>4
<1>3. T = {}
  <2>1. T \in SUBSET Nat
    OBVIOUS
  <2> HIDE DEF T
  <2> QED
    BY <1>2, <2>1, SmallestNumber
<1> QED
  BY <1>3

\* A pass keeps the entries within the span, and so counts none after a later
\* cutoff less or more than the list it was given.
LEMMA SinceFacts ==
  ASSUME NEW S \in SUBSET Int, NEW times \in Seq(S), NEW span \in Int, NEW t \in Int
  PROVE  /\ Since(times, span, t) \in Seq(S)
         /\ Len(Since(times, span, t)) = Count(times, t - span)
         /\ \A c \in Int : c >= t - span =>
              Count(Since(times, span, t), c) = Count(times, c)
<1>1. t - span \in Int /\ Len(times) \in Nat /\ Len(times) \in 0..Len(times)
  BY LenProperties
<1>2. KeptWell(times, t - span, S, Len(times))
  BY <1>1, KeptFacts
<1> QED
  BY <1>2, SinceIsKept DEF KeptWell, Count

-----------------------------------------------------------------------------
(* Types                                                                   *)

\* The histories with times up to n, and the entries of the log.
HistoriesTo(n) == [requests : Seq(0..n), failed : Seq(0..n)]

Entries == [key : {SourceKey(r) : r \in Requests}, time : 0..MaxTime,
            signal : SUBSET Checks]

Busy == {w \in Workers : pc[w] # "idle"}

\* The types, and what they rest on: a worker that is counted as busy has a
\* call that is not in the log yet, and between two sweeps nothing is to do.
TypeInv ==
  /\ TypeOK
  /\ log \in Seq(Entries)
  /\ Len(log) + Cardinality(Busy) <= calls
  /\ adMu = Free => todo = {}
  /\ picked = {} \/ pruned = {}
  /\ \A w \in Workers :
       /\ pc[w] # "idle" => req[w] \in Requests
       /\ ptr[w] # 0 => pc[w] \in Histories
       /\ pc[w] \in {"idle", "failure"} => signal[w] = {}

LEMMA TimesFacts ==
  /\ MaxTime \in Nat /\ MaxCalls \in Nat
  /\ Second \in Nat /\ Minute \in Nat /\ Retention \in Nat
  /\ 0 < Second /\ Second <= Minute /\ Minute <= Retention
<1>1. MaxTime \in Nat /\ MaxCalls \in Nat
  BY DetectorAssumption
<1>2. {Second, Minute, Retention} \subseteq Nat /\ 0 < Second
  BY DetectorAssumption
<1> QED
  BY <1>1, <1>2, DetectorAssumption

LEMMA HeapUpdate ==
  ASSUME NEW H, NEW s \in Seq(H), NEW p \in DOMAIN s, NEW e \in H
  PROVE  /\ [s EXCEPT ![p] = e] \in Seq(H)
         /\ DOMAIN [s EXCEPT ![p] = e] = DOMAIN s
<1>1. p \in 1..Len(s)
  BY LenProperties
<1> QED
  BY <1>1, ExceptSeq

LEMMA HeapGrows ==
  ASSUME NEW H, NEW s \in Seq(H), NEW e \in H
  PROVE  /\ Append(s, e) \in Seq(H)
         /\ Len(s) \in Nat
         /\ DOMAIN s = 1..Len(s)
         /\ DOMAIN Append(s, e) = 1..(Len(s) + 1)
         /\ Append(s, e)[Len(s) + 1] = e
         /\ \A i \in 1..Len(s) : Append(s, e)[i] = s[i]
BY LenProperties, AppendProperties

\* What is left of a list of times after one more time and a pass.
LEMMA TrackedList ==
  ASSUME NEW n \in Nat, NEW times \in Seq(0..n), NEW u \in 0..n, NEW span \in Nat
  PROVE  /\ Since(times, span, u) \in Seq(0..n)
         /\ Since(Append(times, u), span, u) \in Seq(0..n)
<1>1. 0..n \in SUBSET Int /\ span \in Int /\ u \in Int
  OBVIOUS
<1>2. Append(times, u) \in Seq(0..n)
  BY AppendProperties
<1> QED
  BY <1>1, <1>2, SinceFacts

LEMMA HistoriesGrow ==
  ASSUME NEW n \in Nat, NEW s \in Seq(HistoriesTo(n))
  PROVE  s \in Seq(HistoriesTo(n + 1))
<1>1. Seq(0..n) \subseteq Seq(0..(n + 1))
  <2>1. 0..n \subseteq 0..(n + 1)
    OBVIOUS
  <2> QED
    BY <2>1, SeqMonotonic
<1>2. HistoriesTo(n) \subseteq HistoriesTo(n + 1)
  BY <1>1 DEF HistoriesTo
<1> QED
  BY <1>2, SeqMonotonic

LEMMA InitTypes == Init => TypeInv
<1> SUFFICES ASSUME Init PROVE TypeInv
  OBVIOUS
<1>1. Busy = {}
  BY DEF Init, Busy
<1>2. Cardinality(Busy) = 0
  BY <1>1, FS_EmptySet
<1>3. heap \in Seq(HistoriesTo(0)) /\ log \in Seq(Entries) /\ Len(log) = 0
  BY DEF Init
<1> QED
  BY <1>2, <1>3, TimesFacts DEF Init, TypeInv, TypeOK, HistoriesTo

\* The number of busy workers when one of them starts or returns.
LEMMA BusyCount ==
  /\ IsFiniteSet(Busy) /\ Cardinality(Busy) \in Nat
  /\ \A w \in Workers :
       /\ w \notin Busy => Cardinality(Busy \cup {w}) = Cardinality(Busy) + 1
       /\ w \in Busy => Cardinality(Busy \ {w}) = Cardinality(Busy) - 1
<1>1. Busy \subseteq Workers
  BY DEF Busy
<1>2. IsFiniteSet(Busy)
  BY <1>1, DetectorAssumption, FS_Subset
<1> QED
  BY <1>2, FS_CardinalityType, FS_AddElement, FS_RemoveElement

\* The parts of the invariant, for steps that leave most of them alone.
Scalars ==
  /\ adMu \in Cleaners \cup {Free}
  /\ pc \in [Workers -> Histories \cup {"idle"}]
  /\ req \in [Workers -> Requests \cup {NoRequest}]
  /\ signal \in [Workers -> SUBSET Checks]
  /\ now \in 0..MaxTime /\ calls \in 0..MaxCalls
  /\ Len(log) + Cardinality(Busy) <= calls
  /\ log \in Seq(Entries)
  /\ \A w \in Workers :
       /\ pc[w] # "idle" => req[w] \in Requests
       /\ pc[w] \in {"idle", "failure"} => signal[w] = {}

Locking ==
  /\ locked \subseteq Workers
  /\ \A w \in locked : ptr[w] # 0 /\ Users(ptr[w]) = {w}

Addresses ==
  /\ heap \in Seq(HistoriesTo(now))
  /\ \A k \in DOMAIN table : table[k] \in DOMAIN heap
  /\ ptr \in [Workers -> {0} \cup DOMAIN heap]
  /\ \A w \in Workers : ptr[w] # 0 => pc[w] \in Histories
  /\ Locking

Sweeping ==
  /\ started \in 0..now
  /\ todo \subseteq DOMAIN table /\ picked \cup pruned \subseteq todo
  /\ adMu = Free => todo = {}
  /\ picked = {} \/ pruned = {}

LEMMA TypeParts == TypeInv <=> Scalars /\ Addresses /\ Sweeping
<1>1. ASSUME log \in Seq(Entries), Len(log) + Cardinality(Busy) <= calls,
             calls \in 0..MaxCalls
      PROVE  Len(log) <= calls
  <2>1. Len(log) \in Nat /\ Cardinality(Busy) \in Nat /\ calls \in Int
    BY <1>1, LenProperties, BusyCount
  <2> QED
    BY <1>1, <2>1
<1> QED
  BY <1>1 DEF TypeInv, TypeOK, Scalars, Addresses, Locking, Sweeping, HistoriesTo

\* A step that moves one worker's pointer, and leaves it without the lock of a
\* history, disturbs no lock of another.
LEMMA OthersLocking ==
  ASSUME Locking, NEW w, locked' = locked \ {w},
         \A v \in Workers : v # w => ptr'[v] = ptr[v]
  PROVE  Locking'
BY DEF Locking, Users

LEMMA SameLocking ==
  ASSUME Locking, UNCHANGED <<ptr, locked>>
  PROVE  Locking'
BY DEF Locking, Users

LEMMA LockLocking ==
  ASSUME Locking, NEW w \in Workers, Lock(w)
  PROVE  Locking'
<1>1. /\ locked' = locked \cup {w} /\ ptr' = ptr
      /\ ptr[w] # 0 /\ Users(ptr[w]) = {}
  BY DEF Lock
<1>2. \A v \in locked : ptr[v] # ptr[w]
  BY <1>1 DEF Users
<1> QED
  BY <1>1, <1>2 DEF Locking, Users

LEMMA ArriveScalars ==
  ASSUME Scalars, NEW w \in Workers, Arrive(w) \/ ArriveFailure(w)
  PROVE  Scalars'
<1>1. Busy' = Busy \cup {w} /\ w \notin Busy
  BY DEF Arrive, ArriveFailure, Scalars, Busy
<1>2. Cardinality(Busy') = Cardinality(Busy) + 1
  BY <1>1, BusyCount
<1>3. Len(log) \in Nat /\ Cardinality(Busy) \in Nat
  BY LenProperties, BusyCount DEF Scalars
<1>4. calls' = calls + 1 /\ calls' \in 0..MaxCalls /\ log' = log
      /\ Len(log') + Cardinality(Busy') <= calls'
  BY <1>2, <1>3, TimesFacts DEF Arrive, ArriveFailure, Scalars
<1>5. \A r \in Requests : ContentReasons(r) \subseteq Checks
  BY DEF ContentReasons, Checks
<1> QED
  BY <1>4, <1>5 DEF Arrive, ArriveFailure, Scalars, Histories, cleanVars

LEMMA ReturnScalars ==
  ASSUME Scalars, NEW w \in Workers, Track(w) \/ TrackFailure(w)
  PROVE  Scalars'
<1>1. Busy' = Busy \ {w} /\ w \in Busy
  BY DEF Track, TrackFailure, Scalars, Busy
<1>2. Cardinality(Busy') = Cardinality(Busy) - 1
  BY <1>1, BusyCount
<1>3. Len(log) \in Nat /\ Cardinality(Busy) \in Nat
  BY LenProperties, BusyCount DEF Scalars
<1>4. log' \in Seq(Entries) /\ Len(log') <= Len(log) + 1 /\ Len(log') \in Nat
  <2>1. CASE Track(w)
    <3> DEFINE e == [key |-> SourceKey(req[w]), time |-> now, signal |-> signal[w]]
    <3>1. e \in Entries
      BY <2>1 DEF Track, Scalars, Entries
    <3>2. log' = Append(log, e) /\ log \in Seq(Entries)
      BY <2>1 DEF Track, Scalars
    <3> HIDE DEF e
    <3>3. /\ Append(log, e) \in Seq(Entries)
          /\ Len(Append(log, e)) = Len(log) + 1
      BY <3>1, <3>2, AppendProperties
    <3> QED
      BY <1>3, <3>2, <3>3
  <2>2. CASE TrackFailure(w)
    BY <1>3, <2>2 DEF TrackFailure, Scalars
  <2> QED
    BY <2>1, <2>2
<1>5. calls' = calls /\ Len(log') + Cardinality(Busy') <= calls'
  BY <1>2, <1>3, <1>4 DEF Track, TrackFailure, Scalars
<1> QED
  BY <1>4, <1>5 DEF Track, TrackFailure, Scalars, cleanVars

CheckStep(w) ==
  CheckRate(w) \/ CheckVelocity(w) \/ CheckMethods(w) \/ CheckBots(w)

\* A check changes the worker's signal, moves it on and drops the history.
LEMMA CheckFacts ==
  ASSUME NEW w \in Workers, CheckStep(w)
  PROVE  /\ UNCHANGED <<heap, table, req, cleanVars, now, calls, log>>
         /\ w \in locked /\ locked' = locked \ {w}
         /\ ptr' = [ptr EXCEPT ![w] = 0]
         /\ pc[w] \in {"rate", "velocity", "methods", "bots"}
         /\ \E next \in {"velocity", "methods", "bots", "track"} :
              pc' = [pc EXCEPT ![w] = next]
         /\ \/ signal' = [signal EXCEPT ![w] = @]
            \/ signal' = [signal EXCEPT ![w] = @ \cup {pc[w]}]
BY DEF CheckStep, CheckRate, CheckVelocity, CheckMethods, CheckBots, Check, Release

LEMMA CheckScalars ==
  ASSUME Scalars, NEW w \in Workers, CheckStep(w)
  PROVE  Scalars'
<1>1. Busy' = Busy
  BY CheckFacts DEF Scalars, Busy
<1>2. /\ UNCHANGED <<adMu, req, now, calls, log>>
      /\ pc[w] \in {"rate", "velocity", "methods", "bots"}
  BY CheckFacts DEF cleanVars
<1>3. PICK next \in {"velocity", "methods", "bots", "track"} :
        pc' = [pc EXCEPT ![w] = next]
  BY CheckFacts
<1>4. signal' \in [Workers -> SUBSET Checks]
      /\ \A v \in Workers : v # w => signal'[v] = signal[v]
  <2>1. \/ signal' = [signal EXCEPT ![w] = @]
        \/ signal' = [signal EXCEPT ![w] = @ \cup {pc[w]}]
    BY CheckFacts
  <2>2. {pc[w]} \subseteq Checks
    BY <1>2 DEF Checks
  <2> QED
    BY <2>1, <2>2 DEF Scalars
<1>5. pc' \in [Workers -> Histories \cup {"idle"}]
  BY <1>3 DEF Scalars, Histories
<1>6. Len(log') + Cardinality(Busy') <= calls'
  BY <1>1, <1>2 DEF Scalars
<1> QED
  BY <1>2, <1>3, <1>4, <1>5, <1>6 DEF Scalars

\* What the sections on a history do to the heap: at most one history changes,
\* and its lists are still lists of times.
LEMMA CheckAddresses ==
  ASSUME Scalars, Addresses, NEW w \in Workers, CheckStep(w)
  PROVE  Addresses'
<1>1. /\ UNCHANGED <<heap, table, now>>
      /\ ptr' = [ptr EXCEPT ![w] = 0] /\ locked' = locked \ {w}
      /\ \A v \in Workers : v # w => pc'[v] = pc[v]
  BY CheckFacts DEF Scalars
<1>2. Locking'
  BY <1>1, OthersLocking DEF Addresses
<1> QED
  BY <1>1, <1>2 DEF Addresses

LEMMA ArriveAddresses ==
  ASSUME Scalars, Addresses, NEW w \in Workers, Arrive(w) \/ ArriveFailure(w)
  PROVE  Addresses'
<1>1. Locking'
  BY SameLocking DEF Arrive, ArriveFailure, Addresses
<1> QED
  BY <1>1 DEF Arrive, ArriveFailure, Scalars, Addresses, Histories

LEMMA LockAddresses ==
  ASSUME Addresses, NEW w \in Workers, Lock(w)
  PROVE  Addresses'
BY LockLocking DEF Lock, Addresses

LEMMA FetchAddresses ==
  ASSUME Addresses, NEW w \in Workers, Fetch(w)
  PROVE  Addresses'
<1>1. /\ now' = now /\ pc' = pc /\ pc[w] \in Histories
      /\ ptr[w] = 0 /\ locked' = locked
      /\ \A v \in Workers : v # w => ptr'[v] = ptr[v]
  BY DEF Fetch, Addresses
<1>l. Locking'
  <2>1. locked' = locked \ {w}
    BY <1>1 DEF Addresses, Locking
  <2> QED
    BY <1>1, <2>1, OthersLocking DEF Addresses
<1>2. CASE KeyOf(w) \in DOMAIN table
  BY <1>1, <1>l, <1>2 DEF Fetch, Addresses
<1>3. CASE KeyOf(w) \notin DOMAIN table
  <2>1. EmptyHistory \in HistoriesTo(now)
    BY DEF EmptyHistory, HistoriesTo
  <2>2. /\ heap' \in Seq(HistoriesTo(now))
        /\ Len(heap) \in Nat
        /\ DOMAIN heap = 1..Len(heap)
        /\ DOMAIN heap' = 1..(Len(heap) + 1)
    BY <1>3, <2>1, HeapGrows DEF Fetch, Addresses
  <2>3. DOMAIN heap \subseteq DOMAIN heap' /\ Len(heap) + 1 \in DOMAIN heap'
    BY <2>2
  <2>4. /\ table' = [k \in DOMAIN table \cup {KeyOf(w)} |->
                      IF k = KeyOf(w) THEN Len(heap) + 1 ELSE table[k]]
        /\ ptr' = [ptr EXCEPT ![w] = Len(heap) + 1]
    BY <1>3 DEF Fetch
  <2>5. \A k \in DOMAIN table' : table'[k] \in DOMAIN heap'
    BY <2>3, <2>4 DEF Addresses
  <2>6. ptr' \in [Workers -> {0} \cup DOMAIN heap']
    BY <2>3, <2>4 DEF Addresses
  <2> QED
    BY <1>1, <1>l, <2>2, <2>4, <2>5, <2>6 DEF Addresses
<1> QED
  BY <1>2, <1>3

\* The two sections that write to a history.
Rewritten(w) ==
  IF pc[w] = "track"
    THEN [heap[ptr[w]] EXCEPT !.requests = Since(Append(@, now), Minute, now)]
    ELSE [heap[ptr[w]] EXCEPT !.failed = Since(Append(@, now), Minute, now)]

LEMMA ReturnFacts ==
  ASSUME Scalars, Addresses, NEW w \in Workers, Track(w) \/ TrackFailure(w)
  PROVE  /\ ptr[w] \in DOMAIN heap
         /\ heap[ptr[w]] \in HistoriesTo(now)
         /\ Rewritten(w) \in HistoriesTo(now)
         /\ heap' = [heap EXCEPT ![ptr[w]] = Rewritten(w)]
<1>1. ptr[w] \in DOMAIN heap
  BY DEF Track, TrackFailure, Release, Addresses, Locking
<1>2. heap[ptr[w]] \in HistoriesTo(now)
  BY <1>1, LenProperties, ElementOfSeq DEF Addresses
<1>3. now \in Nat /\ now \in 0..now /\ Minute \in Nat
  BY TimesFacts DEF Scalars
<1>4. \A times \in Seq(0..now) : Since(Append(times, now), Minute, now) \in Seq(0..now)
  BY <1>3, TrackedList
<1>5. Rewritten(w) \in HistoriesTo(now)
  BY <1>2, <1>4 DEF Rewritten, HistoriesTo
<1>6. heap' = [heap EXCEPT ![ptr[w]] = Rewritten(w)]
  BY DEF Track, TrackFailure, Rewritten
<1> QED
  BY <1>1, <1>2, <1>5, <1>6

LEMMA ReturnAddresses ==
  ASSUME Scalars, Addresses, NEW w \in Workers, Track(w) \/ TrackFailure(w)
  PROVE  Addresses'
<1>1. heap' \in Seq(HistoriesTo(now)) /\ DOMAIN heap' = DOMAIN heap
  BY ReturnFacts, HeapUpdate DEF Addresses
<1>2. /\ UNCHANGED <<table, now>>
      /\ ptr' = [ptr EXCEPT ![w] = 0] /\ locked' = locked \ {w}
      /\ pc' = [pc EXCEPT ![w] = "idle"]
  BY DEF Track, TrackFailure, Release
<1>3. Locking'
  BY <1>2, OthersLocking DEF Addresses
<1> QED
  BY <1>1, <1>2, <1>3 DEF Addresses, Scalars

\* A cleaner leaves the workers, the clock and the log alone.
CleanStep(c) == CleanStart(c) \/ Sweep(c)

LEMMA CleanFacts ==
  ASSUME NEW c, CleanStep(c)
  PROVE  UNCHANGED <<pc, req, ptr, locked, signal, now, calls, log>>
BY DEF CleanStep, CleanStart, Sweep, CleanPick, CleanPrune, CleanDelete, CleanEnd, workerVars

LEMMA CleanAddresses ==
  ASSUME Scalars, Addresses, Sweeping, NEW c \in Cleaners, CleanStep(c)
  PROVE  Addresses' /\ Sweeping'
<1>1. now' = now /\ pc' = pc /\ ptr' = ptr /\ Locking'
  BY CleanFacts, SameLocking DEF Addresses
<1>p. CASE CleanPick(c)
  BY <1>1, <1>p DEF CleanPick, Addresses, Sweeping
<1>2. CASE CleanStart(c)
  BY <1>1, <1>2, DetectorAssumption
     DEF CleanStart, Scalars, Addresses, Sweeping
<1>3. CASE CleanPrune(c)
  <2>1. PICK k \in picked :
          /\ pruned' = {k}
          /\ heap' = [heap EXCEPT ![table[k]].requests = Since(@, Retention, started),
                                  ![table[k]].failed = Since(@, Retention, started)]
    BY <1>3 DEF CleanPrune
  <2> DEFINE p == table[k]
             e == [heap[p] EXCEPT !.requests = Since(@, Retention, started),
                                  !.failed = Since(@, Retention, started)]
  <2>2. p \in DOMAIN heap /\ p \in 1..Len(heap)
    BY LenProperties DEF Addresses, Sweeping
  <2>3. heap[p] \in HistoriesTo(now)
    BY <2>2, ElementOfSeq DEF Addresses
  <2>4. now \in Nat /\ started \in 0..now /\ Retention \in Nat
    BY TimesFacts DEF Scalars, Sweeping
  <2>5. \A times \in Seq(0..now) : Since(times, Retention, started) \in Seq(0..now)
    BY <2>4, TrackedList
  <2>6. e \in HistoriesTo(now)
    BY <2>3, <2>5 DEF HistoriesTo
  <2>7. heap' = [heap EXCEPT ![p] = e]
    BY <2>1, <2>2, <2>3 DEF HistoriesTo
  <2> HIDE DEF e
  <2>8. heap' \in Seq(HistoriesTo(now)) /\ DOMAIN heap' = DOMAIN heap
    BY <2>2, <2>6, <2>7, HeapUpdate DEF Addresses
  <2>9. UNCHANGED <<table, adMu, started, todo>> /\ picked' = {}
    BY <1>3 DEF CleanPrune
  <2> QED
    BY <1>1, <2>1, <2>8, <2>9 DEF Addresses, Sweeping
<1>4. CASE CleanDelete(c)
  <2>1. PICK k \in pruned :
          /\ table' = IF heap[table[k]] = EmptyHistory
                        THEN [x \in DOMAIN table \ {k} |-> table[x]]
                        ELSE table
          /\ todo' = todo \ {k}
    BY <1>4 DEF CleanDelete
  <2>2. /\ DOMAIN table \ {k} \subseteq DOMAIN table'
        /\ \A x \in DOMAIN table' : x \in DOMAIN table /\ table'[x] = table[x]
    BY <2>1
  <2>3. UNCHANGED <<heap, adMu, started>> /\ pruned' = {} /\ picked' = picked
    BY <1>4 DEF CleanDelete
  <2>4. picked = {}
    BY <2>1 DEF Sweeping
  <2> QED
    BY <1>1, <2>1, <2>2, <2>3, <2>4 DEF Addresses, Sweeping
<1>5. CASE CleanEnd(c)
  BY <1>1, <1>5 DEF CleanEnd, Scalars, Addresses, Sweeping
<1> QED
  BY <1>p, <1>2, <1>3, <1>4, <1>5 DEF CleanStep, Sweep

LEMMA CleanScalars ==
  ASSUME Scalars, NEW c \in Cleaners, CleanStep(c)
  PROVE  Scalars'
<1>1. UNCHANGED <<pc, req, signal, now, calls, log>>
  BY CleanFacts
<1>2. adMu' \in Cleaners \cup {Free}
  BY DEF CleanStep, CleanStart, Sweep, CleanPick, CleanPrune, CleanDelete, CleanEnd, Scalars
<1>3. Busy' = Busy
  BY <1>1 DEF Busy
<1> QED
  BY <1>1, <1>2, <1>3 DEF Scalars

LEMMA TickTypes ==
  ASSUME Scalars, Addresses, Sweeping, Tick
  PROVE  Scalars' /\ Addresses' /\ Sweeping'
<1>1. /\ UNCHANGED <<heap, table, pc, req, ptr, locked, signal, adMu, started, todo,
                  picked, pruned, calls, log>>
      /\ now' = now + 1 /\ now < MaxTime
  BY DEF Tick, workerVars, cleanVars
<1>2. now \in Nat /\ now' \in 0..MaxTime
  BY <1>1, TimesFacts DEF Scalars
<1>3. heap' \in Seq(HistoriesTo(now'))
  BY <1>1, <1>2, HistoriesGrow DEF Addresses
<1>4. Busy' = Busy
  BY <1>1 DEF Busy
<1>5. Scalars'
  BY <1>1, <1>2, <1>4 DEF Scalars
<1>6. Addresses'
  BY <1>1, <1>3, SameLocking DEF Addresses
<1>7. Sweeping'
  BY <1>1, <1>2 DEF Sweeping
<1> QED
  BY <1>5, <1>6, <1>7

\* The workers' steps keep what a cleaner has still to do: they only add keys,
\* and those only while no cleaner holds the map's lock.
LEMMA WorkSweeping ==
  ASSUME Sweeping, NEW w \in Workers, Arrive(w) \/ ArriveFailure(w) \/ Work(w)
  PROVE  Sweeping'
<1>1. cleanVars' = cleanVars /\ now' = now
  BY DEF Arrive, ArriveFailure, Work, Fetch, Track, TrackFailure, CheckRate,
         CheckVelocity, CheckMethods, CheckBots, Check, Lock
<1>2. UNCHANGED table \/ adMu = Free
  BY DEF Arrive, ArriveFailure, Work, Fetch, Track, TrackFailure, CheckRate,
         CheckVelocity, CheckMethods, CheckBots, Check, Lock
<1> QED
  BY <1>1, <1>2 DEF Sweeping, cleanVars

LEMMA NextTypes == TypeInv /\ [Next]_vars => TypeInv'
<1> SUFFICES ASSUME Scalars, Addresses, Sweeping, [Next]_vars
             PROVE  Scalars' /\ Addresses' /\ Sweeping'
  BY TypeParts, PTL
<1>1. ASSUME NEW w \in Workers, Arrive(w) \/ ArriveFailure(w)
      PROVE  Scalars' /\ Addresses' /\ Sweeping'
  BY <1>1, ArriveScalars, ArriveAddresses, WorkSweeping
<1>2. ASSUME NEW w \in Workers, Work(w)
      PROVE  Scalars' /\ Addresses' /\ Sweeping'
  <2>1. Sweeping'
    BY <1>2, WorkSweeping
  <2>2. CASE Fetch(w)
    <3>1. UNCHANGED <<pc, req, signal, adMu, now, calls, log>>
      BY <2>2 DEF Fetch, cleanVars
    <3>2. Busy' = Busy
      BY <3>1 DEF Busy
    <3>3. Scalars'
      BY <3>1, <3>2 DEF Scalars
    <3> QED
      BY <2>1, <2>2, <3>3, FetchAddresses
  <2>l. CASE Lock(w)
    <3>1. UNCHANGED <<pc, req, signal, adMu, now, calls, log>>
      BY <2>l DEF Lock, cleanVars
    <3>2. Busy' = Busy
      BY <3>1 DEF Busy
    <3> QED
      BY <2>1, <2>l, <3>1, <3>2, LockAddresses DEF Scalars
  <2>3. CASE CheckStep(w)
    BY <2>1, <2>3, CheckScalars, CheckAddresses
  <2>4. CASE Track(w) \/ TrackFailure(w)
    BY <2>1, <2>4, ReturnScalars, ReturnAddresses
  <2> QED
    BY <1>2, <2>2, <2>l, <2>3, <2>4 DEF Work, CheckStep
<1>3. ASSUME NEW c \in Cleaners, CleanStart(c) \/ Sweep(c)
      PROVE  Scalars' /\ Addresses' /\ Sweeping'
  BY <1>3, CleanScalars, CleanAddresses DEF CleanStep
<1>4. CASE Tick
  BY <1>4, TickTypes
<1>5. CASE UNCHANGED vars
  <2>1. UNCHANGED <<heap, table, pc, req, ptr, locked, signal, adMu, started, todo,
                  picked, pruned, now, calls, log>>
    BY <1>5 DEF vars, workerVars, cleanVars
  <2> QED
    BY <2>1, SameLocking DEF Scalars, Addresses, Sweeping, Busy
<1> QED
  BY <1>1, <1>2, <1>3, <1>4, <1>5 DEF Next

LEMMA TypesInvariant == Spec => []TypeInv
BY InitTypes, NextTypes, PTL DEF Spec

\* The detector's types, also while cleaners run: no worker and no key ever
\* has an address outside the heap, and no request is logged without a call.
THEOREM TypeCorrect == Spec => []TypeOK
BY TypesInvariant, PTL DEF TypeInv

-----------------------------------------------------------------------------
(* Without a cleaner, the history of a source is what the log holds of it  *)

\* The requests of a source tracked after time c, and those that check x let
\* pass.
Logged(k, c) == {i \in DOMAIN log : log[i].key = k /\ log[i].time > c}

Passed(x, k, c) == {i \in Logged(k, c) : x \notin log[i].signal}

\* The list of times behind a key.
List(k) == heap[table[k]].requests

\* Every key has a history of its own and a worker the one of its key; and
\* the history tells as many requests after any time of the last minute as
\* the log.
Recorded ==
  /\ \A k, l \in DOMAIN table : table[k] = table[l] => k = l
  /\ \A w \in Workers : ptr[w] # 0 =>
       KeyOf(w) \in DOMAIN table /\ ptr[w] = table[KeyOf(w)]
  /\ \A i \in DOMAIN log : log[i].key \in DOMAIN table
  /\ \A k \in DOMAIN table : \A c \in (now - Minute)..MaxTime :
       Count(List(k), c) = Cardinality(Logged(k, c))

\* A pass over a list, as a check makes it, counts what the log holds of the
\* span before now.
LEMMA RecentIsLogged ==
  ASSUME Scalars, Addresses, Recorded, NEW k \in DOMAIN table,
         NEW span \in Nat, span <= Minute
  PROVE  Recent(List(k), span) = Cardinality(Logged(k, now - span))
<1>1. List(k) \in Seq(0..now)
  <2>1. table[k] \in 1..Len(heap)
    BY LenProperties DEF Addresses
  <2>2. heap[table[k]] \in HistoriesTo(now)
    BY <2>1, ElementOfSeq DEF Addresses
  <2> QED
    BY <2>2 DEF HistoriesTo, List
<1>2. now \in Nat /\ now <= MaxTime /\ 0..now \in SUBSET Int
  BY TimesFacts DEF Scalars
<1>3. Recent(List(k), span) = Count(List(k), now - span)
  BY <1>1, <1>2, SinceFacts DEF Recent
<1>4. now - span \in (now - Minute)..MaxTime
  BY <1>2, TimesFacts
<1> QED
  BY <1>3, <1>4 DEF Recorded

LEMMA LoggedFinite ==
  ASSUME Scalars, NEW k, NEW c
  PROVE  IsFiniteSet(Logged(k, c)) /\ Cardinality(Logged(k, c)) \in Nat
<1>1. DOMAIN log = 1..Len(log) /\ Len(log) \in Nat
  BY LenProperties DEF Scalars
<1>2. IsFiniteSet(DOMAIN log)
  BY <1>1, FS_Interval
<1>3. Logged(k, c) \subseteq DOMAIN log
  BY DEF Logged
<1>4. IsFiniteSet(Logged(k, c))
  BY <1>2, <1>3, FS_Subset
<1> QED
  BY <1>4, FS_CardinalityType

\* One more entry in the log.
Entry(w) == [key |-> SourceKey(req[w]), time |-> now, signal |-> signal[w]]

LEMMA TrackLogs ==
  ASSUME Scalars, NEW w \in Workers, Track(w)
  PROVE  /\ Len(log) \in Nat
         /\ DOMAIN log = 1..Len(log)
         /\ Len(log') = Len(log) + 1
         /\ DOMAIN log' = DOMAIN log \cup {Len(log) + 1}
         /\ Len(log) + 1 \notin DOMAIN log
         /\ log'[Len(log) + 1] = Entry(w)
         /\ \A i \in DOMAIN log : log'[i] = log[i]
<1>1. Entry(w) \in Entries
  BY DEF Track, Scalars, Entries, Entry
<1>2. log' = Append(log, Entry(w)) /\ log \in Seq(Entries)
  BY DEF Track, Scalars, Entry
<1> HIDE DEF Entry
<1>3. /\ Len(log) \in Nat
      /\ DOMAIN log = 1..Len(log)
      /\ Len(log') = Len(log) + 1
      /\ DOMAIN log' = 1..(Len(log) + 1)
      /\ log'[Len(log) + 1] = Entry(w)
      /\ \A i \in 1..Len(log) : log'[i] = log[i]
  BY <1>1, <1>2, LenProperties, AppendProperties
<1>4. \A n \in Nat : n + 1 \notin 1..n /\ 1..(n + 1) = (1..n) \cup {n + 1}
  OBVIOUS
<1> QED
  BY <1>3, <1>4

LEMMA LoggedGrows ==
  ASSUME Scalars, NEW w \in Workers, Track(w), NEW k, NEW c
  PROVE  Cardinality(Logged(k, c)') =
           Cardinality(Logged(k, c))
             + (IF k = SourceKey(req[w]) /\ now > c THEN 1 ELSE 0)
<1> DEFINE n == Len(log) + 1
<1>1. n \notin DOMAIN log /\ n \in DOMAIN log' /\ log'[n] = Entry(w)
      /\ DOMAIN log' = DOMAIN log \cup {n}
      /\ \A i \in DOMAIN log : log'[i] = log[i]
  BY TrackLogs
<1> HIDE DEF n
<1>2. n \notin Logged(k, c)
  BY <1>1 DEF Logged
<1>3. Logged(k, c)' = IF k = SourceKey(req[w]) /\ now > c
                        THEN Logged(k, c) \cup {n} ELSE Logged(k, c)
  BY <1>1 DEF Logged, Entry
<1> QED
  BY <1>2, <1>3, LoggedFinite, FS_AddElement

LEMMA LoggedKept ==
  ASSUME log' = log, NEW k, NEW c
  PROVE  Logged(k, c)' = Logged(k, c)
BY DEF Logged

LEMMA InitRecorded == Init => Recorded
<1>1. Init => DOMAIN table = {} /\ DOMAIN log = {} /\ \A w \in Workers : ptr[w] = 0
  BY DEF Init
<1> QED
  BY <1>1 DEF Recorded

\* A step that changes no history, no key and not the log keeps the record, as
\* long as it drops a worker's history or leaves its key alone.
LEMMA RecordedKept ==
  ASSUME Recorded, Scalars, UNCHANGED <<heap, table, now, log>>, NEW w \in Workers,
         ptr' = [ptr EXCEPT ![w] = 0] \/ (ptr' = ptr /\ ptr[w] = 0),
         ptr \in [Workers -> {0} \cup DOMAIN heap],
         \A v \in Workers : v # w => pc'[v] = pc[v] /\ req'[v] = req[v]
  PROVE  Recorded'
<1>1. \A v \in Workers : ptr'[v] # 0 => v # w /\ ptr'[v] = ptr[v]
  OBVIOUS
<1>2. \A v \in Workers : v # w => KeyOf(v)' = KeyOf(v)
  BY DEF KeyOf
<1>3. \A v \in Workers : ptr'[v] # 0 =>
        KeyOf(v)' \in DOMAIN table' /\ ptr'[v] = table'[KeyOf(v)']
  BY <1>1, <1>2 DEF Recorded
<1>4. \A k, c : Logged(k, c)' = Logged(k, c)
  BY LoggedKept
<1>5. \A k \in DOMAIN table : List(k)' = List(k)
  BY DEF List
<1> QED
  BY <1>3, <1>4, <1>5 DEF Recorded, Count, After

LEMMA ArriveRecorded ==
  ASSUME Scalars, Addresses, Recorded, NEW w \in Workers, Arrive(w) \/ ArriveFailure(w)
  PROVE  Recorded'
<1>1. /\ UNCHANGED <<heap, table, now, log, ptr>>
      /\ pc[w] = "idle"
      /\ \A v \in Workers : v # w => pc'[v] = pc[v] /\ req'[v] = req[v]
  BY DEF Arrive, ArriveFailure, Scalars
<1>2. ptr[w] = 0
  BY <1>1 DEF Addresses, Histories
<1> QED
  BY <1>1, <1>2, RecordedKept DEF Addresses

LEMMA CheckRecorded ==
  ASSUME Scalars, Addresses, Recorded, NEW w \in Workers, CheckStep(w)
  PROVE  Recorded'
<1>1. /\ UNCHANGED <<heap, table, now, log, req>>
      /\ ptr' = [ptr EXCEPT ![w] = 0]
      /\ \A v \in Workers : v # w => pc'[v] = pc[v]
  BY CheckFacts DEF Scalars
<1> QED
  BY <1>1, RecordedKept DEF Addresses

LEMMA FetchRecorded ==
  ASSUME Scalars, Addresses, Recorded, NEW w \in Workers, Fetch(w)
  PROVE  Recorded'
<1> DEFINE key == KeyOf(w)
<1>1. /\ UNCHANGED <<pc, req, now, log>>
      /\ ptr[w] = 0
  BY DEF Fetch
<1>2. \A v : KeyOf(v)' = KeyOf(v)
  BY <1>1 DEF KeyOf
<1>3. \A k, c : Logged(k, c)' = Logged(k, c)
  BY <1>1, LoggedKept
<1>4. CASE key \in DOMAIN table
  <2>1. UNCHANGED <<heap, table>> /\ ptr' = [ptr EXCEPT ![w] = table[key]]
    BY <1>4 DEF Fetch
  <2>2. \A v \in Workers : ptr'[v] # 0 =>
          KeyOf(v)' \in DOMAIN table' /\ ptr'[v] = table'[KeyOf(v)']
    BY <1>2, <1>4, <2>1 DEF Recorded, Addresses
  <2>3. \A k : List(k)' = List(k)
    BY <2>1 DEF List
  <2> QED
    BY <1>1, <1>3, <2>1, <2>2, <2>3 DEF Recorded, Count, After
<1>5. CASE key \notin DOMAIN table
  <2> DEFINE new == Len(heap) + 1
  <2>1. /\ heap' = Append(heap, EmptyHistory)
        /\ table' = [k \in DOMAIN table \cup {key} |-> IF k = key THEN new ELSE table[k]]
        /\ ptr' = [ptr EXCEPT ![w] = new]
    BY <1>5 DEF Fetch
  <2>2. EmptyHistory \in HistoriesTo(now)
    BY DEF EmptyHistory, HistoriesTo
  <2>3. /\ new \notin DOMAIN heap
        /\ heap'[new] = EmptyHistory
        /\ \A p \in DOMAIN heap : heap'[p] = heap[p]
    BY <2>1, <2>2, HeapGrows DEF Addresses
  <2> HIDE DEF new, key
  <2>4. /\ DOMAIN table' = DOMAIN table \cup {key}
        /\ table'[key] = new
        /\ \A k \in DOMAIN table : k # key /\ table'[k] = table[k] /\ table[k] # new
    BY <1>5, <2>1, <2>3 DEF Addresses
  <2>5. \A k, l \in DOMAIN table' : table'[k] = table'[l] => k = l
    BY <2>4 DEF Recorded
  <2>6. \A v \in Workers : ptr'[v] # 0 =>
          KeyOf(v)' \in DOMAIN table' /\ ptr'[v] = table'[KeyOf(v)']
    <3> SUFFICES ASSUME NEW v \in Workers, ptr'[v] # 0
                 PROVE  KeyOf(v) \in DOMAIN table' /\ ptr'[v] = table'[KeyOf(v)]
      BY <1>2
    <3>1. CASE v = w
      BY <2>1, <2>4, <3>1 DEF Addresses, key
    <3>2. CASE v # w
      <4>1. ptr'[v] = ptr[v]
        BY <2>1, <3>2 DEF Addresses
      <4>2. KeyOf(v) \in DOMAIN table /\ ptr[v] = table[KeyOf(v)]
        BY <4>1 DEF Recorded
      <4> QED
        BY <2>4, <4>1, <4>2
    <3> QED
      BY <3>1, <3>2
  <2>7. \A i \in DOMAIN log' : log'[i].key \in DOMAIN table'
    BY <1>1, <2>4 DEF Recorded
  <2>8. ASSUME NEW k \in DOMAIN table', NEW c \in (now' - Minute)..MaxTime
        PROVE  Count(List(k)', c) = Cardinality(Logged(k, c)')
    <3>1. CASE k \in DOMAIN table
      <4>1. List(k)' = List(k)
        BY <2>3, <2>4, <3>1 DEF List, Addresses
      <4> QED
        BY <1>1, <1>3, <2>8, <3>1, <4>1 DEF Recorded
    <3>2. CASE k = key
      <4>1. List(k)' = <<>>
        BY <2>3, <2>4, <3>2 DEF List, EmptyHistory
      <4>2. Logged(k, c) = {}
        BY <1>5, <3>2 DEF Logged, Recorded, key
      <4>3. After(<<>>, 0, c) = {} /\ Len(<<>>) = 0
        BY DEF After
      <4> QED
        BY <1>3, <4>1, <4>2, <4>3, FS_EmptySet DEF Count
    <3> QED
      BY <2>4, <3>1, <3>2
  <2> QED
    BY <2>5, <2>6, <2>7, <2>8 DEF Recorded, Count, After
<1> QED
  BY <1>4, <1>5

\* The worker that tracks holds the history of the request's own key.
LEMMA ReturnTarget ==
  ASSUME Scalars, Addresses, Recorded, NEW w \in Workers, Track(w) \/ TrackFailure(w)
  PROVE  /\ SourceKey(req[w]) \in DOMAIN table
         /\ ptr[w] = table[SourceKey(req[w])]
         /\ \A k \in DOMAIN table :
              heap'[table[k]] = IF k = SourceKey(req[w]) THEN Rewritten(w)
                                                        ELSE heap[table[k]]
<1>1. KeyOf(w) = SourceKey(req[w])
  BY DEF KeyOf, Track, TrackFailure
<1>2. ptr[w] # 0
  BY DEF Track, TrackFailure, Release, Addresses, Locking
<1>3. /\ SourceKey(req[w]) \in DOMAIN table
      /\ ptr[w] = table[SourceKey(req[w])]
  BY <1>1, <1>2 DEF Recorded
<1>4. \A k \in DOMAIN table :
        table[k] \in DOMAIN heap /\ (table[k] = ptr[w] <=> k = SourceKey(req[w]))
  BY <1>3 DEF Recorded, Addresses
<1>5. heap' = [heap EXCEPT ![ptr[w]] = Rewritten(w)] /\ ptr[w] \in DOMAIN heap
  BY ReturnFacts
<1> QED
  BY <1>3, <1>4, <1>5

\* A tracking adds the present moment to the list and drops what is older than
\* a minute: for a cutoff within the minute it counts one more.
LEMMA TrackedTimes ==
  ASSUME Scalars, Addresses, NEW w \in Workers, Track(w), NEW p, p = ptr[w]
  PROVE  /\ Len(heap'[p].requests) = Count(heap[p].requests, now - Minute) + 1
         /\ \A c \in (now - Minute)..MaxTime :
              /\ Count(heap[p].requests, c) \in Nat
              /\ Count(heap'[p].requests, c) =
                   Count(heap[p].requests, c) + (IF now > c THEN 1 ELSE 0)
         /\ \A a \in DOMAIN heap : a # p => heap'[a] = heap[a]
<1> DEFINE old == heap[p].requests
           more == Append(old, now)
           new == heap'[p].requests
<1>1. /\ p \in DOMAIN heap /\ heap[p] \in HistoriesTo(now)
      /\ heap' = [heap EXCEPT ![p] = Rewritten(w)] /\ pc[w] = "track"
  <2>1. pc[w] = "track"
    BY DEF Track
  <2> QED
    BY <2>1, ReturnFacts
<1>2. old \in Seq(0..now)
  BY <1>1 DEF HistoriesTo
<1>3. new = Since(more, Minute, now)
  <2>1. Rewritten(w) = [heap[p] EXCEPT !.requests = Since(Append(@, now), Minute, now)]
    BY <1>1 DEF Rewritten
  <2>2. Rewritten(w).requests = Since(more, Minute, now)
    BY <1>1, <2>1 DEF HistoriesTo
  <2> QED
    BY <1>1, <2>2
<1>4. /\ now \in Nat /\ now <= MaxTime /\ Minute \in Nat /\ Minute > 0
      /\ MaxTime \in Nat /\ 0..now \in SUBSET Int /\ now \in 0..now
  BY TimesFacts DEF Scalars
<1>5. \A a \in DOMAIN heap : a # p => heap'[a] = heap[a]
  BY <1>1
<1> HIDE DEF old, new
<1>6. more \in Seq(0..now)
  BY <1>2, <1>4, AppendProperties
<1>7. \A c : /\ Count(old, c) \in Nat
             /\ Count(more, c) = Count(old, c) + (IF now > c THEN 1 ELSE 0)
  BY <1>2, <1>4, CountAppend
<1> HIDE DEF more
<1>8. /\ Len(new) = Count(more, now - Minute)
      /\ \A c \in Int : c >= now - Minute => Count(new, c) = Count(more, c)
  <2>1. now \in Int /\ Minute \in Int
    BY <1>4
  <2> QED
    BY <1>3, <1>4, <1>6, <2>1, SinceFacts
<1>9. now > now - Minute /\ \A c \in (now - Minute)..MaxTime : c \in Int /\ c >= now - Minute
  BY <1>4
<1>10. Len(new) = Count(old, now - Minute) + 1
  BY <1>7, <1>8, <1>9
<1>11. \A c \in (now - Minute)..MaxTime :
         /\ Count(old, c) \in Nat
         /\ Count(new, c) = Count(old, c) + (IF now > c THEN 1 ELSE 0)
  BY <1>7, <1>8, <1>9
<1> QED
  BY <1>5, <1>10, <1>11 DEF old, new

\* After a tracking the list still counts what the log holds.
LEMMA TrackedCount ==
  ASSUME Scalars, Addresses, Recorded, NEW w \in Workers, Track(w),
         NEW k, k = SourceKey(req[w]), NEW c \in (now - Minute)..MaxTime
  PROVE  Count(List(k)', c) = Cardinality(Logged(k, c)')
<1>1. k \in DOMAIN table /\ ptr[w] = table[k] /\ table' = table
  BY ReturnTarget DEF Track
<1>2. PICK p : p = ptr[w]
  OBVIOUS
<1>3. List(k) = heap[p].requests /\ List(k)' = heap'[p].requests
  BY <1>1, <1>2 DEF List
<1>4. /\ Count(List(k), c) \in Nat
      /\ Count(List(k)', c) = Count(List(k), c) + (IF now > c THEN 1 ELSE 0)
  BY <1>2, <1>3, TrackedTimes
<1>5. Count(List(k), c) = Cardinality(Logged(k, c))
  BY <1>1 DEF Recorded
<1>6. Cardinality(Logged(k, c)') = Cardinality(Logged(k, c)) + (IF now > c THEN 1 ELSE 0)
  BY LoggedGrows
<1> QED
  BY <1>4, <1>5, <1>6

LEMMA ReturnRecorded ==
  ASSUME Scalars, Addresses, Recorded, NEW w \in Workers, Track(w) \/ TrackFailure(w)
  PROVE  Recorded'
<1> DEFINE key == SourceKey(req[w])
<1>1. /\ UNCHANGED <<table, now>>
      /\ ptr' = [ptr EXCEPT ![w] = 0]
      /\ \A v \in Workers : v # w => pc'[v] = pc[v] /\ req'[v] = req[v]
  BY DEF Track, TrackFailure, Release, Scalars
<1>2. \A v \in Workers : ptr'[v] # 0 =>
        KeyOf(v)' \in DOMAIN table' /\ ptr'[v] = table'[KeyOf(v)']
  <2> SUFFICES ASSUME NEW v \in Workers, ptr'[v] # 0
               PROVE  KeyOf(v)' \in DOMAIN table' /\ ptr'[v] = table'[KeyOf(v)']
    OBVIOUS
  <2>1. v # w /\ ptr'[v] = ptr[v]
    BY <1>1 DEF Addresses
  <2>2. KeyOf(v)' = KeyOf(v)
    BY <1>1, <2>1 DEF KeyOf
  <2> QED
    BY <1>1, <2>1, <2>2 DEF Recorded
<1>3. \A i \in DOMAIN log' : log'[i].key \in DOMAIN table'
  <2>1. CASE Track(w)
    <3>1. /\ DOMAIN log' = DOMAIN log \cup {Len(log) + 1}
          /\ log'[Len(log) + 1] = Entry(w)
          /\ \A i \in DOMAIN log : log'[i] = log[i]
      BY <2>1, TrackLogs
    <3>2. Entry(w).key \in DOMAIN table
      BY ReturnTarget DEF Entry
    <3> QED
      BY <1>1, <3>1, <3>2 DEF Recorded
  <2>2. CASE TrackFailure(w)
    BY <1>1, <2>2 DEF TrackFailure, Recorded
  <2> QED
    BY <2>1, <2>2
<1>4. ASSUME NEW k \in DOMAIN table, NEW c \in (now - Minute)..MaxTime
      PROVE  Count(List(k)', c) = Cardinality(Logged(k, c)')
  <2>1. CASE Track(w) /\ k = key
    BY <1>4, <2>1, TrackedCount
  <2>2. CASE Track(w) /\ k # key
    <3>1. List(k)' = List(k)
      BY <1>1, <2>2, ReturnTarget DEF List
    <3>2. Cardinality(Logged(k, c)') = Cardinality(Logged(k, c))
      BY <2>2, LoggedGrows, LoggedFinite
    <3> QED
      BY <3>1, <3>2 DEF Recorded
  <2>3. CASE TrackFailure(w)
    <3>1. heap[ptr[w]] \in HistoriesTo(now) /\ ptr[w] = table[key]
      BY ReturnFacts, ReturnTarget
    <3>2. Rewritten(w).requests = heap[ptr[w]].requests
      BY <2>3, <3>1 DEF Rewritten, TrackFailure, HistoriesTo
    <3>3. List(k)' = List(k)
      BY <1>1, <3>1, <3>2, ReturnTarget DEF List
    <3>4. Logged(k, c)' = Logged(k, c)
      BY <2>3, LoggedKept DEF TrackFailure
    <3> QED
      BY <3>3, <3>4 DEF Recorded
  <2> QED
    BY <2>1, <2>2, <2>3
<1>5. \A k \in DOMAIN table' : \A c \in (now' - Minute)..MaxTime :
        Count(List(k)', c) = Cardinality(Logged(k, c)')
  BY <1>1, <1>4
<1>6. \A k, l \in DOMAIN table' : table'[k] = table'[l] => k = l
  BY <1>1 DEF Recorded
<1> QED
  BY <1>2, <1>3, <1>5, <1>6 DEF Recorded, Count, After

LEMMA TickRecorded ==
  ASSUME Scalars, Recorded, Tick
  PROVE  Recorded'
<1>1. UNCHANGED <<heap, table, pc, req, ptr, log>> /\ now' = now + 1
  BY DEF Tick, workerVars
<1>2. /\ \A k, c : Logged(k, c)' = Logged(k, c)
      /\ \A v : KeyOf(v)' = KeyOf(v)
      /\ \A k : List(k)' = List(k)
  BY <1>1 DEF Logged, KeyOf, List
<1>3. (now' - Minute)..MaxTime \subseteq (now - Minute)..MaxTime
  <2>1. now \in Int /\ Minute \in Int /\ MaxTime \in Int
    BY TimesFacts DEF Scalars
  <2> QED
    BY <1>1, <2>1
<1>4. \A k \in DOMAIN table : \A c \in (now' - Minute)..MaxTime :
        Count(List(k), c) = Cardinality(Logged(k, c))
  BY <1>3 DEF Recorded
<1> QED
  BY <1>1, <1>2, <1>4 DEF Recorded, Count, After

\* The steps that take a lock, and those that do nothing.
Still == UNCHANGED <<heap, table, pc, req, ptr, signal, now, calls, log>>

LEMMA StillSteps ==
  ASSUME UNCHANGED vars \/ (\E w \in Workers : Lock(w)) \/ (\E c \in Cleaners : CleanPick(c))
  PROVE  Still
BY DEF Still, Lock, CleanPick, vars, workerVars

\* The steps of a detector that nobody cleans.
LEMMA StepKinds ==
  ASSUME Cleaners = {}, [Next]_vars
  PROVE  \/ \E w \in Workers : Arrive(w) \/ ArriveFailure(w)
         \/ \E w \in Workers : Fetch(w)
         \/ \E w \in Workers : CheckStep(w)
         \/ \E w \in Workers : Track(w) \/ TrackFailure(w)
         \/ Tick
         \/ Still
BY StillSteps DEF Next, Work, CheckStep

LEMMA NextRecorded ==
  ASSUME Cleaners = {}, Scalars, Addresses, Recorded, [Next]_vars
  PROVE  Recorded'
<1>1. CASE Still
  <2>1. UNCHANGED <<heap, table, pc, req, ptr, now, log>>
    BY <1>1 DEF Still
  <2> QED
    BY <2>1 DEF Recorded, Logged, KeyOf, List, Count, After
<1> QED
  BY <1>1, StepKinds, ArriveRecorded, FetchRecorded, CheckRecorded,
     ReturnRecorded, TickRecorded

LEMMA RecordInvariant ==
  ASSUME Cleaners = {}
  PROVE  Spec => [](Scalars /\ Addresses /\ Recorded)
<1>1. Init => Scalars /\ Addresses /\ Sweeping /\ Recorded
  BY InitTypes, InitRecorded, TypeParts
<1>2. Scalars /\ Addresses /\ Sweeping /\ Recorded /\ [Next]_vars
        => (Scalars /\ Addresses /\ Sweeping /\ Recorded)'
  BY NextTypes, NextRecorded, TypeParts, PTL
<1> QED
  BY <1>1, <1>2, PTL DEF Spec

\* Without a cleaner, what the next check of a source reads is exactly what
\* was tracked of it in the last minute, whatever the other workers do.
THEOREM HistoriesComplete ==
  ASSUME Cleaners = {}
  PROVE  Spec => []HistoryComplete
<1>1. ASSUME Scalars, Addresses, Recorded PROVE HistoryComplete
  <2> SUFFICES ASSUME NEW i \in DOMAIN log
               PROVE  Cardinality(LoggedRecently(log[i].key)) = HeldRecently(log[i].key)
    BY DEF HistoryComplete
  <2> DEFINE k == log[i].key
  <2>1. k \in DOMAIN table
    BY <1>1 DEF Recorded
  <2>2. HeldRecently(k) = Cardinality(Logged(k, now - Minute))
    <3>1. Recent(List(k), Minute) = Cardinality(Logged(k, now - Minute))
      BY <1>1, <2>1, RecentIsLogged, TimesFacts
    <3> QED
      BY <2>1, <3>1 DEF HeldRecently, List
  <2>3. LoggedRecently(k) = Logged(k, now - Minute)
    BY DEF LoggedRecently, Logged
  <2> QED
    BY <2>2, <2>3
<1> QED
  BY <1>1, RecordInvariant, PTL

-----------------------------------------------------------------------------
(* How many requests of a source a second and a minute let pass            *)

\* The two checks that bound a number, and where a worker is that passed one.
Bounding == {"rate", "bots"}

Span(x) == IF x = "rate" THEN Second ELSE Minute
Limit(x) == IF x = "rate" THEN MaxPerSecond ELSE MaxPerMinute
Past(x) == IF x = "rate" THEN {"velocity", "methods", "bots", "track"} ELSE {"track"}

\* The workers whose request of the source k has passed the check x and is
\* not tracked yet.
InFlight(x, k) ==
  {w \in Workers : pc[w] \in Past(x) /\ SourceKey(req[w]) = k /\ x \notin signal[w]}

\* What the bound rests on: the requests in flight are counted with those of
\* the log.  A request passes a check when the log holds no more than the
\* limit, and tracking it only moves it from the one count to the other.
AdmittedInv ==
  \A x \in Bounding, k \in {SourceKey(r) : r \in Requests} :
    \A c \in (now - Span(x))..MaxTime :
      Cardinality(Passed(x, k, c)) + Cardinality(InFlight(x, k))
        <= Limit(x) + Cardinality(Workers)

LEMMA WorkersCount ==
  /\ Cardinality(Workers) \in Nat
  /\ \A x, k : /\ IsFiniteSet(InFlight(x, k))
               /\ Cardinality(InFlight(x, k)) \in Nat
               /\ Cardinality(InFlight(x, k)) <= Cardinality(Workers)
<1>1. \A x, k : InFlight(x, k) \subseteq Workers
  BY DEF InFlight
<1>2. \A x, k : /\ IsFiniteSet(InFlight(x, k))
                /\ Cardinality(InFlight(x, k)) <= Cardinality(Workers)
  BY <1>1, DetectorAssumption, FS_Subset
<1> QED
  BY <1>2, DetectorAssumption, FS_CardinalityType

LEMMA PassedCount ==
  ASSUME Scalars, NEW x, NEW k, NEW c, NEW b, b \in Int, c \in Int, b <= c
  PROVE  /\ IsFiniteSet(Passed(x, k, c))
         /\ Cardinality(Passed(x, k, c)) \in Nat
         /\ Cardinality(Passed(x, k, c)) <= Cardinality(Logged(k, b))
<1>1. \A i \in DOMAIN log : log[i].time \in Int
  <2>1. \A i \in DOMAIN log : log[i] \in Entries
    BY LenProperties, ElementOfSeq DEF Scalars
  <2> QED
    BY <2>1, TimesFacts DEF Entries
<1>2. Passed(x, k, c) \subseteq Logged(k, b)
  BY <1>1 DEF Passed, Logged
<1>3. /\ IsFiniteSet(Passed(x, k, c))
      /\ Cardinality(Passed(x, k, c)) <= Cardinality(Logged(k, b))
  BY <1>2, LoggedFinite, FS_Subset
<1> QED
  BY <1>3, FS_CardinalityType

LEMMA SpanFacts ==
  \A x \in Bounding : Span(x) \in Nat /\ Span(x) > 0 /\ Span(x) <= Minute /\ Limit(x) \in Nat
<1>1. MaxPerSecond \in Nat /\ MaxPerMinute \in Nat
  BY DetectorAssumption
<1> QED
  BY <1>1, TimesFacts DEF Bounding, Span, Limit

Sources == {SourceKey(r) : r \in Requests}

LEMMA InitAdmitted == Init => AdmittedInv
<1> SUFFICES ASSUME Init, NEW x \in Bounding, NEW k \in Sources,
                    NEW c \in (now - Span(x))..MaxTime
             PROVE  Cardinality(Passed(x, k, c)) + Cardinality(InFlight(x, k))
                      <= Limit(x) + Cardinality(Workers)
  BY DEF AdmittedInv, Sources
<1>1. Passed(x, k, c) = {} /\ InFlight(x, k) = {}
  BY DEF Init, Passed, Logged, InFlight, Past
<1> QED
  BY <1>1, FS_EmptySet, SpanFacts, WorkersCount

\* A step that logs nothing and adds nothing in flight.
LEMMA AdmittedKept ==
  ASSUME Scalars, AdmittedInv, log' = log, now' \in Int, now' >= now,
         NEW x \in Bounding, NEW k \in Sources, NEW c \in (now' - Span(x))..MaxTime,
         InFlight(x, k)' \subseteq InFlight(x, k)
  PROVE  Cardinality(Passed(x, k, c)') + Cardinality(InFlight(x, k)')
           <= Limit(x) + Cardinality(Workers)
<1>1. now \in Int /\ Span(x) \in Int /\ MaxTime \in Int
  BY TimesFacts, SpanFacts DEF Scalars
<1>2. c \in Int /\ c \in (now - Span(x))..MaxTime
  BY <1>1
<1>3. Passed(x, k, c)' = Passed(x, k, c)
  BY DEF Passed, Logged
<1>4. Cardinality(InFlight(x, k)') <= Cardinality(InFlight(x, k))
      /\ Cardinality(InFlight(x, k)') \in Nat
  <2>1. IsFiniteSet(InFlight(x, k)') /\ Cardinality(InFlight(x, k)') <= Cardinality(InFlight(x, k))
    BY WorkersCount, FS_Subset
  <2> QED
    BY <2>1, FS_CardinalityType
<1>5. /\ Cardinality(Passed(x, k, c)) \in Nat
      /\ Cardinality(Passed(x, k, c)) <= Cardinality(Logged(k, c))
  BY <1>2, PassedCount
<1>6. Cardinality(Passed(x, k, c)) + Cardinality(InFlight(x, k))
        <= Limit(x) + Cardinality(Workers)
  BY <1>2 DEF AdmittedInv, Sources
<1> QED
  BY <1>3, <1>4, <1>5, <1>6, WorkersCount, SpanFacts

\* A request that passes a check: the log holds no more than the limit, and
\* no more requests are in flight than there are workers.
LEMMA AdmittedByCheck ==
  ASSUME Scalars, Addresses, Recorded, NEW w \in Workers, NEW x \in Bounding,
         ptr[w] # 0, pc[w] = x, Recent(History(w).requests, Span(x)) <= Limit(x),
         log' = log, now' = now,
         NEW k, k = SourceKey(req[w]), NEW c \in (now - Span(x))..MaxTime
  PROVE  Cardinality(Passed(x, k, c)') + Cardinality(InFlight(x, k)')
           <= Limit(x) + Cardinality(Workers)
<1>1. k \in DOMAIN table /\ ptr[w] = table[k]
  BY DEF Bounding, KeyOf, Recorded
<1>2. Recent(List(k), Span(x)) <= Limit(x)
  BY <1>1 DEF History, List
<1>3. Cardinality(Logged(k, now - Span(x))) <= Limit(x)
  BY <1>1, <1>2, SpanFacts, RecentIsLogged
<1>4. now - Span(x) \in Int /\ c \in Int /\ now - Span(x) <= c
  BY TimesFacts, SpanFacts DEF Scalars
<1>5. Cardinality(Passed(x, k, c)) \in Nat
      /\ Cardinality(Passed(x, k, c)) <= Cardinality(Logged(k, now - Span(x)))
  BY <1>4, PassedCount
<1>6. Passed(x, k, c)' = Passed(x, k, c)
  BY DEF Passed, Logged
<1>7. Cardinality(InFlight(x, k)') \in Nat
      /\ Cardinality(InFlight(x, k)') <= Cardinality(Workers)
  <2>1. InFlight(x, k)' \subseteq Workers
    BY DEF InFlight
  <2> QED
    BY <2>1, DetectorAssumption, FS_Subset, FS_CardinalityType
<1> QED
  BY <1>3, <1>5, <1>6, <1>7, LoggedFinite, SpanFacts, WorkersCount

LEMMA CheckAdmitted ==
  ASSUME Scalars, Addresses, Recorded, AdmittedInv, NEW w \in Workers, CheckStep(w),
         NEW x \in Bounding, NEW k \in Sources, NEW c \in (now - Span(x))..MaxTime
  PROVE  Cardinality(Passed(x, k, c)') + Cardinality(InFlight(x, k)')
           <= Limit(x) + Cardinality(Workers)
<1>1. /\ log' = log /\ now' = now /\ req' = req
      /\ ptr[w] # 0 /\ now \in Int /\ now' >= now
  BY CheckFacts DEF Scalars, Addresses, Locking
<1>2. CASE pc[w] = x /\ k = SourceKey(req[w]) /\ x \notin signal'[w]
  <2>1. Recent(History(w).requests, Span(x)) <= Limit(x)
    <3>1. Recent(History(w).requests, Span(x)) \in Int
      <4>1. KeyOf(w) \in DOMAIN table /\ ptr[w] = table[KeyOf(w)]
        BY <1>1 DEF Recorded
      <4>2. Recent(List(KeyOf(w)), Span(x)) = Cardinality(Logged(KeyOf(w), now - Span(x)))
        BY <4>1, SpanFacts, RecentIsLogged
      <4> QED
        BY <4>1, <4>2, LoggedFinite DEF History, List
    <3>2. CASE x = "rate"
      BY <1>2, <3>1, <3>2, SpanFacts DEF CheckStep, CheckRate, CheckVelocity, CheckMethods,
           CheckBots, Check, Span, Limit, Scalars, Bounding
    <3>3. CASE x = "bots"
      BY <1>2, <3>1, <3>3, SpanFacts DEF CheckStep, CheckRate, CheckVelocity, CheckMethods,
           CheckBots, Check, Span, Limit, Scalars, Bounding
    <3> QED
      BY <3>2, <3>3 DEF Bounding
  <2> QED
    BY <1>1, <1>2, <2>1, AdmittedByCheck
<1>3. CASE ~(pc[w] = x /\ k = SourceKey(req[w]) /\ x \notin signal'[w])
  <2>1. InFlight(x, k)' \subseteq InFlight(x, k)
    <3>1. \A v \in Workers : v # w => pc'[v] = pc[v] /\ signal'[v] = signal[v]
      BY CheckFacts DEF Scalars
    <3>2. w \in InFlight(x, k)' => w \in InFlight(x, k)
      BY <1>1, <1>3 DEF CheckStep, CheckRate, CheckVelocity, CheckMethods,
           CheckBots, Check, InFlight, Past, Scalars, Bounding
    <3> QED
      BY <1>1, <3>1, <3>2 DEF InFlight
  <2> QED
    BY <1>1, <2>1, AdmittedKept
<1> QED
  BY <1>2, <1>3

\* Tracking a request takes it out of those in flight and puts it into the log.
LEMMA TrackAdmitted ==
  ASSUME Scalars, AdmittedInv, NEW w \in Workers, Track(w),
         NEW x \in Bounding, NEW k \in Sources, NEW c \in (now - Span(x))..MaxTime
  PROVE  Cardinality(Passed(x, k, c)') + Cardinality(InFlight(x, k)')
           <= Limit(x) + Cardinality(Workers)
<1> DEFINE n == Len(log) + 1
           moves == k = SourceKey(req[w]) /\ x \notin signal[w]
<1>1. n \notin DOMAIN log /\ log'[n] = Entry(w)
      /\ DOMAIN log' = DOMAIN log \cup {n}
      /\ \A i \in DOMAIN log : log'[i] = log[i]
  BY TrackLogs
<1> HIDE DEF n
<1>2. now \in Int /\ Span(x) \in Int /\ MaxTime \in Int /\ c \in Int
  BY TimesFacts, SpanFacts DEF Scalars
<1>3. /\ IsFiniteSet(Passed(x, k, c)) /\ Cardinality(Passed(x, k, c)) \in Nat
      /\ Cardinality(Passed(x, k, c)) <= Cardinality(Logged(k, c))
  BY <1>2, PassedCount
<1>4. Cardinality(Passed(x, k, c)') \in Nat
      /\ Cardinality(Passed(x, k, c)') <= Cardinality(Passed(x, k, c)) + (IF moves THEN 1 ELSE 0)
  <2>1. n \notin Passed(x, k, c)
    BY <1>1 DEF Passed, Logged
  <2>2. Passed(x, k, c)' = Passed(x, k, c)
        \/ (moves /\ Passed(x, k, c)' = Passed(x, k, c) \cup {n})
    BY <1>1 DEF Passed, Logged, Entry
  <2> QED
    BY <1>3, <2>1, <2>2, FS_AddElement
<1>5. /\ IsFiniteSet(InFlight(x, k))
      /\ Cardinality(InFlight(x, k)) \in Nat
      /\ Cardinality(InFlight(x, k)') = Cardinality(InFlight(x, k)) - (IF moves THEN 1 ELSE 0)
  <2>1. w \in InFlight(x, k) <=> moves
    BY DEF Track, InFlight, Past
  <2>2. InFlight(x, k)' = InFlight(x, k) \ {w}
    BY DEF Track, InFlight, Past, Scalars
  <2>3. IsFiniteSet(InFlight(x, k)) /\ Cardinality(InFlight(x, k)) \in Nat
    BY WorkersCount
  <2>4. CASE moves
    BY <2>1, <2>2, <2>3, <2>4, FS_RemoveElement
  <2>5. CASE ~moves
    <3>1. InFlight(x, k)' = InFlight(x, k)
      BY <2>1, <2>2, <2>5
    <3> QED
      BY <2>3, <2>5, <3>1
  <2> QED
    BY <2>3, <2>4, <2>5
<1>6. Cardinality(Passed(x, k, c)) + Cardinality(InFlight(x, k))
        <= Limit(x) + Cardinality(Workers)
  BY DEF AdmittedInv, Sources
<1> HIDE DEF moves
<1> QED
  BY <1>3, <1>4, <1>5, <1>6, WorkersCount, SpanFacts

LEMMA NextAdmitted ==
  ASSUME Cleaners = {}, Scalars, Addresses, Recorded, AdmittedInv, [Next]_vars
  PROVE  AdmittedInv'
<1> SUFFICES ASSUME NEW x \in Bounding, NEW k \in Sources,
                    NEW c \in (now' - Span(x))..MaxTime
             PROVE  Cardinality(Passed(x, k, c)') + Cardinality(InFlight(x, k)')
                      <= Limit(x) + Cardinality(Workers)
  BY DEF AdmittedInv, Sources, Span, Limit
<1>1. now \in Int
  BY TimesFacts DEF Scalars
<1>2. ASSUME NEW w \in Workers, Arrive(w) \/ ArriveFailure(w)
      PROVE  log' = log /\ now' = now /\ InFlight(x, k)' \subseteq InFlight(x, k)
  BY <1>2 DEF Arrive, ArriveFailure, InFlight, Past, Scalars
<1>3. ASSUME NEW w \in Workers, Fetch(w)
      PROVE  log' = log /\ now' = now /\ InFlight(x, k)' \subseteq InFlight(x, k)
  BY <1>3 DEF Fetch, InFlight
<1>4. ASSUME NEW w \in Workers, CheckStep(w)
      PROVE  Cardinality(Passed(x, k, c)') + Cardinality(InFlight(x, k)')
               <= Limit(x) + Cardinality(Workers)
  <2>1. now' = now
    BY <1>4, CheckFacts
  <2> QED
    BY <1>4, <2>1, CheckAdmitted
<1>5. ASSUME NEW w \in Workers, Track(w)
      PROVE  Cardinality(Passed(x, k, c)') + Cardinality(InFlight(x, k)')
               <= Limit(x) + Cardinality(Workers)
  <2>1. now' = now
    BY <1>5 DEF Track
  <2> QED
    BY <1>5, <2>1, TrackAdmitted
<1>6. ASSUME NEW w \in Workers, TrackFailure(w)
      PROVE  log' = log /\ now' = now /\ InFlight(x, k)' \subseteq InFlight(x, k)
  BY <1>6 DEF TrackFailure, InFlight, Past, Scalars
<1>7. ASSUME Tick
      PROVE  log' = log /\ now' = now + 1 /\ InFlight(x, k)' \subseteq InFlight(x, k)
  BY <1>7 DEF Tick, InFlight, workerVars
<1>8. ASSUME Still
      PROVE  log' = log /\ now' = now /\ InFlight(x, k)' \subseteq InFlight(x, k)
  BY <1>8 DEF Still, InFlight
<1>9. \/ log' = log /\ now' \in {now, now + 1} /\ InFlight(x, k)' \subseteq InFlight(x, k)
      \/ Cardinality(Passed(x, k, c)') + Cardinality(InFlight(x, k)')
           <= Limit(x) + Cardinality(Workers)
  BY <1>2, <1>3, <1>4, <1>5, <1>6, <1>7, <1>8, StepKinds
<1>10. now' \in {now, now + 1} => now' \in Int /\ now' >= now
  BY <1>1
<1> QED
  BY <1>9, <1>10, AdmittedKept

\* The bound looks at the log alone, and at no entry after the one it ends with.
LEMMA BoundKept ==
  ASSUME AdmissionBound, log' = log
  PROVE  AdmissionBound'
BY DEF AdmissionBound, PassedWithin

LEMMA TrackBound ==
  ASSUME Scalars, AdmittedInv', AdmissionBound, NEW w \in Workers, Track(w)
  PROVE  AdmissionBound'
<1>1. PICK n : n = Len(log) + 1
  OBVIOUS
<1>2. PICK k : k = SourceKey(req[w])
  OBVIOUS
<1>3. /\ log'[n] = Entry(w)
      /\ DOMAIN log' = DOMAIN log \cup {n} /\ DOMAIN log' = 1..n
      /\ DOMAIN log = 1..Len(log) /\ Len(log) \in Nat
      /\ \A i \in DOMAIN log : log'[i] = log[i]
  <2>1. Len(log) \in Nat => 1..(Len(log) + 1) = (1..Len(log)) \cup {Len(log) + 1}
    OBVIOUS
  <2> QED
    BY <1>1, <2>1, TrackLogs
<1>4. now' = now /\ now \in 0..MaxTime /\ k \in Sources
  BY <1>2 DEF Track, Scalars, Sources
<1>5. ASSUME NEW x \in Bounding
      PROVE  Cardinality(PassedWithin(x, Span(x), n)') <= Limit(x) + Cardinality(Workers)
  <2>1. now - Span(x) \in (now' - Span(x))..MaxTime
    BY <1>4, SpanFacts, TimesFacts
  <2>2. PICK c \in (now' - Span(x))..MaxTime : c = now - Span(x)
    BY <2>1
  <2>3. PassedWithin(x, Span(x), n)' = Passed(x, k, c)'
    BY <1>2, <1>3, <2>2 DEF PassedWithin, Passed, Logged, Entry, Span
  <2>4. Cardinality(Passed(x, k, c)') + Cardinality(InFlight(x, k)')
          <= Limit(x) + Cardinality(Workers)
    BY <1>4, <2>2 DEF AdmittedInv, Sources, Span, Limit
  <2>5. /\ Cardinality(Passed(x, k, c)') \in Nat
        /\ Cardinality(InFlight(x, k)') \in Nat
    <3>1. InFlight(x, k)' \subseteq Workers
      BY DEF InFlight
    <3>2. Cardinality(InFlight(x, k)') \in Nat
      BY <3>1, DetectorAssumption, FS_Subset, FS_CardinalityType
    <3>3. IsFiniteSet(DOMAIN log')
      BY <1>1, <1>3, FS_Interval
    <3>4. Passed(x, k, c)' \subseteq DOMAIN log'
      BY DEF Passed, Logged
    <3> QED
      BY <3>2, <3>3, <3>4, FS_Subset, FS_CardinalityType
  <2> QED
    BY <2>3, <2>4, <2>5, SpanFacts, WorkersCount
<1>6. ASSUME NEW j \in DOMAIN log, NEW x, NEW span
      PROVE  PassedWithin(x, span, j)' = PassedWithin(x, span, j)
  <2>1. j \in DOMAIN log /\ \A i \in 1..j : i \in DOMAIN log
    BY <1>3
  <2> QED
    BY <1>3, <2>1 DEF PassedWithin
<1>7. ASSUME NEW j \in DOMAIN log'
      PROVE  /\ Cardinality(PassedWithin("rate", Second, j)') <= MaxPerSecond + Cardinality(Workers)
             /\ Cardinality(PassedWithin("bots", Minute, j)') <= MaxPerMinute + Cardinality(Workers)
  <2>1. CASE j = n
    BY <1>5, <2>1 DEF Bounding, Span, Limit
  <2>2. CASE j \in DOMAIN log
    BY <1>6, <2>2 DEF AdmissionBound
  <2> QED
    BY <1>3, <2>1, <2>2
<1> QED
  BY <1>7 DEF AdmissionBound

\* What every state without a cleaner satisfies.
QuietInv == Scalars /\ Addresses /\ Recorded

\* However many workers count before any of them records, a second lets no
\* more requests of a source pass than the threshold and one for each worker,
\* and so does a minute.
THEOREM AdmissionBounded ==
  ASSUME Cleaners = {}
  PROVE  Spec => []AdmissionBound
<1>1. Init => AdmissionBound
  BY DEF Init, AdmissionBound
<1>2. ASSUME QuietInv, AdmittedInv, AdmissionBound, [Next]_vars
      PROVE  AdmittedInv' /\ AdmissionBound'
  <2>1. AdmittedInv'
    BY <1>2, NextAdmitted DEF QuietInv
  <2>2. log' = log \/ \E w \in Workers : Track(w)
    BY <1>2, StepKinds, CheckFacts
       DEF Arrive, ArriveFailure, Fetch, TrackFailure, Tick, Still
  <2> QED
    BY <1>2, <2>1, <2>2, BoundKept, TrackBound DEF QuietInv
<1>3. Spec => []QuietInv
  BY RecordInvariant, PTL DEF QuietInv
<1> QED
  BY <1>1, <1>2, <1>3, InitAdmitted, PTL DEF Spec

-----------------------------------------------------------------------------
(* A source is flagged only for what it has done, also while cleaners run  *)

\* The checks that count, and their thresholds.
Counting == Bounding \cup {"methods"}

Threshold(x) == IF x = "methods" THEN ProbeLimit ELSE Limit(x)

\* The requests of log[i]'s source tracked within the check's span before it,
\* and that a request of the source k in the log has more than the threshold
\* of them.
UpTo(x, i) ==
  {m \in 1..i : log[m].key = log[i].key /\ log[m].time > log[i].time - Span(x)}

Earned(x, k) ==
  \E i \in DOMAIN log : log[i].key = k /\ Cardinality(UpTo(x, i)) > Threshold(x)

\* A request that a counting check has flagged had this many before it.
FlagsEarned ==
  \A j \in DOMAIN log : \A x \in Counting \cap log[j].signal :
    \E i \in 1..(j - 1) :
      log[i].key = log[j].key /\ Cardinality(UpTo(x, i)) > Threshold(x)

\* The keys and the addresses of the histories that are in the map or in a
\* worker's hand: one that a cleaner has deleted may still be in use.
Holding ==
  {<<k, table[k]>> : k \in DOMAIN table}
    \cup {<<KeyOf(w), ptr[w]>> : w \in {v \in Workers : ptr[v] # 0}}

\* What is said of a key and a history that is held under it: the history
\* tells of no more requests after any time of the last minute than the log
\* does of the key, and it is longer than the threshold of the methods check
\* only if the source has earned a flag of it.
Accounted(p) ==
  /\ Len(heap[p[2]].requests) > ProbeLimit => Earned("methods", p[1])
  /\ \A c \in (now - Minute)..MaxTime :
       Count(heap[p[2]].requests, c) <= Cardinality(Logged(p[1], c))

\* No history is held under two keys.
FlagInv ==
  /\ \A i \in DOMAIN log : log[i].time <= now
  /\ \A p, q \in Holding : p[2] = q[2] => p[1] = q[1]
  /\ \A p \in Holding : Accounted(p)
  /\ \A w \in Workers : \A x \in Counting \cap signal[w] : Earned(x, SourceKey(req[w]))

LEMMA InitFlags == Init => FlagInv
<1> SUFFICES ASSUME Init PROVE FlagInv
  OBVIOUS
<1>1. DOMAIN table = {} /\ DOMAIN log = {}
      /\ \A w \in Workers : signal[w] = {} /\ ptr[w] = 0
  BY DEF Init
<1>2. Holding = {}
  BY <1>1 DEF Holding
<1> QED
  BY <1>1, <1>2 DEF FlagInv

LEMMA HoldingFacts ==
  /\ \A k \in DOMAIN table : <<k, table[k]>> \in Holding
  /\ \A w \in Workers : ptr[w] # 0 => <<KeyOf(w), ptr[w]>> \in Holding
  /\ \A p \in Holding :
       \/ \E k \in DOMAIN table : p = <<k, table[k]>>
       \/ \E w \in Workers : ptr[w] # 0 /\ p = <<KeyOf(w), ptr[w]>>
  /\ Addresses => \A p \in Holding : p[2] \in DOMAIN heap
BY DEF Holding, Addresses

\* What is held after a step that fetches nothing was held before.
LEMMA HoldingShrinks ==
  ASSUME \A k \in DOMAIN table' : k \in DOMAIN table /\ table'[k] = table[k],
         \A v \in Workers : ptr'[v] # 0 => ptr'[v] = ptr[v] /\ KeyOf(v)' = KeyOf(v)
  PROVE  Holding' \subseteq Holding
BY DEF Holding

\* What was earned stays so.
LEMMA EarnedKept ==
  ASSUME log' = log, NEW x, NEW k
  PROVE  Earned(x, k)' <=> Earned(x, k)
BY DEF Earned, UpTo, Threshold, Limit, Span

LEMMA CutoffsShrink ==
  \A m, n \in Int : m <= n => (n - Minute)..MaxTime \subseteq (m - Minute)..MaxTime
<1>1. Minute \in Int /\ MaxTime \in Int
  BY TimesFacts
<1> QED
  BY <1>1

\* A step that logs nothing, and changes lists only by dropping what is older
\* than a minute.
LEMMA FlagsKept ==
  ASSUME FlagInv, Scalars, Addresses, log' = log, now' \in Int, now' >= now,
         Holding' \subseteq Holding,
         \A a \in DOMAIN heap :
           \/ heap'[a].requests = heap[a].requests
           \/ /\ Len(heap'[a].requests) > ProbeLimit => Len(heap[a].requests) > ProbeLimit
              /\ \A c \in (now - Minute)..MaxTime :
                   Count(heap'[a].requests, c) = Count(heap[a].requests, c),
         \A w \in Workers : \A x \in Counting \cap signal'[w] :
           Earned(x, SourceKey(req'[w]))
  PROVE  FlagInv'
<1>1. now \in Int /\ Minute \in Int /\ MaxTime \in Int
  BY TimesFacts DEF Scalars
<1>2. (now' - Minute)..MaxTime \subseteq (now - Minute)..MaxTime
  BY <1>1, CutoffsShrink
<1>3. \A x, k : Earned(x, k)' <=> Earned(x, k)
  BY EarnedKept
<1>4. \A k, c : Logged(k, c)' = Logged(k, c)
  BY LoggedKept
<1>5. ASSUME NEW p \in Holding'
      PROVE  Accounted(p)'
  <2>1. p \in Holding /\ p[2] \in DOMAIN heap /\ Accounted(p)
    BY <1>5, HoldingFacts DEF FlagInv
  <2>2. Len(heap'[p[2]].requests) > ProbeLimit => Earned("methods", p[1])
    BY <2>1 DEF Accounted
  <2>3. \A c \in (now' - Minute)..MaxTime :
          Count(heap'[p[2]].requests, c) <= Cardinality(Logged(p[1], c))
    BY <1>2, <2>1 DEF Accounted
  <2> QED
    BY <1>3, <1>4, <2>2, <2>3 DEF Accounted, Count, After
<1>6. \A i \in DOMAIN log : log[i].time \in Int
  <2>1. \A i \in DOMAIN log : log[i] \in Entries
    BY LenProperties, ElementOfSeq DEF Scalars
  <2> QED
    BY <2>1, TimesFacts DEF Entries
<1>7. \A i \in DOMAIN log' : log'[i].time <= now'
  BY <1>1, <1>6 DEF FlagInv
<1>8. \A p, q \in Holding' : p[2] = q[2] => p[1] = q[1]
  BY DEF FlagInv
<1>9. ASSUME NEW w \in Workers, NEW x \in Counting \cap signal'[w]
      PROVE  Earned(x, SourceKey(req[w]))'
  <2>1. Earned(x, SourceKey(req'[w]))
    BY <1>9
  <2> QED
    BY <2>1 DEF Earned, UpTo, Threshold, Limit, Span
<1> QED
  BY <1>5, <1>7, <1>8, <1>9 DEF FlagInv, Counting, Bounding

\* A step of one worker that changes no history and gives none to it.
LEMMA WorkerFlags ==
  ASSUME FlagInv, Scalars, Addresses, UNCHANGED <<heap, table, now, log>>, NEW w \in Workers,
         ptr'[w] = 0,
         \A v \in Workers : v # w => /\ ptr'[v] = ptr[v] /\ pc'[v] = pc[v]
                                     /\ req'[v] = req[v] /\ signal'[v] = signal[v],
         \A x \in Counting \cap signal'[w] : Earned(x, SourceKey(req'[w]))
  PROVE  FlagInv'
<1>1. \A v \in Workers : ptr'[v] # 0 => ptr'[v] = ptr[v] /\ KeyOf(v)' = KeyOf(v)
  BY DEF KeyOf
<1>2. Holding' \subseteq Holding
  BY <1>1, HoldingShrinks
<1>3. \A v \in Workers : \A x \in Counting \cap signal'[v] : Earned(x, SourceKey(req'[v]))
  BY DEF FlagInv
<1>4. now' \in Int /\ now' >= now
  BY DEF Scalars
<1> QED
  BY <1>2, <1>3, <1>4, FlagsKept

LEMMA ArriveFlags ==
  ASSUME FlagInv, Scalars, Addresses, NEW w \in Workers, Arrive(w) \/ ArriveFailure(w)
  PROVE  FlagInv'
<1>1. /\ UNCHANGED <<heap, table, now, log, ptr>> /\ pc[w] = "idle"
      /\ \A v \in Workers : v # w => /\ ptr'[v] = ptr[v] /\ pc'[v] = pc[v]
                                     /\ req'[v] = req[v] /\ signal'[v] = signal[v]
  BY DEF Arrive, ArriveFailure, Scalars
<1>2. ptr'[w] = 0
  BY <1>1 DEF Addresses, Histories
<1>3. Counting \cap signal'[w] = {}
  BY DEF Arrive, ArriveFailure, Scalars, ContentReasons, Counting, Bounding
<1> QED
  BY <1>1, <1>2, <1>3, WorkerFlags

\* The last request of a source that was logged within the span before now
\* has all the others of them within the span before it.
LEMMA LoggedEarns ==
  ASSUME FlagInv, Scalars, NEW x \in Counting, NEW k,
         Cardinality(Logged(k, now - Span(x))) > Threshold(x)
  PROVE  Earned(x, k)
<1> DEFINE S == Logged(k, now - Span(x))
           T == {n \in Nat : n <= Len(log) /\ \A i \in S : i <= n}
<1>1. /\ Len(log) \in Nat /\ DOMAIN log = 1..Len(log)
      /\ \A i \in DOMAIN log : log[i] \in Entries
  BY LenProperties, ElementOfSeq DEF Scalars
<1>2. now \in Int /\ Span(x) \in Int /\ Threshold(x) \in Nat
      /\ \A i \in DOMAIN log : log[i].time \in Int
  <2>1. \A i \in DOMAIN log : log[i].time \in Int
    BY <1>1, TimesFacts DEF Entries
  <2>2. {MaxPerSecond, MaxPerMinute, ProbeLimit} \subseteq Nat
    BY DetectorAssumption
  <2> QED
    BY <2>1, <2>2, TimesFacts DEF Scalars, Span, Threshold, Limit
<1>3. S \subseteq 1..Len(log) /\ S # {}
  <2>1. S \subseteq 1..Len(log)
    BY <1>1 DEF Logged
  <2>2. S # {}
    <3> SUFFICES ASSUME S = {} PROVE FALSE
      OBVIOUS
    <3>1. Cardinality(S) = 0
      BY FS_EmptySet
    <3>2. Cardinality(S) > Threshold(x)
      OBVIOUS
    <3> HIDE DEF S
    <3> QED
      BY <1>2, <3>1, <3>2
  <2> QED
    BY <2>1, <2>2
<1>4. T \in SUBSET Nat /\ Len(log) \in T
  BY <1>1, <1>3
<1>5. PICK n \in T : \A m \in T : n <= m
  <2> HIDE DEF T
  <2> QED
    BY <1>4, SmallestNumber
<1>6. n \in Nat /\ n <= Len(log) /\ \A i \in S : i \in Nat /\ i >= 1 /\ i <= n
  BY <1>1, <1>3
<1>7. n \in S
  <2> SUFFICES ASSUME n \notin S PROVE FALSE
    OBVIOUS
  <2>1. \A i \in S : i <= n - 1
    BY <1>6
  <2>2. n - 1 \in Nat /\ n - 1 <= Len(log)
    BY <1>1, <1>3, <1>6
  <2>3. n - 1 \in T
    BY <2>1, <2>2
  <2> QED
    BY <1>5, <1>6, <2>3
<1> HIDE DEF T
<1>8. n \in DOMAIN log /\ log[n].key = k /\ log[n].time <= now
  BY <1>7 DEF Logged, FlagInv
<1>9. S \subseteq UpTo(x, n)
  <2> SUFFICES ASSUME NEW i \in S PROVE i \in UpTo(x, n)
    OBVIOUS
  <2>1. i \in DOMAIN log /\ log[i].key = k /\ log[i].time > now - Span(x)
    BY DEF Logged
  <2>2. log[i].time > log[n].time - Span(x)
    BY <1>2, <1>8, <2>1
  <2>3. i \in 1..n
    BY <1>6
  <2> QED
    BY <1>8, <2>1, <2>2, <2>3 DEF UpTo
<1>10. IsFiniteSet(UpTo(x, n))
  <2>1. IsFiniteSet(1..n) /\ UpTo(x, n) \subseteq 1..n
    BY <1>6, FS_Interval DEF UpTo
  <2> QED
    BY <2>1, FS_Subset
<1>11. Cardinality(S) <= Cardinality(UpTo(x, n))
       /\ Cardinality(S) \in Nat /\ Cardinality(UpTo(x, n)) \in Nat
  BY <1>9, <1>10, FS_Subset, FS_CardinalityType
<1>12. Cardinality(UpTo(x, n)) > Threshold(x)
  BY <1>2, <1>11
<1> QED
  BY <1>8, <1>12 DEF Earned

LEMMA HeldTimes ==
  ASSUME Addresses, NEW a \in DOMAIN heap
  PROVE  heap[a] \in HistoriesTo(now) /\ heap[a].requests \in Seq(0..now)
<1>1. heap[a] \in HistoriesTo(now)
  BY LenProperties, ElementOfSeq DEF Addresses
<1> QED
  BY <1>1 DEF HistoriesTo

LEMMA CheckFlags ==
  ASSUME FlagInv, Scalars, Addresses, NEW w \in Workers, CheckStep(w)
  PROVE  FlagInv'
<1>1. /\ UNCHANGED <<heap, table, now, log, req>> /\ ptr[w] # 0 /\ ptr'[w] = 0
      /\ \A v \in Workers : v # w => /\ ptr'[v] = ptr[v] /\ pc'[v] = pc[v]
                                     /\ req'[v] = req[v] /\ signal'[v] = signal[v]
  BY CheckFacts DEF Scalars, Addresses, Locking
<1>2. PICK p : p = <<KeyOf(w), ptr[w]>>
  OBVIOUS
<1>3. p \in Holding /\ Accounted(p) /\ p[2] \in DOMAIN heap
      /\ p[1] = KeyOf(w) /\ p[2] = ptr[w]
  BY <1>1, <1>2, HoldingFacts DEF FlagInv
<1>4. ASSUME NEW x \in Counting \cap signal'[w]
      PROVE  Earned(x, SourceKey(req[w]))
  <2>1. CASE x \in signal[w]
    BY <2>1 DEF FlagInv
  <2>2. CASE x \notin signal[w]
    <3>1. pc[w] = x
      BY <1>4, <2>2, CheckFacts DEF Scalars
    <3>2. p[1] = SourceKey(req[w])
      BY <1>3, <3>1 DEF KeyOf, Counting, Bounding
    <3>3. CASE x = "methods"
      <4>1. Len(heap[p[2]].requests) > ProbeLimit
        BY <1>3, <1>4, <2>2, <3>1, <3>3
           DEF CheckStep, CheckRate, CheckVelocity, CheckMethods, CheckBots, Check,
               Scalars, History
      <4> QED
        BY <1>3, <3>2, <3>3, <4>1 DEF Accounted
    <3>4. CASE x \in Bounding
      <4>1. Recent(heap[p[2]].requests, Span(x)) > Limit(x)
        BY <1>3, <1>4, <2>2, <3>1, <3>4
           DEF CheckStep, CheckRate, CheckVelocity, CheckMethods, CheckBots, Check,
               Scalars, History, Span, Limit, Bounding
      <4>2. /\ now \in Nat /\ now <= MaxTime /\ 0..now \in SUBSET Int
            /\ Span(x) \in Nat /\ Span(x) <= Minute /\ Minute \in Nat /\ MaxTime \in Nat
            /\ Limit(x) \in Nat
        BY <3>4, SpanFacts, TimesFacts DEF Scalars
      <4>3. heap[p[2]].requests \in Seq(0..now)
        BY <1>3, HeldTimes
      <4>4. Recent(heap[p[2]].requests, Span(x)) = Count(heap[p[2]].requests, now - Span(x))
        BY <4>2, <4>3, SinceFacts DEF Recent
      <4>5. now - Span(x) \in (now - Minute)..MaxTime
        BY <4>2
      <4>6. Count(heap[p[2]].requests, now - Span(x)) <= Cardinality(Logged(p[1], now - Span(x)))
        BY <1>3, <4>5 DEF Accounted
      <4>7. Count(heap[p[2]].requests, now - Span(x)) \in Nat
        BY <4>3, LenProperties, AfterNext DEF Count
      <4>8. Cardinality(Logged(p[1], now - Span(x))) > Threshold(x)
        <5>1. Threshold(x) = Limit(x)
          BY <3>4 DEF Threshold, Bounding
        <5> QED
          BY <4>1, <4>2, <4>4, <4>6, <4>7, <5>1, LoggedFinite
      <4> QED
        BY <3>2, <4>8, LoggedEarns
    <3> QED
      BY <3>3, <3>4 DEF Counting
  <2> QED
    BY <2>1, <2>2
<1> QED
  BY <1>1, <1>4, WorkerFlags

LEMMA FetchFlags ==
  ASSUME FlagInv, Scalars, Addresses, NEW w \in Workers, Fetch(w)
  PROVE  FlagInv'
<1>1. UNCHANGED <<pc, req, signal, now, log>> /\ ptr[w] = 0
  BY DEF Fetch
<1>2. \A v : KeyOf(v)' = KeyOf(v)
  BY <1>1 DEF KeyOf
<1>3. \A v \in Workers : \A x \in Counting \cap signal'[v] : Earned(x, SourceKey(req'[v]))
  BY <1>1 DEF FlagInv
<1>4. now' \in Int /\ now' >= now
  BY <1>1 DEF Scalars
<1>5. CASE KeyOf(w) \in DOMAIN table
  <2>1. UNCHANGED <<heap, table>> /\ ptr' = [ptr EXCEPT ![w] = table[KeyOf(w)]]
    BY <1>5 DEF Fetch
  <2>2. <<KeyOf(w), table[KeyOf(w)]>> \in Holding
    BY <1>5, HoldingFacts
  <2>3. Holding' \subseteq Holding
    BY <1>2, <2>1, <2>2 DEF Holding, Addresses
  <2> QED
    BY <1>1, <1>3, <1>4, <2>1, <2>3, FlagsKept
<1>6. CASE KeyOf(w) \notin DOMAIN table
  <2> DEFINE new == Len(heap) + 1
             key == KeyOf(w)
  <2>1. /\ heap' = Append(heap, EmptyHistory)
        /\ table' = [k \in DOMAIN table \cup {key} |-> IF k = key THEN new ELSE table[k]]
        /\ ptr' = [ptr EXCEPT ![w] = new]
    BY <1>6 DEF Fetch
  <2>2. EmptyHistory \in HistoriesTo(now)
    BY DEF EmptyHistory, HistoriesTo
  <2>3. /\ new \notin DOMAIN heap
        /\ heap'[new] = EmptyHistory
        /\ \A a \in DOMAIN heap : heap'[a] = heap[a]
    BY <2>1, <2>2, HeapGrows DEF Addresses
  <2> HIDE DEF new
  <2>4. Holding' \subseteq Holding \cup {<<key, new>>}
    BY <1>2, <1>6, <2>1 DEF Holding, Addresses
  <2>5. \A p \in Holding : p[2] \in DOMAIN heap /\ p[2] # new
    BY <2>3, HoldingFacts
  <2> HIDE DEF key
  <2>6. \A p, q \in Holding' : p[2] = q[2] => p[1] = q[1]
    BY <2>4, <2>5 DEF FlagInv
  <2>7. /\ \A x, k : Earned(x, k)' <=> Earned(x, k)
        /\ \A k, c : Logged(k, c)' = Logged(k, c)
    BY <1>1, EarnedKept, LoggedKept
  <2>8. ASSUME NEW p \in Holding'
        PROVE  Accounted(p)'
    <3>1. CASE p \in Holding
      <4>1. Accounted(p) /\ heap'[p[2]] = heap[p[2]]
        BY <2>3, <2>5, <3>1 DEF FlagInv
      <4> QED
        BY <1>1, <2>7, <4>1 DEF Accounted, Count, After
    <3>2. CASE p = <<key, new>>
      <4>1. heap'[p[2]].requests = <<>>
        BY <2>3, <3>2 DEF EmptyHistory
      <4>2. ~(Len(heap'[p[2]].requests) > ProbeLimit)
        <5>1. ProbeLimit \in Nat /\ Len(<<>>) = 0
          BY DetectorAssumption
        <5> QED
          BY <4>1, <5>1
      <4>3. \A c : Count(heap'[p[2]].requests, c) = 0
        <5>1. \A c : After(<<>>, 0, c) = {}
          BY DEF After
        <5> QED
          BY <4>1, <5>1, FS_EmptySet DEF Count
      <4>4. \A c : Cardinality(Logged(p[1], c)) \in Nat
        BY LoggedFinite
      <4>5. \A c \in (now' - Minute)..MaxTime :
              Count(heap'[p[2]].requests, c) <= Cardinality(Logged(p[1], c)')
        BY <2>7, <4>3, <4>4
      <4> QED
        BY <4>2, <4>5 DEF Accounted, Count, After
    <3> QED
      BY <2>4, <3>1, <3>2
  <2>9. ASSUME NEW v \in Workers, NEW x \in Counting \cap signal'[v]
        PROVE  Earned(x, SourceKey(req[v]))'
    BY <1>1, <1>3, <2>7, <2>9 DEF Earned, UpTo, Threshold, Limit, Span
  <2> QED
    BY <1>1, <2>6, <2>8, <2>9 DEF FlagInv, Counting, Bounding
<1> QED
  BY <1>5, <1>6

\* What was earned before a request is tracked is so after it.
LEMMA EarnedStays ==
  ASSUME Scalars, NEW w \in Workers, Track(w)
  PROVE  /\ \A i \in DOMAIN log : /\ i \in DOMAIN log' /\ log'[i] = log[i]
                                  /\ \A x : UpTo(x, i)' = UpTo(x, i)
         /\ \A x, k : Earned(x, k) => Earned(x, k)'
<1>1. /\ DOMAIN log = 1..Len(log) /\ Len(log) \in Nat
      /\ DOMAIN log' = DOMAIN log \cup {Len(log) + 1}
      /\ \A i \in DOMAIN log : log'[i] = log[i]
  BY TrackLogs
<1>2. ASSUME NEW i \in DOMAIN log, NEW x
      PROVE  UpTo(x, i)' = UpTo(x, i)
  <2>1. \A m \in 1..i : m \in DOMAIN log
    BY <1>1
  <2> QED
    BY <1>1, <2>1 DEF UpTo, Span
<1> QED
  BY <1>1, <1>2 DEF Earned, Threshold, Limit

LEMMA TrackFlags ==
  ASSUME FlagInv, Scalars, Addresses, NEW w \in Workers, Track(w)
  PROVE  FlagInv'
<1>1. PICK n : n = Len(log) + 1
  OBVIOUS
<1>2. PICK h : h = <<SourceKey(req[w]), ptr[w]>>
  OBVIOUS
<1>3. /\ log'[n] = Entry(w) /\ n \in DOMAIN log'
      /\ DOMAIN log' = DOMAIN log \cup {n} /\ DOMAIN log' = 1..n
      /\ \A i \in DOMAIN log : log'[i] = log[i]
  <2>1. Len(log) \in Nat => 1..(Len(log) + 1) = (1..Len(log)) \cup {Len(log) + 1}
    OBVIOUS
  <2> QED
    BY <1>1, <2>1, TrackLogs
<1>4. /\ table' = table /\ now' = now /\ ptr[w] # 0 /\ ptr' = [ptr EXCEPT ![w] = 0]
      /\ pc[w] = "track" /\ signal'[w] = {}
      /\ \A v \in Workers : v # w => /\ pc'[v] = pc[v] /\ req'[v] = req[v]
                                     /\ signal'[v] = signal[v]
  BY DEF Track, Release, Scalars, Addresses, Locking
<1>5. h \in Holding /\ h[1] = SourceKey(req[w]) /\ h[2] = ptr[w]
  BY <1>2, <1>4, HoldingFacts DEF KeyOf
<1>6. Holding' \subseteq Holding
  <2>1. \A v \in Workers : ptr'[v] # 0 => ptr'[v] = ptr[v] /\ KeyOf(v)' = KeyOf(v)
    BY <1>4 DEF KeyOf, Addresses
  <2> QED
    BY <1>4, <2>1, HoldingShrinks
<1>7. /\ now \in Int /\ Minute \in Nat /\ Minute > 0 /\ MaxTime \in Nat /\ now <= MaxTime
      /\ now - Minute \in (now - Minute)..MaxTime
  BY TimesFacts DEF Scalars
<1>8. /\ Len(heap'[h[2]].requests) = Count(heap[h[2]].requests, now - Minute) + 1
      /\ \A c \in (now - Minute)..MaxTime :
           /\ Count(heap[h[2]].requests, c) \in Nat
           /\ Count(heap'[h[2]].requests, c) =
                Count(heap[h[2]].requests, c) + (IF now > c THEN 1 ELSE 0)
      /\ \A a \in DOMAIN heap : a # h[2] => heap'[a] = heap[a]
  BY <1>5, TrackedTimes
<1>9. \A k, c : /\ Cardinality(Logged(k, c)) \in Nat
                /\ Cardinality(Logged(k, c)') =
                     Cardinality(Logged(k, c)) + (IF k = h[1] /\ now > c THEN 1 ELSE 0)
  BY <1>5, LoggedGrows, LoggedFinite
<1>10. Accounted(h)'
  <2>1. \A c \in (now - Minute)..MaxTime :
          Count(heap[h[2]].requests, c) <= Cardinality(Logged(h[1], c))
    BY <1>5 DEF FlagInv, Accounted
  <2>2. \A c \in (now - Minute)..MaxTime :
          Count(heap'[h[2]].requests, c) <= Cardinality(Logged(h[1], c)')
    BY <1>8, <1>9, <2>1
  <2>3. Len(heap'[h[2]].requests) <= Cardinality(Logged(h[1], now - Minute)')
    BY <1>4, <1>7, <1>8, <1>9, <2>1
  <2>4. Logged(h[1], now - Minute)' = UpTo("methods", n)'
    BY <1>3, <1>4, <1>5 DEF Logged, UpTo, Entry, Span
  <2>5. Len(heap'[h[2]].requests) > ProbeLimit => Earned("methods", h[1])'
    <3>1. /\ Cardinality(Logged(h[1], now - Minute)') \in Nat
          /\ Len(heap'[h[2]].requests) \in Nat /\ ProbeLimit \in Nat
      <4>1. ProbeLimit \in Nat
        BY DetectorAssumption
      <4>2. PICK c : c = now - Minute
        OBVIOUS
      <4>3. Cardinality(Logged(h[1], c)') \in Nat
        BY <1>9
      <4>4. Len(heap'[h[2]].requests) \in Nat
        BY <1>7, <1>8, <4>2
      <4>5. Logged(h[1], now - Minute)' = Logged(h[1], c)'
        BY <1>4, <4>2 DEF Logged
      <4> QED
        BY <4>1, <4>3, <4>4, <4>5
    <3>2. Len(heap'[h[2]].requests) > ProbeLimit
            => Cardinality(UpTo("methods", n)') > ProbeLimit
      BY <2>3, <2>4, <3>1
    <3> QED
      BY <1>3, <1>5, <3>2 DEF Earned, Entry, Threshold
  <2> QED
    BY <1>4, <2>2, <2>5 DEF Accounted, Count, After
<1>11. ASSUME NEW p \in Holding'
       PROVE  Accounted(p)'
  <2>1. p \in Holding /\ p[2] \in DOMAIN heap /\ Accounted(p)
    BY <1>6, <1>11, HoldingFacts DEF FlagInv
  <2>2. CASE p[2] = h[2]
    <3>1. p[1] = h[1]
      BY <1>5, <2>1, <2>2 DEF FlagInv
    <3> QED
      BY <1>10, <2>2, <3>1 DEF Accounted
  <2>3. CASE p[2] # h[2]
    <3>1. heap'[p[2]] = heap[p[2]]
      BY <1>8, <2>1, <2>3
    <3>2. heap[p[2]].requests \in Seq(0..now)
      BY <2>1, HeldTimes
    <3>3. \A c : Count(heap[p[2]].requests, c) \in Nat
      BY <3>2, LenProperties, AfterNext DEF Count
    <3>4. \A c \in (now - Minute)..MaxTime :
            Count(heap[p[2]].requests, c) <= Cardinality(Logged(p[1], c))
      BY <2>1 DEF Accounted
    <3>5. \A c \in (now - Minute)..MaxTime :
            Count(heap'[p[2]].requests, c) <= Cardinality(Logged(p[1], c)')
      BY <1>9, <3>1, <3>3, <3>4
    <3>6. Len(heap'[p[2]].requests) > ProbeLimit => Earned("methods", p[1])'
      BY <2>1, <3>1, EarnedStays DEF Accounted
    <3> QED
      BY <1>4, <3>5, <3>6 DEF Accounted, Count, After
  <2> QED
    BY <2>2, <2>3
<1>12. \A i \in DOMAIN log' : log'[i].time <= now'
  BY <1>3, <1>4, <1>7 DEF FlagInv, Entry
<1>13. \A p, q \in Holding' : p[2] = q[2] => p[1] = q[1]
  BY <1>6 DEF FlagInv
<1>14. ASSUME NEW v \in Workers, NEW x \in Counting \cap signal'[v]
       PROVE  Earned(x, SourceKey(req[v]))'
  <2>1. PICK k : k = SourceKey(req[v])
    OBVIOUS
  <2>2. SourceKey(req'[v]) = k /\ Earned(x, k)
    BY <1>4, <1>14, <2>1 DEF FlagInv
  <2>3. Earned(x, k)'
    BY <2>2, EarnedStays
  <2> QED
    BY <2>2, <2>3 DEF Earned
<1> QED
  BY <1>11, <1>12, <1>13, <1>14 DEF FlagInv, Counting, Bounding

\* TrackFailedAuth writes the other list of the history.
LEMMA FailureFlags ==
  ASSUME FlagInv, Scalars, Addresses, NEW w \in Workers, TrackFailure(w)
  PROVE  FlagInv'
<1>1. /\ UNCHANGED <<table, log, signal, now>>
      /\ pc[w] = "failure" /\ ptr' = [ptr EXCEPT ![w] = 0]
      /\ \A v \in Workers : v # w => pc'[v] = pc[v] /\ req'[v] = req[v]
  BY DEF TrackFailure, Release, Scalars
<1>2. \A v \in Workers : ptr'[v] # 0 => ptr'[v] = ptr[v] /\ KeyOf(v)' = KeyOf(v)
  BY <1>1 DEF KeyOf, Addresses
<1>3. Holding' \subseteq Holding
  BY <1>1, <1>2, HoldingShrinks
<1>4. \A a \in DOMAIN heap : heap'[a].requests = heap[a].requests
  <2>1. /\ ptr[w] \in DOMAIN heap /\ heap[ptr[w]] \in HistoriesTo(now)
        /\ heap' = [heap EXCEPT ![ptr[w]] = Rewritten(w)]
    BY ReturnFacts
  <2>2. Rewritten(w).requests = heap[ptr[w]].requests
    BY <1>1, <2>1 DEF Rewritten, HistoriesTo
  <2> QED
    BY <2>1, <2>2
<1>5. ASSUME NEW v \in Workers, NEW x \in Counting \cap signal'[v]
      PROVE  Earned(x, SourceKey(req'[v]))
  <2>1. v # w
    BY <1>1, <1>5 DEF Scalars
  <2> QED
    BY <1>1, <1>5, <2>1 DEF FlagInv
<1>6. now' \in Int /\ now' >= now
  BY <1>1 DEF Scalars
<1> QED
  BY <1>1, <1>3, <1>4, <1>5, <1>6, FlagsKept

\* A cleaner drops only what is older than the retention, and that is at
\* least a minute.
LEMMA PruneFlags ==
  ASSUME FlagInv, Scalars, Addresses, Sweeping, NEW c, CleanPrune(c)
  PROVE  FlagInv'
<1>1. UNCHANGED <<table, pc, req, ptr, signal, now, log>>
  BY DEF CleanPrune, workerVars
<1>2. PICK k \in picked :
        heap' = [heap EXCEPT ![table[k]].requests = Since(@, Retention, started),
                             ![table[k]].failed = Since(@, Retention, started)]
  BY DEF CleanPrune
<1>3. PICK p : p = table[k]
  OBVIOUS
<1> DEFINE old == heap[p].requests
           new == heap'[p].requests
<1>4. p \in DOMAIN heap /\ heap[p] \in HistoriesTo(now) /\ old \in Seq(0..now)
  <2>1. p \in DOMAIN heap
    BY <1>3 DEF Addresses, Sweeping
  <2> QED
    BY <2>1, HeldTimes
<1>5. new = Since(old, Retention, started)
  BY <1>2, <1>3, <1>4 DEF HistoriesTo
<1>6. \A a \in DOMAIN heap : a # p => heap'[a] = heap[a]
  BY <1>2, <1>3
<1> HIDE DEF old, new
<1>7. /\ now \in Nat /\ started \in Int /\ started <= now /\ 0..now \in SUBSET Int
      /\ Minute \in Int /\ Retention \in Int /\ Minute <= Retention /\ MaxTime \in Int
  BY TimesFacts DEF Scalars, Sweeping
<1>8. /\ Len(new) = Count(old, started - Retention)
      /\ \A d \in Int : d >= started - Retention => Count(new, d) = Count(old, d)
  BY <1>4, <1>5, <1>7, SinceFacts
<1>9. \A d \in (now - Minute)..MaxTime : Count(new, d) = Count(old, d)
  <2>1. \A d \in (now - Minute)..MaxTime : d \in Int /\ d >= started - Retention
    BY <1>7
  <2> QED
    BY <1>8, <2>1
<1>10. Len(new) > ProbeLimit => Len(old) > ProbeLimit
  <2>1. Len(old) \in Nat
    BY <1>4, LenProperties
  <2>2. IsFiniteSet(1..Len(old)) /\ Cardinality(1..Len(old)) = Len(old)
    <3>1. \A n \in Nat : IsFiniteSet(1..n) /\ Cardinality(1..n) = n
      <4> TAKE n \in Nat
      <4>1. 1 \in Int /\ n \in Int
        OBVIOUS
      <4>2. IsFiniteSet(1..n) /\ Cardinality(1..n) = IF 1 > n THEN 0 ELSE n - 1 + 1
        BY <4>1, FS_Interval
      <4> QED
        BY <4>2
    <3> QED
      BY <2>1, <3>1
  <2>3. After(old, Len(old), started - Retention) \subseteq 1..Len(old)
    BY DEF After
  <2>4. Len(new) <= Len(old) /\ Len(new) \in Nat
    BY <1>8, <2>2, <2>3, FS_Subset, FS_CardinalityType DEF Count
  <2>5. ProbeLimit \in Nat
    BY DetectorAssumption
  <2> QED
    BY <2>1, <2>4, <2>5
<1>11. Holding' \subseteq Holding
  <2>1. \A v \in Workers : ptr'[v] = ptr[v] /\ KeyOf(v)' = KeyOf(v)
    BY <1>1 DEF KeyOf
  <2> QED
    BY <1>1, <2>1, HoldingShrinks
<1>12. \A w \in Workers : \A x \in Counting \cap signal'[w] : Earned(x, SourceKey(req'[w]))
  BY <1>1 DEF FlagInv
<1>13. now' \in Int /\ now' >= now
  BY <1>1, <1>7
<1>14. \A a \in DOMAIN heap :
         \/ heap'[a].requests = heap[a].requests
         \/ /\ Len(heap'[a].requests) > ProbeLimit => Len(heap[a].requests) > ProbeLimit
            /\ \A d \in (now - Minute)..MaxTime :
                 Count(heap'[a].requests, d) = Count(heap[a].requests, d)
  BY <1>6, <1>9, <1>10 DEF old, new
<1> QED
  BY <1>1, <1>11, <1>12, <1>13, <1>14, FlagsKept

\* Steps that change no history, and no worker: those of a cleaner that does
\* not prune, and the clock.
LEMMA QuietFlags ==
  ASSUME FlagInv, Scalars, Addresses, UNCHANGED <<heap, pc, req, ptr, signal, log>>,
         now' \in Int, now' >= now,
         \A k \in DOMAIN table' : k \in DOMAIN table /\ table'[k] = table[k]
  PROVE  FlagInv'
<1>1. \A v \in Workers : ptr'[v] = ptr[v] /\ KeyOf(v)' = KeyOf(v)
  BY DEF KeyOf
<1>2. Holding' \subseteq Holding
  BY <1>1, HoldingShrinks
<1>3. \A w \in Workers : \A x \in Counting \cap signal'[w] : Earned(x, SourceKey(req'[w]))
  BY DEF FlagInv
<1> QED
  BY <1>2, <1>3, FlagsKept

LEMMA NextFlags ==
  ASSUME TypeInv, FlagInv, [Next]_vars
  PROVE  FlagInv'
<1>1. Scalars /\ Addresses /\ Sweeping
  BY TypeParts
<1>2. now \in Int
  BY <1>1 DEF Scalars
<1>3. ASSUME NEW c \in Cleaners, CleanStart(c) \/ CleanDelete(c) \/ CleanEnd(c)
      PROVE  FlagInv'
  <2>1. UNCHANGED <<heap, pc, req, ptr, signal, now, log>>
        /\ \A k \in DOMAIN table' : k \in DOMAIN table /\ table'[k] = table[k]
    BY <1>3 DEF CleanStart, CleanDelete, CleanEnd, workerVars
  <2> QED
    BY <1>1, <1>2, <2>1, QuietFlags
<1>4. ASSUME Tick \/ Still
      PROVE  FlagInv'
  <2>1. UNCHANGED <<heap, table, pc, req, ptr, signal, log>> /\ now' \in {now, now + 1}
    BY <1>4 DEF Tick, Still, workerVars
  <2> QED
    BY <1>1, <1>2, <2>1, QuietFlags
<1> QED
  BY <1>1, <1>3, <1>4, StillSteps, ArriveFlags, FetchFlags, CheckFlags, TrackFlags,
     FailureFlags, PruneFlags
     DEF Next, Work, Sweep, CheckStep

LEMMA TrackEarned ==
  ASSUME FlagInv, FlagsEarned, Scalars, NEW w \in Workers, Track(w)
  PROVE  FlagsEarned'
<1>1. PICK n : n = Len(log) + 1
  OBVIOUS
<1>2. /\ Len(log) \in Nat /\ DOMAIN log = 1..Len(log)
      /\ DOMAIN log' = DOMAIN log \cup {n} /\ log'[n] = Entry(w)
  BY <1>1, TrackLogs
<1>3. \A i \in DOMAIN log : /\ i \in DOMAIN log' /\ log'[i] = log[i]
                            /\ \A x : UpTo(x, i)' = UpTo(x, i)
  BY EarnedStays
<1>4. ASSUME NEW j \in DOMAIN log', NEW x \in Counting \cap log'[j].signal
      PROVE  \E i \in 1..(j - 1) :
               log'[i].key = log'[j].key /\ Cardinality(UpTo(x, i)') > Threshold(x)
  <2>1. CASE j \in DOMAIN log
    <3>1. PICK i \in 1..(j - 1) :
            log[i].key = log[j].key /\ Cardinality(UpTo(x, i)) > Threshold(x)
      BY <1>3, <1>4, <2>1 DEF FlagsEarned
    <3>2. i \in DOMAIN log
      BY <1>2, <2>1, <3>1
    <3> QED
      BY <1>3, <2>1, <3>1, <3>2
  <2>2. CASE j = n
    <3>1. x \in Counting \cap signal[w] /\ log'[j].key = SourceKey(req[w])
      BY <1>2, <1>4, <2>2 DEF Entry
    <3>2. Earned(x, SourceKey(req[w]))
      BY <3>1 DEF FlagInv
    <3>3. PICK i \in DOMAIN log :
            log[i].key = SourceKey(req[w]) /\ Cardinality(UpTo(x, i)) > Threshold(x)
      BY <3>2 DEF Earned
    <3>4. i \in 1..(j - 1)
      BY <1>1, <1>2, <2>2
    <3> QED
      BY <1>3, <3>1, <3>3, <3>4
  <2> QED
    BY <1>2, <1>4, <2>1, <2>2
<1> QED
  BY <1>4 DEF FlagsEarned, Counting, Bounding, Threshold, Limit

LEMMA NextEarned ==
  ASSUME TypeInv, FlagInv, FlagsEarned, [Next]_vars
  PROVE  FlagsEarned'
<1>1. Scalars
  BY TypeParts
<1>2. log' = log \/ \E w \in Workers : Track(w)
  BY DEF Next, Work, Arrive, ArriveFailure, Fetch, Lock, CheckRate, CheckVelocity, CheckMethods,
         CheckBots, Check, TrackFailure, CleanStart, Sweep, CleanPick, CleanPrune, CleanDelete,
         CleanEnd,
         Tick, vars, workerVars
<1>3. CASE log' = log
  BY <1>3 DEF FlagsEarned, UpTo, Counting, Bounding, Threshold, Limit, Span
<1> QED
  BY <1>1, <1>2, <1>3, TrackEarned

LEMMA FlagInvariant == Spec => [](TypeInv /\ FlagInv /\ FlagsEarned)
<1>1. Init => TypeInv /\ FlagInv /\ FlagsEarned
  BY InitTypes, InitFlags DEF Init, FlagsEarned
<1>2. ASSUME TypeInv, FlagInv, FlagsEarned, [Next]_vars
      PROVE  (TypeInv /\ FlagInv /\ FlagsEarned)'
  BY <1>2, NextTypes, NextFlags, NextEarned
<1> QED
  BY <1>1, <1>2, PTL DEF Spec

\* Whatever the goroutines and the cleaners do, a request that the rate, the
\* bots or the methods check has flagged comes after more requests of its
\* source than the threshold, all tracked within the span of the check: no
\* slow source is flagged, and none for what another has sent (abuse.go:247,
\* 349, 408).
THEOREM FlagsAreEarned == Spec => []FlagsEarned
BY FlagInvariant, PTL

\* The part of it about the methods check, whose list nobody has pruned since
\* the source was last tracked: entries of any age count, but they are there
\* only if the source was fast when it was tracked.
THEOREM ProbeFlagsJustified == Spec => []ProbeFlagJustified
<1>1. ASSUME FlagsEarned PROVE ProbeFlagJustified
  <2> SUFFICES ASSUME NEW j \in DOMAIN log, "methods" \in log[j].signal
               PROVE  \E i \in 1..(j - 1) :
                        log[i].key = log[j].key /\ Cardinality(MinuteOf(i)) > ProbeLimit
    BY DEF ProbeFlagJustified
  <2>1. PICK i \in 1..(j - 1) :
          /\ log[i].key = log[j].key
          /\ Cardinality(UpTo("methods", i)) > Threshold("methods")
    BY <1>1 DEF FlagsEarned, Counting
  <2>2. UpTo("methods", i) = MinuteOf(i) /\ Threshold("methods") = ProbeLimit
    BY DEF UpTo, MinuteOf, Span, Threshold
  <2> QED
    BY <2>1, <2>2
<1> QED
  BY <1>1, FlagsAreEarned, PTL

\* A history may be lost to a cleaner, but it never tells of more requests in
\* the last minute than were tracked: none is counted twice.
NothingCountedTwice ==
  \A k : HeldRecently(k) <= Cardinality(LoggedRecently(k))

THEOREM NoDoubleCounting == Spec => []NothingCountedTwice
<1>1. ASSUME TypeInv, FlagInv PROVE NothingCountedTwice
  <2> SUFFICES ASSUME NEW k PROVE HeldRecently(k) <= Cardinality(LoggedRecently(k))
    BY DEF NothingCountedTwice
  <2>1. Scalars /\ Addresses
    BY <1>1, TypeParts
  <2>2. LoggedRecently(k) = Logged(k, now - Minute)
    BY DEF LoggedRecently, Logged
  <2>3. Cardinality(LoggedRecently(k)) \in Nat
    BY <2>1, <2>2, LoggedFinite
  <2>4. CASE k \notin DOMAIN table
    BY <2>3, <2>4 DEF HeldRecently
  <2>5. CASE k \in DOMAIN table
    <3>1. PICK p : p = <<k, table[k]>>
      OBVIOUS
    <3>2. p \in Holding /\ p[1] = k /\ p[2] = table[k] /\ p[2] \in DOMAIN heap /\ Accounted(p)
      BY <1>1, <2>1, <2>5, <3>1, HoldingFacts DEF FlagInv
    <3>3. /\ now \in Nat /\ now <= MaxTime /\ 0..now \in SUBSET Int
          /\ Minute \in Nat /\ MaxTime \in Nat /\ Minute \in Int /\ now \in Int
      BY <2>1, TimesFacts DEF Scalars
    <3>4. heap[p[2]].requests \in Seq(0..now)
      BY <2>1, <3>2, HeldTimes
    <3>5. Recent(heap[p[2]].requests, Minute) = Count(heap[p[2]].requests, now - Minute)
      BY <3>3, <3>4, SinceFacts DEF Recent
    <3>6. now - Minute \in (now - Minute)..MaxTime
      BY <3>3
    <3>7. Count(heap[p[2]].requests, now - Minute) <= Cardinality(Logged(k, now - Minute))
      BY <3>2, <3>6 DEF Accounted
    <3> QED
      BY <2>2, <2>5, <3>2, <3>5, <3>7 DEF HeldRecently
  <2> QED
    BY <2>4, <2>5
<1> QED
  BY <1>1, FlagInvariant, PTL

-----------------------------------------------------------------------------
(* Two checks that decide the same for every request                       *)

\* The requests that are tracked carry the payload check's detection.
PayloadFlagged ==
  /\ \A w \in Workers : pc[w] \in Histories \ {"failure"} => "payload" \in signal[w]
  /\ \A j \in DOMAIN log : "payload" \in log[j].signal

\* The command pattern has an empty alternative, so it matches any text and
\* Detect lets no request pass, whatever it holds and whatever the words of
\* the other patterns are (abuse.go:77): what run detector_pattern shows of
\* one request, for all of them, also while cleaners run.
THEOREM EveryRequestFlagged ==
  Spec => [](\A j \in DOMAIN log : log[j].signal # {})
<1>1. Init => PayloadFlagged
  BY DEF Init, PayloadFlagged, Histories
<1>2. \A r : "payload" \in ContentReasons(r)
  BY DEF ContentReasons, PayloadInjection, Injected, Matches, CommandWords
<1>3. ASSUME TypeInv, PayloadFlagged, [Next]_vars
      PROVE  PayloadFlagged'
  <2>1. Scalars
    BY <1>3, TypeParts
  <2>2. ASSUME NEW w \in Workers, Arrive(w) \/ ArriveFailure(w)
        PROVE  PayloadFlagged'
    BY <1>2, <1>3, <2>1, <2>2
       DEF Arrive, ArriveFailure, PayloadFlagged, Scalars, Histories
  <2>3. ASSUME NEW w \in Workers, Fetch(w)
        PROVE  PayloadFlagged'
    BY <1>3, <2>3 DEF Fetch, PayloadFlagged
  <2>4. ASSUME NEW w \in Workers, CheckStep(w)
        PROVE  PayloadFlagged'
    BY <1>3, <2>1, <2>4
       DEF CheckStep, CheckRate, CheckVelocity, CheckMethods, CheckBots, Check,
           PayloadFlagged, Scalars, Histories
  <2>5. ASSUME NEW w \in Workers, Track(w)
        PROVE  PayloadFlagged'
    <3>1. "payload" \in Entry(w).signal
      BY <1>3, <2>5 DEF Track, PayloadFlagged, Entry, Histories
    <3>2. \A j \in DOMAIN log' : "payload" \in log'[j].signal
      BY <1>3, <2>1, <2>5, <3>1, TrackLogs DEF PayloadFlagged
    <3> QED
      BY <1>3, <2>1, <2>5, <3>2 DEF Track, PayloadFlagged, Scalars, Histories
  <2>6. ASSUME NEW w \in Workers, TrackFailure(w)
        PROVE  PayloadFlagged'
    BY <1>3, <2>1, <2>6 DEF TrackFailure, PayloadFlagged, Scalars, Histories
  <2>7. ASSUME NEW c \in Cleaners, CleanStart(c) \/ Sweep(c)
        PROVE  PayloadFlagged'
    BY <1>3, <2>7 DEF CleanStart, Sweep, CleanPick, CleanPrune, CleanDelete, CleanEnd,
                      workerVars, PayloadFlagged
  <2>8. ASSUME Tick \/ Still
        PROVE  PayloadFlagged'
    BY <1>3, <2>8 DEF Tick, Still, workerVars, PayloadFlagged
  <2> QED
    BY <1>3, <2>2, <2>3, <2>4, <2>5, <2>6, <2>7, <2>8, StillSteps DEF Next, Work, CheckStep
<1>4. PayloadFlagged => \A j \in DOMAIN log : log[j].signal # {}
  BY DEF PayloadFlagged
<1> QED
  BY <1>1, <1>3, <1>4, TypesInvariant, PTL DEF Spec

\* No request that is handled or tracked has been detected by the velocity
\* check.
VelocitySilent ==
  /\ \A w \in Workers : "velocity" \notin signal[w]
  /\ \A j \in DOMAIN log : "velocity" \notin log[j].signal

LEMMA VelocityListEmpty ==
  ASSUME \A r \in Requests : r.tenant # "velocity",
         Scalars, Addresses, Recorded, NEW w \in Workers,
         ptr[w] # 0, pc[w] = "velocity"
  PROVE  Recent(History(w).requests, Minute) = 0
<1> DEFINE key == VelocityKey(req[w])
<1>1. key \in DOMAIN table /\ ptr[w] = table[key]
  BY DEF Recorded, KeyOf
<1>2. Recent(List(key), Minute) = Cardinality(Logged(key, now - Minute))
  BY <1>1, RecentIsLogged, TimesFacts
<1>3. Logged(key, now - Minute) = {}
  <2>1. ASSUME NEW i \in DOMAIN log PROVE log[i].key # key
    <3>1. log[i] \in Entries
      BY <2>1, LenProperties, ElementOfSeq DEF Scalars
    <3>2. PICK r \in Requests : log[i].key = SourceKey(r)
      BY <3>1 DEF Entries
    <3>3. log[i].key[1] = r.tenant /\ key[1] = "velocity"
      BY <3>2 DEF SourceKey, VelocityKey
    <3> QED
      BY <3>3
  <2> QED
    BY <2>1 DEF Logged
<1> QED
  BY <1>1, <1>2, <1>3, FS_EmptySet DEF History, List

\* Requests are recorded under the key of their tenant and address and counted
\* under one of the address alone, so the velocity check detects nothing,
\* however fast an address sends (abuse.go:270-280, 494-517): what run
\* detector_velocity shows of one threshold, for all of them.  A tenant by the
\* name of "velocity" would have its keys taken for those of the check.
THEOREM VelocityNeverDetects ==
  ASSUME Cleaners = {}, \A r \in Requests : r.tenant # "velocity"
  PROVE  Spec => []VelocitySilent
<1>1. Init => VelocitySilent
  BY DEF Init, VelocitySilent
<1>2. ASSUME QuietInv, VelocitySilent, [Next]_vars
      PROVE  VelocitySilent'
  <2>1. Scalars /\ Addresses /\ Recorded
    BY <1>2 DEF QuietInv
  <2>2. ASSUME NEW w \in Workers, Arrive(w) \/ ArriveFailure(w)
        PROVE  VelocitySilent'
    BY <1>2, <2>1, <2>2
       DEF Arrive, ArriveFailure, VelocitySilent, Scalars, ContentReasons
  <2>3. ASSUME NEW w \in Workers, Fetch(w)
        PROVE  VelocitySilent'
    BY <1>2, <2>3 DEF Fetch, VelocitySilent
  <2>4. ASSUME NEW w \in Workers, CheckStep(w)
        PROVE  VelocitySilent'
    <3>1. pc[w] = "velocity" => ~(Recent(History(w).requests, Minute) > Velocity)
      <4>1. Velocity \in Nat /\ ptr[w] # 0
        BY <2>1, <2>4, DetectorAssumption, CheckFacts DEF Addresses, Locking
      <4> QED
        BY <2>1, <4>1, VelocityListEmpty
    <3> QED
      BY <1>2, <2>1, <2>4, <3>1
         DEF CheckStep, CheckRate, CheckVelocity, CheckMethods, CheckBots, Check,
             VelocitySilent, Scalars
  <2>5. ASSUME NEW w \in Workers, Track(w)
        PROVE  VelocitySilent'
    <3>1. "velocity" \notin Entry(w).signal
      BY <1>2 DEF VelocitySilent, Entry
    <3>2. \A j \in DOMAIN log' : "velocity" \notin log'[j].signal
      BY <1>2, <2>1, <2>5, <3>1, TrackLogs DEF VelocitySilent
    <3> QED
      BY <1>2, <2>1, <2>5, <3>2 DEF Track, VelocitySilent, Scalars
  <2>6. ASSUME NEW w \in Workers, TrackFailure(w)
        PROVE  VelocitySilent'
    BY <1>2, <2>6 DEF TrackFailure, VelocitySilent
  <2>7. ASSUME Tick \/ Still
        PROVE  VelocitySilent'
    BY <1>2, <2>7 DEF Tick, Still, workerVars, VelocitySilent
  <2> QED
    BY <1>2, <2>2, <2>3, <2>4, <2>5, <2>6, <2>7, StepKinds
<1>3. Spec => []QuietInv
  BY RecordInvariant, PTL DEF QuietInv
<1> QED
  BY <1>1, <1>2, <1>3, PTL DEF Spec
=============================================================================
