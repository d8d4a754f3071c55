--------------------------- MODULE AbuseDetector ---------------------------
(***************************************************************************)
(* cmd/edge-service/abuse.go: the request histories behind Detect,         *)
(* TrackFailedAuth and CleanupOldData.                                     *)
(*                                                                         *)
(* Every use of a history is two critical sections: getOrCreateHistory     *)
(* finds or adds it under ad.mu and gives the lock back, then the caller   *)
(* works on it under the history's own mu.  A worker keeps the pointer in  *)
(* between, so a history can be deleted from the map while it is used:     *)
(* histories live in a heap, the map holds addresses.  CleanupOldData      *)
(* holds ad.mu from its first key to its last and takes each history's mu  *)
(* for the pruning alone, not for the test that deletes it.                *)
(*                                                                         *)
(* A section that waits for nothing is one step: getOrCreateHistory under  *)
(* ad.mu, and a cleaner's pruning under a history's mu.  A worker takes a  *)
(* history's mu in one step and gives it back in the next, with its work   *)
(* on the history, so that a cleaner that holds ad.mu can wait for it.     *)
(* SuspiciousCount and LastRequest are never read and are left out.        *)
(***************************************************************************)
EXTENDS RequestChecks, Sequences

CONSTANTS
  Workers,        \* the goroutines that can be in the detector at once
  Cleaners,       \* callers of CleanupOldData (production: none)
  FailureCallers, \* the workers that also call TrackFailedAuth (production: none)
  Requests,       \* the requests that arrive
  Free,           \* ad.mu when no cleaner holds it
  Second, Minute, \* their lengths, in ticks of the clock
  Retention,      \* the five minutes of CleanupOldData
  MaxPerSecond,   \* MaxRequestsPerSecond
  MaxPerMinute,   \* the 50 requests of checkBotPatterns
  Velocity,       \* VelocityThreshold
  ProbeLimit,     \* the 5 requests of checkHTTPMethods
  MaxTime,        \* bound of the clock
  MaxCalls        \* bound of the calls that arrive

ASSUME DetectorAssumption ==
  /\ IsFiniteSet(Workers)
  /\ Workers \cap Cleaners = {} /\ Free \notin Cleaners
  /\ FailureCallers \subseteq Workers
  /\ Second \in Nat \ {0} /\ Second <= Minute /\ Minute <= Retention
  /\ {Minute, Retention} \subseteq Nat
  /\ {MaxPerSecond, MaxPerMinute, Velocity, ProbeLimit} \subseteq Nat
  /\ {MaxTime, MaxCalls} \subseteq Nat

VARIABLES
  heap,      \* address |-> history
  table,     \* ad.requestHistory: key |-> address
  adMu,      \* the cleaner that holds ad.mu, or Free
  pc,        \* worker |-> the check it is at
  req,       \* worker |-> the request it looks at
  ptr,       \* worker |-> address of the history it has fetched, 0 for none
  locked,    \* the workers that hold the mu of the history they have fetched
  signal,    \* worker |-> the checks that have detected abuse so far
  started,   \* when the cleaner read the clock, 0 if there is none
  todo,      \* the keys the cleaner has still to visit
  picked,    \* the one of them whose history's mu it waits for, if any
  pruned,    \* the one of them whose history it has pruned, if any
  now,       \* the clock
  calls,     \* number of calls so far
  log        \* history: the requests tracked, in order

workerVars == <<pc, req, ptr, locked, signal>>
cleanVars == <<adMu, started, todo, picked, pruned>>
vars == <<heap, table, workerVars, cleanVars, now, calls, log>>

Histories == {"rate", "velocity", "methods", "bots", "track", "failure"}
Checks == {"size", "headers", "payload", "agent", "path",
           "rate", "velocity", "methods", "bots"}

EmptyHistory == [requests |-> <<>>, failed |-> <<>>]

NoRequest == [tenant |-> "none", ip |-> "none"]

\* The entries of a list of times that lie within a span before time t: one
\* pass over the list appends them to an empty one.
Since(times, span, t) ==
  LET valid[i \in 0..Len(times)] ==
        IF i = 0 THEN <<>>
        ELSE IF times[i] > t - span THEN Append(valid[i - 1], times[i])
        ELSE valid[i - 1]
  IN valid[Len(times)]

Recent(times, span) == Len(Since(times, span, now))

Init ==
  /\ heap = <<>>
  /\ table = [k \in {} |-> 0]
  /\ adMu = Free /\ started = 0 /\ todo = {} /\ picked = {} /\ pruned = {}
  /\ pc = [w \in Workers |-> "idle"]
  /\ req = [w \in Workers |-> NoRequest]
  /\ ptr = [w \in Workers |-> 0] /\ locked = {}
  /\ signal = [w \in Workers |-> {}]
  /\ now = 0 /\ calls = 0
  /\ log = <<>>

-----------------------------------------------------------------------------
(* A worker                                                                *)

\* A call of Detect.  The checks on the request alone read no shared state.
Arrive(w) ==
  /\ pc[w] = "idle" /\ calls < MaxCalls
  /\ \E r \in Requests :
       /\ req' = [req EXCEPT ![w] = r]
       /\ signal' = [signal EXCEPT ![w] = ContentReasons(r)]
  /\ pc' = [pc EXCEPT ![w] = "rate"]
  /\ calls' = calls + 1
  /\ UNCHANGED <<heap, table, ptr, locked, cleanVars, now, log>>

\* A call of TrackFailedAuth.
ArriveFailure(w) ==
  /\ w \in FailureCallers
  /\ pc[w] = "idle" /\ calls < MaxCalls
  /\ \E r \in Requests : req' = [req EXCEPT ![w] = r]
  /\ pc' = [pc EXCEPT ![w] = "failure"]
  /\ calls' = calls + 1
  /\ UNCHANGED <<heap, table, ptr, locked, signal, cleanVars, now, log>>

KeyOf(w) == IF pc[w] = "velocity" THEN VelocityKey(req[w]) ELSE SourceKey(req[w])

\* Faulty variant: a getOrCreateHistory that does not look for the key first.
FetchFresh(w) ==
  /\ pc[w] \in Histories /\ ptr[w] = 0
  /\ adMu = Free
  /\ heap' = Append(heap, EmptyHistory)
  /\ table' = [k \in DOMAIN table \cup {KeyOf(w)} |->
                 IF k = KeyOf(w) THEN Len(heap) + 1 ELSE table[k]]
  /\ ptr' = [ptr EXCEPT ![w] = Len(heap) + 1]
  /\ UNCHANGED <<pc, req, locked, signal, cleanVars, now, calls, log>>

\* getOrCreateHistory: the history of the key, a new one if there is none.
Fetch(w) ==
  /\ pc[w] \in Histories /\ ptr[w] = 0
  /\ adMu = Free
  /\ IF KeyOf(w) \in DOMAIN table
       THEN /\ ptr' = [ptr EXCEPT ![w] = table[KeyOf(w)]]
            /\ UNCHANGED <<heap, table>>
       ELSE /\ heap' = Append(heap, EmptyHistory)
            /\ table' = [k \in DOMAIN table \cup {KeyOf(w)} |->
                           IF k = KeyOf(w) THEN Len(heap) + 1 ELSE table[k]]
            /\ ptr' = [ptr EXCEPT ![w] = Len(heap) + 1]
  /\ UNCHANGED <<pc, req, locked, signal, cleanVars, now, calls, log>>

History(w) == heap[ptr[w]]

\* The worker that uses the history at an address, if one does.
Users(a) == {w \in locked : ptr[w] = a}

\* history.mu.Lock() on the history it has fetched.
Lock(w) ==
  /\ ptr[w] # 0 /\ w \notin locked
  /\ Users(ptr[w]) = {}
  /\ locked' = locked \cup {w}
  /\ UNCHANGED <<heap, table, pc, req, ptr, signal, cleanVars, now, calls, log>>

\* The deferred history.mu.Unlock(); the pointer is not kept.
Release(w) ==
  /\ w \in locked
  /\ locked' = locked \ {w}
  /\ ptr' = [ptr EXCEPT ![w] = 0]

\* Faulty variant: a check that looks into the map while it has the history.
CheckUnderMap(w, here, next, detected) ==
  /\ pc[w] = here /\ adMu = Free /\ Release(w)
  /\ signal' = [signal EXCEPT ![w] = IF detected THEN @ \cup {here} ELSE @]
  /\ pc' = [pc EXCEPT ![w] = next]
  /\ UNCHANGED <<heap, table, req, cleanVars, now, calls, log>>

\* One check on the fetched history, then on to the next one.
Check(w, here, next, detected) ==
  /\ pc[w] = here /\ Release(w)
  /\ signal' = [signal EXCEPT ![w] = IF detected THEN @ \cup {here} ELSE @]
  /\ pc' = [pc EXCEPT ![w] = next]
  /\ UNCHANGED <<heap, table, req, cleanVars, now, calls, log>>

CheckRate(w) ==
  Check(w, "rate", "velocity",
        Recent(History(w).requests, Second) > MaxPerSecond)

CheckVelocity(w) ==
  Check(w, "velocity", "methods",
        Recent(History(w).requests, Minute) > Velocity)

\* The list as it is: entries of any age count.
CheckMethods(w) ==
  Check(w, "methods", "bots",
        ProbeMethod(req[w]) /\ Len(History(w).requests) > ProbeLimit)

\* More than ten entries are a precondition of the code's fifty; a list
\* shorter than that has no more than MaxPerMinute recent ones anyway.
CheckBots(w) ==
  Check(w, "bots", "track",
        Recent(History(w).requests, Minute) > MaxPerMinute)

\* Faulty variant: trackRequest keeps the last second, not the last minute.
TrackSecond(w) ==
  /\ pc[w] = "track" /\ Release(w)
  /\ heap' = [heap EXCEPT ![ptr[w]].requests = Since(Append(@, now), Second, now)]
  /\ log' = Append(log, [key |-> SourceKey(req[w]), time |-> now,
                         signal |-> signal[w]])
  /\ pc' = [pc EXCEPT ![w] = "idle"]
  /\ req' = [req EXCEPT ![w] = NoRequest]
  /\ signal' = [signal EXCEPT ![w] = {}]
  /\ UNCHANGED <<table, cleanVars, now, calls>>

\* Faulty variant: trackRequest keeps the list, as the check reads it anyway.
TrackWithoutPruning(w) ==
  /\ pc[w] = "track" /\ Release(w)
  /\ heap' = [heap EXCEPT ![ptr[w]].requests = Append(@, now)]
  /\ log' = Append(log, [key |-> SourceKey(req[w]), time |-> now,
                         signal |-> signal[w]])
  /\ pc' = [pc EXCEPT ![w] = "idle"]
  /\ req' = [req EXCEPT ![w] = NoRequest]
  /\ signal' = [signal EXCEPT ![w] = {}]
  /\ UNCHANGED <<table, cleanVars, now, calls>>

\* trackRequest records the request, abusive or not, and keeps a minute of
\* the list.  Detect returns: the request passes if its signal is empty.
Track(w) ==
  /\ pc[w] = "track" /\ Release(w)
  /\ heap' = [heap EXCEPT ![ptr[w]].requests = Since(Append(@, now), Minute, now)]
  /\ log' = Append(log, [key |-> SourceKey(req[w]), time |-> now,
                         signal |-> signal[w]])
  /\ pc' = [pc EXCEPT ![w] = "idle"]
  /\ req' = [req EXCEPT ![w] = NoRequest]
  /\ signal' = [signal EXCEPT ![w] = {}]
  /\ UNCHANGED <<table, cleanVars, now, calls>>

\* TrackFailedAuth, once it has the history.
TrackFailure(w) ==
  /\ pc[w] = "failure" /\ Release(w)
  /\ heap' = [heap EXCEPT ![ptr[w]].failed = Since(Append(@, now), Minute, now)]
  /\ pc' = [pc EXCEPT ![w] = "idle"]
  /\ req' = [req EXCEPT ![w] = NoRequest]
  /\ UNCHANGED <<table, signal, cleanVars, now, calls, log>>

Work(w) ==
  \/ Fetch(w) \/ Lock(w)
  \/ CheckRate(w) \/ CheckVelocity(w) \/ CheckMethods(w) \/ CheckBots(w)
  \/ Track(w) \/ TrackFailure(w)

-----------------------------------------------------------------------------
(* A cleaner                                                               *)

\* The clock is read once, under the map's lock.
CleanStart(c) ==
  /\ adMu = Free
  /\ adMu' = c
  /\ started' = now
  /\ todo' = DOMAIN table
  /\ UNCHANGED <<heap, table, workerVars, picked, pruned, now, calls, log>>

\* One more key, in the random order of a Go map: the cleaner now waits for
\* the lock of its history, and still holds the map's.
CleanPick(c) ==
  /\ adMu = c /\ picked = {} /\ pruned = {}
  /\ \E k \in todo : picked' = {k}
  /\ UNCHANGED <<heap, table, workerVars, adMu, started, todo, pruned, now, calls, log>>

\* It has the lock, prunes the history and gives the lock back.
CleanPrune(c) ==
  /\ adMu = c
  /\ \E k \in picked :
       /\ Users(table[k]) = {}
       /\ pruned' = {k}
       /\ heap' = [heap EXCEPT
                     ![table[k]].requests = Since(@, Retention, started),
                     ![table[k]].failed = Since(@, Retention, started)]
  /\ picked' = {}
  /\ UNCHANGED <<table, workerVars, adMu, started, todo, now, calls, log>>

\* Faulty variant: a deleted key is visited again.
CleanDeleteRevisits(c) ==
  /\ adMu = c
  /\ \E k \in pruned :
       IF heap[table[k]] = EmptyHistory
         THEN /\ table' = [x \in DOMAIN table \ {k} |-> table[x]]
              /\ UNCHANGED todo
         ELSE /\ todo' = todo \ {k}
              /\ UNCHANGED table
  /\ pruned' = {}
  /\ UNCHANGED <<heap, workerVars, adMu, started, picked, now, calls, log>>

\* The lengths are read without that lock, and the key is deleted if they are
\* zero.  A worker that holds the pointer may have written since the pruning;
\* one that writes after the lengths were read writes to a deleted history,
\* as one does that writes after the deletion: the two are one step here.
CleanDelete(c) ==
  /\ adMu = c
  /\ \E k \in pruned :
       /\ table' = IF heap[table[k]] = EmptyHistory
                     THEN [x \in DOMAIN table \ {k} |-> table[x]]
                     ELSE table
       /\ todo' = todo \ {k}
  /\ pruned' = {}
  /\ UNCHANGED <<heap, workerVars, adMu, started, picked, now, calls, log>>

\* Faulty variant: ad.mu is not given back.
CleanEndKeepsLock(c) ==
  /\ adMu = c /\ todo = {} /\ pruned = {}
  /\ UNCHANGED vars

\* Every key was visited: the deferred ad.mu.Unlock().
CleanEnd(c) ==
  /\ adMu = c /\ todo = {} /\ pruned = {}
  /\ adMu' = Free
  /\ started' = 0
  /\ UNCHANGED <<heap, table, workerVars, todo, picked, pruned, now, calls, log>>

Sweep(c) == CleanPick(c) \/ CleanPrune(c) \/ CleanDelete(c) \/ CleanEnd(c)

-----------------------------------------------------------------------------
Tick ==
  /\ now < MaxTime
  /\ now' = now + 1
  /\ UNCHANGED <<heap, table, workerVars, cleanVars, calls, log>>

Next ==
  \/ \E w \in Workers : Arrive(w) \/ ArriveFailure(w) \/ Work(w)
  \/ \E c \in Cleaners : CleanStart(c) \/ Sweep(c)
  \/ Tick

Spec == Init /\ [][Next]_vars

\* Goroutines that can run do run, and a Go mutex is handed to a goroutine
\* that has waited too long: whoever waits for a lock that is given back again
\* and again gets it.
Fairness ==
  /\ \A w \in Workers : SF_vars(Fetch(w)) /\ SF_vars(Lock(w)) /\ WF_vars(Work(w))
  /\ \A c \in Cleaners : SF_vars(CleanPrune(c)) /\ WF_vars(Sweep(c))

FairSpec == Spec /\ Fairness
-----------------------------------------------------------------------------
(* Properties *)

\* Every variable has its type, every address is one of the heap, and a
\* history's lock has one holder.
TypeOK ==
  /\ heap \in Seq([requests : Seq(0..now), failed : Seq(0..now)])
  /\ \A k \in DOMAIN table : table[k] \in DOMAIN heap
  /\ adMu \in Cleaners \cup {Free}
  /\ pc \in [Workers -> Histories \cup {"idle"}]
  /\ req \in [Workers -> Requests \cup {NoRequest}]
  /\ ptr \in [Workers -> {0} \cup DOMAIN heap]
  /\ locked \subseteq Workers
  /\ \A w \in locked : ptr[w] # 0 /\ Users(ptr[w]) = {w}
  /\ signal \in [Workers -> SUBSET Checks]
  /\ started \in 0..now
  /\ todo \subseteq DOMAIN table /\ picked \cup pruned \subseteq todo
  /\ now \in 0..MaxTime /\ calls \in 0..MaxCalls
  /\ Len(log) <= calls

\* The tracked requests of the source of log[j], within a span that ends with
\* it, that the check c let pass.
PassedWithin(c, span, j) ==
  {i \in 1..j : /\ log[i].key = log[j].key
                /\ c \notin log[i].signal
                /\ log[i].time > log[j].time - span}

\* Detect counts first and records last, with other requests of the same
\* source in between; still a second sees no more requests of a source pass
\* the rate check, and a minute no more pass the bots check, than the
\* threshold, one, and one for each other goroutine (abuse.go:101-112,
\* 247-256, 408-420).
AdmissionBound ==
  \A j \in DOMAIN log :
    /\ Cardinality(PassedWithin("rate", Second, j)) <= MaxPerSecond + Cardinality(Workers)
    /\ Cardinality(PassedWithin("bots", Minute, j)) <= MaxPerMinute + Cardinality(Workers)

\* The requests of log[i]'s source tracked in the minute that ends with it.
MinuteOf(i) ==
  {m \in 1..i : log[m].key = log[i].key /\ log[m].time > log[i].time - Minute}

\* The methods check counts a list that nobody has pruned since the source
\* was last tracked, so entries of any age count.  Still a probe is flagged
\* only if the source once sent more than ProbeLimit requests within a
\* minute: slow traffic never adds up (abuse.go:349-361, 509-517).
ProbeFlagJustified ==
  \A j \in DOMAIN log : "methods" \in log[j].signal =>
    \E i \in 1..(j - 1) :
      log[i].key = log[j].key /\ Cardinality(MinuteOf(i)) > ProbeLimit

\* The times the log and the history of a key hold for the last minute.
LoggedRecently(k) == {i \in DOMAIN log : log[i].key = k /\ log[i].time > now - Minute}
HeldRecently(k) ==
  IF k \in DOMAIN table THEN Recent(heap[table[k]].requests, Minute) ELSE 0

\* Every request tracked in the last minute is in the history that the next
\* check of its source will read: no tracking is lost, and none is counted
\* twice (abuse.go:494-534; "Keep 5 minutes of history", 542).
HistoryComplete ==
  \A i \in DOMAIN log :
    Cardinality(LoggedRecently(log[i].key)) = HeldRecently(log[i].key)

\* A request passes the velocity check only if no more than Velocity requests
\* of its IP address were tracked in the minute before (abuse.go:38, 270),
\* but for those that the other goroutines were still handling.
VelocityEnforced ==
  \A j \in DOMAIN log : "velocity" \notin log[j].signal =>
    Cardinality({i \in 1..(j - 1) : /\ log[i].key[2] = log[j].key[2]
                                    /\ log[i].time > log[j].time - Minute})
      < Velocity + Cardinality(Workers)

\* The first request of all, with no word of any pattern in it, is detected by
\* no check.
CleanRequestPasses ==
  \A i \in DOMAIN log : i = 1 => log[i].signal = {}

\* Every Detect and TrackFailedAuth returns, also while cleaners run: a cleaner
\* waits for a history's lock with the map's in its hand, and nobody waits for
\* the map's with a history's in the hand (abuse.go:241-242, 521-572).
DetectReturns ==
  \A w \in Workers : pc[w] # "idle" ~> pc[w] = "idle"
=============================================================================
