--------------------------- MODULE TransferHealth ---------------------------
(***************************************************************************)
(* cmd/transfer-service/main.go: failureMode, which the handler of         *)
(* /admin/simulate-failure negates and the handler of /health reports,     *)
(* both without a lock, and the orchestrator that replaces the process     *)
(* after Retries failed probes in a row (docker-swarm-stack.yml:424-446).  *)
(*                                                                         *)
(* Every read and every write of failureMode is a step of its own.  A Go   *)
(* bool is a byte, which is read and written as a whole.                   *)
(***************************************************************************)
EXTENDS Integers

CONSTANTS
  Togglers,     \* requests to /admin/simulate-failure in flight at once
  Pollers,      \* requests to /health in flight at once
  Prober,       \* the one of them that is the orchestrator's
  Retries,      \* failed probes in a row that make a task unhealthy
  MaxToggles    \* bound: the toggles of a behaviour

ASSUME HealthAssumption ==
  /\ Prober \in Pollers
  /\ Retries \in Nat \ {0}
  /\ MaxToggles \in Nat

VARIABLES
  failureMode,
  gauge,        \* service_health_status: "none" before the first Set, "down" (0), "up" (1)
  pc,           \* toggler |-> the statement it is about to run
  read,         \* toggler |-> the value it negates
  said,         \* toggler |-> its answer's status, as whether it is "enabled"
  shown,        \* toggler |-> its answer's failure_mode
  poll,         \* poller |-> "idle", or "set" with the value it saw
  misses,       \* the orchestrator's failed probes in a row
  toggles,      \* the toggles so far
  overlapped    \* history: the togglers that were not alone since they came

toggleVars == <<pc, read, said, shown, toggles, overlapped>>
healthVars == <<failureMode, gauge, toggleVars, poll, misses>>

Quiet == [seen |-> FALSE, at |-> "idle"]

Init ==
  /\ failureMode = FALSE
  /\ gauge = "none"
  /\ pc = [t \in Togglers |-> "idle"]
  /\ read = [t \in Togglers |-> FALSE]
  /\ said = [t \in Togglers |-> FALSE]
  /\ shown = [t \in Togglers |-> FALSE]
  /\ poll = [p \in Pollers |-> Quiet]
  /\ misses = 0
  /\ toggles = 0
  /\ overlapped = {}

Busy == {t \in Togglers : pc[t] # "idle"}

-----------------------------------------------------------------------------
(* Faulty variants, used to show that the properties can tell them from    *)
(* the code.                                                               *)

\* Failure mode is set, not toggled.
ToggleStoreSets(t) ==
  /\ pc[t] = "store"
  /\ failureMode' = TRUE
  /\ pc' = [pc EXCEPT ![t] = "status"]
  /\ UNCHANGED <<gauge, read, said, shown, toggles, overlapped, poll, misses>>

\* The unhealthy answer says so in its body, but has status 200.
ProbeCountsBody(seen) == 0

\* The new task starts with the failures of the old one.
ReplaceKeepsMisses ==
  /\ misses = Retries
  /\ failureMode' = FALSE
  /\ gauge' = "none"
  /\ pc' = [t \in Togglers |-> "idle"]
  /\ read' = [t \in Togglers |-> FALSE]
  /\ said' = [t \in Togglers |-> FALSE]
  /\ shown' = [t \in Togglers |-> FALSE]
  /\ overlapped' = {}
  /\ poll' = [p \in Pollers |-> Quiet]
  /\ UNCHANGED <<misses, toggles>>

-----------------------------------------------------------------------------
(* handleSimulateFailure *)

\* failureMode is read for its negation.
ToggleRead(t) ==
  /\ pc[t] = "idle"
  /\ toggles < MaxToggles
  /\ toggles' = toggles + 1
  /\ read' = [read EXCEPT ![t] = failureMode]
  /\ pc' = [pc EXCEPT ![t] = "store"]
  /\ overlapped' = IF Busy = {} THEN overlapped ELSE overlapped \cup Busy \cup {t}
  /\ UNCHANGED <<failureMode, gauge, said, shown, poll, misses>>

ToggleStore(t) ==
  /\ pc[t] = "store"
  /\ failureMode' = ~read[t]
  /\ pc' = [pc EXCEPT ![t] = "status"]
  /\ UNCHANGED <<gauge, read, said, shown, toggles, overlapped, poll, misses>>

\* It is read again for the status of the answer, and for the log.
ToggleStatus(t) ==
  /\ pc[t] = "status"
  /\ said' = [said EXCEPT ![t] = failureMode]
  /\ pc' = [pc EXCEPT ![t] = "encode"]
  /\ UNCHANGED <<failureMode, gauge, read, shown, toggles, overlapped, poll, misses>>

\* And once more for its failure_mode.
ToggleEncode(t) ==
  /\ pc[t] = "encode"
  /\ shown' = [shown EXCEPT ![t] = failureMode]
  /\ pc' = [pc EXCEPT ![t] = "answered"]
  /\ UNCHANGED <<failureMode, gauge, read, said, toggles, overlapped, poll, misses>>

ToggleReturn(t) ==
  /\ pc[t] = "answered"
  /\ pc' = [pc EXCEPT ![t] = "idle"]
  /\ read' = [read EXCEPT ![t] = FALSE]
  /\ said' = [said EXCEPT ![t] = FALSE]
  /\ shown' = [shown EXCEPT ![t] = FALSE]
  /\ overlapped' = overlapped \ {t}
  /\ UNCHANGED <<failureMode, gauge, toggles, poll, misses>>

Toggling(t) == ToggleStore(t) \/ ToggleStatus(t) \/ ToggleEncode(t) \/ ToggleReturn(t)

-----------------------------------------------------------------------------
(* handleHealth and the probe *)

HealthRead(p) ==
  /\ poll[p].at = "idle"
  /\ poll' = [poll EXCEPT ![p] = [seen |-> failureMode, at |-> "set"]]
  /\ UNCHANGED <<failureMode, gauge, toggleVars, misses>>

\* What the orchestrator counts after a probe that saw failureMode so: curl
\* -f fails on the 503, and a success starts the count again.
ProbeCounts(seen) ==
  IF ~seen THEN 0 ELSE IF misses < Retries THEN misses + 1 ELSE misses

\* Faulty variant: the gauge is set when the service is unhealthy only.
HealthSetFalls(p) ==
  /\ poll[p].at = "set"
  /\ gauge' = IF poll[p].seen THEN "down" ELSE gauge
  /\ misses' = IF p = Prober THEN ProbeCounts(poll[p].seen) ELSE misses
  /\ poll' = [poll EXCEPT ![p] = Quiet]
  /\ UNCHANGED <<failureMode, toggleVars>>

\* The gauge is set and the answer given by what was read before.
HealthSet(p) ==
  /\ poll[p].at = "set"
  /\ gauge' = IF poll[p].seen THEN "down" ELSE "up"
  /\ misses' = IF p = Prober THEN ProbeCounts(poll[p].seen) ELSE misses
  /\ poll' = [poll EXCEPT ![p] = Quiet]
  /\ UNCHANGED <<failureMode, toggleVars>>

\* An unhealthy task is killed and another one started.
Replace ==
  /\ misses = Retries
  /\ failureMode' = FALSE
  /\ gauge' = "none"
  /\ pc' = [t \in Togglers |-> "idle"]
  /\ read' = [t \in Togglers |-> FALSE]
  /\ said' = [t \in Togglers |-> FALSE]
  /\ shown' = [t \in Togglers |-> FALSE]
  /\ overlapped' = {}
  /\ poll' = [p \in Pollers |-> Quiet]
  /\ misses' = 0
  /\ UNCHANGED toggles

Next ==
  \/ \E t \in Togglers : ToggleRead(t) \/ Toggling(t)
  \/ \E p \in Pollers : HealthRead(p) \/ HealthSet(p)
  \/ Replace

\* Goroutines that can run do, and the orchestrator probes every ten seconds
\* and replaces what is unhealthy.  Nobody else need ask for the health, and
\* nobody need toggle.  (Four replacements fit into the two minutes in which
\* the restart policy allows five, so it never gives up.)
Fairness ==
  /\ \A t \in Togglers : WF_healthVars(Toggling(t))
  /\ \A p \in Pollers : WF_healthVars(HealthSet(p))
  /\ WF_healthVars(HealthRead(Prober))
  /\ WF_healthVars(Replace)

Spec == Init /\ [][Next]_healthVars
FairSpec == Spec /\ Fairness
-----------------------------------------------------------------------------
(* Properties *)

\* Every variable has its type; failed probes are of the running process,
\* which has reported them.
TypeOK ==
  /\ failureMode \in BOOLEAN
  /\ gauge \in {"none", "down", "up"}
  /\ pc \in [Togglers -> {"idle", "store", "status", "encode", "answered"}]
  /\ read \in [Togglers -> BOOLEAN]
  /\ said \in [Togglers -> BOOLEAN]
  /\ shown \in [Togglers -> BOOLEAN]
  /\ poll \in [Pollers -> [seen : BOOLEAN, at : {"idle", "set"}]]
  /\ misses \in 0..Retries
  /\ misses > 0 => gauge # "none"
  /\ toggles \in 0..MaxToggles
  /\ overlapped \subseteq Togglers

\* A toggle that is alone is one: it leaves the opposite of what it found,
\* and its answer says so twice alike, whatever probes and earlier toggles
\* do.  Only toggles at the same time can undo each other or contradict
\* themselves (main.go:248-260).
SoloToggle ==
  \A t \in Togglers :
    pc[t] = "answered" /\ t \notin overlapped =>
      said[t] = ~read[t] /\ shown[t] = said[t] /\ failureMode = shown[t]

Truthful == gauge = IF failureMode THEN "down" ELSE "up"

\* Once nobody toggles any more, the gauge comes to tell the truth and goes
\* on to: a health request that read failureMode long ago and sets the gauge
\* late, or a replaced process, spoils it only for a while (main.go:119-132).
GaugeConverges == <>[](Busy = {}) => <>[]Truthful

\* Failure mode ends: by another toggle, or because the orchestrator, whose
\* probes fail while it lasts, replaces the process (main.go:119-129, stack
\* file 424-446).
Recovers == failureMode ~> ~failureMode
=============================================================================
