------------------------ MODULE TransferHealth_proofs ------------------------
(***************************************************************************)
(* Theorems about TransferHealth, for any number of toggling and polling   *)
(* requests and of retries.                                                *)
(***************************************************************************)
EXTENDS TransferHealth, TLAPS

-----------------------------------------------------------------------------
(* Types                                                                   *)

LEMMA InitType == Init => TypeOK
<1> SUFFICES ASSUME Init PROVE TypeOK
  OBVIOUS
<1>1. poll \in [Pollers -> [seen : BOOLEAN, at : {"idle", "set"}]]
  BY DEF Init, Quiet
<1>2. misses \in 0..Retries /\ toggles \in 0..MaxToggles /\ ~(misses > 0)
  BY HealthAssumption DEF Init
<1> QED
  BY <1>1, <1>2 DEF Init, TypeOK

LEMMA ToggleType ==
  ASSUME TypeOK, NEW t \in Togglers, ToggleRead(t) \/ Toggling(t)
  PROVE  TypeOK'
<1>1. CASE ToggleRead(t)
  <2>1. toggles' \in 0..MaxToggles
    BY <1>1, HealthAssumption DEF TypeOK, ToggleRead
  <2>2. overlapped' \subseteq Togglers
    BY <1>1 DEF TypeOK, ToggleRead, Busy
  <2> QED
    BY <1>1, <2>1, <2>2 DEF TypeOK, ToggleRead
<1>2. CASE ToggleStore(t)
  <2>1. failureMode' \in BOOLEAN
    BY <1>2 DEF TypeOK, ToggleStore
  <2> QED
    BY <1>2, <2>1 DEF TypeOK, ToggleStore
<1>3. CASE ToggleStatus(t)
  BY <1>3 DEF TypeOK, ToggleStatus
<1>4. CASE ToggleEncode(t)
  BY <1>4 DEF TypeOK, ToggleEncode
<1>5. CASE ToggleReturn(t)
  BY <1>5 DEF TypeOK, ToggleReturn
<1> QED
  BY <1>1, <1>2, <1>3, <1>4, <1>5 DEF Toggling

LEMMA HealthType ==
  ASSUME TypeOK, NEW p \in Pollers, HealthRead(p) \/ HealthSet(p)
  PROVE  TypeOK'
<1>1. CASE HealthRead(p)
  BY <1>1 DEF TypeOK, HealthRead, toggleVars
<1>2. CASE HealthSet(p)
  <2>1. poll' \in [Pollers -> [seen : BOOLEAN, at : {"idle", "set"}]]
    BY <1>2 DEF TypeOK, HealthSet, Quiet
  <2>2. misses' \in 0..Retries
    BY <1>2, HealthAssumption DEF TypeOK, HealthSet, ProbeCounts
  <2>3. gauge' \in {"down", "up"}
    BY <1>2 DEF HealthSet
  <2> QED
    BY <1>2, <2>1, <2>2, <2>3 DEF TypeOK, HealthSet, toggleVars
<1> QED
  BY <1>1, <1>2

LEMMA ReplaceType ==
  ASSUME TypeOK, Replace
  PROVE  TypeOK'
<1>1. poll' \in [Pollers -> [seen : BOOLEAN, at : {"idle", "set"}]]
  BY DEF Replace, Quiet
<1>2. misses' \in 0..Retries /\ ~(misses' > 0)
  BY HealthAssumption DEF Replace
<1> QED
  BY <1>1, <1>2 DEF Replace, TypeOK

\* Every variable keeps its type; probes are counted of a process that has
\* reported them.
THEOREM HealthTypeCorrect == Spec => []TypeOK
<1>1. TypeOK /\ [Next]_healthVars => TypeOK'
  <2> SUFFICES ASSUME TypeOK, [Next]_healthVars
               PROVE  TypeOK'
    OBVIOUS
  <2>1. CASE Next
    BY <2>1, ToggleType, HealthType, ReplaceType DEF Next
  <2>2. CASE UNCHANGED healthVars
    BY <2>2 DEF TypeOK, healthVars, toggleVars
  <2> QED
    BY <2>1, <2>2
<1> QED
  BY InitType, <1>1, PTL DEF Spec

-----------------------------------------------------------------------------
(* A toggle that is alone                                                  *)

\* How far a toggle is that has been alone so far: nobody else toggles, and
\* failureMode is what it has read or, once it has stored, the opposite.
Alone(t) ==
  pc[t] # "idle" /\ t \notin overlapped =>
    /\ Busy = {t}
    /\ pc[t] = "store" => failureMode = read[t]
    /\ pc[t] # "store" => failureMode = ~read[t]
    /\ pc[t] \in {"encode", "answered"} => said[t] = failureMode
    /\ pc[t] = "answered" => shown[t] = failureMode

SoloInv == TypeOK /\ \A t \in Togglers : Alone(t)

LEMMA InitSolo == Init => SoloInv
BY InitType DEF Init, SoloInv, Alone

\* A step of toggler t leaves no other toggler alone; what it does for t.
LEMMA OthersOverlap ==
  ASSUME SoloInv, NEW t \in Togglers, NEW u \in Togglers, u # t,
         ToggleRead(t) \/ Toggling(t), pc'[u] # "idle", u \notin overlapped'
  PROVE  FALSE
<1>1. pc'[u] = pc[u]
  BY DEF SoloInv, TypeOK, ToggleRead, Toggling, ToggleStore, ToggleStatus, ToggleEncode, ToggleReturn
<1>2. u \in Busy
  BY <1>1 DEF Busy
<1>3. CASE ToggleRead(t)
  BY <1>2, <1>3 DEF ToggleRead
<1>4. CASE Toggling(t)
  <2>1. u \notin overlapped
    BY <1>4 DEF Toggling, ToggleStore, ToggleStatus, ToggleEncode, ToggleReturn
  <2>2. Busy = {u}
    BY <1>1, <2>1 DEF SoloInv, Alone
  <2>3. t \in Busy
    BY <1>4 DEF Busy, Toggling, ToggleStore, ToggleStatus, ToggleEncode, ToggleReturn
  <2> QED
    BY <2>2, <2>3
<1> QED
  BY <1>3, <1>4

LEMMA ToggleReadAlone ==
  ASSUME SoloInv, NEW t \in Togglers, ToggleRead(t)
  PROVE  Alone(t)'
<1> SUFFICES ASSUME t \notin overlapped'
             PROVE  Busy' = {t} /\ pc'[t] = "store" /\ failureMode' = read'[t]
  BY DEF Alone
<1>1. pc' = [pc EXCEPT ![t] = "store"] /\ pc'[t] = "store"
  BY DEF ToggleRead, SoloInv, TypeOK
<1>2. failureMode' = read'[t]
  BY DEF ToggleRead, SoloInv, TypeOK
<1>3. Busy = {}
  BY DEF ToggleRead
<1>4. Busy' = {t}
  BY <1>1, <1>3 DEF Busy, SoloInv, TypeOK
<1> QED
  BY <1>1, <1>2, <1>4

LEMMA TogglingAlone ==
  ASSUME SoloInv, NEW t \in Togglers, Toggling(t)
  PROVE  Alone(t)'
<1> SUFFICES ASSUME pc'[t] # "idle", t \notin overlapped'
             PROVE  Alone(t)'
  BY DEF Alone
<1>1. ~ToggleReturn(t)
  BY DEF ToggleReturn, SoloInv, TypeOK
<1>2. pc[t] # "idle" /\ t \notin overlapped
  BY <1>1 DEF Toggling, ToggleStore, ToggleStatus, ToggleEncode
<1>3. Alone(t)
  BY DEF SoloInv
<1>4. Busy' = {t}
  <2>1. Busy = {t}
    BY <1>2, <1>3 DEF Alone
  <2>2. \A u \in Togglers : u # t => pc'[u] = pc[u]
    BY DEF SoloInv, TypeOK, Toggling, ToggleStore, ToggleStatus, ToggleEncode, ToggleReturn
  <2>3. \A u \in Togglers : u \in Busy' <=> u \in Busy
    BY <1>2, <2>2 DEF Busy
  <2> QED
    BY <2>1, <2>3 DEF Busy
<1>5. CASE ToggleStore(t)
  <2>1. pc'[t] = "status" /\ failureMode' = ~read'[t]
    BY <1>5 DEF ToggleStore, SoloInv, TypeOK
  <2> QED
    BY <1>4, <2>1 DEF Alone
<1>6. CASE ToggleStatus(t)
  <2>1. pc'[t] = "encode" /\ said'[t] = failureMode' /\ failureMode' = failureMode /\ read' = read
    BY <1>6 DEF ToggleStatus, SoloInv, TypeOK
  <2>2. failureMode = ~read[t]
    BY <1>2, <1>3, <1>6 DEF Alone, ToggleStatus
  <2> QED
    BY <1>4, <2>1, <2>2 DEF Alone
<1>7. CASE ToggleEncode(t)
  <2>1. /\ pc'[t] = "answered" /\ shown'[t] = failureMode' /\ failureMode' = failureMode
        /\ said' = said /\ read' = read
    BY <1>7 DEF ToggleEncode, SoloInv, TypeOK
  <2>2. failureMode = ~read[t] /\ said[t] = failureMode
    BY <1>2, <1>3, <1>7 DEF Alone, ToggleEncode
  <2> QED
    BY <1>4, <2>1, <2>2 DEF Alone
<1> QED
  BY <1>1, <1>5, <1>6, <1>7 DEF Toggling

LEMMA SoloStep == SoloInv /\ [Next]_healthVars => SoloInv'
<1> SUFFICES ASSUME SoloInv, [Next]_healthVars
             PROVE  SoloInv'
  OBVIOUS
<1>1. ASSUME NEW t \in Togglers, ToggleRead(t) \/ Toggling(t)
      PROVE  SoloInv'
  <2>1. TypeOK'
    BY <1>1, ToggleType DEF SoloInv
  <2>2. Alone(t)'
    BY <1>1, ToggleReadAlone, TogglingAlone
  <2>3. ASSUME NEW u \in Togglers, u # t
        PROVE  Alone(u)'
    BY <1>1, <2>3, OthersOverlap DEF Alone
  <2> QED
    BY <2>1, <2>2, <2>3 DEF SoloInv
<1>2. ASSUME NEW p \in Pollers, HealthRead(p) \/ HealthSet(p)
      PROVE  SoloInv'
  <2>1. TypeOK'
    BY <1>2, HealthType DEF SoloInv
  <2>2. UNCHANGED <<failureMode, toggleVars>>
    BY <1>2 DEF HealthRead, HealthSet
  <2> QED
    BY <2>1, <2>2 DEF SoloInv, Alone, Busy, toggleVars
<1>3. CASE Replace
  <2>1. TypeOK'
    BY <1>3, ReplaceType DEF SoloInv
  <2>2. \A t \in Togglers : pc'[t] = "idle"
    BY <1>3 DEF Replace
  <2> QED
    BY <2>1, <2>2 DEF SoloInv, Alone
<1>4. CASE UNCHANGED healthVars
  BY <1>4 DEF SoloInv, TypeOK, Alone, Busy, healthVars, toggleVars
<1> QED
  BY <1>1, <1>2, <1>3, <1>4 DEF Next

\* A toggle that no other one overlaps leaves the opposite of what it found
\* and says so twice alike, whatever health requests, earlier toggles and
\* replaced processes do.
THEOREM SoloTogglesToggle == Spec => []SoloToggle
<1>1. SoloInv => SoloToggle
  <2> SUFFICES ASSUME SoloInv, NEW t \in Togglers, pc[t] = "answered", t \notin overlapped
               PROVE  said[t] = ~read[t] /\ shown[t] = said[t] /\ failureMode = shown[t]
    BY DEF SoloToggle
  <2>1. Alone(t)
    BY DEF SoloInv
  <2>2. failureMode = ~read[t] /\ said[t] = failureMode /\ shown[t] = failureMode
    BY <2>1 DEF Alone
  <2> QED
    BY <2>2
<1> QED
  BY InitSolo, SoloStep, <1>1, PTL DEF Spec
=============================================================================
