-------------------------- MODULE TransferContract --------------------------
(***************************************************************************)
(* What a client may conclude from the answer to a transfer it sends to    *)
(* the edge, whatever happens in between: expired tokens, limits, aborted  *)
(* connections, restarts of any service.                                   *)
(*                                                                         *)
(*   done     (200)       the money has moved, once;                       *)
(*   refused  (4xx)       nothing has moved and nothing will;              *)
(*   unknown  (502, or a connection that broke): it may have moved, it may *)
(*            still move after the client has gone, but never twice.       *)
(*                                                                         *)
(* Platform implements this specification (its PROPERTY Contract).         *)
(***************************************************************************)
EXTENDS Integers

CONSTANT Handlers   \* the requests the edge can have in flight at once

VARIABLES
  phase,   \* handler |-> what its client knows of the transfer it serves
  moved    \* handler |-> how often the amount of that transfer has moved

vars == <<phase, moved>>

Phases == {"idle", "pending", "done", "refused", "unknown"}

Init ==
  /\ phase = [h \in Handlers |-> "idle"]
  /\ moved = [h \in Handlers |-> 0]

Become(h, p) == phase[h] # p /\ phase' = [phase EXCEPT ![h] = p]

Send(h) ==
  /\ phase[h] = "idle"
  /\ Become(h, "pending")
  /\ UNCHANGED moved

\* The only step that moves money, at most once, and never after a refusal.
Move(h) ==
  /\ phase[h] \in {"pending", "unknown"}
  /\ moved[h] = 0
  /\ moved' = [moved EXCEPT ![h] = 1]
  /\ UNCHANGED phase

Confirm(h) ==
  /\ phase[h] = "pending" /\ moved[h] = 1
  /\ Become(h, "done")
  /\ UNCHANGED moved

\* A transfer can be refused as it arrives.
Refuse(h) ==
  /\ phase[h] \in {"idle", "pending"} /\ moved[h] = 0
  /\ Become(h, "refused")
  /\ UNCHANGED moved

\* No answer comes.
GiveUp(h) ==
  /\ phase[h] = "pending"
  /\ Become(h, "unknown")
  /\ UNCHANGED moved

\* The client has its answer and nothing is left of the request.
Forget(h) ==
  /\ phase[h] \in {"done", "refused", "unknown"}
  /\ Become(h, "idle")
  /\ moved' = [moved EXCEPT ![h] = 0]

\* A process restarts: any clients lose their connections, and what was
\* going on for them at a service is cut off or left to run.
Interrupt ==
  /\ phase' \in [Handlers -> Phases]
  /\ \A h \in Handlers :
       \/ phase'[h] = phase[h] /\ moved'[h] = moved[h]
       \/ phase[h] = "pending" /\ phase'[h] = "unknown" /\ moved'[h] = moved[h]
       \/ phase'[h] = "idle" /\ moved'[h] = 0
  /\ moved' \in [Handlers -> {0, 1}]

Next ==
  \/ \E h \in Handlers :
       Send(h) \/ Move(h) \/ Confirm(h) \/ Refuse(h) \/ GiveUp(h) \/ Forget(h)
  \/ Interrupt

Spec == Init /\ [][Next]_vars
=============================================================================
