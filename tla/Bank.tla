-------------------------------- MODULE Bank --------------------------------
(***************************************************************************)
(* What a client of the transfer service may rely on, with the handlers'   *)
(* steps and the lock hidden: every accepted request is settled by one     *)
(* indivisible move of a positive amount between two accounts of the       *)
(* requesting tenant, or it is refused and moves nothing; a restart        *)
(* forgets every request and draws a new database.                         *)
(*                                                                         *)
(* TransferService implements this specification (its PROPERTY Refines,    *)
(* its theorem Refinement).  The abstract specification does not promise   *)
(* that a balance stays non-negative, because the code does not.           *)
(***************************************************************************)
EXTENDS Integers

CONSTANTS
  Handlers,   \* the requests the server can have in flight at once
  Requests,   \* the requests clients send: records tenant, from, to, amount
  NoRequest,  \* the request of an idle handler
  Seeds,      \* the databases a start may generate: account |-> balance
  TenantOf    \* account identifier |-> the tenant that owns it

VARIABLES
  balance,    \* account |-> balance, as settled transfers left it
  req,        \* handler |-> the request it serves
  outcome     \* handler |-> "idle", "pending", "done" or "refused"

vars == <<balance, req, outcome>>

Init ==
  /\ balance \in Seeds
  /\ req = [h \in Handlers |-> NoRequest]
  /\ outcome = [h \in Handlers |-> "idle"]

\* A request arrives; the abstract bank has not looked at it yet.
Submit(h) ==
  /\ outcome[h] = "idle"
  /\ \E r \in Requests : req' = [req EXCEPT ![h] = r]
  /\ outcome' = [outcome EXCEPT ![h] = "pending"]
  /\ UNCHANGED balance

\* The whole amount moves in one step, inside one tenant.
Settle(h) ==
  /\ outcome[h] = "pending"
  /\ {req[h].from, req[h].to} \subseteq DOMAIN balance
  /\ TenantOf[req[h].from] = req[h].tenant
  /\ TenantOf[req[h].to] = req[h].tenant
  /\ req[h].amount > 0
  /\ balance' = [[balance EXCEPT ![req[h].from] = @ - req[h].amount]
                          EXCEPT ![req[h].to]   = @ + req[h].amount]
  /\ outcome' = [outcome EXCEPT ![h] = "done"]
  /\ UNCHANGED req

\* A refused request, also one refused before it was read, moves nothing.
Refuse(h) ==
  /\ outcome[h] \in {"idle", "pending"}
  /\ outcome' = [outcome EXCEPT ![h] = "refused"]
  /\ UNCHANGED <<balance, req>>

Finish(h) ==
  /\ outcome[h] \in {"done", "refused"}
  /\ outcome' = [outcome EXCEPT ![h] = "idle"]
  /\ req' = [req EXCEPT ![h] = NoRequest]
  /\ UNCHANGED balance

Restart ==
  /\ balance' \in Seeds
  /\ req' = [h \in Handlers |-> NoRequest]
  /\ outcome' = [h \in Handlers |-> "idle"]

Next ==
  \/ \E h \in Handlers : Submit(h) \/ Settle(h) \/ Refuse(h) \/ Finish(h)
  \/ Restart

Spec == Init /\ [][Next]_vars
=============================================================================
