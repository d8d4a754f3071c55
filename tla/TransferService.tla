-------------------------- MODULE TransferService --------------------------
(***************************************************************************)
(* cmd/transfer-service/main.go: POST /api/v1/transfer over the in-memory  *)
(* database of pkg/models.                                                 *)
(*                                                                         *)
(* The HTTP server runs one goroutine per request; a handler h is such a   *)
(* goroutine and pc[h] the statement of handleTransfer it is about to run. *)
(* The accounts are looked up under dbLock.RLock, the balance is compared  *)
(* with the amount after the lock was given back, and the two balances are *)
(* written under dbLock.Lock without comparing again: everything the other *)
(* handlers do between those three steps is an interleaving of this model. *)
(*                                                                         *)
(* Balances and amounts are integers (the code's float64 dollars in units  *)
(* of which every amount is a multiple); the account's Status and Currency *)
(* are never read by the code, the database's Transfers and Ledger never   *)
(* written, and they are left out.                                         *)
(***************************************************************************)
EXTENDS Integers, FiniteSetsExt

CONSTANTS
  Handlers,   \* the requests the server can have in flight at once
  Requests,   \* the requests clients send: records tenant, from, to, amount
  NoRequest,  \* the request of an idle handler
  Seeds,      \* the databases a start may generate: account |-> balance
  TenantOf,   \* account identifier |-> the tenant that owns it
  MaxAmount,  \* an upper bound of the amounts in Requests
  Free        \* dbLock when no handler holds it for writing

AccountIds == DOMAIN TenantOf
Tenants == {TenantOf[a] : a \in AccountIds}

ASSUME HandlersAssumption ==
  /\ IsFiniteSet(Handlers)
  /\ Handlers # {}
  /\ Free \notin Handlers

\* A token carries any tenant, the body any account names and any number:
\* also an account that does not exist, and an amount that is not positive.
ASSUME RequestsAssumption ==
  /\ MaxAmount \in Nat
  /\ NoRequest \notin Requests
  /\ \A r \in Requests :
       /\ DOMAIN r = {"tenant", "from", "to", "amount"}
       /\ r.amount \in Int
       /\ r.amount <= MaxAmount

\* generateAccounts draws which of finitely many accounts exist and gives each
\* at least 1000.
ASSUME SeedsAssumption ==
  /\ Seeds # {}
  /\ IsFiniteSet(AccountIds)
  /\ \A s \in Seeds : DOMAIN s \subseteq AccountIds /\ s \in [DOMAIN s -> Nat]

VARIABLES
  balance,    \* db.Accounts[id].Balance, for the accounts that exist
  seed,       \* the balances the running process was started with
  dbLock,     \* the handler that holds dbLock for writing, or Free
  pc,         \* handler |-> the step it is about to take
  req,        \* handler |-> the tenant of its token and its decoded body
  status      \* handler |-> the HTTP status it has answered, 0 before

vars == <<balance, seed, dbLock, pc, req, status>>

Steps == {"idle", "lookup", "validate", "debit", "credit", "answered"}
Statuses == {0, 200, 400, 401, 402, 403, 404}

-----------------------------------------------------------------------------
(* The initial database: NewSyntheticDatabase seeds the accounts.          *)

Boot ==
  /\ seed \in Seeds
  /\ balance = seed

Init ==
  /\ Boot
  /\ dbLock = Free
  /\ pc = [h \in Handlers |-> "idle"]
  /\ req = [h \in Handlers |-> NoRequest]
  /\ status = [h \in Handlers |-> 0]

Answer(h, s) ==
  /\ pc' = [pc EXCEPT ![h] = "answered"]
  /\ status' = [status EXCEPT ![h] = s]

-----------------------------------------------------------------------------
(* Faulty variants of the handler, used to show that the properties can    *)
(* tell them from the code.                                                *)

SkipTenantCheck(h) ==
  LET r == req[h] IN
  IF r.amount <= 0 THEN 400
  ELSE IF balance[r.from] < r.amount THEN 402
  ELSE 200

SkipBalanceCheck(h) ==
  LET r == req[h] IN
  IF TenantOf[r.from] # r.tenant \/ TenantOf[r.to] # r.tenant THEN 403
  ELSE IF r.amount <= 0 THEN 400
  ELSE 200

RefuseExactBalance(h) ==
  LET r == req[h] IN
  IF TenantOf[r.from] # r.tenant \/ TenantOf[r.to] # r.tenant THEN 403
  ELSE IF r.amount <= 0 THEN 400
  ELSE IF balance[r.from] <= r.amount THEN 402
  ELSE 200

CreditSender(h) ==
  /\ pc[h] = "credit"
  /\ balance' = [balance EXCEPT ![req[h].from] = @ + req[h].amount]
  /\ dbLock' = Free
  /\ Answer(h, 200)
  /\ UNCHANGED <<seed, req>>

CreditKeepsLock(h) ==
  /\ pc[h] = "credit"
  /\ balance' = [balance EXCEPT ![req[h].to] = @ + req[h].amount]
  /\ Answer(h, 200)
  /\ UNCHANGED <<seed, dbLock, req>>

RestartKeepsBalance ==
  /\ seed' \in Seeds
  /\ dbLock' = Free
  /\ pc' = [h \in Handlers |-> "idle"]
  /\ req' = [h \in Handlers |-> NoRequest]
  /\ status' = [h \in Handlers |-> 0]
  /\ UNCHANGED balance

DebitWithoutLock(h) ==
  /\ pc[h] = "debit"
  /\ balance' = [balance EXCEPT ![req[h].from] = @ - req[h].amount]
  /\ dbLock' = h
  /\ pc' = [pc EXCEPT ![h] = "credit"]
  /\ UNCHANGED <<seed, req, status>>

-----------------------------------------------------------------------------
(* One request, from its arrival to its answer.                            *)

\* authMiddleware answers 401 to a missing, malformed or invalid token, the
\* decoder 400 to a body that is no transfer request: nothing was touched.
Refuse(h) ==
  /\ pc[h] = "idle"
  /\ \E s \in {400, 401} : Answer(h, s)
  /\ UNCHANGED <<balance, seed, dbLock, req>>

\* A request with a valid token and a well-formed body.
Accept(h) ==
  /\ pc[h] = "idle"
  /\ \E r \in Requests : req' = [req EXCEPT ![h] = r]
  /\ pc' = [pc EXCEPT ![h] = "lookup"]
  /\ UNCHANGED <<balance, seed, dbLock, status>>

\* Both accounts are looked up under dbLock.RLock, which waits for a writer.
\* The read section touches nothing that changes, so it is one step.
Lookup(h) ==
  /\ pc[h] = "lookup"
  /\ dbLock = Free
  /\ IF {req[h].from, req[h].to} \subseteq DOMAIN balance
       THEN pc' = [pc EXCEPT ![h] = "validate"] /\ UNCHANGED status
       ELSE Answer(h, 404)
  /\ UNCHANGED <<balance, seed, dbLock, req>>

\* The checks on the two account pointers, in the order of the code.
Verdict(h) ==
  LET r == req[h] IN
  IF TenantOf[r.from] # r.tenant \/ TenantOf[r.to] # r.tenant THEN 403
  ELSE IF r.amount <= 0 THEN 400
  ELSE IF balance[r.from] < r.amount THEN 402
  ELSE 200

\* The checks run without dbLock: another handler may be between its debit
\* and its credit, or may have passed the same checks already.
Validate(h) ==
  /\ pc[h] = "validate"
  /\ IF Verdict(h) = 200
       THEN pc' = [pc EXCEPT ![h] = "debit"] /\ UNCHANGED status
       ELSE Answer(h, Verdict(h))
  /\ UNCHANGED <<balance, seed, dbLock, req>>

\* dbLock.Lock() and fromAcc.Balance -= req.Amount.
Debit(h) ==
  /\ pc[h] = "debit"
  /\ dbLock = Free
  /\ dbLock' = h
  /\ balance' = [balance EXCEPT ![req[h].from] = @ - req[h].amount]
  /\ pc' = [pc EXCEPT ![h] = "credit"]
  /\ UNCHANGED <<seed, req, status>>

\* toAcc.Balance += req.Amount, dbLock.Unlock() and the 200 answer.
Credit(h) ==
  /\ pc[h] = "credit"
  /\ balance' = [balance EXCEPT ![req[h].to] = @ + req[h].amount]
  /\ dbLock' = Free
  /\ Answer(h, 200)
  /\ UNCHANGED <<seed, req>>

\* The handler has returned; the server may use its slot for a new request.
Finish(h) ==
  /\ pc[h] = "answered"
  /\ pc' = [pc EXCEPT ![h] = "idle"]
  /\ req' = [req EXCEPT ![h] = NoRequest]
  /\ status' = [status EXCEPT ![h] = 0]
  /\ UNCHANGED <<balance, seed, dbLock>>

\* The process dies, at any step of any handler, and its orchestrator starts
\* it again: the database is in memory, and init generates a new one.
Restart ==
  /\ seed' \in Seeds
  /\ balance' = seed'
  /\ dbLock' = Free
  /\ pc' = [h \in Handlers |-> "idle"]
  /\ req' = [h \in Handlers |-> NoRequest]
  /\ status' = [h \in Handlers |-> 0]

Handle(h) ==
  \/ Refuse(h) \/ Accept(h) \/ Lookup(h) \/ Validate(h)
  \/ Debit(h)  \/ Credit(h) \/ Finish(h)

Next == (\E h \in Handlers : Handle(h)) \/ Restart

Spec == Init /\ [][Next]_vars

\* The Go scheduler runs every goroutine that can run, and sync.RWMutex is
\* fair: a reader waits for at most one writer (readers that wait when it
\* unlocks go before the next writer), and a waiting writer holds off new
\* readers.  Nothing forces a client to send a request.
Fairness ==
  \A h \in Handlers :
    /\ WF_vars(Validate(h))
    /\ WF_vars(Credit(h))
    /\ WF_vars(Finish(h))
    /\ SF_vars(Lookup(h))
    /\ SF_vars(Debit(h))

FairSpec == Spec /\ Fairness
-----------------------------------------------------------------------------
(* Properties *)

\* Every variable has its type; the accounts that exist are those the running
\* process was started with, and no answer but the listed ones is given.
TypeOK ==
  /\ seed \in Seeds
  /\ balance \in [DOMAIN seed -> Int]
  /\ dbLock \in Handlers \cup {Free}
  /\ pc \in [Handlers -> Steps]
  /\ req \in [Handlers -> Requests \cup {NoRequest}]
  /\ status \in [Handlers -> Statuses]

\* The accounts a handler works on: it serves a request, and past the lookup
\* the accounts exist; past the validation they are of the request's tenant
\* and the amount is positive (main.go:167-197).
RequestInv ==
  \A h \in Handlers :
    /\ pc[h] \in {"lookup", "validate", "debit", "credit"} => req[h] \in Requests
    /\ pc[h] \in {"validate", "debit", "credit"} =>
         {req[h].from, req[h].to} \subseteq DOMAIN balance
    /\ pc[h] \in {"debit", "credit"} =>
         /\ TenantOf[req[h].from] = req[h].tenant
         /\ TenantOf[req[h].to] = req[h].tenant
         /\ req[h].amount > 0

\* dbLock excludes: a handler is between its debit and its credit exactly
\* when it is the one that holds dbLock for writing (main.go:212-215).
LockInv == \A h \in Handlers : pc[h] = "credit" <=> dbLock = h

\* The balances without the debit of a transfer that is not yet credited.
SettledBalance ==
  [a \in DOMAIN balance |->
     IF dbLock # Free /\ req[dbLock].from = a
       THEN balance[a] + req[dbLock].amount
       ELSE balance[a]]

\* The balances with the credit of that transfer.
CreditedBalance ==
  [a \in DOMAIN balance |->
     IF dbLock # Free /\ req[dbLock].to = a
       THEN balance[a] + req[dbLock].amount
       ELSE balance[a]]

Outcome ==
  [h \in Handlers |->
     IF pc[h] = "idle" THEN "idle"
     ELSE IF pc[h] # "answered" THEN "pending"
     ELSE IF status[h] = 200 THEN "done"
     ELSE "refused"]

BankOf == INSTANCE Bank WITH balance <- SettledBalance, outcome <- Outcome

\* The service implements the abstract bank: although its debit and credit
\* are separate writes, a transfer takes effect as one move, inside the
\* tenant of the token, exactly when 200 is answered (main.go:145-239).
Refines == BankOf!Spec

\* A balance never falls below what all but one of the concurrent requests
\* can take: each handler that passed the balance check before another one
\* debited may overdraw by one amount, and no more (main.go:199-215).
OverdraftBound ==
  \A a \in DOMAIN balance :
    balance[a] >= -((Cardinality(Handlers) - 1) * MaxAmount)

\* What the bound rests on: of the handlers that have passed the check on an
\* account and not debited it yet, one finds its own amount there, but for
\* what the handlers that debited since its check have taken.
Approved(a) == {h \in Handlers : pc[h] = "debit" /\ req[h].from = a}

Spent(k) == (Cardinality(Handlers) - k) * MaxAmount

Covered(a) ==
  IF Approved(a) = {}
    THEN balance[a] >= -Spent(1)
    ELSE \E h \in Approved(a) :
           balance[a] >= req[h].amount - Spent(Cardinality(Approved(a)))

OverdraftInv == \A a \in DOMAIN balance : Covered(a)

\* The inductive invariant of the proofs: the structure of a request in
\* flight, and the bound above.
IndInv == TypeOK /\ RequestInv /\ LockInv /\ OverdraftInv

SumOver(f, S) == MapThenSumSet(LAMBDA a : f[a], S)

OwnedBy(t) == {a \in DOMAIN balance : TenantOf[a] = t}

\* Transfers neither create nor destroy money, nor move it between tenants:
\* with the credit still to be written counted in, what the accounts of a
\* tenant hold is what they were started with (main.go:179-215).
TenantFundsConserved ==
  \A t \in Tenants :
    SumOver(SettledBalance, OwnedBy(t)) = SumOver(seed, OwnedBy(t))

\* A transfer never takes an account below zero (the "Balance validation" of
\* the README).  It holds for one request at a time, not for two.
NoOverdraft == \A a \in DOMAIN balance : balance[a] >= 0

\* A balance refusal is right before or after the transfer being written.
RefusalStep ==
  \A h \in Handlers :
    pc[h] = "validate" /\ pc'[h] = "answered" /\ status'[h] = 402 =>
      \/ SettledBalance[req[h].from] < req[h].amount
      \/ CreditedBalance[req[h].from] < req[h].amount

\* A request is refused for its balance only if the balance was too low
\* before or after the transfer that is being written: no refusal comes from
\* a state between the two (main.go:199 reads without dbLock).
RefusalLinearizable == [][RefusalStep]_vars

\* Every request that is accepted is answered, unless the process restarts:
\* no handler waits for dbLock for ever (main.go:161, 212).
Answered == \A h \in Handlers : pc[h] = "lookup" ~> pc[h] \in {"answered", "idle"}
=============================================================================
