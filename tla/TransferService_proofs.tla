----------------------- MODULE TransferService_proofs -----------------------
(***************************************************************************)
(* Theorems about TransferService, for every number of handlers, every set *)
(* of requests and of databases.                                           *)
(*                                                                         *)
(* The first group proves the shape of a request in flight (Shape below),  *)
(* the second the bound on overdrafts, the third that the service          *)
(* implements the abstract bank.                                           *)
(***************************************************************************)
EXTENDS TransferService, FiniteSetTheorems, WellFoundedInduction, TLAPS

Shape == TypeOK /\ RequestInv /\ LockInv

-----------------------------------------------------------------------------
(* A request in flight                                                     *)

LEMMA InitShape == Init => Shape
BY HandlersAssumption, SeedsAssumption
   DEF Init, Boot, Shape, TypeOK, RequestInv, LockInv, Steps, Statuses

\* What the checks of the handler establish.
LEMMA VerdictFacts ==
  ASSUME Shape, NEW h \in Handlers, pc[h] = "validate"
  PROVE  /\ Verdict(h) \in Statuses \ {0}
         /\ Verdict(h) = 200 =>
              /\ TenantOf[req[h].from] = req[h].tenant
              /\ TenantOf[req[h].to] = req[h].tenant
              /\ req[h].amount > 0
              /\ balance[req[h].from] >= req[h].amount
         /\ Verdict(h) = 402 => balance[req[h].from] < req[h].amount
<1>1. req[h].amount \in Int /\ balance[req[h].from] \in Int
  BY RequestsAssumption DEF Shape, TypeOK, RequestInv
<1> QED
  BY <1>1 DEF Verdict, Statuses

LEMMA NextShape == Shape /\ [Next]_vars => Shape'
<1> SUFFICES ASSUME Shape, [Next]_vars PROVE Shape'
  OBVIOUS
<1> USE HandlersAssumption, RequestsAssumption
        DEF Shape, TypeOK, RequestInv, LockInv, Steps, Statuses
<1>1. ASSUME NEW h \in Handlers, Refuse(h) PROVE Shape'
  BY <1>1 DEF Refuse, Answer
<1>2. ASSUME NEW h \in Handlers, Accept(h) PROVE Shape'
  BY <1>2 DEF Accept
<1>3. ASSUME NEW h \in Handlers, Lookup(h) PROVE Shape'
  BY <1>3 DEF Lookup, Answer
<1>4. ASSUME NEW h \in Handlers, Validate(h) PROVE Shape'
  <2>1. pc[h] = "validate"
    BY <1>4 DEF Validate
  <2> HIDE DEF Shape, TypeOK, RequestInv, LockInv
  <2>2. /\ Verdict(h) \in Statuses \ {0}
        /\ Verdict(h) = 200 =>
             /\ TenantOf[req[h].from] = req[h].tenant
             /\ TenantOf[req[h].to] = req[h].tenant
             /\ req[h].amount > 0
    BY <2>1, VerdictFacts
  <2> USE DEF Shape, TypeOK, RequestInv, LockInv
  <2>3. CASE Verdict(h) = 200
    BY <1>4, <2>1, <2>2, <2>3 DEF Validate
  <2>4. CASE Verdict(h) # 200
    <3>1. PICK s \in Statuses : Answer(h, s)
      BY <1>4, <2>2, <2>4 DEF Validate
    <3> QED
      BY <1>4, <2>1, <2>4, <3>1 DEF Validate, Answer
  <2> QED
    BY <2>3, <2>4
<1>5. ASSUME NEW h \in Handlers, Debit(h) PROVE Shape'
  BY <1>5 DEF Debit
<1>6. ASSUME NEW h \in Handlers, Credit(h) PROVE Shape'
  BY <1>6 DEF Credit, Answer
<1>7. ASSUME NEW h \in Handlers, Finish(h) PROVE Shape'
  BY <1>7 DEF Finish
<1>8. CASE Restart
  BY <1>8, SeedsAssumption DEF Restart
<1>9. CASE UNCHANGED vars
  BY <1>9 DEF vars
<1> HIDE DEF Shape
<1> QED
  BY <1>1, <1>2, <1>3, <1>4, <1>5, <1>6, <1>7, <1>8, <1>9 DEF Next, Handle

\* A request in flight keeps its shape: types, existing accounts of the
\* tenant of its token, a positive amount, and dbLock with one writer.
THEOREM ShapeInvariant == Spec => []Shape
BY InitShape, NextShape, PTL DEF Spec

\* The type invariant of the transfer service.
THEOREM TypeCorrect == Spec => []TypeOK
BY ShapeInvariant, PTL DEF Shape

-----------------------------------------------------------------------------
(* The bound on overdrafts                                                 *)

LEMMA HandlerCount == Cardinality(Handlers) \in Nat /\ Cardinality(Handlers) >= 1
<1>1. Cardinality(Handlers) \in Nat
  BY HandlersAssumption, FS_CardinalityType
<1>2. Cardinality(Handlers) # 0
  BY HandlersAssumption, FS_EmptySet
<1> QED
  BY <1>1, <1>2

LEMMA ApprovedCount ==
  ASSUME NEW a
  PROVE  /\ IsFiniteSet(Approved(a))
         /\ Cardinality(Approved(a)) \in Nat
         /\ Cardinality(Approved(a)) <= Cardinality(Handlers)
         /\ Approved(a) # {} => Cardinality(Approved(a)) >= 1
<1>1. Approved(a) \subseteq Handlers
  BY DEF Approved
<1>2. /\ IsFiniteSet(Approved(a))
      /\ Cardinality(Approved(a)) <= Cardinality(Handlers)
  BY <1>1, HandlersAssumption, FS_Subset
<1>3. Cardinality(Approved(a)) \in Nat
  BY <1>2, FS_CardinalityType
<1>4. Approved(a) # {} => Cardinality(Approved(a)) # 0
  BY <1>2, FS_EmptySet
<1> QED
  BY <1>2, <1>3, <1>4

\* What the other handlers can have taken grows by one amount with each.
LEMMA SpentStep ==
  ASSUME NEW k \in Int
  PROVE  /\ Spent(k) \in Int
         /\ Spent(k - 1) = Spent(k) + MaxAmount
         /\ k <= Cardinality(Handlers) => Spent(k) >= 0
<1> DEFINE d == Cardinality(Handlers) - k
<1>1. d \in Int /\ MaxAmount \in Int /\ MaxAmount >= 0
  BY HandlerCount, RequestsAssumption
<1>2. d * MaxAmount \in Int /\ (d + 1) * MaxAmount = d * MaxAmount + MaxAmount
  BY <1>1
<1>3. d >= 0 => d * MaxAmount >= 0
  BY <1>1
<1>4. Cardinality(Handlers) - (k - 1) = d + 1
  BY HandlerCount
<1>5. k <= Cardinality(Handlers) => d >= 0
  BY HandlerCount
<1> QED
  BY <1>2, <1>3, <1>4, <1>5 DEF Spent

LEMMA SpentShrinks ==
  ASSUME NEW j \in Int, NEW k \in Int, j <= k
  PROVE  Spent(k) <= Spent(j)
<1> DEFINE c == Cardinality(Handlers) - k
           d == k - j
<1>1. c \in Int /\ d \in Int /\ d >= 0 /\ MaxAmount \in Int /\ MaxAmount >= 0
  BY HandlerCount, RequestsAssumption
<1>2. (c + d) * MaxAmount = c * MaxAmount + d * MaxAmount
  BY <1>1
<1>3. d * MaxAmount \in Int /\ d * MaxAmount >= 0 /\ c * MaxAmount \in Int
  BY <1>1
<1>4. Cardinality(Handlers) - j = c + d
  BY HandlerCount
<1> QED
  BY <1>2, <1>3, <1>4 DEF Spent

\* A step that leaves the approved handlers of an account as they are, and
\* takes nothing from it, keeps it covered.
LEMMA CoveredKept ==
  ASSUME NEW a, Covered(a),
         balance[a] \in Int, balance'[a] \in Int, balance'[a] >= balance[a],
         Approved(a)' = Approved(a),
         \A h \in Approved(a) : req'[h] = req[h] /\ req[h].amount \in Int
  PROVE  Covered(a)'
<1>1. Spent(1) \in Int /\ Spent(Cardinality(Approved(a))) \in Int
  BY SpentStep, ApprovedCount
<1>2. Spent(1)' = Spent(1)
  BY DEF Spent
<1>3. Spent(Cardinality(Approved(a)))' = Spent(Cardinality(Approved(a)))
  BY DEF Spent
<1>4. CASE Approved(a) = {}
  BY <1>1, <1>2, <1>4 DEF Covered
<1>5. CASE Approved(a) # {}
  <2>1. PICK h \in Approved(a) :
          balance[a] >= req[h].amount - Spent(Cardinality(Approved(a)))
    BY <1>5 DEF Covered
  <2>2. balance'[a] >= req'[h].amount - Spent(Cardinality(Approved(a)))'
    BY <1>1, <1>3, <2>1
  <2> QED
    BY <1>5, <2>2 DEF Covered
<1> QED
  BY <1>4, <1>5

\* A handler that passes the check covers the account with its own amount.
LEMMA CoveredByValidate ==
  ASSUME Shape, NEW h \in Handlers, Validate(h), Verdict(h) = 200,
         NEW a, a = req[h].from
  PROVE  Covered(a)'
<1> DEFINE n == Cardinality(Approved(a)')
<1>1. h \in Approved(a)'
  BY DEF Validate, Shape, TypeOK, Approved
<1>2. /\ req' = req /\ balance' = balance
      /\ req[h].amount \in Int /\ balance[a] \in Int
  BY RequestsAssumption DEF Validate, Shape, TypeOK, RequestInv
<1>3. balance[a] >= req[h].amount
  BY VerdictFacts DEF Validate
<1>4. Spent(n) \in Int /\ Spent(n) >= 0
  <2>1. n \in Nat /\ n <= Cardinality(Handlers)
    <3>1. Approved(a)' \subseteq Handlers
      BY DEF Approved
    <3> QED
      BY <3>1, HandlersAssumption, FS_Subset, FS_CardinalityType
  <2> QED
    BY <2>1, SpentStep
<1>5. balance'[a] >= req'[h].amount - Spent(n)
  BY <1>2, <1>3, <1>4
<1> QED
  BY <1>1, <1>5 DEF Covered, Spent

\* A debit takes at most one amount from its account, and one handler fewer
\* is approved for it.
LEMMA CoveredByDebit ==
  ASSUME Shape, NEW h \in Handlers, Debit(h),
         NEW a, a = req[h].from, Covered(a)
  PROVE  Covered(a)'
<1> DEFINE k == Cardinality(Approved(a))
           n == req[h].amount
<1>1. h \in Approved(a) /\ Approved(a)' = Approved(a) \ {h}
  BY DEF Debit, Shape, TypeOK, Approved
<1>2. /\ req' = req
      /\ balance[a] \in Int
      /\ balance'[a] = balance[a] - n
      /\ \A g \in Approved(a) : /\ req[g].amount \in Int
                               /\ req[g].amount > 0
                               /\ req[g].amount <= MaxAmount
  BY RequestsAssumption DEF Debit, Shape, TypeOK, RequestInv, Approved
<1>3. k \in Nat /\ k >= 1 /\ Cardinality(Approved(a)') = k - 1
  BY <1>1, ApprovedCount, FS_RemoveElement
<1>4. Spent(k) \in Int /\ Spent(k - 1) = Spent(k) + MaxAmount
  BY <1>3, SpentStep
<1>5. MaxAmount \in Int /\ n \in Int /\ n > 0 /\ n <= MaxAmount
  BY <1>1, <1>2, RequestsAssumption
<1>6. PICK g \in Approved(a) : balance[a] >= req[g].amount - Spent(k)
  BY <1>1 DEF Covered
<1>7. CASE Approved(a)' = {}
  <2>1. g = h /\ k = 1
    BY <1>1, <1>3, <1>7, FS_EmptySet
  <2>2. balance'[a] >= -Spent(1)
    BY <1>2, <1>4, <1>5, <1>6, <2>1
  <2> QED
    BY <1>7, <2>2 DEF Covered, Spent
<1>8. CASE Approved(a)' # {}
  <2>1. PICK v \in Approved(a)' : balance'[a] >= req[v].amount - Spent(k - 1)
    <3>1. CASE g \in Approved(a)'
      <4>1. req[g].amount \in Int
        BY <1>2, <1>6
      <4>2. balance'[a] >= req[g].amount - Spent(k - 1)
        BY <1>2, <1>4, <1>5, <1>6, <4>1
      <4> QED
        BY <3>1, <4>2
    <3>2. CASE g \notin Approved(a)'
      <4>1. PICK v \in Approved(a)' : v \in Approved(a)
        BY <1>1, <1>8
      <4>2. g = h /\ req[v].amount \in Int /\ req[v].amount <= MaxAmount
        BY <1>1, <1>2, <1>6, <3>2, <4>1
      <4>3. balance'[a] >= req[v].amount - Spent(k - 1)
        BY <1>2, <1>4, <1>5, <1>6, <4>2
      <4> QED
        BY <4>3
    <3> QED
      BY <3>1, <3>2
  <2>2. balance'[a] >= req'[v].amount - Spent(Cardinality(Approved(a)'))
    BY <1>2, <1>3, <2>1
  <2> QED
    BY <1>8, <2>2 DEF Covered, Spent
<1> QED
  BY <1>7, <1>8

LEMMA InitOverdraft == Init => OverdraftInv
<1> SUFFICES ASSUME Init, NEW a \in DOMAIN balance PROVE Covered(a)
  BY DEF OverdraftInv
<1>1. Approved(a) = {}
  BY DEF Init, Approved
<1>2. balance[a] \in Nat
  BY SeedsAssumption DEF Init, Boot
<1>3. Spent(1) \in Int /\ Spent(1) >= 0
  BY HandlerCount, SpentStep
<1> QED
  BY <1>1, <1>2, <1>3 DEF Covered

LEMMA NextOverdraft == Shape /\ OverdraftInv /\ [Next]_vars => OverdraftInv'
<1> SUFFICES ASSUME Shape, OverdraftInv, [Next]_vars,
                    NEW a \in DOMAIN balance'
             PROVE  Covered(a)'
  BY DEF OverdraftInv
<1>1. Shape'
  BY NextShape
<1>2. /\ balance'[a] \in Int
      /\ a \in DOMAIN balance => balance[a] \in Int /\ Covered(a)
      /\ \A h \in Approved(a) : req[h].amount \in Int /\ req[h].amount > 0
  BY <1>1, RequestsAssumption
     DEF Shape, TypeOK, RequestInv, OverdraftInv, Approved
<1>3. ASSUME NEW h \in Handlers, Refuse(h) \/ Accept(h) \/ Lookup(h) \/ Finish(h)
      PROVE  Covered(a)'
  <2>1. /\ balance' = balance
        /\ Approved(a)' = Approved(a)
        /\ \A g \in Approved(a) : req'[g] = req[g]
    BY <1>3 DEF Refuse, Accept, Lookup, Finish, Answer, Approved, Shape, TypeOK
  <2> QED
    BY <1>2, <2>1, CoveredKept
<1>4. ASSUME NEW h \in Handlers, Validate(h) PROVE Covered(a)'
  <2>1. CASE Verdict(h) = 200 /\ a = req[h].from
    BY <1>4, <2>1, CoveredByValidate
  <2>2. CASE ~(Verdict(h) = 200 /\ a = req[h].from)
    <3>1. /\ balance' = balance /\ req' = req
          /\ Approved(a)' = Approved(a)
      BY <1>4, <2>2 DEF Validate, Answer, Approved, Shape, TypeOK
    <3> QED
      BY <1>2, <3>1, CoveredKept
  <2> QED
    BY <2>1, <2>2
<1>5. ASSUME NEW h \in Handlers, Debit(h) PROVE Covered(a)'
  <2>1. a \in DOMAIN balance /\ req' = req
    BY <1>5 DEF Debit, Shape, TypeOK
  <2>2. CASE a = req[h].from
    BY <1>2, <1>5, <2>1, <2>2, CoveredByDebit
  <2>3. CASE a # req[h].from
    <3>1. balance'[a] = balance[a] /\ Approved(a)' = Approved(a)
      BY <1>5, <2>1, <2>3 DEF Debit, Approved, Shape, TypeOK
    <3> QED
      BY <1>2, <2>1, <3>1, CoveredKept
  <2> QED
    BY <2>2, <2>3
<1>6. ASSUME NEW h \in Handlers, Credit(h) PROVE Covered(a)'
  <2>1. /\ a \in DOMAIN balance /\ req' = req
        /\ Approved(a)' = Approved(a)
    BY <1>6 DEF Credit, Answer, Approved, Shape, TypeOK
  <2>2. req[h].amount \in Int /\ req[h].amount > 0
    BY <1>6, RequestsAssumption DEF Credit, Shape, RequestInv
  <2>3. balance'[a] >= balance[a]
    BY <1>2, <1>6, <2>1, <2>2 DEF Credit, Shape, TypeOK
  <2> QED
    BY <1>2, <2>1, <2>3, CoveredKept
<1>7. CASE Restart
  <2>1. Approved(a)' = {}
    BY <1>7 DEF Restart, Approved
  <2>2. balance'[a] \in Nat
    BY <1>7, SeedsAssumption DEF Restart
  <2>3. Spent(1) \in Int /\ Spent(1) >= 0
    BY HandlerCount, SpentStep
  <2> QED
    BY <2>1, <2>2, <2>3 DEF Covered, Spent
<1>8. CASE UNCHANGED vars
  <2>1. balance' = balance /\ req' = req /\ Approved(a)' = Approved(a)
    BY <1>8 DEF vars, Approved
  <2> QED
    BY <1>2, <2>1, CoveredKept
<1> QED
  BY <1>3, <1>4, <1>5, <1>6, <1>7, <1>8 DEF Next, Handle

LEMMA InvBound == Shape /\ OverdraftInv => OverdraftBound
<1> SUFFICES ASSUME Shape, OverdraftInv, NEW a \in DOMAIN balance
             PROVE  balance[a] >= -Spent(1)
  BY DEF OverdraftBound, Spent
<1>1. balance[a] \in Int /\ Covered(a)
  BY DEF Shape, TypeOK, OverdraftInv
<1>2. CASE Approved(a) = {}
  BY <1>1, <1>2 DEF Covered
<1>3. CASE Approved(a) # {}
  <2> DEFINE k == Cardinality(Approved(a))
  <2>1. PICK h \in Approved(a) : balance[a] >= req[h].amount - Spent(k)
    BY <1>1, <1>3 DEF Covered
  <2>2. req[h].amount \in Int /\ req[h].amount > 0
    BY RequestsAssumption DEF Approved, Shape, RequestInv
  <2>3. k \in Int /\ 1 <= k
    BY <1>3, ApprovedCount
  <2>4. Spent(k) \in Int /\ Spent(1) \in Int /\ Spent(k) <= Spent(1)
    BY <2>3, SpentStep, SpentShrinks
  <2> QED
    BY <1>1, <2>1, <2>2, <2>4
<1> QED
  BY <1>2, <1>3

\* The invariant of the overdraft argument holds in every reachable state.
THEOREM InvariantHolds == Spec => []IndInv
<1>1. Init => Shape /\ OverdraftInv
  BY InitShape, InitOverdraft
<1>2. Shape /\ OverdraftInv /\ [Next]_vars => (Shape /\ OverdraftInv)'
  BY NextShape, NextOverdraft
<1>3. Shape /\ OverdraftInv => IndInv
  BY DEF Shape, IndInv
<1> QED
  BY <1>1, <1>2, <1>3, PTL DEF Spec

\* With n requests in flight an account is overdrawn by at most n - 1
\* amounts, whatever the accounts, the amounts and the number of handlers.
THEOREM OverdraftBounded == Spec => []OverdraftBound
<1>1. IndInv => OverdraftBound
  BY InvBound DEF IndInv, Shape
<1> QED
  BY <1>1, InvariantHolds, PTL

\* A server that handles one request at a time never overdraws an account:
\* the overdraft needs two handlers between the check and the debit.
THEOREM SerialNeverOverdraws ==
  ASSUME Cardinality(Handlers) = 1
  PROVE  Spec => []NoOverdraft
<1>1. OverdraftBound => NoOverdraft
  <2>1. -((Cardinality(Handlers) - 1) * MaxAmount) = 0
    BY RequestsAssumption
  <2> QED
    BY <2>1 DEF OverdraftBound, NoOverdraft
<1> QED
  BY <1>1, OverdraftBounded, PTL

-----------------------------------------------------------------------------
(* The service implements the abstract bank                                *)

LEMMA InitRefines == Init => BankOf!Init
<1> SUFFICES ASSUME Init PROVE BankOf!Init
  OBVIOUS
<1>1. SettledBalance = balance
  BY SeedsAssumption DEF Init, Boot, SettledBalance
<1>2. Outcome = [h \in Handlers |-> "idle"]
  BY DEF Init, Outcome
<1> QED
  BY <1>1, <1>2 DEF Init, Boot, BankOf!Init

\* A step that writes neither the balances nor the lock, and not the request
\* of the handler that holds it, changes no settled balance.
LEMMA SettledKept ==
  ASSUME balance' = balance, dbLock' = dbLock,
         dbLock # Free => req'[dbLock] = req[dbLock]
  PROVE  SettledBalance' = SettledBalance
BY DEF SettledBalance

\* An answer other than 200 is a refusal of the abstract bank.
LEMMA AnswerRefuses ==
  ASSUME Shape, NEW h \in Handlers, NEW s \in Statuses, s # 200, Answer(h, s),
         pc[h] # "answered", UNCHANGED <<balance, seed, dbLock, req>>
  PROVE  BankOf!Refuse(h)
<1>1. SettledBalance' = SettledBalance
  BY SettledKept
<1>2. Outcome[h] \in {"idle", "pending"}
  BY DEF Outcome
<1>3. Outcome' = [Outcome EXCEPT ![h] = "refused"]
  BY DEF Outcome, Answer, Shape, TypeOK
<1> QED
  BY <1>1, <1>2, <1>3 DEF BankOf!Refuse

\* The debit is invisible: the settled balance adds it back.
LEMMA DebitStutters ==
  ASSUME Shape, NEW h \in Handlers, Debit(h)
  PROVE  UNCHANGED <<SettledBalance, req, Outcome>>
<1>1. /\ req[h].amount \in Int
      /\ balance \in [DOMAIN balance -> Int]
      /\ req[h].from \in DOMAIN balance
      /\ h # Free
  BY RequestsAssumption, HandlersAssumption
     DEF Debit, Shape, TypeOK, RequestInv
<1>2. /\ DOMAIN balance' = DOMAIN balance
      /\ \A a \in DOMAIN balance :
           balance'[a] = IF a = req[h].from THEN balance[a] - req[h].amount
                                            ELSE balance[a]
  BY <1>1 DEF Debit
<1>3. ASSUME NEW a \in DOMAIN balance
      PROVE  SettledBalance'[a] = SettledBalance[a]
  BY <1>1, <1>2 DEF Debit, SettledBalance
<1>4. SettledBalance' = SettledBalance
  BY <1>2, <1>3 DEF SettledBalance
<1>5. Outcome' = Outcome
  BY DEF Debit, Outcome, Shape, TypeOK
<1> QED
  BY <1>4, <1>5 DEF Debit

\* The credit is where the transfer takes effect, as one move.
LEMMA CreditSettles ==
  ASSUME Shape, NEW h \in Handlers, Credit(h)
  PROVE  BankOf!Settle(h)
<1> DEFINE r == req[h]
<1>1. /\ r.amount \in Int /\ r.amount > 0
      /\ balance \in [DOMAIN balance -> Int]
      /\ r.from \in DOMAIN balance /\ r.to \in DOMAIN balance
      /\ TenantOf[r.from] = r.tenant /\ TenantOf[r.to] = r.tenant
      /\ dbLock = h /\ h # Free
  BY RequestsAssumption, HandlersAssumption
     DEF Credit, Shape, TypeOK, RequestInv, LockInv
<1>2. SettledBalance = [balance EXCEPT ![r.from] = @ + r.amount]
  BY <1>1 DEF SettledBalance
<1>3. SettledBalance' = balance'
  BY <1>1 DEF SettledBalance, Credit
<1>4. balance' = [balance EXCEPT ![r.to] = @ + r.amount]
  BY DEF Credit
<1>5. balance' = [[SettledBalance EXCEPT ![r.from] = @ - r.amount]
                                  EXCEPT ![r.to]   = @ + r.amount]
  <2> DEFINE back == [SettledBalance EXCEPT ![r.from] = @ - r.amount]
  <2>1. ASSUME NEW a \in DOMAIN balance PROVE back[a] = balance[a]
    BY <1>1, <1>2
  <2>2. back = [a \in DOMAIN balance |-> back[a]]
    BY <1>2
  <2>3. back = balance
    BY <1>1, <2>1, <2>2
  <2> QED
    BY <1>4, <2>3
<1>6. Outcome[h] = "pending" /\ Outcome' = [Outcome EXCEPT ![h] = "done"]
  BY DEF Outcome, Credit, Answer, Shape, TypeOK
<1>7. DOMAIN SettledBalance = DOMAIN balance /\ req' = req
  BY DEF SettledBalance, Credit
<1> QED
  BY <1>1, <1>3, <1>5, <1>6, <1>7 DEF BankOf!Settle

LEMMA NextRefines == Shape /\ [Next]_vars => [BankOf!Next]_(BankOf!vars)
<1> SUFFICES ASSUME Shape, [Next]_vars
             PROVE  BankOf!Next \/ UNCHANGED <<SettledBalance, req, Outcome>>
  BY DEF BankOf!vars
<1>1. ASSUME NEW h \in Handlers, Refuse(h) PROVE BankOf!Refuse(h)
  BY <1>1, AnswerRefuses DEF Refuse, Statuses
<1>2. ASSUME NEW h \in Handlers, Accept(h) PROVE BankOf!Submit(h)
  <2>1. SettledBalance' = SettledBalance
    BY <1>2 DEF Accept, SettledBalance, Shape, TypeOK, LockInv
  <2>2. Outcome[h] = "idle" /\ Outcome' = [Outcome EXCEPT ![h] = "pending"]
    BY <1>2 DEF Accept, Outcome, Shape, TypeOK
  <2> QED
    BY <1>2, <2>1, <2>2 DEF Accept, BankOf!Submit
<1>3. ASSUME NEW h \in Handlers, Lookup(h)
      PROVE  BankOf!Refuse(h) \/ UNCHANGED <<SettledBalance, req, Outcome>>
  <2>1. CASE {req[h].from, req[h].to} \subseteq DOMAIN balance
    <3>1. Outcome' = Outcome
      BY <1>3, <2>1 DEF Lookup, Outcome, Shape, TypeOK
    <3> QED
      BY <1>3, <3>1, SettledKept DEF Lookup
  <2>2. CASE ~({req[h].from, req[h].to} \subseteq DOMAIN balance)
    BY <1>3, <2>2, AnswerRefuses DEF Lookup, Statuses
  <2> QED
    BY <2>1, <2>2
<1>4. ASSUME NEW h \in Handlers, Validate(h)
      PROVE  BankOf!Refuse(h) \/ UNCHANGED <<SettledBalance, req, Outcome>>
  <2>1. CASE Verdict(h) = 200
    <3>1. Outcome' = Outcome
      BY <1>4, <2>1 DEF Validate, Outcome, Shape, TypeOK
    <3> QED
      BY <1>4, <3>1, SettledKept DEF Validate
  <2>2. CASE Verdict(h) # 200
    <3>1. PICK s \in Statuses : s # 200 /\ Answer(h, s)
      BY <1>4, <2>2, VerdictFacts DEF Validate
    <3> QED
      BY <1>4, <3>1, AnswerRefuses DEF Validate
  <2> QED
    BY <2>1, <2>2
<1>5. ASSUME NEW h \in Handlers, Finish(h) PROVE BankOf!Finish(h)
  <2>1. SettledBalance' = SettledBalance
    BY <1>5 DEF Finish, SettledBalance, Shape, TypeOK, LockInv
  <2>2. /\ Outcome[h] \in {"done", "refused"}
        /\ Outcome' = [Outcome EXCEPT ![h] = "idle"]
    BY <1>5 DEF Finish, Outcome, Shape, TypeOK
  <2> QED
    BY <1>5, <2>1, <2>2 DEF Finish, BankOf!Finish
<1>6. CASE Restart
  <2>1. SettledBalance' = balance'
    BY <1>6, SeedsAssumption DEF Restart, SettledBalance
  <2>2. Outcome' = [h \in Handlers |-> "idle"]
    BY <1>6 DEF Restart, Outcome
  <2>3. BankOf!Restart
    BY <1>6, <2>1, <2>2 DEF Restart, BankOf!Restart
  <2> QED
    BY <2>3 DEF BankOf!Next
<1>7. CASE UNCHANGED vars
  BY <1>7 DEF vars, SettledBalance, Outcome
<1> QED
  BY <1>1, <1>2, <1>3, <1>4, <1>5, <1>6, <1>7, DebitStutters, CreditSettles
     DEF Next, Handle, BankOf!Next

\* The service implements the abstract bank: a transfer is one move inside
\* the tenant of the token, made exactly when 200 is answered.
THEOREM Refinement == Spec => Refines
<1>1. Init => BankOf!Init
  BY InitRefines
<1>2. Shape /\ [Next]_vars => [BankOf!Next]_(BankOf!vars)
  BY NextRefines
<1> QED
  BY <1>1, <1>2, ShapeInvariant, PTL DEF Spec, Refines, BankOf!Spec

\* If no request names one account twice, a refusal for the balance is one
\* that also a service without intermediate states could have given.
THEOREM RefusalsLinearizable ==
  ASSUME \A r \in Requests : r.from # r.to
  PROVE  Spec => RefusalLinearizable
<1>1. ASSUME Shape, [Next]_vars, NEW h \in Handlers,
             pc[h] = "validate", pc'[h] = "answered", status'[h] = 402
      PROVE  \/ SettledBalance[req[h].from] < req[h].amount
             \/ CreditedBalance[req[h].from] < req[h].amount
  <2> DEFINE a == req[h].from
  <2>1. Validate(h)
    BY <1>1 DEF Next, Handle, Refuse, Accept, Lookup, Validate, Debit, Credit,
                Finish, Answer, Restart, vars, Shape, TypeOK
  <2>2. Verdict(h) = 402
    BY <1>1, <2>1, VerdictFacts DEF Validate, Answer, Shape, TypeOK
  <2>3. balance[a] < req[h].amount /\ a \in DOMAIN balance
    BY <1>1, <2>2, VerdictFacts DEF Shape, RequestInv
  <2>4. dbLock = Free \/ req[dbLock].from # req[dbLock].to
    BY <1>1 DEF Shape, TypeOK, RequestInv, LockInv
  <2>5. SettledBalance[a] = balance[a] \/ CreditedBalance[a] = balance[a]
    BY <2>3, <2>4 DEF SettledBalance, CreditedBalance
  <2> QED
    BY <2>3, <2>5
<1>2. Shape /\ [Next]_vars => [RefusalStep]_vars
  BY <1>1 DEF RefusalStep
<1> QED
  BY <1>2, ShapeInvariant, PTL DEF Spec, RefusalLinearizable

-----------------------------------------------------------------------------
(* Sums over finite sets of accounts                                       *)

\* The table of partial sums behind SumOver, for the subsets of S.
Chosen(s) == CHOOSE x \in s : TRUE

PartialSum(f, g, s) ==
  IF s = {} THEN 0 ELSE f[Chosen(s)] + g[s \ {Chosen(s)}]

SumTable(f, S) == CHOOSE g : g = [s \in SUBSET S |-> PartialSum(f, g, s)]

LEMMA SumOverTable ==
  ASSUME NEW f, NEW S
  PROVE  SumOver(f, S) = SumTable(f, S)[S]
BY DEF SumOver, MapThenSumSet, MapThenFoldSet, SumTable, PartialSum, Chosen

LEMMA ChosenMember ==
  ASSUME NEW S, IsFiniteSet(S), NEW s \in SUBSET S, s # {}
  PROVE  /\ Chosen(s) \in s
         /\ s \ {Chosen(s)} \in SUBSET S
         /\ Cardinality(s) \in Nat
         /\ Cardinality(s \ {Chosen(s)}) = Cardinality(s) - 1
<1>1. Chosen(s) \in s
  BY DEF Chosen
<1>2. IsFiniteSet(s)
  BY FS_Subset
<1> QED
  BY <1>1, <1>2, FS_RemoveElement, FS_CardinalityType

\* Every nonempty set of subsets of a finite set has a smallest member.
LEMMA SmallestSubset ==
  ASSUME NEW S, IsFiniteSet(S), NEW T \in SUBSET (SUBSET S), T # {}
  PROVE  \E U \in T : \A V \in SUBSET U : V # U => V \notin T
<1>1. IsWellFoundedOn(StrictSubsetOrdering(S), SUBSET S)
  BY FS_StrictSubsetOrderingWellFounded, FS_FiniteSubsetsOfFinite
<1>2. PICK U \in T : \A V \in T : <<V, U>> \notin StrictSubsetOrdering(S)
  BY <1>1, WFMin
<1>3. ASSUME NEW V \in SUBSET U, V # U PROVE V \notin T
  BY <1>2, <1>3 DEF StrictSubsetOrdering
<1> QED
  BY <1>3

\* The table exists: it is built up by the size of the sets.
LEMMA SumTableExists ==
  ASSUME NEW f, NEW S, IsFiniteSet(S)
  PROVE  \E g : g = [s \in SUBSET S |-> PartialSum(f, g, s)]
<1> DEFINE UpTo(U) == {s \in SUBSET S : Cardinality(s) <= Cardinality(U)}
           Tabulated(U) == \E g : g = [s \in UpTo(U) |-> PartialSum(f, g, s)]
           T == {U \in SUBSET S : ~Tabulated(U)}
<1> HIDE DEF T, UpTo
<1>1. \A s \in SUBSET S : IsFiniteSet(s) /\ Cardinality(s) \in Nat
  BY FS_Subset, FS_CardinalityType
<1>2. ASSUME NEW U \in T, \A V \in SUBSET U : V # U => V \notin T
      PROVE  FALSE
  <2>1. U \in SUBSET S /\ ~Tabulated(U)
    BY DEF T
  <2>2. CASE U = {}
    <3> DEFINE g == [s \in UpTo(U) |-> 0]
    <3>1. \A s \in UpTo(U) : s = {}
      BY <1>1, <2>2, FS_EmptySet DEF UpTo
    <3>2. g = [s \in UpTo(U) |-> PartialSum(f, g, s)]
      BY <3>1 DEF PartialSum
    <3> QED
      BY <2>1, <3>2
  <2>3. CASE U # {}
    <3> DEFINE V == U \ {Chosen(U)}
    <3>1. /\ V \in SUBSET S /\ V \in SUBSET U /\ V # U
          /\ Cardinality(U) = Cardinality(V) + 1
          /\ Cardinality(V) \in Nat
      BY <1>1, <2>1, <2>3, ChosenMember
    <3>2. PICK g : g = [s \in UpTo(V) |-> PartialSum(f, g, s)]
      BY <1>2, <3>1 DEF T
    <3> HIDE DEF V
    <3> DEFINE h == [s \in UpTo(U) |-> IF Cardinality(s) <= Cardinality(V)
                                         THEN g[s] ELSE PartialSum(f, g, s)]
    <3>3. ASSUME NEW s \in UpTo(U) PROVE h[s] = PartialSum(f, g, s)
      BY <3>2 DEF UpTo
    <3>4. ASSUME NEW s \in UpTo(U) PROVE PartialSum(f, g, s) = PartialSum(f, h, s)
      <4>1. CASE s = {}
        BY <4>1 DEF PartialSum
      <4>2. CASE s # {}
        <5> DEFINE r == s \ {Chosen(s)}
        <5>1. /\ s \in SUBSET S /\ Cardinality(s) <= Cardinality(V) + 1
              /\ Cardinality(s) \in Nat
          BY <1>1, <3>1 DEF UpTo
        <5>2. r \in SUBSET S /\ Cardinality(r) = Cardinality(s) - 1
          BY <4>2, <5>1, ChosenMember
        <5>3. r \in UpTo(U) /\ Cardinality(r) <= Cardinality(V)
          BY <3>1, <5>1, <5>2 DEF UpTo
        <5>4. h[r] = g[r]
          BY <5>3
        <5> QED
          BY <4>2, <5>4 DEF PartialSum
      <4> QED
        BY <4>1, <4>2
    <3>5. h = [s \in UpTo(U) |-> PartialSum(f, h, s)]
      BY <3>3, <3>4
    <3> QED
      BY <2>1, <3>5
  <2> QED
    BY <2>2, <2>3
<1>3. T = {}
  <2>1. T \in SUBSET (SUBSET S)
    BY DEF T
  <2> QED
    BY <1>2, <2>1, SmallestSubset
<1>4. Tabulated(S)
  BY <1>3 DEF T
<1>5. UpTo(S) = SUBSET S
  BY FS_Subset DEF UpTo
<1> QED
  BY <1>4, <1>5

LEMMA SumTableRecursion ==
  ASSUME NEW f, NEW S, IsFiniteSet(S), NEW s \in SUBSET S
  PROVE  SumTable(f, S)[s] = PartialSum(f, SumTable(f, S), s)
<1>1. SumTable(f, S) = [r \in SUBSET S |-> PartialSum(f, SumTable(f, S), r)]
  BY SumTableExists DEF SumTable
<1> QED
  BY <1>1

\* The integers of e are those of f but for the account b, which has d more.
Shifted(f, e, S, b, d) ==
  \A a \in S : f[a] \in Int /\ e[a] = f[a] + (IF a = b THEN d ELSE 0)

\* A sum of integers is an integer, and one account that changes by d changes
\* it by d.
LEMMA SumChanges ==
  ASSUME NEW S, IsFiniteSet(S), NEW f, NEW e, NEW b, NEW d \in Int,
         Shifted(f, e, S, b, d)
  PROVE  /\ SumOver(f, S) \in Int
         /\ SumOver(e, S) = SumOver(f, S) + (IF b \in S THEN d ELSE 0)
<1> DEFINE F == SumTable(f, S)
           E == SumTable(e, S)
           Right(s) == F[s] \in Int /\ E[s] = F[s] + (IF b \in s THEN d ELSE 0)
           T == {s \in SUBSET S : ~Right(s)}
<1> HIDE DEF F, E
<1>1. ASSUME NEW U \in T, \A V \in SUBSET U : V # U => V \notin T
      PROVE  FALSE
  <2>1. /\ F[U] = PartialSum(f, F, U)
        /\ E[U] = PartialSum(e, E, U)
    BY SumTableRecursion DEF F, E
  <2>2. CASE U = {}
    BY <2>1, <2>2 DEF PartialSum
  <2>3. CASE U # {}
    <3> DEFINE c == Chosen(U)
               V == U \ {c}
    <3>1. c \in U /\ V \in SUBSET S
      BY <2>3, ChosenMember
    <3>2. Right(V)
      BY <1>1, <3>1
    <3>3. F[U] = f[c] + F[V] /\ E[U] = e[c] + E[V]
      BY <2>1, <2>3 DEF PartialSum
    <3> HIDE DEF c
    <3>4. f[c] \in Int /\ e[c] = f[c] + (IF c = b THEN d ELSE 0)
      BY <3>1 DEF Shifted
    <3>5. b \in U <=> b = c \/ b \in V
      BY <3>1
    <3>6. b = c => b \notin V
      OBVIOUS
    <3>7. Right(U)
      BY <3>2, <3>3, <3>4, <3>5, <3>6
    <3> QED
      BY <3>7
  <2> QED
    BY <2>2, <2>3
<1>2. T = {}
  <2>1. T \in SUBSET (SUBSET S)
    OBVIOUS
  <2> HIDE DEF T
  <2> QED
    BY <1>1, <2>1, SmallestSubset
<1>3. Right(S)
  BY <1>2
<1> QED
  BY <1>3, SumOverTable DEF F, E

-----------------------------------------------------------------------------
(* The money of a tenant                                                   *)

LEMMA SettledType ==
  ASSUME Shape, NEW t
  PROVE  /\ SettledBalance \in [DOMAIN SettledBalance -> Int]
         /\ OwnedBy(t) \in SUBSET DOMAIN SettledBalance
         /\ IsFiniteSet(OwnedBy(t))
<1>1. DOMAIN balance \subseteq AccountIds
  BY SeedsAssumption DEF Shape, TypeOK
<1>2. IsFiniteSet(OwnedBy(t))
  BY <1>1, SeedsAssumption, FS_Subset DEF OwnedBy
<1>3. dbLock # Free => req[dbLock].amount \in Int
  BY RequestsAssumption DEF Shape, TypeOK, RequestInv, LockInv
<1> QED
  BY <1>2, <1>3 DEF OwnedBy, SettledBalance, Shape, TypeOK

\* A move between two accounts that are both in the set, or both not, leaves
\* the sum as it is: what the first change takes, the second gives back.
LEMMA MoveKeepsSum ==
  ASSUME NEW S, IsFiniteSet(S), NEW f, NEW g, NEW e, NEW x, NEW y, NEW n \in Int,
         Shifted(f, g, S, x, -n), Shifted(g, e, S, y, n), x \in S <=> y \in S
  PROVE  SumOver(e, S) = SumOver(f, S)
<1>1. -n \in Int
  OBVIOUS
<1>2. /\ SumOver(f, S) \in Int
      /\ SumOver(g, S) = SumOver(f, S) + (IF x \in S THEN -n ELSE 0)
  BY <1>1, SumChanges
<1>3. SumOver(e, S) = SumOver(g, S) + (IF y \in S THEN n ELSE 0)
  BY SumChanges
<1> QED
  BY <1>2, <1>3

LEMMA InitFunds == Init => TenantFundsConserved
<1> SUFFICES ASSUME Init, NEW t \in Tenants
             PROVE  SumOver(SettledBalance, OwnedBy(t)) = SumOver(seed, OwnedBy(t))
  BY DEF TenantFundsConserved
<1>1. SettledBalance = seed
  BY SeedsAssumption DEF Init, Boot, SettledBalance
<1> QED
  BY <1>1

LEMMA NextFunds ==
  Shape /\ TenantFundsConserved /\ [Next]_vars => TenantFundsConserved'
<1> SUFFICES ASSUME Shape, TenantFundsConserved, [Next]_vars, NEW t \in Tenants
             PROVE  (SumOver(SettledBalance, OwnedBy(t)) = SumOver(seed, OwnedBy(t)))'
  BY DEF TenantFundsConserved, Tenants, AccountIds
<1>1. Shape'
  BY NextShape
<1>2. SumOver(SettledBalance, OwnedBy(t)) = SumOver(seed, OwnedBy(t))
  BY DEF TenantFundsConserved
<1>3. CASE SettledBalance' = SettledBalance /\ seed' = seed
  <2>1. OwnedBy(t)' = OwnedBy(t)
    BY <1>3 DEF OwnedBy, SettledBalance
  <2> QED
    BY <1>2, <1>3, <2>1
<1>4. ASSUME NEW h \in Handlers, Credit(h)
      PROVE  (SumOver(SettledBalance, OwnedBy(t)) = SumOver(seed, OwnedBy(t)))'
  <2> DEFINE r == req[h]
  <2>1. BankOf!Settle(h)
    BY <1>4, CreditSettles
  <2>2. /\ r.from \in DOMAIN SettledBalance /\ r.to \in DOMAIN SettledBalance
        /\ TenantOf[r.from] = TenantOf[r.to]
        /\ SettledBalance' = [[SettledBalance EXCEPT ![r.from] = @ - r.amount]
                                              EXCEPT ![r.to]   = @ + r.amount]
    BY <2>1 DEF BankOf!Settle
  <2>3. r.amount \in Int
    BY <1>4, RequestsAssumption DEF Credit, Shape, RequestInv
  <2>4. OwnedBy(t)' = OwnedBy(t) /\ seed' = seed
    BY <1>4, <2>2 DEF Credit, OwnedBy, Shape, TypeOK
  <2>5. r.from \in OwnedBy(t) <=> r.to \in OwnedBy(t)
    BY <2>2 DEF OwnedBy, SettledBalance
  <2>6. /\ SettledBalance \in [DOMAIN SettledBalance -> Int]
        /\ OwnedBy(t) \in SUBSET DOMAIN SettledBalance
        /\ IsFiniteSet(OwnedBy(t))
    BY SettledType
  <2> DEFINE between == [SettledBalance EXCEPT ![r.from] = @ - r.amount]
  <2>7. Shifted(SettledBalance, between, OwnedBy(t), r.from, -r.amount)
    BY <2>3, <2>6 DEF Shifted
  <2>8. Shifted(between, SettledBalance', OwnedBy(t), r.to, r.amount)
    BY <2>2, <2>3, <2>6 DEF Shifted
  <2> HIDE DEF between
  <2>9. SumOver(SettledBalance', OwnedBy(t)) = SumOver(SettledBalance, OwnedBy(t))
    BY <2>3, <2>5, <2>6, <2>7, <2>8, MoveKeepsSum
  <2> QED
    BY <1>2, <2>4, <2>9
<1>5. CASE Restart
  <2>1. SettledBalance' = seed'
    BY <1>5, SeedsAssumption DEF Restart, SettledBalance
  <2> QED
    BY <2>1
<1>6. ASSUME NEW h \in Handlers, Refuse(h) \/ Accept(h) \/ Lookup(h) \/ Validate(h) \/ Finish(h)
      PROVE  SettledBalance' = SettledBalance /\ seed' = seed
  BY <1>6, SettledKept DEF Refuse, Accept, Lookup, Validate, Finish, Shape, TypeOK, LockInv
<1>7. ASSUME NEW h \in Handlers, Debit(h)
      PROVE  SettledBalance' = SettledBalance /\ seed' = seed
  BY <1>7, DebitStutters DEF Debit
<1>8. CASE UNCHANGED vars
  BY <1>3, <1>8, SettledKept DEF vars
<1> QED
  BY <1>3, <1>4, <1>5, <1>6, <1>7, <1>8 DEF Next, Handle

\* However the requests interleave, the accounts of a tenant hold what the
\* process was started with, with the credit still to be written counted in.
THEOREM FundsConserved == Spec => []TenantFundsConserved
BY InitShape, NextShape, InitFunds, NextFunds, PTL DEF Spec
=============================================================================
