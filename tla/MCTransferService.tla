------------------------- MODULE MCTransferService -------------------------
(***************************************************************************)
(* Small instances of TransferService: tenant "alpha" with two accounts,   *)
(* tenant "beta" with one.  A start gives the database of RichSeed or, as  *)
(* accounts are drawn at random, one without the account a2.               *)
(***************************************************************************)
EXTENDS TransferService, TLC

MCTenantOf ==
  [a \in {"a1", "a2", "b1"} |-> IF a = "b1" THEN "beta" ELSE "alpha"]

RichSeed == [a \in {"a1", "a2", "b1"} |-> IF a = "b1" THEN 1 ELSE 2]
PoorSeed == [a \in {"a1", "b1"} |-> 1]
MCSeeds == {RichSeed, PoorSeed}

Ask(t, f, to, n) == [tenant |-> t, from |-> f, to |-> to, amount |-> n]

\* Between two accounts: the legal transfers of alpha, one of each refusal.
MCRequests ==
  {Ask("alpha", "a1", "a2", 1), Ask("alpha", "a1", "a2", 2),
   Ask("alpha", "a2", "a1", 1), Ask("alpha", "a2", "a1", 2),
   Ask("alpha", "a1", "b1", 1), Ask("beta", "a1", "b1", 1),
   Ask("beta", "b1", "a1", 1),
   Ask("alpha", "a1", "a2", 0), Ask("alpha", "a1", "a2", -1)}

\* Also from an account to itself, which the code does not refuse.
SelfRequests ==
  MCRequests \cup {Ask("alpha", "a1", "a1", 2), Ask("beta", "b1", "b1", 1)}

AlphaRequests == {r \in SelfRequests : r.tenant = "alpha" /\ r.amount > 0}

HandlerSymmetry == Permutations(Handlers)
=============================================================================
