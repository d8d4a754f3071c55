---------------------------- MODULE TokenManager ----------------------------
(***************************************************************************)
(* pkg/auth/auth.go: what NewToken puts into a token and when              *)
(* ValidateToken accepts it.  Neither keeps any state: services share the  *)
(* key pair and each reads its own clock, so both are operators of a time. *)
(*                                                                         *)
(* A token is the claims some service reads: the tenant and the two dates. *)
(* Only a holder of the key makes one; anything else a client may send as  *)
(* a bearer token (another algorithm, signature or issuer, no token at     *)
(* all) is the one value Forged.  UserID and ClientID are only logged.     *)
(***************************************************************************)
EXTENDS Integers

CONSTANTS
  Second,     \* ticks of the clocks in a second
  Lifetime,   \* the 24 hours of expiryHours, in ticks
  Forged      \* a bearer token that no token manager has signed

ASSUME TokenAssumption ==
  /\ Second \in Nat \ {0}
  /\ Lifetime \in Nat \ {0}
  /\ Lifetime % Second = 0

\* Faulty variant: dates are rounded up.
NumericDateUp(t) == t + (Second - 1) - ((t + Second - 1) % Second)

\* jwt.NewNumericDate drops the fraction of a second.
NumericDate(t) == t - (t % Second)

NewToken(tenant, clock) ==
  [tenant |-> tenant,
   notBefore |-> NumericDate(clock),
   expiresAt |-> NumericDate(clock + Lifetime)]

\* Faulty variant: a token is accepted to the end of its last second.
ValidateLate(token, clock) ==
  /\ token # Forged
  /\ clock >= token.notBefore
  /\ clock < token.expiresAt + Second

\* The signature, the two dates (the parser is given no leeway), the issuer.
ValidateToken(token, clock) ==
  /\ token # Forged
  /\ clock >= token.notBefore
  /\ clock < token.expiresAt
=============================================================================
