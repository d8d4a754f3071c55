--------------------------- MODULE MCRateLimiter ---------------------------
(***************************************************************************)
(* Small instances of RateLimiter: "alpha" has a limit from the start,     *)
(* "guest" none until SetLimit gives it one.  Buckets are independent, so  *)
(* two tenants show every interaction there is.                            *)
(***************************************************************************)
EXTENDS RateLimiter

MCTenants == {"alpha", "guest"}
MCInitLimits == [t \in {"alpha"} |-> 2]
=============================================================================
