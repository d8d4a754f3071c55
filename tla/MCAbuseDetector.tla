-------------------------- MODULE MCAbuseDetector --------------------------
(***************************************************************************)
(* Small instances of AbuseDetector.  A plain request has no word of any   *)
(* pattern in it; the others are a probe, and a plain request of another   *)
(* tenant from the same address.                                           *)
(***************************************************************************)
EXTENDS AbuseDetector, TLC

Plain(t, m) ==
  [tenant |-> t, ip |-> "ip1", method |-> m, size |-> 0, body |-> {},
   path |-> {"api"}, query |-> {}, fromTrustedProxy |-> FALSE,
   headers |-> [n \in {"User-Agent"} |-> {"browser"}]]

OneSource == {Plain("alpha", "GET")}
TwoTenants == {Plain("alpha", "HEAD"), Plain("beta", "GET")}
WithProbes == {Plain("alpha", "GET"), Plain("alpha", "HEAD")}

MCSqlWords == {"select", "drop"}
MCXssWords == {"<script"}
MCBotWords == {"bot", "curl"}
MCTraversalWords == {"../"}

WorkerSymmetry == Permutations(Workers)
=============================================================================
