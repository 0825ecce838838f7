-------------------------------- MODULE MCSdk --------------------------------
(* An instance of Sdk for TLC: two calls, two policies that disagree about  *)
(* both, and a caller that asks for a policy that is not in force.          *)
EXTENDS Sdk, TLC

CONSTANTS c1, c2, strict, lax, other

MCCall == {c1, c2}
MCPolicy == {strict, lax}
MCRuling == (strict :> (c1 :> "FAIL" @@ c2 :> "ESCALATE") @@ lax :> (c1 :> "PASS" @@ c2 :> "PASS"))
MCAsked == {other}
=============================================================================
