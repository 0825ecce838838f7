----------------------------- MODULE MCService -----------------------------
(* An instance of Service for TLC: two batches with the same two events in  *)
(* opposite orders, one of them with a duplicate, and a request to any      *)
(* other route.                                                             *)
EXTENDS Service

CONSTANTS b1, b2, other, t1, t2, a1, a2, s1, s2

MCBatch == {b1, b2}
MCRequest == MCBatch \cup {other}
MCPoolSizes == {1, 2}
MCTrace == {t1, t2}
MCBody == (b1 :> <<t1, t2>> @@ b2 :> <<t2, t1, t2>>)
MCAgentOf == (t1 :> a1 @@ t2 :> a2)
MCSessionOf == (t1 :> s1 @@ t2 :> s2)
MCSent == (t1 :> 2 @@ t2 :> 1)
=============================================================================
