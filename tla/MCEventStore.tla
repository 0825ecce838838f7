---------------------------- MODULE MCEventStore ----------------------------
(* Instances of EventStore for TLC: three to five events of one or two agents. *)
EXTENDS EventStoreLedger, TLC

CONSTANTS a1, a2, s1, s2, s3, t1, t2, t3, t4, t5

(* Two sessions of one agent and one of another. *)
MCSession == {s1, s2, s3}
MCAgent == {a1, a2}

Three == {t1, t2, t3}
AgentOfThree == (t1 :> a1) @@ (t2 :> a2) @@ (t3 :> a1)
SessionOfThree == (t1 :> s1) @@ (t2 :> s3) @@ (t3 :> s2)

(* One agent with one session, where the number of events matters more. *)
Four == {t1, t2, t3, t4}
Five == {t1, t2, t3, t4, t5}
AgentOfAll == [t \in Trace |-> a1]
SessionOfAll == [t \in Trace |-> s1]

(* One agent with two sessions. *)
SessionOfTwo == [t \in Trace |-> IF t = t3 THEN s2 ELSE s1]

(* Events of one session, with equal timestamps, are interchangeable. *)
MCSymmetry == {p \in Permutations(Trace) : \A t \in Trace : SessionOf[p[t]] = SessionOf[t]}

(* Every client clock lags: t1 is back-dated to the epoch. *)
SentEarly == [t \in Trace |-> 0]
=============================================================================
