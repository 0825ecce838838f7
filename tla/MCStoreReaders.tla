--------------------------- MODULE MCStoreReaders ---------------------------
(* An instance of StoreReaders for TLC: three events of one agent. *)
EXTENDS StoreReaders, TLC

CONSTANTS a1, t1, t2, t3

MCTrace == {t1, t2, t3}
MCAgentOf == [t \in Trace |-> a1]
MCSent == [t \in Trace |-> 0]

(* Every event has the same agent and timestamp: they are interchangeable. *)
MCSymmetry == Permutations(MCTrace)
=============================================================================
