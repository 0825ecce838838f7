---------------------------- MODULE MCTampering ----------------------------
(* An instance of Tampering for TLC: two events of one agent and one of     *)
(* another, and a key that may be missing, exchanged, blank or unusable.    *)
EXTENDS Tampering, SequencesExt

CONSTANTS a1, a2, t1, t2, t3, key1, key2

MCAgent == {a1, a2}
MCTrace == {t1, t2, t3}
MCAgentOf == (t1 :> a1 @@ t2 :> a1 @@ t3 :> a2)

MCStoreKeys == {key1, key2}
MCSettings == [kind : {"unset", "blank", "file", "garbled"}, key : MCStoreKeys]

(* The events of an agent are interchangeable, and the store's keys. *)
MCSymmetry == Permutations({t1, t2}) \cup Permutations(MCStoreKeys)

(* What the rest of a behaviour and the properties can tell: nothing is     *)
(* signed after the first edit, and a verification, which is Reported or    *)
(* Stopped in the end, looks at its own agent only.                         *)
MCView ==
    IF audit = None
    THEN <<files, stage, IF edits = 0 THEN signer ELSE None, clock, edits, history>>
    ELSE LET a == audit.agent_id
             Its(s) == {c \in s : c.agent_id = a}
         IN  <<log[a], chain[a], Its(ToSet(ckpts)), recorded[a], Its(issued), audit>>
=============================================================================
