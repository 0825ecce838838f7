--------------------------- MODULE EvidenceLedger ---------------------------
(***************************************************************************)
(* What the evidence store promises, without files, indices, locks or      *)
(* crashes.  There is a set of stored events, one append-only ledger per   *)
(* agent, for each agent the longest prefix of its ledger that a           *)
(* checkpoint pins, and the set of events some client was told are stored. *)
(***************************************************************************)
EXTENDS Naturals, Sequences, Functions

CONSTANTS Agent, Trace, AgentOf

VARIABLES stored, ledger, pinned, told

lvars == <<stored, ledger, pinned, told>>

LInit ==
    /\ stored = {}
    /\ ledger = [a \in Agent |-> <<>>]
    /\ pinned = [a \in Agent |-> 0]
    /\ told = {}

(* An event becomes durable ... *)
Store(t) ==
    /\ stored' = stored \cup {t}
    /\ UNCHANGED <<ledger, pinned, told>>

(* ... and is then entered in its agent's ledger, at the end. *)
Enter(t) ==
    /\ t \in stored
    /\ ledger' = [ledger EXCEPT ![AgentOf[t]] = Append(@, t)]
    /\ UNCHANGED <<stored, pinned, told>>

(* A checkpoint pins a longer prefix than any before it. *)
Pin(a) ==
    /\ pinned[a] < Len(ledger[a])
    /\ pinned' = [pinned EXCEPT ![a] = Len(ledger[a])]
    /\ UNCHANGED <<stored, ledger, told>>

(* Only a stored event is acknowledged. *)
Tell(t) ==
    /\ t \in stored
    /\ told' = told \cup {t}
    /\ UNCHANGED <<stored, ledger, pinned>>

(* Events may be forgotten only if their append failed: nobody was told     *)
(* they are stored, and no ledger has them.                                 *)
Forget(S) ==
    /\ S \cap told = {}
    /\ \A a \in Agent : S \cap Range(ledger[a]) = {}
    /\ stored' = stored \ S
    /\ UNCHANGED <<ledger, pinned, told>>

LNext ==
    \/ \E t \in Trace : Store(t) \/ Enter(t) \/ Tell(t)
    \/ \E a \in Agent : Pin(a)
    \/ \E S \in SUBSET stored : Forget(S)

LSpec == LInit /\ [][LNext]_lvars
=============================================================================
