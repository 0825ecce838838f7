-------------------------- MODULE EventStoreLedger --------------------------
(* The event store implements the evidence ledger. *)
EXTENDS EventStore

(* What the store's files amount to. *)
Stored == Range(log) \cup Range(archive)
LedgerOf == [a \in Agent |-> [i \in DOMAIN chain[a] |-> chain[a][i].trace]]
Pinned == [a \in Agent |-> Len(chain[a]) - Cardinality(Uncommitted(a))]

Ledger == INSTANCE EvidenceLedger
          WITH stored <- Stored, ledger <- LedgerOf, pinned <- Pinned, told <- acked

(* Every step of the store, crashes, restarts, compactions and failed       *)
(* writes included, is a step of the ledger or none: evidence, entries and  *)
(* pins are only ever added, in the ledger's order, and what is forgotten   *)
(* is an event whose append failed (append, open_jsonl,                     *)
(* enforce_retention, commit_checkpoint).                                   *)
ImplementsLedger == Ledger!LSpec
=============================================================================
