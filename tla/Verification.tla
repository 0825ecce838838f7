---------------------------- MODULE Verification ----------------------------
(***************************************************************************)
(* GET /v1/integrity/verify against a store that keeps appending,          *)
(* archiving, crashing and restarting (EventStore::verify_chains_for).     *)
(*                                                                         *)
(* The archive is read back BEFORE the store's mutex is taken; the live    *)
(* events and the chains are read under it.  Everything the store does in  *)
(* between happens between the two reads.  Nobody edits the files here, so *)
(* positions and hashes always agree and the only check of verify_chain    *)
(* that can fail is the lookup of an entry's event.                        *)
(***************************************************************************)
EXTENDS EventStore

VARIABLES
    reading,    \* a verification has read the archive and waits for the lock
    archived,   \* what it read there
    missing     \* what the last verification reported missing from the log

verifier == <<reading, archived, missing>>

VInit ==
    /\ Init
    /\ reading = FALSE
    /\ archived = {}
    /\ missing = {}

ReadArchive ==
    /\ pc \notin {"down", "replay", "recover"}
    /\ ~reading
    /\ reading' = TRUE
    /\ archived' = Range(archive)
    /\ missing' = {}
    /\ UNCHANGED vars

(* verify_chain: the first entry of the agent's chain whose event is not    *)
(* among those that were read.                                              *)
FirstMissing(a, known) ==
    {chain[a][i].trace : i \in {k \in DOMAIN chain[a] :
        /\ chain[a][k].trace \notin known
        /\ \A j \in 1 .. k - 1 : chain[a][j].trace \in known}}

VerifyChains ==
    /\ pc = "idle"
    /\ reading
    /\ reading' = FALSE
    /\ archived' = {}
    /\ missing' = UNION {FirstMissing(a, archived \cup Range(events)) : a \in Agent}
    /\ UNCHANGED vars

(* A request dies with the process that serves it. *)
VStoreStep ==
    /\ Next
    /\ IF pc' = "down"
          THEN reading' = FALSE /\ archived' = {} /\ missing' = {}
          ELSE UNCHANGED verifier

VNext == VStoreStep \/ ReadArchive \/ VerifyChains

VSpec == VInit /\ [][VNext]_<<vars, verifier>>

-----------------------------------------------------------------------------
(* What a verification of an untampered store can get wrong is bounded: an  *)
(* event it calls missing was moved to the archive after the archive had    *)
(* been read, and it is there now.  An event that was archived before, or   *)
(* that never left the live log, is never reported                          *)
(* (verify_chains_for, enforce_retention).                                  *)
OnlyMovedEventsMissing ==
    [][VerifyChains => missing' \subseteq Range(archive) \ archived]_<<vars, verifier>>
=============================================================================
