------------------------------ MODULE Integrity ------------------------------
(***************************************************************************)
(* The tamper-evident chain (core-rs/src/integrity.rs) and its checkpoints *)
(* (core-rs/src/checkpoint.rs), as data.                                   *)
(*                                                                         *)
(* A hash is the tuple of everything its preimage binds, previous hash     *)
(* included: equal hashes bind equal contents, which is what is assumed of *)
(* SHA-256 over a canonical, self-describing form.  A signature is the     *)
(* pair of the key that made it and the preimage it was made over: nobody  *)
(* makes one without the key, which is what is assumed of Ed25519.  `seq'  *)
(* is a u64 that no chain exhausts.                                        *)
(***************************************************************************)
EXTENDS Integers, Sequences

CONSTANT None

(* EventHash::GENESIS. *)
Genesis == <<>>

(* Mistake: the previous hash is left out of the preimage. *)
ComputeHashAlone(seq, agent_id, trace_id, recorded_at, prev_hash, event) ==
    <<seq, agent_id, trace_id, recorded_at, Genesis, event>>

(* compute_hash over hash_preimage. *)
ComputeHash(seq, agent_id, trace_id, recorded_at, prev_hash, event) ==
    <<seq, agent_id, trace_id, recorded_at, prev_hash, event>>

HeadHash(entries) == IF entries = <<>> THEN Genesis ELSE entries[Len(entries)].hash

NextSeq(entries) == IF entries = <<>> THEN 1 ELSE entries[Len(entries)].seq + 1

(* ChainEntry::next: the entry for an event after those of its agent. *)
NextEntry(entries, event, recorded_at, recovered) ==
    [seq         |-> NextSeq(entries),
     agent_id    |-> event.agent_id,
     trace_id    |-> event.trace_id,
     recorded_at |-> recorded_at,
     prev_hash   |-> HeadHash(entries),
     hash        |-> ComputeHash(NextSeq(entries), event.agent_id, event.trace_id,
                                 recorded_at, HeadHash(entries), event),
     recovered   |-> recovered]

(* Mistake: an event that is not in the log is passed over. *)
EntryHoldsOrAbsent(agent_id, entry, expected_seq, expected_prev, known) ==
    /\ entry.agent_id = agent_id
    /\ entry.seq = expected_seq
    /\ entry.prev_hash = expected_prev
    /\ \A event \in known :
          event.trace_id = entry.trace_id =>
            entry.hash = ComputeHash(entry.seq, entry.agent_id, entry.trace_id,
                                     entry.recorded_at, entry.prev_hash, event)

(* Mistake: each entry is held against its event, and not against the entry *)
(* before.                                                                  *)
EntryHoldsAlone(agent_id, entry, expected_seq, expected_prev, known) ==
    \E event \in known :
        /\ event.trace_id = entry.trace_id
        /\ entry.hash = ComputeHash(entry.seq, entry.agent_id, entry.trace_id,
                                    entry.recorded_at, entry.prev_hash, event)

(* The checks of verify_chain's loop on one entry: its agent, its position, *)
(* its link to the entry before, its event, which is looked up by trace id  *)
(* among the known ones, and its hash.                                      *)
EntryHolds(agent_id, entry, expected_seq, expected_prev, known) ==
    /\ entry.agent_id = agent_id
    /\ entry.seq = expected_seq
    /\ entry.prev_hash = expected_prev
    /\ \E event \in known :
          /\ event.trace_id = entry.trace_id
          /\ entry.hash = ComputeHash(entry.seq, entry.agent_id, entry.trace_id,
                                      entry.recorded_at, entry.prev_hash, event)

-----------------------------------------------------------------------------
(* Mistake: the signature does not cover the head. *)
CheckpointPreimageHeadless(agent_id, seq, head_hash, created_at) ==
    <<agent_id, seq, created_at>>

CheckpointPreimage(agent_id, seq, head_hash, created_at) ==
    <<agent_id, seq, head_hash, created_at>>

(* No signature: no pair of a key and a preimage. *)
Unsigned == <<>>

(* CheckpointSigner::sign, or unsigned_checkpoint without a key. *)
CheckpointOver(agent_id, entry, created_at, key) ==
    [agent_id   |-> agent_id,
     seq        |-> entry.seq,
     head_hash  |-> entry.hash,
     created_at |-> created_at,
     public_key |-> key,
     signature  |-> IF key = None THEN Unsigned
                    ELSE <<key, CheckpointPreimage(agent_id, entry.seq, entry.hash, created_at)>>]

IsSigned(c) == c.public_key # None /\ c.signature # Unsigned

(* verify_checkpoint returns Ok(true): it returns Ok(false) if there is no   *)
(* signature and Err if there is one that does not hold.                    *)
SignatureHolds(c) ==
    /\ IsSigned(c)
    /\ c.signature = <<c.public_key,
                       CheckpointPreimage(c.agent_id, c.seq, c.head_hash, c.created_at)>>
=============================================================================
