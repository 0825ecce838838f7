------------------------------ MODULE Tampering ------------------------------
(***************************************************************************)
(* What the integrity chain and its checkpoints detect: the store records  *)
(* events, links them and commits checkpoints; somebody edits its files    *)
(* while it is down; the store opens what it finds, repairing what looks   *)
(* like a crash; and an auditor recomputes a chain and compares it with    *)
(* the checkpoints that were archived off-box.                             *)
(*                                                                         *)
(* An append is one step here, its crashes being EventStore's subject, and *)
(* every event is live.  The files are kept per agent, as opening the      *)
(* store groups their lines.  Nothing is recorded after the first edit:    *)
(* `recorded' and `issued' are what had happened before.                   *)
(***************************************************************************)
EXTENDS Integrity, FiniteSets

CONSTANTS
    Agent, Trace, AgentOf,
    StoreKeys, OtherKey,  \* the store's signing keys and one it does not have
    Settings,             \* what TRUSTLAYER_SIGNING_KEY may be at a start
    MaxClock,             \* bound: the store's clock
    MaxCheckpoints,       \* bound: checkpoints
    MaxEdits              \* bound: edited lines

Content == {"original", "changed"}

(* What the variable may be: missing, no Unicode, nothing but white space,  *)
(* the path of a file only its owner may read or of one that others may     *)
(* read, the seed itself, or anything else.                                 *)
Kinds == {"unset", "not unicode", "blank", "file", "shared file", "seed", "garbled"}

ASSUME TamperingAssumption ==
    /\ AgentOf \in [Trace -> Agent]
    /\ None \notin StoreKeys /\ OtherKey # None /\ OtherKey \notin StoreKeys
    /\ Settings \subseteq [kind : Kinds, key : StoreKeys]
    /\ MaxClock \in Nat
    /\ MaxCheckpoints \in Nat
    /\ MaxEdits \in Nat

VARIABLES
    log,        \* each agent's events in events.jsonl
    chain,      \* its entries in events.jsonl.chain
    ckpts,      \* events.checkpoints.jsonl
    stage,      \* of the process
    signer,     \* the key it signs with, or None
    clock,
    edits,
    recorded,   \* each agent's events and entries as the store wrote them
    issued,     \* the checkpoints it wrote: an auditor may hold any of them
    audit       \* verify_chain under way or ended, or None

files == <<log, chain, ckpts>>
history == <<recorded, issued>>
process == <<stage, signer>>
vars == <<files, process, clock, edits, history, audit>>

Init ==
    /\ log = [a \in Agent |-> <<>>]
    /\ chain = [a \in Agent |-> <<>>]
    /\ ckpts = <<>>
    /\ stage = "down"
    /\ signer = None
    /\ clock = 0
    /\ edits = 0
    /\ recorded = [a \in Agent |-> <<>>]
    /\ issued = {}
    /\ audit = None

-----------------------------------------------------------------------------
(* The store. *)

(* CheckpointSigner::from_env.  A value that is no Unicode or blank counts  *)
(* as unset, not as unusable.                                               *)
Unusable(setting) == setting.kind \in {"shared file", "garbled"}

FromEnv(setting) == IF setting.kind \in {"file", "seed"} THEN setting.key ELSE None

Open ==
    /\ stage = "down"
    /\ stage' = "recover"
    /\ UNCHANGED <<files, signer, clock, edits, history, audit>>

(* The agent's chain is a strict prefix of its events, by trace id. *)
TailMissing(a) ==
    /\ Len(chain[a]) < Len(log[a])
    /\ \A i \in DOMAIN chain[a] : chain[a][i].trace_id = log[a][i].trace_id

(* recover_chain_tails. *)
Recover(a) ==
    /\ stage = "recover"
    /\ TailMissing(a)
    /\ chain' = [chain EXCEPT ![a] =
          Append(@, NextEntry(@, log[a][Len(@) + 1], clock, TRUE))]
    /\ UNCHANGED <<log, ckpts, process, clock, edits, history, audit>>

(* The setting is that of this start: main reads it once the store is open, *)
(* and a key that is there and cannot be used ends the process.             *)
Opened ==
    /\ stage = "recover"
    /\ \A a \in Agent : ~TailMissing(a)
    /\ \E setting \in Settings :
          /\ stage' = IF Unusable(setting) THEN "down" ELSE "up"
          /\ signer' = IF Unusable(setting) THEN None ELSE FromEnv(setting)
    /\ UNCHANGED <<files, clock, edits, history, audit>>

InLog(t) == \E i \in DOMAIN log[AgentOf[t]] : log[AgentOf[t]][i].trace_id = t

(* append: the event, then its entry. *)
Record(t) ==
    /\ stage = "up" /\ audit = None
    /\ edits = 0
    /\ ~InLog(t)
    /\ LET a     == AgentOf[t]
           event == [trace_id |-> t, agent_id |-> a, content |-> "original"]
           entry == NextEntry(chain[a], event, clock, FALSE)
       IN  /\ log' = [log EXCEPT ![a] = Append(@, event)]
           /\ chain' = [chain EXCEPT ![a] = Append(@, entry)]
           /\ recorded' = [recorded EXCEPT ![a] =
                  Append(@, [event |-> event, entry |-> entry])]
    /\ UNCHANGED <<ckpts, process, clock, edits, issued, audit>>

(* commit_checkpoint, whenever the policy or a shutdown asks for it. *)
Commit(a) ==
    /\ stage = "up" /\ audit = None
    /\ edits = 0
    /\ Len(ckpts) < MaxCheckpoints
    /\ chain[a] # <<>>
    /\ \A i \in DOMAIN ckpts : ckpts[i].agent_id = a => ckpts[i].seq < Len(chain[a])
    /\ LET c == CheckpointOver(a, chain[a][Len(chain[a])], clock, signer)
       IN  ckpts' = Append(ckpts, c) /\ issued' = issued \cup {c}
    /\ UNCHANGED <<log, chain, process, clock, edits, recorded, audit>>

Stop ==
    /\ stage = "up"
    /\ stage' = "down"
    /\ signer' = None
    /\ audit' = None
    /\ UNCHANGED <<files, clock, edits, history>>

(* A verification does not read the clock. *)
Tick ==
    /\ audit = None
    /\ clock < MaxClock
    /\ clock' = clock + 1
    /\ UNCHANGED <<files, process, edits, history, audit>>

-----------------------------------------------------------------------------
(* Edits of the files while the store is down. *)

Edit ==
    /\ stage = "down"
    /\ edits < MaxEdits
    /\ edits' = edits + 1
    /\ UNCHANGED <<process, clock, history, audit>>

Without(s, i) == SubSeq(s, 1, i - 1) \o SubSeq(s, i + 1, Len(s))

EditEvent(a) ==
    /\ Edit
    /\ \E i \in DOMAIN log[a] : log' = [log EXCEPT ![a][i].content = "changed"]
    /\ UNCHANGED <<chain, ckpts>>

RemoveEvent(a) ==
    /\ Edit
    /\ \E i \in DOMAIN log[a] : log' = [log EXCEPT ![a] = Without(@, i)]
    /\ UNCHANGED <<chain, ckpts>>

RemoveEntry(a) ==
    /\ Edit
    /\ \E i \in DOMAIN chain[a] : chain' = [chain EXCEPT ![a] = Without(@, i)]
    /\ UNCHANGED <<log, ckpts>>

(* The event and its entry together. *)
RemovePair(a) ==
    /\ Edit
    /\ \E i \in DOMAIN log[a] \cap DOMAIN chain[a] :
          /\ log' = [log EXCEPT ![a] = Without(@, i)]
          /\ chain' = [chain EXCEPT ![a] = Without(@, i)]
    /\ UNCHANGED ckpts

(* The chain, or its end: opening the store links the events anew. *)
Truncate(a) ==
    /\ Edit
    /\ \E n \in 0 .. Len(chain[a]) - 1 : chain' = [chain EXCEPT ![a] = SubSeq(@, 1, n)]
    /\ UNCHANGED <<log, ckpts>>

Renumbered(entry) == {[entry EXCEPT !.seq = n] : n \in 1 .. Cardinality(Trace)}
Relinked(entry, a) ==
    {[entry EXCEPT !.prev_hash = h] : h \in {Genesis} \cup {chain[a][i].hash : i \in DOMAIN chain[a]}}

(* One entry is renumbered, re-linked or re-dated, its hash kept or         *)
(* recomputed over an event of the log.                                     *)
EditEntry(a) ==
    /\ Edit
    /\ \E i \in DOMAIN chain[a], j \in DOMAIN log[a] :
          \E e \in Renumbered(chain[a][i]) \cup Relinked(chain[a][i], a)
                     \cup {[chain[a][i] EXCEPT !.recorded_at = clock]} :
              \E h \in {e.hash, ComputeHash(e.seq, a, e.trace_id, e.recorded_at,
                                            e.prev_hash, log[a][j])} :
                  chain' = [chain EXCEPT ![a][i] = [e EXCEPT !.hash = h]]
    /\ UNCHANGED <<log, ckpts>>

(* The fields of a checkpoint that are neither its head nor its signature.  *)
Relabelled(c) ==
    {[c EXCEPT !.agent_id = a] : a \in Agent} \cup {[c EXCEPT !.created_at = clock]}
    \cup {[c EXCEPT !.public_key = key] : key \in StoreKeys \cup {OtherKey, None}}

(* One checkpoint is made to commit to another entry, relabelled, stripped  *)
(* of its signature, given that of another, or signed again with a key the  *)
(* store does not have.                                                     *)
EditCheckpoint ==
    /\ Edit
    /\ \E i \in DOMAIN ckpts :
          LET c == ckpts[i]
              entries == chain[c.agent_id]
          IN  ckpts' \in
                {[ckpts EXCEPT ![i].seq = entries[k].seq, ![i].head_hash = entries[k].hash] :
                    k \in DOMAIN entries}
                \cup {[ckpts EXCEPT ![i] = d] : d \in Relabelled(c)}
                \cup {[ckpts EXCEPT ![i].signature = ckpts[k].signature] : k \in DOMAIN ckpts}
                \cup {[ckpts EXCEPT ![i].signature = Unsigned],
                      [ckpts EXCEPT ![i] = CheckpointOver(c.agent_id,
                          [seq |-> c.seq, hash |-> c.head_hash], clock, OtherKey)]}
    /\ UNCHANGED <<log, chain>>

-----------------------------------------------------------------------------
(* verify_chain, one entry a step.  The store's mutex is held from the      *)
(* first to the last.                                                       *)

Known == UNION {{log[a][i] : i \in DOMAIN log[a]} : a \in Agent}

Verify(a) ==
    /\ stage = "up" /\ audit = None
    /\ audit' = [agent_id |-> a, checked |-> 0, verdict |-> "open"]
    /\ UNCHANGED <<files, process, clock, edits, history>>

(* expected_prev, after `checked' entries that hold. *)
ExpectedPrev(a, checked) == IF checked = 0 THEN Genesis ELSE chain[a][checked].hash

NextEntryHolds ==
    LET a == audit.agent_id
    IN  EntryHolds(a, chain[a][audit.checked + 1], audit.checked + 1,
                   ExpectedPrev(a, audit.checked), Known)

VerifyEntry ==
    /\ audit # None /\ audit.verdict = "open"
    /\ audit.checked < Len(chain[audit.agent_id])
    /\ audit' = IF NextEntryHolds THEN [audit EXCEPT !.checked = @ + 1]
                                  ELSE [audit EXCEPT !.verdict = "bad"]
    /\ UNCHANGED <<files, process, clock, edits, history>>

VerifyEnds ==
    /\ audit # None /\ audit.verdict = "open"
    /\ audit.checked = Len(chain[audit.agent_id])
    /\ audit' = [audit EXCEPT !.verdict = "ok"]
    /\ UNCHANGED <<files, process, clock, edits, history>>

Reported ==
    /\ audit # None /\ audit.verdict # "open"
    /\ audit' = None
    /\ UNCHANGED <<files, process, clock, edits, history>>

-----------------------------------------------------------------------------
EditStep ==
    \/ \E a \in Agent : EditEvent(a) \/ RemoveEvent(a) \/ RemoveEntry(a) \/ RemovePair(a)
                           \/ Truncate(a) \/ EditEntry(a)
    \/ EditCheckpoint

Next ==
    \/ Open \/ Opened \/ Stop \/ Tick
    \/ \E a \in Agent : Recover(a) \/ Commit(a) \/ Verify(a)
    \/ \E t \in Trace : Record(t)
    \/ EditStep
    \/ VerifyEntry \/ VerifyEnds \/ Reported

Spec == Init /\ [][Next]_vars

-----------------------------------------------------------------------------
Ended(verdict) == audit # None /\ audit.verdict = verdict

RecordedEntries(a) == [i \in DOMAIN recorded[a] |-> recorded[a][i].entry]

(* The first n entries of the agent's chain, and the events and times of    *)
(* recording they bind, are what the store recorded.                        *)
PrefixAsRecorded(a, n) ==
    \A i \in 1 .. n :
        /\ recorded[a][i].event \in Known
        /\ chain[a][i].trace_id = recorded[a][i].event.trace_id
        /\ chain[a][i].recorded_at = recorded[a][i].entry.recorded_at

(* A verification that is under way or ended got to the checkpoint's head.  *)
Reached(a, c) ==
    /\ c.agent_id = a
    /\ c.seq <= audit.checked
    /\ chain[a][c.seq].hash = c.head_hash

(* "Commits to every entry from genesis up to it": if a verification got to *)
(* the head of a checkpoint that was archived off-box, and the head is the  *)
(* archived one, then everything up to there, events and times of           *)
(* recording, is what the store recorded, whatever was done to its files    *)
(* and whatever the store repaired on opening them (verify_chain,           *)
(* checkpoint.rs).                                                          *)
ArchivedHeadPins ==
    audit # None =>
        \A c \in issued :
            Reached(audit.agent_id, c) => PrefixAsRecorded(audit.agent_id, c.seq)

(* With its chain untouched, an agent's verification fails exactly at the   *)
(* first event that was changed or removed, and succeeds if none was        *)
(* (verify_chain).                                                          *)
EditLocated ==
    audit # None /\ audit.verdict # "open" =>
        LET a == audit.agent_id
            intact == {i \in DOMAIN recorded[a] :
                         recorded[a][i].event \in {log[a][j] : j \in DOMAIN log[a]}}
        IN  chain[a] = RecordedEntries(a) =>
              /\ 1 .. audit.checked \subseteq intact
              /\ audit.verdict = "bad" => audit.checked + 1 \notin intact
              /\ audit.verdict = "ok" => audit.checked = Len(recorded[a])

(* However lines the store wrote are removed, a chain of them that verifies *)
(* is a beginning of the recorded one, with its events: only the end can be *)
(* missing, which is what an archived checkpoint is for (verify_chain).     *)
OnlyTheEndMayBeMissing ==
    Ended("ok") =>
        LET a == audit.agent_id
        IN  (\A i \in DOMAIN chain[a] : \E j \in DOMAIN recorded[a] :
                chain[a][i] = recorded[a][j].entry)
            => /\ Len(chain[a]) <= Len(recorded[a])
               /\ \A i \in DOMAIN chain[a] :
                     /\ chain[a][i] = recorded[a][i].entry
                     /\ recorded[a][i].event \in Known

SignedByStore(c) == SignatureHolds(c) /\ c.public_key \in StoreKeys

(* A checkpoint that verifies against a key the auditor was given is one    *)
(* the store issued, in whichever of its starts, signing or not, with this  *)
(* key or another: "the key is the one they were given out of band"         *)
(* (verify_checkpoint, CheckpointSigner::from_env).                         *)
SignedOnlyIfIssued == \A i \in DOMAIN ckpts : SignedByStore(ckpts[i]) => ckpts[i] \in issued

(* "A rebuilt log cannot reproduce it without the private key": an auditor  *)
(* who archived nothing and was only given the public keys may take a       *)
(* checkpoint from the edited files.  If it verifies against one of them    *)
(* and the verification got to its head, everything up to there is what     *)
(* the store recorded, the events from starts without a key or with an      *)
(* exchanged one included (sign, verify_checkpoint, verify_chain).          *)
SignedHeadPins ==
    audit # None =>
        \A i \in DOMAIN ckpts :
            SignedByStore(ckpts[i]) /\ Reached(audit.agent_id, ckpts[i])
              => PrefixAsRecorded(audit.agent_id, ckpts[i].seq)
=============================================================================
