----------------------------- MODULE EventStore -----------------------------
(***************************************************************************)
(* The JSONL backend of the guardian sidecar (core-rs/src/events.rs): an   *)
(* append-only event log, one tamper-evident chain per agent, checkpoints  *)
(* over the chain heads, and a retention target that moves old events to   *)
(* an archive.                                                             *)
(*                                                                         *)
(* Every operation runs under one mutex, so what interleaves with an       *)
(* append is never another operation but a crash of the process, an I/O    *)
(* error, or the clock.  An append is therefore one action per DURABLE     *)
(* effect: the event line, the chain line, the checkpoint line, each       *)
(* archive line, the compaction.  `pc' is where the operation in progress  *)
(* stands.                                                                 *)
(*                                                                         *)
(* Abstractions.  An event is its trace id; the agent, the session and the *)
(* client's timestamp are functions of it.  A chain entry's position is    *)
(* its `seq', and its hash is determined by the prefix that ends with it.  *)
(* The chain and checkpoint files are kept per agent: opening the store    *)
(* groups their lines by agent, and nothing depends on the order between   *)
(* agents.  The in-memory chains and checkpoints are pushed in the same    *)
(* step as their lines, and reloaded from them: they are one variable.     *)
(* The counters archived_total and floor_blocked_total are left out.       *)
(***************************************************************************)
EXTENDS Integers, Sequences, FiniteSets, Functions

CONSTANTS
    Agent, Session, Trace,
    AgentOf, SessionOf,  \* the agent and the (agent, session) key of an event
    Sent,                \* its client-supplied timestamp
    Retention,           \* soft target for the live log, or None (unbounded)
    RetentionFloor,      \* minimum age before eviction, or None
    Every, Interval,     \* checkpoint policy: count and time trigger, or None
    Faults,              \* the I/O errors that may happen
    None,
    MaxClock,            \* bound: how far the store's clock runs
    MaxLines             \* bound: lines of live log and archive together

FaultKind == {"chain", "checkpoint", "archive", "compact", "reopen"}

ASSUME ParameterAssumption ==
    /\ None \notin Int
    /\ AgentOf \in [Trace -> Agent]
    /\ SessionOf \in [Trace -> Session]
    /\ \A t, u \in Trace : SessionOf[t] = SessionOf[u] => AgentOf[t] = AgentOf[u]
    /\ Sent \in [Trace -> Nat]
    /\ Retention \in (Nat \ {0}) \cup {None}
    /\ RetentionFloor \in Nat \cup {None}
    /\ Every \in (Nat \ {0}) \cup {None}
    /\ Interval \in (Nat \ {0}) \cup {None}
    /\ Faults \subseteq FaultKind
    /\ MaxClock \in Nat
    /\ MaxLines \in Nat

VARIABLES
    (* On disk. *)
    log,         \* events.jsonl: the live log
    archive,     \* events.archive.jsonl
    chain,       \* events.jsonl.chain, per agent
    ckpts,       \* events.checkpoints.jsonl, per agent
    (* In memory: `Inner'. *)
    events,      \* the live events, in insertion order
    recordedAt,  \* when the store observed each, parallel to events
    byTrace,     \* position of each event in events, 0 when absent
    bySession,   \* positions of the events of each session
    since,       \* appends since each agent's last checkpoint
    lastAt,      \* when that checkpoint was written, or None
    attached,    \* FALSE once `file' is a handle to a replaced log
    suspect,     \* agents reported as misaligned when the store was opened
    (* The operation in progress. *)
    pc, cursor, cur, observed, batch,
    clock,       \* Utc::now()
    acked        \* events some client was told are stored

durable == <<log, archive, chain, ckpts>>
indices == <<byTrace, bySession>>
memory  == <<events, recordedAt, indices, since, lastAt, attached, suspect>>
control == <<pc, cursor, cur, observed, batch>>
vars    == <<durable, memory, control, clock, acked>>

Stage == {"down", "replay", "recover", "idle", "link", "commit", "retain",
          "archive", "reply", "closing"}

Entry == [trace : Trace, at : Nat, recovered : BOOLEAN]
Checkpoint == [seq : Nat, at : Nat]

TypeOK ==
    /\ log \in Seq(Trace)
    /\ archive \in Seq(Trace)
    /\ chain \in [Agent -> Seq(Entry)]
    /\ ckpts \in [Agent -> Seq(Checkpoint)]
    /\ events \in Seq(Trace)
    /\ recordedAt \in Seq(Nat)
    /\ Len(recordedAt) = Len(events)
    /\ byTrace \in [Trace -> Nat]
    /\ bySession \in [Session -> SUBSET Nat]
    /\ since \in [Agent -> Nat]
    /\ lastAt \in [Agent -> Nat \cup {None}]
    /\ attached \in BOOLEAN
    /\ suspect \subseteq Agent
    /\ pc \in Stage
    /\ cursor \in Nat
    /\ cur \in Trace \cup {None}
    /\ observed \in Nat
    /\ batch \in Seq(Trace)
    /\ clock \in Nat
    /\ acked \subseteq Trace

-----------------------------------------------------------------------------
(* Derived readings of the state. *)

Linked(t) == \E i \in DOMAIN chain[AgentOf[t]] : chain[AgentOf[t]][i].trace = t

(* seq_by_trace: the position of the event's latest entry. *)
SeqOf(t) ==
    CHOOSE i \in DOMAIN chain[AgentOf[t]] :
        /\ chain[AgentOf[t]][i].trace = t
        /\ \A j \in DOMAIN chain[AgentOf[t]] :
              chain[AgentOf[t]][j].trace = t => j <= i

(* The positions above the highest one any checkpoint of the agent commits  *)
(* to: the head minus that position, and none if it is past the head.       *)
Uncommitted(a) ==
    {p \in DOMAIN chain[a] : \A i \in DOMAIN ckpts[a] : ckpts[a][i].seq < p}

(* The k for which s[i] is the k-th event of its agent in s. *)
Ordinal(s, i) == Cardinality({j \in 1 .. i : AgentOf[s[j]] = AgentOf[s[i]]})

PositionsOf(s, a) == {i \in DOMAIN s : AgentOf[s[i]] = a}

-----------------------------------------------------------------------------
(* Inner::empty, and the memory a process that is not running has. *)
EmptyMemory ==
    /\ events' = <<>>
    /\ recordedAt' = <<>>
    /\ byTrace' = [t \in Trace |-> 0]
    /\ bySession' = [s \in Session |-> {}]
    /\ since' = [a \in Agent |-> 0]
    /\ lastAt' = [a \in Agent |-> None]
    /\ attached' = TRUE
    /\ suspect' = {}
    /\ cursor' = 0
    /\ cur' = None
    /\ observed' = 0
    /\ batch' = <<>>

Init ==
    /\ log = <<>>
    /\ archive = <<>>
    /\ chain = [a \in Agent |-> <<>>]
    /\ ckpts = [a \in Agent |-> <<>>]
    /\ events = <<>>
    /\ recordedAt = <<>>
    /\ byTrace = [t \in Trace |-> 0]
    /\ bySession = [s \in Session |-> {}]
    /\ since = [a \in Agent |-> 0]
    /\ lastAt = [a \in Agent |-> None]
    /\ attached = TRUE
    /\ suspect = {}
    /\ pc = "down"
    /\ cursor = 0
    /\ cur = None
    /\ observed = 0
    /\ batch = <<>>
    /\ clock = 0
    /\ acked = {}

Tick ==
    /\ clock < MaxClock
    /\ clock' = clock + 1
    /\ UNCHANGED <<durable, memory, control, acked>>

(* The process is killed: what is on disk stays. *)
Crash ==
    /\ pc # "down"
    /\ pc' = "down"
    /\ EmptyMemory
    /\ UNCHANGED <<durable, clock, acked>>

(* Mistake: recorded_at is not kept in lockstep with events. *)
IndexUnstamped(t, at) ==
    /\ events' = Append(events, t)
    /\ recordedAt' = recordedAt
    /\ byTrace' = [byTrace EXCEPT ![t] = Len(events) + 1]
    /\ bySession' = [bySession EXCEPT ![SessionOf[t]] = @ \cup {Len(events) + 1}]

(* index_existing: add an event that is not indexed yet. *)
Index(t, at) ==
    /\ events' = Append(events, t)
    /\ recordedAt' = Append(recordedAt, at)
    /\ byTrace' = [byTrace EXCEPT ![t] = Len(events) + 1]
    /\ bySession' = [bySession EXCEPT ![SessionOf[t]] = @ \cup {Len(events) + 1}]

-----------------------------------------------------------------------------
(* open_jsonl. *)

Open ==
    /\ pc = "down"
    /\ pc' = "replay"
    /\ UNCHANGED <<durable, memory, cursor, cur, observed, batch, clock, acked>>

(* One line of the log is replayed into memory, once per trace id, with the *)
(* client's timestamp as its provisional observation time.                  *)
Replay ==
    /\ pc = "replay"
    /\ cursor < Len(log)
    /\ cursor' = cursor + 1
    /\ IF byTrace[log[cursor + 1]] = 0
          THEN Index(log[cursor + 1], Sent[log[cursor + 1]])
          ELSE UNCHANGED <<events, recordedAt, indices>>
    /\ UNCHANGED <<durable, since, lastAt, attached, suspect, pc, cur, observed,
                   batch, clock, acked>>

(* Mistake: a chain as long as the log counts as longer than it. *)
AlignedStrictly(a) ==
    /\ Len(chain[a]) < Cardinality(PositionsOf(events, a))
    /\ \A i \in PositionsOf(events, a) :
          Ordinal(events, i) <= Len(chain[a])
             => chain[a][Ordinal(events, i)].trace = events[i]

(* An agent's chain is a prefix of its events. *)
Aligned(a) ==
    /\ Len(chain[a]) <= Cardinality(PositionsOf(events, a))
    /\ \A i \in PositionsOf(events, a) :
          Ordinal(events, i) <= Len(chain[a])
             => chain[a][Ordinal(events, i)].trace = events[i]

(* recover_chain_tails compares each agent's chain with its events, and     *)
(* reports the agents whose chain is not a prefix.                          *)
Compare ==
    /\ pc = "replay"
    /\ cursor = Len(log)
    /\ pc' = "recover"
    /\ suspect' = {a \in Agent : PositionsOf(events, a) # {} /\ ~Aligned(a)}
    /\ observed' = clock
    /\ UNCHANGED <<durable, events, recordedAt, indices, since, lastAt, attached,
                   cursor, cur, batch, clock, acked>>

(* Mistake: recovery skips one event too many. *)
NextMissingSkipsOne(i) ==
    /\ AgentOf[events[i]] \notin suspect
    /\ Ordinal(events, i) = Len(chain[AgentOf[events[i]]]) + 2

(* The event whose entry is the next one missing from its agent's chain. *)
NextMissing(i) ==
    /\ AgentOf[events[i]] \notin suspect
    /\ Ordinal(events, i) = Len(chain[AgentOf[events[i]]]) + 1

Recover ==
    /\ pc = "recover"
    /\ \E i \in DOMAIN events :
          /\ NextMissing(i)
          /\ chain' = [chain EXCEPT ![AgentOf[events[i]]] =
                Append(@, [trace |-> events[i], at |-> observed, recovered |-> TRUE])]
    /\ UNCHANGED <<log, archive, ckpts, memory, control, clock, acked>>

(* Mistake: "a process restart would reset appends since last checkpoint".  *)
RestoredSinceZero(a) == 0

(* The head minus the highest committed position, no less than zero. *)
RestoredSince(a) == Cardinality(Uncommitted(a))

(* restore_recorded_at and restore_checkpoint_counters, then the handle on  *)
(* the log: the store is open.                                              *)
Opened ==
    /\ pc = "recover"
    /\ \A i \in DOMAIN events : ~NextMissing(i)
    /\ recordedAt' = [i \in 1 .. Len(events) |->
            IF Linked(events[i])
               THEN chain[AgentOf[events[i]]][SeqOf(events[i])].at
               ELSE recordedAt[i]]
    /\ since' = [a \in Agent |-> RestoredSince(a)]
    /\ lastAt' = [a \in Agent |->
            IF ckpts[a] = <<>> THEN None ELSE ckpts[a][Len(ckpts[a])].at]
    /\ pc' = "idle"
    /\ cursor' = 0
    /\ observed' = 0
    /\ UNCHANGED <<durable, events, indices, attached, suspect, cur, batch, clock,
                   acked>>

-----------------------------------------------------------------------------
(* append. *)

(* A trace id the live index knows is a duplicate: Ok(false). *)
PostDuplicate(t) ==
    /\ pc = "idle"
    /\ byTrace[t] # 0
    /\ acked' = acked \cup {t}
    /\ UNCHANGED <<durable, memory, control, clock>>

(* Mistake: the duplicate check is dropped. *)
PostNewUnchecked(t) ==
    /\ pc = "idle"
    /\ Len(log) + Len(archive) < MaxLines
    /\ log' = IF attached THEN Append(log, t) ELSE log
    /\ cur' = t
    /\ pc' = "link"
    /\ UNCHANGED <<archive, chain, ckpts, memory, cursor, observed, batch, clock, acked>>

(* Mistake: the event line stays in a buffer. *)
PostNewUnflushed(t) ==
    /\ pc = "idle"
    /\ byTrace[t] = 0
    /\ Len(log) + Len(archive) < MaxLines
    /\ cur' = t
    /\ pc' = "link"
    /\ UNCHANGED <<durable, memory, cursor, observed, batch, clock, acked>>

(* Any other is written to the log.  A handle to a replaced file swallows it. *)
PostNew(t) ==
    /\ pc = "idle"
    /\ byTrace[t] = 0
    /\ Len(log) + Len(archive) < MaxLines
    /\ log' = IF attached THEN Append(log, t) ELSE log
    /\ cur' = t
    /\ pc' = "link"
    /\ UNCHANGED <<archive, chain, ckpts, memory, cursor, observed, batch, clock, acked>>

(* append_chain_entry, the counter and the index. *)
Link ==
    /\ pc = "link"
    /\ chain' = [chain EXCEPT ![AgentOf[cur]] =
          Append(@, [trace |-> cur, at |-> clock, recovered |-> FALSE])]
    /\ since' = [since EXCEPT ![AgentOf[cur]] = @ + 1]
    /\ Index(cur, clock)
    /\ observed' = clock
    /\ pc' = "commit"
    /\ UNCHANGED <<log, archive, ckpts, lastAt, attached, suspect, cursor, cur, batch,
                   clock, acked>>

(* An operation ends, with or without an acknowledgement of the event. *)
Return(stored) ==
    /\ pc' = "idle"
    /\ cur' = None
    /\ observed' = 0
    /\ batch' = <<>>
    /\ acked' = IF stored THEN acked \cup {cur} ELSE acked
    /\ UNCHANGED cursor

LinkFails ==
    /\ "chain" \in Faults
    /\ pc = "link"
    /\ Return(FALSE)
    /\ UNCHANGED <<durable, memory, clock>>

(* CheckpointPolicy::should_checkpoint, as maybe_checkpoint asks it. *)
CheckpointDue(a) ==
    /\ since[a] > 0
    /\ \/ Every # None /\ since[a] >= Every
       \/ Interval # None /\ lastAt[a] # None /\ observed - lastAt[a] >= Interval

(* Mistake: the counter is not reset. *)
CommitCheckpointNoReset(a) ==
    /\ ckpts' = [ckpts EXCEPT ![a] = Append(@, [seq |-> Len(chain[a]), at |-> observed])]
    /\ since' = since
    /\ lastAt' = [lastAt EXCEPT ![a] = observed]

(* commit_checkpoint. *)
CommitCheckpoint(a) ==
    /\ ckpts' = [ckpts EXCEPT ![a] = Append(@, [seq |-> Len(chain[a]), at |-> observed])]
    /\ since' = [since EXCEPT ![a] = 0]
    /\ lastAt' = [lastAt EXCEPT ![a] = observed]

MaybeCheckpoint ==
    /\ pc = "commit"
    /\ IF CheckpointDue(AgentOf[cur])
          THEN CommitCheckpoint(AgentOf[cur])
          ELSE /\ lastAt' = IF lastAt[AgentOf[cur]] = None /\ ~(Every = None /\ Interval = None)
                               THEN [lastAt EXCEPT ![AgentOf[cur]] = observed]
                               ELSE lastAt
               /\ UNCHANGED <<ckpts, since>>
    /\ pc' = "retain"
    /\ UNCHANGED <<log, archive, chain, events, recordedAt, indices, attached, suspect,
                   cursor, cur, observed, batch, clock, acked>>

CheckpointFails ==
    /\ "checkpoint" \in Faults
    /\ pc = "commit"
    /\ CheckpointDue(AgentOf[cur])
    /\ Return(FALSE)
    /\ UNCHANGED <<durable, memory, clock>>

-----------------------------------------------------------------------------
(* enforce_retention. *)

Slack == IF Retention \div 4 > 1 THEN Retention \div 4 ELSE 1

Overflows == Retention # None /\ Len(events) > Retention + Slack

Wanted == Len(events) - Retention

(* Mistake: an event exactly as old as the floor may leave. *)
OldEnoughInclusive(n) ==
    RetentionFloor # None => \A i \in 1 .. n : recordedAt[i] <= clock - RetentionFloor

(* The prefix of n events is old enough to leave. *)
OldEnough(n) ==
    RetentionFloor # None => \A i \in 1 .. n : recordedAt[i] < clock - RetentionFloor

(* The longest such prefix, up to the number wanted. *)
Evictable(n) ==
    /\ n \in 0 .. Wanted
    /\ OldEnough(n)
    /\ n < Wanted => ~OldEnough(n + 1)

(* Within the target, or everything over it is too young: nothing to move. *)
RetainAll ==
    /\ pc = "retain"
    /\ Overflows => Evictable(0)
    /\ Return(TRUE)
    /\ UNCHANGED <<durable, memory, clock>>

(* The evicted prefix is drained from memory; the indices are stale until   *)
(* they are rebuilt.                                                        *)
Evict ==
    /\ pc = "retain"
    /\ Overflows
    /\ \E n \in 1 .. Len(events) :
          /\ Evictable(n)
          /\ batch' = SubSeq(events, 1, n)
          /\ events' = SubSeq(events, n + 1, Len(events))
          /\ recordedAt' = SubSeq(recordedAt, n + 1, Len(recordedAt))
    /\ pc' = "archive"
    /\ UNCHANGED <<durable, indices, since, lastAt, attached, suspect, cursor, cur,
                   observed, clock, acked>>

(* archive_events, line by line. *)
ArchiveLine ==
    /\ pc = "archive"
    /\ batch # <<>>
    /\ archive' = Append(archive, Head(batch))
    /\ batch' = Tail(batch)
    /\ UNCHANGED <<log, chain, ckpts, memory, pc, cursor, cur, observed, clock, acked>>

ArchiveFails ==
    /\ "archive" \in Faults
    /\ pc = "archive"
    /\ batch # <<>>
    /\ Return(FALSE)
    /\ UNCHANGED <<durable, memory, clock>>

(* Mistake: only one of the two indices is rebuilt. *)
ReindexTraceOnly ==
    /\ byTrace' = [t \in Trace |->
          IF \E i \in DOMAIN events : events[i] = t
             THEN CHOOSE i \in DOMAIN events : events[i] = t
             ELSE 0]
    /\ bySession' = bySession

(* The positional indices of the events that stay. *)
Reindex ==
    /\ byTrace' = [t \in Trace |->
          IF \E i \in DOMAIN events : events[i] = t
             THEN CHOOSE i \in DOMAIN events : events[i] = t
             ELSE 0]
    /\ bySession' = [s \in Session |-> {i \in DOMAIN events : SessionOf[events[i]] = s}]

(* Mistake: the log is compacted before the archive is written. *)
ArchiveSkipped == TRUE

(* The whole evicted batch is in the archive. *)
ArchiveWritten == batch = <<>>

(* The retained window replaces the log by a rename, and the log's handle   *)
(* is reopened.                                                             *)
Compact ==
    /\ pc = "archive"
    /\ ArchiveWritten
    /\ Reindex
    /\ log' = events
    /\ attached' = TRUE
    /\ pc' = "reply"
    /\ UNCHANGED <<archive, chain, ckpts, events, recordedAt, since, lastAt, suspect,
                   cursor, cur, observed, batch, clock, acked>>

Reply ==
    /\ pc = "reply"
    /\ Return(TRUE)
    /\ UNCHANGED <<durable, memory, clock>>

(* Writing or renaming the temporary file fails: the old log stays. *)
CompactFails ==
    /\ "compact" \in Faults
    /\ pc = "archive"
    /\ ArchiveWritten
    /\ Reindex
    /\ Return(FALSE)
    /\ UNCHANGED <<durable, events, recordedAt, since, lastAt, attached, suspect, clock>>

(* The rename is done and the reopen fails: `file' is the replaced log. *)
ReopenFails ==
    /\ "reopen" \in Faults
    /\ pc = "archive"
    /\ ArchiveWritten
    /\ Reindex
    /\ log' = events
    /\ attached' = FALSE
    /\ Return(FALSE)
    /\ UNCHANGED <<archive, chain, ckpts, events, recordedAt, since, lastAt, suspect, clock>>

-----------------------------------------------------------------------------
(* Graceful shutdown: force_checkpoints, then exit.  A checkpoint that      *)
(* cannot be written ends it early, which is what Crash does.               *)

Shutdown ==
    /\ pc = "idle"
    /\ pc' = "closing"
    /\ observed' = clock
    /\ UNCHANGED <<durable, memory, cursor, cur, batch, clock, acked>>

CloseAgent(a) ==
    /\ pc = "closing"
    /\ since[a] > 0
    /\ chain[a] # <<>>
    /\ CommitCheckpoint(a)
    /\ UNCHANGED <<log, archive, chain, events, recordedAt, indices, attached, suspect,
                   control, clock, acked>>

Exit ==
    /\ pc = "closing"
    /\ \A a \in Agent : since[a] = 0 \/ chain[a] = <<>>
    /\ pc' = "down"
    /\ EmptyMemory
    /\ UNCHANGED <<durable, clock, acked>>

-----------------------------------------------------------------------------
Next ==
    \/ Tick \/ Crash
    \/ Open \/ Replay \/ Compare \/ Recover \/ Opened
    \/ \E t \in Trace : PostDuplicate(t) \/ PostNew(t)
    \/ Link \/ LinkFails
    \/ MaybeCheckpoint \/ CheckpointFails
    \/ RetainAll \/ Evict \/ ArchiveLine \/ ArchiveFails
    \/ Compact \/ CompactFails \/ ReopenFails \/ Reply
    \/ Shutdown \/ (\E a \in Agent : CloseAgent(a)) \/ Exit

Spec == Init /\ [][Next]_vars
-----------------------------------------------------------------------------
(* What the store promises. *)

OnDisk(t)   == t \in Range(log) \cup Range(archive)

(* Retention "archives, never deletes": an event some client was told is    *)
(* stored is in the live log or in the archive, at every instant and so     *)
(* after any crash, restart and compaction (append, enforce_retention).     *)
NoEvidenceLost == \A t \in acked : OnDisk(t)

(* Whatever verify_chains looks up is there: no entry of a chain names an   *)
(* event that is neither live nor archived, so an untampered store always   *)
(* verifies between two operations (append's event-before-link order,       *)
(* enforce_retention's archive-before-compact order).                       *)
EntriesHaveEvents ==
    pc = "idle" =>
        \A a \in Agent : \A i \in DOMAIN chain[a] :
            chain[a][i].trace \in Range(events) \cup Range(archive)

(* Every live event is covered by its agent's chain once the store is open: *)
(* recovery leaves no event outside the evidence (recover_chain_tails).     *)
LiveEventsLinked == pc = "idle" => \A t \in Range(events) : Linked(t)

(* A trace id is chained at most once, however often it is POSTed and       *)
(* wherever the process was killed ("re-POSTing an event already in the     *)
(* store is a no-op").                                                      *)
OneEntryPerEvent ==
    \A a \in Agent : \A i, j \in DOMAIN chain[a] :
        chain[a][i].trace = chain[a][j].trace => i = j

(* The chain orders an agent's live events as the log does, so paging by    *)
(* `after_seq' and listing the log agree (append, recover_chain_tails).     *)
ChainFollowsLog ==
    pc = "idle" =>
        \A i, j \in DOMAIN events :
            (/\ i < j
             /\ AgentOf[events[i]] = AgentOf[events[j]]
             /\ Linked(events[i]) /\ Linked(events[j]))
                => SeqOf(events[i]) < SeqOf(events[j])

(* No sequence of crashes makes an untouched store report a chain that does *)
(* not align: a strict prefix "is the only shape a crash can produce".      *)
NoFalseAnomaly == suspect = {}

(* The positional indices always point at the event, and at the session,    *)
(* they are looked up for (index_existing, enforce_retention's rebuild).    *)
IndexFaithful ==
    pc = "idle" =>
        /\ \A t \in Trace : byTrace[t] # 0 =>
              byTrace[t] \in DOMAIN events /\ events[byTrace[t]] = t
        /\ \A s \in Session : bySession[s] = {i \in DOMAIN events : SessionOf[events[i]] = s}

(* The counter behind the count trigger is the length of the agent's        *)
(* uncommitted suffix, across failed writes and restarts                    *)
(* (restore_checkpoint_counters).                                           *)
CounterExact ==
    pc = "idle" => \A a \in Agent : since[a] = Cardinality(Uncommitted(a))

(* Checkpoints pin existing prefixes of the chain, each one a longer prefix *)
(* than the one before (commit_checkpoint: an unchanged head is never       *)
(* committed again).                                                        *)
CheckpointsAdvance ==
    \A a \in Agent :
        /\ \A i \in DOMAIN ckpts[a] : ckpts[a][i].seq \in DOMAIN chain[a]
        /\ \A i, j \in DOMAIN ckpts[a] : i < j => ckpts[a][i].seq < ckpts[a][j].seq

(* "The floor outranks the target": an event leaves the live log only when  *)
(* the time its chain entry recorded is older than the floor, also when     *)
(* that time went through a restart (restore_recorded_at,                   *)
(* enforce_retention).                                                      *)
FloorHonoured ==
    [][pc = "retain" /\ pc' = "archive" /\ RetentionFloor # None =>
        \A i \in DOMAIN batch' :
            Linked(batch'[i]) =>
                chain[AgentOf[batch'[i]]][SeqOf(batch'[i])].at < clock - RetentionFloor]_vars
=============================================================================
