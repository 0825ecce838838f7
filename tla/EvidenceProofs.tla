--------------------------- MODULE EvidenceProofs ---------------------------
(***************************************************************************)
(* The store never loses evidence, its positional indices are right, it    *)
(* implements the evidence ledger, and a verifier and a paging consumer    *)
(* see the evidence as it is, for every instance in which two I/O errors   *)
(* do not happen: a failing write to the archive, which leaves the evicted *)
(* batch neither in memory nor in the archive, and a failing reopen of the *)
(* compacted log, after which appends go to the replaced file.  The run    *)
(* archive_error_loss shows the first to be needed.  That the store's      *)
(* reads agree needs the chain to be written without errors too.           *)
(***************************************************************************)
EXTENDS EventStoreLedger, StoreReaders, EventStoreProofs

-----------------------------------------------------------------------------
(* The positional indices. *)

TraceIndexRight ==
    \A t \in Trace :
        byTrace[t] # 0 => byTrace[t] \in DOMAIN events /\ events[byTrace[t]] = t

SessionIndexRight ==
    \A s \in Session : bySession[s] = {i \in DOMAIN events : SessionOf[events[i]] = s}

(* Only between the eviction and the rebuild are the indices stale. *)
IndexInv == pc # "archive" => TraceIndexRight /\ SessionIndexRight

LEMMA EmptyMemoryIndex ==
  ASSUME EmptyMemory
  PROVE  (TraceIndexRight /\ SessionIndexRight)'
<1>1. DOMAIN events' = {}
  BY DEF EmptyMemory
<1>2. QED
  BY <1>1 DEF EmptyMemory, TraceIndexRight, SessionIndexRight

LEMMA IndexKeepsIndex ==
  ASSUME TypeInv, TraceIndexRight, SessionIndexRight,
         NEW t \in Trace, NEW at \in Nat, Index(t, at)
  PROVE  (TraceIndexRight /\ SessionIndexRight)'
<1>1. /\ Len(events) \in Nat
      /\ DOMAIN events = 1 .. Len(events)
      /\ DOMAIN events' = 1 .. (Len(events) + 1)
      /\ \A i \in 1 .. Len(events) : events'[i] = events[i]
      /\ events'[Len(events) + 1] = t
  BY LenProperties, AppendProperties DEF TypeInv, TypeOK, Index
<1>2. 1 .. (Len(events) + 1) = (1 .. Len(events)) \cup {Len(events) + 1}
  BY <1>1
<1>3. TraceIndexRight'
  <2>1. ASSUME NEW u \in Trace, byTrace'[u] # 0
        PROVE  byTrace'[u] \in DOMAIN events' /\ events'[byTrace'[u]] = u
    <3>1. CASE u = t
      BY <1>1, <1>2, <3>1 DEF Index, TypeInv, TypeOK
    <3>2. CASE u # t
      <4>1. byTrace'[u] = byTrace[u]
        BY <3>2 DEF Index, TypeInv, TypeOK
      <4>2. byTrace[u] \in DOMAIN events /\ events[byTrace[u]] = u
        BY <2>1, <4>1 DEF TraceIndexRight
      <4>3. QED  BY <1>1, <1>2, <4>1, <4>2
    <3>3. QED  BY <3>1, <3>2
  <2>2. QED  BY <2>1 DEF TraceIndexRight
<1>4. SessionIndexRight'
  <2>1. ASSUME NEW s \in Session
        PROVE  bySession'[s] = {i \in DOMAIN events' : SessionOf[events'[i]] = s}
    <3>1. bySession[s] = {i \in DOMAIN events : SessionOf[events[i]] = s}
      BY DEF SessionIndexRight
    <3>2. bySession'[s] = IF SessionOf[t] = s THEN bySession[s] \cup {Len(events) + 1}
                                              ELSE bySession[s]
      BY ParameterAssumption DEF Index, TypeInv, TypeOK
    <3>3. Len(events) + 1 \notin 1 .. Len(events)
      BY <1>1
    <3>4. QED  BY <1>1, <1>2, <3>1, <3>2, <3>3
  <2>2. QED  BY <2>1 DEF SessionIndexRight
<1>5. QED  BY <1>3, <1>4

LEMMA ReindexRight ==
  ASSUME TypeInv, Reindex, events' = events
  PROVE  (TraceIndexRight /\ SessionIndexRight)'
BY DEF Reindex, TraceIndexRight, SessionIndexRight

LEMMA IndexStep ==
  ASSUME "archive" \notin Faults
  PROVE  TypeInv /\ IndexInv /\ [Next]_vars => IndexInv'
<1> SUFFICES ASSUME TypeInv, IndexInv, [Next]_vars PROVE IndexInv'
  OBVIOUS
(* What a step that touches neither the events nor the indices keeps. *)
<1>0. ASSUME UNCHANGED <<events, byTrace, bySession>>, pc # "archive" \/ pc' = "archive"
      PROVE  IndexInv'
  BY <1>0 DEF IndexInv, TraceIndexRight, SessionIndexRight
<1>1. CASE Tick
  BY <1>0, <1>1 DEF Tick, memory, indices, control
<1>2. CASE Crash
  BY <1>2, EmptyMemoryIndex DEF Crash, IndexInv
<1>3. CASE Open
  BY <1>0, <1>3 DEF Open, memory, indices
<1>4. CASE Replay
  <2>1. /\ cursor + 1 \in DOMAIN log
        /\ pc = "replay" /\ pc' = "replay"
    BY <1>4, LenProperties DEF Replay, TypeInv, TypeOK
  <2>2. log[cursor + 1] \in Trace /\ Sent[log[cursor + 1]] \in Nat
    BY <2>1, ElementOfSeq, LenProperties, ParameterAssumption DEF TypeInv, TypeOK
  <2>3. CASE byTrace[log[cursor + 1]] = 0
    BY <1>4, <2>1, <2>2, <2>3, IndexKeepsIndex DEF Replay, IndexInv
  <2>4. CASE byTrace[log[cursor + 1]] # 0
    BY <1>0, <1>4, <2>1, <2>4 DEF Replay, indices
  <2>5. QED  BY <2>3, <2>4
<1>5. CASE Compare
  BY <1>0, <1>5 DEF Compare, indices
<1>6. CASE Recover
  BY <1>0, <1>6 DEF Recover, memory, indices, control
<1>7. CASE Opened
  BY <1>0, <1>7 DEF Opened, indices
<1>8. ASSUME NEW t \in Trace, PostDuplicate(t) PROVE IndexInv'
  BY <1>0, <1>8 DEF PostDuplicate, memory, indices, control
<1>9. ASSUME NEW t \in Trace, PostNew(t) PROVE IndexInv'
  BY <1>0, <1>9 DEF PostNew, memory, indices
<1>10. CASE Link
  <2>1. cur \in Trace /\ clock \in Nat
    BY <1>10 DEF Link, TypeInv, TypeOK, InFlight
  <2>2. Index(cur, clock) /\ pc = "link"
    BY <1>10 DEF Link
  <2>3. QED
    BY <2>1, <2>2, IndexKeepsIndex DEF IndexInv
<1>11. CASE LinkFails
  BY <1>0, <1>11 DEF LinkFails, memory, indices
<1>12. CASE MaybeCheckpoint
  BY <1>0, <1>12 DEF MaybeCheckpoint, indices
<1>13. CASE CheckpointFails
  BY <1>0, <1>13 DEF CheckpointFails, memory, indices
<1>14. CASE RetainAll
  BY <1>0, <1>14 DEF RetainAll, memory, indices
<1>15. CASE Evict
  BY <1>15 DEF Evict, IndexInv
<1>16. CASE ArchiveLine
  BY <1>16 DEF ArchiveLine, IndexInv
<1>17. CASE ArchiveFails
  BY <1>17 DEF ArchiveFails
<1>18. CASE Compact
  BY <1>18, ReindexRight DEF Compact, IndexInv
<1>19. CASE CompactFails
  BY <1>19, ReindexRight DEF CompactFails, IndexInv
<1>20. CASE ReopenFails
  BY <1>20, ReindexRight DEF ReopenFails, IndexInv
<1>21. CASE Reply
  BY <1>0, <1>21 DEF Reply, memory, indices
<1>22. CASE Shutdown
  BY <1>0, <1>22 DEF Shutdown, memory, indices
<1>23. ASSUME NEW a \in Agent, CloseAgent(a) PROVE IndexInv'
  BY <1>0, <1>23 DEF CloseAgent, indices, control
<1>24. CASE Exit
  BY <1>24, EmptyMemoryIndex DEF Exit, IndexInv
<1>25. CASE UNCHANGED vars
  BY <1>0, <1>25 DEF vars, memory, indices, control
<1>26. QED
  BY <1>1, <1>2, <1>3, <1>4, <1>5, <1>6, <1>7, <1>8, <1>9, <1>10, <1>11, <1>12, <1>13,
     <1>14, <1>15, <1>16, <1>17, <1>18, <1>19, <1>20, <1>21, <1>22, <1>23, <1>24, <1>25
     DEF Next

(* When no write to the archive fails, a lookup by trace id or by session   *)
(* finds the event, or exactly the events, it asks for (index_existing and  *)
(* the rebuild in enforce_retention).                                       *)
THEOREM IndexCorrect ==
  ASSUME "archive" \notin Faults
  PROVE  Spec => []IndexFaithful
<1>1. Init => TypeInv /\ IndexInv
  <2>1. Init => IndexInv
    BY DEF Init, IndexInv, TraceIndexRight, SessionIndexRight
  <2>2. QED  BY <2>1, InitType
<1>2. (TypeInv /\ IndexInv) /\ [Next]_vars => (TypeInv /\ IndexInv)'
  BY TypeStep, IndexStep
<1>3. TypeInv /\ IndexInv => IndexFaithful
  BY DEF IndexInv, TraceIndexRight, SessionIndexRight, IndexFaithful
<1>4. QED  BY <1>1, <1>2, <1>3, PTL DEF Spec

-----------------------------------------------------------------------------
(* The evidence. *)

Entered == {t \in Trace : \E a \in Agent : \E i \in DOMAIN chain[a] : chain[a][i].trace = t}

(* What may not be lost: acknowledged events, and events a chain names. *)
Evidence == acked \cup Entered

Saved == Range(log) \cup Range(archive)
Held  == Range(events) \cup Range(batch) \cup Range(archive)

Loaded == {"recover", "idle", "link", "commit", "retain", "archive", "reply", "closing"}

(* The evidence is on disk.  That is not inductive: the compaction replaces *)
(* the log by what memory holds, so memory and archive must have all the    *)
(* evidence too, and what memory has must come from the log it was read     *)
(* from.                                                                    *)
EvidenceInv ==
    /\ attached = TRUE
    /\ pc # "archive" => batch = <<>>
    /\ Range(events) \cup Range(batch) \subseteq Range(log)
    /\ Evidence \subseteq Saved
    /\ pc \in Loaded => Evidence \subseteq Held
    /\ pc = "replay" => \A i \in DOMAIN log : i <= cursor => log[i] \in Range(events)
    /\ pc = "down" => cursor = 0
    /\ pc = "link" => cur \in Range(log)
    /\ pc \in {"commit", "retain", "archive", "reply"} => cur \in Entered

LEMMA EnteredByPush ==
  ASSUME TypeInv, NEW a \in Agent, NEW e \in Entry,
         chain' = [chain EXCEPT ![a] = Append(@, e)]
  PROVE  Entered' = Entered \cup {e.trace}
<1>1. /\ chain[a] \in Seq(Entry)
      /\ e.trace \in Trace
      /\ chain'[a] = Append(chain[a], e)
      /\ \A b \in Agent : b # a => chain'[b] = chain[b]
  BY DEF TypeInv, TypeOK, Entry
<1>2. /\ Len(chain[a]) \in Nat
      /\ DOMAIN chain[a] = 1 .. Len(chain[a])
      /\ DOMAIN chain'[a] = 1 .. (Len(chain[a]) + 1)
      /\ \A i \in 1 .. Len(chain[a]) : chain'[a][i] = chain[a][i]
      /\ chain'[a][Len(chain[a]) + 1] = e
  BY <1>1, LenProperties, AppendProperties
<1>3. 1 .. (Len(chain[a]) + 1) = (1 .. Len(chain[a])) \cup {Len(chain[a]) + 1}
  BY <1>2
<1>4. ASSUME NEW t \in Entered' PROVE t \in Entered \cup {e.trace}
  <2>1. PICK b \in Agent : \E i \in DOMAIN chain'[b] : chain'[b][i].trace = t
    BY DEF Entered
  <2>2. CASE b = a
    BY <1>2, <1>3, <2>1, <2>2 DEF Entered
  <2>3. CASE b # a
    BY <1>1, <2>1, <2>3 DEF Entered
  <2>4. QED  BY <2>2, <2>3
<1>5. ASSUME NEW t \in Entered PROVE t \in Entered'
  <2>1. PICK b \in Agent : \E i \in DOMAIN chain[b] : chain[b][i].trace = t
    BY DEF Entered
  <2>2. CASE b = a
    BY <1>2, <1>3, <2>1, <2>2 DEF Entered
  <2>3. CASE b # a
    BY <1>1, <2>1, <2>3 DEF Entered
  <2>4. QED  BY <2>2, <2>3
<1>6. e.trace \in Entered'
  BY <1>1, <1>2, <1>3 DEF Entered
<1>7. QED  BY <1>4, <1>5, <1>6

LEMMA EnteredSame == chain' = chain => Entered' = Entered
BY DEF Entered

LEMMA EmptyMemoryEvidence ==
  ASSUME EvidenceInv, EmptyMemory, pc' = "down", UNCHANGED <<durable, acked>>
  PROVE  EvidenceInv'
<1>1. Entered' = Entered
  BY EnteredSame DEF durable
<1>2. Range(events') = {} /\ Range(batch') = {}
  BY RangeEmpty DEF EmptyMemory
<1>3. QED
  BY <1>1, <1>2 DEF EvidenceInv, Evidence, Saved, Loaded, EmptyMemory, durable

(* An operation that fails changes nothing on disk, in memory or in the     *)
(* evidence.                                                                *)
LEMMA FailedEvidence ==
  ASSUME EvidenceInv, pc \in {"link", "commit"}, Return(FALSE), UNCHANGED <<durable, memory>>
  PROVE  EvidenceInv'
<1>1. Entered' = Entered
  BY EnteredSame DEF durable
<1>2. pc' = "idle" /\ batch' = batch /\ acked' = acked
  BY DEF Return, EvidenceInv
<1>3. QED
  BY <1>1, <1>2 DEF EvidenceInv, Evidence, Saved, Held, Loaded, durable, memory

(* An operation that succeeds acknowledges an event a chain already names.  *)
LEMMA StoredEvidence ==
  ASSUME EvidenceInv, pc \in {"retain", "reply"}, Return(TRUE), UNCHANGED <<durable, memory>>
  PROVE  EvidenceInv'
<1>1. Entered' = Entered
  BY EnteredSame DEF durable
<1>2. pc' = "idle" /\ batch' = batch /\ acked' = acked \cup {cur} /\ cur \in Entered
  BY DEF Return, EvidenceInv
<1>3. Evidence' = Evidence
  BY <1>1, <1>2 DEF Evidence
<1>4. QED
  BY <1>2, <1>3 DEF EvidenceInv, Saved, Held, Loaded, durable, memory

(* The compaction: the log becomes what memory holds, and what neither      *)
(* memory nor the archive has is no evidence.                               *)
LEMMA CompactedEvidence ==
  ASSUME EvidenceInv, pc = "archive", batch = <<>>, batch' = <<>>,
         log' \in {log, events}, attached' = TRUE,
         UNCHANGED <<archive, chain, events, acked>>,
         \/ pc' = "idle"
         \/ pc' = "reply" /\ cur' = cur
  PROVE  EvidenceInv'
<1>1. Entered' = Entered /\ Evidence' = Evidence
  BY EnteredSame DEF Evidence
<1>2. Evidence \subseteq Held /\ Held = Range(events) \cup Range(archive)
  BY RangeEmpty DEF EvidenceInv, Loaded, Held
<1>3. Range(events) \subseteq Range(log)
  BY DEF EvidenceInv
<1>4. pc' = "reply" => cur' \in Entered'
  BY <1>1 DEF EvidenceInv
<1>5. Evidence' \subseteq Saved' /\ Evidence' \subseteq Held'
  BY <1>1, <1>2, <1>3, RangeEmpty DEF Saved, Held
<1>6. Range(events') \cup Range(batch') \subseteq Range(log')
  BY <1>3, RangeEmpty
<1>7. QED
  BY <1>4, <1>5, <1>6 DEF EvidenceInv

LEMMA EvidenceStep ==
  ASSUME Faults \cap {"archive", "reopen"} = {}
  PROVE  TypeInv /\ IndexInv /\ EvidenceInv /\ [Next]_vars => EvidenceInv'
<1> SUFFICES ASSUME TypeInv, IndexInv, EvidenceInv, [Next]_vars PROVE EvidenceInv'
  OBVIOUS
<1>1. CASE Tick
  BY <1>1, EnteredSame
     DEF Tick, EvidenceInv, Evidence, Saved, Held, durable, memory, control
<1>2. CASE Crash
  BY <1>2, EmptyMemoryEvidence DEF Crash
<1>3. CASE Open
  <2>1. \A i \in DOMAIN log : ~(i <= cursor)
    BY <1>3, LenProperties DEF Open, EvidenceInv, TypeInv, TypeOK
  <2>2. QED
    BY <1>3, <2>1, EnteredSame
       DEF Open, EvidenceInv, Evidence, Saved, Held, Loaded, durable, memory
<1>4. CASE Replay
  <2> DEFINE t == log[cursor + 1]
  <2>1. /\ cursor + 1 \in DOMAIN log
        /\ pc = "replay" /\ pc' = "replay"
        /\ cursor' = cursor + 1
        /\ cursor \in Nat
        /\ DOMAIN log \subseteq Nat
    BY <1>4, LenProperties DEF Replay, TypeInv, TypeOK
  <2>2. t \in Trace /\ t \in Range(log)
    BY <2>1, ElementOfSeq, LenProperties DEF TypeInv, TypeOK, Range
  <2>3. Range(events') = Range(events) \cup {t}
    <3>1. CASE byTrace[t] = 0
      <4>1. events' = Append(events, t)
        BY <1>4, <3>1 DEF Replay, Index
      <4>2. events \in Seq(Trace)
        BY DEF TypeInv, TypeOK
      <4> HIDE DEF t
      <4>3. QED  BY <2>2, <4>1, <4>2, RangeAppend
    <3>2. CASE byTrace[t] # 0
      <4>1. t \in Range(events)
        BY <2>1, <2>2, <3>2 DEF IndexInv, TraceIndexRight, Range
      <4>2. QED  BY <1>4, <3>2, <4>1 DEF Replay
    <3>3. QED  BY <3>1, <3>2
  <2>4. ASSUME NEW i \in DOMAIN log, i <= cursor' PROVE log[i] \in Range(events')
    <3>1. CASE i <= cursor
      BY <2>1, <2>3, <3>1 DEF EvidenceInv
    <3>2. CASE i = cursor + 1
      BY <2>3, <3>2
    <3>3. QED  BY <2>1, <2>4, <3>1, <3>2
  <2>5. /\ Entered' = Entered
        /\ log' = log /\ archive' = archive /\ attached' = attached /\ batch' = batch
        /\ acked' = acked
    BY <1>4, EnteredSame DEF Replay, durable
  <2> HIDE DEF t
  <2>6. QED
    BY <2>1, <2>2, <2>3, <2>4, <2>5 DEF EvidenceInv, Evidence, Saved, Loaded
<1>5. CASE Compare
  <2>1. Range(log) \subseteq Range(events)
    <3>1. \A i \in DOMAIN log : i <= cursor
      BY <1>5, LenProperties DEF Compare, TypeInv, TypeOK
    <3>2. QED  BY <1>5, <3>1 DEF Compare, EvidenceInv, Range
  <2>2. QED
    BY <1>5, <2>1, EnteredSame DEF Compare, EvidenceInv, Evidence, Saved, Held, Loaded, durable
<1>6. CASE Recover
  <2>1. PICK i \in DOMAIN events :
          chain' = [chain EXCEPT ![AgentOf[events[i]]] =
             Append(@, [trace |-> events[i], at |-> observed, recovered |-> TRUE])]
    BY <1>6 DEF Recover
  <2> DEFINE e == [trace |-> events[i], at |-> observed, recovered |-> TRUE]
  <2>2. events[i] \in Trace /\ AgentOf[events[i]] \in Agent
    BY ElementOfSeq, LenProperties, ParameterAssumption DEF TypeInv, TypeOK
  <2>3. e \in Entry /\ e.trace = events[i]
    BY <2>2 DEF Entry, TypeInv, TypeOK
  <2>4. Entered' = Entered \cup {events[i]}
    <3> HIDE DEF e
    <3>1. chain' = [chain EXCEPT ![AgentOf[events[i]]] = Append(@, e)]
      BY <2>1 DEF e
    <3>2. QED  BY <2>2, <2>3, <3>1, EnteredByPush
  <2>5. events[i] \in Range(events)
    BY DEF Range
  <2>6. /\ UNCHANGED <<log, archive, events, attached, batch, cursor, cur, pc, acked>>
        /\ pc = "recover"
    BY <1>6 DEF Recover, memory, control
  <2> HIDE DEF e
  <2>7. QED
    BY <2>4, <2>5, <2>6 DEF EvidenceInv, Evidence, Saved, Held, Loaded
<1>7. CASE Opened
  BY <1>7, EnteredSame DEF Opened, EvidenceInv, Evidence, Saved, Held, Loaded, durable
<1>8. ASSUME NEW t \in Trace, PostDuplicate(t) PROVE EvidenceInv'
  <2>1. t \in Range(events) /\ acked' = acked \cup {t} /\ pc = "idle"
    BY <1>8 DEF PostDuplicate, IndexInv, TraceIndexRight, Range
  <2>2. UNCHANGED <<log, archive, events, attached, batch, cursor, cur, pc>> /\ Entered' = Entered
    BY <1>8, EnteredSame DEF PostDuplicate, durable, memory, control
  <2>3. QED
    BY <2>1, <2>2 DEF EvidenceInv, Evidence, Saved, Held, Loaded
<1>9. ASSUME NEW t \in Trace, PostNew(t) PROVE EvidenceInv'
  <2>1. Range(log') = Range(log) \cup {t}
    BY <1>9, RangeAppend DEF PostNew, EvidenceInv, TypeInv, TypeOK
  <2>2. /\ UNCHANGED <<archive, events, attached, batch, acked>>
        /\ cur' = t /\ pc = "idle" /\ pc' = "link"
        /\ Entered' = Entered
    BY <1>9, EnteredSame DEF PostNew, memory
  <2>3. QED
    BY <2>1, <2>2 DEF EvidenceInv, Evidence, Saved, Held, Loaded
<1>10. CASE Link
  <2>1. cur \in Trace /\ AgentOf[cur] \in Agent /\ clock \in Nat
    BY <1>10, ParameterAssumption DEF Link, TypeInv, TypeOK, InFlight
  <2> DEFINE e == [trace |-> cur, at |-> clock, recovered |-> FALSE]
  <2>2. e \in Entry /\ e.trace = cur
    BY <2>1 DEF Entry
  <2>3. chain' = [chain EXCEPT ![AgentOf[cur]] = Append(@, e)]
    BY <1>10 DEF Link
  <2> HIDE DEF e
  <2>4. Entered' = Entered \cup {cur}
    BY <2>1, <2>2, <2>3, EnteredByPush
  <2>5. Range(events') = Range(events) \cup {cur}
    BY <1>10, <2>1, RangeAppend DEF Link, Index, TypeInv, TypeOK
  <2>6. /\ UNCHANGED <<log, archive, attached, batch, cur, acked>>
        /\ pc = "link" /\ pc' = "commit"
    BY <1>10 DEF Link
  <2>7. cur \in Range(log) /\ cur' \in Entered'
    BY <2>4, <2>6 DEF EvidenceInv
  <2>8. QED
    BY <2>4, <2>5, <2>6, <2>7 DEF EvidenceInv, Evidence, Saved, Held, Loaded
<1>11. CASE LinkFails
  BY <1>11, FailedEvidence DEF LinkFails
<1>12. CASE MaybeCheckpoint
  BY <1>12, EnteredSame DEF MaybeCheckpoint, EvidenceInv, Evidence, Saved, Held, Loaded
<1>13. CASE CheckpointFails
  BY <1>13, FailedEvidence DEF CheckpointFails
<1>14. CASE RetainAll
  BY <1>14, StoredEvidence DEF RetainAll
<1>15. CASE Evict
  <2>1. PICK n \in 1 .. Len(events) :
          /\ batch' = SubSeq(events, 1, n)
          /\ events' = SubSeq(events, n + 1, Len(events))
    BY <1>15 DEF Evict
  <2>2. Range(events) = Range(batch') \cup Range(events')
    BY <2>1, RangeSplit DEF TypeInv, TypeOK
  <2>3. /\ UNCHANGED <<log, archive, attached, cur, acked>>
        /\ pc = "retain" /\ pc' = "archive"
        /\ Entered' = Entered
        /\ batch = <<>>
    BY <1>15, EnteredSame DEF Evict, durable, EvidenceInv
  <2>4. QED
    BY <2>2, <2>3, RangeEmpty DEF EvidenceInv, Evidence, Saved, Held, Loaded
<1>16. CASE ArchiveLine
  <2>1. Range(batch) = {Head(batch)} \cup Range(batch') /\ Head(batch) \in Trace
    BY <1>16, RangeHeadTail, HeadTailProperties DEF ArchiveLine, TypeInv, TypeOK
  <2>2. Range(archive') = Range(archive) \cup {Head(batch)}
    BY <1>16, <2>1, RangeAppend DEF ArchiveLine, TypeInv, TypeOK
  <2>3. /\ UNCHANGED <<log, events, attached, cur, acked, pc>>
        /\ pc = "archive"
        /\ Entered' = Entered
    BY <1>16, EnteredSame DEF ArchiveLine, memory
  <2>4. QED
    BY <2>1, <2>2, <2>3 DEF EvidenceInv, Evidence, Saved, Held, Loaded
<1>17. CASE ArchiveFails
  BY <1>17 DEF ArchiveFails
<1>18. CASE Compact
  BY <1>18, CompactedEvidence DEF Compact, ArchiveWritten
<1>19. CASE CompactFails
  <2>1. pc' = "idle" /\ batch' = <<>> /\ acked' = acked
    BY <1>19 DEF CompactFails, Return
  <2>2. QED
    BY <1>19, <2>1, CompactedEvidence DEF CompactFails, ArchiveWritten, durable, EvidenceInv
<1>20. CASE ReopenFails
  BY <1>20 DEF ReopenFails
<1>21. CASE Reply
  BY <1>21, StoredEvidence DEF Reply
<1>22. CASE Shutdown
  BY <1>22, EnteredSame DEF Shutdown, EvidenceInv, Evidence, Saved, Held, Loaded, durable, memory
<1>23. ASSUME NEW a \in Agent, CloseAgent(a) PROVE EvidenceInv'
  BY <1>23, EnteredSame DEF CloseAgent, EvidenceInv, Evidence, Saved, Held, Loaded, control
<1>24. CASE Exit
  BY <1>24, EmptyMemoryEvidence DEF Exit
<1>25. CASE UNCHANGED vars
  BY <1>25, EnteredSame
     DEF vars, EvidenceInv, Evidence, Saved, Held, durable, memory, control
<1>26. QED
  BY <1>1, <1>2, <1>3, <1>4, <1>5, <1>6, <1>7, <1>8, <1>9, <1>10, <1>11, <1>12, <1>13,
     <1>14, <1>15, <1>16, <1>17, <1>18, <1>19, <1>20, <1>21, <1>22, <1>23, <1>24, <1>25
     DEF Next

LEMMA EvidenceInit == Init => TypeInv /\ IndexInv /\ EvidenceInv
<1> SUFFICES ASSUME Init PROVE TypeInv /\ IndexInv /\ EvidenceInv
  OBVIOUS
<1>1. TypeInv
  BY InitType
<1>2. IndexInv
  BY DEF Init, IndexInv, TraceIndexRight, SessionIndexRight
<1>3. Entered = {}
  BY DEF Init, Entered
<1>4. EvidenceInv
  BY <1>3, RangeEmpty DEF Init, EvidenceInv, Evidence, Loaded
<1>5. QED  BY <1>1, <1>2, <1>4

LEMMA EvidenceInvStep ==
  ASSUME Faults \cap {"archive", "reopen"} = {}
  PROVE  (TypeInv /\ IndexInv /\ EvidenceInv) /\ [Next]_vars
            => (TypeInv /\ IndexInv /\ EvidenceInv)'
<1>1. "archive" \notin Faults
  OBVIOUS
<1>2. QED  BY <1>1, TypeStep, IndexStep, EvidenceStep

(* The inductive invariant holds of every reachable state. *)
LEMMA EvidenceInvariant ==
  ASSUME Faults \cap {"archive", "reopen"} = {}
  PROVE  Spec => [](TypeInv /\ IndexInv /\ EvidenceInv)
BY EvidenceInit, EvidenceInvStep, PTL DEF Spec

(* An event some client was told is stored is in the live log or in the     *)
(* archive, after any crashes, restarts, compactions and the I/O errors     *)
(* allowed here (append, open_jsonl, enforce_retention).                    *)
THEOREM EvidenceKept ==
  ASSUME Faults \cap {"archive", "reopen"} = {}
  PROVE  Spec => []NoEvidenceLost
<1>1. EvidenceInv => NoEvidenceLost
  BY DEF EvidenceInv, Evidence, Saved, NoEvidenceLost, OnDisk
<1>2. QED  BY <1>1, EvidenceInvariant, PTL

LEMMA StoreVerifies == TypeInv /\ EvidenceInv => EntriesHaveEvents
<1> SUFFICES ASSUME TypeInv, EvidenceInv, pc = "idle",
                    NEW a \in Agent, NEW i \in DOMAIN chain[a]
             PROVE  chain[a][i].trace \in Range(events) \cup Range(archive)
  BY DEF EntriesHaveEvents
<1>1. chain[a][i] \in Entry
  BY ElementOfSeq, LenProperties DEF TypeInv, TypeOK
<1>2. chain[a][i].trace \in Entered
  BY <1>1 DEF Entered, Entry
<1>3. QED
  BY <1>2, RangeEmpty DEF EvidenceInv, Evidence, Held, Loaded

(* Between two operations every chain entry's event is live or archived, so *)
(* verify_chains finds it (append's event-before-link order,                *)
(* enforce_retention's archive-before-compact order).                       *)
THEOREM ChainedEventsFound ==
  ASSUME Faults \cap {"archive", "reopen"} = {}
  PROVE  Spec => []EntriesHaveEvents
BY StoreVerifies, EvidenceInvariant, PTL

-----------------------------------------------------------------------------
(* The refinement: the mapping. *)

(* The mapping of the chains, for the chains before and after a step. *)
TracesOf(c) == [a \in Agent |-> [i \in DOMAIN c[a] |-> c[a][i].trace]]

LEMMA TracesOfType ==
  ASSUME NEW c \in [Agent -> Seq(Entry)]
  PROVE  /\ TracesOf(c) \in [Agent -> Seq(Trace)]
         /\ \A a \in Agent : Len(TracesOf(c)[a]) = Len(c[a])
<1>1. ASSUME NEW a \in Agent
      PROVE  /\ TracesOf(c)[a] \in Seq(Trace)
             /\ Len(TracesOf(c)[a]) = Len(c[a])
  <2>1. /\ c[a] \in Seq(Entry)
        /\ Len(c[a]) \in Nat
        /\ DOMAIN c[a] = 1 .. Len(c[a])
    BY LenProperties
  <2>2. \A i \in 1 .. Len(c[a]) : c[a][i].trace \in Trace
    <3> TAKE i \in 1 .. Len(c[a])
    <3>1. c[a][i] \in Entry
      BY <2>1, ElementOfSeq
    <3>2. QED  BY <3>1 DEF Entry
  <2>3. TracesOf(c)[a] = [i \in 1 .. Len(c[a]) |-> c[a][i].trace]
    BY <2>1 DEF TracesOf
  <2>4. TracesOf(c)[a] \in Seq(Trace)
    BY <2>1, <2>2, <2>3, IsASeq
  <2>5. QED  BY <2>1, <2>3, <2>4, LenProperties
<1>2. QED  BY <1>1 DEF TracesOf

LEMMA LedgerOfType ==
  ASSUME TypeInv
  PROVE  /\ LedgerOf \in [Agent -> Seq(Trace)]
         /\ \A a \in Agent : Len(LedgerOf[a]) = Len(chain[a])
<1>1. chain \in [Agent -> Seq(Entry)] /\ LedgerOf = TracesOf(chain)
  BY DEF TypeInv, TypeOK, LedgerOf, TracesOf
<1>2. QED  BY <1>1, TracesOfType

LEMMA PinnedType ==
  ASSUME TypeInv, NEW a \in Agent
  PROVE  /\ Pinned[a] = Len(chain[a]) - Cardinality(Uncommitted(a))
         /\ Len(chain[a]) \in Nat
         /\ Cardinality(Uncommitted(a)) \in Nat
  BY UncommittedType, LenProperties DEF Pinned, TypeInv, TypeOK

(* A step that leaves the chains, the checkpoints, the acknowledgements and *)
(* what is stored alone is no step of the ledger.                           *)
LEMMA Stutters ==
  ASSUME UNCHANGED <<chain, ckpts, acked>>, Stored' = Stored
  PROVE  UNCHANGED Ledger!lvars
BY DEF Ledger!lvars, LedgerOf, Pinned, Uncommitted

LEMMA Tells ==
  ASSUME NEW t \in Trace, t \in Stored,
         UNCHANGED <<log, archive, chain, ckpts>>, acked' = acked \cup {t}
  PROVE  Ledger!Tell(t)
BY DEF Ledger!Tell, Stored, LedgerOf, Pinned, Uncommitted

(* A pushed entry enters its event, and pins nothing. *)
LEMMA Enters ==
  ASSUME TypeInv, TypeInv', CheckpointInv, NEW t \in Trace, t \in Stored,
         NEW e \in Entry, e.trace = t,
         chain' = [chain EXCEPT ![AgentOf[t]] = Append(@, e)],
         UNCHANGED <<log, archive, ckpts, acked>>
  PROVE  Ledger!Enter(t)
<1> DEFINE a == AgentOf[t]
<1>1. a \in Agent
  BY ParameterAssumption
<1>2. /\ chain[a] \in Seq(Entry)
      /\ chain'[a] = Append(chain[a], e)
      /\ \A b \in Agent : b # a => chain'[b] = chain[b]
  BY <1>1 DEF TypeInv, TypeOK
<1>3. /\ Len(chain[a]) \in Nat
      /\ DOMAIN chain[a] = 1 .. Len(chain[a])
      /\ DOMAIN chain'[a] = 1 .. (Len(chain[a]) + 1)
      /\ Len(chain'[a]) = Len(chain[a]) + 1
      /\ \A i \in 1 .. Len(chain[a]) : chain'[a][i] = chain[a][i]
      /\ chain'[a][Len(chain[a]) + 1] = e
  BY <1>2, LenProperties, AppendProperties
<1> HIDE DEF a
<1>4. LedgerOf' = [LedgerOf EXCEPT ![a] = Append(@, t)]
  <2>1. LedgerOf \in [Agent -> Seq(Trace)] /\ Len(LedgerOf[a]) = Len(chain[a])
    BY <1>1, LedgerOfType
  <2>2. LedgerOf' \in [Agent -> Seq(Trace)] /\ Len(LedgerOf'[a]) = Len(chain'[a])
    <3>1. chain' \in [Agent -> Seq(Entry)] /\ LedgerOf' = TracesOf(chain')
      BY DEF TypeInv, TypeOK, LedgerOf, TracesOf
    <3>2. QED  BY <1>1, <3>1, TracesOfType
  <2>3. LedgerOf'[a] = Append(LedgerOf[a], t)
    <3> DEFINE old == LedgerOf[a]
               new == LedgerOf'[a]
               n   == Len(chain[a])
    <3>1. /\ n \in Nat
          /\ old \in Seq(Trace) /\ Len(old) = n
          /\ new \in Seq(Trace) /\ Len(new) = n + 1
      BY <1>1, <1>3, <2>1, <2>2
    <3>2. \A i \in 1 .. n : new[i] = old[i]
      <4> TAKE i \in 1 .. n
      <4>1. i \in DOMAIN chain[a] /\ i \in DOMAIN chain'[a] /\ chain'[a][i] = chain[a][i]
        BY <1>3
      <4>2. new[i] = chain'[a][i].trace
        BY <1>1, <4>1 DEF LedgerOf
      <4>3. old[i] = chain[a][i].trace
        BY <1>1, <4>1 DEF LedgerOf
      <4>4. QED  BY <4>1, <4>2, <4>3
    <3>3. new[n + 1] = t
      BY <1>1, <1>3 DEF LedgerOf
    <3> HIDE DEF old, new, n
    <3>4. /\ Append(old, t) \in Seq(Trace)
          /\ Len(Append(old, t)) = n + 1
          /\ \A i \in 1 .. n : Append(old, t)[i] = old[i]
          /\ Append(old, t)[n + 1] = t
      BY <3>1, AppendProperties
    <3>5. \A i \in 1 .. (n + 1) : i \in 1 .. n \/ i = n + 1
      BY <3>1
    <3>6. \A i \in 1 .. (n + 1) : new[i] = Append(old, t)[i]
      BY <3>2, <3>3, <3>4, <3>5
    <3>7. new = Append(old, t)
      BY <3>1, <3>4, <3>6, SeqEqual
    <3>8. QED  BY <3>7 DEF old, new
  <2>4. ASSUME NEW b \in Agent, b # a PROVE LedgerOf'[b] = LedgerOf[b]
    BY <1>2, <2>4 DEF LedgerOf
  <2>5. QED  BY <1>1, <2>1, <2>2, <2>3, <2>4
<1>5. Pinned' = Pinned
  <2>1. /\ Cardinality(Uncommitted(a)') = Cardinality(Uncommitted(a)) + 1
        /\ \A b \in Agent : b # a => Uncommitted(b)' = Uncommitted(b)
    <3>1. chain' = [chain EXCEPT ![a] = Append(@, e)]
      BY DEF a
    <3>2. QED  BY <1>1, <3>1, PushUncommitted DEF CheckpointInv
  <2>2. ASSUME NEW b \in Agent
        PROVE  Len(chain'[b]) - Cardinality(Uncommitted(b)')
                  = Len(chain[b]) - Cardinality(Uncommitted(b))
    <3>1. CASE b = a
      <4>1. Cardinality(Uncommitted(a)) \in Nat
        BY <1>1, UncommittedType DEF TypeInv
      <4>2. QED  BY <1>3, <2>1, <3>1, <4>1
    <3>2. CASE b # a
      BY <1>2, <2>1, <3>2
    <3>3. QED  BY <3>1, <3>2
  <2>3. QED  BY <2>2 DEF Pinned
<1>6. QED
  BY <1>4, <1>5 DEF a, Ledger!Enter, Stored

(* A checkpoint pins the whole ledger, which was not all pinned. *)
LEMMA Pins ==
  ASSUME TypeInv, TypeInv', CheckpointInv, pc \in Running, NEW a \in Agent, since[a] > 0,
         CommitCheckpoint(a), UNCHANGED <<log, archive, chain, acked>>
  PROVE  Ledger!Pin(a)
<1>1. since[a] = Cardinality(Uncommitted(a))
  BY DEF CheckpointInv
<1>2. Uncommitted(a) # {}
  <2>1. Cardinality({}) = 0
    BY FS_EmptySet
  <2>2. QED  BY <1>1, <2>1
<1>3. Uncommitted(a)' = {} /\ \A b \in Agent : b # a => Uncommitted(b)' = Uncommitted(b)
  BY <1>2, CommitUncommitted DEF CheckpointInv
<1>4. LedgerOf' = LedgerOf /\ Len(LedgerOf[a]) = Len(chain[a])
  BY LedgerOfType DEF LedgerOf
<1>5. Pinned[a] < Len(LedgerOf[a])
  BY <1>1, <1>4, PinnedType
<1>6. Pinned' = [Pinned EXCEPT ![a] = Len(LedgerOf[a])]
  <2>1. Cardinality(Uncommitted(a)') = 0
    BY <1>3, FS_EmptySet
  <2>2. Len(chain[a]) - 0 = Len(chain[a])
    BY PinnedType
  <2>3. ASSUME NEW b \in Agent
        PROVE  Len(chain'[b]) - Cardinality(Uncommitted(b)')
                  = IF b = a THEN Len(LedgerOf[a]) ELSE Pinned[b]
    <3>1. CASE b = a
      BY <1>4, <2>1, <2>2, <3>1
    <3>2. CASE b # a
      BY <1>3, <3>2 DEF Pinned
    <3>3. QED  BY <3>1, <3>2
  <2>4. QED  BY <2>3 DEF Pinned
<1>7. QED  BY <1>4, <1>5, <1>6 DEF Ledger!Pin, Stored

(* The compaction forgets what neither memory nor the archive has, which no *)
(* ledger names and nobody was told of.                                     *)
LEMMA Forgets ==
  ASSUME TypeInv, EvidenceInv, pc = "archive", batch = <<>>, log' = events,
         UNCHANGED <<archive, chain, ckpts, acked>>
  PROVE  \E S \in SUBSET Stored : Ledger!Forget(S)
<1> DEFINE S == Stored \ Stored'
<1>1. Stored' = Range(events) \cup Range(archive)
  BY DEF Stored
<1>2. Evidence \subseteq Stored'
  BY <1>1, RangeEmpty DEF EvidenceInv, Held, Loaded
<1>3. Stored' \subseteq Stored
  BY <1>1 DEF EvidenceInv, Stored
<1>4. ASSUME NEW a \in Agent PROVE Range(LedgerOf[a]) \subseteq Entered
  <2> SUFFICES ASSUME NEW i \in DOMAIN chain[a] PROVE chain[a][i].trace \in Entered
    BY DEF Range, LedgerOf
  <2>1. chain[a][i] \in Entry
    BY ElementOfSeq, LenProperties DEF TypeInv, TypeOK
  <2>2. QED  BY <2>1 DEF Entered, Entry
<1>5. S \cap acked = {} /\ \A a \in Agent : S \cap Range(LedgerOf[a]) = {}
  BY <1>2, <1>4 DEF Evidence
<1>6. Stored' = Stored \ S
  BY <1>3
<1>7. LedgerOf' = LedgerOf /\ Pinned' = Pinned
  BY DEF LedgerOf, Pinned, Uncommitted
<1>8. Ledger!Forget(S)
  BY <1>5, <1>6, <1>7 DEF Ledger!Forget, Ledger!Range, Range
<1>9. QED  BY <1>8

LEMMA InitImplements == Init => Ledger!LInit
<1> SUFFICES ASSUME Init PROVE Ledger!LInit
  OBVIOUS
<1>1. Stored = {}
  BY RangeEmpty DEF Init, Stored
<1>2. LedgerOf = [a \in Agent |-> <<>>]
  <2>1. \A a \in Agent : DOMAIN chain[a] = {}
    BY DEF Init
  <2>2. [i \in {} |-> chain[i].trace] = <<>>
    OBVIOUS
  <2>3. ASSUME NEW a \in Agent PROVE [i \in DOMAIN chain[a] |-> chain[a][i].trace] = <<>>
    BY <2>1
  <2>4. QED  BY <2>3 DEF LedgerOf
<1>3. Pinned = [a \in Agent |-> 0]
  <2>1. ASSUME NEW a \in Agent PROVE Len(chain[a]) - Cardinality(Uncommitted(a)) = 0
    <3>1. Uncommitted(a) = {} /\ Len(chain[a]) = 0
      BY EmptySeq DEF Init, Uncommitted
    <3>2. Cardinality(Uncommitted(a)) = 0
      BY <3>1, FS_EmptySet
    <3>3. QED  BY <3>1, <3>2
  <2>2. QED  BY <2>1 DEF Pinned
<1>4. acked = {}
  BY DEF Init
<1>5. QED  BY <1>1, <1>2, <1>3, <1>4 DEF Ledger!LInit

LEMMA StepImplements ==
  ASSUME Faults \cap {"archive", "reopen"} = {},
         TypeInv, TypeInv', EvidenceInv, IndexInv, CheckpointInv, [Next]_vars
  PROVE  [Ledger!LNext]_(Ledger!lvars)
(* The two ways to be no step of the ledger. *)
<1>a. ASSUME UNCHANGED <<chain, ckpts, acked, log, archive>>
      PROVE  UNCHANGED Ledger!lvars
  BY <1>a, Stutters DEF Stored
<1>b. ASSUME UNCHANGED <<durable, acked>> PROVE UNCHANGED Ledger!lvars
  BY <1>a, <1>b DEF durable
<1>c. ASSUME NEW t \in Trace, t \in Stored, UNCHANGED durable, acked' = acked \cup {t}
      PROVE  Ledger!LNext
  <2>1. Ledger!Tell(t)
    BY <1>c, Tells DEF durable
  <2>2. QED  BY <2>1 DEF Ledger!LNext
<1>d. Entered \subseteq Stored /\ Range(events) \subseteq Stored
  BY DEF EvidenceInv, Evidence, Saved, Stored
<1>1. CASE Tick
  BY <1>1, <1>b DEF Tick
<1>2. CASE Crash
  BY <1>2, <1>b DEF Crash
<1>3. CASE Open
  BY <1>3, <1>b DEF Open
<1>4. CASE Replay
  BY <1>4, <1>b DEF Replay
<1>5. CASE Compare
  BY <1>5, <1>b DEF Compare
<1>6. CASE Recover
  <2>1. PICK i \in DOMAIN events :
          chain' = [chain EXCEPT ![AgentOf[events[i]]] =
             Append(@, [trace |-> events[i], at |-> observed, recovered |-> TRUE])]
    BY <1>6 DEF Recover
  <2> DEFINE t == events[i]
             e == [trace |-> events[i], at |-> observed, recovered |-> TRUE]
  <2>2. t \in Trace
    BY ElementOfSeq, LenProperties DEF TypeInv, TypeOK
  <2>3. e \in Entry /\ e.trace = t
    BY <2>2 DEF Entry, TypeInv, TypeOK
  <2>4. t \in Stored
    BY <1>d DEF Range
  <2>5. chain' = [chain EXCEPT ![AgentOf[t]] = Append(@, e)]
    BY <2>1
  <2>6. UNCHANGED <<log, archive, ckpts, acked>>
    BY <1>6 DEF Recover
  <2> HIDE DEF t, e
  <2>7. Ledger!Enter(t)
    BY <2>2, <2>3, <2>4, <2>5, <2>6, Enters
  <2>8. QED  BY <2>2, <2>7 DEF Ledger!LNext
<1>7. CASE Opened
  BY <1>7, <1>b DEF Opened
<1>8. ASSUME NEW t \in Trace, PostDuplicate(t) PROVE Ledger!LNext
  <2>1. t \in Range(events)
    BY <1>8 DEF PostDuplicate, IndexInv, TraceIndexRight, Range
  <2>2. QED  BY <1>8, <1>c, <1>d, <2>1 DEF PostDuplicate
<1>9. ASSUME NEW t \in Trace, PostNew(t) PROVE Ledger!LNext
  <2>1. Range(log') = Range(log) \cup {t}
    BY <1>9, RangeAppend DEF PostNew, EvidenceInv, TypeInv, TypeOK
  <2>2. Stored' = Stored \cup {t}
    BY <1>9, <2>1 DEF PostNew, Stored
  <2>3. UNCHANGED <<LedgerOf, Pinned, acked>>
    BY <1>9 DEF PostNew, LedgerOf, Pinned, Uncommitted
  <2>4. Ledger!Store(t)
    BY <2>2, <2>3 DEF Ledger!Store
  <2>5. QED  BY <2>4 DEF Ledger!LNext
<1>10. CASE Link
  <2> DEFINE e == [trace |-> cur, at |-> clock, recovered |-> FALSE]
  <2>1. cur \in Trace /\ clock \in Nat
    BY <1>10 DEF Link, TypeInv, TypeOK, InFlight
  <2>2. e \in Entry /\ e.trace = cur
    BY <2>1 DEF Entry
  <2>3. cur \in Stored
    BY <1>10 DEF Link, EvidenceInv, Stored
  <2>4. /\ chain' = [chain EXCEPT ![AgentOf[cur]] = Append(@, e)]
        /\ UNCHANGED <<log, archive, ckpts, acked>>
    BY <1>10 DEF Link
  <2> HIDE DEF e
  <2>5. Ledger!Enter(cur)
    BY <2>1, <2>2, <2>3, <2>4, Enters
  <2>6. QED  BY <2>1, <2>5 DEF Ledger!LNext
<1>11. CASE LinkFails
  BY <1>11, <1>b DEF LinkFails, Return
<1>12. CASE MaybeCheckpoint
  <2>1. /\ AgentOf[cur] \in Agent
        /\ pc \in Running
        /\ UNCHANGED <<log, archive, chain, acked>>
    BY <1>12, ParameterAssumption DEF MaybeCheckpoint, TypeInv, InFlight, Running
  <2>2. CASE CheckpointDue(AgentOf[cur])
    <3>1. Ledger!Pin(AgentOf[cur])
      BY <1>12, <2>1, <2>2, Pins DEF MaybeCheckpoint, CheckpointDue
    <3>2. QED  BY <2>1, <3>1 DEF Ledger!LNext
  <2>3. CASE ~CheckpointDue(AgentOf[cur])
    BY <1>12, <1>a, <2>3 DEF MaybeCheckpoint
  <2>4. QED  BY <2>2, <2>3
<1>13. CASE CheckpointFails
  BY <1>13, <1>b DEF CheckpointFails, Return
<1>14. CASE RetainAll
  <2>1. cur \in Trace /\ cur \in Entered /\ acked' = acked \cup {cur}
    BY <1>14 DEF RetainAll, Return, EvidenceInv, TypeInv, InFlight
  <2>2. QED  BY <1>14, <1>c, <1>d, <2>1 DEF RetainAll
<1>15. CASE Evict
  BY <1>15, <1>b DEF Evict
<1>16. CASE ArchiveLine
  <2>1. Head(batch) \in Range(batch) /\ Head(batch) \in Trace
    BY <1>16, RangeHeadTail, HeadTailProperties DEF ArchiveLine, TypeInv, TypeOK
  <2>2. Range(archive') = Range(archive) \cup {Head(batch)}
    BY <1>16, <2>1, RangeAppend DEF ArchiveLine, TypeInv, TypeOK
  <2>3. Stored' = Stored
    BY <1>16, <2>1, <2>2 DEF ArchiveLine, Stored, EvidenceInv
  <2>4. QED  BY <1>16, <2>3, Stutters DEF ArchiveLine
<1>17. CASE ArchiveFails
  BY <1>17 DEF ArchiveFails
<1>18. CASE Compact
  <2>1. \E S \in SUBSET Stored : Ledger!Forget(S)
    BY <1>18, Forgets DEF Compact, ArchiveWritten
  <2>2. QED  BY <2>1 DEF Ledger!LNext
<1>19. CASE CompactFails
  BY <1>19, <1>b DEF CompactFails, Return
<1>20. CASE ReopenFails
  BY <1>20 DEF ReopenFails
<1>21. CASE Reply
  <2>1. cur \in Trace /\ cur \in Entered /\ acked' = acked \cup {cur}
    BY <1>21 DEF Reply, Return, EvidenceInv, TypeInv, InFlight
  <2>2. QED  BY <1>21, <1>c, <1>d, <2>1 DEF Reply
<1>22. CASE Shutdown
  BY <1>22, <1>b DEF Shutdown
<1>23. ASSUME NEW a \in Agent, CloseAgent(a) PROVE Ledger!LNext
  <2>1. Ledger!Pin(a)
    BY <1>23, Pins DEF CloseAgent, Running
  <2>2. QED  BY <2>1 DEF Ledger!LNext
<1>24. CASE Exit
  BY <1>24, <1>b DEF Exit
<1>25. CASE UNCHANGED vars
  BY <1>25, <1>b DEF vars
<1>26. QED
  BY <1>1, <1>2, <1>3, <1>4, <1>5, <1>6, <1>7, <1>8, <1>9, <1>10, <1>11, <1>12, <1>13,
     <1>14, <1>15, <1>16, <1>17, <1>18, <1>19, <1>20, <1>21, <1>22, <1>23, <1>24, <1>25
     DEF Next

(* Every step of the store is a step of the ledger or none: evidence,       *)
(* entries and pins are only ever added, and what is forgotten is an event  *)
(* whose append failed (append, open_jsonl, enforce_retention,              *)
(* commit_checkpoint).                                                      *)
THEOREM LedgerImplemented ==
  ASSUME Faults \cap {"archive", "reopen"} = {}
  PROVE  Spec => ImplementsLedger
<1> DEFINE IInv == TypeInv /\ IndexInv /\ EvidenceInv /\ CheckpointInv
<1>1. Spec => []IInv
  BY EvidenceInvariant, CheckpointInvariant, PTL
<1>2. IInv /\ IInv' /\ [Next]_vars => [Ledger!LNext]_(Ledger!lvars)
  BY StepImplements
<1>3. QED
  BY <1>1, <1>2, InitImplements, PTL DEF Spec, ImplementsLedger, Ledger!LSpec

-----------------------------------------------------------------------------
(* The readers: an auditor who verifies and a consumer who pages, at the    *)
(* same store. *)

LEMMA ReaderSteps ==
  ASSUME [RNext]_<<vars, verifier, consumer>>
  PROVE  /\ [Next]_vars
         /\ ([Next]_vars /\ UNCHANGED consumer) \/ GetPage
<1>1. CASE VNext /\ UNCHANGED consumer
  BY <1>1 DEF VNext, VStoreStep, ReadArchive, VerifyChains
<1>2. CASE GetPage
  BY <1>2 DEF GetPage
<1>3. CASE UNCHANGED <<vars, verifier, consumer>>
  BY <1>3
<1>4. QED  BY <1>1, <1>2, <1>3 DEF RNext

(* What verify_chain calls missing, when every entry's event is somewhere. *)
LEMMA MissingMoved ==
  ASSUME TypeInv, EvidenceInv, VerifyChains
  PROVE  missing' \subseteq Range(archive) \ archived
<1> SUFFICES ASSUME NEW m \in missing' PROVE m \in Range(archive) /\ m \notin archived
  OBVIOUS
<1>1. pc = "idle" /\ EntriesHaveEvents
  BY StoreVerifies DEF VerifyChains
<1>2. PICK a \in Agent : m \in FirstMissing(a, archived \cup Range(events))
  BY DEF VerifyChains
<1>3. PICK i \in DOMAIN chain[a] :
        m = chain[a][i].trace /\ chain[a][i].trace \notin archived \cup Range(events)
  BY <1>2 DEF FirstMissing
<1>4. m \in Range(events) \cup Range(archive)
  BY <1>1, <1>3 DEF EntriesHaveEvents
<1>5. QED  BY <1>3, <1>4

(* A verification that races the archive can only call missing what was     *)
(* moved there after it had read it (verify_chains_for,                     *)
(* enforce_retention).                                                      *)
THEOREM MissingIsMoved ==
  ASSUME Faults \cap {"archive", "reopen"} = {}
  PROVE  RSpec => OnlyMovedEventsMissing
<1> DEFINE Inv == TypeInv /\ IndexInv /\ EvidenceInv
<1>1. RInit => Inv
  BY EvidenceInit DEF RInit, VInit
<1>2. Inv /\ [RNext]_<<vars, verifier, consumer>> => Inv'
  BY ReaderSteps, EvidenceInvStep
<1>3. Inv /\ [RNext]_<<vars, verifier, consumer>>
        => [VerifyChains => missing' \subseteq Range(archive) \ archived]_<<vars, verifier>>
  BY MissingMoved
<1>4. QED  BY <1>1, <1>2, <1>3, PTL DEF RSpec, OnlyMovedEventsMissing

-----------------------------------------------------------------------------
(* How many live positions a page sees. *)

Seen(floor, p) == Cardinality(VisibleUpTo(floor, p))

LEMMA SeenType ==
  ASSUME NEW floor \in Nat, NEW p \in Nat
  PROVE  /\ IsFiniteSet(VisibleUpTo(floor, p))
         /\ Seen(floor, p) \in Nat
         /\ p >= floor => Seen(floor, p) <= p - floor
<1>1. /\ IsFiniteSet(floor + 1 .. p)
      /\ p >= floor => Cardinality(floor + 1 .. p) = p - floor
  <2>1. floor + 1 \in Int /\ p \in Int
    OBVIOUS
  <2>2. /\ IsFiniteSet(floor + 1 .. p)
        /\ Cardinality(floor + 1 .. p) = IF floor + 1 > p THEN 0 ELSE p - (floor + 1) + 1
    BY <2>1, FS_Interval
  <2>3. ASSUME p >= floor
        PROVE  (IF floor + 1 > p THEN 0 ELSE p - (floor + 1) + 1) = p - floor
    <3>1. CASE floor + 1 > p
      BY <2>3, <3>1
    <3>2. CASE ~(floor + 1 > p)
      BY <2>3, <3>2
    <3>3. QED  BY <3>1, <3>2
  <2>4. QED  BY <2>2, <2>3
<1>2. VisibleUpTo(floor, p) \in SUBSET (floor + 1 .. p)
  BY DEF VisibleUpTo
<1>3. IsFiniteSet(VisibleUpTo(floor, p)) /\ Seen(floor, p) <= Cardinality(floor + 1 .. p)
  BY <1>1, <1>2, FS_Subset DEF Seen
<1>4. QED  BY <1>1, <1>3, FS_CardinalityType DEF Seen

LEMMA SeenNone ==
  ASSUME NEW floor \in Nat
  PROVE  Seen(floor, floor) = 0
<1>1. VisibleUpTo(floor, floor) = {}
  BY DEF VisibleUpTo
<1>2. QED  BY <1>1, FS_EmptySet, Zenon DEF Seen

(* A position more is seen if it is live. *)
LEMMA SeenNext ==
  ASSUME NEW floor \in Nat, NEW p \in Nat, p > floor
  PROVE  /\ Visible(p) => Seen(floor, p) = Seen(floor, p - 1) + 1
         /\ ~Visible(p) => Seen(floor, p) = Seen(floor, p - 1)
<1>1. p - 1 \in Nat /\ IsFiniteSet(VisibleUpTo(floor, p - 1))
  <2>1. p - 1 \in Nat
    OBVIOUS
  <2>2. QED  BY <2>1, SeenType
<1>2. ASSUME Visible(p) PROVE Seen(floor, p) = Seen(floor, p - 1) + 1
  <2>1. VisibleUpTo(floor, p) = VisibleUpTo(floor, p - 1) \cup {p}
    BY <1>2 DEF VisibleUpTo
  <2>2. p \notin VisibleUpTo(floor, p - 1)
    BY DEF VisibleUpTo
  <2>3. Cardinality(VisibleUpTo(floor, p - 1) \cup {p}) = Cardinality(VisibleUpTo(floor, p - 1)) + 1
    BY <1>1, <2>2, FS_AddElement
  <2>4. QED  BY <2>1, <2>3, Zenon DEF Seen
<1>3. ASSUME ~Visible(p) PROVE Seen(floor, p) = Seen(floor, p - 1)
  <2>1. VisibleUpTo(floor, p) = VisibleUpTo(floor, p - 1)
    BY <1>3 DEF VisibleUpTo
  <2>2. QED  BY <2>1, Zenon DEF Seen
<1>4. QED  BY <1>2, <1>3

LEMMA SeenGrows ==
  ASSUME NEW floor \in Nat, NEW p \in Nat, NEW q \in Nat, p <= q
  PROVE  Seen(floor, p) <= Seen(floor, q)
<1>1. VisibleUpTo(floor, p) \in SUBSET VisibleUpTo(floor, q)
  BY DEF VisibleUpTo
<1>2. QED  BY <1>1, SeenType, FS_Subset DEF Seen

(* The first position at which a number of events has been seen is that of  *)
(* an event, and the last of them. *)
LEMMA FirstToSee ==
  ASSUME NEW floor \in Nat, NEW n \in Nat, NEW k \in Nat \ {0},
         NEW m \in floor .. n, Seen(floor, m) >= k
  PROVE  \E p \in floor + 1 .. m :
            Visible(p) /\ Seen(floor, p) = k /\ Seen(floor, p - 1) < k
<1> DEFINE S == {p \in floor .. m : Seen(floor, p) >= k}
<1>1. S \subseteq Nat /\ m \in S
  OBVIOUS
<1>2. PICK p \in S : \A q \in S : ~ (<<q, p>> \in OpToRel(<, Nat))
  <2>1. S # {}
    BY <1>1
  <2>2. QED  BY <1>1, <2>1, NatLessThanWellFounded, WFMin
<1>3. ASSUME NEW q \in S PROVE p <= q
  <2>1. q \in Nat /\ p \in Nat
    BY <1>1, <1>2
  <2>2. ~(q < p)
    <3> HIDE DEF S
    <3>1. QED  BY <1>2, <2>1 DEF OpToRel
  <2>3. QED  BY <2>1, <2>2
<1>4. p # floor /\ p \in Nat /\ p - 1 \in floor .. m
  <2>1. Seen(floor, floor) = 0
    BY SeenNone
  <2>2. p # floor
    <3>1. Seen(floor, p) >= k
      BY <1>2
    <3>2. ~(0 >= k)
      OBVIOUS
    <3>3. QED  BY <2>1, <3>1, <3>2
  <2>3. QED  BY <2>2
<1>5. Seen(floor, p - 1) \in Nat /\ Seen(floor, p) \in Nat
  <2>1. p - 1 \in Nat
    BY <1>4
  <2>2. QED  BY <1>4, <2>1, SeenType
<1>6. Seen(floor, p - 1) < k
  <2>1. p - 1 \notin S
    BY <1>3, <1>4
  <2>2. QED  BY <1>4, <1>5, <2>1
<1>7. p > floor /\ p <= m /\ Seen(floor, p) >= k
  BY <1>4
<1>8. Visible(p) /\ Seen(floor, p) = Seen(floor, p - 1) + 1
  BY <1>4, <1>5, <1>6, <1>7, SeenNext
<1>9. QED  BY <1>4, <1>5, <1>6, <1>7, <1>8

(* A page covers at least one position. *)
LEMMA PageEndIs ==
  ASSUME NEW floor \in Nat, Len(Entries) \in Nat, floor < Len(Entries)
  PROVE  PageEnd(floor) \in floor + 1 .. Len(Entries)
<1> DEFINE n == Len(Entries)
<1> DEFINE Ends(p) ==
      /\ p > floor => Cardinality(VisibleUpTo(floor, p - 1)) < PageLimit
      /\ p < n => Cardinality(VisibleUpTo(floor, p)) >= PageLimit
<1>1. PageLimit \in Nat \ {0} /\ n \in floor .. n
  BY PagingAssumption
<1>2. \E p \in floor .. n : Ends(p)
  <2>1. CASE Seen(floor, n) >= PageLimit
    <3>1. PICK p \in floor + 1 .. n : Seen(floor, p) = PageLimit /\ Seen(floor, p - 1) < PageLimit
      BY <1>1, <2>1, FirstToSee
    <3>2. Ends(p)
      BY <1>1, <3>1 DEF Seen
    <3>3. QED  BY <3>1, <3>2
  <2>2. CASE ~(Seen(floor, n) >= PageLimit)
    <3>1. n - 1 \in Nat /\ n \in Nat /\ n - 1 <= n
      OBVIOUS
    <3>2. Seen(floor, n - 1) <= Seen(floor, n)
      BY <3>1, SeenGrows
    <3>3. Seen(floor, n - 1) \in Nat /\ Seen(floor, n) \in Nat
      BY <3>1, SeenType
    <3>4. Seen(floor, n - 1) < PageLimit
      BY <1>1, <2>2, <3>2, <3>3
    <3>5. Ends(n)
      BY <3>4 DEF Seen
    <3>6. QED  BY <1>1, <3>5
  <2>3. QED  BY <2>1, <2>2
<1>3. PageEnd(floor) = CHOOSE p \in floor .. n : Ends(p)
  BY DEF PageEnd
<1>4. PageEnd(floor) \in floor .. n /\ Ends(PageEnd(floor))
  <2> HIDE DEF Ends
  <2>1. QED  BY <1>2, <1>3
<1>5. PageEnd(floor) # floor
  <2>1. SUFFICES ASSUME PageEnd(floor) = floor PROVE FALSE
    OBVIOUS
  <2>2. Seen(floor, floor) >= PageLimit
    BY <1>4, <2>1 DEF Seen
  <2>3. QED  BY <1>1, <2>2, SeenNone
<1>6. QED  BY <1>4, <1>5

(* What a page consists of. *)
LEMMA PageIs ==
  ASSUME NEW floor \in Nat, NEW end \in Nat, floor <= end,
         NEW k \in 1 .. Seen(floor, end)
  PROVE  \E p \in floor + 1 .. end :
            /\ Visible(p) /\ Seen(floor, p) = k
            /\ PageEvents(floor, end)[k] = [seq |-> p, trace |-> events[byTrace[Entries[p].trace]]]
<1>1. Seen(floor, end) \in Nat /\ k \in Nat \ {0} /\ end \in floor .. end /\ Seen(floor, end) >= k
  <2>1. Seen(floor, end) \in Nat
    BY SeenType
  <2>2. QED  BY <2>1
<1>2. PICK q \in floor + 1 .. end : Visible(q) /\ Seen(floor, q) = k
  BY <1>1, FirstToSee
<1>3. q \in VisibleUpTo(floor, end) /\ Cardinality(VisibleUpTo(floor, q)) = k
  BY <1>2 DEF VisibleUpTo, Seen
<1> DEFINE p == CHOOSE r \in VisibleUpTo(floor, end) : Cardinality(VisibleUpTo(floor, r)) = k
<1>4. p \in VisibleUpTo(floor, end) /\ Cardinality(VisibleUpTo(floor, p)) = k
  BY <1>3
<1>5. PageEvents(floor, end)[k] = [seq |-> p, trace |-> events[byTrace[Entries[p].trace]]]
  BY DEF PageEvents, Seen
<1> HIDE DEF p
<1>6. p \in floor + 1 .. end /\ Visible(p) /\ Seen(floor, p) = k
  BY <1>4 DEF VisibleUpTo, Seen
<1>7. QED  BY <1>5, <1>6

-----------------------------------------------------------------------------
(* The consumer. *)

Delivered == [seq : Nat, trace : Trace]

PagesInv ==
    /\ after \in Nat /\ after <= Len(Entries)
    /\ received \in Seq(Delivered)
    /\ holes \in Nat
    /\ PagesExact

(* Chains are only appended to. *)
LEMMA EntriesKept ==
  ASSUME TypeInv, TypeInv', [Next]_vars
  PROVE  /\ Len(Entries) \in Nat /\ Len(Entries') \in Nat
         /\ Len(Entries) <= Len(Entries')
         /\ \A p \in 1 .. Len(Entries) : Entries'[p] = Entries[p]
<1>1. Reader \in Agent /\ Entries \in Seq(Entry) /\ Entries' \in Seq(Entry)
  BY PagingAssumption DEF Entries, TypeInv, TypeOK
<1>2. chain' = chain \/ \E a \in Agent : \E e : chain' = [chain EXCEPT ![a] = Append(@, e)]
  <2> SUFFICES ASSUME chain' # chain
               PROVE  \E a \in Agent : \E e : chain' = [chain EXCEPT ![a] = Append(@, e)]
    OBVIOUS
  <2>1. CASE Recover
    <3>1. PICK i \in DOMAIN events :
            chain' = [chain EXCEPT ![AgentOf[events[i]]] =
               Append(@, [trace |-> events[i], at |-> observed, recovered |-> TRUE])]
      BY <2>1 DEF Recover
    <3>2. AgentOf[events[i]] \in Agent
      BY ElementOfSeq, LenProperties, ParameterAssumption DEF TypeInv, TypeOK
    <3>3. QED  BY <3>1, <3>2
  <2>2. CASE Link
    <3>1. AgentOf[cur] \in Agent
      BY <2>2, ParameterAssumption DEF Link, TypeInv, InFlight
    <3>2. chain' = [chain EXCEPT ![AgentOf[cur]] =
             Append(@, [trace |-> cur, at |-> clock, recovered |-> FALSE])]
      BY <2>2 DEF Link
    <3>3. QED  BY <3>1, <3>2
  <2>3. QED
    BY <2>1, <2>2 DEF Next, Tick, Crash, Open, Replay, Compare, Opened, PostDuplicate, PostNew,
       LinkFails, MaybeCheckpoint, CheckpointFails, RetainAll, Evict, ArchiveLine,
       ArchiveFails, Compact, CompactFails, ReopenFails, Reply, Shutdown, CloseAgent, Exit,
       durable, vars
<1>3. CASE chain' = chain
  BY <1>1, <1>3, LenProperties DEF Entries
<1>4. CASE \E a \in Agent : \E e : chain' = [chain EXCEPT ![a] = Append(@, e)]
  <2>1. PICK a \in Agent : \E e : chain' = [chain EXCEPT ![a] = Append(@, e)]
    BY <1>4
  <2> PICK e : chain' = [chain EXCEPT ![a] = Append(@, e)]
    BY <2>1
  <2>2. Entries' = Entries \/ Entries' = Append(Entries, e)
    BY <1>1 DEF Entries, TypeInv, TypeOK
  <2>3. CASE Entries' = Entries
    BY <1>1, <2>3, LenProperties
  <2>4. CASE Entries' = Append(Entries, e)
    BY <1>1, <2>4, LenProperties
  <2>5. QED  BY <2>2, <2>3, <2>4
<1>5. QED  BY <1>2, <1>3, <1>4

LEMMA StoreStepPages ==
  ASSUME TypeInv, TypeInv', PagesInv, [Next]_vars, UNCHANGED consumer
  PROVE  PagesInv'
<1>1. /\ Len(Entries) \in Nat /\ Len(Entries') \in Nat
      /\ Len(Entries) <= Len(Entries')
      /\ \A p \in 1 .. Len(Entries) : Entries'[p] = Entries[p]
  BY EntriesKept
<1>2. after' = after /\ received' = received /\ holes' = holes
  BY DEF consumer
<1>3. after' \in Nat /\ after' <= Len(Entries')
  BY <1>1, <1>2 DEF PagesInv
<1>4. \A i \in DOMAIN received :
         /\ received[i].seq \in 1 .. after
         /\ Entries'[received[i].seq].trace = received[i].trace
  <2> TAKE i \in DOMAIN received
  <2>1. received[i].seq \in 1 .. after /\ Entries[received[i].seq].trace = received[i].trace
    BY DEF PagesInv, PagesExact
  <2>2. received[i].seq \in 1 .. Len(Entries)
    BY <1>1, <2>1 DEF PagesInv
  <2>3. QED  BY <1>1, <2>1, <2>2
<1>5. PagesExact'
  BY <1>2, <1>4 DEF PagesInv, PagesExact
<1>6. QED  BY <1>2, <1>3, <1>5 DEF PagesInv

LEMMA GetPagePages ==
  ASSUME TypeInv, IndexInv, PagesInv, GetPage
  PROVE  PagesInv'
<1> DEFINE end == PageEnd(after)
           page == PageEvents(after, end)
           n == Seen(after, end)
           m == Len(received)
<1>1. /\ Entries \in Seq(Entry) /\ Len(Entries) \in Nat /\ DOMAIN Entries = 1 .. Len(Entries)
      /\ Entries' = Entries
  BY PagingAssumption, LenProperties DEF Entries, TypeInv, TypeOK, GetPage, vars, durable
<1>2. /\ pc = "idle" /\ after \in Nat /\ after < Len(Entries) /\ holes \in Nat
      /\ received \in Seq(Delivered) /\ m \in Nat /\ DOMAIN received = 1 .. m
      /\ m + holes = after
  BY LenProperties DEF GetPage, PagesInv, PagesExact
<1>3. end \in after + 1 .. Len(Entries) /\ end \in Nat /\ after <= end
  BY <1>1, <1>2, PageEndIs
<1>4. /\ received' = received \o page
      /\ holes' = holes + (end - after) - Len(page)
      /\ after' = end
  <2>1. end # 0 /\ end # after
    BY <1>2, <1>3
  <2>2. (IF NextAfter(after, end) # 0 THEN NextAfter(after, end) ELSE Len(Entries)) = end
    <3> HIDE DEF end
    <3>1. QED  BY <2>1 DEF NextAfter
  <2>3. QED  BY <2>2 DEF GetPage
<1>5. n \in Nat /\ n <= end - after
  BY <1>2, <1>3, SeenType
<1>6. ASSUME NEW k \in 1 .. n
      PROVE  /\ page[k] \in Delivered
             /\ page[k].seq \in after + 1 .. end
             /\ Entries[page[k].seq].trace = page[k].trace
             /\ Seen(after, page[k].seq) = k
  <2>1. PICK p \in after + 1 .. end :
          /\ Visible(p) /\ Seen(after, p) = k
          /\ page[k] = [seq |-> p, trace |-> events[byTrace[Entries[p].trace]]]
    BY <1>2, <1>3, PageIs
  <2>2. p \in DOMAIN Entries /\ p \in Nat
    BY <1>1, <1>2, <1>3, <2>1
  <2>3. Entries[p] \in Entry
    BY <1>1, <2>2, ElementOfSeq
  <2>4. Entries[p].trace \in Trace
    BY <2>3 DEF Entry
  <2>5. byTrace[Entries[p].trace] \in DOMAIN events
    BY <2>1 DEF Visible
  <2>6. byTrace[Entries[p].trace] # 0
    BY <2>5, LenProperties DEF TypeInv, TypeOK
  <2>7. events[byTrace[Entries[p].trace]] = Entries[p].trace
    BY <1>2, <2>4, <2>6 DEF IndexInv, TraceIndexRight
  <2>8. QED  BY <2>1, <2>2, <2>4, <2>7 DEF Delivered
<1>7. page \in Seq(Delivered) /\ Len(page) = n /\ DOMAIN page = 1 .. n
  <2>1. page = [k \in 1 .. n |-> page[k]]
    BY DEF PageEvents, Seen
  <2>2. \A k \in 1 .. n : page[k] \in Delivered
    BY <1>6
  <2> HIDE DEF page, n
  <2>3. [k \in 1 .. n |-> page[k]] \in Seq(Delivered)
    BY <1>5, <2>2, IsASeq
  <2>4. page \in Seq(Delivered)
    BY <2>1, <2>3
  <2>5. DOMAIN page = 1 .. n
    BY <2>1
  <2>6. QED  BY <1>5, <2>4, <2>5, LenProperties
<1> HIDE DEF page, n, end, m
<1>8. /\ received' \in Seq(Delivered) /\ Len(received') = m + n
      /\ DOMAIN received' = 1 .. m + n
      /\ \A i \in 1 .. m : received'[i] = received[i]
      /\ \A i \in m + 1 .. m + n : received'[i] = page[i - m]
  <2>1. /\ received' \in Seq(Delivered) /\ Len(received') = m + n
        /\ \A i \in 1 .. m + n : received'[i] = IF i <= m THEN received[i] ELSE page[i - m]
    BY <1>2, <1>4, <1>7, ConcatProperties DEF m
  <2>2. DOMAIN received' = 1 .. m + n
    BY <2>1, LenProperties
  <2>3. ASSUME NEW i \in 1 .. m PROVE received'[i] = received[i]
    <3>1. i \in 1 .. m + n /\ i <= m
      BY <1>2, <1>5
    <3>2. QED  BY <2>1, <3>1
  <2>4. ASSUME NEW i \in m + 1 .. m + n PROVE received'[i] = page[i - m]
    <3>1. i \in 1 .. m + n /\ ~(i <= m)
      BY <1>2, <1>5
    <3>2. QED  BY <2>1, <3>1
  <2>5. QED  BY <2>1, <2>2, <2>3, <2>4
<1>9. holes' \in Nat /\ Len(received') + holes' = after'
  BY <1>2, <1>3, <1>4, <1>5, <1>7, <1>8
<1>10. \A i \in 1 .. m : received[i].seq \in 1 .. after /\ Entries[received[i].seq].trace = received[i].trace
  BY <1>2 DEF PagesInv, PagesExact
<1>11. ASSUME NEW i \in DOMAIN received'
       PROVE  /\ received'[i].seq \in 1 .. after'
              /\ Entries'[received'[i].seq].trace = received'[i].trace
  <2>1. CASE i \in 1 .. m
    BY <1>1, <1>2, <1>3, <1>4, <1>8, <1>10, <2>1
  <2>2. CASE i \in m + 1 .. m + n
    <3>1. i - m \in 1 .. n /\ received'[i] = page[i - m]
      BY <1>2, <1>5, <1>8, <2>2
    <3>2. page[i - m].seq \in after + 1 .. end /\ Entries[page[i - m].seq].trace = page[i - m].trace
      BY <1>6, <3>1
    <3>3. QED  BY <1>1, <1>2, <1>3, <1>4, <3>1, <3>2
  <2>3. QED  BY <1>2, <1>5, <1>8, <2>1, <2>2
<1>12. ASSUME NEW i \in DOMAIN received', NEW j \in DOMAIN received', i < j
       PROVE  received'[i].seq < received'[j].seq
  <2>1. CASE j \in 1 .. m
    BY <1>2, <1>8, <1>12, <2>1 DEF PagesInv, PagesExact
  <2>2. CASE i \in 1 .. m /\ j \in m + 1 .. m + n
    <3>1. j - m \in 1 .. n /\ received'[j] = page[j - m]
      BY <1>2, <1>5, <1>8, <2>2
    <3>2. page[j - m].seq \in after + 1 .. end
      BY <1>6, <3>1
    <3>3. received'[i].seq \in 1 .. after
      BY <1>8, <1>10, <2>2
    <3>4. QED  BY <1>2, <1>3, <3>1, <3>2, <3>3
  <2>3. CASE i \in m + 1 .. m + n /\ j \in m + 1 .. m + n
    <3> DEFINE k == i - m
               h == j - m
    <3>1. k \in 1 .. n /\ received'[i] = page[k]
      BY <1>2, <1>5, <1>8, <2>3
    <3>2. h \in 1 .. n /\ received'[j] = page[h]
      BY <1>2, <1>5, <1>8, <2>3
    <3>3. k < h
      BY <1>2, <1>5, <1>12, <2>3
    <3> HIDE DEF k, h
    <3>4. /\ page[k].seq \in after + 1 .. end /\ Seen(after, page[k].seq) = k
          /\ page[h].seq \in after + 1 .. end /\ Seen(after, page[h].seq) = h
      BY <1>6, <3>1, <3>2
    <3>5. page[k].seq \in Nat /\ page[h].seq \in Nat
      BY <1>2, <1>3, <3>4
    <3>6. ~(page[h].seq <= page[k].seq)
      <4>1. SUFFICES ASSUME page[h].seq <= page[k].seq PROVE FALSE
        OBVIOUS
      <4>2. Seen(after, page[h].seq) <= Seen(after, page[k].seq)
        BY <1>2, <3>5, <4>1, SeenGrows
      <4>3. h <= k /\ h \in Nat /\ k \in Nat
        BY <1>5, <3>1, <3>2, <3>4, <4>2
      <4>4. QED  BY <3>3, <4>3
    <3>7. QED  BY <3>1, <3>2, <3>5, <3>6
  <2>4. QED  BY <1>2, <1>5, <1>8, <1>12, <2>1, <2>2, <2>3
<1>13. PagesExact'
  BY <1>9, <1>11, <1>12 DEF PagesExact
<1>14. after' \in Nat /\ after' <= Len(Entries')
  BY <1>1, <1>2, <1>3, <1>4
<1>15. QED  BY <1>8, <1>9, <1>13, <1>14 DEF PagesInv

(* "A concurrent append or an archive compaction cannot cause a consumer to *)
(* skip or repeat an event" (chain_page), for every number of events and    *)
(* agents, every page limit and every retention.  The archive fault is      *)
(* excluded: after it the index is stale until the next restart. *)
THEOREM PagesAreExact ==
  ASSUME "archive" \notin Faults
  PROVE  RSpec => []PagesExact
<1> DEFINE Inv == TypeInv /\ IndexInv /\ PagesInv
<1>1. RInit => Inv
  <2> SUFFICES ASSUME RInit PROVE Inv
    OBVIOUS
  <2>1. TypeInv /\ IndexInv
    BY InitType DEF RInit, PInit, Init, IndexInv, TraceIndexRight, SessionIndexRight
  <2>2. Entries = <<>> /\ received = <<>> /\ after = 0 /\ holes = 0
    BY PagingAssumption DEF RInit, PInit, Init, Entries
  <2>3. received \in Seq(Delivered) /\ Len(received) = 0 /\ DOMAIN received = {} /\ Len(Entries) = 0
    BY <2>2, EmptySeq
  <2>4. QED  BY <2>1, <2>2, <2>3 DEF PagesInv, PagesExact
<1>2. Inv /\ [RNext]_<<vars, verifier, consumer>> => Inv'
  <2> SUFFICES ASSUME Inv, [RNext]_<<vars, verifier, consumer>> PROVE Inv'
    OBVIOUS
  <2>1. TypeInv' /\ IndexInv'
    BY ReaderSteps, TypeStep, IndexStep
  <2>2. CASE [Next]_vars /\ UNCHANGED consumer
    BY <2>1, <2>2, StoreStepPages
  <2>3. CASE GetPage
    BY <2>1, <2>3, GetPagePages
  <2>4. QED  BY <2>2, <2>3, ReaderSteps
<1>3. Inv => PagesExact
  BY DEF PagesInv
<1>4. QED  BY <1>1, <1>2, <1>3, PTL DEF RSpec

-----------------------------------------------------------------------------
(* The order of an agent's events: that of its chain is that of the log, as *)
(* long as they have not been archived, whatever was evicted and read back. *)

Fresh(t) == t \notin Range(archive)

Owned == \A a \in Agent : \A p \in DOMAIN chain[a] : AgentOf[chain[a][p].trace] = a

WrittenOnce == \A m, n \in DOMAIN log : log[m] = log[n] /\ Fresh(log[m]) => m = n

(* Entries of c for t and for u are in this order. *)
InOrder(c, t, u) ==
    \A p, q \in DOMAIN c : c[p].trace = t /\ c[q].trace = u => p <= q

EnteredInOrder ==
    \A m, n \in DOMAIN log :
        m <= n /\ Fresh(log[m]) /\ Fresh(log[n]) /\ AgentOf[log[m]] = AgentOf[log[n]]
            => InOrder(chain[AgentOf[log[m]]], log[m], log[n])

(* Memory has the events in the order of the log. *)
ReadInOrder ==
    \A i, j \in DOMAIN events : \A m, n \in DOMAIN log :
        i < j /\ Fresh(events[i]) /\ Fresh(events[j]) /\ log[m] = events[i] /\ log[n] = events[j]
            => m < n

(* While the store starts, memory is the part of the log that was read, and *)
(* the chain of an agent that is not suspect a prefix of its events.        *)
Starting ==
    /\ pc = "down" => events = <<>>
    /\ pc = "replay" =>
          \A i \in DOMAIN events : \E m \in DOMAIN log : m <= cursor /\ log[m] = events[i]
    /\ pc \in {"replay", "recover"} => Ranked(events)
    /\ pc = "recover" =>
          /\ Range(log) \subseteq Range(events)
          /\ \A a \in Agent \ suspect :
                PositionsOf(events, a) # {} => Follows(events, chain[a], a)

Posting ==
    pc = "link" =>
        /\ log # <<>> /\ log[Len(log)] = cur
        /\ Fresh(cur) => ~Holds(chain[AgentOf[cur]], cur)

(* A line of the log that is not archived is in memory, or being posted.    *)
Covered ==
    pc \in Loaded => Range(log) \subseteq Held \cup (IF pc = "link" THEN {cur} ELSE {})

OrderInv ==
    /\ Owned
    /\ WrittenOnce
    /\ EnteredInOrder
    /\ Distinct(events)
    /\ ReadInOrder
    /\ Starting
    /\ Posting

LEMMA RankedEmpty == Ranked(<<>>)
<1>1. ASSUME NEW a PROVE Cardinality(PositionsOf(<<>>, a)) = 0
  <2>1. PositionsOf(<<>>, a) = {}
    BY DEF PositionsOf
  <2>2. Cardinality({}) = 0
    BY FS_EmptySet
  <2>3. QED  BY <2>1, <2>2, Zenon
<1>2. QED  BY <1>1 DEF Ranked

(* A step that leaves the log, the chains and memory as they are. *)
LEMMA SameOrder ==
  ASSUME OrderInv, UNCHANGED <<log, chain, events>>,
         Range(archive) \subseteq Range(archive'),
         pc' = "down" => pc = "down",
         pc' = "replay" => pc = "replay" /\ cursor' = cursor,
         pc' = "recover" => pc = "recover" /\ suspect' = suspect,
         pc' = "link" => pc = "link" /\ cur' = cur
  PROVE  OrderInv'
<1>1. \A t : Fresh(t)' => Fresh(t)
  BY DEF Fresh
<1>2. Owned' /\ Distinct(events')
  BY DEF OrderInv, Owned
<1>3. WrittenOnce' /\ EnteredInOrder' /\ ReadInOrder'
  BY <1>1 DEF OrderInv, WrittenOnce, EnteredInOrder, ReadInOrder, InOrder
<1>4. Starting'
  BY DEF OrderInv, Starting, Follows, PositionsOf
<1>5. Posting'
  BY <1>1 DEF OrderInv, Posting
<1>6. QED  BY <1>2, <1>3, <1>4, <1>5 DEF OrderInv

LEMMA BlankOrder ==
  ASSUME OrderInv, EmptyMemory, pc' = "down", UNCHANGED durable
  PROVE  OrderInv'
<1>1. events' = <<>> /\ DOMAIN events' = {} /\ UNCHANGED <<log, archive, chain>>
  BY DEF EmptyMemory, durable
<1>2. Owned' /\ WrittenOnce' /\ EnteredInOrder'
  BY <1>1 DEF OrderInv, Owned, WrittenOnce, EnteredInOrder, InOrder, Fresh
<1>3. Distinct(events') /\ ReadInOrder'
  BY <1>1 DEF Distinct, ReadInOrder
<1>4. Starting' /\ Posting'
  BY <1>1 DEF Starting, Posting
<1>5. QED  BY <1>2, <1>3, <1>4 DEF OrderInv

(* An entry for an event that no later line of its agent has one before. *)
LEMMA PushInOrder ==
  ASSUME TypeInv, Owned, EnteredInOrder,
         NEW e \in Entry, NEW t, t = e.trace,
         chain' = [chain EXCEPT ![AgentOf[t]] = Append(@, e)],
         UNCHANGED <<log, archive>>,
         \A m, n \in DOMAIN log :
            m <= n /\ log[m] = t /\ Fresh(t) /\ Fresh(log[n]) /\ AgentOf[log[n]] = AgentOf[t]
               => ~Holds(chain[AgentOf[t]], log[n])
  PROVE  Owned' /\ EnteredInOrder'
<1> DEFINE a == AgentOf[t]
           c == chain[a]
           d == chain'[a]
           k == Len(c) + 1
<1>1. t \in Trace /\ a \in Agent /\ c \in Seq(Entry)
  BY ParameterAssumption DEF TypeInv, TypeOK, Entry
<1>2. d = Append(c, e) /\ \A b \in Agent : b # a => chain'[b] = chain[b]
  BY <1>1 DEF TypeInv, TypeOK
<1>3. /\ Len(c) \in Nat
      /\ DOMAIN c = 1 .. Len(c)
      /\ DOMAIN d = DOMAIN c \cup {k}
      /\ \A p \in DOMAIN c : d[p] = c[p]
      /\ d[k] = e
      /\ \A p \in DOMAIN d : p <= k /\ p \in Nat
  <2>1. /\ Len(c) \in Nat
        /\ DOMAIN c = 1 .. Len(c)
        /\ DOMAIN d = 1 .. k
        /\ \A p \in 1 .. Len(c) : d[p] = c[p]
        /\ d[k] = e
    BY <1>1, <1>2, LenProperties, AppendProperties
  <2>2. 1 .. k = (1 .. Len(c)) \cup {k}
    BY <2>1
  <2>3. QED  BY <2>1, <2>2
<1> HIDE DEF k, c, d
<1>4. Owned'
  <2>1. ASSUME NEW b \in Agent, NEW p \in DOMAIN chain'[b]
        PROVE  AgentOf[chain'[b][p].trace] = b
    <3>1. CASE b # a
      BY <1>2, <2>1, <3>1 DEF Owned
    <3>2. CASE b = a
      <4>1. CASE p \in DOMAIN c
        BY <1>1, <1>3, <3>2, <4>1 DEF Owned, c, d
      <4>2. CASE p = k
        BY <1>3, <3>2, <4>2 DEF d
      <4>3. QED  BY <1>3, <2>1, <3>2, <4>1, <4>2 DEF d
    <3>3. QED  BY <3>1, <3>2
  <2>2. QED  BY <2>1 DEF Owned
<1>5. ASSUME NEW m \in DOMAIN log, NEW n \in DOMAIN log, m <= n,
             Fresh(log[m]), Fresh(log[n]), AgentOf[log[m]] = AgentOf[log[n]]
      PROVE  InOrder(chain'[AgentOf[log[m]]], log[m], log[n])
  <2>1. InOrder(chain[AgentOf[log[m]]], log[m], log[n])
    BY <1>5 DEF EnteredInOrder
  <2>2. AgentOf[log[m]] \in Agent
    <3>1. log[m] \in Trace
      BY ElementOfSeq, LenProperties DEF TypeInv, TypeOK
    <3>2. QED  BY <3>1, ParameterAssumption
  <2>3. CASE AgentOf[log[m]] # a
    BY <1>2, <2>1, <2>2, <2>3
  <2>4. CASE AgentOf[log[m]] = a
    <3>1. ASSUME NEW p \in DOMAIN d, NEW q \in DOMAIN d,
                 d[p].trace = log[m], d[q].trace = log[n]
          PROVE  p <= q
      <4>1. CASE q = k
        BY <1>3, <4>1
      <4>2. CASE q \in DOMAIN c /\ p \in DOMAIN c
        BY <1>3, <2>1, <2>4, <3>1, <4>2 DEF InOrder, c
      <4>3. CASE q \in DOMAIN c /\ p = k
        <5>1. log[m] = t
          BY <1>3, <3>1, <4>3
        <5>2. Holds(chain[AgentOf[t]], log[n])
          BY <1>3, <3>1, <4>3 DEF Holds, c
        <5>3. QED  BY <1>5, <5>1, <5>2
      <4>4. QED  BY <1>3, <4>1, <4>2, <4>3
    <3>2. QED  BY <2>4, <3>1 DEF InOrder, d
  <2>5. QED  BY <2>3, <2>4
<1>6. EnteredInOrder'
  BY <1>5 DEF EnteredInOrder, Fresh
<1>7. QED  BY <1>4, <1>6

-----------------------------------------------------------------------------
(* The steps that read, write or replace the log. *)

LEMMA EventsAreTraces ==
  ASSUME TypeInv
  PROVE  /\ \A m \in DOMAIN log : log[m] \in Trace /\ AgentOf[log[m]] \in Agent /\ m \in Nat
         /\ \A i \in DOMAIN events :
               events[i] \in Trace /\ AgentOf[events[i]] \in Agent /\ i \in Nat
<1>1. \A s \in Seq(Trace) : \A m \in DOMAIN s :
         s[m] \in Trace /\ AgentOf[s[m]] \in Agent /\ m \in Nat
  BY ElementOfSeq, LenProperties, ParameterAssumption
<1>2. QED  BY <1>1 DEF TypeInv, TypeOK

LEMMA ReplayOrder == TypeInv /\ Known /\ OrderInv /\ Replay => OrderInv'
<1> SUFFICES ASSUME TypeInv, Known, OrderInv, Replay PROVE OrderInv'
  OBVIOUS
<1> DEFINE t == log[cursor + 1]
           n == Len(events) + 1
<1>1. /\ cursor + 1 \in DOMAIN log /\ cursor \in Nat
      /\ pc = "replay" /\ pc' = "replay" /\ cursor' = cursor + 1
      /\ UNCHANGED <<log, archive, chain>>
  BY LenProperties DEF Replay, durable, TypeInv, TypeOK
<1>2. \A i \in DOMAIN events : \E m \in DOMAIN log : m <= cursor /\ log[m] = events[i]
  BY <1>1 DEF OrderInv, Starting
<1>3. Ranked(events) /\ Distinct(events)
  BY <1>1 DEF OrderInv, Starting
<1>4. /\ \A m \in DOMAIN log : log[m] \in Trace /\ m \in Nat
      /\ \A i \in DOMAIN events : events[i] \in Trace /\ i \in Nat
  BY EventsAreTraces
<1>5. Owned' /\ WrittenOnce' /\ EnteredInOrder' /\ Posting'
  BY <1>1 DEF OrderInv, Owned, WrittenOnce, EnteredInOrder, InOrder, Posting, Fresh
<1>6. CASE byTrace[t] # 0
  <2>1. events' = events
    BY <1>6 DEF Replay
  <2>2. Starting'
    <3>1. \A i \in DOMAIN events : \E m \in DOMAIN log : m <= cursor + 1 /\ log[m] = events[i]
      BY <1>1, <1>2, <1>4
    <3>2. QED  BY <1>1, <1>3, <2>1, <3>1 DEF Starting
  <2>3. ReadInOrder'
    BY <1>1, <2>1 DEF OrderInv, ReadInOrder, Fresh
  <2>4. QED  BY <1>3, <1>5, <2>1, <2>2, <2>3 DEF OrderInv
<1>7. CASE byTrace[t] = 0
  <2>1. events' = Append(events, t)
    BY <1>7 DEF Replay, Index
  <2>2. t \in Trace /\ events \in Seq(Trace) /\ \A i \in DOMAIN events : events[i] # t
    BY <1>1, <1>4, <1>7 DEF Known, TypeInv, TypeOK
  <2> HIDE DEF t, n
  <2>3. Longer(events', events, t)
    BY <2>1 DEF Longer
  <2>4. Distinct(events') /\ Ranked(events')
    BY <1>3, <2>2, <2>3, AppendKeepsLog
  <2>5. /\ DOMAIN events' = DOMAIN events \cup {n}
        /\ n \notin DOMAIN events
        /\ events'[n] = t
        /\ \A i \in DOMAIN events : events'[i] = events[i]
    <3>1. \A i \in DOMAIN events : events'[i] = events[i]
      BY <2>2, <2>3, RankKept
    <3>2. /\ DOMAIN events' = DOMAIN events \cup {n}
          /\ n \notin DOMAIN events
          /\ events'[n] = t
      BY <2>2, <2>3, AppendedShape DEF n
    <3>3. QED  BY <3>1, <3>2
  <2>6. \A i \in DOMAIN events : i < n
    BY LenProperties DEF n, TypeInv, TypeOK
  <2>7. ASSUME NEW i \in DOMAIN events' PROVE \E m \in DOMAIN log : m <= cursor + 1 /\ log[m] = events'[i]
    <3>1. CASE i = n
      BY <1>1, <2>5, <3>1 DEF t
    <3>2. CASE i \in DOMAIN events
      BY <1>1, <1>2, <1>4, <2>5, <3>2
    <3>3. QED  BY <2>5, <3>1, <3>2
  <2>8. Starting'
    BY <1>1, <2>4, <2>7 DEF Starting
  <2>9. ASSUME NEW i \in DOMAIN events', NEW j \in DOMAIN events', NEW x \in DOMAIN log, NEW y \in DOMAIN log,
               i < j, Fresh(events'[i]), Fresh(events'[j]), log[x] = events'[i], log[y] = events'[j]
        PROVE  x < y
    <3>1. CASE j \in DOMAIN events /\ i \in DOMAIN events
      BY <2>5, <2>9, <3>1 DEF OrderInv, ReadInOrder
    <3>2. CASE j = n /\ i \in DOMAIN events
      <4>1. y = cursor + 1
        BY <1>1, <2>5, <2>9, <3>2 DEF OrderInv, WrittenOnce, t
      <4>2. PICK m \in DOMAIN log : m <= cursor /\ log[m] = events[i]
        BY <1>2, <3>2
      <4>3. x = m
        BY <2>5, <2>9, <3>2, <4>2 DEF OrderInv, WrittenOnce
      <4>4. QED  BY <1>1, <1>4, <4>1, <4>2, <4>3
    <3>3. CASE i = n /\ j \in DOMAIN events
      <4>1. j < n /\ j \in Nat /\ n \in Nat
        BY <1>4, <2>2, <2>6, <3>3, LenProperties DEF n
      <4>2. QED  BY <2>9, <3>3, <4>1
    <3>4. CASE i = n /\ j = n
      <4>1. n \in Nat
        BY <2>2, LenProperties DEF n
      <4>2. QED  BY <2>9, <3>4, <4>1
    <3>5. QED  BY <2>5, <2>9, <3>1, <3>2, <3>3, <3>4
  <2>10. ReadInOrder'
    BY <1>1, <2>9 DEF ReadInOrder, Fresh
  <2>11. QED  BY <1>5, <2>4, <2>8, <2>10 DEF OrderInv
<1>8. QED  BY <1>6, <1>7

LEMMA CompareOrder == TypeInv /\ EvidenceInv /\ OrderInv /\ Compare => OrderInv'
<1> SUFFICES ASSUME TypeInv, EvidenceInv, OrderInv, Compare PROVE OrderInv'
  OBVIOUS
<1>1. /\ pc = "replay" /\ pc' = "recover"
      /\ UNCHANGED <<log, archive, chain, events>>
      /\ suspect' = {a \in Agent : PositionsOf(events, a) # {} /\ ~Aligned(a)}
  BY DEF Compare, durable
<1>2. Range(log) \subseteq Range(events)
  <2>1. \A i \in DOMAIN log : i <= cursor
    BY LenProperties DEF Compare, TypeInv, TypeOK
  <2>2. QED  BY <1>1, <2>1 DEF EvidenceInv, Range
<1>3. \A a \in Agent \ suspect' : PositionsOf(events, a) # {} => Follows(events, chain[a], a)
  BY <1>1 DEF Aligned, Follows
<1>4. Starting'
  <2>1. Ranked(events)
    BY <1>1 DEF OrderInv, Starting
  <2>2. QED  BY <1>1, <1>2, <1>3, <2>1 DEF Starting, Follows, PositionsOf
<1>5. QED
  BY <1>1, <1>4 DEF OrderInv, Owned, WrittenOnce, EnteredInOrder, InOrder, ReadInOrder, Posting,
                    Fresh

LEMMA RecoverOrder == TypeInv /\ OrderInv /\ Recover => OrderInv'
<1> SUFFICES ASSUME TypeInv, OrderInv, Recover PROVE OrderInv'
  OBVIOUS
<1>1. /\ pc = "recover" /\ pc' = "recover"
      /\ UNCHANGED <<log, archive, events, suspect>>
  BY DEF Recover, memory, control
<1>2. PICK i \in DOMAIN events :
        /\ NextMissing(i)
        /\ chain' = [chain EXCEPT ![AgentOf[events[i]]] =
              Append(@, [trace |-> events[i], at |-> observed, recovered |-> TRUE])]
  BY DEF Recover
<1> DEFINE t == events[i]
           a == AgentOf[t]
           e == [trace |-> t, at |-> observed, recovered |-> TRUE]
           c == chain[a]
<1>3. /\ t \in Trace /\ a \in Agent /\ i \in Nat
      /\ e \in Entry /\ e.trace = t
      /\ events \in Seq(Trace)
      /\ c \in Seq(Entry) /\ Len(c) \in Nat /\ DOMAIN c = 1 .. Len(c)
  <2>1. t \in Trace /\ a \in Agent /\ i \in Nat
    BY EventsAreTraces
  <2>2. e \in Entry /\ e.trace = t
    BY <2>1 DEF Entry, TypeInv, TypeOK
  <2>3. QED  BY <2>1, <2>2, LenProperties DEF TypeInv, TypeOK
<1>4. chain' = [chain EXCEPT ![a] = Append(@, e)]
  BY <1>2
<1>5. a \notin suspect /\ Ordinal(events, i) = Len(c) + 1
  BY <1>2 DEF NextMissing
<1>6. Ranked(events) /\ Range(log) \subseteq Range(events)
  BY <1>1 DEF OrderInv, Starting
<1>7. Follows(events, c, a)
  <2>1. i \in PositionsOf(events, a)
    BY DEF PositionsOf
  <2>2. QED  BY <1>1, <1>3, <1>5, <2>1 DEF OrderInv, Starting
<1> HIDE DEF t, a, e, c
<1>8. ASSUME NEW m \in DOMAIN log, NEW n \in DOMAIN log,
             m <= n, log[m] = t, Fresh(t), Fresh(log[n]), AgentOf[log[n]] = AgentOf[t]
      PROVE  ~Holds(chain[AgentOf[t]], log[n])
  <2> SUFFICES ASSUME Holds(c, log[n]) PROVE FALSE
    BY DEF a, c
  <2>1. PICK j \in DOMAIN events : events[j] = log[n]
    BY <1>6 DEF Range
  <2>2. AgentOf[events[j]] = a /\ AgentOf[events[i]] = a
    BY <1>8, <2>1 DEF a, t
  <2>3. PICK p \in DOMAIN c : c[p].trace = events[j]
    BY <2>1 DEF Holds
  <2>4. Cardinality(PositionsOf(events, a)) \in Nat /\ Len(c) <= Cardinality(PositionsOf(events, a))
    BY <1>3, <1>7, PositionsFinite DEF Follows
  <2>5. p \in 1 .. Cardinality(PositionsOf(events, a)) /\ p <= Len(c)
    BY <1>3, <2>3, <2>4
  <2>6. PICK k \in PositionsOf(events, a) : Ordinal(events, k) = p
    BY <1>3, <1>6, <2>5 DEF Ranked
  <2>7. c[p].trace = events[k] /\ k \in DOMAIN events /\ AgentOf[events[k]] = a
    BY <1>7, <2>5, <2>6 DEF Follows, PositionsOf
  <2>8. k = j
    BY <2>3, <2>7 DEF OrderInv, Distinct
  <2>9. j < i
    <3>1. Ordinal(events, j) < Ordinal(events, i)
      BY <1>3, <1>5, <2>5, <2>6, <2>8
    <3>2. j \in Nat
      BY EventsAreTraces
    <3>3. Ordinal(events, i) \in Nat /\ Ordinal(events, j) \in Nat
      BY <1>3, <3>2, SameFinite
    <3>4. ~(i < j)
      BY <1>3, <2>2, <3>1, <3>3, RankGrows
    <3>5. i # j
      BY <3>1, <3>3
    <3>6. QED  BY <1>3, <3>2, <3>4, <3>5
  <2>10. n < m
    BY <1>8, <2>1, <2>9 DEF OrderInv, ReadInOrder, t
  <2>11. QED  BY <1>8, <2>10, EventsAreTraces
<1>9. Owned' /\ EnteredInOrder'
  BY <1>1, <1>3, <1>4, <1>8, PushInOrder DEF OrderInv, a
<1>10. ASSUME NEW b \in Agent, b \notin suspect, PositionsOf(events, b) # {}
       PROVE  Follows(events, chain'[b], b)
  <2>1. CASE b # a
    <3>1. chain'[b] = chain[b]
      BY <1>3, <1>4, <2>1 DEF TypeInv, TypeOK
    <3>2. QED  BY <1>1, <1>10, <3>1 DEF OrderInv, Starting
  <2>2. CASE b = a
    <3>1. chain'[a] = Append(c, e)
      BY <1>3, <1>4 DEF TypeInv, TypeOK, c
    <3>2. a = AgentOf[events[i]] /\ e.trace = events[i]
      BY <1>3 DEF a, t
    <3>3. Follows(events, chain'[a], a)
      BY <1>3, <1>5, <1>7, <3>1, <3>2, PushFollows
    <3>4. QED  BY <2>2, <3>3
  <2>3. QED  BY <2>1, <2>2
<1>11. Starting'
  BY <1>1, <1>6, <1>10 DEF Starting, Follows, PositionsOf
<1>12. QED
  BY <1>1, <1>9, <1>11 DEF OrderInv, WrittenOnce, ReadInOrder, Posting, Fresh
-----------------------------------------------------------------------------

LEMMA CoveredStep ==
  ASSUME Faults \cap {"archive", "chain", "reopen"} = {},
         TypeInv, EvidenceInv, Covered, [Next]_vars
  PROVE  Covered'
<1>1. CASE Tick
  BY <1>1 DEF Tick, Covered, Held, Loaded, durable, memory, control
<1>2. CASE Crash \/ Open \/ Replay \/ Exit
  BY <1>2 DEF Crash, Open, Replay, Exit, Covered, Loaded
<1>3. CASE Compare
  <2>1. \A i \in DOMAIN log : i <= cursor
    BY <1>3, LenProperties DEF Compare, TypeInv, TypeOK
  <2>2. Range(log) \subseteq Range(events)
    BY <1>3, <2>1 DEF Compare, EvidenceInv, Range
  <2>3. QED  BY <1>3, <2>2 DEF Compare, Covered, Held, durable
<1>4. CASE Recover \/ Opened
  BY <1>4 DEF Recover, Opened, Covered, Held, Loaded, durable, memory, control
<1>5. ASSUME NEW t \in Trace, PostDuplicate(t) PROVE Covered'
  BY <1>5 DEF PostDuplicate, Covered, Held, Loaded, durable, memory, control
<1>6. ASSUME NEW t \in Trace, PostNew(t) PROVE Covered'
  <2>1. Range(log') = Range(log) \cup {t}
    BY <1>6, RangeAppend DEF PostNew, EvidenceInv, TypeInv, TypeOK
  <2>2. /\ UNCHANGED <<archive, events, batch>>
        /\ cur' = t /\ pc = "idle" /\ pc' = "link"
    BY <1>6 DEF PostNew, memory
  <2>3. QED  BY <2>1, <2>2 DEF Covered, Held, Loaded
<1>7. CASE Link
  <2>1. Range(events') = Range(events) \cup {cur}
    BY <1>7, RangeAppend DEF Link, Index, TypeInv, TypeOK, InFlight
  <2>2. UNCHANGED <<log, archive, batch>> /\ pc = "link" /\ pc' = "commit"
    BY <1>7 DEF Link
  <2>3. QED  BY <2>1, <2>2 DEF Covered, Held, Loaded
<1>8. CASE LinkFails \/ ArchiveFails \/ ReopenFails
  BY <1>8 DEF LinkFails, ArchiveFails, ReopenFails
<1>9. CASE MaybeCheckpoint
  BY <1>9 DEF MaybeCheckpoint, Covered, Held, Loaded
<1>10. CASE CheckpointFails \/ RetainAll \/ Reply
  <2>1. pc \in {"commit", "retain", "reply"} /\ pc' = "idle" /\ batch' = batch
    BY <1>10 DEF CheckpointFails, RetainAll, Reply, Return, EvidenceInv
  <2>2. UNCHANGED <<log, archive, events>>
    BY <1>10 DEF CheckpointFails, RetainAll, Reply, durable, memory
  <2>3. QED  BY <2>1, <2>2 DEF Covered, Held, Loaded
<1>11. CASE Evict
  <2>1. PICK n \in 1 .. Len(events) :
          /\ batch' = SubSeq(events, 1, n)
          /\ events' = SubSeq(events, n + 1, Len(events))
    BY <1>11 DEF Evict
  <2>2. Range(events) = Range(batch') \cup Range(events')
    BY <2>1, RangeSplit DEF TypeInv, TypeOK
  <2>3. UNCHANGED <<log, archive>> /\ pc = "retain" /\ pc' = "archive" /\ batch = <<>>
    BY <1>11 DEF Evict, durable, EvidenceInv
  <2>4. QED  BY <2>2, <2>3, RangeEmpty DEF Covered, Held, Loaded
<1>12. CASE ArchiveLine
  <2>1. Range(batch) = {Head(batch)} \cup Range(batch') /\ Head(batch) \in Trace
    BY <1>12, RangeHeadTail, HeadTailProperties DEF ArchiveLine, TypeInv, TypeOK
  <2>2. Range(archive') = Range(archive) \cup {Head(batch)}
    BY <1>12, <2>1, RangeAppend DEF ArchiveLine, TypeInv, TypeOK
  <2>3. UNCHANGED <<log, events, pc>> /\ pc = "archive"
    BY <1>12 DEF ArchiveLine, memory
  <2>4. QED  BY <2>1, <2>2, <2>3 DEF Covered, Held, Loaded
<1>13. CASE Compact
  BY <1>13 DEF Compact, Covered, Held
<1>14. CASE CompactFails
  <2>1. pc = "archive" /\ pc' = "idle" /\ batch = <<>> /\ batch' = <<>>
    BY <1>14 DEF CompactFails, Return, ArchiveWritten
  <2>2. UNCHANGED <<log, archive, events>>
    BY <1>14 DEF CompactFails, durable
  <2>3. QED  BY <2>1, <2>2 DEF Covered, Held, Loaded
<1>15. CASE Shutdown \/ \E a \in Agent : CloseAgent(a)
  BY <1>15 DEF Shutdown, CloseAgent, Covered, Held, Loaded, durable, memory, control
<1>16. CASE UNCHANGED vars
  BY <1>16 DEF vars, Covered, Held, durable, memory, control
<1>17. QED
  BY <1>1, <1>2, <1>3, <1>4, <1>5, <1>6, <1>7, <1>8, <1>9, <1>10, <1>11, <1>12, <1>13,
     <1>14, <1>15, <1>16 DEF Next

LEMMA PostOrder ==
  ASSUME TypeInv, EvidenceInv, Known, Covered, OrderInv, NEW t \in Trace, PostNew(t)
  PROVE  OrderInv'
<1> DEFINE k == Len(log) + 1
<1>1. /\ pc = "idle" /\ pc' = "link" /\ cur' = t /\ byTrace[t] = 0
      /\ UNCHANGED <<archive, chain, events>>
      /\ log' = Append(log, t)
  BY DEF PostNew, memory, EvidenceInv
<1>2. /\ Len(log) \in Nat /\ k \in Nat
      /\ DOMAIN log' = DOMAIN log \cup {k}
      /\ log'[k] = t
      /\ \A m \in DOMAIN log : log'[m] = log[m] /\ m < k /\ m \in Nat
      /\ log' # <<>> /\ log'[Len(log')] = t
  <2>1. /\ Len(log) \in Nat
        /\ DOMAIN log = 1 .. Len(log)
        /\ log' \in Seq(Trace) /\ Len(log') = k
        /\ DOMAIN log' = 1 .. k
        /\ log'[k] = t
        /\ \A m \in 1 .. Len(log) : log'[m] = log[m]
    BY <1>1, LenProperties, AppendProperties DEF TypeInv, TypeOK
  <2>2. 1 .. k = (1 .. Len(log)) \cup {k}
    BY <2>1
  <2>3. log' # <<>>
    BY <2>1, EmptySeq
  <2>4. QED  BY <2>1, <2>2, <2>3
<1> HIDE DEF k
<1>3. \A i \in DOMAIN events : events[i] # t
  BY <1>1 DEF Known
<1>4. Fresh(t) => \A m \in DOMAIN log : log[m] # t
  <2>1. Range(log) \subseteq Range(events) \cup Range(archive)
    BY <1>1, RangeEmpty DEF Covered, Loaded, Held, EvidenceInv
  <2>2. QED  BY <1>3, <2>1 DEF Fresh, Range
<1>5. Fresh(t) => ~Holds(chain[AgentOf[t]], t)
  <2>1. Evidence \subseteq Range(events) \cup Range(archive)
    BY <1>1, RangeEmpty DEF EvidenceInv, Loaded, Held
  <2>2. ASSUME Holds(chain[AgentOf[t]], t) PROVE t \in Evidence
    <3>1. AgentOf[t] \in Agent
      BY ParameterAssumption
    <3>2. QED  BY <2>2, <3>1 DEF Holds, Evidence, Entered
  <2>3. QED  BY <1>3, <2>1, <2>2 DEF Fresh, Range
<1>6. Owned' /\ Distinct(events')
  BY <1>1 DEF OrderInv, Owned
<1>7. WrittenOnce'
  <2>1. ASSUME NEW m \in DOMAIN log', NEW n \in DOMAIN log', log'[m] = log'[n], Fresh(log'[m])
        PROVE  m = n
    <3>1. CASE m = k \/ n = k
      BY <1>2, <1>4, <2>1, <3>1
    <3>2. CASE m \in DOMAIN log /\ n \in DOMAIN log
      BY <1>2, <2>1, <3>2 DEF OrderInv, WrittenOnce
    <3>3. QED  BY <1>2, <3>1, <3>2
  <2>2. QED  BY <1>1, <2>1 DEF WrittenOnce, Fresh
<1>8. EnteredInOrder'
  <2>1. ASSUME NEW m \in DOMAIN log', NEW n \in DOMAIN log', m <= n,
               Fresh(log'[m]), Fresh(log'[n]), AgentOf[log'[m]] = AgentOf[log'[n]]
        PROVE  InOrder(chain[AgentOf[log'[m]]], log'[m], log'[n])
    <3>1. CASE n = k
      <4>1. ~Holds(chain[AgentOf[log'[m]]], log'[n])
        BY <1>2, <1>5, <2>1, <3>1
      <4>2. QED  BY <4>1 DEF InOrder, Holds
    <3>2. CASE n # k
      <4>1. n \in DOMAIN log /\ m \in DOMAIN log
        BY <1>2, <2>1, <3>2
      <4>2. QED  BY <1>2, <2>1, <4>1 DEF OrderInv, EnteredInOrder
    <3>3. QED  BY <3>1, <3>2
  <2>2. QED  BY <1>1, <2>1 DEF EnteredInOrder, Fresh
<1>9. ReadInOrder'
  <2>1. ASSUME NEW i \in DOMAIN events, NEW m \in DOMAIN log', log'[m] = events[i]
        PROVE  m \in DOMAIN log /\ log[m] = events[i]
    BY <1>2, <1>3, <2>1
  <2>2. QED  BY <1>1, <2>1 DEF OrderInv, ReadInOrder, Fresh
<1>10. Starting' /\ Posting'
  BY <1>1, <1>2, <1>5 DEF Starting, Posting, Fresh
<1>11. QED  BY <1>6, <1>7, <1>8, <1>9, <1>10 DEF OrderInv

LEMMA LinkOrder == TypeInv /\ Known /\ New /\ OrderInv /\ Link => OrderInv'
<1> SUFFICES ASSUME TypeInv, Known, New, OrderInv, Link PROVE OrderInv'
  OBVIOUS
<1> DEFINE e == [trace |-> cur, at |-> clock, recovered |-> FALSE]
           k == Len(events) + 1
           last == Len(log)
<1>1. /\ pc = "link" /\ pc' = "commit" /\ byTrace[cur] = 0
      /\ UNCHANGED <<log, archive>>
      /\ events' = Append(events, cur)
      /\ chain' = [chain EXCEPT ![AgentOf[cur]] = Append(@, e)]
  BY DEF Link, Index, New
<1>2. cur \in Trace /\ e \in Entry /\ e.trace = cur /\ events \in Seq(Trace)
  BY <1>1 DEF TypeInv, TypeOK, InFlight, Entry
<1>3. /\ last \in DOMAIN log /\ log[last] = cur
      /\ \A m \in DOMAIN log : m <= last /\ m \in Nat
      /\ last \in Nat
      /\ Fresh(cur) => ~Holds(chain[AgentOf[cur]], cur)
  <2>1. /\ log # <<>> /\ log[last] = cur
        /\ Fresh(cur) => ~Holds(chain[AgentOf[cur]], cur)
    BY <1>1 DEF OrderInv, Posting
  <2>2. last \in Nat /\ DOMAIN log = 1 .. last /\ last # 0
    BY <2>1, LenProperties, EmptySeq DEF TypeInv, TypeOK
  <2>3. QED  BY <2>1, <2>2
<1>4. \A i \in DOMAIN events : events[i] # cur
  BY <1>1 DEF Known
<1>5. /\ DOMAIN events' = DOMAIN events \cup {k}
      /\ events'[k] = cur
      /\ \A i \in DOMAIN events : events'[i] = events[i] /\ i < k /\ i \in Nat
      /\ k \in Nat
  <2>1. /\ Len(events) \in Nat
        /\ DOMAIN events = 1 .. Len(events)
        /\ DOMAIN events' = 1 .. k
        /\ events'[k] = cur
        /\ \A i \in 1 .. Len(events) : events'[i] = events[i]
    BY <1>1, <1>2, LenProperties, AppendProperties
  <2>2. 1 .. k = (1 .. Len(events)) \cup {k}
    BY <2>1
  <2>3. QED  BY <2>1, <2>2
<1> HIDE DEF e, k, last
<1>6. ASSUME NEW m \in DOMAIN log, NEW n \in DOMAIN log,
             m <= n, log[m] = cur, Fresh(cur), Fresh(log[n]), AgentOf[log[n]] = AgentOf[cur]
      PROVE  ~Holds(chain[AgentOf[cur]], log[n])
  <2>1. m = last
    BY <1>3, <1>6 DEF OrderInv, WrittenOnce
  <2>2. n = last
    BY <1>3, <1>6, <2>1
  <2>3. QED  BY <1>3, <1>6, <2>2
<1>7. Owned' /\ EnteredInOrder'
  BY <1>1, <1>2, <1>6, PushInOrder DEF OrderInv
<1>8. Distinct(events')
  BY <1>4, <1>5 DEF OrderInv, Distinct
<1>9. ReadInOrder'
  <2>1. ASSUME NEW i \in DOMAIN events', NEW j \in DOMAIN events',
               NEW m \in DOMAIN log, NEW n \in DOMAIN log,
               i < j, Fresh(events'[i]), Fresh(events'[j]), log[m] = events'[i], log[n] = events'[j]
        PROVE  m < n
    <3>1. CASE j = k
      <4>1. i \in DOMAIN events /\ events'[i] # cur
        BY <1>4, <1>5, <2>1, <3>1
      <4>2. n = last
        BY <1>3, <1>5, <2>1, <3>1 DEF OrderInv, WrittenOnce
      <4>3. m # last
        BY <1>3, <2>1, <4>1
      <4>4. QED  BY <1>3, <4>2, <4>3
    <3>2. CASE j # k
      <4>1. i \in DOMAIN events /\ j \in DOMAIN events
        BY <1>5, <2>1, <3>2
      <4>2. QED  BY <1>5, <2>1, <4>1 DEF OrderInv, ReadInOrder
    <3>3. QED  BY <3>1, <3>2
  <2>2. QED  BY <1>1, <2>1 DEF ReadInOrder, Fresh
<1>10. WrittenOnce' /\ Starting' /\ Posting'
  BY <1>1 DEF OrderInv, WrittenOnce, Starting, Posting, Fresh
<1>11. QED  BY <1>7, <1>8, <1>9, <1>10 DEF OrderInv

LEMMA EvictOrder == TypeInv /\ OrderInv /\ Evict => OrderInv'
<1> SUFFICES ASSUME TypeInv, OrderInv, Evict PROVE OrderInv'
  OBVIOUS
<1>1. /\ UNCHANGED <<log, archive, chain>> /\ pc' = "archive"
  BY DEF Evict, durable
<1>2. PICK n \in 1 .. Len(events) : events' = SubSeq(events, n + 1, Len(events))
  BY DEF Evict
<1>3. /\ Len(events) \in Nat /\ DOMAIN events = 1 .. Len(events)
      /\ DOMAIN events' = 1 .. (Len(events) - n)
      /\ \A i \in 1 .. (Len(events) - n) : events'[i] = events[n + i]
  <2>1. /\ events' \in Seq(Trace) /\ Len(events') = Len(events) - n
        /\ \A i \in 1 .. (Len(events) - n) : events'[i] = events[n + i]
    BY <1>2, TailType DEF TypeInv, TypeOK
  <2>2. QED  BY <2>1, LenProperties DEF TypeInv, TypeOK
<1>4. \A i \in DOMAIN events' : n + i \in DOMAIN events /\ events'[i] = events[n + i] /\ i \in Nat
  BY <1>3
<1>5. Distinct(events')
  <2>1. ASSUME NEW i \in DOMAIN events', NEW j \in DOMAIN events', events'[i] = events'[j]
        PROVE  i = j
    <3>1. n + i = n + j
      BY <1>4, <2>1 DEF OrderInv, Distinct
    <3>2. QED  BY <1>4, <3>1
  <2>2. QED  BY <2>1 DEF Distinct
<1>6. ReadInOrder'
  <2>1. ASSUME NEW i \in DOMAIN events', NEW j \in DOMAIN events',
               NEW x \in DOMAIN log, NEW y \in DOMAIN log,
               i < j, Fresh(events'[i]), Fresh(events'[j]), log[x] = events'[i], log[y] = events'[j]
        PROVE  x < y
    <3>1. n + i < n + j
      BY <1>4, <2>1
    <3>2. QED  BY <1>4, <2>1, <3>1 DEF OrderInv, ReadInOrder
  <2>2. QED  BY <1>1, <2>1 DEF ReadInOrder, Fresh
<1>7. QED
  BY <1>1, <1>5, <1>6 DEF OrderInv, Owned, WrittenOnce, EnteredInOrder, InOrder, Starting,
                         Posting, Fresh

(* The compaction: the log is what memory has, in the same order. *)
LEMMA CompactOrder == TypeInv /\ EvidenceInv /\ OrderInv /\ Compact => OrderInv'
<1> SUFFICES ASSUME TypeInv, EvidenceInv, OrderInv, Compact PROVE OrderInv'
  OBVIOUS
<1>1. UNCHANGED <<archive, chain, events>> /\ pc' = "reply" /\ log' = events
  BY DEF Compact
<1>2. Distinct(events)
  BY DEF OrderInv
<1>3. \A i \in DOMAIN events : \E m \in DOMAIN log : log[m] = events[i]
  BY DEF EvidenceInv, Range
<1>4. WrittenOnce' /\ ReadInOrder'
  BY <1>1, <1>2 DEF WrittenOnce, ReadInOrder, Distinct
<1>5. EnteredInOrder'
  <2>1. ASSUME NEW i \in DOMAIN events, NEW j \in DOMAIN events, i <= j,
               Fresh(events[i]), Fresh(events[j]), AgentOf[events[i]] = AgentOf[events[j]]
        PROVE  InOrder(chain[AgentOf[events[i]]], events[i], events[j])
    <3>1. PICK m \in DOMAIN log, n \in DOMAIN log : log[m] = events[i] /\ log[n] = events[j]
      BY <1>3
    <3>2. m <= n
      <4>1. CASE i = j
        BY <2>1, <3>1, <4>1, EventsAreTraces DEF OrderInv, WrittenOnce
      <4>2. CASE i < j
        BY <2>1, <3>1, <4>2, EventsAreTraces DEF OrderInv, ReadInOrder
      <4>3. QED  BY <2>1, <4>1, <4>2, EventsAreTraces
    <3>3. QED  BY <2>1, <3>1, <3>2 DEF OrderInv, EnteredInOrder
  <2>2. QED  BY <1>1, <2>1 DEF EnteredInOrder, Fresh
<1>6. QED
  BY <1>1, <1>2, <1>4, <1>5 DEF OrderInv, Owned, Starting, Posting

-----------------------------------------------------------------------------
(* The order is kept, so it holds of every state. *)

LEMMA OrderInit == Init => OrderInv /\ Covered /\ FloorInv
<1> SUFFICES ASSUME Init PROVE OrderInv /\ Covered /\ FloorInv
  OBVIOUS
<1>1. /\ log = <<>> /\ events = <<>> /\ pc = "down"
      /\ DOMAIN log = {} /\ DOMAIN events = {}
      /\ \A a \in Agent : DOMAIN chain[a] = {}
  BY DEF Init
<1>2. FloorInv
  BY DEF Init, FloorInv, Known, New, Stamped, Running
<1>3. Covered
  BY <1>1 DEF Covered, Loaded
<1>4. Owned /\ WrittenOnce /\ EnteredInOrder /\ Distinct(events) /\ ReadInOrder
  BY <1>1 DEF Owned, WrittenOnce, EnteredInOrder, Distinct, ReadInOrder
<1>5. Starting /\ Posting
  BY <1>1 DEF Starting, Posting
<1>6. QED  BY <1>2, <1>3, <1>4, <1>5 DEF OrderInv

LEMMA OrderStep ==
  ASSUME Faults \cap {"archive", "chain", "reopen"} = {},
         TypeInv, FloorInv, EvidenceInv, Covered, OrderInv, [Next]_vars
  PROVE  OrderInv'
<1>0. Known /\ New
  BY DEF FloorInv
<1>1. CASE Tick
  BY <1>1, SameOrder DEF Tick, durable, memory, control
<1>2. CASE Crash \/ Exit
  BY <1>2, BlankOrder DEF Crash, Exit
<1>3. CASE Open
  <2>1. /\ pc = "down" /\ pc' = "replay" /\ events = <<>> /\ DOMAIN events = {}
        /\ UNCHANGED <<log, archive, chain, events>>
    BY <1>3 DEF Open, durable, memory, OrderInv, Starting
  <2>2. Ranked(events)
    BY <2>1, RankedEmpty
  <2>3. Starting' /\ Posting'
    BY <2>1, <2>2 DEF Starting, Posting
  <2>4. QED
    BY <2>1, <2>3 DEF OrderInv, Owned, WrittenOnce, EnteredInOrder, InOrder, ReadInOrder, Fresh
<1>4. CASE Replay
  BY <1>0, <1>4, ReplayOrder
<1>5. CASE Compare
  BY <1>5, CompareOrder
<1>6. CASE Recover
  BY <1>6, RecoverOrder
<1>7. CASE Opened
  BY <1>7, SameOrder DEF Opened, durable
<1>8. ASSUME NEW t \in Trace, PostDuplicate(t) PROVE OrderInv'
  BY <1>8, SameOrder DEF PostDuplicate, durable, memory, control
<1>9. ASSUME NEW t \in Trace, PostNew(t) PROVE OrderInv'
  BY <1>0, <1>9, PostOrder
<1>10. CASE Link
  BY <1>0, <1>10, LinkOrder
<1>11. CASE LinkFails \/ ArchiveFails \/ ReopenFails
  BY <1>11 DEF LinkFails, ArchiveFails, ReopenFails
<1>12. CASE MaybeCheckpoint
  BY <1>12, SameOrder DEF MaybeCheckpoint
<1>13. CASE CheckpointFails \/ RetainAll \/ Reply
  <2>1. UNCHANGED <<log, archive, chain, events>> /\ pc' = "idle"
    BY <1>13 DEF CheckpointFails, RetainAll, Reply, Return, durable, memory
  <2>2. QED  BY <2>1, SameOrder
<1>14. CASE Evict
  BY <1>14, EvictOrder
<1>15. CASE ArchiveLine
  <2>1. batch \in Seq(Trace) /\ Head(batch) \in Trace /\ archive \in Seq(Trace)
    BY <1>15, HeadTailProperties DEF ArchiveLine, TypeInv, TypeOK
  <2>2. Range(archive') = Range(archive) \cup {Head(batch)}
    BY <1>15, <2>1, RangeAppend DEF ArchiveLine
  <2>3. UNCHANGED <<log, chain, events, pc>> /\ pc = "archive"
    BY <1>15 DEF ArchiveLine, memory
  <2>4. QED  BY <2>2, <2>3, SameOrder
<1>16. CASE Compact
  BY <1>16, CompactOrder
<1>17. CASE CompactFails
  <2>1. UNCHANGED <<log, archive, chain, events>> /\ pc' = "idle"
    BY <1>17 DEF CompactFails, Return, durable
  <2>2. QED  BY <2>1, SameOrder
<1>18. CASE Shutdown
  BY <1>18, SameOrder DEF Shutdown, durable, memory
<1>19. ASSUME NEW a \in Agent, CloseAgent(a) PROVE OrderInv'
  BY <1>19, SameOrder DEF CloseAgent, control
<1>20. CASE UNCHANGED vars
  BY <1>20, SameOrder DEF vars, durable, memory, control
<1>21. QED
  BY <1>1, <1>2, <1>3, <1>4, <1>5, <1>6, <1>7, <1>8, <1>9, <1>10, <1>11, <1>12, <1>13,
     <1>14, <1>15, <1>16, <1>17, <1>18, <1>19, <1>20 DEF Next

(* The store, with its events in order. *)
OrderedStore ==
    /\ TypeInv /\ IndexInv /\ EvidenceInv
    /\ FloorInv
    /\ Covered
    /\ OrderInv

LEMMA OrderedInit == Init => OrderedStore
BY EvidenceInit, OrderInit DEF OrderedStore

LEMMA OrderedStep ==
  ASSUME Faults \cap {"archive", "chain", "reopen"} = {}
  PROVE  OrderedStore /\ [Next]_vars => OrderedStore'
<1> SUFFICES ASSUME OrderedStore, [Next]_vars PROVE OrderedStore'
  OBVIOUS
<1>1. (TypeInv /\ IndexInv /\ EvidenceInv)'
  BY EvidenceInvStep DEF OrderedStore
<1>2. FloorInv'
  BY FloorStep DEF OrderedStore
<1>3. Covered'
  BY CoveredStep DEF OrderedStore
<1>4. OrderInv'
  BY OrderStep DEF OrderedStore
<1>5. QED  BY <1>1, <1>2, <1>3, <1>4 DEF OrderedStore

-----------------------------------------------------------------------------
(* The k-th of a set of positions. *)

Below(S, i) == {j \in S : j <= i}

LEMMA BelowUnique ==
  ASSUME NEW S \in SUBSET Nat, IsFiniteSet(S), NEW i \in S, NEW j \in S,
         Cardinality(Below(S, i)) = Cardinality(Below(S, j))
  PROVE  i = j
<1>1. ASSUME NEW k \in S, NEW m \in S, k < m
      PROVE  Cardinality(Below(S, k)) # Cardinality(Below(S, m))
  <2>0. \A x \in S : x \in Nat /\ (x <= k => x <= m)
    BY <1>1
  <2>1. Below(S, m) \in SUBSET S /\ Below(S, k) \in SUBSET Below(S, m)
    BY <2>0 DEF Below
  <2>2. IsFiniteSet(Below(S, m))
    BY <2>1, FS_Subset
  <2>3. m \in Below(S, m) /\ m \notin Below(S, k)
    BY <1>1 DEF Below
  <2>4. Below(S, k) # Below(S, m)
    BY <2>3
  <2>5. QED  BY <2>1, <2>2, <2>4, FS_Subset, Zenon
<1>2. ~(i < j) /\ ~(j < i)
  BY <1>1
<1>3. QED  BY <1>2

(* f maps the positions of P onto those of V, in order. *)
Ordering(f, P, V) ==
    /\ P \in SUBSET Nat /\ V \in SUBSET Nat
    /\ f \in [P -> V]
    /\ \A p \in V : \E i \in P : f[i] = p
    /\ \A i, j \in P : i < j => f[i] < f[j]

(* Such a map keeps ranks. *)
LEMMA BelowMapped ==
  ASSUME NEW P, NEW V, NEW f, Ordering(f, P, V), IsFiniteSet(P)
  PROVE  /\ IsFiniteSet(V) /\ Cardinality(V) = Cardinality(P)
         /\ \A i \in P : Cardinality(Below(V, f[i])) = Cardinality(Below(P, i))
<1> USE DEF Ordering
<1>0. \A i \in P : i \in Nat /\ f[i] \in V /\ f[i] \in Nat
  OBVIOUS
<1>1. \A i, j \in P : f[i] = f[j] => i = j
  <2> SUFFICES ASSUME NEW i \in P, NEW j \in P, f[i] = f[j] PROVE i = j
    OBVIOUS
  <2>1. i \in Nat /\ j \in Nat /\ f[i] \in Nat /\ f[j] \in Nat
    BY <1>0
  <2>2. ~(i < j) /\ ~(j < i)
    BY <2>1
  <2>3. QED  BY <2>1, <2>2
<1>2. IsFiniteSet(V) /\ Cardinality(V) = Cardinality(P)
  <2>1. f \in Bijection(P, V)
    BY <1>1 DEF Bijection, Injection, Surjection, IsInjective
  <2>2. ExistsBijection(P, V)
    BY <2>1 DEF ExistsBijection
  <2>3. QED  BY <2>2, FS_Bijection
<1>3. ASSUME NEW i \in P PROVE Cardinality(Below(V, f[i])) = Cardinality(Below(P, i))
  <2> DEFINE A == Below(P, i)
             B == Below(V, f[i])
             g == [j \in A |-> f[j]]
  <2>1. A \in SUBSET P /\ B \in SUBSET V
    BY DEF Below
  <2>2. \A j \in A : f[j] \in B
    <3> TAKE j \in A
    <3>1. j = i \/ j < i
      BY DEF Below
    <3>2. j \in P /\ f[j] \in Nat /\ f[i] \in Nat
      BY <1>0, <2>1
    <3>3. f[j] <= f[i]
      BY <3>1, <3>2
    <3>4. QED  BY <3>2, <3>3, <1>0 DEF Below
  <2>3. \A p \in B : \E j \in A : g[j] = p
    <3> TAKE p \in B
    <3>1. PICK j \in P : f[j] = p
      BY <2>1
    <3>2. p <= f[i]
      BY DEF Below
    <3>3. i \in Nat /\ j \in Nat /\ f[i] \in Nat /\ f[j] \in Nat
      BY <1>0
    <3>4. ~(i < j)
      BY <3>1, <3>2, <3>3
    <3>5. j \in A
      BY <3>3, <3>4 DEF Below
    <3>6. QED  BY <3>1, <3>5
  <2>4. \A j, k \in A : g[j] = g[k] => j = k
    BY <1>1, <2>1
  <2> HIDE DEF A, B
  <2>5. g \in Bijection(A, B)
    BY <2>2, <2>3, <2>4 DEF Bijection, Injection, Surjection, IsInjective
  <2>6. ExistsBijection(A, B)
    BY <2>5 DEF ExistsBijection
  <2>7. IsFiniteSet(A)
    BY <2>1, FS_Subset
  <2>8. QED  BY <2>6, <2>7, FS_Bijection DEF A, B
<1>4. QED  BY <1>2, <1>3

-----------------------------------------------------------------------------
(* Listing and paging. *)

(* Where the log has the live events. *)
LEMMA LiveInLog ==
  ASSUME OrderedStore, NEW i \in DOMAIN events
  PROVE  \E m \in DOMAIN log : log[m] = events[i]
BY DEF OrderedStore, EvidenceInv, Range

(* A live event that is not archived has one entry at most, and the entries *)
(* of two of an agent are in their order. *)
LEMMA OneEntry ==
  ASSUME OrderedStore, NEW i \in DOMAIN events, Fresh(events[i]),
         NEW p \in DOMAIN chain[AgentOf[events[i]]],
         chain[AgentOf[events[i]]][p].trace = events[i]
  PROVE  Linked(events[i]) /\ SeqOf(events[i]) = p
<1> DEFINE t == events[i]
           c == chain[AgentOf[t]]
<1>1. t \in Trace /\ AgentOf[t] \in Agent /\ c \in Seq(Entry)
  BY EventsAreTraces DEF OrderedStore, TypeInv, TypeOK
<1>2. \A q \in DOMAIN c : c[q].trace = t => q <= p
  <2>1. PICK m \in DOMAIN log : log[m] = t
    BY LiveInLog
  <2>2. m <= m
    BY EventsAreTraces DEF OrderedStore
  <2>3. InOrder(c, t, t)
    BY <2>1, <2>2 DEF OrderedStore, OrderInv, EnteredInOrder
  <2>4. QED  BY <2>3 DEF InOrder
<1>3. Latest(c, t) = p
  BY <1>1, <1>2, LatestIs
<1>4. QED  BY <1>3, LatestIsSeqOf DEF Linked

LEMMA EntriesOrdered ==
  ASSUME OrderedStore, NEW i \in DOMAIN events, NEW j \in DOMAIN events, i < j,
         Fresh(events[i]), Fresh(events[j]),
         AgentOf[events[i]] = Reader, AgentOf[events[j]] = Reader,
         Linked(events[i]), Linked(events[j])
  PROVE  SeqOf(events[i]) < SeqOf(events[j])
<1>1. /\ events[i] \in Trace /\ events[j] \in Trace /\ i \in Nat /\ j \in Nat
      /\ Entries \in Seq(Entry) /\ DOMAIN Entries = 1 .. Len(Entries)
  BY EventsAreTraces, PagingAssumption, LenProperties DEF OrderedStore, Entries, TypeInv, TypeOK
<1>2. /\ SeqOf(events[i]) \in DOMAIN Entries /\ Entries[SeqOf(events[i])].trace = events[i]
      /\ SeqOf(events[j]) \in DOMAIN Entries /\ Entries[SeqOf(events[j])].trace = events[j]
  BY <1>1, SeqOfLinked DEF OrderedStore, TypeInv, Entries
<1>3. PICK m \in DOMAIN log : log[m] = events[i]
  BY LiveInLog
<1>4. PICK n \in DOMAIN log : log[n] = events[j]
  BY LiveInLog
<1>5. m < n /\ m \in Nat /\ n \in Nat
  BY <1>3, <1>4, EventsAreTraces DEF OrderedStore, OrderInv, ReadInOrder
<1>6. InOrder(Entries, events[i], events[j])
  BY <1>3, <1>4, <1>5 DEF OrderedStore, OrderInv, EnteredInOrder, Entries
<1>7. SeqOf(events[i]) <= SeqOf(events[j])
  BY <1>2, <1>6 DEF InOrder
<1>8. events[i] # events[j]
  BY <1>1 DEF OrderedStore, OrderInv, Distinct
<1>9. SeqOf(events[i]) # SeqOf(events[j])
  BY <1>2, <1>8
<1>10. QED  BY <1>1, <1>2, <1>7, <1>9

(* The filter of a reader who lists from a position on. *)
From(k, limit) == [agent_id |-> Reader, session |-> None, after_seq |-> k, limit |-> limit]

Listed(k, limit) == {i \in DOMAIN events : Matches(From(k, limit), events[i])}

LEMMA FromMatches ==
  ASSUME NEW k \in Nat, NEW limit, NEW t
  PROVE  Matches(From(k, limit), t) <=> AgentOf[t] = Reader /\ Linked(t) /\ SeqOf(t) > k
<1>1. k # None
  BY ParameterAssumption
<1>2. QED  BY <1>1, FilterAssumption DEF Matches, From

(* A listed event has a position that the page sees, and the other way.     *)
LEMMA ListedIsSeen ==
  ASSUME OrderedStore, pc = "idle", Range(events) \cap Range(archive) = {},
         NEW k \in 0 .. Len(Entries), NEW limit
  PROVE  /\ \A i \in Listed(k, limit) :
               /\ SeqOf(events[i]) \in VisibleUpTo(k, Len(Entries))
               /\ Entries[SeqOf(events[i])].trace = events[i]
         /\ \A p \in VisibleUpTo(k, Len(Entries)) :
               \E i \in Listed(k, limit) : SeqOf(events[i]) = p
         /\ \A i, j \in Listed(k, limit) : i < j => SeqOf(events[i]) < SeqOf(events[j])
<1>0. k \in Nat /\ Len(Entries) \in Nat /\ DOMAIN Entries = 1 .. Len(Entries) /\ Entries \in Seq(Entry)
  BY PagingAssumption, LenProperties DEF OrderedStore, Entries, TypeInv, TypeOK
<1>1. \A i \in DOMAIN events : Fresh(events[i]) /\ events[i] \in Trace
  BY EventsAreTraces DEF OrderedStore, Fresh, Range
<1>2. TraceIndexRight /\ Known
  BY DEF OrderedStore, IndexInv, FloorInv
<1>3. \A i \in Listed(k, limit) :
         i \in DOMAIN events /\ AgentOf[events[i]] = Reader /\ Linked(events[i]) /\ SeqOf(events[i]) > k
  BY <1>0, FromMatches DEF Listed
<1>4. ASSUME NEW i \in Listed(k, limit)
      PROVE  /\ SeqOf(events[i]) \in VisibleUpTo(k, Len(Entries))
             /\ Entries[SeqOf(events[i])].trace = events[i]
  <2>1. SeqOf(events[i]) \in DOMAIN Entries /\ Entries[SeqOf(events[i])].trace = events[i]
    BY <1>1, <1>3, SeqOfLinked DEF OrderedStore, TypeInv, Entries
  <2>2. SeqOf(events[i]) \in k + 1 .. Len(Entries)
    BY <1>0, <1>3, <2>1
  <2>3. Visible(SeqOf(events[i]))
    BY <1>1, <1>2, <1>3, <2>1 DEF Visible, TraceIndexRight, Known
  <2>4. QED  BY <2>1, <2>2, <2>3 DEF VisibleUpTo
<1>5. ASSUME NEW p \in VisibleUpTo(k, Len(Entries))
      PROVE  \E i \in Listed(k, limit) : SeqOf(events[i]) = p
  <2> DEFINE t == Entries[p].trace
             i == byTrace[t]
  <2>1. p \in DOMAIN Entries /\ p > k /\ Visible(p)
    BY <1>0 DEF VisibleUpTo
  <2>2. t \in Trace
    <3>1. Entries[p] \in Entry
      BY <1>0, <2>1, ElementOfSeq
    <3>2. QED  BY <3>1 DEF Entry
  <2>3. i \in DOMAIN events /\ i # 0
    BY <2>1, LenProperties DEF Visible, OrderedStore, TypeInv, TypeOK
  <2>4. events[i] = t
    BY <1>2, <2>2, <2>3 DEF TraceIndexRight
  <2>5. AgentOf[t] = Reader
    BY <2>1, PagingAssumption DEF OrderedStore, OrderInv, Owned, Entries
  <2>6. Linked(events[i]) /\ SeqOf(events[i]) = p
    BY <1>1, <2>1, <2>3, <2>4, <2>5, OneEntry DEF Entries
  <2>7. Matches(From(k, limit), events[i])
    BY <1>0, <2>1, <2>4, <2>5, <2>6, FromMatches
  <2>8. i \in Listed(k, limit)
    BY <2>3, <2>7 DEF Listed
  <2>9. QED  BY <2>6, <2>8
<1>6. ASSUME NEW i \in Listed(k, limit), NEW j \in Listed(k, limit), i < j
      PROVE  SeqOf(events[i]) < SeqOf(events[j])
  BY <1>1, <1>3, <1>6, EntriesOrdered
<1>7. QED  BY <1>4, <1>5, <1>6

LEMMA ListingIsPaging ==
  ASSUME OrderedStore, pc = "idle", Range(events) \cap Range(archive) = {},
         NEW k \in 0 .. Len(Entries), NEW limit
  PROVE  LET page == PageEvents(k, Len(Entries))
         IN  ListEvents(From(k, limit)) = TailOf([i \in DOMAIN page |-> page[i].trace], limit)
<1> DEFINE n == Len(Entries)
           P == Listed(k, limit)
           V == VisibleUpTo(k, n)
           f == [i \in P |-> SeqOf(events[i])]
           page == PageEvents(k, n)
           traces == [i \in DOMAIN page |-> page[i].trace]
           listed == EventsAt(P)
<1>1. k \in Nat /\ n \in Nat /\ k <= n
  BY PagingAssumption, LenProperties DEF OrderedStore, Entries, TypeInv, TypeOK
<1>2. /\ \A i \in P : SeqOf(events[i]) \in V /\ Entries[SeqOf(events[i])].trace = events[i]
      /\ \A p \in V : \E i \in P : SeqOf(events[i]) = p
      /\ \A i, j \in P : i < j => SeqOf(events[i]) < SeqOf(events[j])
  BY ListedIsSeen
<1>3. P \in SUBSET Nat /\ V \in SUBSET Nat /\ IsFiniteSet(P) /\ P \in SUBSET DOMAIN events
  <2>1. DOMAIN events = 1 .. Len(events) /\ Len(events) \in Nat
    BY LenProperties DEF OrderedStore, TypeInv, TypeOK
  <2>2. P \in SUBSET (1 .. Len(events))
    BY <2>1 DEF Listed
  <2>3. IsFiniteSet(1 .. Len(events))
    BY <2>1, FS_Interval
  <2>4. IsFiniteSet(P)
    BY <2>2, <2>3, FS_Subset
  <2>5. V \in SUBSET Nat
    BY <1>1 DEF VisibleUpTo
  <2>6. QED  BY <2>1, <2>2, <2>4, <2>5
<1>4. f \in [P -> V] /\ \A i \in P : f[i] = SeqOf(events[i])
  BY <1>2
<1> HIDE DEF P, V, f
<1>5. /\ IsFiniteSet(V) /\ Cardinality(V) = Cardinality(P)
      /\ \A i \in P : Cardinality(Below(V, f[i])) = Cardinality(Below(P, i))
  <2>1. \A p \in V : \E i \in P : f[i] = p
    BY <1>2, <1>4
  <2>2. \A i, j \in P : i < j => f[i] < f[j]
    BY <1>2, <1>4
  <2>3. Ordering(f, P, V)
    BY <1>3, <1>4, <2>1, <2>2 DEF Ordering
  <2>4. QED  BY <1>3, <2>3, BelowMapped
<1>6. DOMAIN listed = 1 .. Cardinality(P) /\ DOMAIN page = 1 .. Cardinality(P)
  BY <1>5 DEF EventsAt, PageEvents, V
<1>7. ASSUME NEW x \in 1 .. Cardinality(P)
      PROVE  listed[x] = page[x].trace
  <2>1. PICK p \in k + 1 .. n :
          /\ Visible(p) /\ Seen(k, p) = x
          /\ page[x] = [seq |-> p, trace |-> events[byTrace[Entries[p].trace]]]
    <3>1. x \in 1 .. Seen(k, n)
      BY <1>5 DEF Seen, V
    <3>2. QED  BY <1>1, <3>1, PageIs
  <2>2. p \in V /\ Below(V, p) = VisibleUpTo(k, p)
    BY <1>1, <2>1 DEF V, VisibleUpTo, Below
  <2>3. Cardinality(Below(V, p)) = x
    BY <2>1, <2>2, Zenon DEF Seen
  <2>4. PICK i \in P : f[i] = p
    BY <1>2, <1>4, <2>2
  <2>5. Cardinality(Below(P, i)) = x
    BY <1>5, <2>3, <2>4
  <2>6. \A j \in P : Cardinality(Below(P, j)) = x => j = i
    BY <1>3, <2>5, BelowUnique
  <2>7. (CHOOSE j \in P : Cardinality({h \in P : h <= j}) = x) = i
    <3>1. Cardinality({h \in P : h <= i}) = x
      BY <2>5, Zenon DEF Below
    <3>2. \A j \in P : Cardinality({h \in P : h <= j}) = x => j = i
      BY <2>6, Zenon DEF Below
    <3>3. QED  BY <3>1, <3>2
  <2>8. listed[x] = events[i]
    BY <2>7 DEF EventsAt
  <2>9. Entries[p].trace = events[i] /\ i \in DOMAIN events
    BY <1>2, <1>3, <1>4, <2>4
  <2>10. events[byTrace[events[i]]] = events[i]
    <3>1. events[i] \in Trace
      BY <2>9, EventsAreTraces DEF OrderedStore
    <3>2. byTrace[events[i]] # 0
      BY <2>9 DEF OrderedStore, FloorInv, Known
    <3>3. QED  BY <3>1, <3>2 DEF OrderedStore, IndexInv, TraceIndexRight
  <2>11. page[x].trace = events[i]
    BY <2>1, <2>9, <2>10
  <2>12. QED  BY <2>8, <2>11
<1>8. listed = traces
  <2>1. listed = [i \in 1 .. Cardinality(P) |-> listed[i]]
    BY DEF EventsAt
  <2> HIDE DEF page, listed
  <2>2. traces = [i \in 1 .. Cardinality(P) |-> page[i].trace]
    BY <1>6
  <2>3. QED  BY <1>7, <2>1, <2>2
<1>9. ListEvents(From(k, limit)) = TailOf(listed, limit)
  BY DEF ListEvents, Listed, From, P
<1>10. QED  BY <1>8, <1>9

-----------------------------------------------------------------------------
(* Sessions. *)

LEMMA SessionIsListing ==
  ASSUME OrderedStore, pc = "idle", NEW s \in Session
  PROVE  GetSession(s) = ListEvents([agent_id |-> None, session |-> s,
                                     after_seq |-> None, limit |-> None])
<1> DEFINE filter == [agent_id |-> None, session |-> s, after_seq |-> None, limit |-> None]
           P == {i \in DOMAIN events : Matches(filter, events[i])}
<1>1. s # None
  BY FilterAssumption
<1>2. \A t : Matches(filter, t) <=> SessionOf[t] = s
  BY <1>1 DEF Matches
<1>3. bySession[s] = P
  BY <1>2 DEF OrderedStore, IndexInv, SessionIndexRight
<1>4. ListEvents(filter) = EventsAt(P)
  BY DEF ListEvents, TailOf
<1> HIDE DEF P, filter
<1>5. GetSession(s) = EventsAt(P)
  BY <1>3, Zenon DEF GetSession
<1>6. QED  BY <1>4, <1>5 DEF filter

-----------------------------------------------------------------------------
(* The gauges. *)

Counted(summaries) == MapThenSumSet(LAMBDA summary : summary.event_count, summaries)

(* What the parts of the summaries S make up. *)
Together(part, S) == UNION {part[x] : x \in S}

(* The summaries L count disjoint parts of F. *)
Counting(L, part, F) ==
    /\ IsFiniteSet(L) /\ IsFiniteSet(F)
    /\ \A x \in L : part[x] \in SUBSET F /\ x.event_count = Cardinality(part[x])
    /\ \A x, y \in L : x # y => part[x] \cap part[y] = {}

LEMMA CountOne ==
  ASSUME NEW L, NEW part, NEW F, Counting(L, part, F), NEW S \in SUBSET L, NEW x \in S
  PROVE  /\ Cardinality(Together(part, S)) = x.event_count + Cardinality(Together(part, S \ {x}))
         /\ IsFiniteSet(S) /\ Cardinality(S \ {x}) = Cardinality(S) - 1
         /\ Cardinality(S) \in Nat
<1> DEFINE A == part[x]
           B == Together(part, S \ {x})
<1>1. x \in L /\ IsFiniteSet(F) /\ IsFiniteSet(L) /\ x.event_count = Cardinality(A) /\ A \in SUBSET F
  BY DEF Counting
<1>2. B \in SUBSET F
  BY DEF Counting, Together
<1>3. A \cap B = {}
  BY <1>1 DEF Counting, Together
<1>4. Together(part, S) = A \cup B
  BY DEF Together
<1> HIDE DEF A, B
<1>5. IsFiniteSet(A) /\ IsFiniteSet(B)
  BY <1>1, <1>2, FS_Subset
<1>6. Cardinality(A \cup B) = Cardinality(A) + Cardinality(B) - Cardinality(A \cap B)
  BY <1>5, FS_Union
<1>7. Cardinality(A \cap B) = 0
  <2>1. Cardinality({}) = 0
    BY FS_EmptySet
  <2>2. QED  BY <1>3, <2>1, Zenon
<1>8. Cardinality(A) \in Nat /\ Cardinality(B) \in Nat
  BY <1>5, FS_CardinalityType
<1>9. Cardinality(A \cup B) = Cardinality(A) + Cardinality(B)
  BY <1>6, <1>7, <1>8
<1>10. Cardinality(Together(part, S)) = Cardinality(A \cup B)
  BY <1>4, Zenon
<1>11. IsFiniteSet(S)
  BY <1>1, FS_Subset
<1>12. Cardinality(S) \in Nat /\ Cardinality(S \ {x}) = Cardinality(S) - 1
  BY <1>11, FS_CardinalityType, FS_RemoveElement
<1>13. QED  BY <1>1, <1>9, <1>10, <1>11, <1>12 DEF B

(* The fold over the summaries adds them up, in whatever order it chooses.  *)
LEMMA CountAll ==
  ASSUME NEW L, NEW part, NEW F, Counting(L, part, F)
  PROVE  Counted(L) = Cardinality(Together(part, L))
<1> DEFINE Sums(f) ==
             f = [S \in SUBSET L |->
                    IF S = {} THEN 0
                    ELSE LET x == CHOOSE x \in S : TRUE IN x.event_count + f[S \ {x}]]
           g == [S \in SUBSET L |-> Cardinality(Together(part, S))]
<1>1. ASSUME NEW S \in SUBSET L
      PROVE  g[S] = IF S = {} THEN 0
                    ELSE LET x == CHOOSE x \in S : TRUE IN x.event_count + g[S \ {x}]
  <2>1. CASE S = {}
    <3>1. Together(part, S) = {}
      BY <2>1 DEF Together
    <3>2. Cardinality(Together(part, S)) = 0
      BY <3>1, FS_EmptySet, Zenon
    <3>3. QED  BY <2>1, <3>2
  <2>2. CASE S # {}
    <3> DEFINE x == CHOOSE x \in S : TRUE
    <3>1. x \in S
      BY <2>2
    <3> HIDE DEF x
    <3>2. Cardinality(Together(part, S)) = x.event_count + Cardinality(Together(part, S \ {x}))
      BY <3>1, CountOne
    <3>3. g[S] = x.event_count + g[S \ {x}]
      BY <3>2
    <3>4. QED  BY <2>2, <3>3 DEF x
  <2>3. QED  BY <2>1, <2>2
<1>2. Sums(g)
  <2> HIDE DEF g
  <2>1. g = [S \in SUBSET L |-> g[S]]
    BY DEF g
  <2>2. QED  BY <1>1, <2>1
<1> HIDE DEF g
<1>3. PICK h : Sums(h) /\ Counted(L) = h[L]
  BY <1>2 DEF Counted, MapThenSumSet, MapThenFoldSet
<1>4. \A S \in SUBSET L :
         h[S] = IF S = {} THEN 0
                ELSE LET x == CHOOSE x \in S : TRUE IN x.event_count + h[S \ {x}]
  BY <1>3
<1> DEFINE Bad == {n \in Nat : \E S \in SUBSET L : Cardinality(S) = n /\ h[S] # g[S]}
<1>5. Bad = {}
  <2> SUFFICES ASSUME Bad # {} PROVE FALSE
    OBVIOUS
  <2>1. PICK n \in Bad : \A m \in Bad : ~ (<<m, n>> \in OpToRel(<, Nat))
    BY NatLessThanWellFounded, WFMin
  <2>2. PICK S \in SUBSET L : Cardinality(S) = n /\ h[S] # g[S]
    BY <2>1
  <2>3. S # {}
    BY <1>1, <1>4, <2>2
  <2> DEFINE x == CHOOSE x \in S : TRUE
  <2>4. x \in S
    BY <2>3
  <2>5. h[S] = x.event_count + h[S \ {x}] /\ g[S] = x.event_count + g[S \ {x}]
    BY <1>1, <1>4, <2>3
  <2> HIDE DEF x
  <2>6. n \in Nat /\ Cardinality(S \ {x}) = n - 1
    BY <2>2, <2>4, CountOne
  <2>7. n # 0
    BY <2>2, <2>4, FS_EmptySet, CountOne
  <2>8. n - 1 \in Nat /\ n - 1 < n
    BY <2>6, <2>7
  <2>9. S \ {x} \in SUBSET L /\ h[S \ {x}] # g[S \ {x}]
    BY <2>2, <2>5
  <2>10. n - 1 \in Bad
    BY <2>6, <2>8, <2>9
  <2> HIDE DEF Bad
  <2>11. QED  BY <2>1, <2>6, <2>8, <2>10 DEF OpToRel
<1>6. h[L] = g[L]
  <2>1. IsFiniteSet(L)
    BY DEF Counting
  <2>2. Cardinality(L) \in Nat
    BY <2>1, FS_CardinalityType
  <2>3. QED  BY <1>5, <2>2
<1>7. g[L] = Cardinality(Together(part, L))
  BY DEF g
<1>8. QED  BY <1>3, <1>6, <1>7

(* Each live event is counted in its session, and in no other. *)
LEMMA SessionsCount ==
  ASSUME OrderedStore, pc = "idle"
  PROVE  Counted(ListSessions) = EvidenceStats.live_events
<1> DEFINE L == ListSessions
           F == DOMAIN events
           part == [x \in L |-> bySession[x.session]]
           U == {u \in Session : bySession[u] # {}}
           Summary(s) == [session     |-> s,
                          event_count |-> Cardinality(bySession[s]),
                          first_seen  |-> Sent[GetSession(s)[1]],
                          last_seen   |-> Sent[GetSession(s)[Cardinality(bySession[s])]]]
<1>1. /\ \A s : Summary(s).session = s /\ Summary(s).event_count = Cardinality(bySession[s])
      /\ L = {Summary(s) : s \in U}
  BY DEF ListSessions
<1> HIDE DEF Summary, L
<1>2. \A s \in Session : bySession[s] = {i \in F : SessionOf[events[i]] = s}
  BY DEF OrderedStore, IndexInv, SessionIndexRight
<1>3. \A i \in F : SessionOf[events[i]] \in U /\ i \in bySession[SessionOf[events[i]]]
  <2> TAKE i \in F
  <2>1. events[i] \in Trace
    BY EventsAreTraces DEF OrderedStore
  <2>2. SessionOf[events[i]] \in Session
    BY <2>1, ParameterAssumption
  <2>3. QED  BY <1>2, <2>2
<1>4. F = 1 .. Len(events) /\ Len(events) \in Nat
  BY LenProperties DEF OrderedStore, TypeInv, TypeOK
<1>5. IsFiniteSet(F) /\ Cardinality(F) = Len(events)
  <2>1. /\ IsFiniteSet(1 .. Len(events))
        /\ Cardinality(1 .. Len(events)) = IF 1 > Len(events) THEN 0 ELSE Len(events) - 1 + 1
    BY <1>4, FS_Interval
  <2>2. Cardinality(1 .. Len(events)) = Len(events)
    BY <1>4, <2>1
  <2>3. QED  BY <1>4, <2>1, <2>2, Zenon
<1>6. IsFiniteSet(L)
  <2> DEFINE f == [i \in F |-> Summary(SessionOf[events[i]])]
  <2>1. \A i \in F : f[i] \in L
    BY <1>1, <1>3
  <2>2. \A x \in L : \E i \in F : f[i] = x
    BY <1>1, <1>2
  <2>3. f \in Surjection(F, L)
    BY <2>1, <2>2 DEF Surjection
  <2> HIDE DEF f
  <2>4. QED  BY <1>5, <2>3, FS_Surjection
<1>7. \A x \in L : \E s \in U : x = Summary(s) /\ part[x] = bySession[s] /\ x.session = s
  BY <1>1
<1>8. Counting(L, part, F)
  <2>1. \A x \in L : part[x] \in SUBSET F /\ x.event_count = Cardinality(part[x])
    BY <1>1, <1>2, <1>7
  <2>2. ASSUME NEW x \in L, NEW y \in L, x # y PROVE part[x] \cap part[y] = {}
    <3>1. PICK s \in U : x = Summary(s) /\ part[x] = bySession[s]
      BY <1>7
    <3>2. PICK u \in U : y = Summary(u) /\ part[y] = bySession[u]
      BY <1>7
    <3>3. s # u
      BY <2>2, <3>1, <3>2
    <3>4. QED  BY <1>2, <3>1, <3>2, <3>3
  <2>3. QED  BY <1>5, <1>6, <2>1, <2>2 DEF Counting
<1>9. Together(part, L) = F
  <2>1. ASSUME NEW i \in F PROVE i \in Together(part, L)
    <3>1. SessionOf[events[i]] \in U /\ i \in bySession[SessionOf[events[i]]]
      BY <1>3
    <3>2. Summary(SessionOf[events[i]]) \in L /\ part[Summary(SessionOf[events[i]])] = bySession[SessionOf[events[i]]]
      BY <1>1, <3>1
    <3>3. QED  BY <3>1, <3>2 DEF Together
  <2>2. Together(part, L) \in SUBSET F
    BY <1>8 DEF Counting, Together
  <2>3. QED  BY <2>1, <2>2
<1> HIDE DEF part, F
<1>10. Counted(L) = Cardinality(Together(part, L))
  BY <1>8, CountAll
<1>11. Cardinality(Together(part, L)) = Cardinality(F)
  BY <1>9, Zenon
<1>12. EvidenceStats.live_events = Len(events)
  BY DEF EvidenceStats
<1>13. QED  BY <1>5, <1>10, <1>11, <1>12 DEF L

-----------------------------------------------------------------------------
(* The reads. *)

LEMMA OrderedReadsAgree == OrderedStore => ReadsAgree
<1> SUFFICES ASSUME OrderedStore, pc = "idle"
             PROVE  /\ Range(events) \cap Range(archive) = {} =>
                          \A k \in 0 .. Len(Entries), limit \in {None, 1} :
                              LET page == PageEvents(k, Len(Entries))
                              IN  ListEvents(From(k, limit))
                                  = TailOf([i \in DOMAIN page |-> page[i].trace], limit)
                    /\ \A s \in Session :
                          GetSession(s) = ListEvents([agent_id |-> None, session |-> s,
                                                      after_seq |-> None, limit |-> None])
                    /\ Counted(ListSessions) = EvidenceStats.live_events
  BY DEF ReadsAgree, Readable, From, Counted
<1>1. ASSUME Range(events) \cap Range(archive) = {},
             NEW k \in 0 .. Len(Entries), NEW limit \in {None, 1}
      PROVE  LET page == PageEvents(k, Len(Entries))
             IN  ListEvents(From(k, limit)) = TailOf([i \in DOMAIN page |-> page[i].trace], limit)
  BY <1>1, ListingIsPaging
<1>2. QED  BY <1>1, SessionIsListing, SessionsCount

(* Listing from a position on, paging the chain, reading a session and the  *)
(* gauges agree, after any crashes, recoveries and compactions              *)
(* (list_events, chain_page, get_session, list_sessions, evidence_stats).   *)
(* A failing chain write is excluded: it leaves a line of the log without   *)
(* an entry, and once the event is posted again a restart reads it in       *)
(* another order than its chain has. *)
THEOREM ReadsCoincide ==
  ASSUME Faults \cap {"archive", "chain", "reopen"} = {}
  PROVE  RSpec => []ReadsAgree
<1>1. RInit => OrderedStore
  BY OrderedInit DEF RInit, VInit
<1>2. OrderedStore /\ [RNext]_<<vars, verifier, consumer>> => OrderedStore'
  BY ReaderSteps, OrderedStep
<1>3. QED  BY <1>1, <1>2, OrderedReadsAgree, PTL DEF RSpec
=============================================================================
