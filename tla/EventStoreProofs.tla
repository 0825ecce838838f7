-------------------------- MODULE EventStoreProofs --------------------------
(***************************************************************************)
(* Theorems about the event store, for every number of agents, sessions    *)
(* and events, every retention target and floor, every checkpoint policy,  *)
(* and every bound.                                                        *)
(***************************************************************************)
EXTENDS EventStore, SequenceTheorems, FiniteSetTheorems, WellFoundedInduction, TLAPS

-----------------------------------------------------------------------------
(* Lemmas about the operators. *)

(* A nonempty set of positions has a largest one. *)
LEMMA LargestPosition ==
  ASSUME NEW n \in Nat, NEW S \in SUBSET (1 .. n), S # {}
  PROVE  \E p \in S : \A q \in S : q <= p
<1> DEFINE T == {n - p : p \in S}
<1>1. \A p \in S : p \in Int /\ p <= n /\ n - p \in Nat
  <2> TAKE p \in S
  <2>1. p \in 1 .. n
    OBVIOUS
  <2>2. QED  BY <2>1
<1>2. T \subseteq Nat /\ T # {}
  <2>1. PICK p \in S : TRUE
    OBVIOUS
  <2>2. n - p \in T
    BY <2>1
  <2>3. QED  BY <1>1, <2>2
<1>3. PICK x \in T : \A y \in T : ~ (<<y, x>> \in OpToRel(<, Nat))
  BY <1>2, NatLessThanWellFounded, WFMin
<1>4. PICK p \in S : x = n - p
  BY <1>3
<1>5. ASSUME NEW q \in S PROVE q <= p
  <2>1. n - q \in T
    OBVIOUS
  <2>2. ~ (n - q < x)
    <3> HIDE DEF T
    <3>1. n - q \in Nat /\ x \in Nat
      BY <1>1, <1>2, <1>3
    <3>2. QED  BY <1>3, <2>1, <3>1 DEF OpToRel
  <2>3. QED  BY <1>1, <1>4, <2>2
<1>6. QED  BY <1>5

(* seq_by_trace of a linked event is a position of its agent's chain that   *)
(* holds the event.                                                         *)
LEMMA SeqOfLinked ==
  ASSUME TypeOK, NEW t \in Trace, Linked(t)
  PROVE  /\ SeqOf(t) \in DOMAIN chain[AgentOf[t]]
         /\ chain[AgentOf[t]][SeqOf(t)].trace = t
<1> DEFINE c == chain[AgentOf[t]]
           S == {i \in DOMAIN c : c[i].trace = t}
<1>1. AgentOf[t] \in Agent /\ c \in Seq(Entry)
  BY ParameterAssumption DEF TypeOK
<1>2. Len(c) \in Nat /\ DOMAIN c = 1 .. Len(c)
  BY <1>1, LenProperties
<1>3. S \in SUBSET (1 .. Len(c)) /\ S # {}
  BY <1>2 DEF Linked
<1>4. \E p \in S : \A q \in S : q <= p
  BY <1>2, <1>3, LargestPosition
<1>5. \E i \in DOMAIN c : c[i].trace = t /\ \A j \in DOMAIN c : c[j].trace = t => j <= i
  BY <1>4
<1>6. QED  BY <1>5 DEF SeqOf

LEMMA UncommittedType ==
  ASSUME TypeOK, NEW a \in Agent
  PROVE  IsFiniteSet(Uncommitted(a)) /\ Cardinality(Uncommitted(a)) \in Nat
<1>1. chain[a] \in Seq(Entry)
  BY DEF TypeOK
<1>2. Len(chain[a]) \in Nat /\ DOMAIN chain[a] = 1 .. Len(chain[a])
  BY <1>1, LenProperties
<1>3. IsFiniteSet(DOMAIN chain[a])
  <2>1. 1 \in Int /\ Len(chain[a]) \in Int
    BY <1>2
  <2>2. IsFiniteSet(1 .. Len(chain[a]))
    BY <2>1, FS_Interval
  <2>3. QED  BY <1>2, <2>2
<1>4. Uncommitted(a) \subseteq DOMAIN chain[a]
  BY DEF Uncommitted
<1>5. QED  BY <1>3, <1>4, FS_Subset, FS_CardinalityType

-----------------------------------------------------------------------------
(* Type correctness. *)

(* While an append is past its first line, its event is at hand; the batch  *)
(* is empty and memory is blank outside the stages that use them.           *)
InFlight ==
    pc \in {"link", "commit", "retain", "archive", "reply"} => cur \in Trace

TypeInv == TypeOK /\ InFlight

LEMMA InitType == Init => TypeInv
<1> SUFFICES ASSUME Init PROVE TypeInv
  OBVIOUS
<1>1. \A S : <<>> \in Seq(S)
  BY EmptySeq
<1>2. QED
  BY <1>1 DEF Init, TypeInv, TypeOK, InFlight, Stage

LEMMA EmptyMemoryType ==
  ASSUME TypeInv, EmptyMemory, UNCHANGED <<durable, clock, acked>>, pc' = "down"
  PROVE  TypeInv'
<1>1. \A S : <<>> \in Seq(S)
  BY EmptySeq
<1>2. QED
  BY <1>1 DEF EmptyMemory, TypeInv, TypeOK, InFlight, Stage, durable

LEMMA IndexType ==
  ASSUME TypeInv, NEW t \in Trace, NEW at \in Nat, Index(t, at)
  PROVE  /\ events' \in Seq(Trace)
         /\ recordedAt' \in Seq(Nat)
         /\ Len(recordedAt') = Len(events')
         /\ byTrace' \in [Trace -> Nat]
         /\ bySession' \in [Session -> SUBSET Nat]
<1>1. Len(events) + 1 \in Nat
  BY LenProperties DEF TypeInv, TypeOK
<1>2. events' \in Seq(Trace) /\ Len(events') = Len(events) + 1
  BY AppendProperties DEF TypeInv, TypeOK, Index
<1>3. recordedAt' \in Seq(Nat) /\ Len(recordedAt') = Len(recordedAt) + 1
  BY AppendProperties DEF TypeInv, TypeOK, Index
<1>4. byTrace' \in [Trace -> Nat] /\ bySession' \in [Session -> SUBSET Nat]
  BY <1>1 DEF TypeInv, TypeOK, Index
<1>5. QED  BY <1>2, <1>3, <1>4 DEF TypeInv, TypeOK

(* What a sequence keeps when a prefix of it is drained. *)
LEMMA TailType ==
  ASSUME NEW S, NEW s \in Seq(S), NEW n \in 1 .. Len(s)
  PROVE  /\ SubSeq(s, n + 1, Len(s)) \in Seq(S)
         /\ Len(SubSeq(s, n + 1, Len(s))) = Len(s) - n
         /\ \A i \in 1 .. (Len(s) - n) : SubSeq(s, n + 1, Len(s))[i] = s[n + i]
<1>1. Len(s) \in Nat
  BY LenProperties
<1>2. \A i \in (n + 1) .. Len(s) : s[i] \in S
  BY <1>1, ElementOfSeq
<1>3. CASE n < Len(s)
  <2>1. n + 1 \in 1 .. Len(s) /\ Len(s) \in n .. Len(s) /\ n + 1 <= Len(s) + 1
    BY <1>1, <1>3
  <2>2. QED  BY <1>1, <1>2, <1>3, <2>1, SubSeqProperties
<1>4. CASE n = Len(s)
  BY <1>1, <1>4, SubSeqProperties
<1>5. QED  BY <1>1, <1>3, <1>4

LEMMA CommitCheckpointType ==
  ASSUME TypeInv, NEW a \in Agent, CommitCheckpoint(a)
  PROVE  /\ ckpts' \in [Agent -> Seq(Checkpoint)]
         /\ since' \in [Agent -> Nat]
         /\ lastAt' \in [Agent -> Nat \cup {None}]
<1>1. [seq |-> Len(chain[a]), at |-> observed] \in Checkpoint
  BY LenProperties DEF TypeInv, TypeOK, Checkpoint
<1>2. Append(ckpts[a], [seq |-> Len(chain[a]), at |-> observed]) \in Seq(Checkpoint)
  BY <1>1, AppendProperties DEF TypeInv, TypeOK
<1>3. ckpts' \in [Agent -> Seq(Checkpoint)]
  BY <1>2 DEF TypeInv, TypeOK, CommitCheckpoint
<1>4. QED  BY <1>3 DEF TypeInv, TypeOK, CommitCheckpoint

(* What pushing an entry makes of an agent's chain. *)
LEMMA ChainPushType ==
  ASSUME TypeInv, NEW e \in Entry, NEW a \in Agent,
         chain' = [chain EXCEPT ![a] = Append(@, e)]
  PROVE  chain' \in [Agent -> Seq(Entry)]
<1>1. Append(chain[a], e) \in Seq(Entry)
  BY AppendProperties DEF TypeInv, TypeOK
<1>2. QED  BY <1>1 DEF TypeInv, TypeOK

LEMMA ReindexType ==
  ASSUME TypeInv, Reindex
  PROVE  /\ byTrace' \in [Trace -> Nat]
         /\ bySession' \in [Session -> SUBSET Nat]
<1>1. DOMAIN events \subseteq Nat
  BY LenProperties DEF TypeInv, TypeOK
<1>2. QED  BY <1>1 DEF Reindex

(* What an operation that ends leaves: nothing in flight. *)
Returned ==
    /\ pc' = "idle"
    /\ cur' = None
    /\ observed' = 0
    /\ batch' \in Seq(Trace)
    /\ acked' \subseteq Trace
    /\ cursor' = cursor

LEMMA ReturnType ==
  ASSUME TypeInv,
         pc \in {"link", "commit", "retain", "archive", "reply"},
         Return(TRUE) \/ Return(FALSE)
  PROVE  Returned
BY EmptySeq DEF Return, Returned, TypeInv, TypeOK, InFlight

LEMMA TypeStep == TypeInv /\ [Next]_vars => TypeInv'
<1> SUFFICES ASSUME TypeInv, [Next]_vars PROVE TypeInv'
  OBVIOUS
<1> USE DEF Stage
<1>1. CASE Tick
  BY <1>1 DEF Tick, TypeInv, TypeOK, InFlight, durable, memory, indices, control
<1>2. CASE Crash
  BY <1>2, EmptyMemoryType DEF Crash, durable
<1>3. CASE Open
  BY <1>3 DEF Open, TypeInv, TypeOK, InFlight, durable, memory, indices
<1>4. CASE Replay
  <2>1. /\ cursor + 1 \in DOMAIN log
        /\ cursor + 1 \in Nat
    BY <1>4, LenProperties DEF Replay, TypeInv, TypeOK
  <2>2. log[cursor + 1] \in Trace
    BY <2>1, ElementOfSeq DEF TypeInv, TypeOK
  <2>3. Sent[log[cursor + 1]] \in Nat
    BY <2>2, ParameterAssumption
  <2>4. /\ events' \in Seq(Trace)
        /\ recordedAt' \in Seq(Nat)
        /\ Len(recordedAt') = Len(events')
        /\ byTrace' \in [Trace -> Nat]
        /\ bySession' \in [Session -> SUBSET Nat]
    <3>1. CASE byTrace[log[cursor + 1]] = 0
      BY <1>4, <2>2, <2>3, <3>1, IndexType DEF Replay
    <3>2. CASE byTrace[log[cursor + 1]] # 0
      BY <1>4, <3>2 DEF Replay, TypeInv, TypeOK, indices
    <3>3. QED  BY <3>1, <3>2
  <2>5. QED
    BY <1>4, <2>1, <2>4 DEF Replay, TypeInv, TypeOK, InFlight, durable
<1>5. CASE Compare
  BY <1>5 DEF Compare, TypeInv, TypeOK, InFlight, durable, indices
<1>6. CASE Recover
  <2>1. PICK i \in DOMAIN events :
          chain' = [chain EXCEPT ![AgentOf[events[i]]] =
             Append(@, [trace |-> events[i], at |-> observed, recovered |-> TRUE])]
    BY <1>6 DEF Recover
  <2>2. events[i] \in Trace /\ AgentOf[events[i]] \in Agent
    BY ElementOfSeq, LenProperties, ParameterAssumption DEF TypeInv, TypeOK
  <2>3. [trace |-> events[i], at |-> observed, recovered |-> TRUE] \in Entry
    BY <2>2 DEF Entry, TypeInv, TypeOK
  <2>4. chain' \in [Agent -> Seq(Entry)]
    BY <2>1, <2>2, <2>3, ChainPushType
  <2>5. QED
    BY <1>6, <2>4 DEF Recover, TypeInv, TypeOK, InFlight, memory, indices, control
<1>7. CASE Opened
  <2>1. recordedAt' \in Seq(Nat) /\ Len(recordedAt') = Len(events)
    <3> DEFINE v(i) == IF Linked(events[i])
                          THEN chain[AgentOf[events[i]]][SeqOf(events[i])].at
                          ELSE recordedAt[i]
    <3>1. Len(events) \in Nat /\ Len(recordedAt) = Len(events)
      BY LenProperties DEF TypeInv, TypeOK
    <3>2. ASSUME NEW i \in 1 .. Len(events) PROVE v(i) \in Nat
      <4>1. events[i] \in Trace /\ AgentOf[events[i]] \in Agent
        BY <3>1, ElementOfSeq, ParameterAssumption DEF TypeInv, TypeOK
      <4>2. CASE Linked(events[i])
        <5>1. SeqOf(events[i]) \in DOMAIN chain[AgentOf[events[i]]]
          BY <4>1, <4>2, SeqOfLinked DEF TypeInv
        <5>2. chain[AgentOf[events[i]]] \in Seq(Entry)
          BY <4>1 DEF TypeInv, TypeOK
        <5>3. chain[AgentOf[events[i]]][SeqOf(events[i])] \in Entry
          BY <5>1, <5>2, ElementOfSeq, LenProperties
        <5>4. QED  BY <4>2, <5>3 DEF Entry
      <4>3. CASE ~Linked(events[i])
        BY <3>1, <4>3, ElementOfSeq DEF TypeInv, TypeOK
      <4>4. QED  BY <4>2, <4>3
    <3>3. recordedAt' = [i \in 1 .. Len(events) |-> v(i)]
      BY <1>7 DEF Opened
    <3> HIDE DEF v
    <3>4. [i \in 1 .. Len(events) |-> v(i)] \in Seq(Nat)
      BY <3>1, <3>2, IsASeq
    <3>5. Len([i \in 1 .. Len(events) |-> v(i)]) = Len(events)
      BY <3>1, <3>4, LenProperties
    <3>6. QED  BY <3>3, <3>4, <3>5
  <2>2. since' \in [Agent -> Nat]
    BY <1>7, UncommittedType DEF Opened, RestoredSince, TypeInv
  <2>3. lastAt' \in [Agent -> Nat \cup {None}]
    <3>1. ASSUME NEW a \in Agent, ckpts[a] # <<>>
          PROVE  ckpts[a][Len(ckpts[a])].at \in Nat
      <4>1. ckpts[a] \in Seq(Checkpoint) /\ Len(ckpts[a]) \in 1 .. Len(ckpts[a])
        BY <3>1, LenProperties, EmptySeq DEF TypeInv, TypeOK
      <4>2. ckpts[a][Len(ckpts[a])] \in Checkpoint
        BY <4>1, ElementOfSeq
      <4>3. QED  BY <4>2 DEF Checkpoint
    <3>2. QED  BY <1>7, <3>1 DEF Opened
  <2>4. QED
    BY <1>7, <2>1, <2>2, <2>3 DEF Opened, TypeInv, TypeOK, InFlight, durable, indices
<1>8. ASSUME NEW t \in Trace, PostDuplicate(t) PROVE TypeInv'
  BY <1>8 DEF PostDuplicate, TypeInv, TypeOK, InFlight, durable, memory, indices, control
<1>9. ASSUME NEW t \in Trace, PostNew(t) PROVE TypeInv'
  <2>1. log' \in Seq(Trace)
    BY <1>9, AppendProperties DEF PostNew, TypeInv, TypeOK
  <2>2. QED
    BY <1>9, <2>1 DEF PostNew, TypeInv, TypeOK, InFlight, memory, indices
<1>10. CASE Link
  <2>1. cur \in Trace /\ AgentOf[cur] \in Agent
    BY <1>10, ParameterAssumption DEF Link, TypeInv, InFlight
  <2>2. [trace |-> cur, at |-> clock, recovered |-> FALSE] \in Entry
    BY <2>1 DEF Entry, TypeInv, TypeOK
  <2>3. chain' \in [Agent -> Seq(Entry)]
    BY <1>10, <2>1, <2>2, ChainPushType DEF Link
  <2>4. since' \in [Agent -> Nat]
    BY <1>10, <2>1 DEF Link, TypeInv, TypeOK
  <2>5. /\ events' \in Seq(Trace)
        /\ recordedAt' \in Seq(Nat)
        /\ Len(recordedAt') = Len(events')
        /\ byTrace' \in [Trace -> Nat]
        /\ bySession' \in [Session -> SUBSET Nat]
    BY <1>10, <2>1, IndexType DEF Link, TypeInv, TypeOK
  <2>6. QED
    BY <1>10, <2>1, <2>3, <2>4, <2>5 DEF Link, TypeInv, TypeOK, InFlight
<1>11. CASE LinkFails
  <2>1. Returned
    BY <1>11, ReturnType DEF LinkFails
  <2>2. QED
    BY <1>11, <2>1 DEF LinkFails, Returned, TypeInv, TypeOK, InFlight, durable, memory, indices
<1>12. CASE MaybeCheckpoint
  <2>1. cur \in Trace /\ AgentOf[cur] \in Agent
    BY <1>12, ParameterAssumption DEF MaybeCheckpoint, TypeInv, InFlight
  <2>2. /\ ckpts' \in [Agent -> Seq(Checkpoint)]
        /\ since' \in [Agent -> Nat]
        /\ lastAt' \in [Agent -> Nat \cup {None}]
    <3>1. CASE CheckpointDue(AgentOf[cur])
      BY <1>12, <2>1, <3>1, CommitCheckpointType DEF MaybeCheckpoint
    <3>2. CASE ~CheckpointDue(AgentOf[cur])
      BY <1>12, <3>2 DEF MaybeCheckpoint, TypeInv, TypeOK
    <3>3. QED  BY <3>1, <3>2
  <2>3. QED
    BY <1>12, <2>1, <2>2 DEF MaybeCheckpoint, TypeInv, TypeOK, InFlight, indices
<1>13. CASE CheckpointFails
  <2>1. Returned
    BY <1>13, ReturnType DEF CheckpointFails
  <2>2. QED
    BY <1>13, <2>1 DEF CheckpointFails, Returned, TypeInv, TypeOK, InFlight, durable, memory, indices
<1>14. CASE RetainAll
  <2>1. Returned
    BY <1>14, ReturnType DEF RetainAll
  <2>2. QED
    BY <1>14, <2>1 DEF RetainAll, Returned, TypeInv, TypeOK, InFlight, durable, memory, indices
<1>15. CASE Evict
  <2>1. PICK n \in 1 .. Len(events) :
          /\ batch' = SubSeq(events, 1, n)
          /\ events' = SubSeq(events, n + 1, Len(events))
          /\ recordedAt' = SubSeq(recordedAt, n + 1, Len(recordedAt))
    BY <1>15 DEF Evict
  <2>2. Len(events) \in Nat /\ Len(recordedAt) = Len(events)
    BY LenProperties DEF TypeInv, TypeOK
  <2>3. batch' \in Seq(Trace)
    BY <2>1, <2>2, SubSeqProperties DEF TypeInv, TypeOK
  <2>4. events' \in Seq(Trace) /\ Len(events') = Len(events) - n
    BY <2>1, <2>2, TailType DEF TypeInv, TypeOK
  <2>5. recordedAt' \in Seq(Nat) /\ Len(recordedAt') = Len(events) - n
    BY <2>1, <2>2, TailType DEF TypeInv, TypeOK
  <2>6. QED
    BY <1>15, <2>3, <2>4, <2>5 DEF Evict, TypeInv, TypeOK, InFlight, durable, indices
<1>16. CASE ArchiveLine
  <2>1. archive' \in Seq(Trace) /\ batch' \in Seq(Trace)
    BY <1>16, HeadTailProperties, AppendProperties DEF ArchiveLine, TypeInv, TypeOK
  <2>2. QED
    BY <1>16, <2>1 DEF ArchiveLine, TypeInv, TypeOK, InFlight, memory, indices
<1>17. CASE ArchiveFails
  <2>1. Returned
    BY <1>17, ReturnType DEF ArchiveFails
  <2>2. QED
    BY <1>17, <2>1 DEF ArchiveFails, Returned, TypeInv, TypeOK, InFlight, durable, memory, indices
<1>18. CASE Compact
  BY <1>18, ReindexType DEF Compact, TypeInv, TypeOK, InFlight
<1>19. CASE CompactFails
  <2>1. Returned
    BY <1>19, ReturnType DEF CompactFails
  <2>2. QED
    BY <1>19, <2>1, ReindexType DEF CompactFails, Returned, TypeInv, TypeOK, InFlight, durable
<1>20. CASE ReopenFails
  <2>1. Returned
    BY <1>20, ReturnType DEF ReopenFails
  <2>2. QED
    BY <1>20, <2>1, ReindexType DEF ReopenFails, Returned, TypeInv, TypeOK, InFlight
<1>21. CASE Reply
  <2>1. Returned
    BY <1>21, ReturnType DEF Reply
  <2>2. QED
    BY <1>21, <2>1 DEF Reply, Returned, TypeInv, TypeOK, InFlight, durable, memory, indices
<1>22. CASE Shutdown
  BY <1>22 DEF Shutdown, TypeInv, TypeOK, InFlight, durable, memory, indices
<1>23. ASSUME NEW a \in Agent, CloseAgent(a) PROVE TypeInv'
  BY <1>23, CommitCheckpointType DEF CloseAgent, TypeInv, TypeOK, InFlight, indices, control
<1>24. CASE Exit
  BY <1>24, EmptyMemoryType DEF Exit, durable
<1>25. CASE UNCHANGED vars
  BY <1>25 DEF vars, TypeInv, TypeOK, InFlight, durable, memory, indices, control
<1>26. QED
  BY <1>1, <1>2, <1>3, <1>4, <1>5, <1>6, <1>7, <1>8, <1>9, <1>10, <1>11, <1>12, <1>13,
     <1>14, <1>15, <1>16, <1>17, <1>18, <1>19, <1>20, <1>21, <1>22, <1>23, <1>24, <1>25
     DEF Next

(* The store's variables keep their types: in particular recorded_at stays  *)
(* in lockstep with events, through index_existing, the eviction and the    *)
(* restart (open_jsonl, append, enforce_retention).                         *)
THEOREM TypeCorrect == Spec => []TypeOK
<1>1. Init => TypeInv
  BY InitType
<1>2. TypeInv /\ [Next]_vars => TypeInv'
  BY TypeStep
<1>3. TypeInv => TypeOK
  BY DEF TypeInv
<1>4. QED  BY <1>1, <1>2, <1>3, PTL DEF Spec

-----------------------------------------------------------------------------
(* Lemmas about what sequences hold. *)

LEMMA RangeAppend ==
  ASSUME NEW S, NEW s \in Seq(S), NEW x \in S
  PROVE  Range(Append(s, x)) = Range(s) \cup {x}
<1>1. /\ Len(s) \in Nat
      /\ DOMAIN s = 1 .. Len(s)
      /\ DOMAIN Append(s, x) = 1 .. (Len(s) + 1)
      /\ \A i \in 1 .. Len(s) : Append(s, x)[i] = s[i]
      /\ Append(s, x)[Len(s) + 1] = x
  BY LenProperties, AppendProperties
<1>2. 1 .. (Len(s) + 1) = (1 .. Len(s)) \cup {Len(s) + 1}
  BY <1>1
<1>3. QED  BY <1>1, <1>2 DEF Range

(* Draining a prefix separates what the sequence holds, and loses nothing.  *)
LEMMA RangeSplit ==
  ASSUME NEW S, NEW s \in Seq(S), NEW n \in 1 .. Len(s)
  PROVE  Range(s) = Range(SubSeq(s, 1, n)) \cup Range(SubSeq(s, n + 1, Len(s)))
<1> DEFINE front == SubSeq(s, 1, n)
           back  == SubSeq(s, n + 1, Len(s))
<1>1. Len(s) \in Nat /\ DOMAIN s = 1 .. Len(s) /\ n \in Nat /\ n <= Len(s)
  BY LenProperties
<1>2. /\ front \in Seq(S)
      /\ Len(front) = n
      /\ \A i \in 1 .. n : front[i] = s[i]
  <2>1. 1 \in Int /\ n \in Int /\ 1 <= n /\ \A i \in 1 .. n : s[i] \in S
    BY <1>1, ElementOfSeq
  <2>2. /\ front \in Seq(S)
        /\ Len(front) = n - 1 + 1
        /\ \A i \in 1 .. (n - 1 + 1) : front[i] = s[1 + i - 1]
    BY <2>1, SubSeqProperties
  <2>3. QED  BY <1>1, <2>2
<1>3. DOMAIN front = 1 .. n
  BY <1>2, LenProperties
<1>4. /\ back \in Seq(S)
      /\ Len(back) = Len(s) - n
      /\ \A i \in 1 .. (Len(s) - n) : back[i] = s[n + i]
  BY TailType
<1>5. DOMAIN back = 1 .. (Len(s) - n)
  BY <1>4, LenProperties
<1> HIDE DEF front, back
<1>6. Range(front) \cup Range(back) \subseteq Range(s)
  <2>1. \A i \in 1 .. n : i \in 1 .. Len(s)
    BY <1>1
  <2>2. \A i \in 1 .. (Len(s) - n) : n + i \in 1 .. Len(s)
    BY <1>1
  <2>3. ASSUME NEW i \in 1 .. n PROVE front[i] \in Range(s)
    BY <1>1, <1>2, <2>1 DEF Range
  <2>4. ASSUME NEW i \in 1 .. (Len(s) - n) PROVE back[i] \in Range(s)
    <3>1. back[i] = s[n + i] /\ n + i \in DOMAIN s
      BY <1>1, <1>4, <2>2
    <3>2. QED  BY <3>1 DEF Range
  <2>5. QED  BY <1>3, <1>5, <2>3, <2>4 DEF Range
<1>7. Range(s) \subseteq Range(front) \cup Range(back)
  <2>1. ASSUME NEW i \in 1 .. Len(s) PROVE s[i] \in Range(front) \cup Range(back)
    <3>1. CASE i <= n
      <4>1. i \in 1 .. n
        BY <1>1, <3>1
      <4>2. QED  BY <1>2, <1>3, <4>1 DEF Range
    <3>2. CASE n < i
      <4>1. i - n \in 1 .. (Len(s) - n) /\ n + (i - n) = i
        BY <1>1, <3>2
      <4>2. back[i - n] = s[i]
        BY <1>4, <4>1
      <4>3. QED  BY <1>5, <4>1, <4>2 DEF Range
    <3>3. QED  BY <1>1, <3>1, <3>2
  <2>2. QED  BY <1>1, <2>1 DEF Range
<1>8. QED  BY <1>6, <1>7 DEF front, back

LEMMA RangeHeadTail ==
  ASSUME NEW S, NEW s \in Seq(S), s # <<>>
  PROVE  Range(s) = {Head(s)} \cup Range(Tail(s))
<1>1. /\ Len(s) \in Nat \ {0}
      /\ DOMAIN s = 1 .. Len(s)
      /\ Head(s) = s[1]
  BY LenProperties, EmptySeq
<1>2. /\ Len(Tail(s)) = Len(s) - 1
      /\ DOMAIN Tail(s) = 1 .. (Len(s) - 1)
      /\ \A i \in 1 .. (Len(s) - 1) : Tail(s)[i] = s[i + 1]
  BY LenProperties, HeadTailProperties
<1>3. /\ 1 \in 1 .. Len(s)
      /\ \A i \in 1 .. (Len(s) - 1) : i + 1 \in 1 .. Len(s)
      /\ \A i \in 1 .. Len(s) : i = 1 \/ (i - 1 \in 1 .. (Len(s) - 1) /\ i = (i - 1) + 1)
  BY <1>1
<1>4. Range(s) \subseteq {Head(s)} \cup Range(Tail(s))
  <2>1. ASSUME NEW i \in 1 .. Len(s) PROVE s[i] \in {Head(s)} \cup Range(Tail(s))
    <3>1. CASE i = 1
      BY <1>1, <3>1
    <3>2. CASE i - 1 \in 1 .. (Len(s) - 1) /\ i = (i - 1) + 1
      <4>1. Tail(s)[i - 1] = s[i]
        BY <1>2, <3>2
      <4>2. QED  BY <1>2, <3>2, <4>1 DEF Range
    <3>3. QED  BY <1>3, <3>1, <3>2
  <2>2. QED  BY <1>1, <2>1 DEF Range
<1>5. {Head(s)} \cup Range(Tail(s)) \subseteq Range(s)
  BY <1>1, <1>2, <1>3 DEF Range
<1>6. QED  BY <1>4, <1>5

LEMMA RangeEmpty == Range(<<>>) = {}
BY DEF Range

-----------------------------------------------------------------------------
(* The checkpoint counter and the checkpoints, whatever I/O errors happen.  *)

Running == {"idle", "link", "commit", "retain", "archive", "reply", "closing"}

(* Checkpoints commit to positions that exist ... *)
InRange(a) == \A i \in DOMAIN ckpts[a] : ckpts[a][i].seq \in DOMAIN chain[a]

(* ... and each to more of them than the one before. *)
Growing(a) == \A i, j \in DOMAIN ckpts[a] : i < j => ckpts[a][i].seq < ckpts[a][j].seq

(* CounterExact is not inductive as it stands: the counter lives through    *)
(* the stages of an append, and it counts right after a push only because   *)
(* no checkpoint commits to a position beyond the head.                     *)
CheckpointInv ==
    /\ \A a \in Agent : InRange(a)
    /\ \A a \in Agent : Growing(a)
    /\ pc \in Running => \A a \in Agent : since[a] = Cardinality(Uncommitted(a))

LEMMA PushUncommitted ==
  ASSUME TypeInv, NEW a \in Agent, NEW e \in Entry, InRange(a),
         chain' = [chain EXCEPT ![a] = Append(@, e)], ckpts' = ckpts
  PROVE  /\ InRange(a)'
         /\ Cardinality(Uncommitted(a)') = Cardinality(Uncommitted(a)) + 1
         /\ \A b \in Agent : b # a => Uncommitted(b)' = Uncommitted(b) /\ (InRange(b) => InRange(b)')
<1> DEFINE n == Len(chain[a]) + 1
<1>1. /\ Len(chain[a]) \in Nat
      /\ DOMAIN chain[a] = 1 .. Len(chain[a])
      /\ chain'[a] = Append(chain[a], e)
      /\ \A b \in Agent : b # a => chain'[b] = chain[b]
  BY LenProperties DEF TypeInv, TypeOK
<1>2. DOMAIN chain'[a] = 1 .. n
  BY <1>1, LenProperties, AppendProperties DEF TypeInv, TypeOK
<1>3. 1 .. n = DOMAIN chain[a] \cup {n} /\ n \notin DOMAIN chain[a]
  BY <1>1
<1>4. InRange(a)'
  BY <1>2, <1>3 DEF InRange
<1>5. \A i \in DOMAIN ckpts[a] : ckpts[a][i].seq < n
  BY <1>1 DEF InRange
<1>6. Uncommitted(a)' = Uncommitted(a) \cup {n} /\ n \notin Uncommitted(a)
  <2> HIDE DEF n
  <2>1. Uncommitted(a)' = {p \in DOMAIN chain'[a] : \A i \in DOMAIN ckpts[a] : ckpts[a][i].seq < p}
    BY DEF Uncommitted
  <2>2. QED  BY <1>2, <1>3, <1>5, <2>1 DEF Uncommitted
<1>7. IsFiniteSet(Uncommitted(a))
  BY UncommittedType DEF TypeInv
<1>8. Cardinality(Uncommitted(a)') = Cardinality(Uncommitted(a)) + 1
  BY <1>6, <1>7, FS_AddElement
<1>9. \A b \in Agent : b # a => Uncommitted(b)' = Uncommitted(b) /\ (InRange(b) => InRange(b)')
  BY <1>1 DEF Uncommitted, InRange
<1>10. QED  BY <1>4, <1>8, <1>9

LEMMA CommitUncommitted ==
  ASSUME TypeInv, NEW a \in Agent, InRange(a), Growing(a),
         Uncommitted(a) # {}, CommitCheckpoint(a), chain' = chain
  PROVE  /\ InRange(a)' /\ Growing(a)'
         /\ Uncommitted(a)' = {}
         /\ \A b \in Agent : b # a =>
               /\ Uncommitted(b)' = Uncommitted(b)
               /\ InRange(b) => InRange(b)'
               /\ Growing(b) => Growing(b)'
<1> DEFINE c == [seq |-> Len(chain[a]), at |-> observed]
           m == Len(ckpts[a]) + 1
<1>1. /\ Len(chain[a]) \in Nat
      /\ DOMAIN chain[a] = 1 .. Len(chain[a])
      /\ Len(ckpts[a]) \in Nat
      /\ DOMAIN ckpts[a] = 1 .. Len(ckpts[a])
      /\ \A i \in DOMAIN ckpts[a] : ckpts[a][i].seq \in Nat
  <2>1. chain[a] \in Seq(Entry) /\ ckpts[a] \in Seq(Checkpoint)
    BY DEF TypeInv, TypeOK
  <2>2. \A i \in DOMAIN ckpts[a] : ckpts[a][i] \in Checkpoint
    BY <2>1, ElementOfSeq, LenProperties
  <2>3. QED  BY <2>1, <2>2, LenProperties DEF Checkpoint
<1>2. c \in Checkpoint /\ c.seq = Len(chain[a])
  BY <1>1 DEF TypeInv, TypeOK, Checkpoint
<1>3. ckpts'[a] = Append(ckpts[a], c) /\ \A b \in Agent : b # a => ckpts'[b] = ckpts[b]
  BY DEF CommitCheckpoint, TypeInv, TypeOK
<1> HIDE DEF c
<1>4. /\ DOMAIN ckpts'[a] = 1 .. m
      /\ \A i \in DOMAIN ckpts[a] : ckpts'[a][i] = ckpts[a][i]
      /\ ckpts'[a][m] = c
  BY <1>1, <1>2, <1>3, LenProperties, AppendProperties DEF TypeInv, TypeOK
<1>5. 1 .. m = DOMAIN ckpts[a] \cup {m} /\ m \notin DOMAIN ckpts[a] /\ m \in Nat
      /\ \A i \in DOMAIN ckpts[a] : i \in Nat /\ i < m
  BY <1>1
<1> HIDE DEF m
<1>6. PICK p \in DOMAIN chain[a] : \A i \in DOMAIN ckpts[a] : ckpts[a][i].seq < p
  BY DEF Uncommitted
<1>7. \A i \in DOMAIN ckpts[a] : ckpts[a][i].seq < Len(chain[a])
  BY <1>1, <1>6
<1>8. Len(chain[a]) \in DOMAIN chain[a]
  BY <1>1, <1>6
<1>9. InRange(a)'
  BY <1>2, <1>4, <1>5, <1>8 DEF InRange
<1>10. Growing(a)'
  <2>1. ASSUME NEW i \in 1 .. m, NEW j \in 1 .. m, i < j
        PROVE  ckpts'[a][i].seq < ckpts'[a][j].seq
    <3>1. i \in DOMAIN ckpts[a]
      BY <1>5, <2>1
    <3>2. CASE j = m
      BY <1>2, <1>4, <1>7, <3>1, <3>2
    <3>3. CASE j \in DOMAIN ckpts[a]
      BY <1>4, <2>1, <3>1, <3>3 DEF Growing
    <3>4. QED  BY <1>5, <3>2, <3>3
  <2>2. QED  BY <1>4, <2>1 DEF Growing
<1>11. Uncommitted(a)' = {}
  <2>1. ASSUME NEW q \in DOMAIN chain[a],
               \A i \in DOMAIN ckpts'[a] : ckpts'[a][i].seq < q
        PROVE  FALSE
    <3>1. Len(chain[a]) < q
      BY <1>2, <1>4, <1>5, <2>1
    <3>2. QED  BY <1>1, <3>1
  <2>2. QED  BY <2>1 DEF Uncommitted
<1>12. QED  BY <1>3, <1>9, <1>10, <1>11 DEF Uncommitted, InRange, Growing

LEMMA SameCheckpoints ==
  ASSUME CheckpointInv, UNCHANGED <<chain, ckpts>>,
         pc' \in Running => pc \in Running /\ since' = since
  PROVE  CheckpointInv'
BY DEF CheckpointInv, InRange, Growing, Uncommitted

(* A committed checkpoint leaves the invariant, and nothing uncommitted.    *)
LEMMA CommitKeeps ==
  ASSUME TypeInv, CheckpointInv, pc \in Running, NEW a \in Agent,
         since[a] > 0, CommitCheckpoint(a), chain' = chain
  PROVE  CheckpointInv'
<1>1. Uncommitted(a) # {}
  <2>1. since[a] = Cardinality(Uncommitted(a))
    BY DEF CheckpointInv
  <2>2. Cardinality({}) = 0
    BY FS_EmptySet
  <2>3. QED  BY <2>1, <2>2
<1>2. /\ InRange(a)' /\ Growing(a)'
      /\ Uncommitted(a)' = {}
      /\ \A b \in Agent : b # a =>
            /\ Uncommitted(b)' = Uncommitted(b)
            /\ InRange(b) => InRange(b)'
            /\ Growing(b) => Growing(b)'
  BY <1>1, CommitUncommitted DEF CheckpointInv
<1>3. since'[a] = 0 /\ \A b \in Agent : b # a => since'[b] = since[b]
  BY DEF CommitCheckpoint, TypeInv, TypeOK
<1>4. ASSUME NEW b \in Agent
      PROVE  InRange(b)' /\ Growing(b)' /\ since'[b] = Cardinality(Uncommitted(b)')
  <2>1. CASE b = a
    BY <1>2, <1>3, <2>1, FS_EmptySet
  <2>2. CASE b # a
    BY <1>2, <1>3, <2>2 DEF CheckpointInv
  <2>3. QED  BY <2>1, <2>2
<1>5. QED  BY <1>4 DEF CheckpointInv

(* An entry pushed while no counter is kept, or together with its counter.  *)
LEMMA PushKeeps ==
  ASSUME TypeInv, CheckpointInv, NEW a \in Agent, NEW e \in Entry,
         chain' = [chain EXCEPT ![a] = Append(@, e)], ckpts' = ckpts,
         \/ pc' \notin Running
         \/ pc \in Running /\ since' = [since EXCEPT ![a] = @ + 1]
  PROVE  CheckpointInv'
<1>1. /\ InRange(a)'
      /\ Cardinality(Uncommitted(a)') = Cardinality(Uncommitted(a)) + 1
      /\ \A b \in Agent : b # a => Uncommitted(b)' = Uncommitted(b) /\ (InRange(b) => InRange(b)')
  BY PushUncommitted DEF CheckpointInv
<1>2. ASSUME NEW b \in Agent PROVE InRange(b)' /\ Growing(b)'
  BY <1>1 DEF CheckpointInv, Growing
<1>3. ASSUME pc' \in Running, NEW b \in Agent
      PROVE  since'[b] = Cardinality(Uncommitted(b)')
  <2>1. since[b] = Cardinality(Uncommitted(b)) /\ since' = [since EXCEPT ![a] = @ + 1]
    BY <1>3 DEF CheckpointInv
  <2>2. CASE b = a
    BY <1>1, <2>1, <2>2 DEF TypeInv, TypeOK
  <2>3. CASE b # a
    <3>1. since'[b] = since[b]
      BY <2>1, <2>3 DEF TypeInv, TypeOK
    <3>2. Cardinality(Uncommitted(b)') = Cardinality(Uncommitted(b))
      BY <1>1, <2>3
    <3>3. QED  BY <2>1, <3>1, <3>2
  <2>4. QED  BY <2>2, <2>3
<1>4. QED  BY <1>2, <1>3 DEF CheckpointInv

LEMMA CheckpointStep == TypeInv /\ CheckpointInv /\ [Next]_vars => CheckpointInv'
<1> SUFFICES ASSUME TypeInv, CheckpointInv, [Next]_vars PROVE CheckpointInv'
  OBVIOUS
<1>1. CASE Tick
  BY <1>1, SameCheckpoints DEF Tick, durable, memory, control
<1>2. CASE Crash
  BY <1>2, SameCheckpoints DEF Crash, durable, Running
<1>3. CASE Open
  BY <1>3, SameCheckpoints DEF Open, durable, Running
<1>4. CASE Replay
  BY <1>4, SameCheckpoints DEF Replay, durable, Running
<1>5. CASE Compare
  BY <1>5, SameCheckpoints DEF Compare, durable, Running
<1>6. CASE Recover
  <2>1. PICK i \in DOMAIN events :
          chain' = [chain EXCEPT ![AgentOf[events[i]]] =
             Append(@, [trace |-> events[i], at |-> observed, recovered |-> TRUE])]
    BY <1>6 DEF Recover
  <2>2. events[i] \in Trace /\ AgentOf[events[i]] \in Agent
    BY ElementOfSeq, LenProperties, ParameterAssumption DEF TypeInv, TypeOK
  <2>3. [trace |-> events[i], at |-> observed, recovered |-> TRUE] \in Entry
    BY <2>2 DEF Entry, TypeInv, TypeOK
  <2>4. ckpts' = ckpts /\ pc' \notin Running
    BY <1>6 DEF Recover, control, Running
  <2>5. QED  BY <2>1, <2>2, <2>3, <2>4, PushKeeps
<1>7. CASE Opened
  BY <1>7 DEF Opened, durable, CheckpointInv, InRange, Growing, Uncommitted, RestoredSince
<1>8. ASSUME NEW t \in Trace, PostDuplicate(t) PROVE CheckpointInv'
  BY <1>8, SameCheckpoints DEF PostDuplicate, durable, memory, control
<1>9. ASSUME NEW t \in Trace, PostNew(t) PROVE CheckpointInv'
  BY <1>9, SameCheckpoints DEF PostNew, memory, Running
<1>10. CASE Link
  <2>1. cur \in Trace /\ AgentOf[cur] \in Agent
    BY <1>10, ParameterAssumption DEF Link, TypeInv, InFlight
  <2>2. [trace |-> cur, at |-> clock, recovered |-> FALSE] \in Entry
    BY <2>1 DEF Entry, TypeInv, TypeOK
  <2>3. /\ chain' = [chain EXCEPT ![AgentOf[cur]] =
              Append(@, [trace |-> cur, at |-> clock, recovered |-> FALSE])]
        /\ since' = [since EXCEPT ![AgentOf[cur]] = @ + 1]
        /\ ckpts' = ckpts
        /\ pc \in Running
    BY <1>10 DEF Link, Running
  <2>4. QED  BY <2>1, <2>2, <2>3, PushKeeps
<1>11. CASE LinkFails
  BY <1>11, SameCheckpoints DEF LinkFails, durable, memory, Running
<1>12. CASE MaybeCheckpoint
  <2>1. /\ AgentOf[cur] \in Agent
        /\ pc \in Running
        /\ chain' = chain
    BY <1>12, ParameterAssumption DEF MaybeCheckpoint, TypeInv, InFlight, Running
  <2>2. CASE CheckpointDue(AgentOf[cur])
    BY <1>12, <2>1, <2>2, CommitKeeps DEF MaybeCheckpoint, CheckpointDue
  <2>3. CASE ~CheckpointDue(AgentOf[cur])
    BY <1>12, <2>1, <2>3, SameCheckpoints DEF MaybeCheckpoint
  <2>4. QED  BY <2>2, <2>3
<1>13. CASE CheckpointFails
  BY <1>13, SameCheckpoints DEF CheckpointFails, durable, memory, Running
<1>14. CASE RetainAll
  BY <1>14, SameCheckpoints DEF RetainAll, durable, memory, Running
<1>15. CASE Evict
  BY <1>15, SameCheckpoints DEF Evict, durable, Running
<1>16. CASE ArchiveLine
  BY <1>16, SameCheckpoints DEF ArchiveLine, memory, Running
<1>17. CASE ArchiveFails
  BY <1>17, SameCheckpoints DEF ArchiveFails, durable, memory, Running
<1>18. CASE Compact
  BY <1>18, SameCheckpoints DEF Compact, Running
<1>19. CASE CompactFails
  BY <1>19, SameCheckpoints DEF CompactFails, durable, Running
<1>20. CASE ReopenFails
  BY <1>20, SameCheckpoints DEF ReopenFails, Running
<1>21. CASE Reply
  BY <1>21, SameCheckpoints DEF Reply, durable, memory, Running
<1>22. CASE Shutdown
  BY <1>22, SameCheckpoints DEF Shutdown, durable, memory, Running
<1>23. ASSUME NEW a \in Agent, CloseAgent(a) PROVE CheckpointInv'
  BY <1>23, CommitKeeps DEF CloseAgent, Running
<1>24. CASE Exit
  BY <1>24, SameCheckpoints DEF Exit, durable, Running
<1>25. CASE UNCHANGED vars
  BY <1>25, SameCheckpoints DEF vars, durable, memory, control
<1>26. QED
  BY <1>1, <1>2, <1>3, <1>4, <1>5, <1>6, <1>7, <1>8, <1>9, <1>10, <1>11, <1>12, <1>13,
     <1>14, <1>15, <1>16, <1>17, <1>18, <1>19, <1>20, <1>21, <1>22, <1>23, <1>24, <1>25
     DEF Next

LEMMA CheckpointInvariant == Spec => [](TypeInv /\ CheckpointInv)
<1>1. Init => TypeInv /\ CheckpointInv
  <2>1. Init => CheckpointInv
    BY DEF Init, CheckpointInv, InRange, Growing, Running
  <2>2. QED  BY <2>1, InitType
<1>2. (TypeInv /\ CheckpointInv) /\ [Next]_vars => (TypeInv /\ CheckpointInv)'
  BY TypeStep, CheckpointStep
<1>3. QED  BY <1>1, <1>2, PTL DEF Spec

(* The counter behind the count trigger is the length of the agent's        *)
(* uncommitted suffix, across failed writes and restarts (append,           *)
(* commit_checkpoint, restore_checkpoint_counters).                         *)
THEOREM CounterCorrect == Spec => []CounterExact
<1>1. CheckpointInv => CounterExact
  BY DEF CheckpointInv, CounterExact, Running
<1>2. QED  BY <1>1, CheckpointInvariant, PTL

(* Every checkpoint pins a prefix of the chain that exists, a longer one    *)
(* than every checkpoint before it (commit_checkpoint, force_checkpoints).  *)
THEOREM CheckpointsGrow == Spec => []CheckpointsAdvance
<1>1. CheckpointInv => CheckpointsAdvance
  BY DEF CheckpointInv, InRange, Growing, CheckpointsAdvance
<1>2. QED  BY <1>1, CheckpointInvariant, PTL

-----------------------------------------------------------------------------
(***************************************************************************)
(* What reopening the store restores.  The observation times the retention *)
(* floor is measured against: for every instance, whatever I/O errors      *)
(* happen.  The chains: for every store without a retention target, as     *)
(* long as no chain line fails to be written.                              *)
(***************************************************************************)

(* The latest entry of an event, in a chain taken by itself. *)

Latest(c, t) ==
    CHOOSE i \in DOMAIN c :
        c[i].trace = t /\ \A j \in DOMAIN c : c[j].trace = t => j <= i

Holds(c, t) == \E i \in DOMAIN c : c[i].trace = t

LEMMA LatestIs ==
  ASSUME NEW c \in Seq(Entry), NEW t, NEW i \in DOMAIN c, c[i].trace = t,
         \A j \in DOMAIN c : c[j].trace = t => j <= i
  PROVE  Latest(c, t) = i
<1>1. DOMAIN c = 1 .. Len(c) /\ Len(c) \in Nat
  BY LenProperties
<1>2. /\ Latest(c, t) \in DOMAIN c
      /\ c[Latest(c, t)].trace = t
      /\ \A j \in DOMAIN c : c[j].trace = t => j <= Latest(c, t)
  BY DEF Latest
<1>3. Latest(c, t) <= i /\ i <= Latest(c, t)
  BY <1>2
<1>4. QED  BY <1>1, <1>2, <1>3

LEMMA LatestExists ==
  ASSUME NEW c \in Seq(Entry), NEW t, Holds(c, t)
  PROVE  /\ Latest(c, t) \in DOMAIN c
         /\ c[Latest(c, t)].trace = t
         /\ \A j \in DOMAIN c : c[j].trace = t => j <= Latest(c, t)
<1> DEFINE S == {i \in DOMAIN c : c[i].trace = t}
<1>1. Len(c) \in Nat /\ DOMAIN c = 1 .. Len(c)
  BY LenProperties
<1>2. S \in SUBSET (1 .. Len(c)) /\ S # {}
  BY <1>1 DEF Holds
<1>3. \E p \in S : \A q \in S : q <= p
  BY <1>1, <1>2, LargestPosition
<1>4. \E i \in DOMAIN c : c[i].trace = t /\ \A j \in DOMAIN c : c[j].trace = t => j <= i
  BY <1>3
<1>5. QED  BY <1>4 DEF Latest

(* A pushed entry is the latest of its event ... *)
LEMMA PushLatest ==
  ASSUME NEW c \in Seq(Entry), NEW e \in Entry, NEW d, d = Append(c, e)
  PROVE  /\ Holds(d, e.trace)
         /\ Latest(d, e.trace) = Len(c) + 1
         /\ d[Len(c) + 1] = e
<1> DEFINE n == Len(c) + 1
<1>1. d \in Seq(Entry) /\ DOMAIN d = 1 .. n /\ d[n] = e
  BY LenProperties, AppendProperties
<1>2. n \in DOMAIN d /\ \A j \in DOMAIN d : j <= n
  BY <1>1, LenProperties
<1> HIDE DEF n
<1>3. Holds(d, e.trace)
  BY <1>1, <1>2 DEF Holds
<1>4. Latest(d, e.trace) = n
  BY <1>1, <1>2, LatestIs
<1>5. QED  BY <1>1, <1>3, <1>4 DEF n

(* ... and changes no other event's. *)
LEMMA PushOther ==
  ASSUME NEW c \in Seq(Entry), NEW e \in Entry, NEW d, d = Append(c, e),
         NEW t, t # e.trace
  PROVE  /\ Holds(d, t) <=> Holds(c, t)
         /\ Holds(c, t) => Latest(d, t) = Latest(c, t) /\ d[Latest(c, t)] = c[Latest(c, t)]
<1> DEFINE n == Len(c) + 1
<1>1. /\ d \in Seq(Entry)
      /\ DOMAIN d = DOMAIN c \cup {n}
      /\ \A i \in DOMAIN c : d[i] = c[i]
      /\ d[n] = e
  <2>1. /\ Len(c) \in Nat
        /\ DOMAIN c = 1 .. Len(c)
        /\ d \in Seq(Entry)
        /\ DOMAIN d = 1 .. n
        /\ \A i \in 1 .. Len(c) : d[i] = c[i]
        /\ d[n] = e
    BY LenProperties, AppendProperties
  <2>2. 1 .. n = (1 .. Len(c)) \cup {n}
    BY <2>1
  <2>3. QED  BY <2>1, <2>2
<1> HIDE DEF n
<1>2. Holds(d, t) <=> Holds(c, t)
  BY <1>1 DEF Holds
<1>3. ASSUME Holds(c, t)
      PROVE  Latest(d, t) = Latest(c, t) /\ d[Latest(c, t)] = c[Latest(c, t)]
  <2>1. PICK i \in DOMAIN c :
          /\ Latest(c, t) = i
          /\ c[i].trace = t
          /\ \A j \in DOMAIN c : c[j].trace = t => j <= i
    BY <1>3, LatestExists
  <2>2. i \in DOMAIN d /\ d[i] = c[i]
    BY <1>1, <2>1
  <2>3. d[i].trace = t /\ \A j \in DOMAIN d : d[j].trace = t => j <= i
    BY <1>1, <2>1, <2>2
  <2>4. Latest(d, t) = i
    BY <1>1, <2>2, <2>3, LatestIs
  <2>5. QED  BY <2>1, <2>2, <2>4
<1>4. QED  BY <1>2, <1>3

LEMMA LatestIsSeqOf ==
  ASSUME NEW t
  PROVE  /\ Linked(t) <=> Holds(chain[AgentOf[t]], t)
         /\ SeqOf(t) = Latest(chain[AgentOf[t]], t)
BY DEF Linked, Holds, SeqOf, Latest

-----------------------------------------------------------------------------
(* The retention floor. *)

(* A live event is known to the live index, so none is ever live twice ... *)
Known == \A i \in DOMAIN events : byTrace[events[i]] # 0

(* ... and the event in flight is not live before it is linked ... *)
New == pc = "link" => byTrace[cur] = 0

(* ... and once the store is open, the time kept of a linked live event is  *)
(* the one its latest entry recorded.                                       *)
Stamped ==
    pc \in Running =>
        \A i \in DOMAIN events :
            Holds(chain[AgentOf[events[i]]], events[i]) =>
                recordedAt[i] =
                    chain[AgentOf[events[i]]][Latest(chain[AgentOf[events[i]]], events[i])].at

FloorInv == Known /\ New /\ Stamped

(* A step that leaves the events, their times and the chains alone. *)
LEMMA SameEvents ==
  ASSUME FloorInv, UNCHANGED <<events, recordedAt, chain, byTrace>>,
         pc' = "link" => pc = "link" /\ cur' = cur,
         pc' \in Running => pc \in Running
  PROVE  FloorInv'
BY DEF FloorInv, Known, New, Stamped

(* A process that is not running knows nothing. *)
LEMMA BlankMemory ==
  ASSUME EmptyMemory, pc' = "down"
  PROVE  FloorInv'
<1>1. DOMAIN events' = {}
  BY DEF EmptyMemory
<1>2. QED  BY <1>1 DEF FloorInv, Known, New, Stamped, Running

(* An event that enters the live index. *)
LEMMA IndexKnown ==
  ASSUME TypeInv, Known, NEW t \in Trace, NEW at \in Nat, Index(t, at)
  PROVE  /\ Known'
         /\ DOMAIN events' = DOMAIN events \cup {Len(events) + 1}
         /\ \A i \in DOMAIN events :
               events'[i] = events[i] /\ recordedAt'[i] = recordedAt[i]
         /\ events'[Len(events) + 1] = t
         /\ recordedAt'[Len(events) + 1] = at
<1> DEFINE n == Len(events) + 1
<1>1. /\ Len(events) \in Nat
      /\ Len(recordedAt) = Len(events)
      /\ DOMAIN events = 1 .. Len(events)
  BY LenProperties DEF TypeInv, TypeOK
<1>2. /\ DOMAIN events' = 1 .. n
      /\ \A i \in 1 .. Len(events) : events'[i] = events[i]
      /\ events'[n] = t
  BY <1>1, LenProperties, AppendProperties DEF Index, TypeInv, TypeOK
<1>3. /\ \A i \in 1 .. Len(events) : recordedAt'[i] = recordedAt[i]
      /\ recordedAt'[n] = at
  BY <1>1, AppendProperties DEF Index, TypeInv, TypeOK
<1>4. 1 .. n = DOMAIN events \cup {n} /\ n # 0
  BY <1>1
<1>5. byTrace'[t] = n /\ \A u \in Trace : u # t => byTrace'[u] = byTrace[u]
  BY DEF Index, TypeInv, TypeOK
<1> HIDE DEF n
<1>6. \A i \in DOMAIN events : events[i] \in Trace
  BY <1>1, ElementOfSeq DEF TypeInv, TypeOK
<1>7. Known'
  BY <1>1, <1>2, <1>4, <1>5, <1>6 DEF Known
<1>8. QED  BY <1>1, <1>2, <1>3, <1>4, <1>7 DEF n

LEMMA ReindexKnown ==
  ASSUME TypeInv, Reindex, events' = events
  PROVE  Known'
<1>1. DOMAIN events = 1 .. Len(events) /\ \A i \in DOMAIN events : events[i] \in Trace
  BY LenProperties, ElementOfSeq DEF TypeInv, TypeOK
<1>2. Len(events) \in Nat
  BY LenProperties DEF TypeInv, TypeOK
<1>3. ASSUME NEW i \in DOMAIN events PROVE byTrace'[events[i]] # 0
  <2>1. byTrace'[events[i]] = CHOOSE j \in DOMAIN events : events[j] = events[i]
    BY <1>1 DEF Reindex
  <2>2. byTrace'[events[i]] \in DOMAIN events
    BY <2>1
  <2>3. QED  BY <1>1, <1>2, <2>2
<1>4. QED  BY <1>3 DEF Known
(* Draining a prefix leaves the rest as it was. *)
LEMMA DrainKeeps ==
  ASSUME TypeInv, FloorInv, pc = "retain", pc' = "archive",
         UNCHANGED <<chain, byTrace>>, NEW n \in 1 .. Len(events),
         events' = SubSeq(events, n + 1, Len(events)),
         recordedAt' = SubSeq(recordedAt, n + 1, Len(recordedAt))
  PROVE  FloorInv'
<1>1. /\ Len(events) \in Nat
      /\ DOMAIN events = 1 .. Len(events)
      /\ Len(recordedAt) = Len(events)
  BY LenProperties DEF TypeInv, TypeOK
<1>2. /\ events' \in Seq(Trace)
      /\ Len(events') = Len(events) - n
      /\ \A i \in 1 .. (Len(events) - n) : events'[i] = events[n + i]
  BY TailType DEF TypeInv, TypeOK
<1>3. \A i \in 1 .. (Len(events) - n) : recordedAt'[i] = recordedAt[n + i]
  BY <1>1, TailType DEF TypeInv, TypeOK
<1>4. DOMAIN events' = 1 .. (Len(events) - n)
  BY <1>2, LenProperties
<1>5. \A i \in DOMAIN events' :
        n + i \in DOMAIN events /\ events'[i] = events[n + i] /\ recordedAt'[i] = recordedAt[n + i]
  BY <1>1, <1>2, <1>3, <1>4
<1>6. Known'
  BY <1>5 DEF FloorInv, Known
<1>7. Stamped'
  <2>1. pc \in Running
    BY DEF Running
  <2>2. QED  BY <1>5, <2>1 DEF FloorInv, Stamped
<1>8. QED  BY <1>6, <1>7 DEF FloorInv, New

(* An entry pushed for an event that is not live leaves the times of the    *)
(* live ones, and is the latest of its own.                                 *)
LEMMA LinkKeeps == TypeInv /\ FloorInv /\ Link => FloorInv'
<1> SUFFICES ASSUME TypeInv, FloorInv, Link PROVE FloorInv'
  OBVIOUS
<1> DEFINE e == [trace |-> cur, at |-> clock, recovered |-> FALSE]
           a == AgentOf[cur]
           n == Len(events) + 1
<1>1. cur \in Trace /\ a \in Agent /\ e \in Entry /\ clock \in Nat /\ chain[a] \in Seq(Entry)
  BY ParameterAssumption DEF Link, TypeInv, TypeOK, InFlight, Entry
<1>2. chain'[a] = Append(chain[a], e) /\ \A b \in Agent : b # a => chain'[b] = chain[b]
  BY <1>1 DEF Link, TypeInv, TypeOK
<1>3. /\ Known'
      /\ DOMAIN events' = DOMAIN events \cup {n}
      /\ \A i \in DOMAIN events : events'[i] = events[i] /\ recordedAt'[i] = recordedAt[i]
      /\ events'[n] = cur
      /\ recordedAt'[n] = clock
  BY <1>1, IndexKnown DEF Link, FloorInv
<1>4. e.trace = cur /\ e.at = clock
  OBVIOUS
<1> HIDE DEF e, n
<1>5. /\ Holds(chain'[a], cur)
      /\ chain'[a][Latest(chain'[a], cur)].at = clock
      /\ \A t : t # cur /\ Holds(chain'[a], t) =>
            /\ Holds(chain[a], t)
            /\ chain'[a][Latest(chain'[a], t)] = chain[a][Latest(chain[a], t)]
  <2> HIDE DEF a
  <2>1. /\ Holds(chain'[a], e.trace)
        /\ Latest(chain'[a], e.trace) = Len(chain[a]) + 1
        /\ chain'[a][Len(chain[a]) + 1] = e
    BY <1>1, <1>2, PushLatest
  <2>2. ASSUME NEW t, t # cur, Holds(chain'[a], t)
        PROVE  /\ Holds(chain[a], t)
               /\ chain'[a][Latest(chain'[a], t)] = chain[a][Latest(chain[a], t)]
    <3>1. Holds(chain'[a], t) <=> Holds(chain[a], t)
      BY <1>1, <1>2, <1>4, <2>2, PushOther
    <3>2. Latest(chain'[a], t) = Latest(chain[a], t)
      BY <1>1, <1>2, <1>4, <2>2, <3>1, PushOther
    <3>3. chain'[a][Latest(chain[a], t)] = chain[a][Latest(chain[a], t)]
      BY <1>1, <1>2, <1>4, <2>2, <3>1, PushOther
    <3>4. QED  BY <2>2, <3>1, <3>2, <3>3
  <2>3. QED  BY <1>4, <2>1, <2>2
<1>6. \A i \in DOMAIN events : events[i] # cur /\ events[i] \in Trace
  <2>1. byTrace[cur] = 0 /\ \A i \in DOMAIN events : byTrace[events[i]] # 0
    BY DEF Link, FloorInv, Known, New
  <2>2. QED  BY <2>1, ElementOfSeq, LenProperties DEF TypeInv, TypeOK
<1>7. ASSUME NEW i \in DOMAIN events,
             Holds(chain'[AgentOf[events[i]]], events[i])
      PROVE  recordedAt[i] =
               chain'[AgentOf[events[i]]][Latest(chain'[AgentOf[events[i]]], events[i])].at
  <2>1. \A j \in DOMAIN events :
          Holds(chain[AgentOf[events[j]]], events[j]) =>
             recordedAt[j] =
                chain[AgentOf[events[j]]][Latest(chain[AgentOf[events[j]]], events[j])].at
    BY DEF Link, FloorInv, Stamped, Running
  <2>2. AgentOf[events[i]] \in Agent
    BY <1>6, ParameterAssumption
  <2>3. CASE AgentOf[events[i]] = a
    BY <1>5, <1>6, <1>7, <2>1, <2>3
  <2>4. CASE AgentOf[events[i]] # a
    BY <1>2, <1>7, <2>1, <2>2, <2>4
  <2>5. QED  BY <2>3, <2>4
<1>8. Stamped'
  BY <1>3, <1>5, <1>7 DEF Stamped
<1>9. New'
  BY DEF Link, New
<1>10. QED  BY <1>3, <1>8, <1>9 DEF FloorInv

LEMMA FloorStep == TypeInv /\ FloorInv /\ [Next]_vars => FloorInv'
<1> SUFFICES ASSUME TypeInv, FloorInv, [Next]_vars PROVE FloorInv'
  OBVIOUS
<1>1. CASE Tick
  BY <1>1, SameEvents DEF Tick, durable, memory, indices, control
<1>2. CASE Crash
  BY <1>2, BlankMemory DEF Crash
<1>3. CASE Open
  BY <1>3, SameEvents DEF Open, durable, memory, indices, Running
<1>4. CASE Replay
  <2>1. /\ log[cursor + 1] \in Trace
        /\ Sent[log[cursor + 1]] \in Nat
    <3>1. cursor + 1 \in DOMAIN log
      BY <1>4, LenProperties DEF Replay, TypeInv, TypeOK
    <3>2. log[cursor + 1] \in Trace
      BY <3>1, ElementOfSeq, LenProperties DEF TypeInv, TypeOK
    <3>3. QED  BY <3>2, ParameterAssumption
  <2>2. CASE byTrace[log[cursor + 1]] = 0
    <3>1. Index(log[cursor + 1], Sent[log[cursor + 1]])
      BY <1>4, <2>2 DEF Replay
    <3>2. Known'
      BY <2>1, <3>1, IndexKnown DEF FloorInv
    <3>3. QED  BY <1>4, <3>2 DEF Replay, FloorInv, New, Stamped, Running
  <2>3. CASE byTrace[log[cursor + 1]] # 0
    BY <1>4, <2>3, SameEvents DEF Replay, durable, indices, Running
  <2>4. QED  BY <2>2, <2>3
<1>5. CASE Compare
  BY <1>5, SameEvents DEF Compare, durable, indices, Running
<1>6. CASE Recover
  <2>1. UNCHANGED <<events, byTrace, pc>> /\ pc = "recover"
    BY <1>6 DEF Recover, memory, indices, control
  <2>2. QED  BY <2>1 DEF FloorInv, Known, New, Stamped, Running
<1>7. CASE Opened
  <2>1. UNCHANGED <<events, byTrace, chain>> /\ pc' = "idle"
    BY <1>7 DEF Opened, durable, indices
  <2>2. DOMAIN events = 1 .. Len(events)
    BY LenProperties DEF TypeInv, TypeOK
  <2>3. ASSUME NEW i \in DOMAIN events, Holds(chain[AgentOf[events[i]]], events[i])
        PROVE  recordedAt'[i] =
                 chain[AgentOf[events[i]]][Latest(chain[AgentOf[events[i]]], events[i])].at
    <3>1. recordedAt'[i] = chain[AgentOf[events[i]]][SeqOf(events[i])].at
      BY <1>7, <2>2, <2>3, LatestIsSeqOf DEF Opened
    <3>2. QED  BY <3>1, LatestIsSeqOf
  <2>4. QED  BY <2>1, <2>3 DEF FloorInv, Known, New, Stamped
<1>8. ASSUME NEW t \in Trace, PostDuplicate(t) PROVE FloorInv'
  BY <1>8, SameEvents DEF PostDuplicate, durable, memory, indices, control
<1>9. ASSUME NEW t \in Trace, PostNew(t) PROVE FloorInv'
  BY <1>9 DEF PostNew, memory, indices, FloorInv, Known, New, Stamped, Running
<1>10. CASE Link
  BY <1>10, LinkKeeps
<1>11. CASE LinkFails
  BY <1>11, SameEvents DEF LinkFails, Return, durable, memory, indices, Running
<1>12. CASE MaybeCheckpoint
  BY <1>12, SameEvents DEF MaybeCheckpoint, indices, Running
<1>13. CASE CheckpointFails
  BY <1>13, SameEvents DEF CheckpointFails, Return, durable, memory, indices, Running
<1>14. CASE RetainAll
  BY <1>14, SameEvents DEF RetainAll, Return, durable, memory, indices, Running
<1>15. CASE Evict
  BY <1>15, DrainKeeps DEF Evict, durable, indices
<1>16. CASE ArchiveLine
  BY <1>16, SameEvents DEF ArchiveLine, memory, indices, Running
<1>17. CASE ArchiveFails
  BY <1>17, SameEvents DEF ArchiveFails, Return, durable, memory, indices, Running
<1>18. ASSUME Compact \/ CompactFails \/ ReopenFails PROVE FloorInv'
  <2>1. /\ Reindex
        /\ UNCHANGED <<events, recordedAt, chain>>
        /\ pc = "archive" /\ pc' \in {"reply", "idle"}
    BY <1>18 DEF Compact, CompactFails, ReopenFails, Return, durable
  <2>2. Known'
    BY <2>1, ReindexKnown
  <2>3. QED  BY <2>1, <2>2 DEF FloorInv, New, Stamped, Running
<1>19. CASE Reply
  BY <1>19, SameEvents DEF Reply, Return, durable, memory, indices, Running
<1>20. CASE Shutdown
  BY <1>20, SameEvents DEF Shutdown, durable, memory, indices, Running
<1>21. ASSUME NEW a \in Agent, CloseAgent(a) PROVE FloorInv'
  BY <1>21, SameEvents DEF CloseAgent, indices, control
<1>22. CASE Exit
  BY <1>22, BlankMemory DEF Exit
<1>23. CASE UNCHANGED vars
  BY <1>23, SameEvents DEF vars, durable, memory, indices, control
<1>24. QED
  BY <1>1, <1>2, <1>3, <1>4, <1>5, <1>6, <1>7, <1>8, <1>9, <1>10, <1>11, <1>12, <1>13,
     <1>14, <1>15, <1>16, <1>17, <1>18, <1>19, <1>20, <1>21, <1>22, <1>23 DEF Next

(* What the floor asks of one step. *)
FloorAsks ==
    pc = "retain" /\ pc' = "archive" /\ RetentionFloor # None =>
        \A i \in DOMAIN batch' :
            Linked(batch'[i]) =>
                chain[AgentOf[batch'[i]]][SeqOf(batch'[i])].at < clock - RetentionFloor

LEMMA FloorOfStep == TypeInv /\ FloorInv /\ [Next]_vars => FloorAsks
<1> SUFFICES ASSUME TypeInv, FloorInv, [Next]_vars,
                    pc = "retain", pc' = "archive", RetentionFloor # None
             PROVE  \A i \in DOMAIN batch' :
                      Linked(batch'[i]) =>
                        chain[AgentOf[batch'[i]]][SeqOf(batch'[i])].at < clock - RetentionFloor
  BY DEF FloorAsks
<1>1. Evict
  BY DEF Next, Tick, Crash, Open, Replay, Compare, Recover, Opened, PostDuplicate, PostNew,
         Link, LinkFails, MaybeCheckpoint, CheckpointFails, RetainAll, Return, ArchiveLine,
         ArchiveFails, Compact, CompactFails, ReopenFails, Reply, Shutdown, CloseAgent, Exit,
         vars, control
<1>2. PICK n \in 1 .. Len(events) : OldEnough(n) /\ batch' = SubSeq(events, 1, n)
  BY <1>1 DEF Evict, Evictable
<1>3. Len(events) \in Nat /\ DOMAIN events = 1 .. Len(events)
  BY LenProperties DEF TypeInv, TypeOK
<1>4. /\ DOMAIN batch' = 1 .. n
      /\ \A i \in 1 .. n : batch'[i] = events[i] /\ i \in DOMAIN events
  <2>1. /\ 1 \in Int /\ n \in Int /\ n \in Nat /\ 1 <= n + 1
        /\ \A i \in 1 .. n : i \in DOMAIN events /\ events[i] \in Trace
    BY <1>3, ElementOfSeq DEF TypeInv, TypeOK
  <2>2. /\ batch' \in Seq(Trace)
        /\ Len(batch') = n - 1 + 1
        /\ \A i \in 1 .. (n - 1 + 1) : batch'[i] = events[1 + i - 1]
    BY <1>2, <2>1, SubSeqProperties
  <2>3. \A i \in 1 .. n : batch'[i] = events[i]
    BY <1>3, <2>1, <2>2
  <2>4. QED  BY <2>1, <2>2, <2>3, LenProperties
<1>5. ASSUME NEW i \in DOMAIN batch', Linked(batch'[i])
      PROVE  chain[AgentOf[batch'[i]]][SeqOf(batch'[i])].at < clock - RetentionFloor
  <2>1. recordedAt[i] < clock - RetentionFloor
    BY <1>2, <1>4 DEF OldEnough
  <2>2. recordedAt[i] = chain[AgentOf[events[i]]][Latest(chain[AgentOf[events[i]]], events[i])].at
    BY <1>4, <1>5, LatestIsSeqOf DEF FloorInv, Stamped, Running
  <2>3. recordedAt[i] = chain[AgentOf[batch'[i]]][SeqOf(batch'[i])].at
    BY <1>4, <2>2, LatestIsSeqOf
  <2>4. QED  BY <2>1, <2>3
<1>6. QED  BY <1>5

(* "The floor outranks the target": the age an event is evicted by is the   *)
(* one its chain entry recorded, also across a restart                      *)
(* (restore_recorded_at, enforce_retention).                                *)
THEOREM FloorRespected == Spec => FloorHonoured
<1>1. Init => TypeInv /\ FloorInv
  <2>1. Init => FloorInv
    BY DEF Init, FloorInv, Known, New, Stamped, Running
  <2>2. QED  BY <2>1, InitType
<1>2. (TypeInv /\ FloorInv) /\ [Next]_vars => (TypeInv /\ FloorInv)'
  BY TypeStep, FloorStep
<1>3. TypeInv /\ FloorInv /\ [Next]_vars => [FloorAsks]_vars
  BY FloorOfStep
<1>4. QED  BY <1>1, <1>2, <1>3, PTL DEF Spec, FloorHonoured, FloorAsks
-----------------------------------------------------------------------------
(* The rank of an event among its agent's. *)

Same(s, i) == {j \in 1 .. i : AgentOf[s[j]] = AgentOf[s[i]]}

LEMMA SameFinite ==
  ASSUME NEW s, NEW i \in Nat
  PROVE  /\ IsFiniteSet(Same(s, i))
         /\ Ordinal(s, i) = Cardinality(Same(s, i))
         /\ Ordinal(s, i) \in Nat
<1>1. IsFiniteSet(1 .. i)
  BY FS_Interval
<1>2. Same(s, i) \in SUBSET (1 .. i)
  BY DEF Same
<1>3. IsFiniteSet(Same(s, i))
  BY <1>1, <1>2, FS_Subset
<1>4. Ordinal(s, i) = Cardinality(Same(s, i))
  BY DEF Ordinal, Same
<1>5. QED  BY <1>3, <1>4, FS_CardinalityType

LEMMA PositionsFinite ==
  ASSUME NEW s \in Seq(Trace), NEW a
  PROVE  /\ IsFiniteSet(PositionsOf(s, a))
         /\ Cardinality(PositionsOf(s, a)) \in Nat
<1>1. Len(s) \in Nat /\ DOMAIN s = 1 .. Len(s)
  BY LenProperties
<1>2. IsFiniteSet(DOMAIN s)
  BY <1>1, FS_Interval
<1>3. PositionsOf(s, a) \in SUBSET DOMAIN s
  BY DEF PositionsOf
<1>4. IsFiniteSet(PositionsOf(s, a))
  BY <1>2, <1>3, FS_Subset
<1>5. QED  BY <1>4, FS_CardinalityType

(* A rank counts from one, and no further than the agent has events. *)
LEMMA RankInRange ==
  ASSUME NEW s \in Seq(Trace), NEW i \in DOMAIN s
  PROVE  Ordinal(s, i) \in 1 .. Cardinality(PositionsOf(s, AgentOf[s[i]]))
<1> DEFINE P == PositionsOf(s, AgentOf[s[i]])
<1>1. Len(s) \in Nat /\ DOMAIN s = 1 .. Len(s) /\ i \in Nat /\ i \in 1 .. i
  BY LenProperties
<1>2. /\ IsFiniteSet(Same(s, i))
      /\ Ordinal(s, i) = Cardinality(Same(s, i))
      /\ Ordinal(s, i) \in Nat
  BY <1>1, SameFinite
<1>3. Same(s, i) \in SUBSET P
  <2>1. \A j \in 1 .. i : j \in DOMAIN s
    BY <1>1
  <2>2. QED  BY <2>1 DEF Same, PositionsOf
<1>4. IsFiniteSet(P) /\ Cardinality(P) \in Nat
  BY PositionsFinite
<1> HIDE DEF P
<1>5. Ordinal(s, i) <= Cardinality(P)
  BY <1>2, <1>3, <1>4, FS_Subset
<1>6. Same(s, i) # {}
  BY <1>1 DEF Same
<1>7. Ordinal(s, i) # 0
  BY <1>2, <1>6, FS_EmptySet
<1>8. QED  BY <1>2, <1>4, <1>5, <1>7 DEF P

(* Ranks grow along the sequence. *)
LEMMA RankGrows ==
  ASSUME NEW s \in Seq(Trace), NEW i \in DOMAIN s, NEW j \in DOMAIN s,
         i < j, AgentOf[s[i]] = AgentOf[s[j]]
  PROVE  Ordinal(s, i) < Ordinal(s, j)
<1>1. i \in Nat /\ j \in Nat /\ j \in 1 .. j /\ j \notin 1 .. i /\ \A k \in 1 .. i : k \in 1 .. j
  BY LenProperties
<1>2. /\ IsFiniteSet(Same(s, i)) /\ IsFiniteSet(Same(s, j))
      /\ Ordinal(s, i) = Cardinality(Same(s, i)) /\ Ordinal(s, i) \in Nat
      /\ Ordinal(s, j) = Cardinality(Same(s, j)) /\ Ordinal(s, j) \in Nat
  BY <1>1, SameFinite
<1>3. Same(s, i) \in SUBSET Same(s, j) /\ j \in Same(s, j) /\ j \notin Same(s, i)
  BY <1>1 DEF Same
<1>4. /\ Cardinality(Same(s, i)) <= Cardinality(Same(s, j))
      /\ Cardinality(Same(s, j)) = Cardinality(Same(s, i)) => Same(s, j) = Same(s, i)
  BY <1>2, <1>3, FS_Subset
<1>5. QED  BY <1>2, <1>3, <1>4

(* So an agent's event is known by its rank. *)
LEMMA RankUnique ==
  ASSUME NEW s \in Seq(Trace), NEW i \in DOMAIN s, NEW j \in DOMAIN s,
         AgentOf[s[i]] = AgentOf[s[j]], Ordinal(s, i) = Ordinal(s, j)
  PROVE  i = j
<1>1. i \in Nat /\ j \in Nat
  BY LenProperties
<1>2. Ordinal(s, i) \in Nat /\ Ordinal(s, j) \in Nat
  BY <1>1, SameFinite
<1>3. ~ (i < j) /\ ~ (j < i)
  BY <1>2, RankGrows
<1>4. QED  BY <1>1, <1>3

(* An appended event keeps the others' ranks ... *)
Longer(r, s, t) == r = Append(s, t)

LEMMA AppendedShape ==
  ASSUME NEW s \in Seq(Trace), NEW t \in Trace, NEW r, Longer(r, s, t)
  PROVE  /\ r \in Seq(Trace)
         /\ DOMAIN r = DOMAIN s \cup {Len(s) + 1}
         /\ Len(s) + 1 \notin DOMAIN s
         /\ Len(s) + 1 \in Nat
         /\ r[Len(s) + 1] = t
<1>1. /\ Len(s) \in Nat
      /\ DOMAIN s = 1 .. Len(s)
      /\ r \in Seq(Trace)
      /\ DOMAIN r = 1 .. (Len(s) + 1)
      /\ r[Len(s) + 1] = t
  BY LenProperties, AppendProperties DEF Longer
<1>2. 1 .. (Len(s) + 1) = (1 .. Len(s)) \cup {Len(s) + 1}
  BY <1>1
<1>3. QED  BY <1>1, <1>2

LEMMA RankKept ==
  ASSUME NEW s \in Seq(Trace), NEW t \in Trace, NEW r, Longer(r, s, t), NEW i \in DOMAIN s
  PROVE  r[i] = s[i] /\ Ordinal(r, i) = Ordinal(s, i)
<1>1. /\ DOMAIN s = 1 .. Len(s)
      /\ Len(s) \in Nat
      /\ \A j \in 1 .. Len(s) : r[j] = s[j]
  BY LenProperties, AppendProperties DEF Longer
<1>2. i \in Nat /\ \A j \in 1 .. i : j \in 1 .. Len(s)
  BY <1>1
<1>3. Same(r, i) = Same(s, i)
  BY <1>1, <1>2 DEF Same
<1>4. Ordinal(r, i) = Cardinality(Same(r, i)) /\ Ordinal(s, i) = Cardinality(Same(s, i))
  BY <1>2, SameFinite
<1>5. QED  BY <1>1, <1>3, <1>4

LEMMA PositionsKept ==
  ASSUME NEW s \in Seq(Trace), NEW t \in Trace, NEW r, Longer(r, s, t),
         NEW a \in Agent, a # AgentOf[t]
  PROVE  /\ PositionsOf(r, a) = PositionsOf(s, a)
         /\ Cardinality(PositionsOf(r, a)) = Cardinality(PositionsOf(s, a))
<1> DEFINE n == Len(s) + 1
           b == AgentOf[t]
<1>1. \A i \in DOMAIN s : r[i] = s[i]
  BY RankKept
<1>2. DOMAIN r = DOMAIN s \cup {n} /\ r[n] = t /\ AgentOf[r[n]] = b
  BY AppendedShape
<1>3. a # b
  OBVIOUS
<1> HIDE DEF n, b
<1>4. PositionsOf(r, a) = PositionsOf(s, a)
  BY <1>1, <1>2, <1>3 DEF PositionsOf
<1>5. QED  BY <1>4, Zenon

(* ... and has the next rank of its own agent. *)
LEMMA RankAppended ==
  ASSUME NEW s \in Seq(Trace), NEW t \in Trace, NEW r, Longer(r, s, t)
  PROVE  /\ PositionsOf(r, AgentOf[t]) = PositionsOf(s, AgentOf[t]) \cup {Len(s) + 1}
         /\ Cardinality(PositionsOf(r, AgentOf[t])) = Cardinality(PositionsOf(s, AgentOf[t])) + 1
         /\ Ordinal(r, Len(s) + 1) = Cardinality(PositionsOf(s, AgentOf[t])) + 1
<1> DEFINE n == Len(s) + 1
<1>1. /\ r \in Seq(Trace)
      /\ DOMAIN r = DOMAIN s \cup {n}
      /\ n \notin DOMAIN s
      /\ n \in Nat
      /\ r[n] = t
  BY AppendedShape
<1>2. \A i \in DOMAIN s : r[i] = s[i]
  BY RankKept
<1>3. DOMAIN r = 1 .. n
  BY LenProperties, AppendProperties DEF Longer
<1> HIDE DEF n
<1>4. PositionsOf(r, AgentOf[t]) = PositionsOf(s, AgentOf[t]) \cup {n}
  BY <1>1, <1>2 DEF PositionsOf
<1>5. Cardinality(PositionsOf(r, AgentOf[t])) = Cardinality(PositionsOf(s, AgentOf[t])) + 1
  <2>1. n \notin PositionsOf(s, AgentOf[t])
    BY <1>1 DEF PositionsOf
  <2>2. QED  BY <1>4, <2>1, PositionsFinite, FS_AddElement
<1>6. Ordinal(r, n) = Cardinality(PositionsOf(s, AgentOf[t])) + 1
  <2>1. Same(r, n) = PositionsOf(r, AgentOf[t])
    BY <1>1, <1>3 DEF Same, PositionsOf
  <2>2. Ordinal(r, n) = Cardinality(Same(r, n))
    BY <1>1, SameFinite
  <2>3. QED  BY <1>5, <2>1, <2>2
<1>7. QED  BY <1>4, <1>5, <1>6 DEF n

-----------------------------------------------------------------------------
(* The recovery of an unbounded store.  What recover_chain_tails takes for  *)
(* granted, that a chain is a prefix of its agent's events, is an invariant *)
(* of the durable state; the four properties follow from it.                *)

(* No event is in a sequence twice. *)
Distinct(s) == \A i, j \in DOMAIN s : s[i] = s[j] => i = j

(* Every rank up to the number of an agent's events is the rank of one.     *)
Ranked(s) ==
    \A a \in Agent : \A k \in 1 .. Cardinality(PositionsOf(s, a)) :
        \E i \in PositionsOf(s, a) : Ordinal(s, i) = k

(* c is a prefix of the agent's events in s. *)
Follows(s, c, a) ==
    /\ Len(c) <= Cardinality(PositionsOf(s, a))
    /\ \A i \in PositionsOf(s, a) :
          Ordinal(s, i) <= Len(c) => c[Ordinal(s, i)].trace = s[i]

Settled == {"idle", "commit", "retain", "closing"}

(* The live index knows the live events, and no other. *)
Finds == \A t \in Trace : byTrace[t] # 0 <=> \E i \in DOMAIN events : events[i] = t

(* The log holds every event once, and each chain is a prefix of it at      *)
(* every instant ...                                                        *)
LogInv ==
    /\ Distinct(log)
    /\ Ranked(log)
    /\ \A a \in Agent : Follows(log, chain[a], a)

(* ... memory is the part of the log that has been read or linked ...       *)
MemoryInv ==
    /\ Finds
    /\ pc = "down" => events = <<>> /\ cursor = 0
    /\ pc = "replay" =>
          /\ Len(events) = cursor
          /\ cursor <= Len(log)
          /\ \A i \in DOMAIN events : events[i] = log[i]
    /\ pc = "link" => log = Append(events, cur)
    /\ pc \in Settled \cup {"recover"} => events = log

(* ... and while the store is open the chains cover all of it. *)
CoverInv ==
    pc \in Settled \cup {"link"} =>
        \A a \in Agent : Len(chain[a]) = Cardinality(PositionsOf(events, a))

RecoveryInv ==
    /\ attached
    /\ suspect = {}
    /\ pc \notin {"archive", "reply"}
    /\ LogInv
    /\ MemoryInv
    /\ CoverInv

(* A new event at the end of the log is not in any chain's way. *)
LEMMA AppendKeepsLog ==
  ASSUME NEW s \in Seq(Trace), NEW t \in Trace, NEW r, Longer(r, s, t),
         \A i \in DOMAIN s : s[i] # t, Distinct(s), Ranked(s)
  PROVE  /\ Distinct(r)
         /\ Ranked(r)
         /\ \A a \in Agent : \A c \in Seq(Entry) : Follows(s, c, a) => Follows(r, c, a)
<1> DEFINE n == Len(s) + 1
           b == AgentOf[t]
<1>1. /\ r \in Seq(Trace)
      /\ DOMAIN r = DOMAIN s \cup {n}
      /\ n \notin DOMAIN s
      /\ r[n] = t
      /\ Ordinal(r, n) = Cardinality(PositionsOf(s, b)) + 1
      /\ PositionsOf(r, b) = PositionsOf(s, b) \cup {n}
      /\ Cardinality(PositionsOf(r, b)) = Cardinality(PositionsOf(s, b)) + 1
  BY AppendedShape, RankAppended
<1>2. \A i \in DOMAIN s : r[i] = s[i] /\ Ordinal(r, i) = Ordinal(s, i)
  BY RankKept
<1>3. ASSUME NEW a \in Agent, a # b
      PROVE  /\ PositionsOf(r, a) = PositionsOf(s, a)
             /\ Cardinality(PositionsOf(r, a)) = Cardinality(PositionsOf(s, a))
  BY <1>3, PositionsKept
<1> HIDE DEF n, b
<1>4. Distinct(r)
  BY <1>1, <1>2 DEF Distinct
<1>5. \A a \in Agent : Cardinality(PositionsOf(s, a)) \in Nat /\ PositionsOf(s, a) \subseteq DOMAIN s
  BY PositionsFinite DEF PositionsOf
<1>6. ASSUME NEW a \in Agent, NEW k \in 1 .. Cardinality(PositionsOf(r, a))
      PROVE  \E i \in PositionsOf(r, a) : Ordinal(r, i) = k
  <2>1. CASE k \in 1 .. Cardinality(PositionsOf(s, a))
    <3>1. PICK i \in PositionsOf(s, a) : Ordinal(s, i) = k
      BY <2>1 DEF Ranked
    <3>2. i \in PositionsOf(r, a)
      BY <1>1, <1>3, <3>1
    <3>3. QED  BY <1>2, <1>5, <3>1, <3>2
  <2>2. CASE k \notin 1 .. Cardinality(PositionsOf(s, a))
    <3>1. a = b
      BY <1>3, <1>6, <2>2
    <3>2. Cardinality(PositionsOf(r, a)) = Cardinality(PositionsOf(s, a)) + 1
      BY <1>1, <3>1, Zenon
    <3>3. k = Cardinality(PositionsOf(s, a)) + 1
      BY <1>5, <1>6, <2>2, <3>2
    <3>4. QED  BY <1>1, <3>1, <3>3
  <2>3. QED  BY <2>1, <2>2
<1>7. ASSUME NEW a \in Agent, NEW c \in Seq(Entry), Follows(s, c, a)
      PROVE  Follows(r, c, a)
  <2>1. Len(c) \in Nat /\ Len(c) <= Cardinality(PositionsOf(s, a))
    BY <1>7, LenProperties DEF Follows
  <2>2. Len(c) <= Cardinality(PositionsOf(r, a))
    <3>1. CASE a = b
      <4>1. Cardinality(PositionsOf(r, a)) = Cardinality(PositionsOf(s, a)) + 1
        BY <1>1, <3>1, Zenon
      <4>2. QED  BY <1>5, <2>1, <4>1
    <3>2. CASE a # b
      BY <1>3, <2>1, <3>2
    <3>3. QED  BY <3>1, <3>2
  <2>3. ASSUME NEW i \in PositionsOf(r, a), Ordinal(r, i) <= Len(c)
        PROVE  c[Ordinal(r, i)].trace = r[i]
    <3>1. CASE i \in PositionsOf(s, a)
      BY <1>2, <1>5, <1>7, <2>3, <3>1 DEF Follows
    <3>2. CASE i \notin PositionsOf(s, a)
      <4>1. a = b /\ i = n
        BY <1>1, <1>3, <3>2
      <4>2. QED  BY <1>1, <1>5, <2>1, <2>3, <4>1
    <3>3. QED  BY <3>1, <3>2
  <2>4. QED  BY <2>2, <2>3 DEF Follows
<1>8. QED  BY <1>4, <1>6, <1>7 DEF Ranked

(* The entry of the next event extends the prefix. *)
LEMMA PushFollows ==
  ASSUME NEW s \in Seq(Trace), NEW i \in DOMAIN s, NEW a, a = AgentOf[s[i]],
         NEW c \in Seq(Entry), Follows(s, c, a), Ordinal(s, i) = Len(c) + 1,
         NEW e \in Entry, e.trace = s[i], NEW d, d = Append(c, e)
  PROVE  Follows(s, d, a)
<1>1. /\ Len(c) \in Nat
      /\ Len(d) = Len(c) + 1
      /\ \A k \in 1 .. Len(c) : d[k] = c[k]
      /\ d[Len(c) + 1] = e
  BY LenProperties, AppendProperties
<1>2. Len(d) <= Cardinality(PositionsOf(s, a))
  BY <1>1, RankInRange
<1>3. ASSUME NEW j \in PositionsOf(s, a), Ordinal(s, j) <= Len(d)
      PROVE  d[Ordinal(s, j)].trace = s[j]
  <2>1. j \in DOMAIN s /\ AgentOf[s[j]] = a
    BY DEF PositionsOf
  <2>2. Ordinal(s, j) \in 1 .. Cardinality(PositionsOf(s, a))
    BY <2>1, RankInRange
  <2>3. CASE Ordinal(s, j) = Len(c) + 1
    <3>1. j = i
      BY <2>1, <2>3, RankUnique
    <3>2. QED  BY <1>1, <2>3, <3>1
  <2>4. CASE Ordinal(s, j) # Len(c) + 1
    <3>1. Ordinal(s, j) \in 1 .. Len(c) /\ Ordinal(s, j) <= Len(c)
      BY <1>1, <1>3, <2>2, <2>4
    <3>2. c[Ordinal(s, j)].trace = s[j]
      BY <3>1 DEF Follows
    <3>3. QED  BY <1>1, <3>1, <3>2
  <2>5. QED  BY <2>3, <2>4
<1>4. QED  BY <1>2, <1>3 DEF Follows

(* A prefix with no next event is all of it. *)
LEMMA NothingMissing ==
  ASSUME NEW s \in Seq(Trace), NEW a \in Agent, NEW c \in Seq(Entry),
         Ranked(s), Follows(s, c, a),
         \A i \in PositionsOf(s, a) : Ordinal(s, i) # Len(c) + 1
  PROVE  Len(c) = Cardinality(PositionsOf(s, a))
<1>1. Len(c) \in Nat /\ Cardinality(PositionsOf(s, a)) \in Nat
  BY LenProperties, PositionsFinite
<1>2. Len(c) <= Cardinality(PositionsOf(s, a))
  BY DEF Follows
<1>3. Len(c) + 1 \notin 1 .. Cardinality(PositionsOf(s, a))
  BY DEF Ranked
<1>4. QED  BY <1>1, <1>2, <1>3

(* A prefix of distinct events has one entry for each. *)
LEMMA OneEntryEach ==
  ASSUME NEW s \in Seq(Trace), NEW a \in Agent, NEW c \in Seq(Entry),
         Distinct(s), Ranked(s), Follows(s, c, a),
         NEW i \in DOMAIN c, NEW j \in DOMAIN c, c[i].trace = c[j].trace
  PROVE  i = j
<1>1. /\ DOMAIN c = 1 .. Len(c)
      /\ Len(c) \in Nat
      /\ Cardinality(PositionsOf(s, a)) \in Nat
      /\ Len(c) <= Cardinality(PositionsOf(s, a))
  BY LenProperties, PositionsFinite DEF Follows
<1>2. i \in 1 .. Cardinality(PositionsOf(s, a)) /\ j \in 1 .. Cardinality(PositionsOf(s, a))
      /\ i <= Len(c) /\ j <= Len(c)
  BY <1>1
<1>3. PICK p \in PositionsOf(s, a) : Ordinal(s, p) = i
  BY <1>2 DEF Ranked
<1>4. PICK q \in PositionsOf(s, a) : Ordinal(s, q) = j
  BY <1>2 DEF Ranked
<1>5. c[i].trace = s[p] /\ c[j].trace = s[q]
  BY <1>2, <1>3, <1>4 DEF Follows
<1>6. p \in DOMAIN s /\ q \in DOMAIN s
  BY DEF PositionsOf
<1>7. p = q
  BY <1>5, <1>6 DEF Distinct
<1>8. QED  BY <1>3, <1>4, <1>7

(* In a complete chain an event's seq is its rank. *)
LEMMA LatestIsRank ==
  ASSUME NEW s \in Seq(Trace), NEW i \in DOMAIN s, NEW a \in Agent, a = AgentOf[s[i]],
         NEW c \in Seq(Entry), Distinct(s), Ranked(s), Follows(s, c, a),
         Len(c) = Cardinality(PositionsOf(s, a))
  PROVE  Holds(c, s[i]) /\ Latest(c, s[i]) = Ordinal(s, i)
<1>1. Ordinal(s, i) \in DOMAIN c /\ Ordinal(s, i) <= Len(c)
  BY RankInRange, LenProperties
<1>2. i \in PositionsOf(s, a)
  BY DEF PositionsOf
<1>3. c[Ordinal(s, i)].trace = s[i]
  BY <1>1, <1>2 DEF Follows
<1>4. \A j \in DOMAIN c : c[j].trace = s[i] => j <= Ordinal(s, i)
  <2>1. \A j \in DOMAIN c : c[j].trace = s[i] => j = Ordinal(s, i)
    BY <1>1, <1>3, OneEntryEach
  <2>2. Ordinal(s, i) \in Int
    BY <1>1, LenProperties
  <2>3. QED  BY <2>1, <2>2
<1>5. Latest(c, s[i]) = Ordinal(s, i)
  BY <1>1, <1>3, <1>4, LatestIs
<1>6. QED  BY <1>1, <1>3, <1>5 DEF Holds
LEMMA IndexFinds ==
  ASSUME TypeInv, Finds, NEW t \in Trace, NEW at \in Nat, Index(t, at)
  PROVE  /\ Finds'
         /\ DOMAIN events' = DOMAIN events \cup {Len(events) + 1}
         /\ \A i \in DOMAIN events : events'[i] = events[i]
         /\ events'[Len(events) + 1] = t
         /\ Len(events') = Len(events) + 1
<1> DEFINE n == Len(events) + 1
<1>1. Known
  <2>1. \A i \in DOMAIN events : events[i] \in Trace
    BY ElementOfSeq, LenProperties DEF TypeInv, TypeOK
  <2>2. QED  BY <2>1 DEF Finds, Known
<1>2. /\ DOMAIN events' = DOMAIN events \cup {n}
      /\ \A i \in DOMAIN events : events'[i] = events[i]
      /\ events'[n] = t
  BY <1>1, IndexKnown
<1>3. Len(events') = n /\ n # 0
  BY LenProperties, AppendProperties DEF Index, TypeInv, TypeOK
<1>4. byTrace'[t] = n /\ \A u \in Trace : u # t => byTrace'[u] = byTrace[u]
  BY DEF Index, TypeInv, TypeOK
<1> HIDE DEF n
<1>5. ASSUME NEW u \in Trace
      PROVE  byTrace'[u] # 0 <=> \E i \in DOMAIN events' : events'[i] = u
  <2>1. CASE u = t
    BY <1>2, <1>3, <1>4, <2>1
  <2>2. CASE u # t
    BY <1>2, <1>4, <2>2 DEF Finds
  <2>3. QED  BY <2>1, <2>2
<1>6. QED  BY <1>2, <1>3, <1>5 DEF Finds, n

(* A step of an open store that leaves log, chains and live events alone.   *)
LEMMA SettledKeeps ==
  ASSUME RecoveryInv, pc \in Settled, pc' \in Settled,
         UNCHANGED <<log, chain, events, byTrace, attached, suspect>>
  PROVE  RecoveryInv'
BY DEF RecoveryInv, LogInv, MemoryInv, Finds, CoverInv, Settled, Follows

LEMMA BlankRecovery ==
  ASSUME RecoveryInv, EmptyMemory, pc' = "down", UNCHANGED <<log, chain>>
  PROVE  RecoveryInv'
<1>1. /\ events' = <<>> /\ DOMAIN events' = {} /\ cursor' = 0
      /\ attached' /\ suspect' = {}
      /\ \A t \in Trace : byTrace'[t] = 0
  BY DEF EmptyMemory
<1>2. MemoryInv'
  BY <1>1 DEF MemoryInv, Finds, Settled
<1>3. QED  BY <1>1, <1>2 DEF RecoveryInv, LogInv, CoverInv, Settled, Follows

(* The chains after an entry was pushed for the i-th line of the log. *)
LEMMA PushKeepsLog ==
  ASSUME TypeInv, LogInv, log' = log, NEW i \in DOMAIN log, NEW e \in Entry,
         e.trace = log[i], Ordinal(log, i) = Len(chain[AgentOf[log[i]]]) + 1,
         chain' = [chain EXCEPT ![AgentOf[log[i]]] = Append(@, e)]
  PROVE  LogInv'
<1> DEFINE a == AgentOf[log[i]]
<1>1. /\ log \in Seq(Trace) /\ a \in Agent /\ chain[a] \in Seq(Entry)
      /\ chain'[a] = Append(chain[a], e)
      /\ \A b \in Agent : b # a => chain'[b] = chain[b]
  <2>1. log \in Seq(Trace) /\ log[i] \in Trace
    BY ElementOfSeq, LenProperties DEF TypeInv, TypeOK
  <2>2. a \in Agent
    BY <2>1, ParameterAssumption
  <2>3. QED  BY <2>1, <2>2 DEF TypeInv, TypeOK
<1>2. Follows(log, chain[a], a)
  BY <1>1 DEF LogInv
<1>3. Follows(log, chain'[a], a)
  BY <1>1, <1>2, PushFollows
<1>4. ASSUME NEW b \in Agent PROVE Follows(log, chain'[b], b)
  <2>1. CASE b = a
    BY <1>3, <2>1
  <2>2. CASE b # a
    BY <1>1, <2>2 DEF LogInv
  <2>3. QED  BY <2>1, <2>2
<1>5. QED  BY <1>4 DEF LogInv

LEMMA ReplayKeeps == TypeInv /\ RecoveryInv /\ Replay => RecoveryInv'
<1> SUFFICES ASSUME TypeInv, RecoveryInv, Replay PROVE RecoveryInv'
  OBVIOUS
<1> DEFINE n == cursor + 1
<1>1. /\ Len(events) = cursor
      /\ cursor < Len(log)
      /\ \A i \in DOMAIN events : events[i] = log[i]
      /\ pc = "replay" /\ pc' = "replay"
      /\ cursor' = n
  BY DEF Replay, RecoveryInv, MemoryInv
<1>2. /\ n \in DOMAIN log /\ n \in Nat /\ n <= Len(log)
      /\ log[n] \in Trace /\ Sent[log[n]] \in Nat
      /\ DOMAIN events = 1 .. cursor /\ DOMAIN events \subseteq DOMAIN log
      /\ n \notin DOMAIN events
  <2>1. /\ DOMAIN log = 1 .. Len(log) /\ Len(log) \in Nat /\ cursor \in Nat
        /\ DOMAIN events = 1 .. cursor
    BY <1>1, LenProperties DEF TypeInv, TypeOK
  <2>2. n \in DOMAIN log /\ n \in Nat /\ n <= Len(log)
    BY <1>1, <2>1
  <2>3. log[n] \in Trace
    BY <2>2, ElementOfSeq, LenProperties DEF TypeInv, TypeOK
  <2>4. QED  BY <1>1, <2>1, <2>2, <2>3, ParameterAssumption
<1>3. byTrace[log[n]] = 0
  <2>1. \A i \in DOMAIN events : events[i] # log[n]
    BY <1>1, <1>2 DEF RecoveryInv, LogInv, Distinct
  <2>2. QED  BY <1>2, <2>1 DEF RecoveryInv, MemoryInv, Finds
<1>4. Index(log[n], Sent[log[n]])
  BY <1>3 DEF Replay
<1>5. /\ Finds'
      /\ DOMAIN events' = DOMAIN events \cup {Len(events) + 1}
      /\ \A i \in DOMAIN events : events'[i] = events[i]
      /\ events'[Len(events) + 1] = log[n]
      /\ Len(events') = Len(events) + 1
  BY <1>2, <1>4, IndexFinds DEF RecoveryInv, MemoryInv, Finds
<1>6. log' = log /\ chain' = chain /\ attached' = attached /\ suspect' = suspect
  BY DEF Replay, durable
<1>7. \A i \in DOMAIN events' : events'[i] = log'[i]
  BY <1>1, <1>5, <1>6
<1>8. MemoryInv'
  BY <1>1, <1>2, <1>5, <1>6, <1>7 DEF MemoryInv, Finds, Settled
<1>9. QED  BY <1>1, <1>6, <1>8 DEF RecoveryInv, LogInv, CoverInv, Settled, Follows

LEMMA CompareKeeps == TypeInv /\ RecoveryInv /\ Compare => RecoveryInv'
<1> SUFFICES ASSUME TypeInv, RecoveryInv, Compare PROVE RecoveryInv'
  OBVIOUS
<1>1. events = log
  <2>1. Len(events) = Len(log) /\ \A i \in DOMAIN events : events[i] = log[i]
    BY DEF Compare, RecoveryInv, MemoryInv
  <2>2. events \in Seq(Trace) /\ log \in Seq(Trace) /\ DOMAIN events = 1 .. Len(events)
    BY LenProperties DEF TypeInv, TypeOK
  <2>3. QED  BY <2>1, <2>2, SeqEqual
<1>2. \A a \in Agent : Aligned(a)
  BY <1>1 DEF Aligned, RecoveryInv, LogInv, Follows
<1>3. suspect' = {}
  BY <1>2 DEF Compare
<1>4. UNCHANGED <<log, chain, events, byTrace, attached>> /\ pc' = "recover" /\ pc = "replay"
  BY DEF Compare, durable, indices
<1>5. MemoryInv'
  BY <1>1, <1>4 DEF RecoveryInv, MemoryInv, Finds, Settled
<1>6. QED  BY <1>3, <1>4, <1>5 DEF RecoveryInv, LogInv, CoverInv, Settled, Follows

LEMMA RecoverKeeps == TypeInv /\ RecoveryInv /\ Recover => RecoveryInv'
<1> SUFFICES ASSUME TypeInv, RecoveryInv, Recover PROVE RecoveryInv'
  OBVIOUS
<1>1. /\ events = log /\ pc = "recover" /\ pc' = "recover"
      /\ UNCHANGED <<log, events, byTrace, attached, suspect>>
  BY DEF Recover, RecoveryInv, MemoryInv, memory, indices, control
<1>2. PICK i \in DOMAIN log :
        /\ Ordinal(log, i) = Len(chain[AgentOf[log[i]]]) + 1
        /\ chain' = [chain EXCEPT ![AgentOf[log[i]]] =
              Append(@, [trace |-> log[i], at |-> observed, recovered |-> TRUE])]
  BY <1>1 DEF Recover, NextMissing
<1>3. [trace |-> log[i], at |-> observed, recovered |-> TRUE] \in Entry
  <2>1. log[i] \in Trace
    BY ElementOfSeq, LenProperties DEF TypeInv, TypeOK
  <2>2. QED  BY <2>1 DEF Entry, TypeInv, TypeOK
<1>4. LogInv'
  BY <1>1, <1>2, <1>3, PushKeepsLog DEF RecoveryInv
<1>5. MemoryInv'
  BY <1>1 DEF RecoveryInv, MemoryInv, Finds, Settled
<1>6. QED  BY <1>1, <1>4, <1>5 DEF RecoveryInv, CoverInv, Settled

LEMMA OpenedKeeps == TypeInv /\ RecoveryInv /\ Opened => RecoveryInv'
<1> SUFFICES ASSUME TypeInv, RecoveryInv, Opened PROVE RecoveryInv'
  OBVIOUS
<1>1. /\ events = log /\ pc = "recover" /\ pc' = "idle" /\ suspect = {}
      /\ UNCHANGED <<log, chain, events, byTrace, attached, suspect>>
      /\ \A i \in DOMAIN log : Ordinal(log, i) # Len(chain[AgentOf[log[i]]]) + 1
  BY DEF Opened, RecoveryInv, MemoryInv, durable, indices, NextMissing
<1>2. ASSUME NEW a \in Agent PROVE Len(chain[a]) = Cardinality(PositionsOf(log, a))
  <2>1. log \in Seq(Trace) /\ chain[a] \in Seq(Entry)
    BY DEF TypeInv, TypeOK
  <2>2. Ranked(log) /\ Follows(log, chain[a], a)
    BY DEF RecoveryInv, LogInv
  <2>3. \A i \in PositionsOf(log, a) : Ordinal(log, i) # Len(chain[a]) + 1
    BY <1>1 DEF PositionsOf
  <2>4. QED  BY <2>1, <2>2, <2>3, NothingMissing
<1>3. CoverInv'
  BY <1>1, <1>2 DEF CoverInv
<1>4. MemoryInv'
  BY <1>1 DEF RecoveryInv, MemoryInv, Finds, Settled
<1>5. QED  BY <1>1, <1>3, <1>4 DEF RecoveryInv, LogInv, Follows

LEMMA PostKeeps ==
  ASSUME TypeInv, RecoveryInv, NEW t \in Trace, PostNew(t)
  PROVE  RecoveryInv'
<1>1. /\ events = log /\ pc = "idle" /\ pc' = "link" /\ cur' = t
      /\ log' = Append(log, t)
      /\ UNCHANGED <<chain, events, byTrace, attached, suspect>>
  BY DEF PostNew, RecoveryInv, MemoryInv, Settled, memory, indices
<1>2. \A i \in DOMAIN log : log[i] # t
  BY <1>1 DEF PostNew, RecoveryInv, MemoryInv, Finds
<1>3. Longer(log', log, t)
  BY <1>1 DEF Longer
<1>4. /\ Distinct(log') /\ Ranked(log')
      /\ \A a \in Agent : \A c \in Seq(Entry) : Follows(log, c, a) => Follows(log', c, a)
  BY <1>2, <1>3, AppendKeepsLog DEF RecoveryInv, LogInv, TypeInv, TypeOK
<1>5. \A a \in Agent : Follows(log', chain[a], a)
  BY <1>4 DEF RecoveryInv, LogInv, TypeInv, TypeOK
<1>6. LogInv'
  BY <1>1, <1>4, <1>5 DEF LogInv
<1>7. MemoryInv'
  BY <1>1 DEF RecoveryInv, MemoryInv, Finds, Settled
<1>8. CoverInv'
  BY <1>1 DEF RecoveryInv, CoverInv, Settled
<1>9. QED  BY <1>1, <1>6, <1>7, <1>8 DEF RecoveryInv

LEMMA LinkCovers == TypeInv /\ RecoveryInv /\ Link => RecoveryInv'
<1> SUFFICES ASSUME TypeInv, RecoveryInv, Link PROVE RecoveryInv'
  OBVIOUS
<1> DEFINE e == [trace |-> cur, at |-> clock, recovered |-> FALSE]
           n == Len(events) + 1
           b == AgentOf[cur]
<1>1. cur \in Trace /\ b \in Agent /\ e \in Entry /\ e.trace = cur /\ clock \in Nat
      /\ events \in Seq(Trace)
  BY ParameterAssumption DEF Link, TypeInv, TypeOK, InFlight, Entry
<1>2. Longer(log, events, cur)
  BY DEF Link, RecoveryInv, MemoryInv, Longer
<1>3. /\ DOMAIN log = DOMAIN events \cup {n} /\ log[n] = cur
      /\ Ordinal(log, n) = Cardinality(PositionsOf(events, b)) + 1
      /\ Cardinality(PositionsOf(log, b)) = Cardinality(PositionsOf(events, b)) + 1
  BY <1>1, <1>2, AppendedShape, RankAppended
<1>4. ASSUME NEW a \in Agent, a # b
      PROVE  Cardinality(PositionsOf(log, a)) = Cardinality(PositionsOf(events, a))
  BY <1>1, <1>2, <1>4, PositionsKept
<1>5. \A a \in Agent : Len(chain[a]) = Cardinality(PositionsOf(events, a))
  BY DEF Link, RecoveryInv, CoverInv
<1>6. /\ events' = log /\ pc' = "commit"
      /\ UNCHANGED <<log, attached, suspect>>
      /\ chain' = [chain EXCEPT ![b] = Append(@, e)]
  BY DEF Link, Index, RecoveryInv, MemoryInv
<1>7. /\ n \in DOMAIN log /\ AgentOf[log[n]] = b
      /\ Ordinal(log, n) = Len(chain[b]) + 1
  BY <1>1, <1>3, <1>5
<1>8. /\ LogInv'
      /\ Len(chain'[b]) = Len(chain[b]) + 1
      /\ \A a \in Agent : a # b => chain'[a] = chain[a]
  <2>1. LogInv /\ chain \in [Agent -> Seq(Entry)]
    BY DEF RecoveryInv, TypeInv, TypeOK
  <2> HIDE DEF e, n
  <2>2. e.trace = log[n] /\ chain' = [chain EXCEPT ![AgentOf[log[n]]] = Append(@, e)]
    BY <1>1, <1>3, <1>6
  <2>3. LogInv'
    BY <1>1, <1>3, <1>6, <1>7, <2>1, <2>2, PushKeepsLog
  <2>4. Len(chain'[b]) = Len(chain[b]) + 1
    BY <1>1, <1>6, <2>1, AppendProperties
  <2>5. \A a \in Agent : a # b => chain'[a] = chain[a]
    BY <1>6, <2>1
  <2>6. QED  BY <2>3, <2>4, <2>5
<1>9. ASSUME NEW a \in Agent PROVE Len(chain'[a]) = Cardinality(PositionsOf(log, a))
  <2> HIDE DEF b
  <2>1. CASE a = b
    <3>1. Len(chain'[b]) = Cardinality(PositionsOf(log, b))
      BY <1>1, <1>3, <1>5, <1>8
    <3>2. QED  BY <2>1, <3>1, Zenon
  <2>2. CASE a # b
    BY <1>4, <1>5, <1>8, <2>2
  <2>3. QED  BY <2>1, <2>2
<1>10. CoverInv'
  BY <1>6, <1>9, Zenon DEF CoverInv
<1>11. Finds'
  BY <1>1, IndexFinds DEF Link, RecoveryInv, MemoryInv, Finds
<1>12. MemoryInv'
  BY <1>6, <1>11 DEF MemoryInv, Finds, Settled
<1>13. QED  BY <1>6, <1>8, <1>10, <1>12 DEF RecoveryInv
LEMMA RecoveryStep ==
  ASSUME Retention = None, "chain" \notin Faults
  PROVE  TypeInv /\ RecoveryInv /\ [Next]_vars => RecoveryInv'
<1> SUFFICES ASSUME TypeInv, RecoveryInv, [Next]_vars PROVE RecoveryInv'
  OBVIOUS
<1>1. CASE Tick \/ UNCHANGED vars
  <2>1. UNCHANGED <<log, chain, events, byTrace, attached, suspect, pc, cursor, cur>>
    BY <1>1 DEF Tick, vars, durable, memory, indices, control
  <2>2. QED  BY <2>1 DEF RecoveryInv, LogInv, MemoryInv, Finds, CoverInv, Settled, Follows
<1>2. CASE Crash
  BY <1>2, BlankRecovery DEF Crash, durable
<1>3. CASE Open
  <2>1. /\ UNCHANGED <<log, chain, events, byTrace, attached, suspect, cursor>>
        /\ pc = "down" /\ pc' = "replay"
    BY <1>3 DEF Open, durable, memory, indices
  <2>2. events = <<>> /\ cursor = 0 /\ Len(events) = 0 /\ DOMAIN events = {} /\ 0 <= Len(log)
    BY <2>1, LenProperties DEF RecoveryInv, MemoryInv, TypeInv, TypeOK
  <2>3. QED
    BY <2>1, <2>2 DEF RecoveryInv, LogInv, MemoryInv, Finds, CoverInv, Settled, Follows
<1>4. CASE Replay
  BY <1>4, ReplayKeeps
<1>5. CASE Compare
  BY <1>5, CompareKeeps
<1>6. CASE Recover
  BY <1>6, RecoverKeeps
<1>7. CASE Opened
  BY <1>7, OpenedKeeps
<1>8. ASSUME NEW t \in Trace, PostDuplicate(t) PROVE RecoveryInv'
  BY <1>8, SettledKeeps DEF PostDuplicate, durable, memory, indices, control, Settled
<1>9. ASSUME NEW t \in Trace, PostNew(t) PROVE RecoveryInv'
  BY <1>9, PostKeeps
<1>10. CASE Link
  BY <1>10, LinkCovers
<1>11. CASE MaybeCheckpoint
  BY <1>11, SettledKeeps DEF MaybeCheckpoint, indices, Settled
<1>12. CASE CheckpointFails \/ RetainAll
  BY <1>12, SettledKeeps
     DEF CheckpointFails, RetainAll, Return, durable, memory, indices, Settled
<1>13. CASE Shutdown
  BY <1>13, SettledKeeps DEF Shutdown, durable, memory, indices, Settled
<1>14. ASSUME NEW a \in Agent, CloseAgent(a) PROVE RecoveryInv'
  BY <1>14, SettledKeeps DEF CloseAgent, indices, control, Settled
<1>15. CASE Exit
  BY <1>15, BlankRecovery DEF Exit, durable
<1>16. CASE LinkFails
  BY <1>16 DEF LinkFails
<1>17. CASE Evict
  BY <1>17 DEF Evict, Overflows
<1>18. ASSUME ArchiveLine \/ ArchiveFails \/ Compact \/ CompactFails \/ ReopenFails \/ Reply
       PROVE  FALSE
  BY <1>18 DEF ArchiveLine, ArchiveFails, Compact, CompactFails, ReopenFails, Reply, RecoveryInv
<1>19. QED
  BY <1>1, <1>2, <1>3, <1>4, <1>5, <1>6, <1>7, <1>8, <1>9, <1>10, <1>11, <1>12, <1>13,
     <1>14, <1>15, <1>16, <1>17, <1>18 DEF Next

LEMMA RecoveryInvariant ==
  ASSUME Retention = None, "chain" \notin Faults
  PROVE  Spec => [](TypeInv /\ RecoveryInv)
<1>1. Init => TypeInv /\ RecoveryInv
  <2> SUFFICES ASSUME Init PROVE RecoveryInv
    BY InitType
  <2>1. /\ log = <<>> /\ events = <<>> /\ DOMAIN log = {} /\ Len(log) = 0
        /\ \A a \in Agent : chain[a] = <<>>
        /\ pc = "down" /\ cursor = 0 /\ attached /\ suspect = {}
        /\ \A t \in Trace : byTrace[t] = 0
    BY DEF Init
  <2>2. ASSUME NEW a PROVE PositionsOf(log, a) = {} /\ Cardinality(PositionsOf(log, a)) = 0
    <3>1. PositionsOf(log, a) = {}
      BY <2>1 DEF PositionsOf
    <3>2. Cardinality({}) = 0
      BY FS_EmptySet
    <3>3. QED  BY <3>1, <3>2, Zenon
  <2>3. LogInv
    <3>1. Distinct(log) /\ Ranked(log)
      BY <2>1, <2>2 DEF Distinct, Ranked
    <3>2. \A a \in Agent : Len(chain[a]) = 0
      BY <2>1
    <3>3. \A a \in Agent : Follows(log, chain[a], a)
      BY <2>2, <3>2 DEF Follows
    <3>4. QED  BY <3>1, <3>3 DEF LogInv
  <2>4. MemoryInv
    BY <2>1 DEF MemoryInv, Finds, Settled
  <2>5. CoverInv
    BY <2>1 DEF CoverInv, Settled
  <2>6. QED  BY <2>1, <2>3, <2>4, <2>5 DEF RecoveryInv
<1>2. (TypeInv /\ RecoveryInv) /\ [Next]_vars => (TypeInv /\ RecoveryInv)'
  BY TypeStep, RecoveryStep
<1>3. QED  BY <1>1, <1>2, PTL DEF Spec

(* What an open store knows of each live event's entry. *)
LEMMA SeqIsRank ==
  ASSUME TypeInv, RecoveryInv, pc = "idle", NEW i \in DOMAIN events
  PROVE  Linked(events[i]) /\ SeqOf(events[i]) = Ordinal(events, i)
<1> DEFINE a == AgentOf[events[i]]
<1>1. events = log /\ \A b \in Agent : Len(chain[b]) = Cardinality(PositionsOf(events, b))
  BY DEF RecoveryInv, MemoryInv, CoverInv, Settled
<1>2. /\ events \in Seq(Trace) /\ a \in Agent /\ chain[a] \in Seq(Entry)
  <2>1. events[i] \in Trace
    BY ElementOfSeq, LenProperties DEF TypeInv, TypeOK
  <2>2. QED  BY <2>1, ParameterAssumption DEF TypeInv, TypeOK
<1>3. Distinct(events) /\ Ranked(events) /\ Follows(events, chain[a], a)
  BY <1>1, <1>2 DEF RecoveryInv, LogInv
<1>4. Len(chain[a]) = Cardinality(PositionsOf(events, a))
  BY <1>1, <1>2
<1>5. Holds(chain[a], events[i]) /\ Latest(chain[a], events[i]) = Ordinal(events, i)
  BY <1>2, <1>3, <1>4, LatestIsRank
<1>6. QED  BY <1>5, LatestIsSeqOf

(* Without a retention target, and while chain lines can be written,        *)
(* recovery leaves no live event outside its agent's chain                  *)
(* (recover_chain_tails).                                                   *)
THEOREM LiveEventsCovered ==
  ASSUME Retention = None, "chain" \notin Faults
  PROVE  Spec => []LiveEventsLinked
<1>1. TypeInv /\ RecoveryInv => LiveEventsLinked
  <2> SUFFICES ASSUME TypeInv, RecoveryInv, pc = "idle", NEW t \in Range(events)
               PROVE  Linked(t)
    BY DEF LiveEventsLinked
  <2>1. PICK i \in DOMAIN events : events[i] = t
    BY DEF Range
  <2>2. QED  BY <2>1, SeqIsRank
<1>2. QED  BY <1>1, RecoveryInvariant, PTL

(* An event is chained at most once, however often it is POSTed and         *)
(* wherever the process was killed (append, recover_chain_tails).           *)
THEOREM ChainedOnce ==
  ASSUME Retention = None, "chain" \notin Faults
  PROVE  Spec => []OneEntryPerEvent
<1>1. TypeInv /\ RecoveryInv => OneEntryPerEvent
  <2> SUFFICES ASSUME TypeInv, RecoveryInv, NEW a \in Agent,
                      NEW i \in DOMAIN chain[a], NEW j \in DOMAIN chain[a],
                      chain[a][i].trace = chain[a][j].trace
               PROVE  i = j
    BY DEF OneEntryPerEvent
  <2>1. log \in Seq(Trace) /\ chain[a] \in Seq(Entry)
    BY DEF TypeInv, TypeOK
  <2>2. Distinct(log) /\ Ranked(log) /\ Follows(log, chain[a], a)
    BY DEF RecoveryInv, LogInv
  <2>3. QED  BY <2>1, <2>2, OneEntryEach
<1>2. QED  BY <1>1, RecoveryInvariant, PTL

(* The chain orders an agent's live events as the log does (append,         *)
(* recover_chain_tails).                                                    *)
THEOREM ChainOrdersAsLog ==
  ASSUME Retention = None, "chain" \notin Faults
  PROVE  Spec => []ChainFollowsLog
<1>1. TypeInv /\ RecoveryInv => ChainFollowsLog
  <2> SUFFICES ASSUME TypeInv, RecoveryInv, pc = "idle",
                      NEW i \in DOMAIN events, NEW j \in DOMAIN events, i < j,
                      AgentOf[events[i]] = AgentOf[events[j]]
               PROVE  SeqOf(events[i]) < SeqOf(events[j])
    BY DEF ChainFollowsLog
  <2>1. SeqOf(events[i]) = Ordinal(events, i) /\ SeqOf(events[j]) = Ordinal(events, j)
    BY SeqIsRank
  <2>2. events \in Seq(Trace)
    BY DEF TypeInv, TypeOK
  <2>3. QED  BY <2>1, <2>2, RankGrows
<1>2. QED  BY <1>1, RecoveryInvariant, PTL

(* No sequence of crashes makes an untouched store report a chain that does *)
(* not align: a strict prefix is the only shape a crash can produce         *)
(* (recover_chain_tails).                                                   *)
THEOREM CrashLeavesPrefix ==
  ASSUME Retention = None, "chain" \notin Faults
  PROVE  Spec => []NoFalseAnomaly
<1>1. RecoveryInv => NoFalseAnomaly
  BY DEF RecoveryInv, NoFalseAnomaly
<1>2. QED  BY <1>1, RecoveryInvariant, PTL
=============================================================================
