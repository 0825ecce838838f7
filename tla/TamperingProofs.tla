--------------------------- MODULE TamperingProofs ---------------------------
(***************************************************************************)
(* What the chain and its checkpoints detect, for every number of agents,  *)
(* events, edits and restarts, from the two assumptions of Integrity: equal*)
(* hashes bind equal contents, and nobody signs without the key.           *)
(***************************************************************************)
EXTENDS Tampering, SequenceTheorems, TLAPS

-----------------------------------------------------------------------------
(* Sequences of anything: hashes nest, and so have no simple type.  *)

IsSeq(s) == \E S : s \in Seq(S)

LEMMA IsSeqFacts ==
  ASSUME NEW s, IsSeq(s)
  PROVE  Len(s) \in Nat /\ DOMAIN s = 1 .. Len(s)
<1>1. PICK S : s \in Seq(S)
  BY DEF IsSeq
<1>2. QED  BY <1>1, LenProperties

LEMMA IsSeqEmpty == IsSeq(<<>>) /\ Len(<<>>) = 0
<1>1. <<>> \in Seq({}) /\ Len(<<>>) = 0
  BY EmptySeq
<1>2. QED  BY <1>1 DEF IsSeq

LEMMA IsSeqNoLength ==
  ASSUME NEW s, IsSeq(s)
  PROVE  Len(s) = 0 <=> s = <<>>
<1>1. PICK S : s \in Seq(S)
  BY DEF IsSeq
<1>2. QED  BY <1>1, EmptySeq

LEMMA IsSeqAppend ==
  ASSUME NEW s, NEW x, IsSeq(s)
  PROVE  /\ IsSeq(Append(s, x))
         /\ Len(Append(s, x)) = Len(s) + 1
         /\ \A i \in 1 .. Len(s) : Append(s, x)[i] = s[i]
         /\ Append(s, x)[Len(s) + 1] = x
<1>1. PICK S : s \in Seq(S)
  BY DEF IsSeq
<1>2. s \in Seq(S \cup {x})
  BY <1>1, SeqMonotonic
<1>3. /\ Append(s, x) \in Seq(S \cup {x})
      /\ Len(Append(s, x)) = Len(s) + 1
      /\ \A i \in 1 .. Len(s) : Append(s, x)[i] = s[i]
      /\ Append(s, x)[Len(s) + 1] = x
  BY <1>2, AppendProperties
<1>4. QED  BY <1>3 DEF IsSeq

LEMMA IsSeqSub ==
  ASSUME NEW s, IsSeq(s), NEW m \in Int, NEW n \in Int, 1 <= m, n <= Len(s)
  PROVE  /\ IsSeq(SubSeq(s, m, n))
         /\ Len(SubSeq(s, m, n)) = IF m <= n THEN n - m + 1 ELSE 0
         /\ \A i \in 1 .. n - m + 1 : SubSeq(s, m, n)[i] = s[m + i - 1]
<1>1. PICK S : s \in Seq(S)
  BY DEF IsSeq
<1>2. Len(s) \in Nat
  BY IsSeqFacts
<1>3. \A i \in m .. n : s[i] \in S
  BY <1>1, <1>2, ElementOfSeq
<1>4. /\ SubSeq(s, m, n) \in Seq(S)
      /\ Len(SubSeq(s, m, n)) = IF m <= n THEN n - m + 1 ELSE 0
      /\ \A i \in 1 .. n - m + 1 : SubSeq(s, m, n)[i] = s[m + i - 1]
  BY <1>3, SubSeqProperties
<1>5. QED  BY <1>4 DEF IsSeq

LEMMA IsSeqExcept ==
  ASSUME NEW s, IsSeq(s), NEW i \in DOMAIN s, NEW x
  PROVE  /\ IsSeq([s EXCEPT ![i] = x])
         /\ Len([s EXCEPT ![i] = x]) = Len(s)
         /\ \A j \in DOMAIN s : [s EXCEPT ![i] = x][j] = IF j = i THEN x ELSE s[j]
<1>1. PICK S : s \in Seq(S)
  BY DEF IsSeq
<1>2. s \in Seq(S \cup {x}) /\ DOMAIN s = 1 .. Len(s)
  BY <1>1, SeqMonotonic, IsSeqFacts
<1>3. /\ [s EXCEPT ![i] = x] \in Seq(S \cup {x})
      /\ Len([s EXCEPT ![i] = x]) = Len(s)
      /\ \A j \in DOMAIN s : [s EXCEPT ![i] = x][j] = IF j = i THEN x ELSE s[j]
  BY <1>2, ExceptSeq
<1>4. QED  BY <1>3 DEF IsSeq

LEMMA IsSeqWithout ==
  ASSUME NEW s, IsSeq(s), NEW i \in DOMAIN s
  PROVE  /\ IsSeq(Without(s, i))
         /\ \A j \in DOMAIN Without(s, i) : \E k \in DOMAIN s : Without(s, i)[j] = s[k]
<1>1. PICK S : s \in Seq(S)
  BY DEF IsSeq
<1>2. Len(s) \in Nat /\ DOMAIN s = 1 .. Len(s) /\ i \in 1 .. Len(s)
  BY IsSeqFacts
<1> DEFINE T == {s[k] : k \in DOMAIN s}
<1>3. (\A k \in 1 .. i - 1 : s[k] \in T) /\ (\A k \in i + 1 .. Len(s) : s[k] \in T)
  BY <1>2
<1>4. SubSeq(s, 1, i - 1) \in Seq(T) /\ SubSeq(s, i + 1, Len(s)) \in Seq(T)
  <2>1. SubSeq(s, 1, i - 1) \in Seq(T)
    BY <1>2, <1>3, SubSeqProperties
  <2>2. SubSeq(s, i + 1, Len(s)) \in Seq(T)
    BY <1>2, <1>3, SubSeqProperties
  <2>3. QED  BY <2>1, <2>2
<1>5. Without(s, i) \in Seq(T)
  BY <1>4, ConcatProperties DEF Without
<1>6. \A j \in DOMAIN Without(s, i) : Without(s, i)[j] \in T
  BY <1>5, LenProperties, ElementOfSeq
<1>7. QED  BY <1>5, <1>6 DEF IsSeq

-----------------------------------------------------------------------------
(* The store's files and the history. *)

EventOf(a) == [trace_id : Trace, agent_id : {a}, content : Content]

ShapeInv ==
    /\ DOMAIN log = Agent /\ DOMAIN chain = Agent /\ DOMAIN recorded = Agent
    /\ \A a \in Agent : IsSeq(log[a]) /\ IsSeq(chain[a]) /\ IsSeq(recorded[a])
    /\ \A a \in Agent : \A i \in DOMAIN log[a] : log[a][i] \in EventOf(a)
    /\ edits \in Nat

(* Before the first edit the files are what was recorded. *)
UntouchedInv ==
    edits = 0 =>
        \A a \in Agent :
            /\ Len(log[a]) = Len(recorded[a])
            /\ Len(chain[a]) = Len(recorded[a])
            /\ \A i \in 1 .. Len(recorded[a]) :
                  log[a][i] = recorded[a][i].event /\ chain[a][i] = recorded[a][i].entry

RecordedPrev(a, i) == IF i = 1 THEN Genesis ELSE recorded[a][i - 1].entry.hash

(* Every entry of the record is linked to the one before it and bound to    *)
(* its event.                                                               *)
WellRecorded(a, i) ==
    LET event == recorded[a][i].event
        entry == recorded[a][i].entry
    IN  /\ event.agent_id = a
        /\ entry.agent_id = a
        /\ entry.seq = i
        /\ entry.trace_id = event.trace_id
        /\ entry.prev_hash = RecordedPrev(a, i)
        /\ entry.hash = ComputeHash(i, a, entry.trace_id, entry.recorded_at,
                                    RecordedPrev(a, i), event)

RecordedInv == \A a \in Agent : \A i \in 1 .. Len(recorded[a]) : WellRecorded(a, i)

(* A checkpoint commits to the head of a recorded prefix. *)
CommitsToRecord(c) ==
    /\ c.agent_id \in Agent
    /\ c.seq \in 1 .. Len(recorded[c.agent_id])
    /\ c.head_hash = recorded[c.agent_id][c.seq].entry.hash

IssuedInv == \A c \in issued : CommitsToRecord(c)

StoreInv == ShapeInv /\ UntouchedInv /\ RecordedInv /\ IssuedInv

LEMMA InitStore == Init => StoreInv
<1> SUFFICES ASSUME Init PROVE StoreInv
  OBVIOUS
<1>1. ShapeInv
  BY IsSeqEmpty, IsSeqFacts DEF Init, ShapeInv
<1>2. \A a \in Agent : recorded[a] = <<>> /\ log[a] = <<>> /\ chain[a] = <<>>
  BY DEF Init
<1>3. UntouchedInv
  BY <1>2, IsSeqEmpty DEF UntouchedInv
<1>4. RecordedInv
  BY <1>2, IsSeqEmpty DEF RecordedInv
<1>5. IssuedInv
  BY DEF Init, IssuedInv
<1>6. QED  BY <1>1, <1>3, <1>4, <1>5 DEF StoreInv

(* A step that leaves the files and the history alone. *)
LEMMA StoreUnchanged ==
  ASSUME StoreInv, UNCHANGED <<log, chain, recorded, issued, edits>>
  PROVE  StoreInv'
BY DEF StoreInv, ShapeInv, EventOf, UntouchedInv, RecordedInv, WellRecorded, RecordedPrev,
       IssuedInv, CommitsToRecord

LEMMA RecordStore ==
  ASSUME StoreInv, NEW t \in Trace, Record(t)
  PROVE  StoreInv'
<1> DEFINE a     == AgentOf[t]
           event == [trace_id |-> t, agent_id |-> a, content |-> "original"]
           entry == NextEntry(chain[a], event, clock, FALSE)
           n     == Len(recorded[a])
           both  == [event |-> event, entry |-> entry]
<1>1. a \in Agent
  BY TamperingAssumption
<1>2. /\ edits = 0 /\ edits' = edits /\ issued' = issued
      /\ log' = [log EXCEPT ![a] = Append(log[a], event)]
      /\ chain' = [chain EXCEPT ![a] = Append(chain[a], entry)]
      /\ recorded' = [recorded EXCEPT ![a] = Append(recorded[a], both)]
  BY DEF Record
<1>3. /\ IsSeq(log[a]) /\ IsSeq(chain[a]) /\ IsSeq(recorded[a])
      /\ n \in Nat /\ Len(log[a]) = n /\ Len(chain[a]) = n
      /\ DOMAIN log[a] = 1 .. n /\ DOMAIN chain[a] = 1 .. n /\ DOMAIN recorded[a] = 1 .. n
  BY <1>1, <1>2, IsSeqFacts DEF StoreInv, ShapeInv, UntouchedInv
<1> HIDE DEF event, entry, both
<1>4. /\ IsSeq(log'[a]) /\ Len(log'[a]) = n + 1 /\ DOMAIN log'[a] = 1 .. (n + 1)
      /\ log'[a][n + 1] = event /\ \A i \in 1 .. n : log'[a][i] = log[a][i]
  <2>1. log'[a] = Append(log[a], event)
    BY <1>1, <1>2 DEF StoreInv, ShapeInv
  <2>2. QED  BY <2>1, <1>3, IsSeqAppend, IsSeqFacts
<1>5. /\ IsSeq(chain'[a]) /\ Len(chain'[a]) = n + 1
      /\ chain'[a][n + 1] = entry /\ \A i \in 1 .. n : chain'[a][i] = chain[a][i]
  <2>1. chain'[a] = Append(chain[a], entry)
    BY <1>1, <1>2 DEF StoreInv, ShapeInv
  <2>2. QED  BY <2>1, <1>3, IsSeqAppend
<1>6. /\ IsSeq(recorded'[a]) /\ Len(recorded'[a]) = n + 1
      /\ recorded'[a][n + 1] = both /\ \A i \in 1 .. n : recorded'[a][i] = recorded[a][i]
  <2>1. recorded'[a] = Append(recorded[a], both)
    BY <1>1, <1>2 DEF StoreInv, ShapeInv
  <2>2. QED  BY <2>1, <1>3, IsSeqAppend
<1>7. \A b \in Agent : b # a => log'[b] = log[b] /\ chain'[b] = chain[b] /\ recorded'[b] = recorded[b]
  BY <1>2 DEF StoreInv, ShapeInv
<1>8. /\ event \in EventOf(a) /\ event.agent_id = a /\ event.trace_id = t
      /\ both.event = event /\ both.entry = entry
  BY DEF event, both, EventOf, Content
<1>9. \A i \in 1 .. (n + 1) : i \in 1 .. n \/ i = n + 1
  BY <1>3
<1>10. ShapeInv'
  <2>1. DOMAIN log' = Agent /\ DOMAIN chain' = Agent /\ DOMAIN recorded' = Agent
    BY <1>2 DEF StoreInv, ShapeInv
  <2>2. \A b \in Agent : IsSeq(log'[b]) /\ IsSeq(chain'[b]) /\ IsSeq(recorded'[b])
    BY <1>4, <1>5, <1>6, <1>7 DEF StoreInv, ShapeInv
  <2>3. \A i \in DOMAIN log'[a] : log'[a][i] \in EventOf(a)
    BY <1>1, <1>3, <1>4, <1>8, <1>9 DEF StoreInv, ShapeInv
  <2>4. \A b \in Agent : \A i \in DOMAIN log'[b] : log'[b][i] \in EventOf(b)
    BY <1>7, <2>3 DEF StoreInv, ShapeInv
  <2>5. edits' \in Nat
    BY <1>2
  <2>6. QED  BY <2>1, <2>2, <2>4, <2>5 DEF ShapeInv
<1>11. UntouchedInv'
  <2>1. ASSUME NEW b \in Agent
        PROVE  /\ Len(log'[b]) = Len(recorded'[b])
               /\ Len(chain'[b]) = Len(recorded'[b])
               /\ \A i \in 1 .. Len(recorded'[b]) :
                     log'[b][i] = recorded'[b][i].event /\ chain'[b][i] = recorded'[b][i].entry
    <3>1. CASE b = a
      <4>1. \A i \in 1 .. n : log[a][i] = recorded[a][i].event /\ chain[a][i] = recorded[a][i].entry
        BY <1>1, <1>2 DEF StoreInv, UntouchedInv
      <4>2. QED  BY <4>1, <3>1, <1>4, <1>5, <1>6, <1>8, <1>9
    <3>2. CASE b # a
      BY <3>2, <1>2, <1>7 DEF StoreInv, UntouchedInv
    <3>3. QED  BY <3>1, <3>2
  <2>2. QED  BY <2>1 DEF UntouchedInv
<1>12. RecordedInv'
  <2>1. ASSUME NEW b \in Agent, NEW i \in 1 .. Len(recorded'[b])
        PROVE  WellRecorded(b, i)'
    <3>1. CASE b # a
      BY <3>1, <1>7 DEF StoreInv, RecordedInv, WellRecorded, RecordedPrev
    <3>2. CASE b = a /\ i \in 1 .. n
      <4>1. WellRecorded(a, i)
        BY <1>1, <3>2 DEF StoreInv, RecordedInv
      <4>2. recorded'[a][i] = recorded[a][i] /\ (i # 1 => recorded'[a][i - 1] = recorded[a][i - 1])
        BY <3>2, <1>3, <1>6
      <4>3. QED  BY <3>2, <4>1, <4>2 DEF WellRecorded, RecordedPrev
    <3>3. CASE b = a /\ i = n + 1
      <4>1. n > 0 => /\ chain[a][n] = recorded[a][n].entry
                     /\ chain[a][n].seq = n
                     /\ recorded'[a][n] = recorded[a][n]
        <5>1. SUFFICES ASSUME n > 0
                       PROVE  /\ chain[a][n] = recorded[a][n].entry
                              /\ chain[a][n].seq = n
                              /\ recorded'[a][n] = recorded[a][n]
          OBVIOUS
        <5>2. n \in 1 .. n
          BY <5>1, <1>3
        <5>3. chain[a][n] = recorded[a][n].entry
          BY <5>2, <1>1, <1>2 DEF StoreInv, UntouchedInv
        <5>4. WellRecorded(a, n)
          BY <5>2, <1>1 DEF StoreInv, RecordedInv
        <5>5. QED  BY <5>2, <5>3, <5>4, <1>6 DEF WellRecorded
      <4>2. n = 0 <=> chain[a] = <<>>
        BY <1>3, IsSeqNoLength
      <4>3. /\ NextSeq(chain[a]) = i
            /\ HeadHash(chain[a]) = IF i = 1 THEN Genesis ELSE recorded'[a][i - 1].entry.hash
        <5>1. CASE n = 0
          BY <5>1, <4>2, <3>3 DEF NextSeq, HeadHash
        <5>2. CASE n > 0
          BY <5>2, <4>1, <4>2, <3>3, <1>3 DEF NextSeq, HeadHash
        <5>3. QED  BY <5>1, <5>2, <1>3
      <4>4. /\ entry.agent_id = a
            /\ entry.seq = NextSeq(chain[a])
            /\ entry.trace_id = event.trace_id
            /\ entry.prev_hash = HeadHash(chain[a])
            /\ entry.hash = ComputeHash(NextSeq(chain[a]), a, entry.trace_id,
                               entry.recorded_at, HeadHash(chain[a]), event)
        BY <1>8 DEF entry, NextEntry
      <4>5. recorded'[a][i].event = event /\ recorded'[a][i].entry = entry
        BY <3>3, <1>6, <1>8
      <4>6. QED  BY <3>3, <4>3, <4>4, <4>5, <1>8 DEF WellRecorded, RecordedPrev
    <3>4. QED  BY <3>1, <3>2, <3>3, <1>6, <1>9
  <2>2. QED  BY <2>1 DEF RecordedInv
<1>13. IssuedInv'
  <2>1. ASSUME NEW c \in issued'
        PROVE  CommitsToRecord(c)'
    <3>1. CommitsToRecord(c)
      BY <1>2 DEF StoreInv, IssuedInv
    <3>2. CASE c.agent_id # a
      BY <3>1, <3>2, <1>7 DEF CommitsToRecord
    <3>3. CASE c.agent_id = a
      BY <3>1, <3>3, <1>3, <1>6 DEF CommitsToRecord
    <3>4. QED  BY <3>2, <3>3
  <2>2. QED  BY <2>1 DEF IssuedInv
<1>14. QED  BY <1>10, <1>11, <1>12, <1>13 DEF StoreInv

LEMMA RecordKeptInv ==
  ASSUME RecordedInv, IssuedInv, UNCHANGED <<recorded, issued>>
  PROVE  RecordedInv' /\ IssuedInv'
<1>1. \A a \in Agent : \A i \in 1 .. Len(recorded[a]) : WellRecorded(a, i)'
  BY DEF RecordedInv, WellRecorded, RecordedPrev
<1>2. \A c \in issued : CommitsToRecord(c)'
  BY DEF IssuedInv, CommitsToRecord
<1>3. QED  BY <1>1, <1>2 DEF RecordedInv, IssuedInv

LEMMA RecoverStore ==
  ASSUME StoreInv, NEW a \in Agent, Recover(a)
  PROVE  StoreInv'
<1>1. /\ chain' = [chain EXCEPT ![a] = Append(chain[a], NextEntry(chain[a], log[a][Len(chain[a]) + 1], clock, TRUE))]
      /\ UNCHANGED <<log, recorded, issued, edits>>
      /\ Len(chain[a]) < Len(log[a])
  BY DEF Recover, TailMissing, history
<1>2. edits # 0
  BY <1>1, IsSeqFacts DEF StoreInv, ShapeInv, UntouchedInv
<1>3. DOMAIN chain' = Agent /\ \A b \in Agent : IsSeq(chain'[b])
  BY <1>1, IsSeqAppend DEF StoreInv, ShapeInv
<1>4. ShapeInv'
  BY <1>1, <1>3 DEF StoreInv, ShapeInv, EventOf
<1>4a. UntouchedInv'
  BY <1>1, <1>2 DEF UntouchedInv
<1>5. RecordedInv'
  BY <1>1, RecordKeptInv DEF StoreInv
<1>6. IssuedInv'
  BY <1>1, RecordKeptInv DEF StoreInv
<1>7. QED  BY <1>4, <1>4a, <1>5, <1>6 DEF StoreInv

LEMMA CommitStore ==
  ASSUME StoreInv, NEW a \in Agent, Commit(a)
  PROVE  StoreInv'
<1> DEFINE n == Len(chain[a])
           c == CheckpointOver(a, chain[a][n], clock, signer)
<1>1. /\ UNCHANGED <<log, chain, recorded, edits>>
      /\ edits = 0 /\ chain[a] # <<>> /\ issued' = issued \cup {c}
  BY DEF Commit
<1>2. IsSeq(chain[a]) /\ Len(recorded[a]) = n
  BY <1>1 DEF StoreInv, ShapeInv, UntouchedInv
<1>3. n \in 1 .. Len(recorded[a])
  BY <1>1, <1>2, IsSeqFacts, IsSeqNoLength
<1>4. chain[a][n] = recorded[a][n].entry /\ WellRecorded(a, n)
  BY <1>1, <1>3 DEF StoreInv, UntouchedInv, RecordedInv
<1>5. c.agent_id = a /\ c.seq = chain[a][n].seq /\ c.head_hash = chain[a][n].hash
  BY DEF CheckpointOver
<1>6. CommitsToRecord(c)
  BY <1>3, <1>4, <1>5 DEF CommitsToRecord, WellRecorded
<1> HIDE DEF c
<1>7. \A d \in issued' : CommitsToRecord(d)
  BY <1>1, <1>6 DEF StoreInv, IssuedInv
<1>8. IssuedInv'
  BY <1>1, <1>7 DEF IssuedInv, CommitsToRecord
<1>9. ShapeInv' /\ UntouchedInv'
  BY <1>1 DEF StoreInv, ShapeInv, EventOf, UntouchedInv
<1>10. RecordedInv'
  BY <1>1 DEF StoreInv, RecordedInv, WellRecorded, RecordedPrev
<1>11. QED  BY <1>8, <1>9, <1>10 DEF StoreInv

LEMMA EditStore ==
  ASSUME StoreInv, Edit,
         DOMAIN log' = Agent, DOMAIN chain' = Agent,
         \A a \in Agent : /\ IsSeq(log'[a]) /\ IsSeq(chain'[a])
                         /\ \A i \in DOMAIN log'[a] : log'[a][i] \in EventOf(a)
  PROVE  StoreInv'
<1>1. UNCHANGED <<recorded, issued>> /\ edits \in Nat /\ edits' = edits + 1
  BY DEF Edit, history, StoreInv, ShapeInv
<1>2. edits' \in Nat /\ edits' # 0
  BY <1>1
<1>3. QED
  BY <1>1, <1>2 DEF StoreInv, ShapeInv, EventOf, UntouchedInv, RecordedInv, WellRecorded,
       RecordedPrev, IssuedInv, CommitsToRecord

LEMMA EditStepStore ==
  ASSUME StoreInv, EditStep
  PROVE  StoreInv'
<1>0. /\ DOMAIN log = Agent /\ DOMAIN chain = Agent
      /\ \A a \in Agent : IsSeq(log[a]) /\ IsSeq(chain[a])
      /\ \A a \in Agent : \A i \in DOMAIN log[a] : log[a][i] \in EventOf(a)
  BY DEF StoreInv, ShapeInv
(* One agent's log is replaced. *)
<1>1. ASSUME NEW a \in Agent, NEW s, log' = [log EXCEPT ![a] = s], IsSeq(s),
             \A i \in DOMAIN s : s[i] \in EventOf(a)
      PROVE  /\ DOMAIN log' = Agent
             /\ \A b \in Agent : IsSeq(log'[b]) /\ \A i \in DOMAIN log'[b] : log'[b][i] \in EventOf(b)
  BY <1>0, <1>1
(* One agent's chain is replaced. *)
<1>2. ASSUME NEW a \in Agent, NEW s, chain' = [chain EXCEPT ![a] = s], IsSeq(s)
      PROVE  DOMAIN chain' = Agent /\ \A b \in Agent : IsSeq(chain'[b])
  BY <1>0, <1>2
<1>3. ASSUME NEW a \in Agent, NEW i \in DOMAIN log[a]
      PROVE  IsSeq(Without(log[a], i)) /\ \A j \in DOMAIN Without(log[a], i) : Without(log[a], i)[j] \in EventOf(a)
  BY <1>0, <1>3, IsSeqWithout
<1>4. ASSUME NEW a \in Agent, EditEvent(a) PROVE StoreInv'
  <2>1. PICK i \in DOMAIN log[a] : log' = [log EXCEPT ![a][i].content = "changed"]
    BY <1>4 DEF EditEvent
  <2> DEFINE e == [log[a][i] EXCEPT !.content = "changed"]
             s == [log[a] EXCEPT ![i] = e]
  <2>2. log' = [log EXCEPT ![a] = s]
    BY <2>1
  <2>3. e \in EventOf(a)
    BY <1>0 DEF EventOf, Content
  <2> HIDE DEF e
  <2>4. IsSeq(s) /\ \A j \in DOMAIN s : s[j] \in EventOf(a)
    BY <1>0, <2>3, IsSeqExcept
  <2> HIDE DEF s
  <2>5. DOMAIN log' = Agent /\ \A b \in Agent : IsSeq(log'[b]) /\ \A j \in DOMAIN log'[b] : log'[b][j] \in EventOf(b)
    BY <1>1, <2>2, <2>4
  <2>6. chain' = chain /\ Edit
    BY <1>4 DEF EditEvent
  <2>7. QED  BY <1>0, <2>5, <2>6, EditStore
<1>5. ASSUME NEW a \in Agent, RemoveEvent(a) PROVE StoreInv'
  <2>1. PICK i \in DOMAIN log[a] : log' = [log EXCEPT ![a] = Without(log[a], i)]
    BY <1>5 DEF RemoveEvent
  <2>2. chain' = chain /\ Edit
    BY <1>5 DEF RemoveEvent
  <2>3. QED  BY <1>0, <1>1, <1>3, <2>1, <2>2, EditStore
<1>6. ASSUME NEW a \in Agent, RemoveEntry(a) PROVE StoreInv'
  <2>1. PICK i \in DOMAIN chain[a] : chain' = [chain EXCEPT ![a] = Without(chain[a], i)]
    BY <1>6 DEF RemoveEntry
  <2>2. log' = log /\ Edit
    BY <1>6 DEF RemoveEntry
  <2>3. IsSeq(Without(chain[a], i))
    BY <1>0, IsSeqWithout
  <2>4. QED  BY <1>0, <1>2, <2>1, <2>2, <2>3, EditStore
<1>7. ASSUME NEW a \in Agent, RemovePair(a) PROVE StoreInv'
  <2>1. PICK i \in DOMAIN log[a] \cap DOMAIN chain[a] :
            /\ log' = [log EXCEPT ![a] = Without(log[a], i)]
            /\ chain' = [chain EXCEPT ![a] = Without(chain[a], i)]
    BY <1>7 DEF RemovePair
  <2>2. Edit
    BY <1>7 DEF RemovePair
  <2>3. IsSeq(Without(chain[a], i))
    BY <1>0, IsSeqWithout
  <2>4. DOMAIN chain' = Agent /\ \A b \in Agent : IsSeq(chain'[b])
    BY <1>2, <2>1, <2>3
  <2>5. DOMAIN log' = Agent /\ \A b \in Agent : IsSeq(log'[b]) /\ \A j \in DOMAIN log'[b] : log'[b][j] \in EventOf(b)
    BY <1>1, <1>3, <2>1
  <2>6. QED  BY <2>2, <2>4, <2>5, EditStore
<1>8. ASSUME NEW a \in Agent, Truncate(a) PROVE StoreInv'
  <2>1. PICK n \in 0 .. Len(chain[a]) - 1 : chain' = [chain EXCEPT ![a] = SubSeq(chain[a], 1, n)]
    BY <1>8 DEF Truncate
  <2>2. log' = log /\ Edit
    BY <1>8 DEF Truncate
  <2>3. IsSeq(SubSeq(chain[a], 1, n))
    <3>1. Len(chain[a]) \in Nat /\ n \in Int /\ n <= Len(chain[a])
      BY <1>0, IsSeqFacts
    <3>2. IsSeq(chain[a])
      BY <1>0
    <3>3. 1 \in Int /\ n \in Int /\ 1 <= 1 /\ n <= Len(chain[a])
      BY <3>1
    <3>4. QED  BY ONLY <3>2, <3>3, IsSeqSub
  <2>4. QED  BY <1>0, <1>2, <2>1, <2>2, <2>3, EditStore
<1>9. ASSUME NEW a \in Agent, EditEntry(a) PROVE StoreInv'
  <2>1. PICK i \in DOMAIN chain[a] : \E x : chain' = [chain EXCEPT ![a][i] = x]
    BY <1>9 DEF EditEntry
  <2>2. PICK x : chain' = [chain EXCEPT ![a] = [chain[a] EXCEPT ![i] = x]]
    BY <2>1
  <2>3. log' = log /\ Edit
    BY <1>9 DEF EditEntry
  <2>4. IsSeq([chain[a] EXCEPT ![i] = x])
    BY <1>0, IsSeqExcept
  <2>5. QED  BY <1>0, <1>2, <2>2, <2>3, <2>4, EditStore
<1>10. ASSUME EditCheckpoint PROVE StoreInv'
  <2>1. log' = log /\ chain' = chain /\ Edit
    BY <1>10 DEF EditCheckpoint
  <2>2. QED  BY <1>0, <2>1, EditStore
<1>11. QED  BY <1>4, <1>5, <1>6, <1>7, <1>8, <1>9, <1>10 DEF EditStep

LEMMA StoreStep == StoreInv /\ [Next]_vars => StoreInv'
<1> SUFFICES ASSUME StoreInv, [Next]_vars PROVE StoreInv'
  OBVIOUS
<1>1. CASE Open \/ Opened \/ Stop \/ Tick
  BY <1>1, StoreUnchanged DEF Open, Opened, Stop, Tick, files, history
<1>2. CASE \E a \in Agent : Recover(a)
  BY <1>2, RecoverStore
<1>3. CASE \E a \in Agent : Commit(a)
  BY <1>3, CommitStore
<1>4. CASE \E a \in Agent : Verify(a)
  BY <1>4, StoreUnchanged DEF Verify, files, history
<1>5. CASE \E t \in Trace : Record(t)
  BY <1>5, RecordStore
<1>6. CASE EditStep
  BY <1>6, EditStepStore
<1>7. CASE VerifyEntry \/ VerifyEnds \/ Reported
  BY <1>7, StoreUnchanged DEF VerifyEntry, VerifyEnds, Reported, files, history
<1>8. CASE UNCHANGED vars
  BY <1>8, StoreUnchanged DEF vars, files, history
<1>9. QED  BY <1>1, <1>2, <1>3, <1>4, <1>5, <1>6, <1>7, <1>8 DEF Next

-----------------------------------------------------------------------------
(* The verification under way. *)

Held(a, n) == EntryHolds(a, chain[a][n], n, ExpectedPrev(a, n - 1), Known)

(* The n-th entry says what was recorded. *)
Same(a, n) ==
    /\ recorded[a][n].event \in Known
    /\ chain[a][n].trace_id = recorded[a][n].event.trace_id
    /\ chain[a][n].recorded_at = recorded[a][n].entry.recorded_at

(* The head of what has been checked decides about everything below it:     *)
(* an entry's hash binds the hash before it, so the fact is carried forward *)
(* from entry to entry as the verification proceeds.                        *)
HeadDecides(a, n) ==
    n <= Len(recorded[a]) /\ chain[a][n].hash = recorded[a][n].entry.hash
        => \A i \in 1 .. n : Same(a, i)

AuditInv ==
    audit # None =>
        /\ stage = "up"
        /\ audit \in [agent_id : Agent, checked : Nat, verdict : {"open", "ok", "bad"}]
        /\ audit.checked \in 0 .. Len(chain[audit.agent_id])
        /\ \A n \in 1 .. audit.checked :
              Held(audit.agent_id, n) /\ HeadDecides(audit.agent_id, n)
        /\ audit.verdict = "ok" => audit.checked = Len(chain[audit.agent_id])
        /\ audit.verdict = "bad" =>
              /\ audit.checked < Len(chain[audit.agent_id])
              /\ ~Held(audit.agent_id, audit.checked + 1)

(* An entry that holds and has the recorded hash has the recorded contents, *)
(* previous hash included.                                                  *)
(* A hash binds everything it was computed over. *)
LEMMA HashesEqual ==
  ASSUME NEW s1, NEW a1, NEW t1, NEW r1, NEW p1, NEW e1,
         NEW s2, NEW a2, NEW t2, NEW r2, NEW p2, NEW e2,
         ComputeHash(s1, a1, t1, r1, p1, e1) = ComputeHash(s2, a2, t2, r2, p2, e2)
  PROVE  s1 = s2 /\ a1 = a2 /\ t1 = t2 /\ r1 = r2 /\ p1 = p2 /\ e1 = e2
BY DEF ComputeHash

LEMMA HashBinds ==
  ASSUME StoreInv, NEW a \in Agent, NEW n \in 1 .. Len(recorded[a]), Held(a, n),
         chain[a][n].hash = recorded[a][n].entry.hash
  PROVE  Same(a, n) /\ ExpectedPrev(a, n - 1) = RecordedPrev(a, n)
<1> DEFINE x == chain[a][n]
           e == recorded[a][n].entry
           v == recorded[a][n].event
<1>1. PICK event \in Known :
          /\ event.trace_id = x.trace_id
          /\ x.hash = ComputeHash(x.seq, x.agent_id, x.trace_id, x.recorded_at, x.prev_hash, event)
  BY DEF Held, EntryHolds
<1>2. x.prev_hash = ExpectedPrev(a, n - 1)
  BY DEF Held, EntryHolds
<1>3. /\ e.hash = ComputeHash(n, a, e.trace_id, e.recorded_at, RecordedPrev(a, n), v)
      /\ e.trace_id = v.trace_id
  BY DEF StoreInv, RecordedInv, WellRecorded
<1>4. /\ x.trace_id = e.trace_id /\ x.recorded_at = e.recorded_at
      /\ x.prev_hash = RecordedPrev(a, n) /\ event = v
  <2>1. ComputeHash(x.seq, x.agent_id, x.trace_id, x.recorded_at, x.prev_hash, event)
          = ComputeHash(n, a, e.trace_id, e.recorded_at, RecordedPrev(a, n), v)
    BY <1>1, <1>3
  <2> HIDE DEF x, e, v
  <2>2. QED  BY <2>1, HashesEqual
<1>5. QED  BY <1>1, <1>2, <1>3, <1>4 DEF Same

LEMMA HeadDecidesNext ==
  ASSUME StoreInv, NEW a \in Agent, NEW n \in Nat, Held(a, n + 1),
         n > 0 => HeadDecides(a, n)
  PROVE  HeadDecides(a, n + 1)
<1> SUFFICES ASSUME n + 1 <= Len(recorded[a]),
                    chain[a][n + 1].hash = recorded[a][n + 1].entry.hash,
                    NEW i \in 1 .. n + 1
             PROVE  Same(a, i)
  BY DEF HeadDecides
<1>1. Len(recorded[a]) \in Nat /\ n + 1 \in 1 .. Len(recorded[a])
  BY IsSeqFacts DEF StoreInv, ShapeInv
<1>2. Same(a, n + 1) /\ ExpectedPrev(a, (n + 1) - 1) = RecordedPrev(a, n + 1)
  BY <1>1, HashBinds
<1>3. CASE i = n + 1
  BY <1>2, <1>3
<1>4. CASE i \in 1 .. n
  <2>1. n > 0 /\ n <= Len(recorded[a])
    BY <1>1, <1>4
  <2>0. (n + 1) - 1 = n /\ n # 0 /\ n + 1 # 1
    BY <2>1
  <2>2. chain[a][n].hash = recorded[a][n].entry.hash
    <3>1. ExpectedPrev(a, n) = chain[a][n].hash
      BY <2>0 DEF ExpectedPrev
    <3>2. RecordedPrev(a, n + 1) = recorded[a][n].entry.hash
      BY <2>0 DEF RecordedPrev
    <3>3. QED  BY <3>1, <3>2, <1>2, <2>0
  <2>3. QED  BY <1>4, <2>1, <2>2 DEF HeadDecides
<1>5. QED  BY <1>3, <1>4

(* What holds of an agent's chain depends on the files and the record only. *)
LEMMA HeldUnchanged ==
  ASSUME UNCHANGED <<log, chain, recorded>>, NEW a, NEW n
  PROVE  (Held(a, n)' <=> Held(a, n)) /\ (HeadDecides(a, n)' <=> HeadDecides(a, n))
BY DEF Held, HeadDecides, Same, EntryHolds, ExpectedPrev, Known

LEMMA AuditUnchanged ==
  ASSUME AuditInv, UNCHANGED <<log, chain, recorded, stage, audit>>
  PROVE  AuditInv'
BY HeldUnchanged DEF AuditInv

LEMMA VerifyEntryAudit ==
  ASSUME StoreInv, AuditInv, VerifyEntry
  PROVE  AuditInv'
<1>1. /\ audit # None
      /\ audit \in [agent_id : Agent, checked : Nat, verdict : {"open", "ok", "bad"}]
      /\ audit.verdict = "open" /\ stage = "up"
      /\ UNCHANGED <<log, chain, recorded, stage>>
  BY DEF VerifyEntry, AuditInv, files, process, history
<1>2. PICK a \in Agent, k \in Nat : a = audit.agent_id /\ k = audit.checked
  BY <1>1
<1>3. k < Len(chain[a]) /\ Len(chain[a]) \in Nat
  BY <1>2, IsSeqFacts DEF VerifyEntry, StoreInv, ShapeInv
<1>4. \A n \in 1 .. k : Held(a, n) /\ HeadDecides(a, n)
  BY <1>1, <1>2 DEF AuditInv
<1>5. NextEntryHolds <=> Held(a, k + 1)
  BY <1>2 DEF NextEntryHolds, Held
<1>6. CASE NextEntryHolds
  <2>1. audit' = [agent_id |-> a, checked |-> k + 1, verdict |-> "open"]
    BY <1>1, <1>2, <1>6 DEF VerifyEntry
  <2>2. HeadDecides(a, k + 1)
    BY <1>4, <1>5, <1>6, HeadDecidesNext
  <2>3. \A n \in 1 .. k + 1 : Held(a, n) /\ HeadDecides(a, n)
    BY <1>4, <1>5, <1>6, <2>2
  <2>4. \A n \in 1 .. k + 1 : Held(a, n)' /\ HeadDecides(a, n)'
    BY <1>1, <2>3, HeldUnchanged
  <2>5. k + 1 \in 0 .. Len(chain'[a])
    BY <1>1, <1>3
  <2>6. QED  BY <1>1, <2>1, <2>4, <2>5 DEF AuditInv
<1>7. CASE ~NextEntryHolds
  <2>1. audit' = [agent_id |-> a, checked |-> k, verdict |-> "bad"]
    BY <1>1, <1>2, <1>7 DEF VerifyEntry
  <2>2. \A n \in 1 .. k : Held(a, n)' /\ HeadDecides(a, n)'
    BY <1>1, <1>4, HeldUnchanged
  <2>3. ~Held(a, k + 1)'
    BY <1>1, <1>5, <1>7, HeldUnchanged
  <2>4. k \in 0 .. Len(chain'[a]) /\ k < Len(chain'[a])
    BY <1>1, <1>3
  <2>5. QED  BY <1>1, <2>1, <2>2, <2>3, <2>4 DEF AuditInv
<1>8. QED  BY <1>6, <1>7

LEMMA VerifyEndsAudit ==
  ASSUME AuditInv, VerifyEnds
  PROVE  AuditInv'
<1>1. /\ audit # None
      /\ audit \in [agent_id : Agent, checked : Nat, verdict : {"open", "ok", "bad"}]
      /\ stage = "up"
      /\ UNCHANGED <<log, chain, recorded, stage>>
  BY DEF VerifyEnds, AuditInv, files, process, history
<1>2. PICK a \in Agent, k \in Nat : a = audit.agent_id /\ k = audit.checked
  BY <1>1
<1>3. k = Len(chain[a]) /\ k \in 0 .. Len(chain[a])
  BY <1>1, <1>2 DEF VerifyEnds, AuditInv
<1>4. audit' = [agent_id |-> a, checked |-> k, verdict |-> "ok"]
  BY <1>1, <1>2 DEF VerifyEnds
<1>5. \A n \in 1 .. k : Held(a, n)' /\ HeadDecides(a, n)'
  BY <1>1, <1>2, HeldUnchanged DEF AuditInv
<1>6. QED  BY <1>1, <1>3, <1>4, <1>5 DEF AuditInv

LEMMA AuditStep == StoreInv /\ AuditInv /\ [Next]_vars => AuditInv'
<1> SUFFICES ASSUME StoreInv, AuditInv, [Next]_vars PROVE AuditInv'
  OBVIOUS
(* Nothing is verified in the steps that change files or record. *)
<1>1. ASSUME audit = None, audit' = audit PROVE AuditInv'
  BY <1>1 DEF AuditInv
<1>2. ASSUME stage # "up", audit' = audit PROVE AuditInv'
  BY <1>2 DEF AuditInv
<1>3. CASE Open \/ Opened \/ (\E a \in Agent : Recover(a))
  <2>1. stage # "up" /\ audit' = audit
    BY <1>3 DEF Open, Opened, Recover
  <2>2. QED  BY <1>2, <2>1
<1>4. CASE Stop \/ Reported
  BY <1>4 DEF Stop, Reported, AuditInv
<1>5. CASE Tick \/ (\E a \in Agent : Commit(a)) \/ (\E t \in Trace : Record(t))
  <2>1. audit = None /\ audit' = audit
    BY <1>5 DEF Tick, Commit, Record
  <2>2. QED  BY <1>1, <2>1
<1>6. CASE EditStep
  <2>1. stage = "down" /\ audit' = audit
    BY <1>6 DEF EditStep, EditEvent, RemoveEvent, RemoveEntry, RemovePair, Truncate, EditEntry,
                EditCheckpoint, Edit
  <2>2. QED  BY <1>2, <2>1
<1>7. ASSUME NEW a \in Agent, Verify(a) PROVE AuditInv'
  <2>1. /\ stage' = "up" /\ chain' = chain
        /\ audit' = [agent_id |-> a, checked |-> 0, verdict |-> "open"]
    BY <1>7 DEF AuditInv, Verify, files, process
  <2>2. Len(chain'[a]) \in Nat
    BY <2>1, IsSeqFacts DEF StoreInv, ShapeInv
  <2>3. 0 \in 0 .. Len(chain'[a]) /\ 1 .. 0 = {}
    BY <2>2
  <2>4. QED  BY <2>1, <2>3 DEF AuditInv
<1>8. CASE VerifyEntry
  BY <1>8, VerifyEntryAudit
<1>9. CASE VerifyEnds
  BY <1>9, VerifyEndsAudit
<1>10. CASE UNCHANGED vars
  BY <1>10, AuditUnchanged DEF vars, files, process, history
<1>11. QED
  BY <1>3, <1>4, <1>5, <1>6, <1>7, <1>8, <1>9, <1>10 DEF Next

-----------------------------------------------------------------------------
ChainInv == StoreInv /\ AuditInv

LEMMA ChainInvariant == Spec => []ChainInv
<1>1. Init => ChainInv
  BY InitStore DEF Init, AuditInv, ChainInv
<1>2. ChainInv /\ [Next]_vars => ChainInv'
  BY StoreStep, AuditStep DEF ChainInv
<1>3. QED  BY <1>1, <1>2, PTL DEF Spec

(* A verification that got to the head of a checkpoint that was archived    *)
(* off-box, and found the archived head there, has seen what was recorded,  *)
(* from the first event on: whatever was edited, in whatever order, and     *)
(* whatever opening the files repaired (verify_chain, recover_chain_tails). *)
THEOREM ArchivedHeadPinsHistory == Spec => []ArchivedHeadPins
<1>1. ChainInv => ArchivedHeadPins
  <2> SUFFICES ASSUME ChainInv, audit # None,
                      NEW c \in issued, Reached(audit.agent_id, c),
                      NEW i \in 1 .. c.seq
               PROVE  Same(audit.agent_id, i)
    BY DEF ArchivedHeadPins, PrefixAsRecorded, Same
  <2>0. /\ c.agent_id = audit.agent_id /\ c.seq <= audit.checked
        /\ chain[audit.agent_id][c.seq].hash = c.head_hash
    BY DEF Reached
  <2> DEFINE a == audit.agent_id
  <2>1. /\ c.seq \in 1 .. Len(recorded[a]) /\ c.head_hash = recorded[a][c.seq].entry.hash
        /\ Len(recorded[a]) \in Nat /\ audit.checked \in Nat
    <3>1. CommitsToRecord(c) /\ audit.agent_id \in Agent /\ audit.checked \in Nat
      BY DEF ChainInv, StoreInv, IssuedInv, AuditInv
    <3>2. IsSeq(recorded[a])
      BY <3>1 DEF ChainInv, StoreInv, ShapeInv
    <3>3. QED  BY <2>0, <3>1, <3>2, IsSeqFacts DEF CommitsToRecord
  <2>2. c.seq \in 1 .. audit.checked
    BY <2>0, <2>1
  <2>3. HeadDecides(a, c.seq)
    BY <2>2 DEF ChainInv, AuditInv
  <2>4. QED  BY <2>0, <2>1, <2>3 DEF HeadDecides
<1>2. QED  BY <1>1, ChainInvariant, PTL

-----------------------------------------------------------------------------
(* An entry that is the recorded one at its place, after recorded ones.     *)
AsRecorded(a, n) == chain[a][n] = recorded[a][n].entry

LEMMA PrevAsRecorded ==
  ASSUME NEW a, NEW n \in Nat \ {0}, n > 1 => AsRecorded(a, n - 1)
  PROVE  ExpectedPrev(a, n - 1) = RecordedPrev(a, n)
<1>1. CASE n = 1
  BY <1>1 DEF ExpectedPrev, RecordedPrev
<1>2. CASE n > 1
  <2>1. n - 1 # 0 /\ n # 1
    BY <1>2
  <2>2. QED  BY <1>2, <2>1 DEF ExpectedPrev, RecordedPrev, AsRecorded
<1>3. QED  BY <1>1, <1>2

(* Such an entry holds if and only if its event is still known. *)
LEMMA HoldsIffKnown ==
  ASSUME StoreInv, NEW a \in Agent, NEW n \in 1 .. Len(recorded[a]),
         AsRecorded(a, n), n > 1 => AsRecorded(a, n - 1)
  PROVE  Held(a, n) <=> recorded[a][n].event \in Known
<1> DEFINE e == recorded[a][n].entry
           v == recorded[a][n].event
<1>1. n \in Nat \ {0}
  BY IsSeqFacts DEF StoreInv, ShapeInv
<1>2. ExpectedPrev(a, n - 1) = RecordedPrev(a, n)
  BY <1>1, PrevAsRecorded
<1>3. /\ e.agent_id = a /\ e.seq = n /\ e.trace_id = v.trace_id
      /\ e.prev_hash = RecordedPrev(a, n)
      /\ e.hash = ComputeHash(n, a, e.trace_id, e.recorded_at, RecordedPrev(a, n), v)
  BY DEF StoreInv, RecordedInv, WellRecorded
<1>4. chain[a][n] = e
  BY DEF AsRecorded
<1>5. v \in Known => Held(a, n)
  BY <1>2, <1>3, <1>4 DEF Held, EntryHolds
<1>6. Held(a, n) => v \in Known
  BY <1>4, HashBinds DEF Same
<1>7. QED  BY <1>5, <1>6

(* An event is looked up among those of all agents, and found among its own *)
(* agent's.                                                                 *)
LEMMA KnownIsOwn ==
  ASSUME StoreInv, NEW a \in Agent, NEW n \in 1 .. Len(recorded[a])
  PROVE  recorded[a][n].event \in Known
           <=> recorded[a][n].event \in {log[a][j] : j \in DOMAIN log[a]}
<1> DEFINE v == recorded[a][n].event
<1>1. v.agent_id = a
  BY DEF StoreInv, RecordedInv, WellRecorded
<1>2. ASSUME v \in Known
      PROVE  v \in {log[a][j] : j \in DOMAIN log[a]}
  <2>1. PICK b \in Agent : \E j \in DOMAIN log[b] : v = log[b][j]
    BY <1>2 DEF Known
  <2>2. v.agent_id = b
    BY <2>1 DEF StoreInv, ShapeInv, EventOf
  <2>3. QED  BY <1>1, <2>1, <2>2
<1>3. QED  BY <1>2 DEF Known

(* Whoever edits events and leaves an agent's chain alone is found out at   *)
(* the first event edited, and nobody is accused who edited none.           *)
THEOREM EditsAreLocated == Spec => []EditLocated
<1>1. ChainInv => EditLocated
  <2> SUFFICES ASSUME ChainInv, audit # None, audit.verdict # "open",
                      chain[audit.agent_id] = RecordedEntries(audit.agent_id)
               PROVE  LET a == audit.agent_id
                          intact == {i \in DOMAIN recorded[a] :
                              recorded[a][i].event \in {log[a][j] : j \in DOMAIN log[a]}}
                      IN  /\ 1 .. audit.checked \subseteq intact
                          /\ audit.verdict = "bad" => audit.checked + 1 \notin intact
                          /\ audit.verdict = "ok" => audit.checked = Len(recorded[a])
    BY DEF EditLocated
  <2>1. PICK a \in Agent, k \in Nat : a = audit.agent_id /\ k = audit.checked
    BY DEF ChainInv, AuditInv
  <2>2. /\ StoreInv
        /\ DOMAIN recorded[a] = 1 .. Len(recorded[a]) /\ Len(recorded[a]) \in Nat
        /\ DOMAIN chain[a] = 1 .. Len(chain[a]) /\ Len(chain[a]) \in Nat
    BY IsSeqFacts DEF ChainInv, StoreInv, ShapeInv
  <2>3. /\ DOMAIN chain[a] = DOMAIN recorded[a]
        /\ \A i \in 1 .. Len(recorded[a]) : AsRecorded(a, i)
    BY <2>1, <2>2 DEF RecordedEntries, AsRecorded
  <2>4. Len(chain[a]) = Len(recorded[a])
    BY <2>2, <2>3
  <2>5. \A i \in 1 .. Len(recorded[a]) : Held(a, i) <=> recorded[a][i].event \in Known
    <3> SUFFICES ASSUME NEW i \in 1 .. Len(recorded[a])
                 PROVE  Held(a, i) <=> recorded[a][i].event \in Known
      OBVIOUS
    <3>1. i > 1 => i - 1 \in 1 .. Len(recorded[a])
      BY <2>2
    <3>2. QED  BY <2>2, <2>3, <3>1, HoldsIffKnown
  <2>6. \A i \in 1 .. Len(recorded[a]) :
           Held(a, i) <=> recorded[a][i].event \in {log[a][j] : j \in DOMAIN log[a]}
    BY <2>2, <2>5, KnownIsOwn
  <2>7. /\ k <= Len(recorded[a])
        /\ \A n \in 1 .. k : Held(a, n)
        /\ audit.verdict = "ok" => k = Len(recorded[a])
        /\ audit.verdict = "bad" => ~Held(a, k + 1)
    BY <2>1, <2>2, <2>4 DEF ChainInv, AuditInv
  <2>8. \A n \in 1 .. k : n \in 1 .. Len(recorded[a])
    BY <2>2, <2>7
  <2>9. QED  BY <2>1, <2>2, <2>6, <2>7, <2>8
<1>2. QED  BY <1>1, ChainInvariant, PTL

(* Of lines the store wrote, removed however one likes, only those at the   *)
(* end can be missing unnoticed: every other gap breaks a position, a link  *)
(* or the search for an event.                                              *)
THEOREM RemovalsShow == Spec => []OnlyTheEndMayBeMissing
<1>1. ChainInv => OnlyTheEndMayBeMissing
  <2> SUFFICES ASSUME ChainInv, Ended("ok"),
                      \A i \in DOMAIN chain[audit.agent_id] :
                         \E j \in DOMAIN recorded[audit.agent_id] :
                            chain[audit.agent_id][i] = recorded[audit.agent_id][j].entry
               PROVE  LET a == audit.agent_id
                      IN  /\ Len(chain[a]) <= Len(recorded[a])
                          /\ \A i \in DOMAIN chain[a] :
                                /\ chain[a][i] = recorded[a][i].entry
                                /\ recorded[a][i].event \in Known
    BY DEF OnlyTheEndMayBeMissing
  <2>1. PICK a \in Agent : a = audit.agent_id
    BY DEF Ended, ChainInv, AuditInv
  <2>2. /\ StoreInv
        /\ DOMAIN recorded[a] = 1 .. Len(recorded[a]) /\ Len(recorded[a]) \in Nat
        /\ DOMAIN chain[a] = 1 .. Len(chain[a]) /\ Len(chain[a]) \in Nat
    BY IsSeqFacts DEF ChainInv, StoreInv, ShapeInv
  <2>3. \A i \in 1 .. Len(chain[a]) : Held(a, i)
    BY <2>1 DEF Ended, ChainInv, AuditInv
  <2>4. ASSUME NEW i \in DOMAIN chain[a]
        PROVE  /\ i \in 1 .. Len(recorded[a])
               /\ chain[a][i] = recorded[a][i].entry
               /\ recorded[a][i].event \in Known
    <3>1. PICK j \in 1 .. Len(recorded[a]) : chain[a][i] = recorded[a][j].entry
      BY <2>1, <2>2, <2>4
    <3>2. chain[a][i].seq = i
      BY <2>2, <2>3, <2>4 DEF Held, EntryHolds
    <3>3. recorded[a][j].entry.seq = j
      BY <2>2 DEF StoreInv, RecordedInv, WellRecorded
    <3>4. i \in 1 .. Len(recorded[a]) /\ chain[a][i] = recorded[a][i].entry
      BY <3>1, <3>2, <3>3
    <3>5. Same(a, i)
      BY <2>2, <2>3, <2>4, <3>4, HashBinds
    <3>6. QED  BY <3>4, <3>5 DEF Same
  <2>5. Len(chain[a]) <= Len(recorded[a])
    <3>1. CASE Len(chain[a]) = 0
      BY <3>1, <2>2
    <3>2. CASE Len(chain[a]) > 0
      <4>1. Len(chain[a]) \in DOMAIN chain[a]
        BY <2>2, <3>2
      <4>2. QED  BY <2>2, <2>4, <4>1
    <3>3. QED  BY <2>2, <3>1, <3>2
  <2>6. QED  BY <2>1, <2>4, <2>5
<1>2. QED  BY <1>1, ChainInvariant, PTL

-----------------------------------------------------------------------------
(* Checkpoints and keys. *)

IsCheckpoint(c) ==
    c = [agent_id |-> c.agent_id, seq |-> c.seq, head_hash |-> c.head_hash,
         created_at |-> c.created_at, public_key |-> c.public_key,
         signature |-> c.signature]

(* Where a signature in the file can come from: nobody, another key, or a   *)
(* checkpoint the store made.                                               *)
Provenance(sig, made) ==
    \/ sig = Unsigned
    \/ \E p : sig = <<OtherKey, p>>
    \/ \E d \in made : SignedByStore(d) /\ d.signature = sig

KeyInv ==
    /\ IsSeq(ckpts)
    /\ \A i \in DOMAIN ckpts : IsCheckpoint(ckpts[i]) /\ Provenance(ckpts[i].signature, issued)
    /\ \A d \in issued : IsCheckpoint(d)
    /\ signer \in StoreKeys \cup {None}

LEMMA OverIsCheckpoint ==
  ASSUME NEW a, NEW entry, NEW t, NEW key
  PROVE  IsCheckpoint(CheckpointOver(a, entry, t, key))
BY DEF IsCheckpoint, CheckpointOver

LEMMA KeySigns ==
  ASSUME NEW a, NEW entry, NEW t, NEW key \in StoreKeys
  PROVE  SignedByStore(CheckpointOver(a, entry, t, key))
<1> DEFINE p == CheckpointPreimage(a, entry.seq, entry.hash, t)
<1>1. key # None
  BY TamperingAssumption
<1>2. <<key, p>> # Unsigned
  BY DEF Unsigned
<1>3. QED
  BY <1>1, <1>2 DEF SignedByStore, SignatureHolds, IsSigned, CheckpointOver, CheckpointPreimage

LEMMA ReheadedIsCheckpoint ==
  ASSUME NEW c, IsCheckpoint(c), NEW s, NEW h
  PROVE  /\ IsCheckpoint([c EXCEPT !.seq = s, !.head_hash = h])
         /\ [c EXCEPT !.seq = s, !.head_hash = h].signature = c.signature
<1> DEFINE d == [agent_id |-> c.agent_id, seq |-> s, head_hash |-> h,
                 created_at |-> c.created_at, public_key |-> c.public_key,
                 signature |-> c.signature]
<1>1. [c EXCEPT !.seq = s, !.head_hash = h] = d
  <2> DEFINE f == [c EXCEPT !.seq = s]
             g == [agent_id |-> c.agent_id, seq |-> s, head_hash |-> c.head_hash,
                   created_at |-> c.created_at, public_key |-> c.public_key,
                   signature |-> c.signature]
  <2>1. f = g
    BY DEF IsCheckpoint
  <2>2. [g EXCEPT !.head_hash = h] = d
    OBVIOUS
  <2>3. [c EXCEPT !.seq = s, !.head_hash = h] = [f EXCEPT !.head_hash = h]
    BY DEF IsCheckpoint
  <2>4. QED  BY <2>1, <2>2, <2>3
<1>2. IsCheckpoint(d) /\ d.signature = c.signature
  BY DEF IsCheckpoint
<1>3. QED  BY <1>1, <1>2

LEMMA ResignedIsCheckpoint ==
  ASSUME NEW c, IsCheckpoint(c), NEW sig
  PROVE  /\ IsCheckpoint([c EXCEPT !.signature = sig])
         /\ [c EXCEPT !.signature = sig].signature = sig
<1> DEFINE d == [agent_id |-> c.agent_id, seq |-> c.seq, head_hash |-> c.head_hash,
                 created_at |-> c.created_at, public_key |-> c.public_key,
                 signature |-> sig]
<1>1. [c EXCEPT !.signature = sig] = d
  BY DEF IsCheckpoint
<1>2. IsCheckpoint(d) /\ d.signature = sig
  BY DEF IsCheckpoint
<1>3. QED  BY <1>1, <1>2

LEMMA RelabelledIsCheckpoint ==
  ASSUME NEW c, IsCheckpoint(c), NEW d \in Relabelled(c)
  PROVE  IsCheckpoint(d) /\ d.signature = c.signature
<1> DEFINE E(a, t, k) == [agent_id |-> a, seq |-> c.seq, head_hash |-> c.head_hash,
                          created_at |-> t, public_key |-> k, signature |-> c.signature]
<1>1. \A a, t, k : IsCheckpoint(E(a, t, k)) /\ E(a, t, k).signature = c.signature
  BY DEF IsCheckpoint
<1>2. /\ \A a : [c EXCEPT !.agent_id = a] = E(a, c.created_at, c.public_key)
      /\ \A t : [c EXCEPT !.created_at = t] = E(c.agent_id, t, c.public_key)
      /\ \A k : [c EXCEPT !.public_key = k] = E(c.agent_id, c.created_at, k)
  BY DEF IsCheckpoint
<1>3. \E a, t, k : d = E(a, t, k)
  <2> HIDE DEF E
  <2>1. QED  BY <1>2 DEF Relabelled
<1> HIDE DEF E
<1>4. QED  BY <1>1, <1>3

LEMMA CommitKey ==
  ASSUME KeyInv, NEW a \in Agent, Commit(a)
  PROVE  KeyInv'
<1> DEFINE c == CheckpointOver(a, chain[a][Len(chain[a])], clock, signer)
<1>1. /\ ckpts' = Append(ckpts, c) /\ issued' = issued \cup {c}
      /\ signer' = signer
  BY DEF Commit, process
<1>2. IsCheckpoint(c)
  BY OverIsCheckpoint
<1>3. signer \in StoreKeys \/ signer = None
  BY DEF KeyInv
<1>4. signer \in StoreKeys => SignedByStore(c)
  BY KeySigns
<1>5. signer = None => c.signature = Unsigned
  BY DEF CheckpointOver
<1> HIDE DEF c
<1>6. Provenance(c.signature, issued')
  BY <1>1, <1>3, <1>4, <1>5 DEF Provenance
<1>7. IsSeq(ckpts') /\ DOMAIN ckpts' = 1 .. Len(ckpts) + 1 /\ Len(ckpts) \in Nat
  BY <1>1, IsSeqAppend, IsSeqFacts DEF KeyInv
<1>8. ASSUME NEW i \in DOMAIN ckpts'
      PROVE  IsCheckpoint(ckpts'[i]) /\ Provenance(ckpts'[i].signature, issued')
  <2>1. CASE i = Len(ckpts) + 1
    <3>1. ckpts'[i] = c
      BY <1>1, <2>1, IsSeqAppend DEF KeyInv
    <3>2. QED  BY <3>1, <1>2, <1>6
  <2>2. CASE i \in 1 .. Len(ckpts)
    <3>1. ckpts'[i] = ckpts[i] /\ i \in DOMAIN ckpts
      BY <1>1, <2>2, IsSeqAppend, IsSeqFacts DEF KeyInv
    <3>2. IsCheckpoint(ckpts[i]) /\ Provenance(ckpts[i].signature, issued)
      BY <3>1 DEF KeyInv
    <3>3. Provenance(ckpts[i].signature, issued')
      BY <1>1, <3>2 DEF Provenance, SignedByStore
    <3>4. QED  BY <3>1, <3>2, <3>3
  <2>3. QED  BY <2>1, <2>2, <1>7
<1>9. \A d \in issued' : IsCheckpoint(d)
  BY <1>1, <1>2 DEF KeyInv
<1>10. QED  BY <1>1, <1>3, <1>7, <1>8, <1>9 DEF KeyInv

(* One checkpoint in the file is replaced. *)
LEMMA ReplacedKey ==
  ASSUME KeyInv, UNCHANGED <<issued, signer>>,
         NEW i \in DOMAIN ckpts, NEW d,
         ckpts' = [ckpts EXCEPT ![i] = d],
         IsCheckpoint(d), Provenance(d.signature, issued)
  PROVE  KeyInv'
<1>1. /\ IsSeq(ckpts') /\ DOMAIN ckpts' = DOMAIN ckpts
      /\ \A j \in DOMAIN ckpts : ckpts'[j] = IF j = i THEN d ELSE ckpts[j]
  BY IsSeqExcept DEF KeyInv
<1>2. \A j \in DOMAIN ckpts' : IsCheckpoint(ckpts'[j]) /\ Provenance(ckpts'[j].signature, issued)
  BY <1>1 DEF KeyInv
<1>3. \A j \in DOMAIN ckpts' : Provenance(ckpts'[j].signature, issued')
  BY <1>2 DEF Provenance, SignedByStore
<1>4. QED  BY <1>1, <1>2, <1>3 DEF KeyInv

LEMMA EditKey ==
  ASSUME KeyInv, EditCheckpoint
  PROVE  KeyInv'
<1>1. PICK i \in DOMAIN ckpts :
          LET c == ckpts[i]
              entries == chain[c.agent_id]
          IN  ckpts' \in
                {[ckpts EXCEPT ![i].seq = entries[k].seq, ![i].head_hash = entries[k].hash] :
                    k \in DOMAIN entries}
                \cup {[ckpts EXCEPT ![i] = d] : d \in Relabelled(c)}
                \cup {[ckpts EXCEPT ![i].signature = ckpts[k].signature] : k \in DOMAIN ckpts}
                \cup {[ckpts EXCEPT ![i].signature = Unsigned],
                      [ckpts EXCEPT ![i] = CheckpointOver(c.agent_id,
                          [seq |-> c.seq, hash |-> c.head_hash], clock, OtherKey)]}
  BY DEF EditCheckpoint
<1> DEFINE c == ckpts[i]
           entries == chain[c.agent_id]
           foreign == CheckpointOver(c.agent_id, [seq |-> c.seq, hash |-> c.head_hash],
                                     clock, OtherKey)
<1>2. UNCHANGED <<issued, signer>>
  BY DEF EditCheckpoint, Edit, process, history
<1>3. IsCheckpoint(c) /\ Provenance(c.signature, issued)
  BY DEF KeyInv
<1>4. ASSUME NEW k \in DOMAIN entries,
             ckpts' = [ckpts EXCEPT ![i].seq = entries[k].seq, ![i].head_hash = entries[k].hash]
      PROVE  KeyInv'
  <2> DEFINE d == [c EXCEPT !.seq = entries[k].seq, !.head_hash = entries[k].hash]
  <2>1. IsCheckpoint(d) /\ d.signature = c.signature
    <3> HIDE DEF c, entries
    <3>1. QED  BY <1>3, ReheadedIsCheckpoint
  <2>2. ckpts' = [ckpts EXCEPT ![i] = d]
    BY <1>4
  <2>3. QED  BY <1>2, <1>3, <2>1, <2>2, ReplacedKey
<1>5. ASSUME NEW sig, Provenance(sig, issued), ckpts' = [ckpts EXCEPT ![i].signature = sig]
      PROVE  KeyInv'
  <2> DEFINE d == [c EXCEPT !.signature = sig]
  <2>1. IsCheckpoint(d) /\ d.signature = sig
    <3> HIDE DEF c
    <3>1. QED  BY <1>3, ResignedIsCheckpoint
  <2>2. ckpts' = [ckpts EXCEPT ![i] = d]
    BY <1>5
  <2>3. QED  BY <1>2, <1>5, <2>1, <2>2, ReplacedKey
<1>6. ASSUME ckpts' = [ckpts EXCEPT ![i] = foreign]
      PROVE  KeyInv'
  <2>1. IsCheckpoint(foreign)
    BY OverIsCheckpoint
  <2>2. \E p : foreign.signature = <<OtherKey, p>>
    BY TamperingAssumption DEF CheckpointOver
  <2>3. Provenance(foreign.signature, issued)
    BY <2>2 DEF Provenance
  <2> HIDE DEF foreign
  <2>4. QED  BY <1>2, <1>6, <2>1, <2>3, ReplacedKey
<1>6a. ASSUME NEW d \in Relabelled(c), ckpts' = [ckpts EXCEPT ![i] = d]
       PROVE  KeyInv'
  <2>1. IsCheckpoint(d) /\ d.signature = c.signature
    <3> HIDE DEF c
    <3>1. QED  BY <1>3, RelabelledIsCheckpoint
  <2>2. QED  BY <1>2, <1>3, <1>6a, <2>1, ReplacedKey
<1>7. Provenance(Unsigned, issued) /\ \A k \in DOMAIN ckpts : Provenance(ckpts[k].signature, issued)
  BY DEF Provenance, KeyInv
<1>8. \/ \E k \in DOMAIN entries :
             ckpts' = [ckpts EXCEPT ![i].seq = entries[k].seq, ![i].head_hash = entries[k].hash]
      \/ \E d \in Relabelled(c) : ckpts' = [ckpts EXCEPT ![i] = d]
      \/ \E k \in DOMAIN ckpts : ckpts' = [ckpts EXCEPT ![i].signature = ckpts[k].signature]
      \/ ckpts' = [ckpts EXCEPT ![i].signature = Unsigned]
      \/ ckpts' = [ckpts EXCEPT ![i] = foreign]
  BY <1>1
<1> HIDE DEF c, entries, foreign
<1>9. QED  BY <1>4, <1>5, <1>6, <1>6a, <1>7, <1>8

LEMMA KeyInvariant == Spec => []KeyInv
<1>1. Init => KeyInv
  BY IsSeqEmpty, IsSeqFacts DEF Init, KeyInv
<1>2. KeyInv /\ [Next]_vars => KeyInv'
  <2> SUFFICES ASSUME KeyInv, [Next]_vars PROVE KeyInv'
    OBVIOUS
  <2>1. ASSUME UNCHANGED <<ckpts, issued>>, signer' \in StoreKeys \cup {None}
        PROVE  KeyInv'
    BY <2>1 DEF KeyInv
  <2>0. signer \in StoreKeys \cup {None}
    BY DEF KeyInv
  <2>2a. CASE Opened
    <3>1. PICK setting \in Settings :
              signer' = IF Unusable(setting) THEN None ELSE FromEnv(setting)
      BY <2>2a DEF Opened
    <3>2. setting.key \in StoreKeys
      BY TamperingAssumption
    <3>3. UNCHANGED <<ckpts, issued>>
      BY <2>2a DEF Opened, files, history
    <3>4. QED  BY <2>1, <3>1, <3>2, <3>3 DEF FromEnv
  <2>2. CASE Open \/ Stop \/ Tick
    BY <2>0, <2>1, <2>2 DEF Open, Stop, Tick, files, process, history
  <2>3. CASE \E a \in Agent : Recover(a) \/ Verify(a)
    BY <2>0, <2>1, <2>3 DEF Recover, Verify, files, process, history
  <2>4. CASE \E a \in Agent : Commit(a)
    BY <2>4, CommitKey
  <2>5. CASE \E t \in Trace : Record(t)
    BY <2>0, <2>1, <2>5 DEF Record, process
  <2>6. CASE EditStep
    <3>1. CASE EditCheckpoint
      BY <3>1, EditKey
    <3>2. CASE \E a \in Agent : EditEvent(a) \/ RemoveEvent(a) \/ RemoveEntry(a)
                                   \/ RemovePair(a) \/ Truncate(a) \/ EditEntry(a)
      BY <2>0, <2>1, <3>2 DEF EditEvent, RemoveEvent, RemoveEntry, RemovePair, Truncate,
                              EditEntry, Edit, process, history
    <3>3. QED  BY <2>6, <3>1, <3>2 DEF EditStep
  <2>7. CASE VerifyEntry \/ VerifyEnds \/ Reported
    BY <2>0, <2>1, <2>7 DEF VerifyEntry, VerifyEnds, Reported, files, process, history
  <2>8. CASE UNCHANGED vars
    BY <2>0, <2>1, <2>8 DEF vars, files, process, history
  <2>9. QED  BY <2>2a, <2>2, <2>3, <2>4, <2>5, <2>6, <2>7, <2>8 DEF Next
<1>3. QED  BY <1>1, <1>2, PTL DEF Spec

LEMMA SignedIsIssued ==
  ASSUME KeyInv, NEW i \in DOMAIN ckpts, SignedByStore(ckpts[i])
  PROVE  ckpts[i] \in issued
<1> DEFINE c == ckpts[i]
<1>1. /\ IsCheckpoint(c) /\ Provenance(c.signature, issued)
      /\ c.public_key \in StoreKeys /\ c.signature # Unsigned
      /\ c.signature = <<c.public_key,
                         CheckpointPreimage(c.agent_id, c.seq, c.head_hash, c.created_at)>>
  BY DEF KeyInv, SignedByStore, SignatureHolds, IsSigned
<1> HIDE DEF c
<1>2. ~\E p : c.signature = <<OtherKey, p>>
  <2> SUFFICES ASSUME NEW p, c.signature = <<OtherKey, p>> PROVE FALSE
    OBVIOUS
  <2>1. c.signature[1] = c.public_key
    BY <1>1
  <2>2. c.signature[1] = OtherKey
    OBVIOUS
  <2>3. QED  BY <1>1, <2>1, <2>2, TamperingAssumption
<1>3. PICK d \in issued : SignedByStore(d) /\ d.signature = c.signature
  BY <1>1, <1>2 DEF Provenance
<1>4. /\ IsCheckpoint(d)
      /\ d.signature = <<d.public_key,
                         CheckpointPreimage(d.agent_id, d.seq, d.head_hash, d.created_at)>>
  BY <1>3 DEF KeyInv, SignedByStore, SignatureHolds
<1>5. /\ c.public_key = d.public_key
      /\ CheckpointPreimage(c.agent_id, c.seq, c.head_hash, c.created_at)
           = CheckpointPreimage(d.agent_id, d.seq, d.head_hash, d.created_at)
  BY <1>1, <1>3, <1>4
<1>6. /\ c.agent_id = d.agent_id /\ c.seq = d.seq
      /\ c.head_hash = d.head_hash /\ c.created_at = d.created_at
  BY <1>5 DEF CheckpointPreimage
<1>7. c = d
  BY <1>1, <1>3, <1>4, <1>5, <1>6 DEF IsCheckpoint
<1>8. QED  BY <1>7 DEF c

(* A checkpoint of the file that verifies against a key of the store is one *)
(* the store issued, field by field, whichever keys its starts had: nobody  *)
(* made it from others, re-signed it or moved a signature to it             *)
(* (verify_checkpoint).                                                     *)
THEOREM SignaturesAreIssued == Spec => []SignedOnlyIfIssued
<1>1. KeyInv => SignedOnlyIfIssued
  BY SignedIsIssued DEF SignedOnlyIfIssued
<1>2. QED  BY <1>1, KeyInvariant, PTL

(* Who has nothing but the edited files and the public keys can rely on     *)
(* what a signed checkpoint pins as on an archived one: "a rebuilt log      *)
(* cannot reproduce it without the private key" (checkpoint.rs).            *)
THEOREM SignedHeadPinsHistory == Spec => []SignedHeadPins
<1>1. KeyInv /\ ArchivedHeadPins => SignedHeadPins
  BY SignedIsIssued DEF ArchivedHeadPins, SignedHeadPins
<1>2. QED  BY <1>1, KeyInvariant, ArchivedHeadPinsHistory, PTL
=============================================================================
