---------------------------- MODULE HermesProofs ----------------------------
(***************************************************************************)
(* What an ingest that returned was given is in its sidecar, for any       *)
(* number of processes over one vault, any sharing of file names and any   *)
(* cache bound; only an event whose own line failed to be written may be   *)
(* missing.  What the cache, the notes and a reflection make of it is      *)
(* right if one process keeps the vault and sessions do not share files.   *)
(*                                                                         *)
(* The first property is not inductive: a session is loaded once and       *)
(* consulted long after.  The invariant adds that an event which is known  *)
(* to its cached session is in its sidecar or unsaved, which an append to  *)
(* the sidecar, by whichever process, cannot undo.  With one process the   *)
(* cached session is known exactly: the saved events of its key, and those *)
(* of them that are unsaved.                                               *)
(***************************************************************************)
EXTENDS Hermes, SequenceTheorems, WellFoundedInduction, TLAPS

Line == [trace_id : Trace, cut : Limits]

On(file, t) == \E i \in DOMAIN sidecar[file] : sidecar[file][i].trace_id = t

SavedType ==
    /\ limit \in [Proc -> Limits]
    /\ feed \in [Proc -> Seq(Trace \cup {Invalid})]
    /\ sidecar \in [File -> Seq(Line)]
    /\ DOMAIN sessions = Proc /\ DOMAIN given = Proc
    /\ \A p \in Proc : DOMAIN sessions[p] \subseteq Key /\ given[p] \subseteq Trace
    /\ done \subseteq Trace

(* The event is in its own session's sidecar. *)
Saving(t) == On(FileOf[KeyOf[t]], t)

Cached(p, t) == KeyOf[t] \in DOMAIN sessions[p] /\ t \in DOMAIN sessions[p][KeyOf[t]]

SavedInv ==
    /\ \A p \in Proc : \A t \in Trace : Cached(p, t) => Saving(t) \/ t \in unsaved
    /\ \A p \in Proc : \A t \in given[p] : Saving(t) \/ t \in unsaved
    /\ \A t \in done : Saving(t)

Inv == SavedType /\ SavedInv

LEMMA LoadedDomain ==
  ASSUME NEW f
  PROVE  \A t : t \in DOMAIN Loaded(sidecar[f]) <=> On(f, t)
BY DEF Loaded, On

LEMMA InvInit == Init => Inv
<1> SUFFICES ASSUME Init PROVE Inv
  OBVIOUS
<1>1. DOMAIN <<>> = {} /\ <<>> \in Seq(Line) /\ <<>> \in Seq(Trace \cup {Invalid})
  BY EmptySeq
<1>2. QED  BY <1>1 DEF Init, Inv, SavedType, SavedInv, Cached

-----------------------------------------------------------------------------
(* Steps that keep the sidecars, and add no event to any session.           *)
LEMMA KeptSidecars ==
  ASSUME Inv, sidecar' = sidecar, unsaved' = unsaved,
         limit' \in [Proc -> Limits], feed' \in [Proc -> Seq(Trace \cup {Invalid})],
         DOMAIN sessions' = Proc, DOMAIN given' = Proc,
         \A p \in Proc : /\ DOMAIN sessions'[p] \subseteq DOMAIN sessions[p]
                         /\ \A k \in DOMAIN sessions'[p] : sessions'[p][k] = sessions[p][k]
                         /\ given'[p] \subseteq given[p],
         \A t \in done' : t \in done \/ \E p \in Proc : t \in given[p] \ unsaved
  PROVE  Inv'
<1>1. SavedType'
  BY DEF Inv, SavedType
<1>2. \A t : Saving(t)' <=> Saving(t)
  BY DEF On, Saving
<1>3. \A p \in Proc : \A t \in Trace : Cached(p, t)' => Cached(p, t)
  BY DEF Cached
<1>4. SavedInv'
  BY <1>2, <1>3 DEF Inv, SavedInv
<1>5. QED  BY <1>1, <1>4 DEF Inv

(* What caching an event makes of the sessions.                             *)
LEMMA PutShape ==
  ASSUME SavedType, NEW p \in Proc, NEW t \in Trace, Put(p, t)
  PROVE  /\ DOMAIN sessions' = Proc
         /\ DOMAIN sessions'[p] = {KeyOf[t]} \cup DOMAIN sessions[p]
         /\ sessions'[p][KeyOf[t]] = With(SessionOf(p, KeyOf[t]), t, limit[p])
         /\ \A j \in DOMAIN sessions[p] \ {KeyOf[t]} : sessions'[p][j] = sessions[p][j]
         /\ \A q \in Proc \ {p} : sessions'[q] = sessions[q]
<1> DEFINE k == KeyOf[t]
           session == With(SessionOf(p, k), t, limit[p])
<1>1. sessions' = [sessions EXCEPT ![p] = With(sessions[p], k, session)]
  BY DEF Put
<1> HIDE DEF k, session
<1>2. /\ DOMAIN sessions' = Proc
      /\ DOMAIN sessions'[p] = {k} \cup DOMAIN sessions[p]
      /\ sessions'[p][k] = session
      /\ \A j \in DOMAIN sessions[p] \ {k} : sessions'[p][j] = sessions[p][j]
      /\ \A q \in Proc \ {p} : sessions'[q] = sessions[q]
  BY <1>1 DEF SavedType, With
<1>3. QED  BY <1>2 DEF k, session

(* Whether its line is written or not, the event is all that is new.        *)
LEMMA PutCaches ==
  ASSUME Inv, NEW p \in Proc, NEW t \in Trace, Put(p, t)
  PROVE  /\ DOMAIN sessions' = Proc
         /\ \A q \in Proc : DOMAIN sessions'[q] \subseteq Key
         /\ \A q \in Proc : \A u \in Trace \ {t} : Cached(q, u)' => Saving(u) \/ u \in unsaved
<1> DEFINE k == KeyOf[t]
           session == With(SessionOf(p, k), t, limit[p])
<1>1. k \in Key
  BY HermesAssumption
<1>3. DOMAIN session = {t} \cup DOMAIN SessionOf(p, k)
  BY DEF With
<1>4. \A u \in Trace : u \in DOMAIN SessionOf(p, k) /\ KeyOf[u] = k => Saving(u) \/ u \in unsaved
  BY LoadedDomain DEF SessionOf, Inv, SavedInv, Saving, Cached
<1>5. /\ DOMAIN sessions' = Proc
      /\ DOMAIN sessions'[p] = {k} \cup DOMAIN sessions[p]
      /\ sessions'[p][k] = session
      /\ \A j \in DOMAIN sessions[p] \ {k} : sessions'[p][j] = sessions[p][j]
      /\ \A q \in Proc \ {p} : sessions'[q] = sessions[q]
  BY PutShape DEF Inv
<1> HIDE DEF k, session
<1>6. ASSUME NEW q \in Proc, NEW u \in Trace \ {t}, Cached(q, u)'
      PROVE  Saving(u) \/ u \in unsaved
  <2>1. KeyOf[u] \in DOMAIN sessions'[q] /\ u \in DOMAIN sessions'[q][KeyOf[u]]
    BY <1>6 DEF Cached
  <2>2. CASE q = p /\ KeyOf[u] = k
    BY <1>3, <1>4, <1>5, <2>1, <2>2
  <2>3. CASE q # p \/ KeyOf[u] # k
    <3>1. Cached(q, u)
      BY <1>5, <2>1, <2>3 DEF Cached
    <3>2. QED  BY <3>1 DEF Inv, SavedInv
  <2>4. QED  BY <2>2, <2>3
<1>7. QED  BY <1>1, <1>5, <1>6 DEF Inv, SavedType

(* What the line of an event adds to its sidecar.                           *)
LEMMA SavedAdds ==
  ASSUME SavedType, NEW p \in Proc, NEW t \in Trace, IsNew(p, t), sidecar' = Saved(p, t)
  PROVE  /\ sidecar' \in [File -> Seq(Line)]
         /\ \A file \in File \ {FileOf[KeyOf[t]]} : sidecar'[file] = sidecar[file]
         /\ \A u : On(FileOf[KeyOf[t]], u)' <=> On(FileOf[KeyOf[t]], u) \/ u = t
<1> DEFINE f == FileOf[KeyOf[t]]
           line == [trace_id |-> t, cut |-> limit[p]]
<1>1. f \in File /\ limit[p] \in Limits /\ sidecar[f] \in Seq(Line)
  BY HermesAssumption DEF SavedType
<1>2. sidecar' = [sidecar EXCEPT ![f] = Append(sidecar[f], line)]
  BY DEF Saved
<1>3. line \in Line /\ line.trace_id = t
  BY <1>1 DEF Line
<1> HIDE DEF line, f
<1>4. /\ Append(sidecar[f], line) \in Seq(Line)
      /\ Len(Append(sidecar[f], line)) = Len(sidecar[f]) + 1
      /\ \A i \in 1 .. Len(sidecar[f]) : Append(sidecar[f], line)[i] = sidecar[f][i]
      /\ Append(sidecar[f], line)[Len(sidecar[f]) + 1] = line
  BY <1>1, <1>3, AppendProperties
<1>5. /\ Len(sidecar[f]) \in Nat
      /\ DOMAIN sidecar[f] = 1 .. Len(sidecar[f])
      /\ DOMAIN Append(sidecar[f], line) = 1 .. Len(sidecar[f]) + 1
  BY <1>1, <1>4, LenProperties
<1>6. /\ sidecar' \in [File -> Seq(Line)]
      /\ sidecar'[f] = Append(sidecar[f], line)
      /\ \A file \in File \ {f} : sidecar'[file] = sidecar[file]
  BY <1>1, <1>2, <1>4 DEF SavedType
<1>7. \A i \in 1 .. Len(sidecar[f]) + 1 :
          sidecar'[f][i].trace_id = IF i = Len(sidecar[f]) + 1 THEN t ELSE sidecar[f][i].trace_id
  BY <1>3, <1>4, <1>5, <1>6
<1>8. \A u : On(f, u)' <=> \E i \in 1 .. Len(sidecar[f]) + 1 : sidecar'[f][i].trace_id = u
  BY <1>5, <1>6 DEF On, f
<1>9. \A u : On(f, u) <=> \E i \in 1 .. Len(sidecar[f]) : sidecar[f][i].trace_id = u
  BY <1>5 DEF On
<1>10. \A u : On(f, u)' <=> On(f, u) \/ u = t
  BY <1>5, <1>7, <1>8, <1>9
<1>11. QED  BY <1>6, <1>10 DEF f

LEMMA TakeInv ==
  ASSUME Inv, NEW p \in Proc, Take(p)
  PROVE  Inv'
<1>1. feed[p] \in Seq(Trace \cup {Invalid}) /\ feed[p] # <<>> /\ Head(feed[p]) # Invalid
  BY DEF Take, Feeding, Inv, SavedType
<1>2. Head(feed[p]) \in Trace /\ Tail(feed[p]) \in Seq(Trace \cup {Invalid})
  BY <1>1, HeadTailProperties
<1> PICK t \in Trace : t = Head(feed[p])
  BY <1>2
<1> DEFINE f == FileOf[KeyOf[t]]
<1>3. f \in File /\ limit[p] \in Limits /\ sidecar[f] \in Seq(Line)
  BY HermesAssumption DEF Inv, SavedType
<1>4. /\ Put(p, t)
      /\ sidecar' = Saved(p, t)
      /\ unsaved' = IF IsNew(p, t) THEN unsaved \ {t} ELSE unsaved
      /\ given' = [given EXCEPT ![p] = given[p] \cup {t}]
      /\ feed' = [feed EXCEPT ![p] = Tail(feed[p])]
      /\ limit' = limit /\ done' = done
  BY DEF Take
<1>5. /\ DOMAIN sessions' = Proc
      /\ \A q \in Proc : DOMAIN sessions'[q] \subseteq Key
      /\ \A q \in Proc : \A u \in Trace \ {t} : Cached(q, u)' => Saving(u) \/ u \in unsaved
  BY <1>4, PutCaches
<1> HIDE DEF f
<1>6. /\ sidecar' \in [File -> Seq(Line)]
      /\ \A file \in File : \A u : On(file, u) => On(file, u)'
      /\ IsNew(p, t) => On(f, t)'
  <2>1. CASE IsNew(p, t)
    <3>1. /\ sidecar' \in [File -> Seq(Line)]
          /\ \A file \in File \ {f} : sidecar'[file] = sidecar[file]
          /\ \A u : On(f, u)' <=> On(f, u) \/ u = t
      BY <1>4, <2>1, SavedAdds DEF Inv, f
    <3>2. \A file \in File \ {f} : \A u : On(file, u) => On(file, u)'
      BY <3>1 DEF On
    <3>3. QED  BY <3>1, <3>2
  <2>2. CASE ~IsNew(p, t)
    BY <1>4, <2>2 DEF Saved, On, Inv, SavedType
  <2>3. QED  BY <2>1, <2>2
<1>7. \A u \in Trace : Saving(u) => Saving(u)'
  BY <1>6, HermesAssumption DEF Saving
<1>8. Saving(t)' \/ t \in unsaved'
  <2>1. CASE IsNew(p, t)
    BY <1>6, <2>1 DEF Saving, f
  <2>2. CASE ~IsNew(p, t)
    <3>1. t \in DOMAIN SessionOf(p, KeyOf[t])
      BY <2>2 DEF IsNew
    <3>2. CASE KeyOf[t] \in DOMAIN sessions[p]
      <4>1. Cached(p, t)
        BY <3>1, <3>2 DEF SessionOf, Cached
      <4>2. QED  BY <1>4, <1>7, <2>2, <4>1 DEF Inv, SavedInv
    <3>3. CASE KeyOf[t] \notin DOMAIN sessions[p]
      <4>1. Saving(t)
        BY <3>1, <3>3, LoadedDomain DEF SessionOf, Saving
      <4>2. QED  BY <1>7, <4>1
    <3>4. QED  BY <3>2, <3>3
  <2>3. QED  BY <2>1, <2>2
<1>9. \A u \in Trace \ {t} : (Saving(u) \/ u \in unsaved) => (Saving(u)' \/ u \in unsaved')
  BY <1>4, <1>7
<1>10. SavedType'
  BY <1>2, <1>3, <1>4, <1>5, <1>6 DEF Inv, SavedType
<1>11. \A q \in Proc : \A u \in Trace : Cached(q, u)' => Saving(u)' \/ u \in unsaved'
  BY <1>5, <1>8, <1>9
<1>12. \A q \in Proc : \A u \in given'[q] : Saving(u)' \/ u \in unsaved'
  <2> SUFFICES ASSUME NEW q \in Proc, NEW u \in given'[q], u # t
               PROVE  Saving(u)' \/ u \in unsaved'
    BY <1>8
  <2>1. u \in given[q] /\ u \in Trace
    BY <1>4 DEF Inv, SavedType
  <2>2. QED  BY <1>9, <2>1 DEF Inv, SavedInv
<1>13. \A u \in done' : Saving(u)'
  BY <1>4, <1>7 DEF Inv, SavedInv, SavedType
<1>14. QED  BY <1>10, <1>11, <1>12, <1>13 DEF Inv, SavedInv

LEMMA TakeUnsavedInv ==
  ASSUME Inv, NEW p \in Proc, TakeUnsaved(p)
  PROVE  Inv'
<1>1. feed[p] \in Seq(Trace \cup {Invalid}) /\ feed[p] # <<>> /\ Head(feed[p]) # Invalid
  BY DEF TakeUnsaved, Feeding, Inv, SavedType
<1>2. Head(feed[p]) \in Trace /\ <<>> \in Seq(Trace \cup {Invalid})
  BY <1>1, HeadTailProperties, EmptySeq
<1> PICK t \in Trace : t = Head(feed[p])
  BY <1>2
<1>3. /\ Put(p, t)
      /\ unsaved' = unsaved \cup {t}
      /\ feed' = [feed EXCEPT ![p] = <<>>]
      /\ UNCHANGED <<limit, given, sidecar, done>>
  BY DEF TakeUnsaved, Raise, vault
<1>4. /\ DOMAIN sessions' = Proc
      /\ \A q \in Proc : DOMAIN sessions'[q] \subseteq Key
      /\ \A q \in Proc : \A u \in Trace \ {t} : Cached(q, u)' => Saving(u) \/ u \in unsaved
  BY <1>3, PutCaches
<1>5. \A u : Saving(u)' <=> Saving(u)
  BY <1>3 DEF On, Saving
<1>6. SavedType'
  BY <1>2, <1>3, <1>4 DEF Inv, SavedType
<1>7. SavedInv'
  BY <1>3, <1>4, <1>5 DEF Inv, SavedInv
<1>8. QED  BY <1>6, <1>7 DEF Inv

-----------------------------------------------------------------------------
LEMMA ReturnInv ==
  ASSUME Inv, NEW p \in Proc, Return(p)
  PROVE  Inv'
<1>1. /\ sessions' = [sessions EXCEPT ![p] = Restrict(sessions[p], DOMAIN sessions[p] \ Evicted(lru[p]))]
      /\ done' = done \cup (given[p] \ unsaved)
      /\ UNCHANGED <<limit, feed, given, sidecar, unsaved>>
  BY DEF Return, vault
<1>2. DOMAIN sessions' = Proc /\ \A q \in Proc : /\ DOMAIN sessions'[q] \subseteq DOMAIN sessions[q]
                                               /\ \A k \in DOMAIN sessions'[q] : sessions'[q][k] = sessions[q][k]
  BY <1>1 DEF Inv, SavedType, Restrict
<1>3. QED  BY <1>1, <1>2, KeptSidecars DEF Inv, SavedType

LEMMA KilledInv ==
  ASSUME Inv, NEW p \in Proc, Killed(p)
  PROVE  Inv'
<1>1. DOMAIN <<>> = {} /\ <<>> \in Seq(Trace \cup {Invalid})
  BY EmptySeq
<1>2. /\ sessions' = [sessions EXCEPT ![p] = <<>>]
      /\ feed' = [feed EXCEPT ![p] = <<>>]
      /\ given' = [given EXCEPT ![p] = {}]
      /\ UNCHANGED <<limit, sidecar, unsaved, done>>
  BY DEF Killed, history
<1>3. /\ DOMAIN sessions' = Proc
      /\ \A q \in Proc : /\ DOMAIN sessions'[q] \subseteq DOMAIN sessions[q]
                          /\ \A k \in DOMAIN sessions'[q] : sessions'[q][k] = sessions[q][k]
      /\ DOMAIN given' = Proc /\ \A q \in Proc : given'[q] \subseteq given[q]
      /\ feed' \in [Proc -> Seq(Trace \cup {Invalid})]
  BY <1>1, <1>2 DEF Inv, SavedType
<1>4. QED  BY <1>2, <1>3, KeptSidecars DEF Inv, SavedType

LEMMA StepInv ==
  ASSUME Inv, [Next]_vars
  PROVE  Inv'
<1> USE DEF vault, history
<1>1. ASSUME NEW p \in Proc, Start(p) PROVE Inv'
  BY <1>1, KeptSidecars DEF Start, Inv, SavedType
<1>2. ASSUME NEW p \in Proc, Ingest(p) PROVE Inv'
  <2>1. feed' \in [Proc -> Seq(Trace \cup {Invalid})]
    BY <1>2, HermesAssumption DEF Ingest, Inv, SavedType
  <2>2. DOMAIN given' = Proc /\ \A q \in Proc : given'[q] \subseteq given[q]
    BY <1>2 DEF Ingest, Inv, SavedType
  <2>3. QED  BY <1>2, <2>1, <2>2, KeptSidecars DEF Ingest, Inv, SavedType
<1>3. ASSUME NEW p \in Proc, Take(p) PROVE Inv'
  BY <1>3, TakeInv
<1>4. ASSUME NEW p \in Proc, TakeInvalid(p) PROVE Inv'
  <2>1. feed' \in [Proc -> Seq(Trace \cup {Invalid})]
    BY <1>4, EmptySeq DEF TakeInvalid, Raise, Inv, SavedType
  <2>2. QED  BY <1>4, <2>1, KeptSidecars DEF TakeInvalid, Raise, Inv, SavedType
<1>5. ASSUME NEW p \in Proc, AllTaken(p) \/ Flush(p) \/ Reflect(p) PROVE Inv'
  <2>1. UNCHANGED <<limit, feed, sessions, given, sidecar, unsaved, done>>
    BY <1>5 DEF AllTaken, Flush, Reflect, process
  <2>2. QED  BY <2>1, KeptSidecars DEF Inv, SavedType
<1>6. ASSUME NEW p \in Proc, Return(p) PROVE Inv'
  BY <1>6, ReturnInv
<1>7. ASSUME NEW p \in Proc, Stop(p) \/ StopWriting(p) PROVE Inv'
  BY <1>7, KilledInv DEF Stop, StopWriting
<1>8. CASE UNCHANGED vars
  <2>1. UNCHANGED <<limit, feed, sessions, given, sidecar, unsaved, done>>
    BY <1>8 DEF vars, process
  <2>2. QED  BY <2>1, KeptSidecars DEF Inv, SavedType
<1>9. ASSUME NEW p \in Proc, TakeUnsaved(p) PROVE Inv'
  BY <1>9, TakeUnsavedInv
<1>10. ASSUME NEW p \in Proc, FlushFails(p) PROVE Inv'
  <2>1. feed' \in [Proc -> Seq(Trace \cup {Invalid})]
    BY <1>10, EmptySeq DEF FlushFails, Raise, Inv, SavedType
  <2>2. QED  BY <1>10, <2>1, KeptSidecars DEF FlushFails, Raise, Inv, SavedType
<1>11. QED
  BY <1>1, <1>2, <1>3, <1>4, <1>5, <1>6, <1>7, <1>8, <1>9, <1>10 DEF Next

-----------------------------------------------------------------------------
(* Every event of every ingest that returned, in whichever process, is in   *)
(* its sidecar, through ingests that failed on a bad line or a full disk    *)
(* and their retries, evictions, kills and restarts, unless its own line    *)
(* failed to be written (ingest, _append_sidecar).                          *)
THEOREM IngestsAreSaved == Spec => []IngestedIsSaved
<1>1. Inv => IngestedIsSaved
  BY LoadedDomain DEF Inv, SavedInv, Saving, IngestedIsSaved
<1>2. Inv /\ [Next]_vars => Inv'
  BY StepInv
<1>3. QED  BY <1>1, <1>2, InvInit, PTL DEF Spec

-----------------------------------------------------------------------------
(* What holds of a vault that one process keeps, as long as two sessions    *)
(* that have events do not share a file.                                    *)

OneProcess == \A p, q \in Proc : p = q

OwnFiles == \A t, u \in Trace : FileOf[KeyOf[t]] = FileOf[KeyOf[u]] => KeyOf[t] = KeyOf[u]

(* The session has the key's events that are saved, and what is unsaved.    *)
DerivedFrom(session, k) ==
    /\ \E t \in Trace : KeyOf[t] = k
    /\ session \in [DOMAIN session -> Limits]
    /\ \A t \in DOMAIN session : t \in Trace /\ KeyOf[t] = k
    /\ \A t \in Trace : KeyOf[t] = k => (Saving(t) <=> t \in DOMAIN session \ unsaved)

CacheInv ==
    /\ \A f \in File : \A t : On(f, t) => t \in Trace /\ FileOf[KeyOf[t]] = f
    /\ \A t \in unsaved : t \in Trace /\ ~Saving(t)
    /\ \A p \in Proc : \A k \in DOMAIN sessions[p] : DerivedFrom(sessions[p][k], k)

(* The first line of a trace id exists.                                     *)
LEMMA LoadedType ==
  ASSUME SavedType, NEW f \in File
  PROVE  Loaded(sidecar[f]) \in [DOMAIN Loaded(sidecar[f]) -> Limits]
<1> DEFINE lines == sidecar[f]
           First(t, i) == lines[i].trace_id = t /\ \A j \in 1 .. i - 1 : lines[j].trace_id # t
<1>1. lines \in Seq(Line) /\ Len(lines) \in Nat /\ DOMAIN lines = 1 .. Len(lines)
  BY LenProperties DEF SavedType
<1>2. ASSUME NEW t \in DOMAIN Loaded(lines)
      PROVE  \E i \in DOMAIN lines : First(t, i)
  <2> DEFINE T == {i \in DOMAIN lines : lines[i].trace_id = t}
  <2>1. T # {}
    BY <1>2 DEF Loaded
  <2>2. T \subseteq Nat
    BY <1>1
  <2>3. PICK i \in T : \A j \in T : ~ (<<j, i>> \in OpToRel(<, Nat))
    BY <2>1, <2>2, NatLessThanWellFounded, WFMin
  <2>4. \A j \in 1 .. i - 1 : lines[j].trace_id # t
    <3> SUFFICES ASSUME NEW j \in 1 .. i - 1, lines[j].trace_id = t PROVE FALSE
      OBVIOUS
    <3>1. i \in 1 .. Len(lines)
      BY <1>1, <2>3
    <3>2. j \in Nat /\ i \in Nat /\ j < i /\ j \in 1 .. Len(lines)
      BY <1>1, <3>1
    <3>3. j \in T
      BY <1>1, <3>2
    <3>4. QED  BY <2>3, <3>2, <3>3 DEF OpToRel
  <2>5. QED  BY <2>3, <2>4
<1>3. \A i \in DOMAIN lines : lines[i].cut \in Limits
  <2> HIDE DEF lines
  <2>1. \A i \in DOMAIN lines : lines[i] \in Line
    BY <1>1, ElementOfSeq
  <2>2. QED  BY <2>1 DEF Line
<1>4. Loaded(lines) = [t \in DOMAIN Loaded(lines) |-> lines[CHOOSE i \in DOMAIN lines : First(t, i)].cut]
  BY DEF Loaded
<1> HIDE DEF First, lines
<1>5. \A t \in DOMAIN Loaded(lines) : (CHOOSE i \in DOMAIN lines : First(t, i)) \in DOMAIN lines
  BY <1>2
<1>6. \A t \in DOMAIN Loaded(lines) : lines[CHOOSE i \in DOMAIN lines : First(t, i)].cut \in Limits
  BY <1>3, <1>5
<1>7. Loaded(lines) \in [DOMAIN Loaded(lines) -> Limits]
  BY <1>4, <1>6
<1>8. QED  BY <1>7 DEF lines

(* A session read back is one, too.                                         *)
LEMMA SessionDerived ==
  ASSUME Inv, CacheInv, OwnFiles, NEW p \in Proc, NEW t \in Trace
  PROVE  DerivedFrom(SessionOf(p, KeyOf[t]), KeyOf[t])
<1> DEFINE k == KeyOf[t]
<1>1. CASE k \in DOMAIN sessions[p]
  BY <1>1 DEF SessionOf, CacheInv
<1>2. CASE k \notin DOMAIN sessions[p]
  <2>1. FileOf[k] \in File
    BY HermesAssumption
  <2>2. SessionOf(p, k) = Loaded(sidecar[FileOf[k]])
    BY <1>2 DEF SessionOf
  <2>3. SessionOf(p, k) \in [DOMAIN SessionOf(p, k) -> Limits]
    BY <2>1, <2>2, LoadedType DEF Inv
  <2>4. \A u : u \in DOMAIN SessionOf(p, k) <=> On(FileOf[k], u)
    BY <2>2, LoadedDomain
  <2>5. \A u : On(FileOf[k], u) => u \in Trace /\ FileOf[KeyOf[u]] = FileOf[k]
    BY <2>1 DEF CacheInv
  <2>6. \A u : On(FileOf[k], u) => KeyOf[u] = k
    BY <2>5 DEF OwnFiles
  <2>7. \A u \in Trace : KeyOf[u] = k => (Saving(u) <=> On(FileOf[k], u))
    BY DEF Saving
  <2>8. \A u \in Trace : Saving(u) => u \notin unsaved
    BY DEF CacheInv
  <2>9. QED  BY <2>3, <2>4, <2>5, <2>6, <2>7, <2>8 DEF DerivedFrom
<1>3. QED  BY <1>1, <1>2

LEMMA KeptCache ==
  ASSUME CacheInv, sidecar' = sidecar, unsaved' = unsaved,
         \A p \in Proc : /\ DOMAIN sessions'[p] \subseteq DOMAIN sessions[p]
                         /\ \A k \in DOMAIN sessions'[p] : sessions'[p][k] = sessions[p][k]
  PROVE  CacheInv'
<1>1. /\ \A f, t : On(f, t)' <=> On(f, t)
      /\ \A t : Saving(t)' <=> Saving(t)
  BY DEF On, Saving
<1>2. \A s, k : DerivedFrom(s, k) => DerivedFrom(s, k)'
  BY <1>1 DEF DerivedFrom
<1>3. ASSUME NEW p \in Proc, NEW k \in DOMAIN sessions'[p]
      PROVE  DerivedFrom(sessions[p][k], k)'
  <2>1. DerivedFrom(sessions[p][k], k) /\ sessions'[p][k] = sessions[p][k]
    BY DEF CacheInv
  <2> PICK s : s = sessions[p][k]
    OBVIOUS
  <2>2. DerivedFrom(s, k)' /\ s = sessions'[p][k]
    BY <1>2, <2>1
  <2>3. QED  BY <2>2
<1>4. QED  BY <1>1, <1>3 DEF CacheInv

(* What caching an event makes of the session it enters.                    *)
LEMMA WithShape ==
  ASSUME NEW session, NEW t, NEW n \in Limits, session \in [DOMAIN session -> Limits]
  PROVE  /\ DOMAIN With(session, t, n) = DOMAIN session \cup {t}
         /\ With(session, t, n) \in [DOMAIN With(session, t, n) -> Limits]
BY DEF With

(* An event enters its session, saved or not: whether the cache derives     *)
(* from the sidecars afterwards is a matter of that session alone.          *)
LEMMA PutCache ==
  ASSUME Inv, CacheInv, OneProcess, OwnFiles, NEW p \in Proc, NEW t \in Trace,
         Put(p, t),
         NEW session, session = With(SessionOf(p, KeyOf[t]), t, limit[p]),
         \A u \in Trace : KeyOf[u] # KeyOf[t] => (Saving(u)' <=> Saving(u)),
         unsaved' \ {t} = unsaved \ {t},
         \A u \in Trace : KeyOf[u] = KeyOf[t] =>
            (Saving(u)' <=> u \in (DOMAIN SessionOf(p, KeyOf[t]) \cup {t}) \ unsaved')
  PROVE  \A q \in Proc : \A k \in DOMAIN sessions'[q] : DerivedFrom(sessions[q][k], k)'
<1>1. /\ DOMAIN sessions'[p] = {KeyOf[t]} \cup DOMAIN sessions[p]
      /\ sessions'[p][KeyOf[t]] = session
      /\ \A j \in DOMAIN sessions[p] \ {KeyOf[t]} : sessions'[p][j] = sessions[p][j]
  BY PutShape DEF Inv
<1>2. DerivedFrom(SessionOf(p, KeyOf[t]), KeyOf[t]) /\ limit[p] \in Limits
  BY SessionDerived DEF Inv, SavedType
<1>3. /\ DOMAIN session = DOMAIN SessionOf(p, KeyOf[t]) \cup {t}
      /\ session \in [DOMAIN session -> Limits]
  BY <1>2, WithShape DEF DerivedFrom
<1>4. DerivedFrom(session, KeyOf[t])'
  BY <1>2, <1>3 DEF DerivedFrom
<1>5. ASSUME NEW s, NEW k, k # KeyOf[t], DerivedFrom(s, k)
      PROVE  DerivedFrom(s, k)'
  <2>1. ASSUME NEW u \in Trace, KeyOf[u] = k
        PROVE  Saving(u)' <=> u \in DOMAIN s \ unsaved'
    <3>1. u # t /\ (Saving(u)' <=> Saving(u)) /\ (Saving(u) <=> u \in DOMAIN s \ unsaved)
      BY <1>5, <2>1 DEF DerivedFrom
    <3>2. u \in unsaved' <=> u \in unsaved
      BY <3>1
    <3>3. QED  BY <3>1, <3>2
  <2>2. QED  BY <1>5, <2>1 DEF DerivedFrom
<1>6. ASSUME NEW k \in DOMAIN sessions'[p]
      PROVE  DerivedFrom(sessions[p][k], k)'
  <2> PICK s : s = sessions'[p][k]
    OBVIOUS
  <2>1. CASE k = KeyOf[t]
    <3>1. s = session
      BY <1>1, <2>1
    <3>2. DerivedFrom(s, k)'
      BY <1>4, <2>1, <3>1
    <3>3. QED  BY <3>2
  <2>2. CASE k # KeyOf[t]
    <3>1. k \in DOMAIN sessions[p] /\ s = sessions[p][k]
      BY <1>1, <2>2
    <3>2. DerivedFrom(s, k)
      BY <3>1 DEF CacheInv
    <3>3. DerivedFrom(s, k)'
      BY <1>5, <2>2, <3>2
    <3>4. QED  BY <3>3
  <2>3. QED  BY <2>1, <2>2
<1>7. QED  BY <1>6 DEF OneProcess

LEMMA TakeCache ==
  ASSUME Inv, CacheInv, OneProcess, OwnFiles, NEW p \in Proc, Take(p)
  PROVE  CacheInv'
<1>1. Head(feed[p]) \in Trace
  <2>1. feed[p] \in Seq(Trace \cup {Invalid}) /\ feed[p] # <<>> /\ Head(feed[p]) # Invalid
    BY DEF Take, Feeding, Inv, SavedType
  <2>2. QED  BY <2>1, HeadTailProperties
<1> PICK t \in Trace : t = Head(feed[p])
  BY <1>1
<1> DEFINE f == FileOf[KeyOf[t]]
           S == DOMAIN SessionOf(p, KeyOf[t])
<1>2. /\ Put(p, t)
      /\ sidecar' = Saved(p, t)
      /\ unsaved' = IF IsNew(p, t) THEN unsaved \ {t} ELSE unsaved
      /\ IsNew(p, t) <=> t \notin S
      /\ f \in File
  BY HermesAssumption DEF Take, IsNew
<1>3. \A u \in Trace : KeyOf[u] = KeyOf[t] => (Saving(u) <=> u \in S \ unsaved)
  BY SessionDerived DEF DerivedFrom
<1>4. \A file \in File : \A u : On(file, u)' <=> On(file, u) \/ (IsNew(p, t) /\ file = f /\ u = t)
  <2>1. CASE IsNew(p, t)
    <3>1. /\ \A file \in File \ {f} : sidecar'[file] = sidecar[file]
          /\ \A u : On(f, u)' <=> On(f, u) \/ u = t
      BY <1>2, <2>1, SavedAdds DEF Inv
    <3>2. \A file \in File \ {f} : \A u : On(file, u)' <=> On(file, u)
      BY <3>1 DEF On
    <3> HIDE DEF f
    <3>3. QED  BY <2>1, <3>1, <3>2
  <2>2. CASE ~IsNew(p, t)
    BY <1>2, <2>2 DEF Saved, On
  <2>3. QED  BY <2>1, <2>2
<1>5. \A u \in Trace : Saving(u)' <=> Saving(u) \/ (IsNew(p, t) /\ u = t)
  <2> TAKE u \in Trace
  <2>1. FileOf[KeyOf[u]] \in File /\ (Saving(u) <=> On(FileOf[KeyOf[u]], u))
    BY HermesAssumption DEF Saving
  <2>2. Saving(u)' <=> On(FileOf[KeyOf[u]], u)'
    BY DEF Saving
  <2>3. QED  BY <1>4, <2>1, <2>2
<1>6. (\A file \in File : \A u : On(file, u) => u \in Trace /\ FileOf[KeyOf[u]] = file)'
  BY <1>4 DEF CacheInv
<1>7. \A u \in unsaved' : u \in Trace /\ ~Saving(u)'
  BY <1>2, <1>5 DEF CacheInv
<1>8. /\ \A u \in Trace : KeyOf[u] # KeyOf[t] => (Saving(u)' <=> Saving(u))
      /\ unsaved' \ {t} = unsaved \ {t}
  BY <1>2, <1>5
<1>9. \A u \in Trace : KeyOf[u] = KeyOf[t] => (Saving(u)' <=> u \in (S \cup {t}) \ unsaved')
  <2> HIDE DEF S
  <2>1. CASE IsNew(p, t)
    BY <1>2, <1>3, <1>5, <2>1
  <2>2. CASE ~IsNew(p, t)
    BY <1>2, <1>3, <1>5, <2>2
  <2>3. QED  BY <2>1, <2>2
<1>10. \A q \in Proc : \A k \in DOMAIN sessions'[q] : DerivedFrom(sessions[q][k], k)'
  BY <1>2, <1>8, <1>9, PutCache
<1>11. QED  BY <1>6, <1>7, <1>10 DEF CacheInv

LEMMA TakeUnsavedCache ==
  ASSUME Inv, CacheInv, OneProcess, OwnFiles, NEW p \in Proc, TakeUnsaved(p)
  PROVE  CacheInv'
<1>1. Head(feed[p]) \in Trace
  <2>1. feed[p] \in Seq(Trace \cup {Invalid}) /\ feed[p] # <<>> /\ Head(feed[p]) # Invalid
    BY DEF TakeUnsaved, Feeding, Inv, SavedType
  <2>2. QED  BY <2>1, HeadTailProperties
<1> PICK t \in Trace : t = Head(feed[p])
  BY <1>1
<1> DEFINE S == DOMAIN SessionOf(p, KeyOf[t])
<1>2. /\ Put(p, t)
      /\ sidecar' = sidecar
      /\ unsaved' = unsaved \cup {t}
      /\ t \notin S
  BY DEF TakeUnsaved, Raise, vault, IsNew
<1>3. \A u \in Trace : KeyOf[u] = KeyOf[t] => (Saving(u) <=> u \in S \ unsaved)
  BY SessionDerived DEF DerivedFrom
<1>4. /\ \A file, u : On(file, u)' <=> On(file, u)
      /\ \A u : Saving(u)' <=> Saving(u)
  BY <1>2 DEF On, Saving
<1>5. (\A file \in File : \A u : On(file, u) => u \in Trace /\ FileOf[KeyOf[u]] = file)'
  BY <1>4 DEF CacheInv
<1>6. \A u \in unsaved' : u \in Trace /\ ~Saving(u)'
  <2> HIDE DEF S
  <2>1. ~Saving(t)
    BY <1>2, <1>3
  <2>2. QED  BY <1>2, <1>4, <2>1 DEF CacheInv
<1>7. /\ \A u \in Trace : KeyOf[u] # KeyOf[t] => (Saving(u)' <=> Saving(u))
      /\ unsaved' \ {t} = unsaved \ {t}
  BY <1>2, <1>4
<1>8. \A u \in Trace : KeyOf[u] = KeyOf[t] => (Saving(u)' <=> u \in (S \cup {t}) \ unsaved')
  <2> HIDE DEF S
  <2>1. QED  BY <1>2, <1>3, <1>4
<1>9. \A q \in Proc : \A k \in DOMAIN sessions'[q] : DerivedFrom(sessions[q][k], k)'
  BY <1>2, <1>7, <1>8, PutCache
<1>10. QED  BY <1>5, <1>6, <1>9 DEF CacheInv

LEMMA CacheStep ==
  ASSUME Inv, CacheInv, OneProcess, OwnFiles, [Next]_vars
  PROVE  CacheInv'
<1> USE DEF vault, history, process
<1>1. ASSUME NEW p \in Proc, Start(p) \/ Ingest(p) \/ AllTaken(p) \/ Flush(p) \/ Reflect(p)
      PROVE  CacheInv'
  <2>1. UNCHANGED <<sessions, sidecar, unsaved>>
    BY <1>1 DEF Start, Ingest, AllTaken, Flush, Reflect
  <2>2. QED  BY <2>1, KeptCache
<1>2. ASSUME NEW p \in Proc, TakeInvalid(p) \/ FlushFails(p)
      PROVE  CacheInv'
  BY <1>2, KeptCache DEF TakeInvalid, FlushFails, Raise
<1>3. ASSUME NEW p \in Proc, Take(p) PROVE CacheInv'
  BY <1>3, TakeCache
<1>4. ASSUME NEW p \in Proc, TakeUnsaved(p) PROVE CacheInv'
  BY <1>4, TakeUnsavedCache
<1>5. ASSUME NEW p \in Proc, Return(p) PROVE CacheInv'
  <2>1. /\ sessions' = [sessions EXCEPT ![p] = Restrict(sessions[p], DOMAIN sessions[p] \ Evicted(lru[p]))]
        /\ UNCHANGED <<sidecar, unsaved>>
    BY <1>5 DEF Return
  <2>2. \A q \in Proc : /\ DOMAIN sessions'[q] \subseteq DOMAIN sessions[q]
                        /\ \A k \in DOMAIN sessions'[q] : sessions'[q][k] = sessions[q][k]
    BY <2>1 DEF Inv, SavedType, Restrict
  <2>3. QED  BY <2>1, <2>2, KeptCache
<1>6. ASSUME NEW p \in Proc, Stop(p) \/ StopWriting(p) PROVE CacheInv'
  <2>1. sessions' = [sessions EXCEPT ![p] = <<>>] /\ UNCHANGED <<sidecar, unsaved>>
    BY <1>6 DEF Stop, StopWriting, Killed
  <2>2. \A q \in Proc : /\ DOMAIN sessions'[q] \subseteq DOMAIN sessions[q]
                        /\ \A k \in DOMAIN sessions'[q] : sessions'[q][k] = sessions[q][k]
    BY <2>1 DEF Inv, SavedType
  <2>3. QED  BY <2>1, <2>2, KeptCache
<1>7. CASE UNCHANGED vars
  BY <1>7, KeptCache DEF vars
<1>8. QED
  BY <1>1, <1>2, <1>3, <1>4, <1>5, <1>6, <1>7 DEF Next

LEMMA CacheInit == Init => CacheInv
<1> SUFFICES ASSUME Init PROVE CacheInv
  OBVIOUS
<1>1. DOMAIN <<>> = {}
  OBVIOUS
<1>2. \A f \in File : \A t : ~On(f, t)
  BY <1>1 DEF Init, On
<1>3. unsaved = {} /\ \A p \in Proc : DOMAIN sessions[p] = {}
  BY <1>1 DEF Init
<1>4. QED  BY <1>2, <1>3 DEF CacheInv

LEMMA CacheInvariant ==
  ASSUME OneProcess, OwnFiles
  PROVE  Spec => [](Inv /\ CacheInv)
<1>1. Inv /\ CacheInv /\ [Next]_vars => Inv' /\ CacheInv'
  BY StepInv, CacheStep
<1>2. QED  BY <1>1, InvInit, CacheInit, PTL DEF Spec

-----------------------------------------------------------------------------
(* Notes: while an ingest is under way its events are cached, and those of  *)
(* the keys that are not left to write have their note, which is whole.     *)
NotedOrCut(t) == Noting(t) \/ Cut(t)

NoteInv ==
    /\ note \in [File -> Session \cup {None, Torn}]
    /\ \A t \in done : NotedOrCut(t)
    /\ \A p \in Proc : phase[p] \in {"feeding", "flushing"} =>
          /\ touched[p] \subseteq DOMAIN sessions[p]
          /\ \A t \in given[p] : Cached(p, t)
    /\ \A p \in Proc : phase[p] = "feeding" => \A t \in given[p] : KeyOf[t] \in touched[p]
    /\ \A p \in Proc : phase[p] = "flushing" =>
          \A t \in given[p] : KeyOf[t] \in touched[p] \/ Noting(t)

(* Every process has a phase and keys to write.                             *)
NoteType ==
    /\ DOMAIN phase = Proc
    /\ DOMAIN touched = Proc

LEMMA SameNotes ==
  ASSUME note' = note
  PROVE  \A t : (Noting(t)' <=> Noting(t)) /\ (NotedOrCut(t)' <=> NotedOrCut(t))
BY DEF Noting, Cut, NotedOrCut

(* Steps that write no note, and after which no ingest is under way.        *)
LEMMA KeptNotes ==
  ASSUME OneProcess, NoteInv, note' = note, done' = done, NEW p \in Proc,
         phase'[p] \notin {"feeding", "flushing"}
  PROVE  NoteInv'
<1>1. \A t : NotedOrCut(t)' <=> NotedOrCut(t)
  BY SameNotes
<1>2. \A q \in Proc : q = p
  BY DEF OneProcess
<1>3. QED  BY <1>1, <1>2 DEF NoteInv

LEMMA FlushNotes ==
  ASSUME Inv, CacheInv, NoteType, NoteInv, OneProcess, OwnFiles, NEW p \in Proc, Flush(p)
  PROVE  NoteInv'
<1>1. PICK k \in touched[p] :
          /\ note' = [note EXCEPT ![FileOf[k]] = Noted(p, k)]
          /\ touched' = [touched EXCEPT ![p] = touched[p] \ {k}]
  BY DEF Flush
<1>2. /\ phase[p] = "flushing"
      /\ UNCHANGED <<phase, sessions, given, sidecar, unsaved, done>>
  BY DEF Flush, history
<1>3. k \in DOMAIN sessions[p] /\ DerivedFrom(sessions[p][k], k)
  BY <1>2 DEF NoteInv, CacheInv
<1>4. k \in Key /\ FileOf[k] \in File
  BY <1>3, HermesAssumption DEF Inv, SavedType
<1> DEFINE S == sessions[p][k]
<1>5. S \in Session
  BY <1>3 DEF DerivedFrom, Session
<1>6. /\ note' \in [File -> Session \cup {None, Torn}]
      /\ note'[FileOf[k]] = S
      /\ \A f \in File \ {FileOf[k]} : note'[f] = note[f]
  BY <1>1, <1>4, <1>5 DEF NoteInv, Noted
<1>7. \A t \in Trace : FileOf[KeyOf[t]] = FileOf[k] => KeyOf[t] = k
  BY <1>3 DEF DerivedFrom, OwnFiles
<1>8. \A t \in Trace : KeyOf[t] # k =>
          (Noting(t)' <=> Noting(t)) /\ (NotedOrCut(t)' <=> NotedOrCut(t))
  BY <1>6, <1>7, HermesAssumption DEF Noting, Cut, NotedOrCut
<1>9. \A t \in Trace : KeyOf[t] = k /\ t \in DOMAIN S => Noting(t)'
  BY <1>5, <1>6, NoteAssumption DEF Noting
<1>10. \A t \in done' : NotedOrCut(t)'
  <2> SUFFICES ASSUME NEW t \in done, KeyOf[t] = k
               PROVE  t \in DOMAIN S
    BY <1>2, <1>8, <1>9 DEF NotedOrCut, NoteInv, Inv, SavedType
  <2>1. t \in Trace /\ Saving(t)
    BY DEF Inv, SavedInv, SavedType
  <2>2. QED  BY <1>3, <2>1 DEF DerivedFrom
<1>11. \A t \in given[p] : KeyOf[t] \in touched'[p] \/ Noting(t)'
  <2> SUFFICES ASSUME NEW t \in given[p], KeyOf[t] \notin touched'[p]
               PROVE  Noting(t)'
    OBVIOUS
  <2>1. t \in Trace
    BY DEF Inv, SavedType
  <2>2. CASE KeyOf[t] = k
    <3>1. t \in DOMAIN S
      BY <1>2, <2>2 DEF NoteInv, Cached
    <3>2. QED  BY <1>9, <2>1, <2>2, <3>1
  <2>3. CASE KeyOf[t] # k
    <3>1. KeyOf[t] \notin touched[p]
      BY <1>1, <2>3 DEF NoteType
    <3>2. Noting(t)
      BY <1>2, <3>1 DEF NoteInv
    <3>3. QED  BY <1>8, <2>1, <2>3, <3>2
  <2>4. QED  BY <2>2, <2>3
<1>12. \A t : Cached(p, t)' <=> Cached(p, t)
  BY <1>2 DEF Cached
<1>13. touched'[p] \subseteq touched[p]
  BY <1>1 DEF NoteType
<1>14. \A q \in Proc : q = p
  BY DEF OneProcess
<1> HIDE DEF S
<1>15. QED  BY <1>2, <1>6, <1>10, <1>11, <1>12, <1>13, <1>14 DEF NoteInv

LEMMA TakeNotes ==
  ASSUME Inv, NoteType, NoteInv, OneProcess, NEW p \in Proc, Take(p)
  PROVE  NoteInv'
<1>1. Head(feed[p]) \in Trace
  <2>1. feed[p] \in Seq(Trace \cup {Invalid}) /\ feed[p] # <<>> /\ Head(feed[p]) # Invalid
    BY DEF Take, Feeding, Inv, SavedType
  <2>2. QED  BY <2>1, HeadTailProperties
<1> PICK t \in Trace : t = Head(feed[p])
  BY <1>1
<1>2. /\ Put(p, t)
      /\ phase[p] = "feeding"
      /\ touched' = [touched EXCEPT ![p] = touched[p] \cup {KeyOf[t]}]
      /\ given' = [given EXCEPT ![p] = given[p] \cup {t}]
      /\ UNCHANGED <<phase, note, done>>
  BY DEF Take, Feeding
<1>3. /\ touched'[p] = touched[p] \cup {KeyOf[t]}
      /\ given'[p] = given[p] \cup {t}
  BY <1>2 DEF NoteType, Inv, SavedType
<1>4. /\ DOMAIN sessions'[p] = {KeyOf[t]} \cup DOMAIN sessions[p]
      /\ sessions'[p][KeyOf[t]] = With(SessionOf(p, KeyOf[t]), t, limit[p])
      /\ \A j \in DOMAIN sessions[p] \ {KeyOf[t]} : sessions'[p][j] = sessions[p][j]
  BY <1>2, PutShape DEF Inv
<1>5. DOMAIN sessions'[p][KeyOf[t]] = DOMAIN SessionOf(p, KeyOf[t]) \cup {t}
  BY <1>4 DEF With
<1>6. \A u : Cached(p, u) \/ u = t => Cached(p, u)'
  BY <1>4, <1>5 DEF Cached, SessionOf
<1>7. \A u : NotedOrCut(u)' <=> NotedOrCut(u)
  BY <1>2, SameNotes
<1>8. \A q \in Proc : q = p
  BY DEF OneProcess
<1>9. touched'[p] \subseteq DOMAIN sessions'[p] /\ \A u \in given'[p] : Cached(p, u)'
  BY <1>2, <1>3, <1>4, <1>6 DEF NoteInv
<1>10. \A u \in given'[p] : KeyOf[u] \in touched'[p]
  BY <1>2, <1>3 DEF NoteInv
<1>11. QED  BY <1>2, <1>7, <1>8, <1>9, <1>10 DEF NoteInv

LEMMA NoteStep ==
  ASSUME Inv, CacheInv, NoteType, NoteInv, OneProcess, OwnFiles, [Next]_vars
  PROVE  NoteInv' /\ NoteType'
<1> USE DEF vault, history, process
<1>1. NoteType'
  BY DEF NoteType, Next, vars, Start, Ingest, Take, TakeInvalid, TakeUnsaved, Raise, AllTaken,
         Flush, FlushFails, Return, Stop, StopWriting, Killed, Reflect
<1>2. ASSUME NEW p \in Proc, Start(p) \/ TakeInvalid(p) \/ TakeUnsaved(p) \/ Stop(p)
      PROVE  NoteInv'
  <2>1. note' = note /\ done' = done /\ phase'[p] \notin {"feeding", "flushing"}
    BY <1>2 DEF Start, TakeInvalid, TakeUnsaved, Raise, Stop, Killed, NoteType
  <2>2. QED  BY <2>1, KeptNotes
<1>3. ASSUME NEW p \in Proc, Ingest(p) PROVE NoteInv'
  <2>1. /\ note' = note /\ done' = done /\ phase'[p] = "feeding"
        /\ touched'[p] = {} /\ given'[p] = {}
    BY <1>3 DEF Ingest, NoteType, Inv, SavedType
  <2>2. \A t : NotedOrCut(t)' <=> NotedOrCut(t)
    BY <2>1, SameNotes
  <2>3. \A q \in Proc : q = p
    BY DEF OneProcess
  <2>4. QED  BY <2>1, <2>2, <2>3 DEF NoteInv
<1>4. ASSUME NEW p \in Proc, Take(p) PROVE NoteInv'
  BY <1>4, TakeNotes
<1>5. ASSUME NEW p \in Proc, AllTaken(p) PROVE NoteInv'
  <2>1. /\ phase[p] = "feeding" /\ phase'[p] = "flushing"
        /\ UNCHANGED <<sessions, touched, given, note, done>>
    BY <1>5 DEF AllTaken, NoteType
  <2>2. \A t : /\ (Noting(t)' <=> Noting(t)) /\ (NotedOrCut(t)' <=> NotedOrCut(t))
              /\ (Cached(p, t)' <=> Cached(p, t))
    BY <2>1, SameNotes DEF Cached
  <2>3. \A q \in Proc : q = p
    BY DEF OneProcess
  <2>4. QED  BY <2>1, <2>2, <2>3 DEF NoteInv
<1>6. ASSUME NEW p \in Proc, Flush(p) PROVE NoteInv'
  BY <1>6, FlushNotes
<1>7. ASSUME NEW p \in Proc, Return(p) PROVE NoteInv'
  <2>1. /\ phase[p] = "flushing" /\ touched[p] = {} /\ phase'[p] = "idle"
        /\ note' = note /\ done' = done \cup (given[p] \ unsaved)
    BY <1>7 DEF Return, NoteType
  <2>2. \A t : (Noting(t)' <=> Noting(t)) /\ (NotedOrCut(t)' <=> NotedOrCut(t))
    BY <2>1, SameNotes
  <2>3. \A t \in done' : NotedOrCut(t)'
    BY <2>1, <2>2 DEF NoteInv, NotedOrCut
  <2>4. \A q \in Proc : q = p
    BY DEF OneProcess
  <2>5. QED  BY <2>1, <2>3, <2>4 DEF NoteInv
(* A kill or an error between two notes, or in the middle of one. *)
<1>8. ASSUME NEW p \in Proc, StopWriting(p) \/ FlushFails(p) PROVE NoteInv'
  <2>1. PICK k \in touched[p] : note' = note \/ note' = [note EXCEPT ![FileOf[k]] = Torn]
    BY <1>8 DEF StopWriting, FlushFails, NoteFails
  <2>2. phase'[p] \in {"down", "idle"} /\ done' = done
    BY <1>8 DEF StopWriting, FlushFails, Raise, Killed, NoteType
  <2>3. note' \in [File -> Session \cup {None, Torn}]
    BY <2>1 DEF NoteInv
  <2>4. \A t \in Trace : NotedOrCut(t) => NotedOrCut(t)'
    BY <2>1, HermesAssumption DEF Noting, Cut, NotedOrCut, NoteInv
  <2>5. \A q \in Proc : q = p
    BY DEF OneProcess
  <2>6. QED  BY <2>2, <2>3, <2>4, <2>5 DEF NoteInv, Inv, SavedType
<1>9. ASSUME NEW p \in Proc, Reflect(p) PROVE NoteInv'
  <2>1. UNCHANGED <<phase, sessions, touched, given, note, done>>
    BY <1>9 DEF Reflect
  <2>2. \A t : (Noting(t)' <=> Noting(t)) /\ (NotedOrCut(t)' <=> NotedOrCut(t))
    BY <2>1, SameNotes
  <2>3. \A q, t : Cached(q, t)' <=> Cached(q, t)
    BY <2>1 DEF Cached
  <2>4. QED  BY <2>1, <2>2, <2>3 DEF NoteInv
<1>10. CASE UNCHANGED vars
  <2>1. UNCHANGED <<phase, sessions, touched, given, note, done>>
    BY <1>10 DEF vars
  <2>2. \A t : (Noting(t)' <=> Noting(t)) /\ (NotedOrCut(t)' <=> NotedOrCut(t))
    BY <2>1, SameNotes
  <2>3. \A q, t : Cached(q, t)' <=> Cached(q, t)
    BY <2>1 DEF Cached
  <2>4. QED  BY <1>1, <2>1, <2>2, <2>3 DEF NoteInv
<1>11. QED
  BY <1>1, <1>2, <1>3, <1>4, <1>5, <1>6, <1>7, <1>8, <1>9, <1>10 DEF Next

(* With one process over the vault, and one limit for its life, a cached    *)
(* session is what its sidecar would be loaded as, but for the events whose *)
(* line failed to be written (ingest, _load_sidecar).                       *)
THEOREM CacheDerives ==
  ASSUME OneProcess, OwnFiles, \A m, n \in Limits : m = n
  PROVE  Spec => []CacheIsDerived
<1>1. Inv /\ CacheInv => CacheIsDerived
  <2> SUFFICES ASSUME Inv, CacheInv, NEW p \in Proc, NEW k \in DOMAIN sessions[p]
               PROVE  Restrict(sessions[p][k], DOMAIN sessions[p][k] \ unsaved)
                        = Loaded(sidecar[FileOf[k]])
    BY DEF CacheIsDerived
  <2> DEFINE S == sessions[p][k]
             L == Loaded(sidecar[FileOf[k]])
  <2>1. DerivedFrom(S, k)
    BY DEF CacheInv
  <2>2. PICK t \in Trace : KeyOf[t] = k
    BY <2>1 DEF DerivedFrom
  <2>3. FileOf[k] \in File
    BY <2>2, HermesAssumption
  <2>4. L \in [DOMAIN L -> Limits]
    BY <2>3, LoadedType DEF Inv
  <2>5. \A u : u \in DOMAIN L <=> On(FileOf[k], u)
    BY LoadedDomain
  <2>6. \A u : On(FileOf[k], u) <=> u \in Trace /\ KeyOf[u] = k /\ Saving(u)
    <3>1. \A u : On(FileOf[k], u) => u \in Trace /\ FileOf[KeyOf[u]] = FileOf[k]
      BY <2>3 DEF CacheInv
    <3>2. QED  BY <2>2, <3>1 DEF OwnFiles, Saving
  <2>7. \A u : u \in DOMAIN L <=> u \in DOMAIN S \ unsaved
    BY <2>1, <2>5, <2>6 DEF DerivedFrom
  <2>8. S \in [DOMAIN S -> Limits]
    BY <2>1 DEF DerivedFrom
  <2> HIDE DEF S, L
  <2>9. DOMAIN L = DOMAIN S \ unsaved
    BY <2>7
  <2>10. \A u \in DOMAIN L : L[u] = S[u]
    BY <2>4, <2>8, <2>9
  <2>11. Restrict(S, DOMAIN S \ unsaved) = [u \in DOMAIN L |-> S[u]]
    BY <2>9, Zenon DEF Restrict
  <2>12. L = [u \in DOMAIN L |-> S[u]]
    BY <2>4, <2>10
  <2>13. QED  BY <2>11, <2>12 DEF S, L
<1>2. QED  BY <1>1, CacheInvariant, PTL

(* With one process over the vault, the note of a session has every event   *)
(* of the ingests that returned; a kill or a full disk may cut it short,    *)
(* and no ingest that returns leaves a note of its sessions so (ingest,     *)
(* _flush_session).                                                         *)
THEOREM IngestsAreNoted ==
  ASSUME OneProcess, OwnFiles
  PROVE  Spec => IngestedIsNoted
<1> DEFINE IInv == Inv /\ CacheInv /\ NoteType /\ NoteInv
           Told == \A t \in done' : Noting(t)' \/ (Cut(t)' /\ ~Returning(t))
<1>1. Init => IInv
  <2>1. Init => NoteType /\ NoteInv
    BY DEF Init, NoteType, NoteInv
  <2>2. QED  BY <2>1, InvInit, CacheInit
<1>2. IInv /\ [Next]_vars => IInv'
  BY StepInv, CacheStep, NoteStep
<1>3. IInv /\ IInv' => Told
  <2> SUFFICES ASSUME NoteInv, NoteInv', NEW t \in done', Returning(t)
               PROVE  ~Cut(t)'
    BY DEF NoteInv, NotedOrCut
  <2>1. PICK p \in Proc : Return(p) /\ \E u \in given[p] : KeyOf[u] = KeyOf[t]
    BY DEF Returning
  <2>2. PICK u \in given[p] : KeyOf[u] = KeyOf[t]
    BY <2>1
  <2>3. phase[p] = "flushing" /\ touched[p] = {} /\ note' = note
    BY <2>1 DEF Return, vault
  <2>4. Noting(u)
    BY <2>3 DEF NoteInv
  <2>5. QED  BY <2>2, <2>3, <2>4 DEF Noting, Cut
<1>4. IInv /\ [Next]_vars => [Told]_vars
  BY <1>2, <1>3
<1> HIDE DEF IInv, Told
<1>5. Spec => [][Told]_vars
  BY <1>1, <1>2, <1>4, PTL DEF Spec
<1>6. QED  BY <1>5 DEF Told, IngestedIsNoted

(* With one process over the vault, a reflection counts every saved event   *)
(* once, cached, evicted or of an earlier process, if the name of its       *)
(* session is a file name (reflect, _all_known_keys).                       *)
THEOREM ReflectionsCount ==
  ASSUME OneProcess, OwnFiles
  PROVE  Spec => ReflectionCounts
<1> DEFINE Counts == \A p \in Proc : Reflect(p) =>
              \A f \in File : \A t \in DOMAIN Loaded(sidecar[f]) :
                  Safe(KeyOf[t]) => ReflectedOnce(t)'
<1>1. Inv /\ CacheInv => Counts
  <2> SUFFICES ASSUME Inv, CacheInv, NEW p \in Proc, Reflect(p),
                      NEW f \in File, NEW t \in DOMAIN Loaded(sidecar[f]), Safe(KeyOf[t])
               PROVE  ReflectedOnce(t)'
    OBVIOUS
  <2> DEFINE k == KeyOf[t]
  <2>1. reflected' = [j \in {j \in AllKnownKeys(p) : SessionOf(p, j) # <<>>} |-> SessionOf(p, j)]
    BY DEF Reflect
  <2>2. On(f, t) /\ t \in Trace /\ FileOf[k] = f /\ NamedBy[f] = k
    BY LoadedDomain DEF CacheInv, Safe
  <2>3. Saving(t) /\ t \notin unsaved
    BY <2>2 DEF Saving, CacheInv
  <2>4. t \in DOMAIN SessionOf(p, k)
    BY <2>2, <2>3, SessionDerived DEF DerivedFrom
  <2>5. k \in AllKnownKeys(p)
    <3>1. sidecar[f] # <<>>
      BY <2>2 DEF On
    <3>2. QED  BY <2>2, <3>1 DEF AllKnownKeys
  <2>6. SessionOf(p, k) # <<>>
    BY <2>4
  <2>7. k \in DOMAIN reflected' /\ t \in DOMAIN reflected'[k]
    BY <2>1, <2>4, <2>5, <2>6
  <2>8. ASSUME NEW j \in DOMAIN reflected' \ {k}
        PROVE  t \notin DOMAIN reflected'[j]
    <3>1. j \in AllKnownKeys(p) /\ reflected'[j] = SessionOf(p, j)
      BY <2>1
    <3>2. CASE j \in DOMAIN sessions[p]
      <4>1. DerivedFrom(SessionOf(p, j), j)
        BY <3>2 DEF CacheInv, SessionOf
      <4>2. QED  BY <3>1, <4>1 DEF DerivedFrom
    <3>3. CASE j \notin DOMAIN sessions[p]
      <4>1. PICK g \in File : j = NamedBy[g]
        BY <3>1, <3>3 DEF AllKnownKeys
      <4>2. FileOf[j] = g /\ g # f
        BY <2>2, <4>1, HermesAssumption
      <4>3. ~On(g, t)
        BY <2>2, <4>2 DEF CacheInv
      <4>4. SessionOf(p, j) = Loaded(sidecar[g])
        BY <3>3, <4>2 DEF SessionOf
      <4>5. QED  BY <3>1, <4>3, <4>4, LoadedDomain
    <3>4. QED  BY <3>2, <3>3
  <2> HIDE DEF k
  <2>9. QED  BY <2>7, <2>8 DEF ReflectedOnce
<1>2. Spec => [][Counts]_vars
  <2>1. Inv /\ CacheInv /\ [Next]_vars => [Counts]_vars
    BY <1>1
  <2> HIDE DEF Counts
  <2>2. QED  BY <2>1, CacheInvariant, PTL DEF Spec
<1>3. QED  BY <1>2 DEF ReflectionCounts
=============================================================================
