--------------------------- MODULE ServiceProofs ---------------------------
(***************************************************************************)
(* The service over any of its backends keeps the TraceStore contract,     *)
(* batches over Postgres are atomic, the counters are exact, and the       *)
(* closing checkpoints cover what was acknowledged: for any requests,      *)
(* batches, pool sizes and rate limit.                                     *)
(***************************************************************************)
EXTENDS Service, FiniteSetTheorems, FunctionTheorems, SequenceTheorems, TLAPS

-----------------------------------------------------------------------------
(* Types. *)

TxStage == {"none", "acquire", "open", "committed", "ended"}
Stages  == {"new", "handling", "reply", "answered", "dropped"}

Row == [trace : Trace, seq : Nat, by : Batch]
Tx  == [stage : TxStage, next : Nat \ {0}, rows : SUBSET Row]

TypeOK ==
    /\ table \in SUBSET Row
    /\ nextSeq \in Nat
    /\ tx \in [Batch -> Tx]
    /\ result \in [Batch -> Nat \cup {None, Err}]
    /\ stage \in [Request -> Stages]
    /\ status \in [Request -> Status \cup {None}]
    /\ route \in [Request -> {"ingest", "list", "attest", "check"}]
    /\ tracked \in [Status -> Nat]
    /\ checks \in Nat
    /\ ingested \in Nat

(* The rows of a batch in the table. *)
By(b) == {row \in table : row.by = b}

-----------------------------------------------------------------------------
(* The store. *)

(* An event is in the table once. *)
Once == \A row, other \in table : row.trace = other.trace => row = other

(* A transaction's rows are of its batch, each event once. *)
Own(b) ==
    /\ \A row \in tx[b].rows : row.by = b /\ row.trace \in EventsOf[b]
    /\ \A row, other \in tx[b].rows : row.trace = other.trace => row = other

(* What it has got through is in the table or among its rows ... *)
Done(b) ==
    \A i \in DOMAIN Body[b] :
        i < tx[b].next => Body[b][i] \in Stored \/ Holds(b, Body[b][i])

(* ... which nobody else has. *)
Fresh(b) ==
    \A row \in tx[b].rows :
        /\ row.trace \notin Stored
        /\ \A c \in Batch : c # b => ~Holds(c, row.trace)

(* What there is of a batch, by the stage of its transaction ... *)
InPostgres(b) ==
    /\ tx[b].stage # "ended" => result[b] = None
    /\ tx[b].stage \in {"none", "acquire"} => tx[b].next = 1
    /\ tx[b].stage \in {"none", "acquire", "ended"} => tx[b].rows = {}
    /\ tx[b].stage \in {"none", "acquire", "open"} => By(b) = {}
    /\ tx[b].stage = "open" => Done(b) /\ Fresh(b)
    /\ tx[b].stage = "committed" => EventsOf[b] \subseteq Stored /\ tx[b].rows = By(b)

(* ... and in a log, where what is counted is what was written. *)
InLog(b) ==
    /\ tx[b].stage = "none"
    /\ result[b] = None => Done(b) /\ tx[b].rows = By(b)

BatchInv(b) ==
    /\ Own(b)
    /\ backend = "postgres" => InPostgres(b)
    /\ backend # "postgres" => InLog(b)
    /\ result[b] \in Nat => result[b] = Cardinality(By(b))

StoreInv ==
    /\ IsFiniteSet(table)
    /\ \A b \in Batch : IsFiniteSet(tx[b].rows)
    /\ Once
    /\ BatchesWhole
    /\ \A b \in Batch : BatchInv(b)

LEMMA StoredIs == \A t : t \in Stored <=> \E row \in table : row.trace = t
BY DEF Stored

LEMMA EventsOfBody ==
  ASSUME NEW b \in Batch
  PROVE  /\ Body[b] \in Seq(Trace)
         /\ DOMAIN Body[b] = 1 .. Len(Body[b])
         /\ Len(Body[b]) \in Nat
         /\ EventsOf[b] = {Body[b][i] : i \in DOMAIN Body[b]}
         /\ \A i \in DOMAIN Body[b] : Body[b][i] \in EventsOf[b] /\ Body[b][i] \in Trace
<1>1. Body[b] \in Seq(Trace)
  BY PostgresAssumption
<1>2. DOMAIN Body[b] = 1 .. Len(Body[b]) /\ Len(Body[b]) \in Nat
  BY <1>1, LenProperties
<1>3. EventsOf[b] = {Body[b][i] : i \in DOMAIN Body[b]}
  BY DEF EventsOf, Range
<1>4. \A i \in DOMAIN Body[b] : Body[b][i] \in Trace
  BY <1>1, <1>2, ElementOfSeq
<1>5. QED  BY <1>1, <1>2, <1>3, <1>4

(* A batch's rows, over a step that leaves them alone. *)
LEMMA SameBy ==
  ASSUME NEW b, \A row : (row \in table' /\ row.by = b) <=> (row \in table /\ row.by = b)
  PROVE  By(b)' = By(b) /\ Cardinality(By(b)') = Cardinality(By(b))
<1>1. By(b)' = By(b)
  BY DEF By
<1>2. QED  BY <1>1, Zenon

-----------------------------------------------------------------------------
(* The steps, as the store sees them. *)

(* The append's end with an error, wherever it happens. *)
Ends(b) == tx[b].stage \in {"acquire", "open", "committed"} /\ Failed(b)

PostgresStep(b) ==
    /\ OverPostgres(b)
    /\ Acquire(b) \/ Begin(b) \/ Insert(b) \/ Ends(b) \/ Commit(b) \/ Committed(b)

LEMMA StoreSteps ==
  ASSUME [Next]_vars
  PROVE  /\ backend' = backend
         /\ \/ UNCHANGED store
            \/ \E b \in Batch : PostgresStep(b) \/ AppendEvent(b) \/ AppendFails(b) \/ AppendsDone(b)
<1>1. ASSUME NEW b \in Batch, CallPostgres(b) \/ PostgresProgress(b) \/ PostgresError(b) \/ Disconnect(b)
      PROVE  backend' = backend /\ PostgresStep(b)
  <2>1. backend' = backend /\ OverPostgres(b)
    BY <1>1 DEF CallPostgres, PostgresProgress, PostgresError, Disconnect, config
  <2>2. CASE CallPostgres(b)
    BY <2>1, <2>2 DEF CallPostgres, PostgresStep
  <2>3. CASE PostgresProgress(b)
    <3>1. DeadlockAborts(b) => Ends(b)
      BY DEF DeadlockAborts, Deadlocked, Circle, WaitsFor, Inserting, Ends
    <3>2. QED  BY <2>1, <2>3, <3>1 DEF PostgresProgress, Progress, PostgresStep
  <2>4. CASE PostgresError(b)
    BY <2>1, <2>4 DEF PostgresError, Error, BeginFails, InsertFails, Inserting, CommitFails,
                      CommitLost, Ends, PostgresStep
  <2>5. CASE Disconnect(b)
    BY <2>1, <2>5 DEF Disconnect, Dropped, Ends, PostgresStep
  <2>6. QED  BY <1>1, <2>2, <2>3, <2>4, <2>5
<1>2. ASSUME NEW b \in Batch, AppendEvent(b) \/ AppendFails(b) \/ AppendsDone(b)
      PROVE  backend' = backend
  BY <1>2 DEF AppendEvent, AppendFails, AppendsDone, config
<1>3. ASSUME NEW r \in Request,
             Arrive(r) \/ IngestReplies(r) \/ Check(r) \/ List(r) \/ Attest(r) \/ Track(r)
      PROVE  backend' = backend /\ UNCHANGED store
  BY <1>3 DEF Arrive, IngestReplies, Check, List, Attest, Track, config
<1>4. ASSUME Listen \/ Refuse \/ Tick \/ Interrupt \/ Close \/ UNCHANGED vars
      PROVE  backend' = backend /\ UNCHANGED store
  BY <1>4 DEF Listen, Refuse, Tick, Interrupt, Close, vars, config
<1>5. QED
  BY <1>1, <1>2, <1>3, <1>4, ServiceAssumption DEF Next, Step, IngestStep, Fault

-----------------------------------------------------------------------------
(* What the store has. *)

(* The row an event gets. *)
RowOf(b) == [trace |-> Inserted(b), seq |-> nextSeq, by |-> b]

LEMMA InsertedIsBody ==
  ASSUME TypeOK, NEW b \in Batch, tx[b].next <= Len(Body[b])
  PROVE  /\ tx[b].next \in DOMAIN Body[b]
         /\ Inserted(b) \in EventsOf[b]
         /\ RowOf(b) \in Row
<1>1. tx[b] \in Tx
  BY DEF TypeOK
<1>2. tx[b].next \in Nat \ {0}
  BY <1>1 DEF Tx
<1>3. tx[b].next \in DOMAIN Body[b]
  BY <1>2, EventsOfBody
<1>4. Inserted(b) \in EventsOf[b] /\ Inserted(b) \in Trace
  BY <1>3, EventsOfBody DEF Inserted
<1>5. QED  BY <1>3, <1>4 DEF RowOf, Row, TypeOK

LEMMA StoreTypeStep ==
  ASSUME TypeOK, StoreInv, [Next]_vars
  PROVE  /\ table' \in SUBSET Row
         /\ nextSeq' \in Nat
         /\ tx' \in [Batch -> Tx]
         /\ result' \in [Batch -> Nat \cup {None, Err}]
<1> DEFINE Typed == /\ table' \in SUBSET Row
                    /\ nextSeq' \in Nat
                    /\ tx' \in [Batch -> Tx]
                    /\ result' \in [Batch -> Nat \cup {None, Err}]
<1>1. CASE UNCHANGED store
  BY <1>1 DEF TypeOK, store
<1>2. ASSUME NEW b \in Batch, PostgresStep(b)
      PROVE  Typed
  <2>1. tx[b] \in Tx /\ Cardinality(tx[b].rows) \in Nat
    BY FS_CardinalityType DEF TypeOK, StoreInv
  <2>2. CASE Acquire(b) \/ Begin(b)
    BY <2>1, <2>2 DEF Acquire, Begin, TypeOK, Tx, TxStage
  <2>3. CASE Insert(b)
    <3>1. RowOf(b) \in Row
      BY <2>3, InsertedIsBody DEF Insert, Inserting
    <3>2. QED  BY <2>1, <2>3, <3>1 DEF Insert, RowOf, TypeOK, Tx, TxStage
  <2>4. CASE Ends(b)
    BY <2>1, <2>4 DEF Ends, Failed, TypeOK, Tx, TxStage
  <2>5. CASE Commit(b)
    BY <2>1, <2>5 DEF Commit, TypeOK, Tx, TxStage
  <2>6. CASE Committed(b)
    BY <2>1, <2>6 DEF Committed, TypeOK, Tx, TxStage
  <2>7. QED  BY <1>2, <2>2, <2>3, <2>4, <2>5, <2>6 DEF PostgresStep
<1>3. ASSUME NEW b \in Batch, AppendEvent(b) \/ AppendFails(b)
      PROVE  Typed
  <2>1. tx[b] \in Tx
    BY DEF TypeOK
  <2>2. RowOf(b) \in Row
    BY <1>3, InsertedIsBody DEF AppendEvent, AppendFails, Appending
  <2>3. NewRow(b) \in SUBSET Row
    BY <2>2 DEF NewRow, RowOf
  <2>4. Cardinality(NewRow(b)) \in Nat
    BY FS_EmptySet, FS_Singleton, FS_CardinalityType DEF NewRow
  <2>5. CASE AppendEvent(b)
    <3>1. tx' = [tx EXCEPT ![b].next = @ + 1, ![b].rows = @ \cup NewRow(b)]
      BY <2>5 DEF AppendEvent
    <3>2. tx'[b] = [tx[b] EXCEPT !.next = @ + 1, !.rows = @ \cup NewRow(b)]
      BY <3>1 DEF TypeOK
    <3>3. tx[b].next + 1 \in Nat \ {0} /\ tx[b].rows \cup NewRow(b) \in SUBSET Row
      BY <2>1, <2>3 DEF Tx
    <3>4. tx'[b] \in Tx
      BY <2>1, <3>2, <3>3 DEF Tx
    <3>5. tx' \in [Batch -> Tx]
      BY <3>1, <3>4 DEF TypeOK
    <3>6. QED  BY <2>3, <2>4, <2>5, <3>5 DEF AppendEvent, TypeOK
  <2>6. CASE AppendFails(b)
    BY <2>1, <2>3, <2>6 DEF AppendFails, TypeOK, Tx
  <2>7. QED  BY <1>3, <2>5, <2>6
<1>4. ASSUME NEW b \in Batch, AppendsDone(b)
      PROVE  Typed
  <2>1. Cardinality(tx[b].rows) \in Nat
    BY FS_CardinalityType DEF StoreInv
  <2>2. QED  BY <1>4, <2>1 DEF AppendsDone, TypeOK
<1>5. QED  BY <1>1, <1>2, <1>3, <1>4, StoreSteps

(* A step of one batch leaves the others as they were, if what they have    *)
(* inserted is still nobody else's.                                         *)
Elsewhere(b) ==
    \A c \in Batch : c # b => tx'[c] = tx[c] /\ result'[c] = result[c] /\ By(c)' = By(c)

LEMMA OthersKeep ==
  ASSUME StoreInv, backend' = backend, NEW b \in Batch, Elsewhere(b), Stored \subseteq Stored',
         \A c \in Batch : c # b /\ backend = "postgres" /\ tx[c].stage = "open" => Fresh(c)'
  PROVE  \A c \in Batch : c # b => BatchInv(c)'
<1> SUFFICES ASSUME NEW c \in Batch, c # b PROVE BatchInv(c)'
  OBVIOUS
<1>1. tx'[c] = tx[c] /\ result'[c] = result[c] /\ By(c)' = By(c) /\ BatchInv(c)
  BY DEF Elsewhere, StoreInv
<1>2. Own(c)'
  BY <1>1 DEF BatchInv, Own
<1>3. Done(c) => Done(c)'
  BY <1>1 DEF Done, Holds
<1>4. backend = "postgres" => InPostgres(c)'
  BY <1>1, <1>3 DEF BatchInv, InPostgres
<1>5. backend # "postgres" => InLog(c)'
  BY <1>1, <1>3 DEF BatchInv, InLog
<1>6. Cardinality(By(c)') = Cardinality(By(c))
  BY <1>1, Zenon
<1>7. result'[c] \in Nat => result'[c] = Cardinality(By(c)')
  BY <1>1, <1>6 DEF BatchInv
<1>8. QED  BY <1>2, <1>4, <1>5, <1>7 DEF BatchInv

LEMMA OthersFresh ==
  ASSUME NEW c \in Batch, Fresh(c), tx'[c].rows = tx[c].rows,
         \A row \in tx[c].rows : row.trace \notin Stored',
         \A d \in Batch : \A row \in tx[c].rows :
             d # c /\ Holds(d, row.trace)' => Holds(d, row.trace)
  PROVE  Fresh(c)'
BY DEF Fresh

(* A step that leaves the table alone. *)
LEMMA TableKept ==
  ASSUME StoreInv, backend' = backend, table' = table
  PROVE  /\ IsFiniteSet(table)' /\ Once' /\ BatchesWhole'
         /\ Stored' = Stored
         /\ \A c \in Batch : By(c)' = By(c)
<1>1. Stored' = Stored
  BY DEF Stored
<1>2. QED  BY <1>1 DEF StoreInv, Once, BatchesWhole, By

(* A step of one batch over the same table. *)
LEMMA QuietKeeps ==
  ASSUME StoreInv, backend' = backend, table' = table, NEW b \in Batch,
         \A c \in Batch : c # b => tx'[c] = tx[c] /\ result'[c] = result[c],
         IsFiniteSet(tx'[b].rows), BatchInv(b)',
         \A c \in Batch : c # b /\ backend = "postgres" /\ tx[c].stage = "open" /\ Fresh(c)
             => Fresh(c)'
  PROVE  StoreInv'
<1>1. /\ IsFiniteSet(table)' /\ Once' /\ BatchesWhole' /\ Stored \subseteq Stored'
      /\ \A c \in Batch : By(c)' = By(c)
  BY TableKept
<1>2. Elsewhere(b)
  BY <1>1 DEF Elsewhere
<1>3. \A c \in Batch : c # b => BatchInv(c)'
  <2>1. \A c \in Batch : backend = "postgres" /\ tx[c].stage = "open" => Fresh(c)
    BY DEF StoreInv, BatchInv, InPostgres
  <2>2. QED  BY <1>1, <1>2, <2>1, OthersKeep
<1>4. \A c \in Batch : IsFiniteSet(tx'[c].rows)
  BY DEF StoreInv
<1>5. QED  BY <1>1, <1>3, <1>4 DEF StoreInv

-----------------------------------------------------------------------------
(* The steps of Postgres. *)

LEMMA AcquireKeeps ==
  ASSUME TypeOK, StoreInv, backend' = backend, backend = "postgres", NEW b \in Batch,
         Acquire(b) \/ Begin(b)
  PROVE  StoreInv'
<1>1. /\ table' = table /\ result' = result
      /\ tx[b].stage \in {"none", "acquire"} /\ tx'[b].stage \in {"acquire", "open"}
      /\ tx'[b].rows = tx[b].rows /\ tx'[b].next = tx[b].next
      /\ \A c \in Batch : c # b => tx'[c] = tx[c]
  BY DEF Acquire, Begin, TypeOK, Tx
<1>2. \A c \in Batch : tx'[c].rows = tx[c].rows
  BY <1>1
<1>3. Stored' = Stored
  BY <1>1 DEF Stored
<1>4. tx[b].rows = {} /\ tx[b].next = 1 /\ result[b] = None /\ By(b) = {}
  BY <1>1 DEF StoreInv, BatchInv, InPostgres
<1>5. By(b)' = {}
  BY <1>1, <1>4 DEF By
<1>6. Done(b)' /\ Fresh(b)'
  BY <1>1, <1>4, EventsOfBody DEF Done, Fresh
<1>7. BatchInv(b)'
  <2>1. Own(b)'
    BY <1>1, <1>4 DEF Own
  <2>2. InPostgres(b)'
    BY <1>1, <1>4, <1>5, <1>6 DEF InPostgres
  <2>3. QED  BY <1>1, <1>4, <2>1, <2>2, PostgresAssumption DEF BatchInv
<1>8. \A c \in Batch : Fresh(c) => Fresh(c)'
  BY <1>2, <1>3 DEF Fresh, Holds
<1>9. IsFiniteSet(tx'[b].rows)
  BY <1>1 DEF StoreInv
<1>10. QED  BY <1>1, <1>7, <1>8, <1>9, QuietKeeps

(* One more event of a batch is done. *)
LEMMA DoneNext ==
  ASSUME TypeOK, NEW b \in Batch, Done(b), tx[b].next <= Len(Body[b]),
         tx'[b].next = tx[b].next + 1, tx[b].rows \subseteq tx'[b].rows, Stored \subseteq Stored',
         Inserted(b) \in Stored' \/ \E row \in tx'[b].rows : row.trace = Inserted(b)
  PROVE  Done(b)'
<1>1. tx[b].next \in Nat \ {0}
  BY DEF TypeOK, Tx
<1>2. ASSUME NEW i \in DOMAIN Body[b], i < tx'[b].next
      PROVE  Body[b][i] \in Stored' \/ Holds(b, Body[b][i])'
  <2>1. i \in Nat
    BY EventsOfBody
  <2>2. CASE i < tx[b].next
    BY <2>2 DEF Done, Holds
  <2>3. CASE i = tx[b].next
    BY <2>3 DEF Inserted, Holds
  <2>4. QED  BY <1>1, <1>2, <2>1, <2>2, <2>3
<1>3. QED  BY <1>2 DEF Done

LEMMA InsertKeeps ==
  ASSUME TypeOK, StoreInv, backend' = backend, backend = "postgres", NEW b \in Batch, Insert(b)
  PROVE  StoreInv'
<1>1. /\ table' = table /\ result' = result
      /\ tx[b].stage = "open" /\ tx'[b].stage = "open"
      /\ tx[b].next <= Len(Body[b]) /\ tx'[b].next = tx[b].next + 1
      /\ \A c \in Batch : c # b => tx'[c] = tx[c]
  BY DEF Insert, Inserting, TypeOK, Tx
<1>2. Stored' = Stored
  BY <1>1 DEF Stored
<1>3. Own(b) /\ Done(b) /\ Fresh(b) /\ result[b] = None /\ By(b) = {} /\ IsFiniteSet(tx[b].rows)
  BY <1>1 DEF StoreInv, BatchInv, InPostgres
<1>4. By(b)' = {}
  BY <1>1, <1>3 DEF By
<1>5. CASE Inserted(b) \in Stored \/ Holds(b, Inserted(b))
  <2>1. tx'[b].rows = tx[b].rows
    BY <1>5 DEF Insert, TypeOK, Tx
  <2>2. \A c \in Batch : tx'[c].rows = tx[c].rows
    BY <1>1, <2>1
  <2>3. \A c \in Batch : Fresh(c) => Fresh(c)'
    BY <1>2, <2>2 DEF Fresh, Holds
  <2>4. Done(b)'
    BY <1>1, <1>2, <1>3, <1>5, <2>1, DoneNext DEF Holds
  <2>5. Own(b)'
    BY <1>3, <2>1 DEF Own
  <2>6. BatchInv(b)'
    BY <1>1, <1>3, <1>4, <2>3, <2>4, <2>5, PostgresAssumption DEF BatchInv, InPostgres
  <2>7. QED  BY <1>1, <1>3, <2>1, <2>3, <2>6, QuietKeeps
<1>6. CASE ~(Inserted(b) \in Stored \/ Holds(b, Inserted(b)))
  <2>1. tx'[b].rows = tx[b].rows \cup {RowOf(b)}
    BY <1>6 DEF Insert, RowOf, TypeOK, Tx
  <2>2. RowOf(b).trace = Inserted(b) /\ RowOf(b).by = b /\ Inserted(b) \in EventsOf[b]
    BY <1>1, InsertedIsBody DEF RowOf
  <2>3. \A c \in Batch : c # b => ~Holds(c, Inserted(b))
    BY <1>6 DEF Insert, WaitsFor
  <2>4. Own(b)'
    <3>1. \A row \in tx'[b].rows : row.by = b /\ row.trace \in EventsOf[b]
      BY <1>3, <2>1, <2>2 DEF Own
    <3>2. \A row, other \in tx'[b].rows : row.trace = other.trace => row = other
      BY <1>3, <1>6, <2>1, <2>2 DEF Own, Holds
    <3>3. QED  BY <3>1, <3>2 DEF Own
  <2>5. \E row \in tx'[b].rows : row.trace = Inserted(b)
    BY <2>1, <2>2
  <2>6. Done(b)'
    BY <1>1, <1>2, <1>3, <2>1, <2>5, DoneNext
  <2>7. Fresh(b)'
    <3>1. \A row \in tx'[b].rows : row.trace \notin Stored'
      BY <1>2, <1>3, <1>6, <2>1, <2>2 DEF Fresh
    <3>2. \A row \in tx'[b].rows : \A c \in Batch : c # b => ~Holds(c, row.trace)'
      BY <1>1, <1>3, <2>1, <2>2, <2>3 DEF Fresh, Holds
    <3>3. QED  BY <3>1, <3>2 DEF Fresh
  <2>8. ASSUME NEW c \in Batch, c # b, Fresh(c)
        PROVE  Fresh(c)'
    <3>1. \A row \in tx[c].rows : row.trace # Inserted(b)
      BY <2>3, <2>8 DEF Holds
    <3>2. \A row \in tx[c].rows : row.trace \notin Stored'
      BY <1>2, <2>8 DEF Fresh
    <3>3. ASSUME NEW d \in Batch, NEW row \in tx[c].rows, d # c, Holds(d, row.trace)'
          PROVE  Holds(d, row.trace)
      BY <1>1, <2>1, <2>2, <3>1, <3>3 DEF Holds
    <3>4. QED  BY <1>1, <2>8, <3>2, <3>3, OthersFresh
  <2>9. BatchInv(b)'
    <3>1. InPostgres(b)'
      BY <1>1, <1>3, <1>4, <2>6, <2>7 DEF InPostgres
    <3>2. QED  BY <1>1, <1>3, <2>4, <3>1, PostgresAssumption DEF BatchInv
  <2>10. IsFiniteSet(tx'[b].rows)
    BY <1>3, <2>1, FS_AddElement
  <2>11. QED  BY <1>1, <2>8, <2>9, <2>10, QuietKeeps
<1>7. QED  BY <1>5, <1>6

LEMMA EndsKeeps ==
  ASSUME TypeOK, StoreInv, backend' = backend, backend = "postgres", NEW b \in Batch, Ends(b)
  PROVE  StoreInv'
<1>1. /\ table' = table /\ result'[b] = Err
      /\ tx'[b].stage = "ended" /\ tx'[b].rows = {}
      /\ \A c \in Batch : c # b => tx'[c] = tx[c] /\ result'[c] = result[c]
  BY DEF Ends, Failed, TypeOK, Tx
<1>2. Stored' = Stored
  BY <1>1 DEF Stored
<1>3. BatchInv(b)'
  BY <1>1, PostgresAssumption DEF BatchInv, InPostgres, Own
<1>4. ASSUME NEW c \in Batch, c # b, Fresh(c)
      PROVE  Fresh(c)'
  <2>1. \A d \in Batch : \A t : Holds(d, t)' => Holds(d, t)
    BY <1>1 DEF Holds
  <2>2. \A row \in tx[c].rows : row.trace \notin Stored'
    BY <1>2, <1>4 DEF Fresh
  <2>3. QED  BY <1>1, <1>4, <2>1, <2>2, OthersFresh
<1>5. IsFiniteSet(tx'[b].rows)
  BY <1>1, FS_EmptySet
<1>6. QED  BY <1>1, <1>3, <1>4, <1>5, QuietKeeps

LEMMA CommittedKeeps ==
  ASSUME TypeOK, StoreInv, backend' = backend, backend = "postgres", NEW b \in Batch, Committed(b)
  PROVE  StoreInv'
<1>1. /\ table' = table /\ result'[b] = Cardinality(tx[b].rows)
      /\ tx[b].stage = "committed"
      /\ tx'[b].stage = "ended" /\ tx'[b].rows = {}
      /\ \A c \in Batch : c # b => tx'[c] = tx[c] /\ result'[c] = result[c]
  BY DEF Committed, TypeOK, Tx
<1>2. Stored' = Stored /\ By(b)' = By(b)
  BY <1>1 DEF Stored, By
<1>3. tx[b].rows = By(b)'
  BY <1>1, <1>2 DEF StoreInv, BatchInv, InPostgres
<1>4. Cardinality(tx[b].rows) = Cardinality(By(b)')
  BY <1>3, Zenon
<1>5. BatchInv(b)'
  BY <1>1, <1>4 DEF BatchInv, InPostgres, Own
<1>6. ASSUME NEW c \in Batch, c # b, Fresh(c)
      PROVE  Fresh(c)'
  <2>1. \A d \in Batch : \A t : Holds(d, t)' => Holds(d, t)
    BY <1>1 DEF Holds
  <2>2. \A row \in tx[c].rows : row.trace \notin Stored'
    BY <1>2, <1>6 DEF Fresh
  <2>3. QED  BY <1>1, <1>6, <2>1, <2>2, OthersFresh
<1>7. IsFiniteSet(tx'[b].rows)
  BY <1>1, FS_EmptySet
<1>8. QED  BY <1>1, <1>5, <1>6, <1>7, QuietKeeps

LEMMA CommitKeeps ==
  ASSUME TypeOK, StoreInv, backend' = backend, backend = "postgres", NEW b \in Batch, Commit(b)
  PROVE  StoreInv'
<1>1. /\ table' = table \cup tx[b].rows /\ result' = result
      /\ tx[b].stage = "open" /\ tx'[b].stage = "committed" /\ tx[b].next > Len(Body[b])
      /\ tx'[b].rows = tx[b].rows
      /\ \A c \in Batch : c # b => tx'[c] = tx[c]
  BY DEF Commit, TypeOK, Tx
<1>2. \A t : t \in Stored' <=> t \in Stored \/ Holds(b, t)
  BY <1>1 DEF Stored, Holds
<1>3. Own(b) /\ Done(b) /\ Fresh(b) /\ result[b] = None /\ By(b) = {} /\ IsFiniteSet(tx[b].rows)
  BY <1>1 DEF StoreInv, BatchInv, InPostgres
<1>4. EventsOf[b] \subseteq Stored'
  <2>1. \A i \in DOMAIN Body[b] : i < tx[b].next
    BY <1>1, EventsOfBody DEF TypeOK, Tx
  <2>2. \A i \in DOMAIN Body[b] : Body[b][i] \in Stored'
    BY <1>2, <1>3, <2>1 DEF Done
  <2>3. QED  BY <2>2, EventsOfBody
<1>5. Once'
  <2>1. \A row \in table, other \in tx[b].rows : row.trace # other.trace
    BY <1>3 DEF Fresh, Stored
  <2>2. QED  BY <1>1, <1>3, <2>1 DEF Once, Own, StoreInv
<1>6. BatchesWhole'
  <2>1. \A row \in table : EventsOf[row.by] \subseteq Stored'
    BY <1>2 DEF StoreInv, BatchesWhole
  <2>2. \A row \in tx[b].rows : EventsOf[row.by] \subseteq Stored'
    BY <1>3, <1>4 DEF Own
  <2>3. QED  BY <1>1, <2>1, <2>2 DEF BatchesWhole, EventsOf
<1>7. By(b)' = tx[b].rows
  BY <1>1, <1>3 DEF By, Own
<1>8. \A c \in Batch : c # b => By(c)' = By(c)
  BY <1>1, <1>3 DEF By, Own
<1>9. BatchInv(b)'
  <2>1. Own(b)'
    BY <1>1, <1>3 DEF Own
  <2>2. InPostgres(b)'
    BY <1>1, <1>3, <1>4, <1>7 DEF InPostgres, EventsOf
  <2>3. QED  BY <1>1, <1>3, <2>1, <2>2, PostgresAssumption DEF BatchInv
<1>10. ASSUME NEW c \in Batch, c # b, tx[c].stage = "open"
       PROVE  Fresh(c)'
  <2>1. Fresh(c)
    BY <1>10 DEF StoreInv, BatchInv, InPostgres
  <2>2. \A row \in tx[c].rows : row.trace \notin Stored'
    BY <1>2, <2>1, <1>10 DEF Fresh
  <2>3. \A d \in Batch : \A t : Holds(d, t)' => Holds(d, t)
    BY <1>1 DEF Holds
  <2>4. QED  BY <1>1, <1>10, <2>1, <2>2, <2>3, OthersFresh
<1>11. \A c \in Batch : c # b => BatchInv(c)'
  <2>1. Elsewhere(b)
    BY <1>1, <1>8 DEF Elsewhere
  <2>2. QED  BY <1>2, <1>10, <2>1, OthersKeep
<1>12. IsFiniteSet(table)' /\ \A c \in Batch : IsFiniteSet(tx'[c].rows)
  BY <1>1, <1>3, FS_Union DEF StoreInv
<1>13. QED  BY <1>5, <1>6, <1>9, <1>11, <1>12 DEF StoreInv

-----------------------------------------------------------------------------
(* The steps of a log. *)

(* A batch writes an event that is not in the table, or nothing. *)
Writes(b, N) ==
    /\ table' = table \cup N
    /\ N = {} \/ (N = {RowOf(b)} /\ Inserted(b) \notin Stored)

LEMMA NewRowIs ==
  ASSUME NEW b
  PROVE  \/ NewRow(b) = {} /\ Inserted(b) \in Stored
         \/ NewRow(b) = {RowOf(b)} /\ Inserted(b) \notin Stored
BY DEF NewRow, RowOf

LEMMA LogGrows ==
  ASSUME TypeOK, StoreInv, backend' = backend, backend # "postgres",
         NEW b \in Batch, NEW N, Writes(b, N)
  PROVE  /\ IsFiniteSet(table)' /\ Once' /\ BatchesWhole'
         /\ Stored \subseteq Stored'
         /\ By(b)' = By(b) \cup N
         /\ \A c \in Batch : c # b => By(c)' = By(c)
         /\ IsFiniteSet(N)
<1>1. RowOf(b).by = b /\ RowOf(b).trace = Inserted(b)
  BY DEF RowOf
<1>2. IsFiniteSet(N)
  BY FS_EmptySet, FS_Singleton DEF Writes
<1>3. IsFiniteSet(table)'
  BY <1>2, FS_Union DEF Writes, StoreInv
<1>4. Once'
  BY <1>1 DEF Writes, StoreInv, Once, Stored
<1>5. Stored \subseteq Stored'
  BY DEF Writes, Stored
<1>6. By(b)' = By(b) \cup N
  BY <1>1 DEF Writes, By
<1>7. \A c \in Batch : c # b => By(c)' = By(c)
  BY <1>1 DEF Writes, By
<1>8. QED  BY <1>2, <1>3, <1>4, <1>5, <1>6, <1>7 DEF BatchesWhole

LEMMA LogStepKeeps ==
  ASSUME TypeOK, StoreInv, backend' = backend, backend # "postgres",
         NEW b \in Batch, NEW N, Writes(b, N),
         \A c \in Batch : c # b => tx'[c] = tx[c] /\ result'[c] = result[c],
         IsFiniteSet(tx'[b].rows), BatchInv(b)'
  PROVE  StoreInv'
<1>1. /\ IsFiniteSet(table)' /\ Once' /\ BatchesWhole' /\ Stored \subseteq Stored'
      /\ Elsewhere(b)
  BY LogGrows DEF Elsewhere
<1>2. \A c \in Batch : c # b => BatchInv(c)'
  BY <1>1, OthersKeep
<1>3. QED  BY <1>1, <1>2 DEF StoreInv

LEMMA AppendEventKeeps ==
  ASSUME TypeOK, StoreInv, backend' = backend, NEW b \in Batch, AppendEvent(b)
  PROVE  StoreInv' /\ Writes(b, NewRow(b))
<1>1. /\ backend # "postgres" /\ result[b] = None /\ result' = result
      /\ tx[b].next <= Len(Body[b]) /\ tx'[b].next = tx[b].next + 1
      /\ tx'[b].stage = tx[b].stage
      /\ table' = table \cup NewRow(b)
      /\ \A c \in Batch : c # b => tx'[c] = tx[c]
  BY DEF AppendEvent, Appending, TypeOK, Tx
<1>2. tx'[b].rows = tx[b].rows \cup NewRow(b)
  BY DEF AppendEvent, TypeOK, Tx
<1>3. Writes(b, NewRow(b))
  BY <1>1, NewRowIs DEF Writes
<1>4. /\ Stored \subseteq Stored' /\ Once'
      /\ By(b)' = By(b) \cup NewRow(b)
      /\ IsFiniteSet(NewRow(b))
  BY <1>1, <1>3, LogGrows
<1>5. tx[b].stage = "none" /\ Own(b) /\ Done(b) /\ tx[b].rows = By(b)
  BY <1>1 DEF StoreInv, BatchInv, InLog
<1>6. tx'[b].rows = By(b)'
  BY <1>2, <1>4, <1>5
<1>7. Own(b)'
  <2>1. \A row \in NewRow(b) : row.by = b /\ row.trace \in EventsOf[b]
    BY <1>1, InsertedIsBody DEF NewRow
  <2>2. \A row \in tx'[b].rows : row.by = b /\ row.trace \in EventsOf[b]
    BY <1>2, <1>5, <2>1 DEF Own
  <2>3. tx'[b].rows \subseteq table'
    BY <1>6 DEF By
  <2>4. \A row, other \in tx'[b].rows : row.trace = other.trace => row = other
    BY <1>4, <2>3 DEF Once
  <2>5. QED  BY <2>2, <2>4 DEF Own
<1>8. Done(b)'
  <2>1. Inserted(b) \in Stored'
    <3>1. CASE Inserted(b) \in Stored
      BY <1>4, <3>1
    <3>2. CASE Inserted(b) \notin Stored
      <4>1. RowOf(b) \in table' /\ RowOf(b).trace = Inserted(b)
        BY <1>1, <3>2, NewRowIs DEF RowOf
      <4>2. QED  BY <4>1 DEF Stored
    <3>3. QED  BY <3>1, <3>2
  <2>2. QED  BY <1>1, <1>2, <1>4, <1>5, <2>1, DoneNext
<1>9. BatchInv(b)'
  <2>1. InLog(b)'
    BY <1>1, <1>5, <1>6, <1>8 DEF InLog
  <2>2. QED  BY <1>1, <1>7, <2>1, PostgresAssumption DEF BatchInv
<1>10. IsFiniteSet(tx'[b].rows)
  BY <1>2, <1>4, FS_Union DEF StoreInv
<1>11. QED  BY <1>1, <1>3, <1>9, <1>10, LogStepKeeps

LEMMA AppendFailsKeeps ==
  ASSUME TypeOK, StoreInv, backend' = backend, NEW b \in Batch, AppendFails(b)
  PROVE  StoreInv' /\ \E N \in SUBSET NewRow(b) : Writes(b, N)
<1>1. /\ backend # "postgres" /\ result'[b] = Err /\ tx' = tx
      /\ \A c \in Batch : c # b => result'[c] = result[c]
  BY DEF AppendFails, Appending, TypeOK
<1>2. PICK N \in SUBSET NewRow(b) : Writes(b, N)
  <2>1. CASE table' = table
    <3>1. table' = table \cup {}
      BY <2>1
    <3>2. Writes(b, {})
      BY <3>1 DEF Writes
    <3>3. QED  BY <3>2
  <2>2. CASE table' = table \cup NewRow(b)
    <3>1. Writes(b, NewRow(b))
      BY <2>2, NewRowIs DEF Writes
    <3>2. QED  BY <3>1
  <2>3. QED  BY <2>1, <2>2 DEF AppendFails
<1>3. BatchInv(b)'
  <2>1. Own(b)' /\ tx'[b].stage = "none"
    BY <1>1 DEF StoreInv, BatchInv, Own, InLog
  <2>2. InLog(b)'
    BY <1>1, <2>1, PostgresAssumption DEF InLog
  <2>3. QED  BY <1>1, <2>1, <2>2, PostgresAssumption DEF BatchInv
<1>4. IsFiniteSet(tx'[b].rows)
  BY <1>1 DEF StoreInv
<1>5. QED  BY <1>1, <1>2, <1>3, <1>4, LogStepKeeps

LEMMA AppendsDoneKeeps ==
  ASSUME TypeOK, StoreInv, backend' = backend, NEW b \in Batch, AppendsDone(b)
  PROVE  StoreInv'
<1>1. /\ backend # "postgres" /\ result[b] = None /\ table' = table /\ tx' = tx
      /\ result'[b] = Cardinality(tx[b].rows)
      /\ \A c \in Batch : c # b => result'[c] = result[c]
  BY DEF AppendsDone, TypeOK
<1>2. Own(b) /\ tx[b].stage = "none" /\ Done(b) /\ tx[b].rows = By(b) /\ IsFiniteSet(tx[b].rows)
  BY <1>1 DEF StoreInv, BatchInv, InLog
<1>3. By(b)' = By(b) /\ Stored' = Stored
  BY <1>1 DEF By, Stored
<1>4. Cardinality(tx[b].rows) = Cardinality(By(b)')
  <2>1. tx[b].rows = By(b)'
    BY <1>2, <1>3
  <2>2. QED  BY <2>1, Zenon
<1>5. BatchInv(b)'
  <2>1. Own(b)' /\ Done(b)'
    BY <1>1, <1>2, <1>3 DEF Own, Done, Holds
  <2>2. InLog(b)'
    BY <1>1, <1>2, <1>3, <2>1 DEF InLog
  <2>3. QED  BY <1>1, <1>4, <2>1, <2>2 DEF BatchInv
<1>6. QED  BY <1>1, <1>2, <1>5, QuietKeeps

LEMMA StoreKeeps ==
  ASSUME TypeOK, StoreInv, [Next]_vars
  PROVE  StoreInv'
<1>1. CASE UNCHANGED store
  <2>1. backend' = backend /\ table' = table /\ tx' = tx /\ result' = result
    BY <1>1, StoreSteps DEF store
  <2>2. /\ IsFiniteSet(table)' /\ Once' /\ BatchesWhole' /\ Stored' = Stored
        /\ \A c \in Batch : By(c)' = By(c)
    BY <2>1, TableKept
  <2>3. ASSUME NEW c \in Batch
        PROVE  BatchInv(c)'
    <3>1. Own(c)' <=> Own(c)
      BY <2>1 DEF Own
    <3>2. (Done(c)' <=> Done(c)) /\ (Fresh(c)' <=> Fresh(c))
      BY <2>1, <2>2 DEF Done, Fresh, Holds
    <3>3. (InPostgres(c)' <=> InPostgres(c)) /\ (InLog(c)' <=> InLog(c))
      BY <2>1, <2>2, <3>2 DEF InPostgres, InLog
    <3>4. Cardinality(By(c)') = Cardinality(By(c))
      BY <2>2, Zenon
    <3>5. BatchInv(c)
      BY DEF StoreInv
    <3>6. QED  BY <2>1, <3>1, <3>3, <3>4, <3>5 DEF BatchInv
  <2>4. QED  BY <2>1, <2>2, <2>3 DEF StoreInv
<1>2. ASSUME NEW b \in Batch, PostgresStep(b)
      PROVE  StoreInv'
  BY <1>2, StoreSteps, AcquireKeeps, InsertKeeps, EndsKeeps, CommitKeeps, CommittedKeeps
     DEF PostgresStep, OverPostgres
<1>3. ASSUME NEW b \in Batch, AppendEvent(b) \/ AppendFails(b) \/ AppendsDone(b)
      PROVE  StoreInv'
  BY <1>3, StoreSteps, AppendEventKeeps, AppendFailsKeeps, AppendsDoneKeeps
<1>4. QED  BY <1>1, <1>2, <1>3, StoreSteps

-----------------------------------------------------------------------------
(* The refinement. *)

(* What each batch stored, as the mapping has it. *)
NewlyStored == [b \in Batch |-> {row.trace : row \in {r \in table : r.by = b}}]

(* Its events are as many as its rows. *)
LEMMA RowsAreEvents ==
  ASSUME Once, IsFiniteSet(table), NEW b \in Batch
  PROVE  Cardinality(NewlyStored[b]) = Cardinality(By(b))
<1> DEFINE R == {r \in table : r.by = b}
           T == {row.trace : row \in R}
           f == [row \in R |-> row.trace]
<1>1. IsFiniteSet(R)
  BY FS_Subset
<1>2. f \in Bijection(R, T)
  <2>1. f \in [R -> T]
    OBVIOUS
  <2>2. \A r, q \in R : f[r] = f[q] => r = q
    BY DEF Once
  <2>3. \A t \in T : \E r \in R : f[r] = t
    OBVIOUS
  <2>4. QED  BY <2>1, <2>2, <2>3, Fun_IsBij
<1>3. ExistsBijection(R, T)
  BY <1>2 DEF ExistsBijection
<1>4. Cardinality(T) = Cardinality(R)
  BY <1>1, <1>3, FS_Bijection
<1>5. NewlyStored[b] = T
  BY DEF NewlyStored
<1>6. By(b) = R
  BY DEF By
<1> HIDE DEF R, T
<1>7. QED  BY <1>4, <1>5, <1>6, Zenon

LEMMA StoresSome ==
  ASSUME NEW b \in Batch, NEW N, table' = table \cup N,
         \A row \in N : row.by = b /\ row.trace \in EventsOf[b] /\ row.trace \notin Stored
  PROVE  Contract!Some(b)
<1> DEFINE S == {row.trace : row \in N}
<1>1. S \in SUBSET (EventsOf[b] \ Stored)
  OBVIOUS
<1>2. Stored' = Stored \cup S
  BY DEF Stored
<1>3. NewlyStored' = [NewlyStored EXCEPT ![b] = @ \cup S]
  <2>1. ASSUME NEW c \in Batch, c # b
        PROVE  NewlyStored'[c] = NewlyStored[c]
    BY <2>1 DEF NewlyStored
  <2>2. NewlyStored'[b] = NewlyStored[b] \cup S
    BY DEF NewlyStored
  <2> HIDE DEF S
  <2>3. QED  BY <2>1, <2>2 DEF NewlyStored
<1> HIDE DEF S
<1>4. QED  BY <1>1, <1>2, <1>3 DEF Contract!Some, NewlyStored

LEMMA StoresNone ==
  ASSUME NEW b \in Batch, table' = table
  PROVE  Contract!Some(b)
<1> DEFINE N == {}
<1>1. table' = table \cup N
  OBVIOUS
<1>2. \A row \in N : FALSE
  OBVIOUS
<1> HIDE DEF N
<1>3. QED  BY <1>1, <1>2, StoresSome

LEMMA SameTable ==
  ASSUME table' = table
  PROVE  Stored' = Stored /\ NewlyStored' = NewlyStored
BY DEF Stored, NewlyStored

LEMMA Acknowledges ==
  ASSUME StoreInv, NEW b \in Batch, table' = table, result[b] = None,
         result' = [result EXCEPT ![b] = Cardinality(tx[b].rows)],
         tx[b].rows = By(b), EventsOf[b] \subseteq Stored
  PROVE  Contract!Acknowledge(b)
<1>1. Cardinality(tx[b].rows) = Cardinality(By(b))
  BY Zenon
<1>2. Cardinality(tx[b].rows) = Cardinality(NewlyStored[b])
  BY <1>1, RowsAreEvents DEF StoreInv
<1>3. result' = [result EXCEPT ![b] = Cardinality(NewlyStored[b])]
  BY <1>2
<1>4. Stored' = Stored /\ NewlyStored' = NewlyStored
  BY SameTable
<1>5. Contract!Cardinality(NewlyStored[b]) = Cardinality(NewlyStored[b])
  BY DEF Contract!Cardinality, Cardinality
<1>6. QED  BY <1>3, <1>4, <1>5 DEF Contract!Acknowledge, NewlyStored

LEMMA StoreImplements ==
  ASSUME TypeOK, StoreInv, [Next]_vars
  PROVE  [Contract!TNext]_(Contract!tvars)
<1>1. ASSUME table' = table, result' = result
      PROVE  UNCHANGED Contract!tvars
  BY <1>1, SameTable DEF Contract!tvars, NewlyStored
<1>2. ASSUME NEW b \in Batch, PostgresStep(b)
      PROVE  [Contract!TNext]_(Contract!tvars)
  <2>1. Own(b) /\ InPostgres(b)
    BY <1>2 DEF PostgresStep, OverPostgres, StoreInv, BatchInv
  <2>2. CASE Acquire(b) \/ Begin(b) \/ Insert(b)
    BY <1>1, <2>2 DEF Acquire, Begin, Insert
  <2>3. CASE Ends(b)
    <3>1. table' = table /\ result[b] = None /\ result' = [result EXCEPT ![b] = Err]
      BY <2>1, <2>3 DEF Ends, Failed, InPostgres
    <3>2. Contract!Fail(b)
      BY <3>1, StoresNone DEF Contract!Fail
    <3>3. QED  BY <3>2 DEF Contract!TNext
  <2>4. CASE Commit(b)
    <3>1. table' = table \cup tx[b].rows /\ result[b] = None /\ result' = result /\ Fresh(b)
      BY <2>1, <2>4 DEF Commit, InPostgres
    <3>2. Contract!Some(b)
      BY <2>1, <3>1, StoresSome DEF Own, Fresh
    <3>3. Contract!Keep(b)
      BY <3>1, <3>2 DEF Contract!Keep
    <3>4. QED  BY <3>3 DEF Contract!TNext
  <2>5. CASE Committed(b)
    <3>1. /\ table' = table /\ result[b] = None
          /\ result' = [result EXCEPT ![b] = Cardinality(tx[b].rows)]
          /\ EventsOf[b] \subseteq Stored /\ tx[b].rows = By(b)
      BY <2>1, <2>5 DEF Committed, InPostgres
    <3>2. Contract!Acknowledge(b)
      BY <3>1, Acknowledges
    <3>3. QED  BY <3>2 DEF Contract!TNext
  <2>6. QED  BY <1>2, <2>2, <2>3, <2>4, <2>5 DEF PostgresStep
<1>3. ASSUME NEW b \in Batch, NEW N, Writes(b, N), tx[b].next <= Len(Body[b])
      PROVE  Contract!Some(b)
  <2>1. \A row \in N : row.by = b /\ row.trace \in EventsOf[b] /\ row.trace \notin Stored
    BY <1>3, InsertedIsBody DEF Writes, RowOf
  <2>2. QED  BY <1>3, <2>1, StoresSome DEF Writes
<1>4. ASSUME NEW b \in Batch, AppendEvent(b)
      PROVE  [Contract!TNext]_(Contract!tvars)
  <2>1. result[b] = None /\ result' = result /\ Contract!Some(b)
    BY <1>3, <1>4, StoreSteps, AppendEventKeeps DEF AppendEvent, Appending
  <2>2. Contract!Keep(b)
    BY <2>1 DEF Contract!Keep
  <2>3. QED  BY <2>2 DEF Contract!TNext
<1>5. ASSUME NEW b \in Batch, AppendFails(b)
      PROVE  [Contract!TNext]_(Contract!tvars)
  <2>1. result[b] = None /\ result' = [result EXCEPT ![b] = Err] /\ Contract!Some(b)
    BY <1>3, <1>5, StoreSteps, AppendFailsKeeps DEF AppendFails, Appending
  <2>2. Contract!Fail(b)
    BY <2>1 DEF Contract!Fail
  <2>3. QED  BY <2>2 DEF Contract!TNext
<1>6. ASSUME NEW b \in Batch, AppendsDone(b)
      PROVE  [Contract!TNext]_(Contract!tvars)
  <2>1. /\ table' = table /\ result[b] = None /\ tx[b].next > Len(Body[b])
        /\ result' = [result EXCEPT ![b] = Cardinality(tx[b].rows)]
        /\ Own(b) /\ Done(b) /\ tx[b].rows = By(b)
    BY <1>6 DEF AppendsDone, StoreInv, BatchInv, InLog
  <2>2. EventsOf[b] \subseteq Stored
    <3>1. \A i \in DOMAIN Body[b] : i < tx[b].next
      BY <2>1, EventsOfBody DEF TypeOK, Tx
    <3>2. \A row \in tx[b].rows : row.trace \in Stored
      BY <2>1 DEF By, Stored
    <3>3. \A i \in DOMAIN Body[b] : Body[b][i] \in Stored
      BY <2>1, <3>1, <3>2 DEF Done, Holds
    <3>4. QED  BY <3>3, EventsOfBody
  <2>3. Contract!Acknowledge(b)
    BY <2>1, <2>2, Acknowledges
  <2>4. QED  BY <2>3 DEF Contract!TNext
<1>7. QED
  <2>1. CASE UNCHANGED store
    BY <1>1, <2>1 DEF store
  <2>2. QED  BY <1>2, <1>4, <1>5, <1>6, <2>1, StoreSteps

-----------------------------------------------------------------------------
(* What the requests see of the store: batches write and get their result   *)
(* while they are handled, and once.                                        *)

Moves(b) ==
    /\ stage[b] = "handling" /\ result[b] = None
    /\ table \subseteq table'
    /\ \A row \in table' \ table : row.by = b /\ row.trace \notin Stored
    /\ \A c \in Batch : c # b => result'[c] = result[c]

LEMMA StoreMoves ==
  ASSUME TypeOK, StoreInv, [Next]_vars
  PROVE  UNCHANGED <<table, result>> \/ \E b \in Batch : Moves(b)
<1>1. ASSUME NEW b \in Batch, PostgresStep(b)
      PROVE  UNCHANGED <<table, result>> \/ Moves(b)
  <2>1. Own(b) /\ InPostgres(b) /\ stage[b] = "handling"
    BY <1>1 DEF PostgresStep, OverPostgres, Handling, StoreInv, BatchInv
  <2>2. CASE Acquire(b) \/ Begin(b) \/ Insert(b)
    BY <2>2 DEF Acquire, Begin, Insert
  <2>3. CASE Ends(b) \/ Committed(b)
    BY <2>1, <2>3 DEF Ends, Failed, Committed, InPostgres, Moves, TypeOK
  <2>4. CASE Commit(b)
    BY <2>1, <2>4 DEF Commit, InPostgres, Own, Fresh, Moves
  <2>5. QED  BY <1>1, <2>2, <2>3, <2>4 DEF PostgresStep
<1>2. ASSUME NEW b \in Batch, AppendEvent(b) \/ AppendFails(b) \/ AppendsDone(b)
      PROVE  Moves(b)
  <2>1. stage[b] = "handling" /\ result[b] = None
    BY <1>2 DEF AppendEvent, AppendFails, AppendsDone, Appending, Handling
  <2>2. \A c \in Batch : c # b => result'[c] = result[c]
    BY <1>2 DEF AppendEvent, AppendFails, AppendsDone, TypeOK
  <2>3. table \subseteq table' /\ \A row \in table' \ table : row.by = b /\ row.trace \notin Stored
    <3>1. CASE AppendsDone(b)
      BY <3>1 DEF AppendsDone
    <3>2. CASE AppendEvent(b) \/ AppendFails(b)
      <4>1. PICK N : Writes(b, N)
        BY <3>2, StoreSteps, AppendEventKeeps, AppendFailsKeeps
      <4>2. QED  BY <4>1 DEF Writes, RowOf
    <3>3. QED  BY <1>2, <3>1, <3>2
  <2>4. QED  BY <2>1, <2>2, <2>3 DEF Moves
<1>3. QED  BY <1>1, <1>2, StoreSteps DEF store

-----------------------------------------------------------------------------
(* The requests. *)

RequestInv ==
    /\ \A r \in Request : r \in Batch <=> route[r] = "ingest"
    /\ \A r \in Request : stage[r] \in {"new", "handling", "dropped"} => status[r] = None
    /\ \A r \in Request : stage[r] \in {"reply", "answered"} => status[r] \in Status
    /\ \A b \in Batch : status[b] = 200 => result[b] \in Nat

(* A step that ends neither a request's handling nor its reply. *)
Waits == UNCHANGED <<stage, status, tracked, checks, ingested>>

LEMMA RequestSteps ==
  ASSUME [Next]_vars
  PROVE  /\ route' = route
         /\ \/ Waits
            \/ \E b \in Batch : Disconnect(b) \/ IngestReplies(b)
            \/ \E r \in Request : Arrive(r) \/ Check(r) \/ List(r) \/ Attest(r) \/ Track(r)
<1>1. CASE Listen \/ Refuse \/ Tick \/ Interrupt \/ Close \/ UNCHANGED vars
  BY <1>1 DEF Listen, Refuse, Tick, Interrupt, Close, vars, Waits, request, metrics
<1>2. ASSUME NEW b \in Batch,
             \/ CallPostgres(b) \/ PostgresProgress(b) \/ PostgresError(b)
             \/ AppendEvent(b) \/ AppendFails(b) \/ AppendsDone(b)
      PROVE  route' = route /\ Waits
  BY <1>2 DEF CallPostgres, PostgresProgress, PostgresError, AppendEvent, AppendFails, AppendsDone,
              Waits, request, metrics
<1>3. ASSUME NEW r, \/ Disconnect(r) \/ IngestReplies(r) \/ Arrive(r)
                    \/ Check(r) \/ List(r) \/ Attest(r) \/ Track(r)
      PROVE  route' = route
  BY <1>3 DEF Disconnect, IngestReplies, Arrive, Check, List, Attest, Track
<1>4. QED  BY <1>1, <1>2, <1>3 DEF Next, Step, IngestStep, Fault

LEMMA RequestTypeStep ==
  ASSUME TypeOK, [Next]_vars
  PROVE  /\ stage' \in [Request -> Stages]
         /\ status' \in [Request -> Status \cup {None}]
         /\ route' \in [Request -> {"ingest", "list", "attest", "check"}]
         /\ tracked' \in [Status -> Nat]
         /\ checks' \in Nat
         /\ ingested' \in Nat
<1>1. route' \in [Request -> {"ingest", "list", "attest", "check"}]
  BY RequestSteps DEF TypeOK
<1>2. CASE Waits
  BY <1>1, <1>2 DEF Waits, TypeOK
<1>3. ASSUME NEW b \in Batch, Disconnect(b)
      PROVE  /\ stage' \in [Request -> Stages] /\ UNCHANGED <<status, tracked, checks, ingested>>
  BY <1>3 DEF Disconnect, TypeOK, Stages, metrics
<1>4. ASSUME NEW b \in Batch, IngestReplies(b)
      PROVE  /\ stage' \in [Request -> Stages] /\ status' \in [Request -> Status \cup {None}]
             /\ UNCHANGED <<tracked, checks>> /\ ingested' \in Nat
  BY <1>4 DEF IngestReplies, Replied, TypeOK, Stages, Status
<1>5. ASSUME NEW r \in Request, Arrive(r) \/ List(r) \/ Attest(r)
      PROVE  /\ stage' \in [Request -> Stages] /\ status' \in [Request -> Status \cup {None}]
             /\ UNCHANGED <<tracked, checks, ingested>>
  BY <1>5 DEF Arrive, List, Attest, Replied, Handled, TypeOK, Stages, Status, metrics
<1>6. ASSUME NEW r \in Request, Check(r)
      PROVE  /\ stage' \in [Request -> Stages] /\ status' \in [Request -> Status \cup {None}]
             /\ UNCHANGED <<tracked, ingested>> /\ checks' \in Nat
  BY <1>6 DEF Check, Replied, TypeOK, Stages, Status
<1>7. ASSUME NEW r \in Request, Track(r)
      PROVE  /\ stage' \in [Request -> Stages] /\ tracked' \in [Status -> Nat]
             /\ UNCHANGED <<status, checks, ingested>>
  <2>1. tracked' = [tracked EXCEPT ![status[r]] = @ + 1] /\ tracked \in [Status -> Nat]
    BY <1>7 DEF Track, TypeOK
  <2>2. \A s \in Status : tracked'[s] = IF s = status[r] THEN tracked[s] + 1 ELSE tracked[s]
    BY <2>1
  <2>3. \A s \in Status : tracked'[s] \in Nat
    BY <2>1, <2>2
  <2>4. tracked' = [s \in Status |-> tracked'[s]]
    BY <2>1
  <2>5. tracked' \in [Status -> Nat]
    BY <2>3, <2>4, Zenon
  <2>6. QED  BY <1>7, <2>5 DEF Track, TypeOK, Stages
<1>8. QED
  BY <1>1, <1>2, <1>3, <1>4, <1>5, <1>6, <1>7, RequestSteps DEF TypeOK

LEMMA ResultKept ==
  ASSUME TypeOK, StoreInv, [Next]_vars, NEW b \in Batch, result[b] # None
  PROVE  result'[b] = result[b]
BY StoreMoves DEF Moves

(* A reply leaves the request with a status, and 200 to a batch only with   *)
(* its count.                                                               *)
Replies(r, code) ==
    /\ stage[r] \in {"new", "handling"}
    /\ code \in Status
    /\ r \in Batch /\ code = 200 => result[r] \in Nat
    /\ Replied(r, code)

LEMMA ReplyKeeps ==
  ASSUME TypeOK, StoreInv, RequestInv, [Next]_vars, NEW r \in Request, NEW code, Replies(r, code)
  PROVE  RequestInv'
<1>1. route' = route
  BY RequestSteps
<1>2. /\ stage'[r] = "reply" /\ status'[r] = code
      /\ \A q \in Request : q # r => stage'[q] = stage[q] /\ status'[q] = status[q]
  BY DEF Replies, Replied, TypeOK
<1>3. \A b \in Batch : result[b] \in Nat => result'[b] \in Nat
  BY ResultKept, PostgresAssumption
<1>4. \A b \in Batch : status'[b] = 200 => result'[b] \in Nat
  BY <1>2, <1>3, ServiceAssumption DEF Replies, RequestInv
<1>5. QED  BY <1>1, <1>2, <1>4 DEF Replies, RequestInv

(* The handlers' replies. *)
LEMMA HandlersReply ==
  ASSUME TypeOK, StoreInv, RequestInv, NEW r \in Request,
         IngestReplies(r) \/ Check(r) \/ List(r) \/ Attest(r)
  PROVE  \E code \in Status : Replies(r, code)
<1>1. stage[r] = "handling"
  BY DEF IngestReplies, Check, List, Attest, Handling
<1>2. CASE IngestReplies(r)
  <2>1. r \in Batch
    BY <1>2 DEF IngestReplies, Handling, RequestInv
  <2>2. \/ Replied(r, 500)
        \/ Replied(r, 200) /\ result[r] \in Nat
    BY <1>2, <2>1 DEF IngestReplies, TypeOK
  <2>3. QED  BY <1>1, <2>2 DEF Replies, Status
<1>3. CASE Check(r) \/ List(r) \/ Attest(r)
  <2>1. r \notin Batch
    BY <1>3 DEF Check, List, Attest, Handling, RequestInv
  <2>2. \E code \in Status : Replied(r, code)
    BY <1>3 DEF Check, List, Attest, Status
  <2>3. QED  BY <1>1, <2>1, <2>2 DEF Replies
<1>4. QED  BY <1>2, <1>3

LEMMA RequestKeeps ==
  ASSUME TypeOK, StoreInv, RequestInv, [Next]_vars
  PROVE  RequestInv'
<1>1. route' = route
  BY RequestSteps
<1>2. \A b \in Batch : result[b] \in Nat => result'[b] \in Nat
  BY ResultKept, PostgresAssumption
<1>3. CASE Waits
  BY <1>1, <1>2, <1>3 DEF Waits, RequestInv
<1>4. ASSUME NEW b \in Batch, Disconnect(b)
      PROVE  RequestInv'
  <2>1. /\ stage[b] = "handling" /\ stage'[b] = "dropped" /\ status' = status
        /\ \A q \in Request : q # b => stage'[q] = stage[q]
    BY <1>4, ServiceAssumption DEF Disconnect, OverPostgres, Handling, TypeOK
  <2>2. QED  BY <1>1, <1>2, <2>1, ServiceAssumption DEF RequestInv
<1>5. ASSUME NEW r \in Request, IngestReplies(r) \/ Check(r) \/ List(r) \/ Attest(r)
      PROVE  RequestInv'
  BY <1>5, HandlersReply, ReplyKeeps
<1>6. ASSUME NEW r \in Request, Arrive(r)
      PROVE  RequestInv'
  <2>1. stage[r] = "new"
    BY <1>6 DEF Arrive
  <2>2. CASE Replied(r, 401) \/ Replied(r, 429)
    <3>1. Replies(r, 401) \/ Replies(r, 429)
      BY <2>1, <2>2 DEF Replies, Status
    <3>2. QED  BY <3>1, ReplyKeeps
  <2>3. CASE Handled(r)
    <3>1. /\ stage'[r] = "handling" /\ status' = status
          /\ \A q \in Request : q # r => stage'[q] = stage[q]
      BY <2>3 DEF Handled, TypeOK
    <3>2. QED  BY <1>1, <1>2, <2>1, <3>1 DEF RequestInv
  <2>4. QED  BY <1>6, <2>2, <2>3 DEF Arrive
<1>7. ASSUME NEW r \in Request, Track(r)
      PROVE  RequestInv'
  <2>1. /\ stage[r] = "reply" /\ stage'[r] = "answered" /\ status' = status
        /\ \A q \in Request : q # r => stage'[q] = stage[q]
    BY <1>7 DEF Track, TypeOK
  <2>2. QED  BY <1>1, <1>2, <2>1 DEF RequestInv
<1>8. QED  BY <1>3, <1>4, <1>5, <1>6, <1>7, RequestSteps, ServiceAssumption

-----------------------------------------------------------------------------
(* The shutdown. *)

ClosingInv ==
    /\ unlinked \subseteq Stored
    /\ \A row \in table : row.trace \in unlinked => result[row.by] = Err
    /\ process = "starting" => \A r \in Request : stage[r] = "new"
    /\ process = "closed" => AtRest
    /\ AcknowledgedAreCovered

(* Only a failed append leaves an event without an entry: its own. *)
LEMMA UnlinkedStep ==
  ASSUME TypeOK, [Next]_vars
  PROVE  \/ unlinked' = unlinked
         \/ \E b \in Batch :
                /\ unlinked' = unlinked \cup {Inserted(b)}
                /\ table' = table \cup {RowOf(b)} /\ Inserted(b) \notin Stored
                /\ result'[b] = Err
<1>1. ASSUME NEW b \in Batch, AppendFails(b), unlinked' # unlinked
      PROVE  /\ unlinked' = unlinked \cup {Inserted(b)}
             /\ table' = table \cup {RowOf(b)} /\ Inserted(b) \notin Stored
             /\ result'[b] = Err
  <2>1. NewRow(b) = {RowOf(b)} /\ Inserted(b) \notin Stored
    BY <1>1, NewRowIs DEF AppendFails
  <2>2. table' = table \cup NewRow(b) /\ unlinked' = unlinked \cup {Inserted(b)}
    BY <1>1 DEF AppendFails
  <2>3. QED  BY <1>1, <2>1, <2>2 DEF AppendFails, TypeOK
<1>2. ASSUME NEW b, \/ CallPostgres(b) \/ PostgresProgress(b) \/ PostgresError(b) \/ Disconnect(b)
                    \/ AppendEvent(b) \/ AppendsDone(b) \/ IngestReplies(b)
                    \/ Arrive(b) \/ Check(b) \/ List(b) \/ Attest(b) \/ Track(b)
      PROVE  unlinked' = unlinked
  BY <1>2 DEF CallPostgres, PostgresProgress, PostgresError, Disconnect, AppendEvent, AppendsDone,
              IngestReplies, Arrive, Check, List, Attest, Track, closing
<1>3. CASE Listen \/ Refuse \/ Tick \/ Interrupt \/ Close \/ UNCHANGED vars
  BY <1>3 DEF Listen, Refuse, Tick, Interrupt, Close, vars, closing
<1>4. QED  BY <1>1, <1>2, <1>3 DEF Next, Step, IngestStep, Fault

(* The process changes at four steps, which leave the requests alone. *)
LEMMA ProcessSteps ==
  ASSUME [Next]_vars
  PROVE  \/ Listen \/ Refuse \/ Interrupt \/ Close
         \/ process' = process /\ covered' = covered
<1>1. ASSUME NEW b, \/ CallPostgres(b) \/ PostgresProgress(b) \/ PostgresError(b) \/ Disconnect(b)
                    \/ AppendEvent(b) \/ AppendFails(b) \/ AppendsDone(b) \/ IngestReplies(b)
                    \/ Arrive(b) \/ Check(b) \/ List(b) \/ Attest(b) \/ Track(b)
      PROVE  process' = process /\ covered' = covered
  BY <1>1 DEF CallPostgres, PostgresProgress, PostgresError, Disconnect, AppendEvent, AppendFails,
              AppendsDone, IngestReplies, Arrive, Check, List, Attest, Track, closing
<1>2. Tick \/ UNCHANGED vars => process' = process /\ covered' = covered
  BY DEF Tick, vars, closing
<1>3. QED  BY <1>1, <1>2 DEF Next, Step, IngestStep, Fault

(* At rest, and while the process does not listen, requests do not move. *)
LEMMA RestWaits ==
  ASSUME [Next]_vars, AtRest, process # "up"
  PROVE  Waits
<1>1. ASSUME NEW b \in Batch, Disconnect(b) \/ IngestReplies(b)
      PROVE  FALSE
  BY <1>1, ServiceAssumption DEF AtRest, Disconnect, OverPostgres, IngestReplies, Handling
<1>2. ASSUME NEW r \in Request, Arrive(r) \/ Check(r) \/ List(r) \/ Attest(r) \/ Track(r)
      PROVE  FALSE
  BY <1>2 DEF AtRest, Arrive, Check, List, Attest, Track, Handling
<1>3. QED  BY <1>1, <1>2, RequestSteps

LEMMA ClosingKeeps ==
  ASSUME TypeOK, StoreInv, RequestInv, ClosingInv, [Next]_vars
  PROVE  ClosingInv'
<1>1. /\ table \subseteq table' /\ Stored \subseteq Stored'
      /\ \A row \in table' \ table : row.trace \notin Stored
  BY StoreMoves DEF Moves, Stored
<1>2. \A row \in table : result[row.by] = Err => result'[row.by] = Err
  <2>1. \A row \in table : row.by \in Batch
    BY DEF TypeOK, Row
  <2>2. QED  BY <2>1, ResultKept, PostgresAssumption
<1>3. /\ unlinked' \subseteq Stored'
      /\ \A row \in table' : row.trace \in unlinked' => result'[row.by] = Err
  <2>1. CASE unlinked' = unlinked
    BY <1>1, <1>2, <2>1 DEF ClosingInv
  <2>2. CASE unlinked' # unlinked
    <3>1. PICK b \in Batch :
              /\ unlinked' = unlinked \cup {Inserted(b)}
              /\ table' = table \cup {RowOf(b)} /\ Inserted(b) \notin Stored
              /\ result'[b] = Err
      BY <2>2, UnlinkedStep
    <3>2. RowOf(b).trace = Inserted(b) /\ RowOf(b).by = b
      BY DEF RowOf
    <3>3. Inserted(b) \in Stored'
      <4>1. RowOf(b) \in table'
        BY <3>1
      <4>2. QED  BY <3>2, <4>1 DEF Stored
    <3>4. unlinked' \subseteq Stored'
      BY <1>1, <3>1, <3>3 DEF ClosingInv
    <3>5. ASSUME NEW row \in table', row.trace \in unlinked'
          PROVE  result'[row.by] = Err
      <4>1. CASE row = RowOf(b)
        BY <3>1, <3>2, <4>1
      <4>2. CASE row # RowOf(b)
        <5>1. row \in table
          BY <3>1, <4>2
        <5>2. row.trace \in Stored
          BY <5>1 DEF Stored
        <5>3. row.trace \in unlinked
          BY <3>1, <3>5, <5>2
        <5>4. QED  BY <1>2, <5>1, <5>3 DEF ClosingInv
      <4>3. QED  BY <4>1, <4>2
    <3>6. QED  BY <3>4, <3>5
  <2>3. QED  BY <2>1, <2>2
<1>4. CASE Listen \/ Interrupt
  <2>1. process' \in {"up", "draining"}
    BY <1>4 DEF Listen, Interrupt
  <2>2. QED  BY <1>3, <2>1 DEF ClosingInv, AcknowledgedAreCovered
<1>5. CASE Refuse
  <2>1. /\ process' = "closed" /\ process = "starting"
        /\ stage' = stage /\ status' = status /\ table' = table
    BY <1>5 DEF Refuse, request, store
  <2>2. \A r \in Request : stage[r] = "new" /\ status[r] = None
    BY <2>1 DEF ClosingInv, RequestInv
  <2>3. AtRest'
    BY <2>1, <2>2 DEF AtRest
  <2>4. AcknowledgedAreCovered'
    <3>1. \A row \in table' : status'[row.by] # 200
      BY <2>1, <2>2, PostgresAssumption, ServiceAssumption DEF TypeOK, Row
    <3>2. QED  BY <3>1 DEF AcknowledgedAreCovered
  <2>5. QED  BY <1>3, <2>1, <2>3, <2>4 DEF ClosingInv
<1>6. CASE Close
  <2>1. /\ process' = "closed" /\ AtRest
        /\ stage' = stage /\ status' = status /\ table' = table /\ backend' = backend
        /\ backend = "jsonl" => covered' \in {Stored \ unlinked, None}
    BY <1>6 DEF Close, request, store, config
  <2>2. AtRest'
    BY <2>1 DEF AtRest
  <2>3. ASSUME NEW row \in table, status[row.by] = 200
        PROVE  row.trace \in Stored \ unlinked
    <3>1. row.by \in Batch
      BY DEF TypeOK, Row
    <3>2. result[row.by] # Err
      BY <2>3, <3>1, PostgresAssumption DEF RequestInv
    <3>3. row.trace \notin unlinked
      BY <3>2 DEF ClosingInv
    <3>4. QED  BY <3>3 DEF Stored
  <2>4. AcknowledgedAreCovered'
    BY <2>1, <2>3 DEF AcknowledgedAreCovered
  <2>5. QED  BY <1>3, <2>1, <2>2, <2>4 DEF ClosingInv
<1>7. CASE process' = process /\ covered' = covered
  <2>1. CASE process \in {"starting", "closed"}
    <3>1. AtRest
      BY <2>1 DEF ClosingInv, AtRest
    <3>2. stage' = stage /\ status' = status
      BY <2>1, <3>1, RestWaits DEF Waits
    <3>3. table' = table
      BY <3>1, StoreMoves, ServiceAssumption DEF Moves, AtRest
    <3>4. AtRest'
      BY <3>1, <3>2 DEF AtRest
    <3>5. AcknowledgedAreCovered'
      BY <1>7, <3>2, <3>3, StoreSteps DEF ClosingInv, AcknowledgedAreCovered
    <3>6. QED  BY <1>3, <1>7, <3>2, <3>4, <3>5 DEF ClosingInv
  <2>2. CASE process \notin {"starting", "closed"}
    BY <1>3, <1>7, <2>2 DEF ClosingInv, AcknowledgedAreCovered
  <2>3. QED  BY <2>1, <2>2
<1>8. QED  BY <1>4, <1>5, <1>6, <1>7, ProcessSteps

-----------------------------------------------------------------------------
(* The counters, and the sets they count. *)

Answered(s) == {r \in Request : stage[r] = "answered" /\ status[r] = s}
Checked     == {r \in Request : route[r] = "check" /\ status[r] = 200}
Ingested    == {row \in table : status[row.by] = 200}
Begun       == {r \in Request : stage[r] # "new"}

TrackedExact  == \A s \in Status : tracked[s] = Cardinality(Answered(s))
ChecksExact   == checks = Cardinality(Checked)
IngestedExact == ingested = Cardinality(Ingested)

MetricsInv == IsFiniteSet(Begun) /\ TrackedExact /\ ChecksExact /\ IngestedExact

LEMMA TrackedSame ==
  ASSUME TrackedExact, tracked' = tracked, \A s \in Status : Answered(s)' = Answered(s)
  PROVE  TrackedExact'
<1>1. \A s \in Status : Cardinality(Answered(s)') = Cardinality(Answered(s))
  BY Zenon
<1>2. QED  BY <1>1 DEF TrackedExact

LEMMA ChecksSame ==
  ASSUME ChecksExact, checks' = checks, Checked' = Checked
  PROVE  ChecksExact'
<1>1. Cardinality(Checked') = Cardinality(Checked)
  BY Zenon
<1>2. QED  BY <1>1 DEF ChecksExact

LEMMA IngestedSame ==
  ASSUME IngestedExact, ingested' = ingested, Ingested' = Ingested
  PROVE  IngestedExact'
<1>1. Cardinality(Ingested') = Cardinality(Ingested)
  BY Zenon
<1>2. QED  BY <1>1 DEF IngestedExact

(* A request under way has no status yet, and rows are of requests. *)
LEMMA NoStatus ==
  ASSUME TypeOK, RequestInv
  PROVE  /\ \A r \in Request : stage[r] \in {"new", "handling", "dropped"} => status[r] # 200
         /\ \A row \in table : row.by \in Request
         /\ Checked \subseteq Begun
         /\ \A s \in Status : Answered(s) \subseteq Begun
<1>1. None # 200
  BY PostgresAssumption
<1>2. \A row \in table : row.by \in Request
  BY ServiceAssumption DEF TypeOK, Row
<1>3. QED  BY <1>1, <1>2 DEF RequestInv, Checked, Answered, Begun

(* A step that tells no request anything. *)
LEMMA UntoldKeeps ==
  ASSUME TypeOK, StoreInv, RequestInv, MetricsInv, [Next]_vars,
         UNCHANGED <<status, tracked, checks, ingested>>,
         \A r \in Request : (stage'[r] = "answered") <=> (stage[r] = "answered"),
         IsFiniteSet(Begun)'
  PROVE  MetricsInv'
<1>1. route' = route
  BY RequestSteps
<1>2. \A s \in Status : Answered(s)' = Answered(s)
  BY DEF Answered
<1>3. Checked' = Checked
  BY <1>1 DEF Checked
<1>4. Ingested' = Ingested
  <2>1. \A row \in table' \ table : status[row.by] # 200
    BY StoreMoves, NoStatus, ServiceAssumption DEF Moves
  <2>2. table \subseteq table'
    BY StoreMoves DEF Moves
  <2>3. QED  BY <2>1, <2>2 DEF Ingested
<1>5. QED  BY <1>2, <1>3, <1>4, TrackedSame, ChecksSame, IngestedSame DEF MetricsInv

(* A reply, with what it adds to the counters. *)
LEMMA ToldKeeps ==
  ASSUME TypeOK, StoreInv, RequestInv, MetricsInv, [Next]_vars,
         table' = table, tracked' = tracked,
         NEW r \in Request, NEW code, Replies(r, code),
         IF route[r] = "check" /\ code = 200 THEN checks' = checks + 1 ELSE checks' = checks,
         IF r \in Batch /\ code = 200 THEN ingested' = ingested + Cardinality(By(r))
                                      ELSE ingested' = ingested
  PROVE  MetricsInv'
<1>1. route' = route
  BY RequestSteps
<1>2. /\ stage[r] \in {"new", "handling"} /\ status[r] # 200
      /\ stage'[r] = "reply" /\ status'[r] = code
      /\ \A q \in Request : q # r => stage'[q] = stage[q] /\ status'[q] = status[q]
  BY NoStatus DEF Replies, Replied, TypeOK
<1>3. TrackedExact'
  <2>1. \A s \in Status : Answered(s)' = Answered(s)
    BY <1>2 DEF Answered
  <2>2. QED  BY <2>1, TrackedSame DEF MetricsInv
<1>4. ChecksExact'
  <2>1. CASE route[r] = "check" /\ code = 200
    <3>1. Checked' = Checked \cup {r} /\ r \notin Checked
      BY <1>1, <1>2, <2>1 DEF Checked
    <3>2. IsFiniteSet(Checked)
      BY NoStatus, FS_Subset DEF MetricsInv
    <3>3. Cardinality(Checked \cup {r}) = Cardinality(Checked) + 1
      BY <3>1, <3>2, FS_AddElement
    <3>4. Cardinality(Checked') = Cardinality(Checked \cup {r})
      BY <3>1, Zenon
    <3>5. QED  BY <2>1, <3>3, <3>4 DEF MetricsInv, ChecksExact
  <2>2. CASE ~(route[r] = "check" /\ code = 200)
    <3>1. Checked' = Checked
      BY <1>1, <1>2, <2>2 DEF Checked
    <3>2. QED  BY <2>2, <3>1, ChecksSame DEF MetricsInv
  <2>3. QED  BY <2>1, <2>2
<1>5. IngestedExact'
  <2>1. CASE r \in Batch /\ code = 200
    <3>1. Ingested' = Ingested \cup By(r)
      BY <1>2, <2>1, NoStatus DEF Ingested, By
    <3>2. Ingested \cap By(r) = {}
      BY <1>2 DEF Ingested, By
    <3>3. IsFiniteSet(Ingested) /\ IsFiniteSet(By(r))
      BY FS_Subset DEF Ingested, By, StoreInv
    <3>4. Cardinality(Ingested \cup By(r)) = Cardinality(Ingested) + Cardinality(By(r))
      <4>1. Cardinality(Ingested \cap By(r)) = 0
        BY <3>2, FS_EmptySet, Zenon
      <4>2. Cardinality(Ingested) \in Nat /\ Cardinality(By(r)) \in Nat
        BY <3>3, FS_CardinalityType
      <4>3. Cardinality(Ingested \cup By(r)) =
              Cardinality(Ingested) + Cardinality(By(r)) - Cardinality(Ingested \cap By(r))
        BY <3>3, FS_Union
      <4>4. QED  BY <4>1, <4>2, <4>3
    <3>5. Cardinality(Ingested') = Cardinality(Ingested \cup By(r))
      BY <3>1, Zenon
    <3>6. QED  BY <2>1, <3>4, <3>5 DEF MetricsInv, IngestedExact
  <2>2. CASE ~(r \in Batch /\ code = 200)
    <3>1. Ingested' = Ingested
      BY <1>2, <2>2, NoStatus DEF Ingested, TypeOK, Row
    <3>2. QED  BY <2>2, <3>1, IngestedSame DEF MetricsInv
  <2>3. QED  BY <2>1, <2>2
<1>6. IsFiniteSet(Begun)'
  <2>1. Begun' = Begun \cup {r}
    BY <1>2 DEF Begun
  <2>2. IsFiniteSet(Begun \cup {r})
    BY FS_AddElement DEF MetricsInv
  <2>3. QED  BY <2>1, <2>2
<1>7. QED  BY <1>3, <1>4, <1>5, <1>6 DEF MetricsInv

LEMMA TrackKeeps ==
  ASSUME TypeOK, RequestInv, MetricsInv, NEW r \in Request, Track(r)
  PROVE  MetricsInv'
<1>1. /\ stage[r] = "reply" /\ stage'[r] = "answered" /\ status' = status
      /\ \A q \in Request : q # r => stage'[q] = stage[q]
      /\ table' = table /\ route' = route /\ checks' = checks /\ ingested' = ingested
      /\ tracked' = [tracked EXCEPT ![status[r]] = @ + 1]
  BY DEF Track, TypeOK, store
<1>2. TrackedExact'
  <2>1. ASSUME NEW s \in Status
        PROVE  tracked'[s] = Cardinality(Answered(s)')
    <3>1. CASE s = status[r]
      <4>1. Answered(s)' = Answered(s) \cup {r} /\ r \notin Answered(s)
        BY <1>1, <3>1 DEF Answered
      <4>2. IsFiniteSet(Answered(s))
        BY NoStatus, FS_Subset DEF MetricsInv
      <4>3. Cardinality(Answered(s) \cup {r}) = Cardinality(Answered(s)) + 1
        BY <4>1, <4>2, FS_AddElement
      <4>4. Cardinality(Answered(s)') = Cardinality(Answered(s) \cup {r})
        BY <4>1, Zenon
      <4>5. tracked'[s] = tracked[s] + 1
        BY <1>1, <3>1 DEF TypeOK
      <4>6. QED  BY <4>3, <4>4, <4>5 DEF MetricsInv, TrackedExact
    <3>2. CASE s # status[r]
      <4>1. Answered(s)' = Answered(s)
        BY <1>1, <3>2 DEF Answered
      <4>2. Cardinality(Answered(s)') = Cardinality(Answered(s))
        BY <4>1, Zenon
      <4>3. tracked'[s] = tracked[s]
        BY <1>1, <3>2 DEF TypeOK
      <4>4. QED  BY <4>2, <4>3 DEF MetricsInv, TrackedExact
    <3>3. QED  BY <3>1, <3>2
  <2>2. QED  BY <2>1 DEF TrackedExact
<1>3. Checked' = Checked /\ Ingested' = Ingested /\ Begun' = Begun
  BY <1>1 DEF Checked, Ingested, Begun
<1>4. QED  BY <1>1, <1>2, <1>3, ChecksSame, IngestedSame DEF MetricsInv

LEMMA MetricsKeeps ==
  ASSUME TypeOK, StoreInv, RequestInv, MetricsInv, [Next]_vars
  PROVE  MetricsInv'
<1>1. CASE Waits
  <2>1. Begun' = Begun
    BY <1>1 DEF Waits, Begun
  <2>2. QED  BY <1>1, <2>1, UntoldKeeps DEF Waits, MetricsInv
<1>2. ASSUME NEW b \in Batch, Disconnect(b)
      PROVE  MetricsInv'
  <2>1. /\ stage[b] = "handling" /\ stage'[b] = "dropped"
        /\ UNCHANGED <<status, tracked, checks, ingested>>
        /\ \A q \in Request : q # b => stage'[q] = stage[q]
    BY <1>2, ServiceAssumption DEF Disconnect, OverPostgres, Handling, TypeOK, metrics
  <2>2. Begun' = Begun
    BY <2>1, ServiceAssumption DEF Begun
  <2>3. \A q \in Request : stage'[q] = "answered" <=> stage[q] = "answered"
    BY <2>1
  <2>4. QED  BY <2>1, <2>2, <2>3, UntoldKeeps DEF MetricsInv
<1>3. ASSUME NEW b \in Batch, IngestReplies(b)
      PROVE  MetricsInv'
  <2>1. /\ table' = table /\ tracked' = tracked /\ checks' = checks
        /\ stage[b] = "handling" /\ route[b] # "check" /\ b \in Request
    BY <1>3, ServiceAssumption DEF IngestReplies, Handling, store
  <2>2. CASE Replied(b, 500) /\ ingested' = ingested
    <3>1. Replies(b, 500)
      BY <2>1, <2>2 DEF Replies, Status
    <3>2. QED  BY <2>1, <2>2, <3>1, ToldKeeps
  <2>3. CASE result[b] \notin {None, Err} /\ Replied(b, 200) /\ ingested' = ingested + result[b]
    <3>1. result[b] \in Nat /\ result[b] = Cardinality(By(b))
      BY <2>3 DEF TypeOK, StoreInv, BatchInv
    <3>2. Replies(b, 200)
      BY <2>1, <2>3, <3>1 DEF Replies, Status
    <3>3. QED  BY <2>1, <2>3, <3>1, <3>2, ToldKeeps
  <2>4. QED  BY <1>3, <2>2, <2>3 DEF IngestReplies
<1>4. ASSUME NEW r \in Request, Check(r)
      PROVE  MetricsInv'
  <2>1. /\ table' = table /\ tracked' = tracked /\ ingested' = ingested
        /\ stage[r] = "handling" /\ route[r] = "check" /\ Replied(r, 200) /\ checks' = checks + 1
    BY <1>4 DEF Check, Handling, store
  <2>2. r \notin Batch
    BY <2>1 DEF RequestInv
  <2>3. Replies(r, 200)
    BY <2>1, <2>2 DEF Replies, Status
  <2>4. QED  BY <2>1, <2>2, <2>3, ToldKeeps
<1>5. ASSUME NEW r \in Request, List(r) \/ Attest(r)
      PROVE  MetricsInv'
  <2>1. /\ table' = table /\ UNCHANGED <<tracked, checks, ingested>>
        /\ stage[r] = "handling" /\ route[r] \in {"list", "attest"}
    BY <1>5 DEF List, Attest, Handling, store, metrics
  <2>2. r \notin Batch
    BY <2>1 DEF RequestInv
  <2>3. PICK code \in Status : Replies(r, code)
    BY <1>5, HandlersReply
  <2>4. QED  BY <2>1, <2>2, <2>3, ToldKeeps
<1>6. ASSUME NEW r \in Request, Arrive(r)
      PROVE  MetricsInv'
  <2>1. /\ table' = table /\ UNCHANGED <<tracked, checks, ingested>> /\ stage[r] = "new"
    BY <1>6 DEF Arrive, store, metrics
  <2>2. ASSUME NEW code \in {401, 429}, Replied(r, code)
        PROVE  MetricsInv'
    <3>1. Replies(r, code)
      BY <2>1, <2>2 DEF Replies, Status
    <3>2. code # 200
      BY <2>2
    <3>3. QED  BY <2>1, <3>1, <3>2, ToldKeeps
  <2>3. CASE Handled(r)
    <3>1. /\ stage'[r] = "handling" /\ status' = status
          /\ \A q \in Request : q # r => stage'[q] = stage[q]
      BY <2>3 DEF Handled, TypeOK
    <3>2. Begun' = Begun \cup {r}
      BY <3>1 DEF Begun
    <3>3. IsFiniteSet(Begun \cup {r})
      BY FS_AddElement DEF MetricsInv
    <3>4. \A q \in Request : stage'[q] = "answered" <=> stage[q] = "answered"
      BY <2>1, <3>1
    <3>5. QED  BY <2>1, <3>1, <3>2, <3>3, <3>4, UntoldKeeps
  <2>4. QED  BY <1>6, <2>2, <2>3 DEF Arrive
<1>7. QED  BY <1>1, <1>2, <1>3, <1>4, <1>5, <1>6, TrackKeeps, RequestSteps

-----------------------------------------------------------------------------
(* The invariant. *)

ServiceInv == TypeOK /\ StoreInv /\ RequestInv /\ ClosingInv /\ MetricsInv

LEMMA ServiceInitially ==
  ASSUME Init
  PROVE  ServiceInv
<1>1. TypeOK
  BY DEF Init, StoreInit, TypeOK, Tx, TxStage, Stages
<1>2. StoreInv
  <2>1. table = {} /\ Stored = {}
    BY DEF Init, StoreInit, Stored
  <2>2. ASSUME NEW b \in Batch
        PROVE  BatchInv(b) /\ tx[b].rows = {}
    <3>1. tx[b].stage = "none" /\ tx[b].next = 1 /\ tx[b].rows = {} /\ result[b] = None
      BY DEF Init, StoreInit
    <3>2. By(b) = {}
      BY <2>1 DEF By
    <3>3. Own(b) /\ Done(b)
      BY <3>1, EventsOfBody DEF Own, Done
    <3>4. QED  BY <3>1, <3>2, <3>3, PostgresAssumption DEF BatchInv, InPostgres, InLog
  <2>3. IsFiniteSet(table) /\ \A b \in Batch : IsFiniteSet(tx[b].rows)
    BY <2>1, <2>2, FS_EmptySet
  <2>4. QED  BY <2>1, <2>2, <2>3 DEF StoreInv, Once, BatchesWhole
<1>3. RequestInv
  BY ServiceAssumption, PostgresAssumption DEF Init, RequestInv
<1>4. ClosingInv
  BY DEF Init, StoreInit, ClosingInv, AcknowledgedAreCovered, AtRest
<1>5. MetricsInv
  <2>1. /\ \A s \in Status : Answered(s) = {}
        /\ Checked = {} /\ Ingested = {} /\ Begun = {}
    BY PostgresAssumption DEF Init, StoreInit, Answered, Checked, Ingested, Begun
  <2>2. /\ \A s \in Status : Cardinality(Answered(s)) = 0
        /\ Cardinality(Checked) = 0 /\ Cardinality(Ingested) = 0 /\ IsFiniteSet(Begun)
    BY <2>1, FS_EmptySet, Zenon
  <2>3. QED  BY <2>2 DEF Init, MetricsInv, TrackedExact, ChecksExact, IngestedExact
<1>6. QED  BY <1>1, <1>2, <1>3, <1>4, <1>5 DEF ServiceInv

LEMMA ServiceInvariant == Spec => []ServiceInv
<1>1. ServiceInv /\ [Next]_vars => ServiceInv'
  <2> SUFFICES ASSUME ServiceInv, [Next]_vars PROVE ServiceInv'
    OBVIOUS
  <2>1. TypeOK'
    BY StoreTypeStep, RequestTypeStep DEF ServiceInv, TypeOK
  <2>2. QED
    BY <2>1, StoreKeeps, RequestKeeps, ClosingKeeps, MetricsKeeps DEF ServiceInv
<1>2. QED  BY <1>1, ServiceInitially, PTL DEF Spec

(* Over Postgres nothing of a batch is stored before all of it is           *)
(* (append_batch of pg_store.rs).                                           *)
THEOREM BatchesAreWhole == Spec => []BatchesWhole
<1>1. ServiceInv => BatchesWhole
  BY DEF ServiceInv, StoreInv
<1>2. QED  BY <1>1, ServiceInvariant, PTL

(* The counters say what happened (track_requests, ingest_handler,          *)
(* check_handler).                                                          *)
THEOREM CountersAreExact == Spec => []MetricsExact
<1>1. ServiceInv => MetricsExact
  <2>1. MetricsInv => MetricsExact
    BY DEF MetricsInv, TrackedExact, ChecksExact, IngestedExact, Answered, Checked, Ingested,
           MetricsExact
  <2>2. QED  BY <2>1 DEF ServiceInv
<1>2. QED  BY <1>1, ServiceInvariant, PTL

(* The closing checkpoints cover what was acknowledged (main,               *)
(* force_checkpoints).                                                      *)
THEOREM ClosingCovers == Spec => []AcknowledgedAreCovered
<1>1. ServiceInv => AcknowledgedAreCovered
  BY DEF ServiceInv, ClosingInv
<1>2. QED  BY <1>1, ServiceInvariant, PTL

(* Each backend keeps the trait's promise (ingest_handler, append_batch).   *)
THEOREM ContractKept == Spec => ImplementsContract
<1>1. Init => Contract!TInit
  BY DEF Init, StoreInit, Contract!TInit, Stored
<1>2. ServiceInv /\ [Next]_vars => [Contract!TNext]_(Contract!tvars)
  BY StoreImplements DEF ServiceInv
<1>3. QED  BY <1>1, <1>2, ServiceInvariant, PTL DEF Spec, ImplementsContract, Contract!TSpec

-----------------------------------------------------------------------------
(* Lists. *)

LEMMA BySeqIs ==
  ASSUME NEW rows, IsFiniteSet(rows)
  PROVE  \E S : BySeq(rows) \in Seq(S) /\ Len(BySeq(rows)) = Cardinality(rows)
<1> DEFINE n == Cardinality(rows)
           Nth(k) == CHOOSE row \in rows : Cardinality({r \in rows : r.seq <= row.seq}) = k
           S == {Nth(k) : k \in 1 .. n}
<1>1. n \in Nat
  BY FS_CardinalityType
<1>2. BySeq(rows) = [k \in 1 .. n |-> Nth(k)]
  BY DEF BySeq
<1>3. \A k \in 1 .. n : Nth(k) \in S
  OBVIOUS
<1> HIDE DEF n, Nth, S
<1>4. [k \in 1 .. n |-> Nth(k)] \in Seq(S)
  BY <1>1, <1>3, IsASeq
<1>5. Len([k \in 1 .. n |-> Nth(k)]) = n
  BY <1>1, <1>4, LenProperties
<1>6. QED  BY <1>2, <1>4, <1>5 DEF n

LEMMA ReverseIs ==
  ASSUME NEW S, NEW s \in Seq(S)
  PROVE  /\ Reverse(s) \in Seq(S) /\ Len(Reverse(s)) = Len(s)
         /\ \A i \in 1 .. Len(s) : Reverse(s)[i] = s[Len(s) - i + 1]
<1>1. Len(s) \in Nat /\ \A i \in 1 .. Len(s) : s[i] \in S
  BY LenProperties, ElementOfSeq
<1>2. \A i \in 1 .. Len(s) : (Len(s) - i) + 1 \in 1 .. Len(s)
  BY <1>1
<1>3. [i \in 1 .. Len(s) |-> s[(Len(s) - i) + 1]] \in Seq(S)
  BY <1>1, <1>2, IsASeq
<1>4. Reverse(s) = [i \in 1 .. Len(s) |-> s[(Len(s) - i) + 1]]
  BY DEF Reverse
<1>5. Len(Reverse(s)) = Len(s)
  BY <1>1, <1>3, <1>4, LenProperties
<1>6. QED  BY <1>3, <1>4, <1>5

(* Fetching the newest from the end and putting them back in order is       *)
(* taking the end. *)
LEMMA NewestInOrder ==
  ASSUME NEW S, NEW s \in Seq(S), NEW n \in Nat \ {0}
  PROVE  Reverse(FirstOf(Reverse(s), n))
            = SubSeq(s, IF n < Len(s) THEN Len(s) - n + 1 ELSE 1, Len(s))
<1>1. /\ Len(s) \in Nat /\ \A i \in 1 .. Len(s) : s[i] \in S
      /\ Reverse(s) \in Seq(S) /\ Len(Reverse(s)) = Len(s)
      /\ \A i \in 1 .. Len(s) : Reverse(s)[i] = s[Len(s) - i + 1]
      /\ \A i \in 1 .. Len(s) : Reverse(s)[i] \in S
  BY LenProperties, ElementOfSeq, ReverseIs
<1>2. CASE n < Len(s)
  <2> DEFINE first == SubSeq(Reverse(s), 1, n)
             last  == SubSeq(s, Len(s) - n + 1, Len(s))
  <2>1. FirstOf(Reverse(s), n) = first
    BY <1>1, <1>2 DEF FirstOf
  <2>2. /\ first \in Seq(S) /\ Len(first) = n
        /\ \A i \in 1 .. n : first[i] = Reverse(s)[i]
    <3>1. 1 \in 1 .. Len(Reverse(s)) + 1 /\ n \in (1 - 1) .. Len(Reverse(s))
      BY <1>1, <1>2
    <3>2. \A i \in 1 .. n : Reverse(s)[i] \in S
      BY <1>1, <1>2
    <3>3. QED  BY <1>1, <1>2, <3>1, <3>2, SubSeqProperties
  <2>3. /\ last \in Seq(S) /\ Len(last) = n
        /\ \A i \in 1 .. n : last[i] = s[Len(s) - n + i]
    <3>1. /\ Len(s) - n + 1 \in 1 .. Len(s) + 1
          /\ Len(s) \in (Len(s) - n + 1 - 1) .. Len(s)
      BY <1>1, <1>2
    <3>2. \A i \in Len(s) - n + 1 .. Len(s) : s[i] \in S
      BY <1>1, <1>2
    <3>3. QED  BY <1>1, <1>2, <3>1, <3>2, SubSeqProperties
  <2> HIDE DEF first, last
  <2>4. /\ Reverse(first) \in Seq(S) /\ Len(Reverse(first)) = n
        /\ \A i \in 1 .. n : Reverse(first)[i] = first[n - i + 1]
    BY <2>2, ReverseIs
  <2>5. ASSUME NEW i \in 1 .. n PROVE Reverse(first)[i] = last[i]
    <3>1. n - i + 1 \in 1 .. n /\ n - i + 1 \in 1 .. Len(s)
      BY <1>1, <1>2
    <3>2. Reverse(first)[i] = s[Len(s) - (n - i + 1) + 1]
      BY <1>1, <2>2, <2>4, <3>1
    <3>3. Len(s) - (n - i + 1) + 1 = Len(s) - n + i
      BY <1>1
    <3>4. QED  BY <2>3, <3>2, <3>3
  <2>6. Reverse(first) = last
    BY <2>3, <2>4, <2>5, SeqEqual
  <2>7. QED  BY <1>2, <2>1, <2>6 DEF last
<1>3. CASE ~(n < Len(s))
  <2>1. FirstOf(Reverse(s), n) = Reverse(s)
    BY <1>1, <1>3 DEF FirstOf
  <2>2. /\ Reverse(Reverse(s)) \in Seq(S) /\ Len(Reverse(Reverse(s))) = Len(s)
        /\ \A i \in 1 .. Len(s) : Reverse(Reverse(s))[i] = Reverse(s)[Len(s) - i + 1]
    BY <1>1, ReverseIs
  <2>3. ASSUME NEW i \in 1 .. Len(s) PROVE Reverse(Reverse(s))[i] = s[i]
    <3>1. Len(s) - i + 1 \in 1 .. Len(s) /\ Len(s) - (Len(s) - i + 1) + 1 = i
      BY <1>1
    <3>2. QED  BY <1>1, <2>2, <3>1
  <2>4. Reverse(Reverse(s)) = s
    BY <2>2, <2>3, SeqEqual
  <2>5. SubSeq(s, 1, Len(s)) = s
    BY <1>1, SubSeqFull
  <2>6. QED  BY <1>3, <2>1, <2>4, <2>5
<1>4. QED  BY <1>2, <1>3

LEMMA GroupIs ==
  ASSUME NEW a \in Range(AgentOf), NEW s \in Range(SessionOf), IsFiniteSet(table)
  PROVE  /\ Where([agent_id |-> a, session_id |-> s]) = Group(a, s)
         /\ IsFiniteSet(Group(a, s))
         /\ Len(GetSession(a, s)) = Cardinality(Group(a, s))
<1>1. a # None /\ s # None
  BY PostgresAssumption
<1>2. Where([agent_id |-> a, session_id |-> s]) = Group(a, s)
  BY <1>1 DEF Where, Group
<1>3. IsFiniteSet(Group(a, s))
  BY FS_Subset DEF Group
<1>4. GetSession(a, s) = BySeq(Group(a, s))
  BY <1>2 DEF GetSession, Fetch
<1>5. Len(BySeq(Group(a, s))) = Cardinality(Group(a, s))
  BY <1>3, BySeqIs
<1>6. QED  BY <1>2, <1>3, <1>4, <1>5

(* A list is the newest of the events that match, oldest first, however the *)
(* batches that stored them interleaved, and a session's summary has the    *)
(* length of the session (list_events, list_sessions, get_session).         *)
THEOREM ListsAreAlike == Spec => []ListsAlike
<1>1. ASSUME IsFiniteSet(table),
             NEW filter \in [agent_id : Range(AgentOf) \cup {None}, session_id : {None},
                             limit : {1, 2, None}]
      PROVE  LET all   == BySeq(Where(filter))
                 first == IF filter.limit = None THEN 1
                          ELSE Max({1, Len(all) - filter.limit + 1})
             IN  ListEvents(filter) = SubSeq(all, first, Len(all))
  <2> DEFINE all == BySeq(Where(filter))
  <2>1. IsFiniteSet(Where(filter))
    BY <1>1, FS_Subset DEF Where
  <2>2. PICK S : all \in Seq(S)
    BY <2>1, BySeqIs
  <2>3. Len(all) \in Nat
    BY <2>2, LenProperties
  <2> HIDE DEF all
  <2>4. CASE filter.limit = None
    <3>1. ListEvents(filter) = all
      BY <2>4 DEF ListEvents, Fetch, all
    <3>2. SubSeq(all, 1, Len(all)) = all
      BY <2>2, SubSeqFull
    <3>3. QED  BY <2>4, <3>1, <3>2 DEF all
  <2>5. CASE filter.limit # None
    <3>1. PICK n \in {1, 2} : n = filter.limit
      BY <2>5
    <3>2. n \in Nat \ {0}
      OBVIOUS
    <3>3. ListEvents(filter) = Reverse(FirstOf(Reverse(all), n))
      BY <2>5, <3>1 DEF ListEvents, Fetch, all
    <3>4. Reverse(FirstOf(Reverse(all), n))
             = SubSeq(all, IF n < Len(all) THEN Len(all) - n + 1 ELSE 1, Len(all))
      BY <2>2, <3>2, NewestInOrder
    <3>5. Max({1, Len(all) - n + 1}) = IF n < Len(all) THEN Len(all) - n + 1 ELSE 1
      <4>1. PICK k \in Int : k = Len(all) - n + 1
        BY <2>3
      <4>2. Max({1, k}) = IF k > 1 THEN k ELSE 1
        <5>1. \A x \in {1, k} : (\A y \in {1, k} : x >= y) <=> x = IF k > 1 THEN k ELSE 1
          OBVIOUS
        <5>2. (IF k > 1 THEN k ELSE 1) \in {1, k}
          OBVIOUS
        <5>3. QED  BY <5>1, <5>2 DEF Max
      <4>3. n < Len(all) <=> k > 1
        BY <2>3, <4>1
      <4>4. QED  BY <4>1, <4>2, <4>3
    <3>6. QED  BY <2>5, <3>1, <3>3, <3>4, <3>5 DEF all
  <2>6. QED  BY <2>4, <2>5
<1>2. ASSUME IsFiniteSet(table), NEW a \in Range(AgentOf), NEW s \in Range(SessionOf)
      PROVE  {g.event_count : g \in {h \in ListSessions : h.agent_id = a /\ h.session_id = s}}
                = {Len(GetSession(a, s))} \ {0}
  <2> DEFINE counts == {g.event_count : g \in {h \in ListSessions : h.agent_id = a /\ h.session_id = s}}
             c == Cardinality(Group(a, s))
             Summary(t) ==
               [agent_id |-> AgentOf[t], session_id |-> SessionOf[t],
                event_count |-> Cardinality(Group(AgentOf[t], SessionOf[t])),
                first_seen |-> Min({Sent[row.trace] : row \in Group(AgentOf[t], SessionOf[t])}),
                last_seen |-> Max({Sent[row.trace] : row \in Group(AgentOf[t], SessionOf[t])})]
  <2>0. /\ ListSessions = {Summary(t) : t \in Stored}
        /\ \A t \in Stored : /\ Summary(t).agent_id = AgentOf[t]
                             /\ Summary(t).session_id = SessionOf[t]
                             /\ Summary(t).event_count = Cardinality(Group(AgentOf[t], SessionOf[t]))
    <3>1. ListSessions = {Summary(t) : t \in Stored}
      BY Zenon DEF ListSessions
    <3>2. \A t \in Stored : /\ Summary(t).agent_id = AgentOf[t]
                            /\ Summary(t).session_id = SessionOf[t]
                            /\ Summary(t).event_count = Cardinality(Group(AgentOf[t], SessionOf[t]))
      OBVIOUS
    <3>3. QED  BY <3>1, <3>2, Zenon
  <2> HIDE DEF Summary
  <2>1. IsFiniteSet(Group(a, s)) /\ Len(GetSession(a, s)) = c
    BY <1>2, GroupIs
  <2>2. c = 0 <=> Group(a, s) = {}
    BY <2>1, FS_EmptySet
  <2>3. ASSUME NEW x \in counts PROVE x = c /\ c # 0
    <3>1. PICK h \in ListSessions : h.agent_id = a /\ h.session_id = s /\ x = h.event_count
      OBVIOUS
    <3>2. PICK t \in Stored :
            /\ h.agent_id = AgentOf[t] /\ h.session_id = SessionOf[t]
            /\ h.event_count = Cardinality(Group(AgentOf[t], SessionOf[t]))
      BY <2>0, <3>1
    <3>3. AgentOf[t] = a /\ SessionOf[t] = s
      BY <3>1, <3>2
    <3>4. x = c
      BY <3>1, <3>2, <3>3
    <3>5. PICK row \in table : row.trace = t
      BY DEF Stored
    <3>6. row \in Group(a, s)
      BY <3>3, <3>5 DEF Group
    <3>7. QED  BY <2>2, <3>4, <3>6
  <2>4. ASSUME c # 0 PROVE c \in counts
    <3>1. PICK row \in Group(a, s) : TRUE
      BY <2>2, <2>4
    <3>2. row.trace \in Stored /\ AgentOf[row.trace] = a /\ SessionOf[row.trace] = s
      BY DEF Group, Stored
    <3> DEFINE h == Summary(row.trace)
    <3>3. h \in ListSessions
      BY <2>0, <3>2
    <3>4. h.agent_id = a /\ h.session_id = s /\ h.event_count = c
      BY <2>0, <3>2
    <3> HIDE DEF h
    <3>5. QED  BY <3>3, <3>4
  <2> HIDE DEF counts, c
  <2>5. counts = {c} \ {0}
    BY <2>3, <2>4
  <2>6. QED  BY <2>1, <2>5 DEF counts
<1>3. ServiceInv => ListsAlike
  <2> SUFFICES ASSUME ServiceInv PROVE ListsAlike
    OBVIOUS
  <2>1. IsFiniteSet(table)
    BY DEF ServiceInv, StoreInv
  <2>2. QED  BY <1>1, <1>2, <2>1 DEF ListsAlike
<1>4. QED  BY <1>3, ServiceInvariant, PTL
=============================================================================
