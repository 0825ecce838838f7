---------------------------- MODULE PostgresStore ----------------------------
(***************************************************************************)
(* The Postgres backend (core-rs/src/pg_store.rs): one transaction per     *)
(* batch, over a pool of connections, each event an INSERT with            *)
(* ON CONFLICT (trace_id) DO NOTHING.                                      *)
(*                                                                         *)
(* The database is modelled by what the backend relies on: READ COMMITTED, *)
(* BIGSERIAL numbers taken when a row is inserted, an insert that meets an *)
(* uncommitted row of the same trace waits for its transaction to end, and *)
(* of the transactions that wait for each other one is aborted.  An append *)
(* may fail at any of its awaits, and its future may be dropped there when *)
(* the client goes away.                                                   *)
(***************************************************************************)
EXTENDS Integers, Sequences, FiniteSets, SequencesExt

CONSTANTS
    Batch, Trace,
    Body,       \* each batch's events, in order
    AgentOf, SessionOf, Sent,   \* what an event carries
    PoolSizes,  \* the max_connections a pool may have been given
    None, Err

ASSUME PostgresAssumption ==
    /\ Body \in [Batch -> Seq(Trace)]
    /\ PoolSizes \subseteq Nat \ {0}
    /\ None \notin Nat /\ Err \notin Nat /\ None # Err
    /\ None \notin Range(AgentOf) \cup Range(SessionOf)

VARIABLES
    pool,       \* max_connections
    table,      \* trace_events: the committed rows
    nextSeq,    \* the sequence behind `seq'
    tx,         \* each batch's transaction
    result      \* what append_batch returned: a count or Err, None before

store == <<pool, table, nextSeq, tx, result>>

Stored == {row.trace : row \in table}

StoreInit ==
    /\ pool \in PoolSizes
    /\ table = {}
    /\ nextSeq = 1
    /\ tx = [b \in Batch |-> [stage |-> "none", next |-> 1, rows |-> {}]]
    /\ result = [b \in Batch |-> None]

-----------------------------------------------------------------------------
Acquire(b) ==
    /\ tx[b].stage = "none"
    /\ tx' = [tx EXCEPT ![b].stage = "acquire"]
    /\ UNCHANGED <<pool, table, nextSeq, result>>

Connected == {b \in Batch : tx[b].stage \in {"open", "committed"}}

Begin(b) ==
    /\ tx[b].stage = "acquire"
    /\ Cardinality(Connected) < pool
    /\ tx' = [tx EXCEPT ![b].stage = "open"]
    /\ UNCHANGED <<pool, table, nextSeq, result>>

(* Ends the append with an error; dropping the transaction rolls it back.   *)
Failed(b) ==
    /\ tx' = [tx EXCEPT ![b].stage = "ended", ![b].rows = {}]
    /\ result' = [result EXCEPT ![b] = Err]
    /\ UNCHANGED <<pool, table, nextSeq>>

(* The pool's timeout, or a connection that cannot be made. *)
BeginFails(b) == tx[b].stage = "acquire" /\ Failed(b)

Inserting(b) == tx[b].stage = "open" /\ tx[b].next <= Len(Body[b])
Inserted(b) == Body[b][tx[b].next]

Holds(b, t) == \E row \in tx[b].rows : row.trace = t

(* b's insert waits for c's transaction to end. *)
WaitsFor(b, c) ==
    /\ b # c
    /\ Inserting(b) /\ Inserted(b) \notin Stored
    /\ Holds(c, Inserted(b))

(* Mistake: the insert is executed on the pool, not on the transaction. *)
InsertOnPool(b) ==
    /\ Inserting(b)
    /\ IF Inserted(b) \in Stored
          THEN UNCHANGED <<pool, table, nextSeq>>
          ELSE /\ table' = table \cup {[trace |-> Inserted(b), seq |-> nextSeq, by |-> b]}
               /\ nextSeq' = nextSeq + 1
    /\ tx' = [tx EXCEPT ![b].next = @ + 1]
    /\ UNCHANGED <<pool, result>>

Insert(b) ==
    /\ Inserting(b)
    /\ ~\E c \in Batch : WaitsFor(b, c)
    /\ IF Inserted(b) \in Stored \/ Holds(b, Inserted(b))
          THEN /\ tx' = [tx EXCEPT ![b].next = @ + 1]
               /\ UNCHANGED nextSeq
          ELSE /\ tx' = [tx EXCEPT ![b].next = @ + 1,
                   ![b].rows = @ \cup {[trace |-> Inserted(b), seq |-> nextSeq, by |-> b]}]
               /\ nextSeq' = nextSeq + 1
    /\ UNCHANGED <<pool, table, result>>

(* Everybody in S waits for somebody in S. *)
Circle(S) == S # {} /\ \A b \in S : \E c \in S : WaitsFor(b, c)

Deadlocked(b) ==
    \E S \in SUBSET Batch :
        b \in S /\ Circle(S) /\ \A R \in SUBSET S : Circle(R) => R = S

(* Mistake: the transaction outlives the error. *)
DeadlockLeaks(b) ==
    /\ Deadlocked(b)
    /\ tx' = [tx EXCEPT ![b].stage = "ended"]
    /\ result' = [result EXCEPT ![b] = Err]
    /\ UNCHANGED <<pool, table, nextSeq>>

(* The database resolves a deadlock by failing one of the inserts. *)
DeadlockAborts(b) == Deadlocked(b) /\ Failed(b)

InsertFails(b) == Inserting(b) /\ Failed(b)

(* The commit takes effect ... *)
Commit(b) ==
    /\ tx[b].stage = "open"
    /\ tx[b].next > Len(Body[b])
    /\ table' = table \cup tx[b].rows
    /\ tx' = [tx EXCEPT ![b].stage = "committed"]
    /\ UNCHANGED <<pool, nextSeq, result>>

CommitFails(b) == tx[b].stage = "open" /\ tx[b].next > Len(Body[b]) /\ Failed(b)

(* Mistake: the inserts are counted, not the rows they affected. *)
CommittedSent(b) ==
    /\ tx[b].stage = "committed"
    /\ result' = [result EXCEPT ![b] = Len(Body[b])]
    /\ tx' = [tx EXCEPT ![b].stage = "ended", ![b].rows = {}]
    /\ UNCHANGED <<pool, table, nextSeq>>

(* ... and its answer arrives, with the sum of rows_affected, or is lost.   *)
Committed(b) ==
    /\ tx[b].stage = "committed"
    /\ result' = [result EXCEPT ![b] = Cardinality(tx[b].rows)]
    /\ tx' = [tx EXCEPT ![b].stage = "ended", ![b].rows = {}]
    /\ UNCHANGED <<pool, table, nextSeq>>

CommitLost(b) == tx[b].stage = "committed" /\ Failed(b)

(* The steps of an append that goes well, or that the database ends. *)
Progress(b) == Begin(b) \/ Insert(b) \/ DeadlockAborts(b) \/ Commit(b) \/ Committed(b)

Error(b) == BeginFails(b) \/ InsertFails(b) \/ CommitFails(b) \/ CommitLost(b)

(* The handler's future is dropped at an await. *)
Dropped(b) == tx[b].stage \in {"acquire", "open", "committed"} /\ Failed(b)

-----------------------------------------------------------------------------
(* Queries, on the committed rows. *)

(* ORDER BY seq: the k-th row has k rows up to its own number. *)
BySeq(rows) ==
    [k \in 1 .. Cardinality(rows) |->
        CHOOSE row \in rows : Cardinality({r \in rows : r.seq <= row.seq}) = k]

FirstOf(s, n) == IF n < Len(s) THEN SubSeq(s, 1, n) ELSE s

(* Mistake: the page is left in the order it was fetched. *)
NewestFirst(rows, limit) ==
    IF limit = None THEN BySeq(rows) ELSE FirstOf(Reverse(BySeq(rows)), limit)

(* ORDER BY seq, or the newest `limit' of them fetched by ORDER BY seq DESC *)
(* and put back in order.                                                   *)
Fetch(rows, limit) ==
    IF limit = None THEN BySeq(rows) ELSE Reverse(FirstOf(Reverse(BySeq(rows)), limit))

(* The WHERE clause: after_seq, which the filter may also set, is not in it.*)
Where(filter) ==
    {row \in table :
        /\ filter.agent_id # None => AgentOf[row.trace] = filter.agent_id
        /\ filter.session_id # None => SessionOf[row.trace] = filter.session_id}

ListEvents(filter) == Fetch(Where(filter), filter.limit)

GetSession(a, s) == Fetch(Where([agent_id |-> a, session_id |-> s]), None)

(* list_sessions: COUNT, MIN and MAX over each group. *)
Group(a, s) == {row \in table : AgentOf[row.trace] = a /\ SessionOf[row.trace] = s}

ListSessions ==
    {[agent_id |-> AgentOf[t], session_id |-> SessionOf[t],
      event_count |-> Cardinality(Group(AgentOf[t], SessionOf[t])),
      first_seen |-> Min({Sent[row.trace] : row \in Group(AgentOf[t], SessionOf[t])}),
      last_seen |-> Max({Sent[row.trace] : row \in Group(AgentOf[t], SessionOf[t])})] :
        t \in Stored}
=============================================================================
