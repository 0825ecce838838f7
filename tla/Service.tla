------------------------------- MODULE Service -------------------------------
(***************************************************************************)
(* The HTTP sidecar over one of its three backends: main's choice of       *)
(* backend and its refusals (bin/guardian.rs), the layers a request passes *)
(* (build_router of server.rs: tracking, token, rate limit), the handlers, *)
(* the metrics and the graceful shutdown.                                  *)
(*                                                                         *)
(* Each request of the model is sent at most once; a retry is another      *)
(* request with the same body.  The JSONL backend is here a log to which   *)
(* append_batch adds one event at a time, its own steps being EventStore's *)
(* subject, and try_acquire is one step, its own being RateLimit's.        *)
(***************************************************************************)
EXTENDS PostgresStore

CONSTANTS
    Request,    \* the batches, which are sent to the ingest route, and others
    Limit       \* TRUSTLAYER_INGEST_RATE_LIMIT_PER_SEC, or None

ASSUME ServiceAssumption ==
    /\ Batch \subseteq Request
    /\ Limit \in (Nat \ {0}) \cup {None}

VARIABLES
    backend,    \* "jsonl", "memory" or "postgres"
    secured,    \* TRUSTLAYER_API_TOKEN is set
    process,    \* "starting", "up", "draining" or "closed"
    stage,      \* of each request
    status,     \* the status of each reply
    bearer,     \* the request carries the token
    route,      \* where it goes: "ingest", "list", "attest" or "check"
    spent,      \* the requests let through in the current second
    tracked,    \* requests_total, by status
    checks,     \* check_total
    ingested,   \* events_ingested_total
    unlinked,   \* events a failed append left without a chain entry
    covered     \* the events under the closing checkpoints, or None

config  == <<backend, secured>>
request == <<stage, status, bearer, route>>
metrics == <<tracked, checks, ingested>>
closing == <<unlinked, covered>>
vars == <<store, config, process, request, spent, metrics, closing>>

Status == {200, 400, 401, 429, 500, 501}

Init ==
    /\ StoreInit
    /\ backend \in {"jsonl", "memory", "postgres"}
    /\ backend = "postgres" \/ pool = Min(PoolSizes)
    /\ secured \in BOOLEAN
    /\ process = "starting"
    /\ stage = [r \in Request |-> "new"]
    /\ status = [r \in Request |-> None]
    /\ bearer = [r \in Request |-> FALSE]
    /\ route \in [Request -> {"ingest", "list", "attest", "check"}]
    /\ \A r \in Request : r \in Batch <=> route[r] = "ingest"
    /\ spent = {}
    /\ tracked = [s \in Status |-> 0]
    /\ checks = 0
    /\ ingested = 0
    /\ unlinked = {}
    /\ covered = {}

(* It listens, unless it would be open to the network: that is refused. *)
Listen ==
    /\ process = "starting"
    /\ process' = "up"
    /\ UNCHANGED <<store, config, request, spent, metrics, closing>>

Refuse ==
    /\ process = "starting"
    /\ ~secured
    /\ process' = "closed"
    /\ UNCHANGED <<store, config, request, spent, metrics, closing>>

-----------------------------------------------------------------------------
(* The layers. *)

(* Whether the token is there matters where one is set. *)
Presents(r) ==
    \E b \in BOOLEAN : (b => secured) /\ bearer' = [bearer EXCEPT ![r] = b]

Authorized(r) == secured => bearer'[r]

(* The routes that have the rate limit's layer. *)
Limited(r) == route[r] = "ingest" /\ Limit # None

(* try_acquire on the requests that get as far as it. *)
LetThrough == Cardinality(spent) < Limit

Replied(r, code) ==
    /\ stage' = [stage EXCEPT ![r] = "reply"]
    /\ status' = [status EXCEPT ![r] = code]

Handled(r) ==
    /\ stage' = [stage EXCEPT ![r] = "handling"]
    /\ UNCHANGED status

(* require_token, then rate_limit on the ingest route alone. *)
Arrive(r) ==
    /\ process = "up"
    /\ stage[r] = "new"
    /\ Presents(r)
    /\ \/ ~Authorized(r) /\ Replied(r, 401) /\ UNCHANGED spent
       \/ Authorized(r) /\ Limited(r) /\ ~LetThrough /\ Replied(r, 429) /\ UNCHANGED spent
       \/ /\ Authorized(r)
          /\ Limited(r) => LetThrough
          /\ Handled(r)
          /\ spent' = IF Limited(r) THEN spent \cup {r} ELSE spent
    /\ UNCHANGED <<store, config, process, route, metrics, closing>>

(* The second ends. *)
Tick ==
    /\ spent # {}
    /\ spent' = {}
    /\ UNCHANGED <<store, config, process, request, metrics, closing>>

-----------------------------------------------------------------------------
(* ingest_handler, over Postgres. *)

Handling(r, path) == stage[r] = "handling" /\ route[r] = path

OverPostgres(r) == Handling(r, "ingest") /\ backend = "postgres"

CallPostgres(r) ==
    /\ OverPostgres(r)
    /\ Acquire(r)
    /\ UNCHANGED <<config, process, request, spent, metrics, closing>>

PostgresProgress(r) ==
    /\ OverPostgres(r)
    /\ Progress(r)
    /\ UNCHANGED <<config, process, request, spent, metrics, closing>>

PostgresError(r) ==
    /\ OverPostgres(r)
    /\ Error(r)
    /\ UNCHANGED <<config, process, request, spent, metrics, closing>>

(* The client closes the connection: the server drops the handler's future. *)
Disconnect(r) ==
    /\ OverPostgres(r)
    /\ Dropped(r)
    /\ stage' = [stage EXCEPT ![r] = "dropped"]
    /\ UNCHANGED <<config, process, status, bearer, route, spent, metrics, closing>>

-----------------------------------------------------------------------------
(* ingest_handler, over the JSONL or in-memory log: EventStore::append of   *)
(* one event after the other, with no await between them.                   *)

Appending(r) ==
    /\ Handling(r, "ingest") /\ backend # "postgres"
    /\ result[r] = None
    /\ tx[r].next <= Len(Body[r])

NewRow(r) ==
    IF Inserted(r) \in Stored THEN {}
    ELSE {[trace |-> Inserted(r), seq |-> nextSeq, by |-> r]}

(* tx[r].rows holds what `written' counts. *)
AppendEvent(r) ==
    /\ Appending(r)
    /\ table' = table \cup NewRow(r)
    /\ nextSeq' = nextSeq + Cardinality(NewRow(r))
    /\ tx' = [tx EXCEPT ![r].next = @ + 1, ![r].rows = @ \cup NewRow(r)]
    /\ UNCHANGED <<pool, result, config, process, request, spent, metrics, closing>>

(* `append(e)?': those before it are in the log, and it may be there too,   *)
(* with or without an entry in its chain.                                   *)
AppendFails(r) ==
    /\ Appending(r) /\ backend = "jsonl"
    /\ NewRow(r) # {}
    /\ \/ UNCHANGED <<table, nextSeq, unlinked>>
       \/ /\ table' = table \cup NewRow(r)
          /\ nextSeq' = nextSeq + 1
          /\ unlinked' \in {unlinked, unlinked \cup {Inserted(r)}}
    /\ result' = [result EXCEPT ![r] = Err]
    /\ UNCHANGED <<pool, tx, config, process, request, spent, metrics, covered>>

AppendsDone(r) ==
    /\ Handling(r, "ingest") /\ backend # "postgres"
    /\ result[r] = None
    /\ tx[r].next > Len(Body[r])
    /\ result' = [result EXCEPT ![r] = Cardinality(tx[r].rows)]
    /\ UNCHANGED <<pool, table, nextSeq, tx, config, process, request, spent, metrics, closing>>

-----------------------------------------------------------------------------
(* Mistake: the events sent are counted, not those stored. *)
IngestRepliesSent(r) ==
    /\ Handling(r, "ingest")
    /\ \/ result[r] = Err /\ Replied(r, 500) /\ UNCHANGED ingested
       \/ /\ result[r] \notin {None, Err}
          /\ Replied(r, 200)
          /\ ingested' = ingested + Len(Body[r])
    /\ UNCHANGED <<store, config, process, bearer, route, spent, tracked, checks, closing>>

(* The end of ingest_handler. *)
IngestReplies(r) ==
    /\ Handling(r, "ingest")
    /\ \/ result[r] = Err /\ Replied(r, 500) /\ UNCHANGED ingested
       \/ /\ result[r] \notin {None, Err}
          /\ Replied(r, 200)
          /\ ingested' = ingested + result[r]
    /\ UNCHANGED <<store, config, process, bearer, route, spent, tracked, checks, closing>>

(* check_handler; CynepicGuardian::evaluate is PolicyReload's subject. *)
Check(r) ==
    /\ Handling(r, "check")
    /\ Replied(r, 200)
    /\ checks' = checks + 1
    /\ UNCHANGED <<store, config, process, bearer, route, spent, tracked, ingested, closing>>

(* list_events_handler: a cursor without an agent is refused, and a read    *)
(* over Postgres may fail.                                                  *)
List(r) ==
    /\ Handling(r, "list")
    /\ \/ Replied(r, 200) \/ Replied(r, 400)
       \/ backend = "postgres" /\ Replied(r, 500)
    /\ UNCHANGED <<store, config, process, bearer, route, spent, metrics, closing>>

(* Only the JSONL backend keeps a chain. *)
Integrity == backend = "jsonl"

(* chain_page_handler, integrity_verify_handler and                         *)
(* integrity_checkpoints_handler; only the archive's read can fail.         *)
Attest(r) ==
    /\ Handling(r, "attest")
    /\ \/ Integrity /\ (Replied(r, 200) \/ Replied(r, 500))
       \/ ~Integrity /\ Replied(r, 501)
    /\ UNCHANGED <<store, config, process, bearer, route, spent, metrics, closing>>

(* track_requests, once the inner layers have answered. *)
Track(r) ==
    /\ stage[r] = "reply"
    /\ stage' = [stage EXCEPT ![r] = "answered"]
    /\ tracked' = [tracked EXCEPT ![status[r]] = @ + 1]
    /\ UNCHANGED <<store, config, process, status, bearer, route, spent, checks, ingested, closing>>

-----------------------------------------------------------------------------
Interrupt ==
    /\ process = "up"
    /\ process' = "draining"
    /\ UNCHANGED <<store, config, request, spent, metrics, closing>>

(* Mistake: the requests under way are not waited for. *)
CloseAtOnce ==
    /\ process = "draining"
    /\ process' = "closed"
    /\ covered' = IF backend = "jsonl" THEN Stored \ unlinked ELSE {}
    /\ UNCHANGED <<store, config, request, spent, metrics, unlinked>>

(* No request is under way. *)
AtRest == \A r \in Request : stage[r] \notin {"handling", "reply"}

(* with_graceful_shutdown has drained; force_checkpoints, whose failure is  *)
(* logged.                                                                  *)
Close ==
    /\ process = "draining"
    /\ AtRest
    /\ process' = "closed"
    /\ IF backend = "jsonl" THEN covered' \in {Stored \ unlinked, None} ELSE covered' = {}
    /\ UNCHANGED <<store, config, request, spent, metrics, unlinked>>

-----------------------------------------------------------------------------
(* The steps the process takes by itself. *)
IngestStep(r) ==
    \/ CallPostgres(r) \/ PostgresProgress(r)
    \/ AppendEvent(r) \/ AppendsDone(r) \/ IngestReplies(r)

Step(r) ==
    \/ r \in Batch /\ IngestStep(r)
    \/ Check(r) \/ List(r) \/ Attest(r) \/ Track(r)

Fault(r) == PostgresError(r) \/ Disconnect(r) \/ AppendFails(r)

Next ==
    \/ Listen \/ Refuse \/ Tick \/ Interrupt \/ Close
    \/ \E r \in Request : Arrive(r) \/ Step(r)
    \/ \E r \in Batch : Fault(r)

Fairness == \A r \in Request : WF_vars(Step(r))

Spec == Init /\ [][Next]_vars /\ Fairness

-----------------------------------------------------------------------------
EventsOf == [b \in Batch |-> Range(Body[b])]

Contract == INSTANCE TraceStore WITH
    stored <- Stored,
    newly  <- [b \in Batch |-> {row.trace : row \in {r \in table : r.by = b}}],
    answer <- result

(* Whichever backend serves it, and whatever fails, the ingest handler gets *)
(* what the trait promises: a batch is acknowledged only when all of it is  *)
(* stored, with the number of events that were new, however batches with    *)
(* common events overlap (TraceStore, PostgresStore, EventStore).           *)
ImplementsContract == Contract!TSpec

(* Over Postgres nothing shows of a batch before all of it does, and a      *)
(* failed one leaves nothing unless its commit went through and the answer  *)
(* was lost (append_batch of pg_store.rs).                                  *)
BatchesWhole ==
    backend = "postgres" => \A row \in table : EventsOf[row.by] \subseteq Stored

(* The counters say what happened: every answered request is counted under  *)
(* its status, refused ones too; check_total counts the verdicts; and       *)
(* events_ingested_total the events stored by the requests that were told   *)
(* so, each once (track_requests, ingest_handler, check_handler).           *)
MetricsExact ==
    /\ \A s \in Status :
          tracked[s] = Cardinality({r \in Request : stage[r] = "answered" /\ status[r] = s})
    /\ checks = Cardinality({r \in Request : route[r] = "check" /\ status[r] = 200})
    /\ ingested = Cardinality({row \in table : status[row.by] = 200})

(* When the process has shut down and could write its closing checkpoints,  *)
(* they cover every event whose batch was acknowledged, by the request that *)
(* stored it, up to the last moment (main, force_checkpoints).              *)
AcknowledgedAreCovered ==
    process = "closed" /\ backend = "jsonl" /\ covered # None =>
        \A row \in table : status[row.by] = 200 => row.trace \in covered

(* A list over Postgres, however batches interleaved, is what the JSONL     *)
(* backend would give of the same events: the newest of those that match,   *)
(* oldest first; and the summaries are those of the sessions that can be    *)
(* fetched, with their lengths (list_events, list_sessions, get_session).   *)
ListsAlike ==
    /\ \A filter \in [agent_id : Range(AgentOf) \cup {None}, session_id : {None}, limit : {1, 2, None}] :
          LET all   == BySeq(Where(filter))
              first == IF filter.limit = None THEN 1 ELSE Max({1, Len(all) - filter.limit + 1})
          IN  ListEvents(filter) = SubSeq(all, first, Len(all))
    /\ \A a \in Range(AgentOf), s \in Range(SessionOf) :
          {g.event_count : g \in {h \in ListSessions : h.agent_id = a /\ h.session_id = s}}
              = {Len(GetSession(a, s))} \ {0}

(* Every request that was let in is answered or has gone away: no batch     *)
(* waits for ever for a connection, for another batch or for one that waits *)
(* for it, and the shutdown need not wait for one either (append_batch, the *)
(* pool, the database's deadlock detection).  A request is sent once, so to *)
(* be at rest again and again is to answer each of them.                    *)
EveryRequestAnswered == []<>AtRest
=============================================================================
