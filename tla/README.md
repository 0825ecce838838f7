# TLA+ models of TrustLayer

TrustLayer is a governance sidecar for AI agents.  Agents report what they do as
trace events; the guardian (`core-rs`, Rust) adjudicates candidate actions against
a policy, stores the events as evidence, and lets an auditor verify that the
evidence has not been edited.  Around it are client SDKs, a memory agent, a
compliance toolkit and a dashboard.

These modules model the parts whose correctness depends on the order in which
things happen, on what fails in between, or on two implementations that must
agree.  TLC checks them on small instances, and TLAPS proves the most important
properties for every instance.

## 1. Inventory

`PROJECT.json` lists every component with its status and every hazard at its line.

| Component | State | Operations | What is hard |
|---|---|---|---|
| Event store, JSONL backend (`core-rs/src/events.rs`) | four files (live log, archive, chain, checkpoints) and `Inner`: events, observation times, two positional indices, chains, checkpoint counters | `open_jsonl`, `append`, `append_batch`, `enforce_retention`, `commit_checkpoint`, `force_checkpoints`, the four reads | a kill between any two file writes, a failing write, restart and recovery, retries, the clock |
| Verification and paging (`events.rs`, `integrity.rs`) | none of their own; a client keeps a cursor | `verify_chains_for`, `verify_chain`, `chain_page` | one reads the archive outside the lock, one spans many requests, and the files may have been edited and then repaired |
| Checkpoints (`checkpoint.rs`) | checkpoint policy, signing key | `should_checkpoint`, sign, verify | two triggers, a shutdown and a restart all write them; a key that cannot be used |
| Guardian and policy reload (`guardian.rs`, `policy.rs`, `policy_watch.rs`) | the policy in force behind an `ArcSwap`, the watcher's channel | `evaluate`, `replace_policy`, `reload_loop` | requests race with swaps; edits race with debounce, drain and read |
| Predicates (`predicate.rs`, `compliance/src/predicates.py`) | none | match, validate | two implementations of one language |
| Ingest rate limiter (`rate_limit.rs`) | two atomics | `try_acquire` | four atomic steps without a lock at the boundary of a second |
| Server, auth, metrics (`server.rs`, `auth.rs`, `metrics.rs`) | counters | routes behind three layers | what is counted when a request is refused, fails half way or goes away |
| Postgres backend (`pg_store.rs`) | an external database, a pool | one transaction per batch, reads | overlapping batches, a small pool, a lost answer to a commit |
| Process (`bin/guardian.rs`) | - | load, watch, open, serve, drain, close | the order of its steps |
| Client SDKs (`sdks/python`, `sdks/go`, `sdks/typescript`) | configuration | emit, check with a fail-open or fail-closed fallback | lost and late answers; verdicts correlated by trace id |
| Hermes (`skills/hermes`) | LRU cache of sessions, sidecar files, notes | ingest, reflect, evict | cache versus files, partial failure, several processes |
| Compliance (`compliance/src`) | none | evidence queries, tiers, readiness, remediation | agreement with the meaning of a control |
| MCP server, reflections reader, native binding, dashboard | none to speak of | forwarding, listing | - |

Interactions.  SDKs POST events to `/v1/events`, which passes the token check and
the rate limiter and calls `append_batch` of the backend in use, and POST candidate
actions to `/v1/check`, which calls `evaluate` on the policy in force.  Auditors call
`/v1/integrity/verify` and page `/v1/events/chained`.  Hermes ingests exported events
into its own vault.  The store is guarded by one mutex; the policy pointer, the rate
limiter and the archive file (as the verifier reads it) are shared without it.

What makes each component correct:

* store - what was acknowledged is never lost; every stored event is in its
  agent's chain exactly once and in log order; a chain entry's event can always be
  found; counters, indices and observation times survive restarts; checkpoints only
  ever pin more; the retention floor outranks the target;
* readers - an untampered store verifies, a consumer neither skips nor repeats, and
  the ways of reading the same events agree;
* integrity - an edit of the files shows, and shows where it is, up to what an
  auditor archived; a checkpoint that verifies was issued;
* guardian - a verdict is that of one whole policy, edits take effect, a malformed
  policy never does, and reloading comes to rest;
* limiter - what a second lets through is bounded;
* service - each backend keeps the promise of the trait, every request is answered
  and counted, and a shutdown commits to everything that was acknowledged;
* SDKs - what was acknowledged is stored, and a recorded verdict is the one that was
  given by the policy it names, or a fallback the caller asked for;
* Hermes - cache, sidecar and note tell the same, across evictions and restarts.

## 2. Modules

| Module | What it is |
|---|---|
| `EventStore` | the JSONL store: appends, opening and recovery, checkpoints, retention, shutdown, crashes, I/O errors |
| `EvidenceLedger`, `EventStoreLedger` | the abstract ledger of evidence, and the refinement mapping (`ImplementsLedger`) |
| `ChainPaging`, `Queries`, `Verification` | a paging consumer, the four reads and a verifier, each extending the store |
| `StoreReaders` | consumer and verifier at one store |
| `Integrity` | chain entries, `verify_chain`'s checks, checkpoints and signatures, as data |
| `Tampering` | a store whose files are edited while it is down, its recovery, and an audit |
| `Predicate` | the constraint language: predicates, paths, selectors, validation |
| `PolicyReload` | guardian, policy file, watcher, reload loop |
| `Adjudication` | the Rust predicates beside the Python ones |
| `RateLimit` | the limiter's atomics under racing requests |
| `TraceStore` | what any backend promises the ingest handler |
| `PostgresStore` | the Postgres backend |
| `Service` | the process: layers, handlers, metrics, shutdown, over each of the three backends; it implements `TraceStore` |
| `Sdk` | `Tracer.check` of the three SDKs against a sidecar over a network |
| `Hermes` | the memory agent |
| `EventStoreProofs`, `EvidenceProofs`, `TamperingProofs`, `PolicyProofs`, `RateLimitProofs`, `ServiceProofs`, `SdkProofs`, `HermesProofs` | the theorems |
| `MC...` | instances for TLC |

Operators whose comment begins with "Mistake:" stand beside the definition they
spoil.  They are never part of a specification; each shows that a plausible error
in the code would violate a property.

### The store (`EventStore`)

`append` holds the mutex from its duplicate check to its return, so nothing
interleaves with it but the clock, a crash and a failing write.  An append is
therefore one action per durable effect, and `pc` says where it stands:

| `pc` | Actions | Code |
|---|---|---|
| `idle` | `PostDuplicate`, `PostNew` (the event line) | `append` 848-857 |
| `link` | `Link` (chain line, counter, index), `LinkFails` | 858-905 |
| `commit` | `MaybeCheckpoint` (checkpoint line), `CheckpointFails` | 400-463 |
| `retain` | `RetainAll`, `Evict` (drain) | `enforce_retention` 920-957 |
| `archive` | `ArchiveLine`, `ArchiveFails`, `Compact` (index rebuild and rename), `CompactFails`, `ReopenFails` | 959-1024 |
| `reply` | `Reply` | 878-880 |
| `down`, `replay`, `recover` | `Open`, `Replay`, `Compare`, `Recover`, `Opened` | `open_jsonl` 534-779 |
| `closing` | `CloseAgent`, `Exit` | `bin/guardian.rs` 269-288 |

`Crash` is possible in every stage and keeps the files only.  Variables carry the
code's names; `log`, `archive`, `chain`, `ckpts` are the files, `acked` is a history
of what clients were told, `attached` says whether `file` is a handle to the current
log, and `suspect` the agents `recover_chain_tails` reported as misaligned.

An event is its trace id; agent, session and client timestamp are functions of it.
A hash is determined by the prefix it covers, so entries carry none: nobody edits
files in this model, and a chain entry is wrong only if its event is not found.
File lines are atomic and in order.  A store without a path, one with integrity
switched off, and the counters `archived_total` and `floor_blocked_total` are left out.

### The abstract ledger (`EvidenceLedger`)

Events are stored, then entered at the end of their agent's ledger; checkpoints pin
longer and longer prefixes; only stored events are acknowledged; and what may be
forgotten is an event nobody was told of and no ledger has (an append that failed
half way).  There are no files, restarts, retries or archives in it.

### The readers

`verify_chains_for` is two actions, `ReadArchive` without the lock and
`VerifyChains` under it, with the whole store in between.  `chain_page` is one
action, since it holds the lock; its client keeps `next_after_seq`, and `head_seq`
once it has caught up.  The page's end is characterised as the code's loop stops:
before the entry that would follow `limit` live events, archived entries being free.
`list_events`, `list_sessions`, `get_session` and `evidence_stats` hold the lock
throughout, so they are functions of the state between two operations (`Queries`);
`ReadsAgree` relates them to each other and to the chain pages, because each goes
through another index.

### Edited files (`Integrity`, `Tampering`)

A hash is the tuple of everything `hash_preimage` binds, the previous hash included,
so equal hashes mean equal contents; a signature is the pair of the key and the
preimage, and nobody makes one without the key.  These are the two assumptions about
SHA-256 over canonical JSON and about Ed25519.  Everything else of `integrity.rs` and
`checkpoint.rs` is there: the checks of `verify_chain`'s loop (`EntryHolds`), the
entries it numbers, the preimage of a checkpoint, and what a start makes of
`TRUSTLAYER_SIGNING_KEY` (`Opened`): it is read anew each time, once the files are
repaired.  A key file that others may read, or anything else that is no key, ends the
process (`Unusable`); a value that is blank or no Unicode counts as unset (`FromEnv`).

In `Tampering` an append is one step, since its crashes are `EventStore`'s subject.
While the store is down somebody may change or remove events, remove, truncate,
renumber, re-link or re-date entries, with the old hash or one recomputed over an
event of the log, and let a checkpoint commit to another entry, relabel any other of
its fields, strip it of its signature or re-sign it.  `Open` and `Recover`
then repair what looks like a crash, and `Verify`, `VerifyEntry`, `VerifyEnds` walk a
chain.  `recorded` and `issued` remember what the store itself had written; nothing
is recorded after the first edit, so they are what an honest history was.

### The policy (`PolicyReload`, `Predicate`, `Adjudication`)

An edit truncates the file and then writes it; a reader in between finds nothing
that parses.  The watcher is external: it reports changes and reads of the file in
order and waits while the channel is full (`blocking_send`).  The loop receives,
sleeps, drains one report at a time, reads, validates and installs.  `evaluate` takes
one snapshot and tries one rule per step.  Whether a rule matches is `MatchesEvent`
over typed JSON values: paths, literals and operator objects.  The thresholds that
turn a verdict into an escalation message, and the texts, are data.

`Predicate` is the Rust language.  `Adjudication` adds the Python one, in which `1`,
`1.0` and `True` are equal while serde_json keeps them apart, and states in what the
"matched pair" may differ.  A string is a sequence of letters, and nesting stops at
lists of scalars.

### The limiter (`RateLimit`)

One action per atomic access of `try_acquire`: load, compare-exchange, store of 0,
fetch-add.  `served` counts admissions per second of the clock at which they happen.
The clock never runs backwards here, which `SystemTime` does not promise.

### The service (`TraceStore`, `PostgresStore`, `Service`)

`TraceStore` is the promise of the trait: a batch may be stored bit by bit, is
acknowledged when all of it is stored, with the number of events that were new, and
may have been stored in part when it fails.

`PostgresStore` is `append_batch` await by await: a connection of the pool, one insert
per event, the commit.  The database is external and modelled by what the code relies
on: READ COMMITTED, a serial number taken at the insert, an insert that waits for the
transaction which holds the same trace id, and one transaction of a circle aborted.
An error is possible at every await, a commit may go through and its answer be lost,
and the future may be dropped when the client goes away.  Lists read the committed
rows.

`Service` chooses one of the three backends, refuses to listen or listens, lets each
request pass the token check and, on the ingest route, the limiter, runs the handler,
counts the reply, and drains on an interrupt before the closing checkpoints.  The
JSONL and in-memory backends are a log there, one event per step, because
`EventStore` has their inside; likewise the limiter is one step.  It implements
`TraceStore` under `Contract`, with `stored` mapped to the committed rows.

### The SDKs (`Sdk`)

`Tracer.check` emits a `TOOL_CALL`, asks the guardian, emits a `POLICY_CHECK` with the
verdict and returns it; each is one HTTP call with a timeout.  A request may be lost,
served, or served after the client gave up (`wire`), and so may its reply.  A failed
emit is logged and forgotten, a failed question becomes the fallback verdict.  The
policy in force may change at any time.  The three SDKs differ in two operators,
`TraceId` and `RecordedPolicy`, and `Sdks` says which of them an instance has.

### The memory agent (`Hermes`)

`ingest` is a loop over its input, one action per event (`Take`), then one per note
(`Flush`), then the eviction (`Return`).  A line may be no event (`TakeInvalid`), or the
write of a sidecar line (`TakeUnsaved`) or of a note (`FlushFails`) may fail; each leaves
the ingest by an exception (`Raise`), after which no further note is written, nothing
evicted, and what was cached stays.  A note is truncated before it is written, so that a
failed write or a kill can leave it `Torn`; a kill may come anywhere.  Several processes share the files, and a file
name may stand for several keys because names are sanitised.  `done` is the history of
what returned ingests were given, and `unsaved` what failed writes left in a cache.
Two ingests of one event may differ by the payload limit (`Limits`).

## 3. Runs

Sizes are distinct states with two workers.

| Run | Instance | States | Question |
|---|---|---|---|
| `unbounded` | 3 events of 2 agents, 4 log lines, 3 clock values, both triggers at 2, no retention | 1.0M | recovery: one entry per event, in log order, no false anomaly |
| `evidence` | 3 events of 1 agent in 2 sessions, target 1, floor 1, checkpoint every append, failing chain, checkpoint and compaction writes | 3.3M | evidence is kept, indices right, floor honoured, ledger implemented |
| `all_errors` | 3 events, target 1, both triggers at 1, all five I/O errors | 1.4M | well-formed state, exact counter, growing checkpoints |
| `readers` | 3 events, target 1, pages of 2, a verifier and a consumer | 2.3M | paging is exact, the reads agree, only moved events are called missing |
| `tampering` | 3 events of 2 agents, 2 checkpoints, 2 edits, clock of 2; at each start a key is unset, blank, garbled, or one of two usable ones | 2.8M | edits are located, archived and signed heads pin, signatures are the store's |
| `policy_reload` | 3 edits of which the second is malformed, channel of 2, 1 request thread, 2 events; 15 values by 200 questions for the predicates | 44k | whole verdicts, no regress, edits take effect, the loop rests, the two languages agree |
| `rate_limit` | 2 threads, limit 2, 3 seconds, 12 requests | 258k | the slack of a second |
| `service` | 2 batches with the same 2 events in opposite orders, one with a duplicate, and a request to any other route; pools of 1 and 2; limit 1; with and without a token; 3 backends | 727k | the trait's promise, whole batches, exact counters, closing checkpoints, every request answered |
| `sdk` | 2 calls, 2 policies that disagree on both, a caller that asks for a third; Python (TypeScript is the same here) | 373k | acknowledged events stored, verdicts attributed, fallbacks as configured |
| `hermes` | 1 process, 4 keys over 3 files, 4 events, 7 feeds, a cache of 1, 6 ingests and starts | 4.6M | the cache derives from the sidecars, what returned is saved and in whole notes, a reflection counts once |

Two more runs end in a violation, each of one sentence of the code's own comments:

| Run | What it shows |
|---|---|
| `archived_crash` | a crash leaves a strict prefix, "the *only* shape a crash can produce" (`events.rs:679`), fails once an agent has archived events: its chain counts as misaligned and a crashed append is never linked |
| `archive_error_loss` | "Archives, never deletes" (`events.rs:910`) fails after one failed archive write: memory has lost the batch, and the next compaction loses it on disk |

### The bounds, and why they are enough

* Three events with a target of 1 (slack 1) make the third append evict, so one
  instance has a live, an evicted and an archived event at once, a second
  compaction after a re-POST, and a crash between every two of its writes.  The
  violations above appear with four and five events.
* `MaxLines` bounds the lines of log and archive together.  With 4 or 5 the same
  event can be on disk in both files, or twice in the log, which is what a crash or
  a failed write leaves.  Crashes and restarts are not bounded at all.
* `MaxClock` = 2 with a floor or an interval of 1 or 2 gives ages below, at and
  above the boundary.  Client timestamps are 0, the back-dated case.
* Two agents occur where agents can be confused (`unbounded`, recovery across
  them; `tampering`, an entry or a checkpoint of the other); the other runs of the
  store use one agent with two sessions, since nothing but the global log and
  retention order connects agents.
* A page limit of 2 gives pages that end at the limit, at the head and in a hole.
* Two edits allow a change and its cover-up: an event and its entry, an entry and
  the next, a chain and its checkpoint.  Two checkpoints allow one from before and
  one from after a restart, with two keys, with one key or unsigned.  The kinds of
  setting left out have the effect of one that is there.  The theorems hold for any
  number of each.
* `tampering` has a VIEW.  Nothing is signed after the first edit, and a verification
  looks at the entries, events and checkpoints of its agent and leads back to the
  state it started from, so nothing else needs to tell two of its states apart.
* Three policy edits cover: a good policy, one that does not validate, a good one
  again; with a channel of 2 the burst of one edit and the read's own report fill
  it.  The questions are every operator with every sample as its operand, literals
  and mixed objects.
* Two threads race in every way that two loads, a won and a lost exchange and a late
  clear allow.  The bound `(2N - 1) * Limit + 1` was found by model checking with
  one to three threads and limits of 1 to 3.
* Two batches in opposite orders deadlock on rows with a pool of 2 and queue for the
  connection with a pool of 1.
* A cache of 1 evicts at every ingest of another session; six ingests and starts
  allow a failed ingest, its retry, an eviction, a restart and another ingest.
* Symmetry is used for events with equal agent, session and timestamp, and for
  threads, in runs that check only safety (an action property included).

### Fairness

`PolicyReload` assumes weak fairness of the reload loop and of the watcher's thread:
the runtime keeps polling a task that is ready, and the watcher's thread runs.
Nothing is assumed of the operator (an edit may stay half written for ever), of main,
or of clients.  `EditsTakeEffect` speaks of edits begun after the watcher was armed,
as `policy_watch.rs:24` does; an edit between `LoadAtStart` and `Arm` is not noticed
until the next one, and the model has that.

`Service` assumes weak fairness of the steps of each request that was let in: tokio
polls its task, and the database answers, aborts a circle of waiting transactions or
gives the connection to a waiting one.  Errors, disconnects, interrupts, the clock and
the arrival of requests are not fair.  A request is sent once, so `EveryRequestAnswered`
(at rest again and again) says that each of them is answered.

`Sdk`, `Hermes` and the store state safety only: their loops end, and what they wait
for is a timeout or a lock held for a bounded time.

## 4. Theorems

All hold for every value of the constants that satisfies the module's assumption
(`ParameterAssumption`, `PagingAssumption`, `FilterAssumption`, `TamperingAssumption`, `PolicyAssumption`,
`SampleAssumption`, `OperandAssumption`, `LimitAssumption`, `PostgresAssumption`,
`ServiceAssumption`, `SdkAssumption`, `HermesAssumption`, `NoteAssumption`), which TLC
evaluates in the runs.

| Theorem | Further assumption | Statement |
|---|---|---|
| `EventStoreProofs.TypeCorrect` | none | `Spec => []TypeOK` |
| `EventStoreProofs.CounterCorrect` | none | `Spec => []CounterExact` |
| `EventStoreProofs.CheckpointsGrow` | none | `Spec => []CheckpointsAdvance` |
| `EventStoreProofs.FloorRespected` | none | `Spec => FloorHonoured` |
| `EventStoreProofs.LiveEventsCovered` | no retention target, chain writes do not fail | `Spec => []LiveEventsLinked` |
| `EventStoreProofs.ChainedOnce` | as above | `Spec => []OneEntryPerEvent` |
| `EventStoreProofs.ChainOrdersAsLog` | as above | `Spec => []ChainFollowsLog` |
| `EventStoreProofs.CrashLeavesPrefix` | as above | `Spec => []NoFalseAnomaly` |
| `EvidenceProofs.IndexCorrect` | archive writes do not fail | `Spec => []IndexFaithful` |
| `EvidenceProofs.EvidenceKept` | archive writes and the reopen do not fail | `Spec => []NoEvidenceLost` |
| `EvidenceProofs.ChainedEventsFound` | as above | `Spec => []EntriesHaveEvents` |
| `EvidenceProofs.LedgerImplemented` | as above | `Spec => ImplementsLedger` |
| `EvidenceProofs.MissingIsMoved` | as above | `RSpec => OnlyMovedEventsMissing` |
| `EvidenceProofs.PagesAreExact` | archive writes do not fail | `RSpec => []PagesExact` |
| `EvidenceProofs.ReadsCoincide` | archive writes, chain writes and the reopen do not fail | `RSpec => []ReadsAgree` |
| `TamperingProofs.ArchivedHeadPinsHistory` | none | `Spec => []ArchivedHeadPins` |
| `TamperingProofs.EditsAreLocated` | none | `Spec => []EditLocated` |
| `TamperingProofs.RemovalsShow` | none | `Spec => []OnlyTheEndMayBeMissing` |
| `TamperingProofs.SignaturesAreIssued` | none | `Spec => []SignedOnlyIfIssued` |
| `TamperingProofs.SignedHeadPinsHistory` | none | `Spec => []SignedHeadPins` |
| `PolicyProofs.TypeCorrect` | none | `Spec => []TypeOK`, the channel within its capacity |
| `PolicyProofs.VerdictsAreWhole` | none | `Spec => []VerdictWhole` |
| `PolicyProofs.ReloadsNeverRegress` | none | `Spec => NeverRegresses` |
| `PolicyProofs.PairAgrees` | none | `Spec => []PairDiffersOnlyOnNumbers` |
| `PolicyProofs.RulesInForceDecide` | none | `Spec => []PolicyInForceDecides` |
| `RateLimitProofs.SlackIsBounded` | none | `Spec => []SlackBounded` |
| `ServiceProofs.ContractKept` | none | `Spec => ImplementsContract` |
| `ServiceProofs.BatchesAreWhole` | none | `Spec => []BatchesWhole` |
| `ServiceProofs.CountersAreExact` | none | `Spec => []MetricsExact` |
| `ServiceProofs.ClosingCovers` | none | `Spec => []AcknowledgedAreCovered` |
| `ServiceProofs.ListsAreAlike` | none | `Spec => []ListsAlike` |
| `SdkProofs.TypeCorrect` | none | `Spec => []TypeOK` |
| `SdkProofs.VerdictsAreTheGuardians` | none, Go included | `Spec => []OnlyTheGuardianDecides` |
| `SdkProofs.AcceptedEventsAreStored` | not the Go SDK | `Spec => []AcceptedIsStored` |
| `SdkProofs.RecordsNameTheRuler` | not the Go SDK | `Spec => []RecordNamesTheRuler` |
| `HermesProofs.IngestsAreSaved` | none | `Spec => []IngestedIsSaved` |
| `HermesProofs.CacheDerives` | one process, own files, one payload limit | `Spec => []CacheIsDerived` |
| `HermesProofs.IngestsAreNoted` | one process, own files | `Spec => []IngestedIsNoted` |
| `HermesProofs.ReflectionsCount` | one process, own files | `Spec => ReflectionCounts` |

The assumptions are needed.  `archive_error_loss` is a run without the first of the
store's, and a failing reopen leaves a handle to a replaced file.  With a failing
chain write TLC finds `LiveEventsLinked`, `ChainFollowsLog` and `NoFalseAnomaly`
violated (`unbounded` with `Faults = {"chain"}`), because the log then has a line that
memory and chain lack.  Sent again, that event has a second line: memory and chain have it
where it was sent again, and a restart reads it where its first line is (`readers` with
`Faults = {"chain"}` violates `ReadsAgree`).  With a retention `OneEntryPerEvent` fails for an event that was
archived and sent again, and `LiveEventsLinked` as in `archived_crash`.  All other
writes may fail, and the process may be killed at any step.  The Go SDK's exceptions are divergences (below).  The theorems about edited
files rest on the two assumptions that `Integrity` is built on.

Hermes' three further theorems are about one process: with two, a session cached before
the other process added to its sidecar stays behind it, and so does the note written
from it (section 5).  `OwnFiles` says that two keys that both have events do not share a
file, as sanitised names might; a file may still stand for a key without events, which
is how `reflect` lists a sanitised name, and the run has one.  With two payload limits
the cache and the sidecar may differ in what they cut off.

`OperandAssumption` makes `PolicyInForceDecides` mean something: the property asks for a
sample of which an operator holds, so the samples must contain the operand of each
operator of each policy version, a number below it and one above, and for `$contains`
a list that has it.  `SampleAssumption` says that a missing value is among the samples and
is no question.  `PairAgrees` is about scalars and lists of scalars, which is all that the
model of Python's equality covers.

The inductive invariants:

* `TypeInv` is `TypeOK` with the fact that an append in progress names an event;
  without it the types of the chain after `Link` do not follow.
* `CheckpointInv`: the counter equals the size of the uncommitted suffix in every
  running stage, not only between operations, and checkpoints commit to positions
  that exist.  The second is needed for the first: a push adds one uncommitted
  position only because no checkpoint pins a position beyond the head.
* `IndexInv`: the indices are right except between the drain and the rebuild.
* `EvidenceInv`: that the evidence is on disk is not inductive, because a compaction
  replaces the log by what memory holds.  The invariant adds that memory, batch and
  archive together hold all of it once the log is replayed, that memory came from
  the log, that the part of the log already replayed is in memory, and that the
  event of an append in progress is in the log before and in the chain after `Link`.
* `FloorInv`: in every running stage the observation time of a live event that is in
  its agent's chain is the one of its latest entry there.  It needs that the index
  knows every live event and not the one in flight: otherwise a new entry of `Link`
  could be the latest one of an event that already has a time.
* `RecoveryInv` says of a store without retention what recovery counts on: the lines
  of the log are distinct, and each chain is a prefix of its agent's events in the
  log, of which at most the append in progress is missing.  Memory is the log as far
  as it was replayed, so that counting events and entries finds the missing tail.
  The four properties follow from it by counting: an event's place in its chain is
  its rank among its agent's events.
* The refinement has one lemma per kind of ledger step (`Enters`, `Pins`, `Tells`,
  `Forgets`, `Stutters`), and `StepImplements` sends each action to its kind under
  the invariants above.  A compaction is a `Forget` step of what only failed appends
  left in the log; a crash, a restart, an archive line and a retry stutter or store.
* `ChainInv` carries what an audit has established forward entry by entry: every
  verified entry's hash is the one recomputed from its own fields and an event of
  the log, and its predecessor's hash is part of it.  Equal hashes at a position
  then unfold, one entry at a time, down to the first, which is how an archived
  head pins all before it.  `KeyInv` says where each signature in the files came
  from: an issued checkpoint's preimage, or another key.  A checkpoint that verifies
  against a key of the store is then an issued one (`SignedIsIssued`), whatever was
  relabelled, so that its head pins as an archived one does.
* For the policy: no rule a walk has passed matches; and what the loop has parsed is
  no older than what is in force, although the file may have moved on since.
* `ServiceInv`: an open transaction's rows are of its batch, in no other transaction and
  not in the table (`Fresh`), which is what waiting for the holder of a trace id gives;
  with the events it has got through (`Done`), a commit then adds all of the batch at
  once and each event once.  In a log the rows counted are those in the table.  The
  result is the number of the batch's rows from the moment it is given, so that the
  counter grows by what it counts.  A request under way has no status, hence rows are
  only ever added to requests that nobody was told of.  Any number of requests may
  come; the sets the counters count are finite because only finitely many have come.
* For the SDKs the invariant follows a call: what is on the wire or stored of it is
  determined once its verdict is, and the guardian rules on it at most once, and only
  when asked.
* For Hermes: an event that its cached session knows is in its sidecar or `unsaved`.
  An append by any process keeps that; the property alone does not, because a
  session is loaded once and consulted long after.

* `PagesInv` is about what a page is made of.  Every position of the chain is visible or
  a hole, and a consumer's cursor grows by the number of both, which needs that a page's
  end exists (a set of positions has a least element) and that a page counts each of its
  positions once.  A position that was delivered keeps its event because chains only grow.
* The verifier: an event of a chain is live or archived at each instant (`EvidenceInv`),
  and what is archived stays so; hence an event absent from both the archive as it was
  read and the live log as it is now was live at the first reading and has been archived
  since.
* `LimiterInv`: what a second can still serve is paid by credit.  A request of an earlier
  second that has yet to move the window may clear the counter twice (itself, and once by
  the forward move it provokes), one about to clear it once, and a window at an earlier
  second once.  What was served, what is left of the limit and the limit times this credit
  stay below the bound together (`Spent`), by one lemma per atomic step.  When every
  request in flight is of an earlier second the sum starts out too large; `AllStale` and
  `OneFresh` describe the states until two of them are through, in which at most one
  request has been served.
* Predicates: the two engines agree operator by operator (`OperatorsAgree`), from the fact
  that values which are equal to Python and not confusable are the same value.  A rule
  that is in force passed `ValidPredicate`, and each operator that passes it has a sample.
* Lists over Postgres: `BySeq` puts finitely many rows in a sequence of as many, and taking
  the last n of it is reversing, cutting at n and reversing again (`NewestInOrder`).
* For Hermes in one process, `CacheInv` says that a cached session is derived from its
  sidecar: the saved events of its key, and what is `unsaved`.  `NoteInv` says that a note
  that is not torn has every event of the ingests that returned, that an event of the
  ingest under way is cached, and that of the events in the loop over the notes each has
  a whole note or its session is yet to be written.  An exception leaves the loop, so an
  ingest that returns got to its end; one that swallowed the error would not be covered.

* `OrderInv` relates three orders: an agent's events have that of the log in its chain and
  in memory, as long as they are not archived (`Fresh`).  For that the log has such an
  event once, what a running store has in its log is live, archived or about to be
  (`Covered`), and while the store starts the chain is a prefix of the events read, so that
  recovery appends the missing entries in order.  Which position an event has in a list
  and in a page is then counting: the map from one to the other is increasing, and an
  increasing map keeps ranks (`BelowMapped`).  The sum of the sessions' counts is a fold
  in an order that is not known; two functions that both satisfy its equation agree, by
  the least set on which they would differ (`CountAll`).

Model-checked only: liveness (`EditsTakeEffect`, `ReloadsEnd`, `EveryRequestAnswered`), which
is out of the prover's reach.  Every invariant and every action property that a passing run
checks is also the statement of a theorem.

## 5. Divergences without a run

Where the code and what is said of it disagree, beside the two runs above.  Most can
be seen in a model by the setting named.

* Store.  "Re-POSTing an event already in the store is a no-op" (`events.rs:14`)
  fails for an archived event: the duplicate check (850) knows live events only, and
  the event is stored and chained again (`OneEntryPerEvent` with a retention).  A
  chain page then has it at its old position while `list_events` has it last.
* "Archives, never deletes" (910) fails also after a failed reopen (990): `file` is the
  log that was replaced, and the lines of later, acknowledged events go with it at the
  restart (`NoEvidenceLost` with four events and `Faults = {"reopen"}`).
* "The check spans the archive boundary" (`events.rs:797`) fails when an archival
  falls between the read of the archive and the lock (805): an untampered chain is
  reported as broken (`missing = {}` as an invariant of `readers`).
* An event whose chain write failed is in the log and nowhere else.  If a later event
  is chained and the process restarts, the chain is no prefix of the log any more and
  recovery leaves it alone; the event is then a duplicate when it is POSTed again, and
  is acknowledged without ever having a chain entry.
* `integrity.rs` speaks of a deleted entry as detected; the last entries of a chain,
  removed with their events, show only against an archived checkpoint
  (`OnlyTheEndMayBeMissing` is the exact statement).
* "A value that is set but unusable is an error: silently degrading to unsigned would
  let a deployment believe it is signing when it is not" (`checkpoint.rs:154`).  A
  `TRUSTLAYER_SIGNING_KEY` that is no Unicode (163) or blank (167) degrades silently:
  the store runs unsigned, and `guardian.rs:176` logs that the variable is not set
  (`Tampering`, the kinds `"not unicode"` and `"blank"`).
* Service.  `events_ingested_total` misses the events that a failed JSONL batch had
  stored.  The Postgres backend ignores `after_seq`.  A session's `first_seen` and
  `last_seen` are those of the first and last insertion in JSONL and the least and
  greatest in Postgres.
* Predicates.  Python identifies `1`, `1.0` and, outside of membership tests, `True`.
* Go SDK.  A `POLICY_CHECK` shares its call's trace id (`tracer.go:123`), the store is
  idempotent on it, and the verdict's event is dropped, although the trace stream is
  to record both (`spec/v0.1/02-event-types.md`; `Sdks = {"go"}`).  It also records
  the policy that was asked for instead of the one that ruled (`tracer.go:104`), and
  `CheckWithPolicy` drops the client's configured policy name.
* Python SDK.  A verdict that is not an object raises TypeError (`guardian.py:127`)
  past the fallback.
* TypeScript SDK.  `toolCall` emits its result inside its own `try`; its default port
  is not the sidecar's.
* Hermes.  With a full disk an event stays in the cache only, and its retry is taken
  for a duplicate (`hermes_agent.py:80`; `unsaved`).  "The in-memory cache and rendered
  note always reflect the deduped truth" (10) fails for a note that a full disk or a kill
  cut short (183): it lacks events of ingests that returned, and nothing marks it, until
  the next ingest of its session returns, which `IngestedIsNoted` says repairs it.  A
  reflection is written in the same way (110) and not written again.  Sessions with names that are
  sanitised are counted under two keys (138).  A process that had cached a session
  before another added to it rewrites the note without the addition (183; two
  processes).  A changed payload limit leaves the cache and the sidecar with different
  truncations of one event (`Limits` with two values).
* Compliance.  "An unreachable store must not be able to raise a control's assurance"
  (`evidence_linker.py:247`): a broken chain gives DECLARED, and the same chain with a
  failed verification request gives EVIDENCED, because `NOT_CHECKED` is not `FAILED`.

## 6. Not modelled

* Bytes: a line and its newline written separately (`events.rs:855`), a half-written
  last line of the archive (813) or of a sidecar of Hermes, whose reader also cuts lines
  at characters like U+2028 and U+0085 that JSON leaves as they are (`splitlines`,
  `hermes_agent.py:153`), SHA-256, Ed25519, canonical JSON, rendering.
* Time within a process that restarts: the clock of an agent without a checkpoint
  starts over at every restart (`events.rs:661`).  The model has it; nothing is said
  about it that could fail.
* A store without a path, or with integrity off; the parsing of configuration.
* The watch is on the file and not on its directory (`policy_watch.rs:53`): an editor
  that renames a new file over the old one ends it.  The watcher is external here.
* The numbers Postgres takes at an insert become visible in the order of the commits
  (`pg_store.rs:151`); no reader of this backend pages by them.
* Of a list's filter the agent, the session, `after_seq` and a limit of at least 1: the
  event type is a further conjunct of the same test, a limit of 0 gives nothing.
* Sessions and reflections routes, `/healthz`, `/metrics`, the histogram.
* Hermes' reflectors and renderers, the MCP server, the Python binding, the dashboard,
  reports, readiness and remediation: no state, or none that outlives a call.
* The evidence queries and tiers: pure functions of a list of events without a second
  implementation; a model of them would be their definition once more.

## 7. Plan

1. An assessment that fetches events and verifies the chain in two requests, against
   a store that archives and fails in between.
2. Two processes of Hermes with a stated weaker promise for notes.
