# A verification project for raksha-core

raksha-core watches blockchains and markets for trouble: an indexer reads chain
and exchange data and publishes events, detectors turn events into detections, a
finality worker follows which on-chain events survive reorganisations, an
orchestrator turns detections into incidents and alerts and hands them to a
notifier, and a history worker copies what happened into an archive. The services
talk through Redis streams and keep their state in Postgres.

This directory holds TLA+ models of these parts, TLC configurations that check
them on small instances, and proofs checked by TLAPS.

## 1. The system

| component | source | state | operations | talks to |
|---|---|---|---|---|
| finality tracker | `crates/state-manager/src/finality.rs` | head, blocks (hash, event keys), lifecycle state per key | `observe_event`, `apply_reorg_notice`, JSON round trip | called by the finality worker |
| finality worker | `apps/finality/src/main.rs` | a tracker per chain, an engine, an update counter, one row per chain | loop: events, notices, periodic save, shutdown | reads `normalized-events` and `reorg-notices`, writes `reorg-notices` and `finality-updates` |
| orchestrator | `apps/orchestrator/src/main.rs` | alert cache; incidents, alerts, lifecycle rows, usage counts in Postgres | loop: detections, finality updates; attach incident, suppress, quota, notify, persist | reads `detections` and `finality-updates`, calls the notifier gateway |
| stream bus | `crates/state-manager/src/lib.rs` | streams, groups and pending entries in Redis | publish and trim, group read, ack | every worker |
| repository | `crates/state-manager/src/persistence.rs`, `raw_repository.rs` | Postgres tables | single statements, no transactions | every worker |
| circuit breaker | `crates/common/src/circuit_breaker.rs` | three atomics and a time behind a lock | `call` | any caller of an external service |
| dead letter queue | `crates/state-manager/src/dead_letter_queue.rs` | a retry count per entry | `record_failure`, `should_retry`, `remove_entry` | none yet |
| detector | `apps/detector/src/main.rs`, `patterns/mod.rs` | pattern configs, the reload ticker and commands, the batch in hand | select loop: reload, notify, events; registry: dispatch, save, publish | reads `unified-events`, writes `detections` |
| patterns | `apps/detector/src/patterns/{depeg,tvl_drop,utilization_high,flash_loan,generic_rule}.rs` | quotes, windows, incidents, severities, cooldowns, rule states | `process_event`, `reload_config` | detector, `pattern_state` rows |
| stream supervisor | `apps/indexer/src/{main,stream_supervisor}.rs` | the running workers and their configurations, the LISTEN task | reconcile, tick, notification, reload command, stop | the stream catalog, the workers |
| stream worker | `apps/indexer/src/stream_worker.rs` | connection, backoff, rate cache, recent quote, health report | connect, parse, normalise, land, insert, publish, report, stop | providers, the tables, `unified-events` |
| connectors | `apps/indexer/src/stream_connector/` | websocket heartbeat, log cursor | connect, `next_payload` | providers |
| history worker | `apps/history-worker/src/main.rs` | an offset per table, the history schema, the scenario archive | copy four tables, write the scenario catalog | Postgres, the file system |
| notifier | `crates/notifier/src/lib.rs` | none | gateway client | HTTP |

What is hard in it:

* several processes of one consumer group share the streams and the tables, and
  every check (quota, duplicate, open incident, retry count) is a read followed,
  some awaits later, by a write;
* a crash loses what a process was handed (Redis delivers an entry once, and
  nothing reads the pending list) and whatever it had not saved; a `select!` that
  drops a group read loses what was delivered to it;
* rows, bus and health are written one after the other without a transaction or an
  outbox: any call may fail in between;
* events of two forks, late events and replayed notices reach the tracker in any
  order, and finality updates race with the detections they are about;
* quotes, samples and readings reach the detector in any order of their
  timestamps, while its rows are loaded, evaluated and saved with awaits between;
* the stream catalog is edited while it is read, and workers must be replaced
  without two of them running, or none.

What makes each component correct: the tracker never revives a retracted event
and confirms one only in a block that is buried; the worker's subscribers see a
monotone lifecycle, and its saved state never runs ahead of what it published;
the orchestrator keeps one open incident per subject, does not repeat itself,
bounds what passes the quota, and stores no alert it did not try to announce; the breaker
never misses a trip or a recovery; the patterns neither repeat an alert within its
cooldown nor flap, never raise an incident silently, resolve it only when the quiet
was confirmed, and alert on what was observed; a detector handles every event once
and completely; the supervisor's workers come to be those of the catalog; a stream
worker publishes an event once per tenant and not before it is stored; the history
is complete up to its offsets and catches up.

## 2. Modules

| module | models |
|---|---|
| `FinalityTracker` | `ChainFinalityTracker` as a value with operators, and one tracker with the stream of its own notices as a state machine |
| `FinalityTrackerProofs` | its proofs |
| `Lifecycle` | abstract: what subscribers of `finality-updates` are promised about a key |
| `FinalityWorker`, `FinalityWorkerProofs` | the worker's processes, streams, row, crashes and restarts; instantiates the tracker; refines `Lifecycle`; and proofs |
| `Orchestrator`, `OrchestratorProofs` | the orchestrator's processes, its tables and streams; and proofs |
| `CircuitBreaker` | the breaker and its callers |
| `Depeg`, `DepegProofs` | the depeg pattern of one tenant: quote cache, consensus, incident row, publication; and proofs |
| `Utilization`, `TvlDrop`, `FlashLoan`, `GenericRule` | the other patterns of the registry, each for one tenant |
| `Rules`, `RulesProofs` | these four side by side; and proofs |
| `Detector`, `DetectorProofs` | the select loop, the registry's dispatch, and the stream with its group; and proofs |
| `DeadLetterQueue` | the queue for one entry and several callers |
| `StreamSupervisor` | reconcile, its select loop and the LISTEN task |
| `StreamWorker` | one worker, from the connection to the health report |
| `WebsocketConnector`, `RpcLogsConnector` | the two connectors that keep state between payloads |
| `HistoryWorker`, `SimlabCatalog` | the table copies, and the scenario files |
| `Indexer`, `IndexerProofs` | supervisor, worker and the connectors side by side; and proofs |
| `MC_Delivery`, `DeliveryProofs` | detectors, dead letter queue, history and breaker side by side; and proofs |
| `MC_FinalityTracker`, `MC_FinalityWorker`, `MC_Orchestrator`, `MC_Depeg`, `MC_Rules`, `MC_Indexer` | feeds, rules, symmetry sets and values for TLC |

Definitions keep the names of the code in CamelCase; `PROJECT.json` maps each to
its lines. Definitions whose comment starts with *Mutant* are faulty variants of
the definition after them; they show that the property named in `PROJECT.json`
notices the fault. Every module states a type invariant; the configurations list
the tracker's, which is also proved, and the others can be added to theirs.

`Rules`, `Indexer` and `MC_Delivery` choose in `Init` which component a
behaviour is about and hold the variables of the others still. These components
share no state that their models do not contain already (what a pattern sees of
the registry, or a supervisor of its workers, is in its own module), so this adds
their state spaces instead of multiplying them. The properties of such a run are
the components' own, joined by what they are about and each guarded by its
component. Their parameters are constants (in `Rules` a record for each pattern), and
assumptions named there say what values they may have; `MC_Rules`, `MC_Indexer` and
the definitions in `MC_Delivery` are only the values for TLC.

**FinalityTracker.** `tracker` is the struct; `blocks` is total over the heights,
a height without an entry having an empty key set (an entry is created with its
first key and removed whole). The vector of keys in a block is a set: its order
only orders updates about different keys. `ObserveTracker` is `observe_event`:
conflict branch (`AfterConflict`), filing (`FileEvent`), sweep (`ConfirmDue`);
`ObserveUpdates` and `ObserveNotice` are what it returns.

**FinalityWorker.** One action per await of the loop. A stream is a sequence and
the group's position in it. `mem`, `engine`, `inbox`, `outbox`, `count` are a
process's locals; `saved` is the `finality_state` row. `Crash` covers a kill, a
`?` that leaves `main`, and `FINALITY_RUN_ONCE` (which leaves the loop without the
final save).

**Orchestrator.** One tenant and one pattern, since both are part of every key.
`latest` is the newest `alert_lifecycle_events` row of each event key,
`incidents` and `alerts` the tables, `fired` the month's `alert_fired` count.
With `DbFaults` any database call may fail and takes the branch the code takes:
log and go on, or drop the entry. `offered` lists the alerts for which the notifier
gateway was called, `refused` the calls that failed (with `GatewayFaults`): the code
logs that and goes on to store and charge the alert (`main.rs:1010-1020`). Detections
and updates arrive in any order: after a crash the finality worker may repeat or
contradict what it published, so `Finalize` asks for no order. The duplicate window
and the cache's age limit are nondeterministic (`InWindow`, `Remember`). Several open
incidents are ordered by a column stamped from each process's own clock, so any may
be found.

**CircuitBreaker.** Each atomic access and lock acquisition is a step, under
interleaving semantics; the `Relaxed` orderings of the code permit further
reorderings between different atomics, which are not modelled. `timer` is the
only thing time does here: the timeout since `last_transition` has elapsed or
not.

**Depeg.** One tenant, since the tenant is part of every key; a key is a market and
a replay scope. `cache` holds the sorted quote histories, `rows` the rows of
`pattern_state`, `config` the configuration last loaded, `work` the outcome that
`process_event` carries from the load of the row to its save (`Save`) and on to the
registry's publication (`Publish`). The reads before the save form one step, since
a detector handles one event at a time and no one else writes its cache.
Evaluations are operators: `Snapshot` (eligible quotes, weighted median, quorum,
oracle confirmation, confidence), `AssessContext`, and `NextRow`, split by the
branches of `evaluate_policy`. Prices, weights and bands are integers in one unit,
so divergence is the distance from the peg; percentages are compared by cross
multiplication. Which market, price and timestamp an event has, after the gateway's
field mappings, is chosen freely from `Feed` and `Times`. `last`, `intact`,
`streak`, `lulled` and `newest` are history variables that only the properties read.
`intact[k]` becomes false when a save or a publication fails, when a crash loses a
detection, when the row is cleaned up, and when an evaluation without a single
fresh quote wipes it; the code then forgets its cooldown and severity, and the
properties promise nothing until the next saved alert.

**Utilization** and **TvlDrop** have the same frame: an event is taken on, every
matching rule in turn loads its row (from the cache or the database), moves its
incident and saves the row, and one of the detections, the worst, is published.
`work` holds the rules to come and the detections so far; `masked` remembers the
severity that was published instead of a rule's own, `announced` the severity told
last. Rules are validated as the code does, so a configuration may lose rules on a
reload; the rules of an event that are still to come are the places of a list, taken
in its order. Rows are kept by rule id and subject, and rules without an id all get
the same one (`utilization_high.rs:442-475`), so two of them would count in one row:
what is said of told severities is for configurations without that (`KeysDistinct`).
What relates a row to what one process knows of it holds for one process (`Alone`),
since nothing locks a row between its load and its save. In `TvlDrop` a row keeps its
window of samples, the drops over the three windows are measured in the order of time,
and the cache decides whether another protocol drops too (contagion). Figures that only
enter the text of a detection are left out.

**FlashLoan.** All cooldowns of a tenant are one row, loaded once per process and
written back whole. **GenericRule.** The sandbox runtime is external: it may
answer anything, with any state; the module is about which answers are stored.

**Detector.** The stream is the set of entries kept, with their ids, and is trimmed; a group read
takes three turns (connect, send, answer), and in each of them another branch of
the `select!` may win and drop it. Patterns answer freely with a hit or none;
dispatch, saving, publication and acknowledgement are steps. `closed` says that the
health server, which holds the sender of reload commands, has ended.

**DeadLetterQueue.** No program calls it yet; the callers follow its comments (ask
`should_retry`, process, `record_failure` or `remove_entry`).

**StreamSupervisor.** `Reconcile` is a sequence of steps: the list query, then per
stream the query of its targets and the start or replacement of its worker, with
the old one awaited, then the stale ones. The streams of the list are taken in any
order, for the query sorts them by columns of the catalog. A task runs, is told to
stop, and ends; it may end by itself over a configuration that cannot work. `DriverRunsAlone` says
whether a `tokio_postgres` connection that nothing polls makes progress (it does
not; see `indexer_listen`).

**StreamWorker.** The stages of `work` are the awaits of `run_stream_worker` and
`process_payload`: connect, wait, take an item, find the rate, ask for the truth
price, land it raw, insert, publish, report health, fail, back off. Every call may
fail. `rows` has the unique indexes of the tables (`build_dedup_key`), `Purge` and
the deferred raw landing run beside the worker. A payload is a record of what the
code tells apart in it. `settings` is what a worker was started with, its stream's row
and the environment, chosen in `Init`.

**WebsocketConnector.** The heartbeat of one connection against a peer that falls
silent without closing. Ping interval and pong timeout are chosen in `Init` from the
settings a stream may have, each configured or not: the code validates neither, and
the streams that the repository seeds configure none. The time that the worker takes
for a payload is not counted.

**RpcLogsConnector.** The block cursor against nodes that do not agree on the head.
`AskHead` and `LogsAnswered` are the two awaits of a refresh; another node may
answer the second, without the newest blocks of the range, and the cursor moves to
the end of the range all the same.

**HistoryWorker.** Each of the four copies reads a batch after its offset, writes
case, link, event (or registry entry) of a row, and saves the offset, statement by
statement; any statement may fail, which ends the process and starts it again. A
row gets its stamp before it is visible, by at most `MaxLag`. **SimlabCatalog** is
the last step of the iteration: every scenario file is written out again.

## 3. Runs

| run | expects | shows |
|---|---|---|
| `tracker` | pass | `TypeOK`, `HeadIsTop`, `NothingOverdue`, `NoticesNameRetracted`, `DroppedKeysRetracted`, `RetractedIsTerminal`, `ConfirmedIsBuried`, `UpdatesMirrorStates` |
| `worker` | pass | one process with a graceful restart: refinement of `Lifecycle`, and `EveryEventReported` |
| `worker_crash` | pass | two processes, a crash, failing saves: `SnapshotPublished`, `EngineMirrorsTracker` |
| `orch` | pass | one process: `OneOpenIncident`, `NoRepeatedNotification`, `CacheIsLatest`, `ReinstatedByLaterUpdate` |
| `orch_quota` | pass | two processes: `QuotaOvershootBounded`, `CriticalOffered` |
| `orch_faults` | pass | failing database and gateway calls, and a crash: `StoredWasOffered` |
| `orch_reopen` | violation | a late confirmation reopens a closed incident |
| `depeg` | pass | `AlertsSpaced`, `NoFlapping`, `SeverityAnnounced`, `NewestQuoteUsed` |
| `rules` | pass | the other four patterns: `IncidentRunsItsCourse`, `RaiseToldOrMasked`, `AlertIsFounded`, `KeptStateHolds` |
| `indexer` | pass | supervisor, pushed and polled worker, connectors: `WorkersFollowCatalog`, `Converges`, `PublishedOnce`, `ReportIsFounded`, `ConnectionKeepsUp` |
| `indexer_listen` | violation | the supervisor never hears a notification |
| `delivery` | pass | detectors, dead letter queue, history worker and breaker: `HandledOnce`, `DetectorsCatchUp`, `GivenUpIsKept`, `GivesUp`, `HistoryComplete`, `HistoryCatchesUp`, `NoMissedTransition`, `Recovers` |

**Bounds.** *tracker*: two keys, two hashes (and none), heights 0..3, depths 0, 1
and 2, one waiting notice: enough for a fork under a buried block, a late event,
and a notice that is read after new events were filed; the theorems remove the
bounds. *worker*: two keys, two forks of height 1 and a height that buries it,
three events, batches of two so that an event and a notice can be in one loop, one
stop; *worker_crash* adds a second process and a crash with batches of one.
*orch*: two keys of one subject, three detections (trigger, escalation,
resolution, unusable), two updates, a cache of one so that eviction happens.
*orch_quota*: three triggers against a quota of one; the third is the one a wrong
comparison lets through. *orch_faults*: every call may fail, that of the notifier too, one crash. (In the
other three the notifier answers: its error changes nothing that follows.)
*depeg*: one detector, two markets (so that a context can be systemic), an
exchange and an oracle, timestamps 0..2, histories of one quote and two keys so
that both limits are hit, two configurations to reload between (the exchange bound,
or unbound and switched off), one fault;
`MaxBelow` bounds how long a run of quiet evaluations is counted.
*rules*: two utilization rules of one market that overlap, one of which a reload
invalidates; three TVL rules over two protocols, four samples, windows of one and
two minutes, so that fast, slow, velocity and systemic drops and late samples all
occur; two flash loan rules and two addresses; six runtime rules, some not
executable; one fault each.
*indexer*: two streams, one edit and one fault during a reconcile; the settings of a
worker that is pushed two quotes for two tenants, and of one that polls batches with a
repeated log, or a repeated simulated quote; one fault; a heartbeat through two
intervals, with four settings (it works, its timeout is no shorter than the interval,
no timeout, no ping); a chain of six blocks, nodes up to two behind, two lost
connections.
*delivery*: one detector with two patterns and two entries, good, undecodable or
empty, of which one is trimmed if both wait; two detectors on one stream; three
callers and three retries in the queue, since two callers cannot pass a limit by
more than the one attempt in hand; three rows over four tables with batches of one
and equal stamps; two files with two revisions, a shared slug and one edit; the
breaker with two callers, thresholds of two and four failures: two complete trips.
The number of alerts, incidents and updates is bounded only by these inputs.
In *indexer* and *delivery* a behaviour may stop (a worker has ended, the inputs
are used up), so TLC does not look for deadlocks there; that nothing waits for ever
is what their liveness properties say.

**Fairness.** Everywhere: a process that can take its next step takes it (the loops
never block for ever: reads have a `BLOCK` timeout), and a process that ended is
started again (`restart: unless-stopped` in `infra/docker-compose.yml`, the desired
count of `infra/service-catalog.yaml` for the history worker; an error that leaves
`main` ends the process). The liveness runs of the finality worker and
the orchestrator have no crashes: an entry delivered to a process that dies is lost,
by design of the group read. `CircuitBreaker!FairSpec`: callers keep calling, calls
return, the clock advances; the service fails finitely often. `Detector!FairSpec`:
the reload interval fires, 30 s apart, while a group read blocks for 2 s; hence
`rested`: between two ticks a read has time to end. `StreamSupervisor`: the
reconcile tick fires, the listener connects, a task told to stop ends, which
`StreamWorker` shows under the assumption that its calls return (`connect_async` and
the HTTP requests have no timeout). Faults and edits are finite.

**Symmetry** is used in `tracker` and `worker_crash` only, with
invariants and action properties, over sets no `CHOOSE` picks from (`The` chooses
from singletons).

**The two violations.** `orch_reopen`: the code that applies a `Confirmed` update
sets the incident active whatever its status, although `resolved` is said to be
terminal. `indexer_listen`: the supervisor awaits `LISTEN` on a client whose
connection nothing polls yet, so the statement is never sent and reconciles come
from the tick only; the detector's listener is written the same way.

**Where the properties stop.** Met while modelling, and the reason why a property is
stated the way it is:

* A finality worker that crashes before its save restores an older tracker and may
  confirm what it had retracted; the refinement is therefore checked through
  graceful stops. Its own notice, read back, also drops the block of the surviving
  fork, whose event then stays provisional. No property is about that loss:
  `NoticesNameRetracted` and `DroppedKeysRetracted` hold in spite of it. Two processes
  overwrite each other's row; what one knows and the other does not is lost with a
  restart, and only what the row *says* is known to have been published.
* The tracker does not keep the depth an event asked for: every observed event sweeps
  all blocks with its own, so one that asks for less confirms those before it earlier
  than they asked. `ConfirmedIsBuried` therefore speaks of the depth of the event that
  confirms.
* A reorganised alert may come back: a confirmation that follows its retraction in
  the stream, which a restarted finality worker may publish, sets it confirmed.
  `ReinstatedByLaterUpdate` says that nothing else does.
* Two orchestrators that hold two detections of one event both find no duplicate
  and both notify; they also open two incidents, and each applies a finality update to
  the alert it cached, whatever the other has stored since: `NoRepeatedNotification`,
  `OneOpenIncident` and `CacheIsLatest` are for one process and say nothing of these
  races. The quota can be overshot, by at
  most one alert per extra process and per crash. An alert suppressed by the quota
  becomes the newest row of its key and hides the alert before it from the
  duplicate check, so `NoRepeatedNotification` is stated without a quota. A
  confirmation can leave a reopened incident beside the current one, so
  `OneOpenIncident` counts incidents that were never closed. Duplicates are compared
  by severity and lifecycle, so a new trigger after a resolution may be taken for
  one; a failed lookup drops the alert. An alert that the notifier refused is stored
  and charged like one it took, and nothing tries again.
* The breaker stores OPEN before `last_transition`: a caller in between sees the old
  time and probes at once. `failure_window` is never read.
* In the depeg pattern an incident whose publication failed stays unannounced, and
  a market whose sources all go stale may alert again before its cooldown is over,
  because the row is wiped.
* A utilization reading of at most 1 is taken for a ratio, so 1 % reads as 100 %. A
  resolution carries the severity it ends and may hide the raise of another rule
  in the same event (`masked`). A TVL of 0 is no sample, so a total drain alone is
  not a drop; a late sample is measured against newer ones.
* Flash loan cooldowns are loaded once per process: two detectors do not see each
  other's. A cooldown whose save failed lasts as long as the process. A late event may
  alert within a cooldown that a later event has removed. A runtime rule that matches
  ends the event for the rules behind it.
* With the command channel of a detector closed (no health server), `recv()` is
  ready in every turn and the group read never ends: `DetectorsCatchUp` excepts it
  (`Starved`). A batch with one undecodable payload is lost whole, and so is what a
  dropped read was given.
* The first `record_failure` always returns false, so with `max_retries` of 1 it and
  `should_retry` disagree; concurrent failures count as one.
* A stream without an owner gets operational rows under its first tenant only,
  although it is published to all. A purge forgets the deduplication with the row. A
  row whose publication failed is never published, for a redelivery is a duplicate.
  Where raw landing is not required it is deferred, and the row may come first
  (`docs/ARCHITECTURE.md:32` describes it before the insertion). A silent peer
  is never noticed unless a ping and a timeout are configured, and the timeout and a
  read together are shorter than the ping interval. A log connector that one node told
  the head, and another, behind it, gave the logs, misses the blocks between
  (`young`); a reconnected one starts a few blocks behind the head: what it missed
  before that is gone.
* A row that commits behind the offset is not copied to the history; ids of feature
  vectors are compared as texts, so 10 after 9 with one stamp is taken for read; a
  scenario whose revision has fewer steps keeps the events of the old one, two ids
  may share a slug, and a `default_speed` out of range fails the statement and with
  it all later files, in every iteration.

## 4. Proofs

The theorems hold for every value of the constants; the runs check the same
definitions on instances, and TLC checked the inductive invariants there before they
were proved. In `RulesProofs`, `DeliveryProofs` and `IndexerProofs` a behaviour is that of one part,
so each theorem is the part's own, carried over the steps of the others (`OwnStep`,
`OnePart`).
Where a theorem needs one process, no failing call or no crash, the property is false
without it (section 3 says how), and the hypothesis stands in the theorem.

**FinalityTrackerProofs**: `TypeOK`, `HeadIsTop`, `NoticesNameRetracted`,
`NothingOverdue`, and the action properties `RetractedIsTerminal`,
`ConfirmedIsBuried`, `UpdatesMirrorStates` and `DroppedKeysRetracted`, for all sets of
keys and hashes, bounds on heights and depths. The inductive invariant `Inv` is the
conjunction of the four invariants: `NothingOverdue` needs `HeadIsTop`, because a
rollback lowers the head and with it the finalized height, and an observed event
raises it and sweeps with its own depth, at most `MaxDepth`. The lemmas say what
each operator does to head, blocks and states (`RollbackFacts`, `RetractFacts`,
`FileEventFacts`, `ConfirmDueFacts`), and the two operations are then handled once
each. `HeightMax` (a non-empty set of heights has a greatest element) is the one
fact proved by well-founded induction. Assumption: `TrackerAssumption`, that depths
are at most `MaxDepth` and the default is at least 1.

**FinalityWorkerProofs**, over the tracker's lemmas. `Shape` says what inbox, outbox,
tracker and engine may hold at each position of the loop. `SnapshotPublished` and
`EngineMirrorsTracker` hold for any processes, crashes and failed saves:
`SnapshotPublished` becomes inductive with `Fits`, that the decisions a process holds
and has not saved are published already or in its outbox, and that its engine
agrees with the tracker once the outbox is applied. `ImplementsLifecycle` is the
step simulation of `Lifecycle` for one process under `Graceful`: no crash and a
database that answers, but any number of stops and restarts. `SingleInv` carries it:
the history published of a key ends where tracker plus outbox continue, and a notice
that is still unread, or read again, names only keys that are retracted.

**OrchestratorProofs**. `Shape` and `TypeOK` hold for any number of processes,
crashes and faults, and so do

* `StoredWasOffered`: `NotifyInv` follows an alert from the call of the notifier,
  whatever came of it, to the table and the newest row,
* `QuotaOvershootBounded`: `QuotaInv` counts the processes that passed the check and
  have not recorded (`Cleared`) and the alerts a crash left unrecorded.

With one process: `ReinstatedByLaterUpdate`, whatever crashes and fails and in
whatever order updates come (`OrderInv`: the batch in hand is the part of the stream
read last, a key whose newest row says retracted had its retraction taken up, and
the alert in hand says what its update says); `CacheIsLatest`, through crashes, when
the calls do not fail (`CacheInv`); `OneOpenIncident` and `NoRepeatedNotification`
without either.
The latter assumes that every duplicate is inside the suppression window, since
outside it repeating is intended.

**DepegProofs**: for any markets, scopes, sources, policies and feeds, any reloads,
faults and clean-ups.

* `TypeOK`, and `NewestQuoteUsed` with any number of detectors. A history is sorted
  and keeps the newest of what arrived (`Histories`, `Remembered`), so its last quote
  is the newest of its source however the limits cut it.
* `AlertsSpaced`, for one detector (with two, both may evaluate the same row). The
  property speaks of an alert that has been decided and not saved. `Spaced` adds what
  the saved row remembers of the last alert (`RowRemembers`): a high-water mark not
  below it and a cooldown that covers it, and what an outcome in hand will make the
  row remember (`OutcomeRemembers`). The mark is what a late event is compared with;
  without it a late resolution would start its cooldown in the past.
* `SeverityAnnounced`, for one detector: `RowTold` and `OutcomeTold`, that a row's
  severity was told, or is about to be told by the outcome in hand.
* `NoFlapping`, for one detector: `RowCounts` and `OutcomeCounts` tie the row's
  counter of calm evaluations to the history variable `streak`. `BoundAmple` says
  that `MaxBelow`, the bound on that variable, is above what the policies ask for.

The prover sees nothing of the consensus (`Snapshot` is only known to be
`Decisive`): none of these depends on how prices are weighed.

**RulesProofs**, for any rules, feeds, limits of the caches, reloads, faults and
crashes; the assumptions are that rules have the types they are parsed into and that
the history of quiet readings is long enough for them.

* Utilization: `IncidentRunsItsCourse` and its parts of `RaiseToldOrMasked` and
  `AlertIsFounded`. The properties speak of the moment before a save, or of rows that no
  event in hand has touched, so `UtilizationInv` says what holds in between: with one
  process what is about to be saved is what the row that is still there and the event
  make of it (`Evaluated`); the confirmations a row counts were quiet readings
  (`CountedCalm`); a pause that was told is in the row, or its end is about to be told
  (`PauseKept`); and a severity was told, was masked, or is no worse than what the event
  in hand will publish (`Told`). The last needs that no two rules share a row. Each
  branch of the evaluation has a lemma (`BreachMoves`, `QuietMoves`, `PauseMoves`).
* TVL drops: `DropIsFounded` holds for any number of detectors. Samples stay sorted
  whatever order they come in (`RememberedInOrder`: the insertion behind those that are
  not younger, and the cut), so the ends of a window are its earliest and newest sample
  (`WindowDrop`) and a base severity needs such a drop (`BreachIsDrop`).
  `SystemicIsFounded` is for one detector: what it has cached of a row nothing failed
  on is what the row says (`CachedAsSaved`). So are the severities: what is about to be
  saved never lowers a row, and raises it by no more than it tells (`Raises`).
* The cooldown of a flash loan rule: `CooldownHolds` looks at the moment before the
  save; `Cooldowns` says that the cooldown of the newest alert is in the cache or,
  before that is loaded, in the row, unless it is over or went with a process that had
  not saved it. The state of a runtime rule is inductive.

**DetectorProofs**: `TakenUpOnce`, `AcknowledgedWasSeen` and `DetectionsPublished`
(together `HandledOnce`), for any number of detectors, entries, faults and crashes,
any batch size and any `MAXLEN`. `DetectorInv` says that the batches of two
processes never meet (`Batches`), that what is in hand was taken up (`Taken`), was
shown to the patterns before the one at work (`Seen`), and that a hit is published
or about to be (`Kept`, `Telling`). The steps of the loop are first reduced to nine
kinds (`DetectorSteps`).

**DeliveryProofs**.

* `TypeOK` and `NoMissedTransition` of the breaker, for any number of callers and any
  positive thresholds. `NoMissedTransition` speaks of a breaker nobody is inside of;
  the invariant that carries it, `Witnessed`, says that a counter at its threshold
  always has a caller that is about to act on it or to reset it.
* `GivenUpIsKept` and `CountBounded` of the dead letter queue, for finitely many
  callers and any limit above zero. `QueueCount` bounds the count by the limit plus
  the attempts in hand; `Within` and `Spare` say which caller's failure may be the one
  that reaches it. With a limit of 1 the caller that inserts the entry asks first,
  which is a case of its own, because the first failure always answers false.
* `HandledOnce` for the detectors of the run, one or two: `DetectorProofs` with their
  values.
* `HistoryComplete`, for any finite number of rows and files, any batch size, any writes,
  edits, failures and crashes. Of the tables (`CopiesComplete`): a query answers the rows
  that come first, in order (`RowsOrdered`, by a minimal counterexample over finite sets,
  since the sorted sequence is chosen); `Ahead` says of every row not yet passed that the
  worker holds it, has copied it, or leaves it behind the offset it is about to save, and
  `Complete` that the statements before the one in hand took effect. Of the scenario
  files (`CatalogReplayable`): `Behind` says what the worker has written of the file in
  hand, which may have been edited since it was read.

**IndexerProofs**.

* `WorkersFollowCatalog`, for any set of streams, any rows of the catalog and any
  edits, faults and ends of workers, whichever stream a reconcile takes next.
  `NoOrphan` is inductive with `Handles` (the handle of a stream names a task of that
  stream) and `Awaited` (the task that is awaited has lost its handle), and
  `OneWorkerPerStream` follows from them. `ReconciledIsCatalog` needs `Course`: while
  nothing was edited or failed since the list was read, every stream that is not in the
  list any more has its worker, or the one that is awaited will be replaced by it, and
  those that are still in it are as the catalog has them.
* `ConnectionKeepsUp`. `SilenceIsNoticed` for any settings, and says something of those
  in which a ping and a timeout are configured and the timeout plus the second of a
  read is shorter than the interval (`HeartbeatWorks`): `HeartbeatInv` dates the ping
  that is unanswered and the next one due. `OldBlocksNotMissed` for any lookback, lag of
  the nodes and number of reconnects: blocks that lay `MaxLag` or more below the head
  when they were asked for are known to every node. `CursorShape` bounds the cursor by
  the head that was told; `FetchedBlocks` says which blocks a range query adds.
* `PublishedOnce`, for any targets, payloads, redeliveries, purges and failures. `Ledger`
  says where an event is between its row and the bus: the targets that are still to come
  were not told, and a row that was parsed is told, was lost to a failure, or is the one
  in hand (`Telling`); `Landed`, that the required raw record is there before the row.
  A stream has one row per tenant, the primary key of the table, without which a tenant
  would be told twice.
* `ReportIsFounded`: `CacheIsFresh` dates the quote behind a cached rate; the health row
  is the last report unless its write failed; and the truth price is a median
  (`MedianIsCentral`): a finite set of sources can be put in the order of their prices
  (`OrderedSources`), and the middle has at most half of them on either side.

**Only model-checked.** All invariants and action properties of the runs are proved;
what is left to TLC is liveness
(`EveryEventReported`, `CriticalOffered`, `Recovers`, `Converges`,
`DetectorsCatchUp`, `GivesUp`, `HistoryCatchesUp`), since TLAPS does not handle
fairness. What the model computes by a fold over data (the weighted median of the
consensus) is checked on instances and enters no proof beyond its type.

## 5. Not modelled

In the modelled services: the mode without consumer groups and without a
database, health endpoints and metrics, logging, test-mode branches that only log,
blast radius, evidence snapshots, incident events and context snapshots (rows that
are appended and never read back here), channel routing and hourly escalation,
simulation run ids (part of the key), field mapping (dot paths into a payload:
which fields an event has is chosen freely), parsers (a payload is accepted or
not), the connectors without state between payloads.

Whole components: the notifier (one external call without state of its own), the
ingestion library (mock sources and decoders), feature builder and risk scorer
(floating-point formulas without state), correlation ids (logging), configuration
parsing, and the infrastructure, which was read for what restarts a process and
which constraints the tables have.

## 6. Plan

1. Done: every service of the repository has its model; see section 2.
2. Done: the proofs of section 4.
3. Done: every invariant and action property of the runs has its theorem.
4. Open: the weighted median of the depeg consensus, whose definition folds over a set.
