---------------------------- MODULE StreamWorker ----------------------------
(***************************************************************************)
(* One stream worker of the indexer, apps/indexer/src/stream_worker.rs: it *)
(* connects to the provider of its stream, and takes every payload through *)
(* parsing, normalisation, raw landing, the operational table and the      *)
(* unified event bus, one await after the other, until a call fails (then  *)
(* it reports, backs off and connects again) or it is told to stop.        *)
(*                                                                         *)
(* A poll returns a batch of payloads, other connectors one at a time.  A  *)
(* payload is a record of what the code tells apart in it:                 *)
(*   ok      the parser accepts it         etype   its event type          *)
(*   eid     the provider's event id       tx      its transaction         *)
(*   ts      its own time, if any          replay  its time in a replay    *)
(*   run     its simulation run, if any    market, price, quote (asset)    *)
(***************************************************************************)
EXTENDS Integers, Sequences, FiniteSets, SequencesExt

CONSTANTS
    None,            \* an absent value
    Settings,        \* the streams a worker may be started for, see below
    MaxTime,         \* bound: clock
    MaxFaults        \* bound: calls that fail

VARIABLES
    settings,   \* what the worker was started with, its stream's row among it
    now,        \* the clock
    work,       \* where the worker is, and the item in hand
    backoff,    \* the wait before the next connection, in doublings
    stopping,   \* the supervisor's stop signal
    cache,      \* fx_cache: a rate, the time of its quote, the time it was cached
    recent,     \* recent_quote_state
    report,     \* source_health_report_state
    rows,       \* the operational table, the rows of this stream
    raw,        \* idempotency keys that landed in the raw database
    deferred,   \* envelopes that a background task is still writing
    health,     \* data_source_health, per tenant
    published,  \* <<tenant, key>> of the events on the bus
    count,      \* payloads delivered and calls that failed, for the bounds
    history     \* for the properties only: see HistoryInit

vars == <<settings, now, work, backoff, stopping, cache, recent, report, rows, raw, deferred,
          health, published, count, history>>

-----------------------------------------------------------------------------
\* The row of the stream and the environment, which a worker keeps as it was
\* started.
Targets         == settings.targets     \* tenant_targets, a sequence
Feed            == settings.feed        \* what the provider may deliver: payloads, or batches
OtherPrices     == settings.others      \* what other sources may have quoted: source to price
Mode            == settings.mode        \* "push": a read error ends the connection; "poll": it is logged
Live            == settings.live        \* operating_mode_profile = "live"
HasRaw          == settings.hasRaw      \* RAW_DATABASE_URL is set
RawRequired     == settings.rawRequired \* RAW_LANDING_REQUIRED
DuplicateWindow == settings.window      \* dedupe_same_price_window_ms; None disables it
FxFreshness     == settings.freshness   \* FX_LOOKUP_FRESHNESS_SECONDS
FxTTL           == settings.ttl         \* FX_CACHE_TTL_SECONDS
HealthInterval  == settings.interval    \* SOURCE_HEALTH_*_REPORT_INTERVAL_SECS
Retention       == settings.retention   \* PURGE_RETENTION_SECONDS
MaxBackoff      == settings.maxBackoff  \* max_backoff, in steps of its doubling
MaxDeliveries   == settings.deliveries  \* bound: payloads, or batches, delivered

Tenants == {Targets[i] : i \in DOMAIN Targets}

\* again: published twice; lost: stored, and then failed before the bus was
\* done; purged: keys deleted from the table; unsaid: tenants whose last
\* health write failed.
HistoryInit == [again |-> {}, lost |-> {}, purged |-> {}, unsaid |-> {}, stored |-> {}]

Init ==
    /\ settings \in Settings
    /\ now = 0 /\ count = [deliveries |-> 0, faults |-> 0]
    /\ work = [stage |-> "connect"] /\ backoff = 0 /\ stopping = FALSE
    /\ cache = None /\ recent = None
    /\ report = [healthy |-> None, success |-> None, failure |-> None, message |-> None]
    /\ rows = {} /\ raw = {} /\ deferred = {} /\ published = {}
    /\ health = [t \in Tenants |-> None]
    /\ history = HistoryInit

Stages == {"connect", "select", "item", "fx", "truth", "raw", "insert", "publish", "health",
           "fail", "backoff", "ended"}

TypeOK ==
    /\ now \in 0 .. MaxTime /\ backoff \in 0 .. MaxBackoff /\ stopping \in BOOLEAN
    /\ work.stage \in Stages
    /\ cache = None \/ (cache.quoted \in 0 .. MaxTime /\ cache.at \in 0 .. MaxTime)
    /\ \A r \in rows : r.tenant \in Tenants \cup {None} /\ r.made \in 0 .. MaxTime
    /\ \A x \in published : x[1] \in Tenants
    /\ health \in [Tenants -> {None} \cup BOOLEAN]
    /\ report.healthy \in {None} \cup BOOLEAN
    /\ count.faults \in 0 .. MaxFaults /\ count.deliveries \in 0 .. MaxDeliveries

Disturbed(n) ==
    /\ count.faults + n <= MaxFaults
    /\ count' = [count EXCEPT !.faults = @ + n]
Calm == UNCHANGED count

At(stage) == work.stage = stage
Goto(stage) == work' = [work EXCEPT !.stage = stage]

\* Any error of a payload or of the connection ends the loop of the mode;
\* what was left of the batch goes with it.
Fail(message) == Disturbed(1) /\ work' = [stage |-> "fail", message |-> message]

-----------------------------------------------------------------------------
\* What is derived from an item before the first await.

\* A replay that runs faster than its recording keeps the recorded times; a
\* payload that does not parse has no time of its own.
ObservedAt(p) ==
    IF p.run # None /\ p.replay # None THEN p.replay
    ELSE IF p.ok /\ p.ts # None THEN p.ts ELSE now

PayloadTime(p) == IF p.ts = None /\ p.run # None THEN p.replay ELSE p.ts

\* The identity of an event: its transaction, else the provider's id, else a
\* digest of when it was observed and of all of it.
DedupKey(p, at) ==
    IF p.tx # None THEN <<"tx", p.tx, PayloadTime(p), p.run>>
    ELSE IF p.eid # None THEN <<"id", p.eid, PayloadTime(p), p.run>>
    ELSE <<"hash", at, p>>

HashPayloadOnly(p, at) == <<"error", at, p>>

ScopedEventId(p) == IF p.eid = None THEN None ELSE <<p.eid, p.run>>

\* A quote of the price last let through, no older and within the window.
SkipsDuplicate(p, at) ==
    /\ DuplicateWindow # None /\ p.etype = "quote" /\ p.price > 0
    /\ recent # None
    /\ recent.price = p.price /\ at >= recent.at /\ at - recent.at < DuplicateWindow

RecentAfter(p, at) ==
    IF DuplicateWindow # None /\ p.etype = "quote" /\ p.price > 0
    THEN [price |-> p.price, at |-> at] ELSE recent

-----------------------------------------------------------------------------
\* Connection and select loop.

Connect ==
    /\ At("connect") /\ ~stopping
    /\ \/ Calm /\ Goto("select")
       \/ Fail("connect")
    /\ UNCHANGED <<now, backoff, stopping, cache, recent, report, rows, raw, deferred,
                   health, published, history>>

\* A connector mode nobody implements, or no call to make.
StaticError ==
    /\ At("connect") /\ ~stopping
    /\ Fail("static")
    /\ UNCHANGED <<now, backoff, stopping, cache, recent, report, rows, raw, deferred,
                   health, published, history>>

\* Mutant: the loop of the mode does not listen to the stop signal.
StopSeenLate ==
    /\ stopping /\ work.stage \in {"connect", "backoff"}
    /\ work' = [stage |-> "ended"]
    /\ UNCHANGED <<now, backoff, stopping, cache, recent, report, rows, raw, deferred,
                   health, published, count, history>>

\* The stop signal is looked at between payloads, before a connection and in
\* the wait before the next one, never within a payload.
StopSeen ==
    /\ stopping /\ work.stage \in {"connect", "select", "backoff"}
    /\ work' = [stage |-> "ended"]
    /\ UNCHANGED <<now, backoff, stopping, cache, recent, report, rows, raw, deferred,
                   health, published, count, history>>

Deliver(items) ==
    /\ At("select") /\ count.deliveries < MaxDeliveries
    /\ count' = [count EXCEPT !.deliveries = @ + 1]
    /\ work' = [stage |-> "item", todo |-> items]
    /\ UNCHANGED <<now, backoff, stopping, cache, recent, report, rows, raw, deferred,
                   health, published, history>>

\* A connector that is pushed to hands over one payload at a time.
Receive(payload) == Mode = "push" /\ Deliver(<<payload>>)

\* A fetch returns a batch.  (One that fails is logged, and so without effect.)
Poll(batch) == Mode = "poll" /\ Deliver(batch)

Disconnect ==
    /\ At("select") /\ Mode = "push"
    /\ Fail("read")
    /\ UNCHANGED <<now, backoff, stopping, cache, recent, report, rows, raw, deferred,
                   health, published, history>>

\* The next item of the batch, up to its first await.
Item ==
    /\ At("item")
    /\ IF work.todo = <<>> THEN work' = [stage |-> "select"] /\ UNCHANGED recent
       ELSE LET p  == Head(work.todo)
                at == ObservedAt(p)
                w(stage, key, status) ==
                    [stage |-> stage, todo |-> Tail(work.todo), p |-> p, at |-> at, key |-> key,
                     eid |-> ScopedEventId(p), status |-> status, price |-> p.price,
                     fanout |-> p.ok, rate |-> None, truth |-> None, i |-> 1, inserted |-> FALSE]
            IN  IF ~p.ok
                THEN /\ work' = [w("raw", HashPayloadOnly(p, at), "error") EXCEPT
                                    !.eid = None, !.price = 0]
                     /\ UNCHANGED recent
                ELSE IF SkipsDuplicate(p, at)
                THEN work' = [work EXCEPT !.todo = Tail(@)] /\ UNCHANGED recent
                ELSE /\ work' = w("fx", DedupKey(p, at), "parsed")
                     /\ recent' = RecentAfter(p, at)
    /\ UNCHANGED <<now, backoff, stopping, cache, report, rows, raw, deferred, health,
                   published, count, history>>

-----------------------------------------------------------------------------
\* Normalisation.

\* A rate, the time of its quote and that of its use.
Rate(quoted, rate) == [quoted |-> quoted, rate |-> rate, used |-> now]

CacheHit == IF cache = None THEN FALSE ELSE now - cache.at <= FxTTL

\* The latest quote of USDT/USD in the operational table, which another
\* worker writes: one that is fresh enough, or none.
LatestUsdtQuotes == {None} \cup {t \in now - FxFreshness .. now : t >= 0}

\* Mutant: a hit makes the cached rate young again.
CachedForever == [cache EXCEPT !.at = now]

\* A hit leaves the cache as it is.
CachedRate == cache

\* Without a rate, a market against the dollar other than USDT's own takes 1.
FallbackRate(p) == p.market = "coin/USD"

\* The awaited lookup may fail, and fails the payload, unless it hit the cache.
NormaliseUsdt ==
    /\ At("fx")
    /\ LET p    == work.p
           next == [work EXCEPT !.stage = "truth"]
       IN  \/ /\ p.price = 0 \/ p.quote # "USDT"
              /\ work' = next /\ Calm /\ UNCHANGED cache
           \/ /\ p.price > 0 /\ p.quote = "USDT"
              /\ \/ /\ CacheHit
                    /\ work' = [next EXCEPT !.rate = Rate(cache.quoted, 2), !.price = @ * 2]
                    /\ cache' = CachedRate /\ Calm
                 \/ /\ ~CacheHit /\ Calm
                    /\ \E quoted \in LatestUsdtQuotes :
                        /\ work' = IF quoted # None
                                   THEN [next EXCEPT !.rate = Rate(quoted, 2), !.price = @ * 2]
                                   ELSE IF FallbackRate(p) THEN [next EXCEPT !.rate = Rate(now, 1)]
                                   ELSE [next EXCEPT !.price = 0, !.status = "partial",
                                                     !.fanout = FALSE]
                        /\ cache' = IF quoted = None THEN cache
                                    ELSE [quoted |-> quoted, at |-> now]
                 \/ ~CacheHit /\ Fail("db") /\ UNCHANGED cache
    /\ UNCHANGED <<now, backoff, stopping, recent, report, rows, raw, deferred, health,
                   published, history>>

\* Twice the median: the middle value, or the sum of the two middle ones.
TwiceMedian(sorted) ==
    LET n == Len(sorted)
    IN  IF n % 2 = 0 THEN sorted[n \div 2] + sorted[(n \div 2) + 1]
        ELSE 2 * sorted[(n \div 2) + 1]

\* Mutant: the prices are left in the order in which the sources came.
BySource(prices) == SetToSeq(DOMAIN prices)

\* The sources in the order of their prices.
ByPrice(prices) ==
    LET n == Cardinality(DOMAIN prices)
    IN  CHOOSE sources \in [1 .. n -> DOMAIN prices] :
            /\ \A s \in DOMAIN prices : \E i \in 1 .. n : sources[i] = s
            /\ \A i, j \in 1 .. n : i <= j => prices[sources[i]] <= prices[sources[j]]

\* What the query of the fresh prices of a market may answer: at most one price of
\* each source, which the other workers of the table wrote.
LatestOperationalSourcePrices == OtherPrices

\* The latest price of every source, the one in hand among them.
Truth(prices) ==
    LET sorted == [i \in DOMAIN ByPrice(prices) |-> prices[ByPrice(prices)[i]]]
    IN  [prices |-> sorted, twice |-> TwiceMedian(sorted)]

MarketTruth ==
    /\ At("truth")
    /\ \/ /\ work.p.market = None \/ work.price = 0
          /\ Goto("raw") /\ Calm
       \/ /\ work.p.market # None /\ work.price > 0
          /\ \/ \E others \in LatestOperationalSourcePrices :
                   LET prices == [s \in DOMAIN others \cup {"self"} |->
                                     IF s = "self" THEN work.price ELSE others[s]]
                   IN  work' = [work EXCEPT !.stage = "raw", !.truth = Truth(prices)]
                       /\ Calm
             \/ Fail("db")
    /\ UNCHANGED <<now, backoff, stopping, cache, recent, report, rows, raw, deferred,
                   health, published, history>>

-----------------------------------------------------------------------------
\* Persistence and publication.

\* write_source_envelope: an insertion or, of a known key, an update.
WriteSourceEnvelope(key) == raw' = raw \cup {key}

\* Mutant: a landing that timed out counts as done.
LandsRawLeniently ==
    \/ WriteSourceEnvelope(work.key) /\ Calm /\ Goto("insert")
    \/ UNCHANGED raw /\ Calm /\ Goto("insert")

\* The required landing is awaited, with a timeout: the write of one that
\* timed out may still have happened.
LandsRaw ==
    \/ HasRaw /\ WriteSourceEnvelope(work.key) /\ Calm /\ Goto("insert")
    \/ Fail("raw") /\ UNCHANGED raw
    \/ HasRaw /\ Fail("raw") /\ WriteSourceEnvelope(work.key)

StartRawLanding ==
    /\ At("raw")
    /\ \/ RawRequired /\ LandsRaw /\ UNCHANGED deferred
       \/ /\ ~RawRequired /\ Goto("insert") /\ Calm /\ UNCHANGED raw
          /\ deferred' = IF HasRaw THEN deferred \cup {work.key} ELSE deferred
    /\ UNCHANGED <<now, backoff, stopping, cache, recent, report, rows, health, published,
                   history>>

\* The background task of a deferred landing: written, or given up.
FinishDeferred(key) ==
    /\ key \in deferred
    /\ deferred' = deferred \ {key}
    /\ \/ WriteSourceEnvelope(key) /\ Calm
       \/ UNCHANGED raw /\ Disturbed(1)
    /\ UNCHANGED <<now, work, backoff, stopping, cache, recent, report, rows, health,
                   published, history>>

\* The unique indexes of the table: one row per key, one per event id.
Conflicts(w) == \E r \in rows : r.key = w.key \/ (w.eid # None /\ r.eid = w.eid)

RowOf(w, tenant) ==
    [key |-> w.key, eid |-> w.eid, tenant |-> tenant, status |-> w.status,
     etype |-> w.p.etype, made |-> now]

\* insert_ingest_operational_event: the row, unless an index has it already.
Insert(tenant) ==
    /\ rows' = IF Conflicts(work) THEN rows ELSE rows \cup {RowOf(work, tenant)}
    /\ history' = IF Conflicts(work) THEN history ELSE [history EXCEPT !.stored = @ \cup {work.key}]

\* Mutant: a conflict is taken for an insertion.
InsertedAnyway(w) == TRUE

\* Whether this insertion, or one for a tenant before, brought a new row.
Inserted(w) == w.inserted \/ ~Conflicts(w)

\* What follows the insertions: nothing for an event that was there already,
\* the bus for a parsed one, the health report for the others.
AfterInsert(w) ==
    IF w.status = "error" THEN [w EXCEPT !.stage = "health"]
    ELSE IF ~w.inserted THEN [stage |-> "item", todo |-> w.todo]
    ELSE IF w.fanout /\ Targets # <<>> THEN [w EXCEPT !.stage = "publish", !.i = 1]
    ELSE [w EXCEPT !.stage = "health"]

\* Mutant: the error is logged and the event goes on.
InsertErrorLogged == Disturbed(1) /\ work' = AfterInsert([work EXCEPT !.inserted = TRUE])

InsertError == Fail("db")

\* One row per target, or a single one without fan-out.  A failure leaves the
\* rows inserted so far.
InsertRow ==
    /\ At("insert")
    /\ LET many   == Len(Targets) > 1
           tenant == IF Targets = <<>> THEN None ELSE Targets[work.i]
           w      == [work EXCEPT !.inserted = Inserted(work), !.i = @ + 1]
       IN  \/ /\ Insert(tenant) /\ Calm
              /\ work' = IF many /\ work.i < Len(Targets) THEN w ELSE AfterInsert(w)
           \/ /\ InsertError /\ UNCHANGED rows
              /\ history' = IF work.inserted /\ work.fanout
                            THEN [history EXCEPT !.lost = @ \cup {work.key}] ELSE history
    /\ UNCHANGED <<now, backoff, stopping, cache, recent, report, raw, deferred, health,
                   published>>

\* Mutant: the loop over the targets ends with its first event.
PublishedAll(w) == TRUE

\* Whether the event in hand is the one of the last target.
LastTarget(w) == w.i = Len(Targets)

\* fanout_unified_events: one event per target, in order.
Publish ==
    /\ At("publish")
    /\ LET x == <<Targets[work.i], work.key>>
       IN  \/ /\ published' = published \cup {x}
              /\ history' = IF x \in published THEN [history EXCEPT !.again = @ \cup {x}] ELSE history
              /\ work' = IF LastTarget(work) THEN [work EXCEPT !.stage = "health"]
                         ELSE [work EXCEPT !.i = @ + 1]
              /\ Calm
           \/ /\ Fail("bus") /\ UNCHANGED published
              /\ history' = [history EXCEPT !.lost = @ \cup {work.key}]
    /\ UNCHANGED <<now, backoff, stopping, cache, recent, report, rows, raw, deferred, health>>

-----------------------------------------------------------------------------
\* Source health: only of live streams, and not again within the interval.

SkipsHealth == ~Live \/ Targets = <<>>

ReportsSuccess ==
    \/ report.healthy # TRUE
    \/ report.success = None \/ now - report.success >= HealthInterval

ReportsFailure(message) ==
    \/ report.healthy # FALSE \/ report.message # message
    \/ report.failure = None \/ now - report.failure >= HealthInterval

\* One write per tenant; those of `failed` are logged and not tried again.
TellHealth(healthy, failed) ==
    /\ Disturbed(Cardinality(failed))
    /\ health' = [t \in Tenants |-> IF t \in failed THEN health[t] ELSE healthy]
    /\ history' = [history EXCEPT !.unsaid = failed]

\* Mutant: the success does not say that it is the last thing reported.
SuccessReportOld == [report EXCEPT !.success = now, !.failure = None, !.message = None]

SuccessReport == [healthy |-> TRUE, success |-> now, failure |-> None, message |-> None]

ReportSuccess ==
    /\ At("health")
    /\ IF SkipsHealth \/ ~ReportsSuccess THEN Calm /\ UNCHANGED <<report, health, history>>
       ELSE /\ \E failed \in SUBSET Tenants : TellHealth(TRUE, failed)
            /\ report' = SuccessReport
    /\ work' = [stage |-> "item", todo |-> work.todo]
    /\ UNCHANGED <<now, backoff, stopping, cache, recent, rows, raw, deferred, published>>

\* The end of a connection: reported, and final when the configuration is at fault.
ReportFailure ==
    /\ At("fail")
    /\ IF stopping
       THEN work' = [stage |-> "ended"] /\ Calm /\ UNCHANGED <<report, health, history>>
       ELSE /\ IF SkipsHealth \/ ~ReportsFailure(work.message)
               THEN Calm /\ UNCHANGED <<report, health, history>>
               ELSE /\ \E failed \in SUBSET Tenants : TellHealth(FALSE, failed)
                    /\ report' = [report EXCEPT !.healthy = FALSE, !.failure = now,
                                                !.message = work.message]
            /\ work' = [stage |-> IF work.message = "static" THEN "ended" ELSE "backoff"]
    /\ UNCHANGED <<now, backoff, stopping, cache, recent, rows, raw, deferred, published>>

\* The wait doubles with every end of a connection, up to its bound, and never
\* starts over, however long a connection lasted.
Backoff ==
    /\ At("backoff")
    /\ work' = [stage |-> "connect"]
    /\ backoff' = IF backoff < MaxBackoff THEN backoff + 1 ELSE backoff
    /\ UNCHANGED <<now, stopping, cache, recent, report, rows, raw, deferred, health,
                   published, count, history>>

-----------------------------------------------------------------------------
\* The surroundings: the supervisor, its purge, time.

Stop ==
    /\ ~stopping /\ stopping' = TRUE
    /\ UNCHANGED <<now, work, backoff, cache, recent, report, rows, raw, deferred, health,
                   published, count, history>>

\* purge_old_tick_events: quotes and trades made before the retention.
Purge ==
    LET old == {r \in rows : r.etype \in {"quote", "trade"} /\ r.made < now - Retention}
    IN  /\ old # {}
        /\ rows' = rows \ old
        /\ history' = [history EXCEPT !.purged = @ \cup {r.key : r \in old}]
        /\ UNCHANGED <<now, work, backoff, stopping, cache, recent, report, raw, deferred,
                       health, published, count>>

Tick ==
    /\ now < MaxTime /\ now' = now + 1
    /\ UNCHANGED <<work, backoff, stopping, cache, recent, report, rows, raw, deferred,
                   health, published, count, history>>

\* A call returns, some time: an awaited connection or request has no timeout
\* of its own, so this is an assumption on the provider and the databases.
Step ==
    \/ Connect \/ StaticError \/ Item \/ NormaliseUsdt \/ MarketTruth \/ StartRawLanding
    \/ InsertRow \/ Publish \/ ReportSuccess \/ ReportFailure \/ Backoff

Next ==
    /\ \/ Step \/ StopSeen \/ Disconnect
       \/ \E payload \in Feed : Receive(payload) \/ Poll(payload)
       \/ \E key \in deferred : FinishDeferred(key)
       \/ Stop \/ Purge \/ Tick
    /\ UNCHANGED settings

Spec == Init /\ [][Next]_vars

FairSpec == Spec /\ WF_vars(Step /\ UNCHANGED settings) /\ WF_vars(StopSeen /\ UNCHANGED settings)

-----------------------------------------------------------------------------
\* Whatever is on the bus was stored first, by this worker or one before it:
\* the fan-out of process_payload follows its insertions.
PublishedIsStored == \A x \in published : x[2] \in history.stored

\* No tenant is told of an event twice, however often the provider delivers
\* it or a failure makes the worker start over, while its row is kept: only
\* the purge makes the table forget (build_dedup_key, the unique indexes).
NoDoublePublish == \A x \in history.again : x[2] \in history.purged

\* An event whose row is there is on the bus for every target, or its own
\* processing is still under way or failed on the way there: nothing else
\* keeps a tenant from it (process_payload, fanout_unified_events).
StoredIsPublished ==
    \A r \in rows :
        \/ r.status # "parsed"
        \/ \A t \in Tenants : <<t, r.key>> \in published
        \/ r.key \in history.lost
        \/ work.stage \in {"insert", "publish"} /\ work.key = r.key

\* With RAW_LANDING_REQUIRED no operational row is without its raw record,
\* timeouts of the raw database included.
RawBeforeRow == RawRequired => \A r \in rows : r.key \in raw

\* The rate of a normalised price was quoted no longer ago than the freshness
\* of the lookup and the life of the cache together (lookup_usdt_usd_rate).
RateIsFresh ==
    work.stage \in {"truth", "raw", "insert", "publish"} /\ work.rate # None =>
        work.rate.used - work.rate.quoted <= FxFreshness + FxTTL

\* The median has at most half of the prices below and at most half above it
\* (compute_median).
MedianIsCentral ==
    work.stage = "raw" /\ work.truth # None =>
        LET n     == Len(work.truth.prices)
            below == {i \in 1 .. n : 2 * work.truth.prices[i] < work.truth.twice}
            above == {i \in 1 .. n : 2 * work.truth.prices[i] > work.truth.twice}
        IN  2 * Cardinality(below) <= n /\ 2 * Cardinality(above) <= n

\* What a tenant sees of the source is what the worker last reported, except
\* for the writes that failed (report_source_health_success and _failure).
HealthIsLastReport ==
    Live /\ report.healthy # None => \A t \in Tenants \ history.unsaid : health[t] = report.healthy

\* A worker told to stop ends, whatever it was doing.
Ended == work.stage = "ended"
StopEnds == stopping ~> Ended
=============================================================================
