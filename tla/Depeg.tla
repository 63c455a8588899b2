-------------------------------- MODULE Depeg --------------------------------
(***************************************************************************)
(* The depeg pattern of the detector, apps/detector/src/patterns/depeg.rs, *)
(* for one tenant: quotes of several sources arrive in any order of their  *)
(* timestamps, each is remembered in a bounded per-source history, the     *)
(* weighted median of the fresh quotes is compared with the peg, and the   *)
(* incident row of the market is moved, saved, and announced.              *)
(*                                                                         *)
(* Prices, weights, bands and times are integers: divergences are in the   *)
(* unit of the price, so the rounding to six decimals has nothing to do.   *)
(* The fields of the row that no decision reads (last_alerted_at,          *)
(* last_divergence_pct, last_classification) are left out, as is the text  *)
(* of the detection.                                                       *)
(***************************************************************************)
EXTENDS Integers, Sequences, FiniteSets, FiniteSetsExt

CONSTANTS
    Detectors,    \* processes of the consumer group detector-workers
    Markets,      \* market keys
    UsdMarkets,   \* those that end in "/USD"
    Scopes,       \* replay scopes
    LiveScope,    \* the scope "__live__" of events of no simulation run
    Sources,      \* source ids
    Kind,         \* source_kind of each source
    Feed,         \* market, source and price of the quotes there may be
    Configs,      \* names of configurations that may be in the database
    Settings,     \* what each of them says
    MaxHistory,   \* MAX_QUOTE_HISTORY_PER_SOURCE
    CacheTTL,     \* DEPEG_QUOTE_CACHE_TTL_MINUTES
    MaxKeys,      \* DEPEG_QUOTE_CACHE_MAX_KEYS
    MaxTime,      \* bound: event timestamps
    MaxBelow,     \* bound: evaluations counted below the incident's severity
    MaxFaults     \* bound: failed calls, crashes and clean-ups of a row

Keys  == Markets \X Scopes
Times == 0 .. MaxTime
Prices == {e[3] : e \in Feed}
None  == -1                       \* an absent timestamp or price

\* Severity is its rank: critical 5, high 4, medium 3, none 0.
Ranks == {0, 3, 4, 5}

Bands == [medium : Nat, high : Nat, critical : Nat]

Override == [weight : Int, enabled : BOOLEAN, stale : Int]

\* What validate accepts; override counts for the sources in overridden only.
Policy ==
    [peg : Nat \ {0}, minSources : Nat \ {0}, minHealthy : Nat, quorumPct : 0 .. 100,
     cooldown : Nat, stale : Nat \ {0}, isolated : Bands, systemic : Bands,
     isolatedFloor : Nat \ {0}, systemicFloor : Nat \ {0},
     deescalation : Nat \ {0}, resolution : Nat \ {0},
     whitelist : SUBSET Sources, oracles : BOOLEAN, aggregators : BOOLEAN,
     oracleConfirmation : BOOLEAN, volumeConfirmation : BOOLEAN, contagion : BOOLEAN,
     agreementWeight : Nat, oracleWeight : Nat, volumeWeight : Nat,
     minConfidence : 0 .. 100, overridden : SUBSET Sources, override : [Sources -> Override]]

\* markets: those with a policy.  bound: the sources that the tenant's bindings
\* enable.  No bindings and an empty set of them both let every source pass.
Config == [markets : SUBSET Markets, policies : [Markets -> Policy], bound : SUBSET Sources]

ASSUME DepegAssumption ==
    /\ IsFiniteSet(Detectors) /\ Detectors # {}
    /\ IsFiniteSet(Markets) /\ IsFiniteSet(Scopes) /\ IsFiniteSet(Sources)
    /\ UsdMarkets \subseteq Markets /\ LiveScope \in Scopes
    /\ Kind \in [Sources -> {"oracle", "aggregator", "dex", "cex", "other"}]
    /\ Feed \subseteq Markets \X Sources \X (Nat \ {0})
    /\ Configs # {}
    /\ Settings \in [Configs -> Config]
    /\ MaxHistory \in Nat \ {0} /\ MaxKeys \in Nat \ {0}
    /\ CacheTTL \in Nat /\ MaxTime \in Nat /\ MaxBelow \in Nat /\ MaxFaults \in Nat

VARIABLES
    config,    \* config[d]: the name of the configuration in force
    cache,     \* cache[d][k][s]: quotes of source s, sorted by observed_at
    rows,      \* rows[k]: the persisted alert state of a market and scope
    work,      \* work[d]: the outcome being persisted and announced
    faults,    \* failed calls, crashes and clean-ups so far
    announced, \* the newest detection published of each key, sev 0 before the first
    last,      \* history: the newest alert raised of each key, likewise
    intact,    \* history: has nothing failed or been cleared since it was raised?
    streak,    \* history: latest evaluations in a row that saw less than its severity
    lulled,    \* history: was there ever a long enough streak since it was raised?
    newest     \* history: the quote with the highest timestamp each source sent

vars == <<config, cache, rows, work, faults, announced, last, intact, streak, lulled, newest>>

-----------------------------------------------------------------------------
(* The policy. *)

\* DEX pool prices never enter the consensus, nor do kinds nobody knows.
SourceKindAllowed(pol, s) ==
    CASE Kind[s] = "oracle"     -> pol.oracles
      [] Kind[s] = "aggregator" -> pol.aggregators
      [] Kind[s] = "cex"        -> pol.whitelist = {} \/ s \in pol.whitelist
      [] OTHER                  -> FALSE

SourceEnabled(pol, s) ==
    /\ SourceKindAllowed(pol, s)
    /\ s \in pol.overridden => pol.override[s].enabled

SourceWeight(pol, s) ==
    IF s \in pol.overridden THEN Max({0, pol.override[s].weight}) ELSE 1

\* An override without a timeout (None) leaves the policy's.
SourceStaleTimeout(pol, s) ==
    IF s \in pol.overridden /\ pol.override[s].stale # None
    THEN Max({1, pol.override[s].stale})
    ELSE pol.stale

EnabledSourceCount(pol) ==
    LET n == Cardinality({s \in pol.overridden : pol.override[s].enabled})
    IN  IF n = 0 THEN pol.minSources ELSE n

-----------------------------------------------------------------------------
(* Quotes. *)

Quote    == [at : Times, price : Prices]
NoQuote  == [at |-> None, price |-> None]
NoQuotes == [s \in Sources |-> <<>>]

\* Mutant: the newest quotes are dropped, not the oldest.
RememberOldest(history, q) ==
    LET n     == Cardinality({i \in DOMAIN history : history[i].at <= q.at})
        grown == SubSeq(history, 1, n) \o <<q>> \o SubSeq(history, n + 1, Len(history))
    IN  SubSeq(grown, 1, Min({MaxHistory, Len(grown)}))

\* Push, stable sort by time, dedup of equal neighbours, drop the oldest.
RememberQuote(history, q) ==
    LET n     == Cardinality({i \in DOMAIN history : history[i].at <= q.at})
        grown == IF n > 0 /\ history[n] = q
                 THEN history
                 ELSE SubSeq(history, 1, n) \o <<q>> \o SubSeq(history, n + 1, Len(history))
        drop  == Max({0, Len(grown) - MaxHistory})
    IN  SubSeq(grown, drop + 1, Len(grown))

\* The latest quote of each source that existed at time t.
LatestQuotesForTime(quotes, t) ==
    [s \in Sources |->
        LET past == {i \in DOMAIN quotes[s] : quotes[s][i].at <= t}
        IN  IF past = {} THEN NoQuote ELSE quotes[s][Max(past)]]

Cached(c) == {k \in Keys : c[k] # NoQuotes}

LatestQuoteTimestamp(quotes) ==
    Max({quotes[s][Len(quotes[s])].at : s \in {r \in Sources : quotes[r] # <<>>}})

Forget(c, K) == [k \in Keys |-> IF k \in K THEN NoQuotes ELSE c[k]]

\* A simulated event evicts the market's quotes of other simulation runs.
EndOtherRuns(c, k) ==
    IF k[2] = LiveScope THEN c
    ELSE Forget(c, {j \in Keys : j[1] = k[1] /\ j[2] \notin {k[2], LiveScope}})

\* The caches prune_quote_cache may leave: the expired keys go, then the
\* oldest ones over the limit, in any order among equals; never k itself.
PruneQuoteCache(c, k, t) ==
    LET stamp(j) == LatestQuoteTimestamp(c[j])
        kept     == {j \in Cached(c) : j = k \/ stamp(j) >= t - CacheTTL}
        excess   == Max({0, Cardinality(kept) - MaxKeys})
        victims  == {V \in SUBSET (kept \ {k}) :
                        /\ Cardinality(V) = Min({excess, Cardinality(kept \ {k})})
                        /\ \A v \in V, j \in kept \ (V \cup {k}) : stamp(v) <= stamp(j)}
    IN  {Forget(c, Cached(c) \ (kept \ V)) : V \in victims}

-----------------------------------------------------------------------------
(* The consensus. *)

Eligible(pol, quotes, t) ==
    {s \in Sources : /\ SourceEnabled(pol, s)
                     /\ quotes[s] # NoQuote
                     /\ t - quotes[s].at <= SourceStaleTimeout(pol, s)
                     /\ SourceWeight(pol, s) > 0}

Weight(pol, S) == MapThenSumSet(LAMBDA s : SourceWeight(pol, s), S)

\* The least price that, with the lower ones, has half of the weight.
WeightedMedian(pol, quotes, S) ==
    LET upTo(p) == Weight(pol, {s \in S : quotes[s].price <= p})
    IN  Min({p \in {quotes[s].price : s \in S} : 2 * upTo(p) >= Weight(pol, S)})

Divergence(pol, price) == IF price >= pol.peg THEN price - pol.peg ELSE pol.peg - price

\* f64::signum: a difference of zero counts as positive.
Above(pol, price) == price >= pol.peg

SeverityForDivergence(div, bands) ==
    IF div >= bands.critical THEN 5
    ELSE IF div >= bands.high THEN 4
    ELSE IF div >= bands.medium THEN 3
    ELSE 0

\* Markets of the tenant that diverge together make the context systemic.
AssessContext(pol, cfg, c, scope, t) ==
    LET quotes(m) == LatestQuotesForTime(c[<<m, scope>>], t)
        fresh(m)  == Eligible(cfg.policies[m], quotes(m), t)
        diverges(m) ==
            /\ fresh(m) # {}
            /\ Divergence(cfg.policies[m], WeightedMedian(cfg.policies[m], quotes(m), fresh(m)))
                   >= cfg.policies[m].systemicFloor
    IN  /\ pol.contagion
        /\ Cardinality({m \in cfg.markets \cap UsdMarkets : diverges(m)}) >= 2

OraclesOf(S) == {s \in S : Kind[s] = "oracle"}

OracleConfirmationMet(pol, quotes, S, floor) ==
    \E s \in OraclesOf(S) : Divergence(pol, quotes[s].price) >= floor

\* Is the confidence, a weighted mean of three scores of 0 to 100, enough?
ConfidenceMet(pol, quotes, S, median, confirmed) ==
    LET agree  == Cardinality({s \in S : Above(pol, quotes[s].price) = Above(pol, median)})
        n      == Cardinality(S)
        oracle == IF pol.oracleConfirmation THEN pol.oracleWeight ELSE 0
        volume == IF pol.volumeConfirmation THEN pol.volumeWeight ELSE 0
        total  == pol.agreementWeight + oracle + volume
        scores == 100 * agree * pol.agreementWeight
                  + n * (IF confirmed THEN 100 ELSE 0) * oracle
                  + n * 50 * volume
    IN  IF total = 0 THEN pol.minConfidence = 0 ELSE scores >= pol.minConfidence * n * total

QuorumMet(pol, S) ==
    /\ Cardinality(S) >= Max({pol.minHealthy, pol.minSources, 1})
    /\ 100 * Cardinality(S) >= pol.quorumPct * Max({1, EnabledSourceCount(pol)})

\* What an evaluation sees.  div and oracleDiv are the divergences of the
\* median and of the farthest oracle, None when there is no such quote.
Snapshot(pol, quotes, t, systemic) ==
    LET S         == Eligible(pol, quotes, t)
        floor     == IF systemic THEN pol.systemicFloor ELSE pol.isolatedFloor
        median    == WeightedMedian(pol, quotes, S)
        div       == Divergence(pol, median)
        rank      == SeverityForDivergence(div, IF systemic THEN pol.systemic ELSE pol.isolated)
        confirmed == OracleConfirmationMet(pol, quotes, S, floor)
        breach    == /\ QuorumMet(pol, S)
                     /\ div >= floor /\ rank > 0
                     /\ pol.oracleConfirmation => confirmed
                     /\ ConfidenceMet(pol, quotes, S, median, confirmed)
    IN  IF S = {}
        THEN [fresh |-> FALSE, breach |-> FALSE, rank |-> 0, floor |-> floor,
              div |-> None, oracleDiv |-> None]
        ELSE [fresh |-> TRUE, breach |-> breach, rank |-> rank, floor |-> floor, div |-> div,
              oracleDiv |-> Max({None} \cup {Divergence(pol, quotes[s].price) : s \in OraclesOf(S)})]

-----------------------------------------------------------------------------
(* The incident of a market. *)

Row == [sev : Ranks, cooldownUntil : Int, floor : Nat, belowSeverity : Nat,
        belowTrigger : Nat, highWater : {None} \cup Times]

\* floor 0 stands for no trigger_floor_pct: a policy's floors are positive.
FreshRow == [sev |-> 0, cooldownUntil |-> None, floor |-> 0, belowSeverity |-> 0,
             belowTrigger |-> 0, highWater |-> None]

Cooling(row, t) == row.cooldownUntil > t

\* A transition of the incident starts a cooldown and both counts anew.
Move(row, sev, floor, until) ==
    [row EXCEPT !.sev = sev, !.floor = floor, !.cooldownUntil = until,
                !.belowTrigger = 0, !.belowSeverity = 0]

\* No transition: only the counts change.
Count(row, trigger, severity) ==
    [row EXCEPT !.belowTrigger = trigger, !.belowSeverity = severity]

Trigger(pol, row, snap, t) == Move(row, snap.rank, snap.floor, t + pol.cooldown)

Escalate(pol, row, snap, t) ==
    Move(row, snap.rank, IF row.floor = 0 THEN snap.floor ELSE row.floor, t + pol.cooldown)

\* Neither this nor a resolution is announced.
Deescalate(pol, row, snap, t) == Move(row, snap.rank, row.floor, t + pol.cooldown)

Resolve(pol, row, t) == Move(row, 0, 0, t + pol.cooldown)

DeescalationDue(pol, row, t) ==
    row.belowSeverity + 1 >= pol.deescalation /\ ~Cooling(row, t)

ResolutionReady(row, snap) ==
    LET floor == IF row.floor = 0 THEN snap.floor ELSE row.floor
    IN  snap.div < floor /\ snap.oracleDiv < floor

Alerts(row, snap, t) == snap.breach /\ snap.rank > row.sev /\ ~Cooling(row, t)

\* Mutant: the severity is raised before the cooldown is looked at.
RaiseAnyway(pol, row, snap, t) ==
    IF Cooling(row, t) THEN [row EXCEPT !.sev = snap.rank] ELSE Escalate(pol, row, snap, t)

\* A breach worse than the incident: alert, unless it is too soon.
Raise(pol, row, snap, t) ==
    IF Cooling(row, t)
    THEN Count(row, 0, IF row.sev = 0 THEN row.belowSeverity ELSE 0)
    ELSE IF row.sev = 0 THEN Trigger(pol, row, snap, t) ELSE Escalate(pol, row, snap, t)

\* A breach less severe than the incident.
Lower(pol, row, snap, t) ==
    IF DeescalationDue(pol, row, t) THEN Deescalate(pol, row, snap, t)
    ELSE Count(row, 0, row.belowSeverity + 1)

BreachRow(pol, row, snap, t) ==
    IF snap.rank > row.sev THEN Raise(pol, row, snap, t)
    ELSE IF snap.rank < row.sev THEN Lower(pol, row, snap, t)
    ELSE Count(row, 0, 0)

\* Mutant: one evaluation without a breach ends the incident.
QuietRowEnds(pol, row, snap, t) ==
    IF row.sev # 0 /\ ResolutionReady(row, snap) THEN Resolve(pol, row, t)
    ELSE Count(row, 0, 0)

\* No breach: an active incident counts towards its resolution or starts over.
QuietRow(pol, row, snap, t) ==
    IF row.sev = 0 THEN Count(row, row.belowTrigger, 0)
    ELSE IF ~ResolutionReady(row, snap) THEN Count(row, 0, 0)
    ELSE IF row.belowTrigger + 1 >= pol.resolution THEN Resolve(pol, row, t)
    ELSE Count(row, row.belowTrigger + 1, 0)

\* Without a single fresh quote the row starts from nothing.
NextRow(pol, row, snap, t) ==
    LET next == IF ~snap.fresh THEN FreshRow
                ELSE IF snap.breach THEN BreachRow(pol, row, snap, t)
                ELSE QuietRow(pol, row, snap, t)
    IN  [next EXCEPT !.highWater = t]

\* Mutant: events are taken in whatever order they come.
NeverLate(row, t) == FALSE

LateDelivery(row, t) == t < row.highWater

-----------------------------------------------------------------------------
(* The detector: one event at a time, a step for every await that matters. *)

Idle == [stage |-> "idle"]

Alert   == [at : {None} \cup Times, sev : Ranks]
NoAlert == [at |-> None, sev |-> 0]

Outcome == [stage : {"save", "publish"}, key : Keys, at : Times, next : Row,
            fresh : BOOLEAN, alert : BOOLEAN, seen : Ranks]

TypeOK ==
    /\ config \in [Detectors -> Configs]
    /\ cache \in [Detectors -> [Keys -> [Sources -> Seq(Quote)]]]
    /\ rows \in [Keys -> Row]
    /\ work \in [Detectors -> {Idle} \cup Outcome]
    /\ faults \in 0 .. MaxFaults
    /\ announced \in [Keys -> Alert]
    /\ last \in [Keys -> Alert]
    /\ intact \in [Keys -> BOOLEAN]
    /\ streak \in [Keys -> Nat]
    /\ lulled \in [Keys -> BOOLEAN]
    /\ newest \in [Detectors -> [Keys -> [Sources -> Quote \cup {NoQuote}]]]

Init ==
    /\ config \in [Detectors -> Configs]
    /\ cache = [d \in Detectors |-> [k \in Keys |-> NoQuotes]]
    /\ rows = [k \in Keys |-> FreshRow]
    /\ work = [d \in Detectors |-> Idle]
    /\ faults = 0
    /\ announced = [k \in Keys |-> NoAlert]
    /\ last = [k \in Keys |-> NoAlert]
    /\ intact = [k \in Keys |-> FALSE]
    /\ streak = [k \in Keys |-> 0]
    /\ lulled = [k \in Keys |-> FALSE]
    /\ newest = [d \in Detectors |-> [k \in Keys |-> [s \in Sources |-> NoQuote]]]

Disturbed == faults < MaxFaults /\ faults' = faults + 1

\* A call that succeeds, or fails.
Succeeds(ok) == IF ok THEN UNCHANGED faults ELSE Disturbed

\* The sources the tenant bound to the pattern; an empty set binds none.
Bound(cfg, s) == cfg.bound = {} \/ s \in cfg.bound

\* The caches a quote may lead to: other runs evicted, the quote remembered,
\* the rest pruned.
CachesAfter(c, k, s, q) ==
    LET ended == EndOtherRuns(c, k)
    IN  PruneQuoteCache([ended EXCEPT ![k][s] = RememberQuote(@, q)], k, q.at)

CacheQuote(d, k, s, q, c) ==
    /\ cache' = [cache EXCEPT ![d] = c]
    /\ newest' = [newest EXCEPT ![d] =
          [j \in Keys |-> [r \in Sources |->
              IF c[j] = NoQuotes THEN NoQuote
              ELSE IF <<j, r>> = <<k, s>> /\ q.at >= @[j][r].at THEN q
              ELSE @[j][r]]]]

\* What the persisted row, the cache and the policy make of an event at t.
Evaluate(cfg, c, k, row, t) ==
    LET pol  == cfg.policies[k[1]]
        snap == Snapshot(pol, LatestQuotesForTime(c[k], t), t,
                         AssessContext(pol, cfg, c, k[2], t))
    IN  [stage |-> "save", key |-> k, at |-> t, next |-> NextRow(pol, row, snap, t),
         fresh |-> snap.fresh, alert |-> Alerts(row, snap, t),
         seen |-> IF snap.breach THEN snap.rank ELSE 0]

\* Events of other sources and markets are ignored.
Accepts(d, k, s) ==
    /\ work[d] = Idle
    /\ Bound(Settings[config[d]], s)
    /\ k[1] \in Settings[config[d]].markets

\* A usable price event: the quote is cached and the persisted row loaded
\* and evaluated.  An event below the high-water mark moves nothing else.
ProcessEvent(d, k, s, q) ==
    /\ Accepts(d, k, s)
    /\ \E c \in CachesAfter(cache[d], k, s, q) :
          /\ CacheQuote(d, k, s, q, c)
          /\ IF LateDelivery(rows[k], q.at) THEN UNCHANGED work
             ELSE LET out == Evaluate(Settings[config[d]], c, k, rows[k], q.at)
                  IN  /\ out.next.belowSeverity <= MaxBelow
                      /\ work' = [work EXCEPT ![d] = out]
    /\ UNCHANGED <<config, rows, faults, announced, last, intact, streak, lulled>>

\* The quote is cached, the row cannot be loaded: the event is skipped.
LoadFails(d, k, s, q) ==
    /\ Disturbed
    /\ Accepts(d, k, s)
    /\ \E c \in CachesAfter(cache[d], k, s, q) : CacheQuote(d, k, s, q, c)
    /\ UNCHANGED <<config, rows, work, announced, last, intact, streak, lulled>>

Newest(w) == [at |-> w.at, sev |-> w.seen]

\* A streak that may end an incident, or lower it, under some configuration.
LongEnough(m, n) ==
    \E c \in Configs :
        /\ m \in Settings[c].markets
        /\ \/ n >= Settings[c].policies[m].deescalation
           \/ n >= Settings[c].policies[m].resolution

\* What the histories record of an evaluation, saved or not.
Record(w, saved) ==
    LET k   == w.key
        run == IF w.seen >= last[k].sev THEN 0
               ELSE IF streak[k] < MaxBelow THEN streak[k] + 1 ELSE streak[k]
    IN  /\ last' = IF w.alert THEN [last EXCEPT ![k] = Newest(w)] ELSE last
        /\ intact' = [intact EXCEPT ![k] = saved /\ w.fresh /\ (w.alert \/ @)]
        /\ streak' = [streak EXCEPT ![k] = IF w.alert THEN 0 ELSE run]
        /\ lulled' = [lulled EXCEPT ![k] = ~w.alert /\ (@ \/ LongEnough(k[1], run))]

\* The row is saved; a failure to do so is ignored.
Save(d) ==
    LET w == work[d]
    IN  /\ w.stage = "save"
        /\ \E saved \in BOOLEAN :
              /\ Succeeds(saved)
              /\ rows' = IF saved THEN [rows EXCEPT ![w.key] = w.next] ELSE rows
              /\ Record(w, saved)
        /\ work' = [work EXCEPT ![d] = IF w.alert THEN [w EXCEPT !.stage = "publish"] ELSE Idle]
        /\ UNCHANGED <<config, cache, announced, newest>>

\* The registry publishes the detection; a failure is logged.
Publish(d) ==
    LET w == work[d]
    IN  /\ w.stage = "publish"
        /\ \E sent \in BOOLEAN :
              /\ Succeeds(sent)
              /\ announced' = IF sent THEN [announced EXCEPT ![w.key] = Newest(w)] ELSE announced
              /\ intact' = [intact EXCEPT ![w.key] = @ /\ sent]
        /\ work' = [work EXCEPT ![d] = Idle]
        /\ UNCHANGED <<config, cache, rows, last, streak, lulled, newest>>

\* Configurations are replaced as a whole, between two batches.
ReloadConfig(d, cfg) ==
    /\ work[d] = Idle
    /\ config[d] # cfg
    /\ config' = [config EXCEPT ![d] = cfg]
    /\ UNCHANGED <<cache, rows, work, faults, announced, last, intact, streak, lulled, newest>>

\* An operator clears the row, as the comment above the load allows for.
CleanUp(k) ==
    /\ Disturbed
    /\ rows' = [rows EXCEPT ![k] = FreshRow]
    /\ intact' = [intact EXCEPT ![k] = FALSE]
    /\ UNCHANGED <<config, cache, work, announced, last, streak, lulled, newest>>

\* The cache is lost, the event in hand is never delivered again.
Crash(d) ==
    /\ Disturbed
    /\ cache' = [cache EXCEPT ![d] = [k \in Keys |-> NoQuotes]]
    /\ newest' = [newest EXCEPT ![d] = [k \in Keys |-> [s \in Sources |-> NoQuote]]]
    /\ work' = [work EXCEPT ![d] = Idle]
    /\ intact' = [k \in Keys |->
                    intact[k] /\ ~(work[d].stage = "publish" /\ work[d].key = k)]
    /\ UNCHANGED <<config, rows, announced, last, streak, lulled>>

Next ==
    \E d \in Detectors :
        \/ \E e \in Feed, scope \in Scopes, t \in Times :
              LET k == <<e[1], scope>>
                  q == [at |-> t, price |-> e[3]]
              IN  ProcessEvent(d, k, e[2], q) \/ LoadFails(d, k, e[2], q)
        \/ Save(d)
        \/ Publish(d)
        \/ \E cfg \in Configs : ReloadConfig(d, cfg)
        \/ \E k \in Keys : CleanUp(k)
        \/ Crash(d)

Spec == Init /\ [][Next]_vars

-----------------------------------------------------------------------------
(* Properties. *)

\* The alert a detector is about to raise.
Pending(d, k) == work[d].stage = "save" /\ work[d].key = k /\ work[d].alert

\* While nothing failed and nothing was cleared, two alerts of a market are a
\* cooldown apart in event time: neither a late quote nor a resolution can
\* bring cooldown_until forward.
AlertsSpaced ==
    \A d \in Detectors, k \in Keys :
        Pending(d, k) /\ intact[k] =>
            \E c \in Configs :
                /\ k[1] \in Settings[c].markets
                /\ work[d].at >= last[k].at + Settings[c].policies[k[1]].cooldown

\* An alert that is no worse than the one before it follows a lull: enough
\* evaluations in a row, between the two, that saw less than that severity.
NoFlapping ==
    \A d \in Detectors, k \in Keys :
        Pending(d, k) /\ intact[k] => work[d].seen > last[k].sev \/ lulled[k]

\* Subscribers were told of a severity at least as high as the incident's:
\* the row is never raised without a detection.
SeverityAnnounced ==
    \A k \in Keys :
        intact[k] /\ (\A d \in Detectors : work[d].stage = "idle")
            => rows[k].sev <= announced[k].sev

\* Whatever order the quotes of a source arrive in, and however many, an
\* evaluation at its newest timestamp or later sees its newest quote.
NewestQuoteUsed ==
    \A d \in Detectors, k \in Keys, s \in Sources, t \in Times :
        t >= newest[d][k][s].at =>
            LatestQuotesForTime(cache[d][k], t)[s] = newest[d][k][s]
=============================================================================
