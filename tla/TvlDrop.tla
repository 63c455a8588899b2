------------------------------ MODULE TvlDrop ------------------------------
(***************************************************************************)
(* The TVL drop pattern of the detector, patterns/tvl_drop.rs, for one     *)
(* tenant: TVL samples and pause events of several protocols arrive in any *)
(* order of their timestamps; every rule that matches one loads its row,   *)
(* measures the drop over its windows, asks the cache whether another      *)
(* protocol drops too, moves its incident and saves the row; one detection *)
(* of the event is published.                                              *)
(*                                                                         *)
(* Amounts, percentages and minutes are integers.  last_pause_state, the   *)
(* drain rate and the text of a detection are read by no decision and left *)
(* out; the times of the incident itself never exceed the newest sample.   *)
(***************************************************************************)
EXTENDS Integers, Sequences, FiniteSets, FiniteSetsExt

CONSTANTS
    Detectors,     \* processes of the consumer group detector-workers
    NoMarket,      \* an event, or a rule, without a market
    Feed,          \* what the samples and pause events may say, and of when
    Configs,       \* names of configurations that may be in the database
    Settings,      \* the list of rules each of them holds
    Keys,          \* StateKey of every rule there may be
    DefaultRule,   \* default_tvl_drop_rule
    FastCritical,  \* FAST_CRITICAL_WINDOW_MINUTES
    CliffWindow,   \* CLIFF_WINDOW_MINUTES
    LinearBound,   \* LINEAR_WINDOW_UPPER_BOUND_MINUTES
    CacheTTL,      \* TVL_DROP_STATE_CACHE_TTL_HOURS
    MaxEntries,    \* TVL_DROP_STATE_CACHE_MAX_ENTRIES
    MaxTime,       \* bound: event timestamps
    MaxSamples,    \* bound: samples in the windows of a row
    MaxEvents,     \* bound: events taken on
    MaxFaults      \* bound: failed calls and crashes

None  == -1
Times == 0 .. MaxTime

\* Severity is its rank: critical 5, high 4, none 0.
Ranks == {0, 4, 5}

VARIABLES
    config,    \* config[d]: the name of the configuration in force
    cache,     \* cache[d][k]: state_cache, NotCached where it has no entry
    rows,      \* rows[k]: the persisted state of a rule and subject
    work,      \* work[d]: the event in hand
    events,    \* events taken on so far
    faults,    \* failed calls and crashes so far
    announced, \* the newest severity told of each key
    masked,    \* history: severity of the detection that was published instead
    intact     \* history: has nothing failed that the key depends on?

vars == <<config, cache, rows, work, events, faults, announced, masked, intact>>

-----------------------------------------------------------------------------
(* Rules. *)

\* validate: positive thresholds and windows, a market where the scope is one.
Valid(r) ==
    /\ r.fast > 0 /\ r.slow > 0 /\ r.velocity > 0
    /\ r.fastWindow > 0 /\ r.slowWindow > 0 /\ r.velocityWindow > 0 /\ r.concurrentWindow > 0
    /\ r.scope = "market" => r.market # NoMarket

\* Without a valid rule there is the default one.
RuleList(c) ==
    IF \E i \in DOMAIN Settings[c] : Valid(Settings[c][i]) THEN Settings[c] ELSE <<DefaultRule>>

\* Invalid rules are skipped: the places of the others, which keep their order.
ParseTvlDropRules(c) == {i \in DOMAIN RuleList(c) : Valid(RuleList(c)[i])}

RulesOf(c) == {RuleList(c)[i] : i \in ParseTvlDropRules(c)}

Matches(r, e) ==
    /\ r.protocol = e.protocol
    /\ r.scope = "market" => r.market = e.market

SubjectForEvent(r) == IF r.scope = "market" THEN r.market ELSE NoMarket

StateKey(r) == [rule |-> r.id, protocol |-> r.protocol, subject |-> SubjectForEvent(r)]

-----------------------------------------------------------------------------
(* Samples and what the windows show. *)

Sample == [at : Times, tvl : Nat \ {0}]

\* Only a positive TVL is a sample: nothing is made of a reading of zero.
Usable(e) == e.kind = "sample" => e.tvl > 0

MaxWindow(r) == Max({r.fastWindow, r.slowWindow, r.velocityWindow, r.concurrentWindow})

\* Mutant: samples stay in the order in which they arrived.
RememberUnsorted(samples, s, window) ==
    LET recent(p) == p.at >= s.at - window IN SelectSeq(Append(samples, s), recent)

\* Push, stable sort by time, drop what is older than the longest window: the
\* samples are sorted, and the new one goes behind those of its time.
RememberSample(samples, s, window) ==
    LET n     == Max({0} \cup {i \in DOMAIN samples : samples[i].at <= s.at})
        grown == SubSeq(samples, 1, n) \o <<s>> \o SubSeq(samples, n + 1, Len(samples))
        first == Min({i \in DOMAIN grown : grown[i].at >= s.at - window})
    IN  SubSeq(grown, first, Len(grown))

DropPct(from, to) == IF to >= from THEN 0 ELSE (100 * (from - to)) \div from

\* The places of the samples in the window.
WindowPoints(samples, t, window) == {i \in DOMAIN samples : samples[i].at >= t - window}

\* From the first sample of the window to the newest there is, and the time
\* until the TVL was first as low as it is now.
AnalyzeWindow(samples, t, window) ==
    LET pts == WindowPoints(samples, t, window)
        ref == samples[Min(pts)]
        cur == samples[Max(pts)]
        low == samples[Min({i \in pts : samples[i].tvl <= cur.tvl})]
    IN  [ref |-> ref.tvl, drop |-> DropPct(ref.tvl, cur.tvl), reach |-> low.at - ref.at]

\* The largest drop between two neighbours that are a minute apart.
MaxOneMinuteDropPct(samples, t, window) ==
    LET pts == WindowPoints(samples, t, window)
    IN  Max({0} \cup {DropPct(samples[i].tvl, samples[i + 1].tvl) :
                 i \in {j \in pts : j + 1 \in pts /\ samples[j + 1].at - samples[j].at = 1}})

ClassifyVelocityPattern(drop, steepest, reach) ==
    IF drop = 0 THEN "none"
    ELSE IF reach < CliffWindow THEN "CLIFF"
    ELSE IF 2 * steepest > drop THEN "ACCELERATING"
    ELSE IF reach <= LinearBound THEN "LINEAR"
    ELSE "DECELERATING"

\* Known to hold nothing, by data that is not stale.
DepositGateSkipped(row) == ~row.deposit /\ ~row.stale

\* What the windows say of the row, its newest sample included.
ProcessStateSample(r, row, t) ==
    LET fast == AnalyzeWindow(row.samples, t, r.fastWindow)
        slow == AnalyzeWindow(row.samples, t, r.slowWindow)
        base == IF DepositGateSkipped(row) \/ fast.ref < r.floor THEN 0
                ELSE IF fast.drop >= r.velocity /\ fast.reach < r.velocityWindow THEN 5
                ELSE IF fast.drop >= r.fast THEN IF fast.reach < FastCritical THEN 5 ELSE 4
                ELSE IF slow.drop >= r.slow THEN 4 ELSE 0
    IN  [base |-> base, drop |-> Max({fast.drop, slow.drop}),
         pattern |-> ClassifyVelocityPattern(
                        fast.drop, MaxOneMinuteDropPct(row.samples, t, r.fastWindow), fast.reach)]

-----------------------------------------------------------------------------
(* The row of a rule and subject, and the cache of them. *)

Row == [samples : Seq(Sample), sev : Ranks, drop : 0 .. 100,
        breachAt : {None} \cup Times, moved : {None} \cup Times,
        context : {"isolated", "systemic"}, deposit : BOOLEAN, stale : BOOLEAN]

\* Unknown positions count as deposits, unknown age as fresh.
FreshRow == [samples |-> <<>>, sev |-> 0, drop |-> 0, breachAt |-> None, moved |-> None,
             context |-> "isolated", deposit |-> TRUE, stale |-> FALSE]

LastActivity(row) ==
    Max({row.moved} \cup {row.samples[i].at : i \in DOMAIN row.samples})

CacheEntry(row) == [sev |-> row.sev, breachAt |-> row.breachAt, activity |-> LastActivity(row)]
NotCached == [sev |-> None, breachAt |-> None, activity |-> None]
Cached(c) == {k \in Keys : c[k] # NotCached}

\* The caches prune_state_cache may leave: expired entries go, then the oldest
\* over the limit, in any order among equals; never k.
PruneStateCache(c, k, t) ==
    LET kept    == {j \in Cached(c) : j = k \/ c[j].activity >= t - CacheTTL}
        excess  == Max({0, Cardinality(kept) - MaxEntries})
        victims == {V \in SUBSET (kept \ {k}) :
                       /\ Cardinality(V) = Min({excess, Cardinality(kept \ {k})})
                       /\ \A v \in V, j \in kept \ (V \cup {k}) : c[v].activity <= c[j].activity}
    IN  {[j \in Keys |-> IF j \in kept \ V THEN c[j] ELSE NotCached] : V \in victims}

\* Mutant: a drop of the past counts as concurrent.
EverDropped(c, k, t, window) ==
    \E j \in Cached(c) \ {k} : j.protocol # k.protocol /\ c[j].sev > 0

\* Does a cached state of another protocol show a breach within the window?
HasConcurrentActiveDrop(c, k, t, window) ==
    \E j \in Cached(c) \ {k} :
        /\ j.protocol # k.protocol
        /\ c[j].sev > 0 /\ c[j].breachAt # None /\ c[j].breachAt >= t - window

\* Other markets of the protocol that rules watch, listed with a detection.
FindAtRiskMarkets(c, e) ==
    {StateKey(r) : r \in {s \in RulesOf(c) : /\ s.enabled /\ s.protocol = e.protocol
                                             /\ s.scope = "market" /\ s.market # e.market}}

\* Mutant: the severity follows the newest sample.
ClampNothing(sev, previous) == sev

ClampSeverity(sev, previous) == IF sev < previous THEN previous ELSE sev

-----------------------------------------------------------------------------
(* Detections. *)

Detections ==
    [key : Keys, transition : {"trigger", "escalate", "update"}, sev : Ranks,
     context : {"isolated", "systemic", "none"}, atRisk : SUBSET Keys,
     pattern : {"none", "CLIFF", "ACCELERATING", "LINEAR", "DECELERATING"}]
NoDetection == [transition |-> "none", sev |-> 0]

BuildTvlDetection(k, transition, sev, context, pattern, atRisk) ==
    [key |-> k, transition |-> transition, sev |-> sev, context |-> context,
     pattern |-> pattern, atRisk |-> atRisk]

BuildPauseDetection(k, transition, sev, context) ==
    [key |-> k, transition |-> transition, sev |-> sev, context |-> context,
     pattern |-> "none", atRisk |-> {}]

\* Mutant: the last detection of the event is kept.
PickLast(prev, det) == IF det = NoDetection THEN prev ELSE det

\* The first one wins among equals; a rule without a detection adds none.
PickHigherSeverity(prev, det) == IF det.sev > prev.sev THEN det ELSE prev

Transition(row, seen, sev, context) ==
    IF row.sev = 0 THEN "trigger"
    ELSE IF sev > row.sev THEN "escalate"
    ELSE IF seen.drop >= row.drop + 1 \/ row.context # context THEN "update"
    ELSE "none"

\* The row with the sample and what the event says of the tenant's position.
WithSample(r, row, e, t) ==
    [row EXCEPT !.samples = RememberSample(@, [at |-> t, tvl |-> e.tvl], MaxWindow(r)),
                !.deposit = IF e.deposit = "absent" THEN @ ELSE e.deposit = "yes",
                !.stale = IF e.stale = "absent" THEN @ ELSE e.stale = "yes"]

\* A sample: an incident never ends, and its severity never falls.
EvaluateSample(c, cfg, r, old, e, t) ==
    LET k        == StateKey(r)
        row      == WithSample(r, old, e, t)
        seen     == ProcessStateSample(r, row, t)
        systemic == r.contagion /\ HasConcurrentActiveDrop(c, k, t, r.concurrentWindow)
        context  == IF systemic THEN "systemic" ELSE "isolated"
        sev      == ClampSeverity(IF systemic THEN 5 ELSE seen.base, row.sev)
        move     == Transition(row, seen, sev, context)
    IN  IF seen.base = 0
        THEN [next |-> [row EXCEPT !.drop = seen.drop], det |-> NoDetection]
        ELSE [next |-> [row EXCEPT !.sev = sev, !.drop = seen.drop, !.context = context,
                                   !.breachAt = t, !.moved = IF move = "none" THEN @ ELSE t],
              det |-> IF move = "none" THEN NoDetection
                      ELSE BuildTvlDetection(k, move, sev, context, seen.pattern,
                                             FindAtRiskMarkets(cfg, e))]

\* A pause updates an incident and is an alert of its own without one.
EvaluatePause(r, row, t) ==
    [next |-> [row EXCEPT !.moved = t],
     det  |-> IF row.sev > 0
              THEN BuildPauseDetection(StateKey(r), "update", row.sev, row.context)
              ELSE BuildPauseDetection(StateKey(r), "trigger", 4, "none")]

\* An unpause finds nothing to do where there is no incident.
PassesOver(row, e) == e.kind = "unpause" /\ row.sev = 0

-----------------------------------------------------------------------------
(* The detector: one event at a time, a step for every await that matters. *)

Idle == [stage |-> "idle"]

\* rules: the places of those still to be visited.  raised: keys a detection was made for.
Handling == [stage : {"load", "save"}, event : Feed, at : Times, rules : SUBSET Nat,
             emitted : Detections \cup {NoDetection}, raised : SUBSET Keys,
             next : Row, det : Detections \cup {NoDetection}]

TypeOK ==
    /\ config \in [Detectors -> Configs]
    /\ \A d \in Detectors, k \in Keys :
          cache[d][k] \in [sev : Ranks, breachAt : {None} \cup Times,
                           activity : {None} \cup Times] \cup {NotCached}
    /\ rows \in [Keys -> Row]
    /\ work \in [Detectors -> {Idle} \cup Handling]
    /\ events \in 0 .. MaxEvents /\ faults \in 0 .. MaxFaults
    /\ announced \in [Keys -> Ranks] /\ masked \in [Keys -> Ranks]
    /\ intact \in [Keys -> BOOLEAN]

Init ==
    /\ config \in [Detectors -> Configs]
    /\ cache = [d \in Detectors |-> [k \in Keys |-> NotCached]]
    /\ rows = [k \in Keys |-> FreshRow]
    /\ work = [d \in Detectors |-> Idle]
    /\ events = 0 /\ faults = 0
    /\ announced = [k \in Keys |-> 0]
    /\ masked = [k \in Keys |-> 0]
    /\ intact = [k \in Keys |-> TRUE]

Disturbed == faults < MaxFaults /\ faults' = faults + 1
Succeeds(ok) == IF ok THEN UNCHANGED faults ELSE Disturbed

ProcessEvent(d, e, t) ==
    LET list  == RuleList(config[d])
        rules == {i \in ParseTvlDropRules(config[d]) : list[i].enabled /\ Matches(list[i], e)}
    IN  /\ work[d] = Idle
        /\ Usable(e)
        /\ events < MaxEvents /\ events' = events + 1
        /\ rules # {}
        /\ \A i \in rules :
              Len(WithSample(list[i], rows[StateKey(list[i])], e, t).samples) <= MaxSamples
        /\ work' = [work EXCEPT ![d] =
              [stage |-> "load", event |-> e, at |-> t, rules |-> rules,
               emitted |-> NoDetection, raised |-> {}, next |-> FreshRow, det |-> NoDetection]]
        /\ UNCHANGED <<config, cache, rows, faults, announced, masked, intact>>

Visiting(d, stage) == work[d].stage = stage /\ work[d].rules # {}

\* The rule whose turn it is, and the places left after it.
NextRule(d) == RuleList(config[d])[Min(work[d].rules)]
RulesAfter(rules) == rules \ {Min(rules)}

\* The row of the next rule is loaded, cached as it is, and evaluated.
LoadAndEvaluate(d) ==
    LET w   == work[d]
        r   == NextRule(d)
        k   == StateKey(r)
        row == rows[k]
    IN  /\ Visiting(d, "load")
        /\ \E c \in PruneStateCache([cache[d] EXCEPT ![k] = CacheEntry(row)], k, w.at) :
              LET out == IF w.event.kind = "sample"
                         THEN EvaluateSample(c, config[d], r, row, w.event, w.at)
                         ELSE EvaluatePause(r, row, w.at)
              IN  /\ cache' = [cache EXCEPT ![d] = c]
                  /\ work' = [work EXCEPT ![d] =
                        IF PassesOver(row, w.event) THEN [w EXCEPT !.rules = RulesAfter(@)]
                        ELSE [w EXCEPT !.stage = "save", !.next = out.next, !.det = out.det]]
        /\ UNCHANGED <<config, rows, events, faults, announced, masked, intact>>

RaisedKeys(d) == IF work[d] = Idle THEN {} ELSE work[d].raised

Losing(keys) == intact' = [k \in Keys |-> intact[k] /\ k \notin keys]

\* The row cannot be loaded: the event ends, with what it had emitted so far.
LoadFails(d) ==
    /\ Disturbed
    /\ Visiting(d, "load")
    /\ Losing(RaisedKeys(d))
    /\ work' = [work EXCEPT ![d] = Idle]
    /\ UNCHANGED <<config, cache, rows, events, announced, masked>>

\* The row is saved, a failure to do so is ignored; the state is cached and
\* the detection weighed.
Save(d) ==
    LET w == work[d]
        k == StateKey(NextRule(d))
    IN  /\ Visiting(d, "save")
        /\ \E saved \in BOOLEAN :
              /\ Succeeds(saved)
              /\ rows' = IF saved THEN [rows EXCEPT ![k] = w.next] ELSE rows
              /\ Losing(IF saved THEN {} ELSE {k})
        /\ \E c \in PruneStateCache([cache[d] EXCEPT ![k] = CacheEntry(w.next)], k, w.at) :
              cache' = [cache EXCEPT ![d] = c]
        /\ work' = [work EXCEPT ![d] =
              [w EXCEPT !.stage = "load", !.rules = RulesAfter(@),
                        !.emitted = PickHigherSeverity(@, w.det),
                        !.raised = IF w.det = NoDetection THEN @ ELSE @ \cup {k},
                        !.next = FreshRow, !.det = NoDetection]]
        /\ UNCHANGED <<config, events, announced, masked>>

\* All rules are done: the registry publishes what was emitted, if it can.
Finish(d) ==
    LET w == work[d]
    IN  /\ w.stage = "load" /\ w.rules = {}
        /\ \E sent \in IF w.emitted = NoDetection THEN {TRUE} ELSE BOOLEAN :
              /\ Succeeds(sent)
              /\ announced' = IF sent /\ w.emitted # NoDetection
                              THEN [announced EXCEPT ![w.emitted.key] = w.emitted.sev]
                              ELSE announced
              /\ masked' = [k \in Keys |->
                    IF k \in RaisedKeys(d) /\ k # w.emitted.key THEN w.emitted.sev ELSE masked[k]]
              /\ Losing(IF sent THEN {} ELSE RaisedKeys(d))
        /\ work' = [work EXCEPT ![d] = Idle]
        /\ UNCHANGED <<config, cache, rows, events>>

\* Configurations are replaced as a whole, between two batches.
ReloadConfig(d, c) ==
    /\ work[d] = Idle
    /\ config[d] # c
    /\ config' = [config EXCEPT ![d] = c]
    /\ UNCHANGED <<cache, rows, work, events, faults, announced, masked, intact>>

\* The cache is lost, and the event in hand with what it would have told.
Crash(d) ==
    /\ Disturbed
    /\ cache' = [cache EXCEPT ![d] = [k \in Keys |-> NotCached]]
    /\ work' = [work EXCEPT ![d] = Idle]
    /\ Losing(RaisedKeys(d))
    /\ UNCHANGED <<config, rows, events, announced, masked>>

Next ==
    \E d \in Detectors :
        \/ \E e \in Feed : ProcessEvent(d, e, e.at)
        \/ LoadAndEvaluate(d)
        \/ LoadFails(d)
        \/ Save(d)
        \/ Finish(d)
        \/ \E c \in Configs : ReloadConfig(d, c)
        \/ Crash(d)

Spec == Init /\ [][Next]_vars

-----------------------------------------------------------------------------
(* Properties. *)

Alerting(d, k) == Visiting(d, "save") /\ work[d].det # NoDetection /\ work[d].det.key = k

\* One process: two overwrite each other's rows, which nothing locks.
Alone == \E d \in Detectors : Detectors = {d}

\* Severity only goes up, never down: with one detector no sample, pause,
\* failed call or restart lowers the severity of a row.
NotLowered == Alone => \A k \in Keys : rows'[k].sev >= rows[k].sev

\* A severity that subscribers were never told of was raised by an event that
\* published another rule's detection, at least as severe.
RaiseToldOrMasked ==
    Alone => \A k \in Keys :
        intact[k] /\ (\A d \in Detectors : k \notin RaisedKeys(d))
            => rows[k].sev <= Max({announced[k], masked[k]})

\* A detection of a sample is founded on two samples of the row, in the order
\* of their time whatever order they came in: the earlier within the rule's
\* window and above the later by its threshold.
DropIsFounded ==
    \A d \in Detectors, k \in Keys :
        LET w == work[d]
            r == NextRule(d)
            p == w.next.samples
            dropped(window, pct) ==
                \E i, j \in DOMAIN p : /\ w.at - window <= p[i].at /\ p[i].at <= p[j].at
                                       /\ DropPct(p[i].tvl, p[j].tvl) >= pct
        IN  Alerting(d, k) /\ w.event.kind = "sample"
            => dropped(r.fastWindow, Min({r.fast, r.velocity})) \/ dropped(r.slowWindow, r.slow)

\* A detection calls its context systemic only if, within the rule's window,
\* the row of another protocol saw a breach: the cache may forget a drop, it
\* does not make one up.
SystemicIsFounded ==
    Alone => \A d \in Detectors, k \in Keys :
        LET w == work[d]
        IN  Alerting(d, k) /\ w.event.kind = "sample" /\ w.det.context = "systemic"
            => \E j \in Keys :
                  /\ j.protocol # k.protocol
                  /\ ~intact[j] \/ ( /\ rows[j].sev > 0
                                     /\ rows[j].breachAt >= w.at - NextRule(d).concurrentWindow)
=============================================================================
