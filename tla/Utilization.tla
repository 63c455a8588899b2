---------------------------- MODULE Utilization ----------------------------
(***************************************************************************)
(* The high utilization pattern of the detector, patterns/                 *)
(* utilization_high.rs, for one tenant, protocol and chain: readings and   *)
(* pause events arrive in any order of their timestamps; every rule that   *)
(* matches one loads its persisted row, moves its incident, saves the row, *)
(* and one detection of the event is published.                            *)
(*                                                                         *)
(* Percentages, amounts and times are integers.  Of the samples a row      *)
(* keeps only the newest timestamp matters to a decision; the times of the *)
(* incident itself never exceed it.  Rates of change, liquidity figures    *)
(* and texts of a detection are left out.                                  *)
(***************************************************************************)
EXTENDS Integers, Sequences, FiniteSets, FiniteSetsExt

CONSTANTS
    Detectors,   \* processes of the consumer group detector-workers
    Markets,     \* market ids
    NoMarket,    \* an event, or a rule, without one
    RuleIds,     \* rule ids
    Feed,        \* what the readings and pause events may say
    Configs,     \* names of configurations that may be in the database
    Settings,    \* the list of rules each of them holds
    CacheTTL,    \* UTILIZATION_STATE_CACHE_TTL_HOURS
    MaxEntries,  \* UTILIZATION_STATE_CACHE_MAX_ENTRIES
    MaxTime,     \* bound: event timestamps
    MaxCalm,     \* bound: quiet readings counted by the history calm
    MaxFaults    \* bound: failed calls and crashes

None  == -1
Times == 0 .. MaxTime

\* Severity is its rank: critical 4, high 3, medium 2, none 0.
Ranks == {0, 2, 3, 4}

\* The subject of a rule is its market, or NoMarket for the whole protocol.
Keys == RuleIds \X (Markets \cup {NoMarket})

Rule == [id : RuleIds, scope : {"market", "protocol"}, market : Markets \cup {NoMarket},
         enabled : BOOLEAN, threshold : [{2, 3, 4} -> Nat], resolution : [{2, 3, 4} -> Nat],
         blocks : Nat, floor : Nat]

VARIABLES
    config,    \* config[d]: the name of the configuration in force
    cache,     \* cache[d][k]: state_cache, NotCached where it has no entry
    rows,      \* rows[k]: the persisted state of a rule and subject
    work,      \* work[d]: the event in hand
    faults,    \* failed calls and crashes so far
    announced, \* the newest severity told of each key, 0 before and after an incident
    suspended, \* was the last pause update published of each key a pause?
    masked,    \* history: severity of the detection that was published instead
    calm,      \* history: latest readings in a row without a breach
    intact     \* history: has nothing failed that the key depends on?

vars == <<config, cache, rows, work, faults, announced, suspended, masked, calm, intact>>

-----------------------------------------------------------------------------
(* Rules. *)

\* validate: ordered thresholds, a hysteresis gap, at least one confirmation.
Valid(r) ==
    /\ r.scope = "market" => r.market # NoMarket
    /\ r.threshold[2] < r.threshold[3] /\ r.threshold[3] < r.threshold[4]
    /\ \A s \in {2, 3, 4} : r.resolution[s] < r.threshold[s]
    /\ r.blocks >= 1

\* Rules that do not validate are skipped, the others keep their order: the
\* rules are named by their places in the list.
ParseUtilizationRules(c) == {i \in DOMAIN Settings[c] : Valid(Settings[c][i])}

Matches(r, market) == r.scope = "market" => r.market = market

SubjectForEvent(r) == IF r.scope = "market" THEN r.market ELSE NoMarket

StateKey(r) == <<r.id, SubjectForEvent(r)>>

ClassifySeverity(pct, r) == Max({0} \cup {s \in {2, 3, 4} : pct >= r.threshold[s]})

-----------------------------------------------------------------------------
(* Events. *)

Event == [kind : {"reading", "pause"}, market : Markets \cup {NoMarket},
          raw : Nat, tvl : Nat, paused : BOOLEAN]

\* raw is in hundredths.  Up to 1.0 a number is a ratio, beyond it a percentage.
UtilizationPct(raw) == IF raw <= 100 THEN raw ELSE raw \div 100

-----------------------------------------------------------------------------
(* The row of a rule and subject. *)

Row == [sev : Ranks, counter : Nat, paused : BOOLEAN, escalations : Nat,
        sampled : {None} \cup Times, moved : {None} \cup Times]

FreshRow == [sev |-> 0, counter |-> 0, paused |-> FALSE, escalations |-> 0,
             sampled |-> None, moved |-> None]

LastActivity(row) == Max({row.sampled, row.moved})

\* A detection, abstracted to what a subscriber can tell apart.
Detections == [key : Keys, transition : {"trigger", "escalate", "resolve", "update"},
               sev : Ranks, paused : BOOLEAN]
NoDetection == [transition |-> "none", sev |-> 0]

BuildUtilizationDetection(k, transition, row) ==
    [key |-> k, transition |-> transition, sev |-> row.sev, paused |-> row.paused]

\* A resolution is announced with the severity it ends.
BuildResolveDetection(k, row) ==
    [key |-> k, transition |-> "resolve", sev |-> row.sev, paused |-> FALSE]

BuildPauseDetection(k, row) ==
    [key |-> k, transition |-> "update", sev |-> row.sev, paused |-> row.paused]

Outcome(next, det) == [next |-> next, det |-> det]

\* Mutant: the escalations of one incident are carried over to the next.
ResolveCarriesOver(k, row, t) ==
    Outcome([row EXCEPT !.sev = 0, !.moved = t, !.counter = 0], BuildResolveDetection(k, row))

\* paused_status is left as it is.
Resolve(k, row, t) ==
    Outcome([row EXCEPT !.sev = 0, !.moved = t, !.counter = 0, !.escalations = 0],
            BuildResolveDetection(k, row))

\* Mutant: any higher or lower breach takes the incident to its severity.
BreachFollows(k, row, s, t) ==
    LET next == [row EXCEPT !.sev = s, !.counter = 0, !.moved = t]
    IN  Outcome(next, IF s = row.sev THEN NoDetection
                      ELSE BuildUtilizationDetection(k, "escalate", next))

\* Mutant: a breach that raises nothing leaves the confirmation count.
BreachKeepsCount(k, row, s, t) ==
    LET next == [row EXCEPT !.sev = s, !.counter = 0, !.moved = t,
                            !.escalations = IF row.sev = 0 THEN 0 ELSE @ + 1]
    IN  IF s > row.sev
        THEN Outcome(next, BuildUtilizationDetection(
                               k, IF row.sev = 0 THEN "trigger" ELSE "escalate", next))
        ELSE Outcome(row, NoDetection)

\* A breach of severity s triggers, escalates, or is suppressed.
Breach(k, row, s, t) ==
    LET next == [row EXCEPT !.sev = s, !.counter = 0, !.moved = t,
                            !.escalations = IF row.sev = 0 THEN 0 ELSE @ + 1]
    IN  IF s > row.sev
        THEN Outcome(next, BuildUtilizationDetection(
                               k, IF row.sev = 0 THEN "trigger" ELSE "escalate", next))
        ELSE Outcome([row EXCEPT !.counter = 0], NoDetection)

\* Mutant: a pause does not keep an incident from resolving.
QuietWhilePaused(k, r, row, pct, t) ==
    IF row.sev = 0 THEN Outcome(row, NoDetection)
    ELSE IF pct >= r.resolution[row.sev] THEN Outcome([row EXCEPT !.counter = 0], NoDetection)
    ELSE IF row.counter + 1 >= r.blocks THEN Resolve(k, row, t)
    ELSE Outcome([row EXCEPT !.counter = @ + 1], NoDetection)

\* No breach: below the resolution threshold an incident counts towards its
\* end, unless it is paused; at or above it the count starts over.
Quiet(k, r, row, pct, t) ==
    IF row.sev = 0 THEN Outcome(row, NoDetection)
    ELSE IF pct >= r.resolution[row.sev] THEN Outcome([row EXCEPT !.counter = 0], NoDetection)
    ELSE IF row.paused THEN Outcome(row, NoDetection)
    ELSE IF row.counter + 1 >= r.blocks THEN Resolve(k, row, t)
    ELSE Outcome([row EXCEPT !.counter = @ + 1], NoDetection)

\* A market known to be small is not looked at.
TvlFloorSuppressed(r, e) == 0 < e.tvl /\ e.tvl < r.floor

EvaluateUtilizationState(r, row, e, t) ==
    LET pct     == UtilizationPct(e.raw)
        s       == ClassifySeverity(pct, r)
        sampled == [row EXCEPT !.sampled = Max({@, t})]
    IN  IF s > 0 THEN Breach(StateKey(r), sampled, s, t)
        ELSE Quiet(StateKey(r), r, sampled, pct, t)

\* Only an active incident is told of a pause, or remembers one.
EvaluatePause(r, row, e, t) ==
    LET next == [row EXCEPT !.paused = e.paused, !.moved = t]
    IN  Outcome(next, BuildPauseDetection(StateKey(r), next))

\* Does the rule have nothing to do for the event, given its row?
PassesOver(r, row, e) ==
    IF e.kind = "reading" THEN TvlFloorSuppressed(r, e) ELSE row.sev = 0

\* Mutant: the first detection of the event is kept.
PickFirst(prev, det) == IF prev.sev = 0 THEN det ELSE prev

\* The later one wins among equals; a rule without a detection adds none.
PickHigher(prev, det) == IF det # NoDetection /\ det.sev >= prev.sev THEN det ELSE prev

-----------------------------------------------------------------------------
(* The cache of states, read for the alerts that are active together. *)

NotCached == [sev |-> None, activity |-> None]
Cached(c) == {k \in Keys : c[k] # NotCached}

\* The caches prune_state_cache may leave: expired entries go, then the oldest
\* over the limit, in any order among equals; never k.
PruneStateCache(c, k, t) ==
    LET kept    == {j \in Cached(c) : j = k \/ c[j].activity >= t - CacheTTL}
        excess  == Max({0, Cardinality(kept) - MaxEntries})
        victims == {V \in SUBSET (kept \ {k}) :
                       /\ Cardinality(V) = Min({excess, Cardinality(kept \ {k})})
                       /\ \A v \in V, j \in kept \ (V \cup {k}) : c[v].activity <= c[j].activity}
    IN  {[j \in Keys |-> IF j \in kept \ V THEN c[j] ELSE NotCached] : V \in victims}

\* Mutant: the state as it was loaded is cached.
CacheEntryLoaded(row, next) == [sev |-> row.sev, activity |-> LastActivity(next)]

CacheEntry(row, next) == [sev |-> next.sev, activity |-> LastActivity(next)]

-----------------------------------------------------------------------------
(* The detector: one event at a time, a step for every await that matters. *)

Idle == [stage |-> "idle"]

\* rules: the places of those still to be visited.  raised: keys a detection was made for.
Handling == [stage : {"load", "save"}, event : Event, at : Times, rules : SUBSET Nat,
             emitted : Detections \cup {NoDetection}, raised : SUBSET Keys,
             next : Row, det : Detections \cup {NoDetection}]

TypeOK ==
    /\ config \in [Detectors -> Configs]
    /\ \A d \in Detectors, k \in Keys :
          cache[d][k] \in [sev : Ranks, activity : Times] \cup {NotCached}
    /\ rows \in [Keys -> Row]
    /\ work \in [Detectors -> {Idle} \cup Handling]
    /\ faults \in 0 .. MaxFaults
    /\ announced \in [Keys -> Ranks] /\ suspended \in [Keys -> BOOLEAN]
    /\ masked \in [Keys -> Ranks] /\ calm \in [Keys -> 0 .. MaxCalm]
    /\ intact \in [Keys -> BOOLEAN]

Init ==
    /\ config \in [Detectors -> Configs]
    /\ cache = [d \in Detectors |-> [k \in Keys |-> NotCached]]
    /\ rows = [k \in Keys |-> FreshRow]
    /\ work = [d \in Detectors |-> Idle]
    /\ faults = 0
    /\ announced = [k \in Keys |-> 0]
    /\ suspended = [k \in Keys |-> FALSE]
    /\ masked = [k \in Keys |-> 0]
    /\ calm = [k \in Keys |-> 0]
    /\ intact = [k \in Keys |-> TRUE]

Disturbed == faults < MaxFaults /\ faults' = faults + 1
Succeeds(ok) == IF ok THEN UNCHANGED faults ELSE Disturbed

\* The enabled rules that match; no rule, no work.
ProcessEvent(d, e, t) ==
    LET list  == Settings[config[d]]
        rules == {i \in ParseUtilizationRules(config[d]) :
                     list[i].enabled /\ Matches(list[i], e.market)}
    IN  /\ work[d] = Idle
        /\ rules # {}
        /\ work' = [work EXCEPT ![d] =
              [stage |-> "load", event |-> e, at |-> t, rules |-> rules,
               emitted |-> NoDetection, raised |-> {}, next |-> FreshRow, det |-> NoDetection]]
        /\ UNCHANGED <<config, cache, rows, faults, announced, suspended, masked, calm, intact>>

Visiting(d, stage) == work[d].stage = stage /\ work[d].rules # {}

\* The rule whose turn it is, and the places left after it.
NextRule(d) == Settings[config[d]][Min(work[d].rules)]
RulesAfter(rules) == rules \ {Min(rules)}

\* The row of pattern_state, which is never absent here: FreshRow is the default.
LoadPatternState(k) == rows[k]

\* An upsert.
UpsertPatternState(k, row) == [rows EXCEPT ![k] = row]

\* The row of the next rule is loaded and evaluated.
LoadAndEvaluate(d) ==
    LET w   == work[d]
        r   == NextRule(d)
        row == LoadPatternState(StateKey(r))
        out == IF w.event.kind = "reading" THEN EvaluateUtilizationState(r, row, w.event, w.at)
               ELSE EvaluatePause(r, row, w.event, w.at)
    IN  /\ Visiting(d, "load")
        /\ work' = [work EXCEPT ![d] =
              IF PassesOver(r, row, w.event) THEN [w EXCEPT !.rules = RulesAfter(@)]
              ELSE [w EXCEPT !.stage = "save", !.next = out.next, !.det = out.det]]
        /\ UNCHANGED <<config, cache, rows, faults, announced, suspended, masked, calm, intact>>

Losing(d, keys) == intact' = [k \in Keys |-> intact[k] /\ k \notin keys]

RaisedKeys(d) == IF work[d] = Idle THEN {} ELSE work[d].raised

\* The row cannot be loaded: the event ends, with what it had emitted so far.
LoadFails(d) ==
    /\ Disturbed
    /\ Visiting(d, "load")
    /\ Losing(d, RaisedKeys(d))
    /\ work' = [work EXCEPT ![d] = Idle]
    /\ UNCHANGED <<config, cache, rows, announced, suspended, masked, calm>>

\* What the histories make of an evaluation of the rule r.
Record(k, r, w, saved) ==
    /\ calm' = IF w.event.kind = "pause" THEN calm
               ELSE [calm EXCEPT ![k] =
                        IF ClassifySeverity(UtilizationPct(w.event.raw), r) > 0 THEN 0
                        ELSE Min({MaxCalm, @ + 1})]
    /\ intact' = [intact EXCEPT ![k] = @ /\ saved]

\* The row is saved, a failure to do so is ignored; the state is cached and
\* the detection weighed.  A pause ends with the first incident it meets.
Save(d) ==
    LET w == work[d]
        r == NextRule(d)
        k == StateKey(r)
    IN  /\ Visiting(d, "save")
        /\ \E saved \in BOOLEAN :
              /\ Succeeds(saved)
              /\ rows' = IF saved THEN UpsertPatternState(k, w.next) ELSE rows
              /\ Record(k, r, w, saved)
        /\ \E c \in PruneStateCache([cache[d] EXCEPT ![k] = CacheEntry(rows[k], w.next)], k, w.at) :
              cache' = [cache EXCEPT ![d] = c]
        /\ work' = [work EXCEPT ![d] =
              [w EXCEPT !.stage = "load",
                        !.rules = IF w.event.kind = "pause" THEN {} ELSE RulesAfter(@),
                        !.emitted = PickHigher(@, w.det),
                        !.raised = IF w.det = NoDetection THEN @ ELSE @ \cup {k},
                        !.next = FreshRow, !.det = NoDetection]]
        /\ UNCHANGED <<config, announced, suspended, masked>>

\* The alerts listed with a detection as active at the same time.
ConcurrentMarketAlerts(d, det) ==
    {k \in Cached(cache[d]) : cache[d][k].sev > 0 /\ k # det.key}

\* All rules are done: the registry publishes what was emitted, if it can.
Finish(d) ==
    LET w == work[d]
    IN  /\ w.stage = "load" /\ w.rules = {}
        /\ \E sent \in IF w.emitted = NoDetection THEN {TRUE} ELSE BOOLEAN :
              /\ Succeeds(sent)
              /\ IF sent /\ w.emitted # NoDetection
                 THEN /\ announced' = [announced EXCEPT ![w.emitted.key] =
                            IF w.emitted.transition = "resolve" THEN 0 ELSE w.emitted.sev]
                      /\ suspended' = [suspended EXCEPT ![w.emitted.key] = w.emitted.paused]
                 ELSE UNCHANGED <<announced, suspended>>
              /\ Losing(d, IF sent THEN {} ELSE RaisedKeys(d))
              /\ masked' = [k \in Keys |->
                    IF k \notin RaisedKeys(d) THEN masked[k]
                    ELSE IF k = w.emitted.key THEN 0 ELSE w.emitted.sev]
        /\ work' = [work EXCEPT ![d] = Idle]
        /\ UNCHANGED <<config, cache, rows, calm>>

\* Configurations are replaced as a whole, between two batches.
ReloadConfig(d, c) ==
    /\ work[d] = Idle
    /\ config[d] # c
    /\ config' = [config EXCEPT ![d] = c]
    /\ UNCHANGED <<cache, rows, work, faults, announced, suspended, masked, calm, intact>>

\* The cache is lost, and the event in hand with what it would have told.
Crash(d) ==
    /\ Disturbed
    /\ cache' = [cache EXCEPT ![d] = [k \in Keys |-> NotCached]]
    /\ work' = [work EXCEPT ![d] = Idle]
    /\ Losing(d, RaisedKeys(d))
    /\ UNCHANGED <<config, rows, announced, suspended, masked, calm>>

Next ==
    \E d \in Detectors :
        \/ \E e \in Feed, t \in Times : ProcessEvent(d, e, t)
        \/ LoadAndEvaluate(d)
        \/ LoadFails(d)
        \/ Save(d)
        \/ Finish(d)
        \/ \E c \in Configs : ReloadConfig(d, c)
        \/ Crash(d)

Spec == Init /\ [][Next]_vars

-----------------------------------------------------------------------------
(* Properties. *)

AllRules == UNION {{Settings[c][i] : i \in DOMAIN Settings[c]} : c \in Configs}

\* One process: two overwrite each other's rows, which nothing locks.
Alone == \E d \in Detectors : Detectors = {d}

\* No two rules of a configuration share a row: rules without an id all get the
\* same one.
KeysDistinct ==
    \A c \in Configs : \A i, j \in ParseUtilizationRules(c) :
        StateKey(Settings[c][i]) = StateKey(Settings[c][j]) => i = j

Resolving(d, k) ==
    /\ Visiting(d, "save")
    /\ work[d].det.transition = "resolve" /\ work[d].det.key = k

\* An incident that nothing disturbed resolves only after as many readings in
\* a row without a breach as some rule of it asks for: a bounce into a lower
\* severity, or a late reading, starts the confirmation anew.
ResolutionConfirmed ==
    Alone => \A d \in Detectors, k \in Keys :
        Resolving(d, k) /\ intact[k] =>
            \E r \in AllRules : StateKey(r) = k /\ Valid(r) /\ calm[k] + 1 >= r.blocks

\* Once subscribers were told that a pause holds an incident, it is not
\* resolved before they are told that the pause is over.
NoResolutionWhileSuspended ==
    Alone => \A d \in Detectors, k \in Keys : Resolving(d, k) /\ intact[k] => ~suspended[k]

\* A severity that subscribers were never told of was raised by an event that
\* published another rule's detection, at least as severe.
RaiseToldOrMasked ==
    Alone /\ KeysDistinct => \A k \in Keys :
        intact[k] /\ (\A d \in Detectors : k \notin RaisedKeys(d))
            => rows[k].sev <= Max({announced[k], masked[k]})

\* The severity of a row rises until the incident ends: it is never lowered.
NotLowered == Alone => \A k \in Keys : rows'[k].sev >= rows[k].sev \/ rows'[k].sev = 0

\* An incident escalates at most once for each severity above the first.
EscalationsCounted == \A k \in Keys : rows[k].escalations <= Max({0, rows[k].sev - 2})

\* The alerts a detection lists as active at the same time are incidents of
\* their rows, as long as one detector does all the work and no save failed.
ConcurrentAlertsActive ==
    Alone => \A d \in Detectors : \A k \in Cached(cache[d]) :
        intact[k] => cache[d][k].sev = rows[k].sev
=============================================================================
