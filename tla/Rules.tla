------------------------------- MODULE Rules -------------------------------
(***************************************************************************)
(* The rule patterns of the registry.  They share the database and nothing *)
(* in it: rows are kept by pattern id, and an event passes one pattern     *)
(* after the other.  A behaviour here is that of one of them, so that the  *)
(* states of the four add up instead of multiplying.                       *)
(***************************************************************************)
EXTENDS Integers, Sequences, FiniteSets

CONSTANTS
    Detectors,       \* processes of the consumer group detector-workers
    NoMarket,        \* an event, or a rule, without a market
    MaxFaults,       \* bound: failed calls and crashes
    ForUtilization,  \* the other constants of each pattern: see its module
    ForTvl,
    ForFlash,
    ForRuntime

VARIABLES pattern,   \* the pattern whose behaviour this is
          config, cache, rows, work, faults, announced, suspended, masked, calm, intact,
          events, stored, last, high, degraded

vars == <<pattern, config, cache, rows, work, faults, announced, suspended, masked, calm,
          intact, events, stored, last, high, degraded>>

U == INSTANCE Utilization WITH
        Markets <- ForUtilization.markets, RuleIds <- ForUtilization.ruleIds,
        Feed <- ForUtilization.feed, Configs <- DOMAIN ForUtilization.settings,
        Settings <- ForUtilization.settings, CacheTTL <- ForUtilization.cacheTTL,
        MaxEntries <- ForUtilization.maxEntries, MaxTime <- ForUtilization.maxTime,
        MaxCalm <- ForUtilization.maxCalm

T == INSTANCE TvlDrop WITH
        Feed <- ForTvl.feed, Configs <- DOMAIN ForTvl.settings, Settings <- ForTvl.settings,
        Keys <- ForTvl.keys, DefaultRule <- ForTvl.defaultRule,
        FastCritical <- ForTvl.fastCritical, CliffWindow <- ForTvl.cliffWindow,
        LinearBound <- ForTvl.linearBound, CacheTTL <- ForTvl.cacheTTL,
        MaxEntries <- ForTvl.maxEntries, MaxTime <- ForTvl.maxTime,
        MaxSamples <- ForTvl.maxSamples, MaxEvents <- ForTvl.maxEvents

F == INSTANCE FlashLoan WITH
        Attackers <- ForFlash.attackers, RuleIds <- ForFlash.ruleIds, Feed <- ForFlash.feed,
        Configs <- DOMAIN ForFlash.settings, Settings <- ForFlash.settings,
        DefaultRule <- ForFlash.defaultRule, MaxTime <- ForFlash.maxTime

G == INSTANCE GenericRule WITH
        Patterns <- ForRuntime.patterns, Builtin <- ForRuntime.builtin,
        Engines <- ForRuntime.engines, Configs <- DOMAIN ForRuntime.settings,
        Settings <- ForRuntime.settings

-----------------------------------------------------------------------------
(* What the constants are: rules as they are parsed, events as they come. *)

\* The history of quiet readings is long enough for every rule.
ASSUME UtilizationAssumption ==
    /\ ForUtilization.maxTime \in Nat /\ ForUtilization.maxCalm \in Nat
    /\ ForUtilization.feed \subseteq U!Event
    /\ \A c \in DOMAIN ForUtilization.settings :
          /\ ForUtilization.settings[c] \in Seq(U!Rule)
          /\ \A i \in DOMAIN ForUtilization.settings[c] :
                ForUtilization.settings[c][i].blocks <= ForUtilization.maxCalm + 1

ASSUME TvlAssumption ==
    /\ ForTvl.maxTime \in Nat
    /\ \A e \in ForTvl.feed : e.at \in 0 .. ForTvl.maxTime /\ e.tvl \in Nat
    /\ T!Valid(ForTvl.defaultRule)
    /\ \A c \in DOMAIN ForTvl.settings :
          /\ Len(ForTvl.settings[c]) \in Nat /\ DOMAIN ForTvl.settings[c] = 1 .. Len(ForTvl.settings[c])
          /\ \A r \in T!RulesOf(c) :
                /\ T!StateKey(r) \in ForTvl.keys
                /\ {r.fast, r.slow, r.velocity, r.fastWindow, r.slowWindow, r.velocityWindow,
                    r.concurrentWindow, r.floor} \subseteq Nat

ASSUME FlashAssumption ==
    /\ ForFlash.maxTime \in Nat
    /\ \A e \in ForFlash.feed : e.attacker \in ForFlash.attackers
    /\ \A c \in DOMAIN ForFlash.settings :
          LET list == F!ParseFlashLoanRules(c)
          IN  /\ Len(list) \in Nat /\ DOMAIN list = 1 .. Len(list)
              /\ \A i \in DOMAIN list : list[i].id \in ForFlash.ruleIds /\ list[i].cooldown \in Nat

-----------------------------------------------------------------------------
\* The variables of the other patterns stay 0.
Init ==
    \/ /\ pattern = "utilization" /\ U!Init
       /\ events = 0 /\ stored = 0 /\ last = 0 /\ high = 0 /\ degraded = 0
    \/ /\ pattern = "tvl" /\ T!Init
       /\ suspended = 0 /\ calm = 0 /\ stored = 0 /\ last = 0 /\ high = 0 /\ degraded = 0
    \/ /\ pattern = "flash" /\ F!Init
       /\ rows = 0 /\ announced = 0 /\ suspended = 0 /\ masked = 0 /\ calm = 0 /\ events = 0
       /\ degraded = 0
    \/ /\ pattern = "runtime" /\ G!Init
       /\ cache = 0 /\ announced = 0 /\ suspended = 0 /\ masked = 0 /\ calm = 0
       /\ intact = 0 /\ events = 0 /\ stored = 0 /\ last = 0 /\ high = 0

Next ==
    \/ /\ pattern = "utilization" /\ U!Next
       /\ UNCHANGED <<pattern, events, stored, last, high, degraded>>
    \/ /\ pattern = "tvl" /\ T!Next
       /\ UNCHANGED <<pattern, suspended, calm, stored, last, high, degraded>>
    \/ /\ pattern = "flash" /\ F!Next
       /\ UNCHANGED <<pattern, rows, announced, suspended, masked, calm, events, degraded>>
    \/ /\ pattern = "runtime" /\ G!Next
       /\ UNCHANGED <<pattern, cache, announced, suspended, masked, calm, intact, events,
                      stored, last, high>>

Spec == Init /\ [][Next]_vars

-----------------------------------------------------------------------------
(* The properties of the four, each for the behaviours it is about. *)

Utilization == pattern = "utilization"
Tvl == pattern = "tvl"

\* An incident runs its course: its severity rises until it ends; a utilization
\* incident escalates once for each severity above its first, and resolves only
\* after the quiet readings its rule asks for, and never while it is announced
\* as held by a pause.
IncidentRunsItsCourse ==
    /\ [][(Utilization => U!NotLowered) /\ (Tvl => T!NotLowered)]_rows
    /\ [](Utilization =>
            U!EscalationsCounted /\ U!ResolutionConfirmed /\ U!NoResolutionWhileSuspended)

\* Of the rules that one event moves, the worst is told.
RaiseToldOrMasked == (Utilization => U!RaiseToldOrMasked) /\ (Tvl => T!RaiseToldOrMasked)

\* An alert is founded on what was observed: the alerts it lists as concurrent
\* are active, a drop is between two samples within the window of its rule, and
\* a systemic one has a breach of another protocol.
AlertIsFounded ==
    /\ Utilization => U!ConcurrentAlertsActive
    /\ Tvl => T!DropIsFounded /\ T!SystemicIsFounded

\* What a pattern keeps between events holds: the cooldown of a flash loan rule for
\* an address, through saves that fail, and through restarts once it was saved (a
\* late event may still alert when a later one has removed it), and the state of a
\* runtime rule, which is one that the runtime returned.
KeptStateHolds ==
    (pattern = "flash" => F!CooldownHolds) /\ (pattern = "runtime" => G!StateWasReturned)
=============================================================================
