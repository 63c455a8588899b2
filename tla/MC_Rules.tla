------------------------------ MODULE MC_Rules ------------------------------
(***************************************************************************)
(* Values for model checking Rules: configurations that are reloaded, and  *)
(* events that come in any order and any number of times.                  *)
(***************************************************************************)
EXTENDS Rules, TLC

\* High utilization: a rule of the market and a stricter one of the protocol,
\* which is invalid, for want of a hysteresis gap, after a reload.
UtilizationRule(id, scope, m, low) ==
    [id |-> id, scope |-> scope, market |-> m, enabled |-> TRUE,
     threshold |-> (2 :> low) @@ (3 :> low + 5) @@ (4 :> low + 10),
     resolution |-> (2 :> low - 3) @@ (3 :> low - 2) @@ (4 :> low - 2),
     blocks |-> 2, floor |-> 10]

UtilizationSettings ==
    LET market   == UtilizationRule("m", "market", "m1", 85)
        protocol == UtilizationRule("p", "protocol", NoMarket, 80)
    IN  ("both" :> <<market, protocol>>)
        @@ ("gapless" :> <<[protocol EXCEPT !.resolution[2] = 80]>>)

Reading(raw, tvl) ==
    [kind |-> "reading", market |-> "m1", raw |-> raw, tvl |-> tvl, paused |-> FALSE]
PauseEvent(m, p) == [kind |-> "pause", market |-> m, raw |-> 0, tvl |-> 0, paused |-> p]

Readings == {Reading(70, 0), Reading(86, 0), Reading(9100, 0), Reading(9100, 5),
             PauseEvent("m1", TRUE), PauseEvent(NoMarket, FALSE)}

SmallUtilization ==
    [markets |-> {"m1"}, ruleIds |-> {"p", "m"}, feed |-> Readings,
     settings |-> UtilizationSettings, cacheTTL |-> 1, maxEntries |-> 1, maxTime |-> 1,
     maxCalm |-> 1]

\* TVL drop: two rules for one protocol, of different patience, one for another.
TvlRule(id, p, scope, m) ==
    [id |-> id, protocol |-> p, scope |-> scope, market |-> m, enabled |-> TRUE,
     fast |-> 20, fastWindow |-> 1, slow |-> 35, slowWindow |-> 2,
     velocity |-> 50, velocityWindow |-> 1, concurrentWindow |-> 1, floor |-> 30,
     contagion |-> TRUE]

TvlDefault == TvlRule("r1", "A", "protocol", NoMarket)

TvlSettings ==
    LET hasty == [TvlRule("r2", "A", "market", "m1") EXCEPT !.velocity = 30, !.velocityWindow = 2]
    IN  ("two" :> <<hasty, TvlDefault, TvlRule("r3", "B", "protocol", NoMarket)>>)
        @@ ("none" :> <<[TvlDefault EXCEPT !.fast = 0]>>)

TvlKeys == {[rule |-> "r1", protocol |-> "A", subject |-> NoMarket],
            [rule |-> "r2", protocol |-> "A", subject |-> "m1"],
            [rule |-> "r3", protocol |-> "B", subject |-> NoMarket]}

Sample(p, v, deposit, t) ==
    [kind |-> "sample", protocol |-> p, market |-> "m1", tvl |-> v,
     deposit |-> deposit, stale |-> "absent", at |-> t]
TvlPause(kind, t) ==
    [kind |-> kind, protocol |-> "A", market |-> NoMarket, tvl |-> 0,
     deposit |-> "absent", stale |-> "absent", at |-> t]

\* The order in which they come is open, and so is how often.
Samples ==
    {Sample("A", 0, "absent", 0), Sample("A", 100, "no", 1), Sample("B", 100, "absent", 0),
     TvlPause("pause", 1), TvlPause("unpause", 2)}
    \cup {Sample("A", 70, "yes", t) : t \in 0 .. 2}
    \cup {Sample("B", 50, "absent", t) : t \in 0 .. 2}

SmallTvl ==
    [feed |-> Samples, settings |-> TvlSettings, keys |-> TvlKeys, defaultRule |-> TvlDefault,
     fastCritical |-> 1, cliffWindow |-> 1, linearBound |-> 1, cacheTTL |-> 1, maxEntries |-> 2,
     maxTime |-> 2, maxSamples |-> 3, maxEvents |-> 4]

\* Flash loans: two rules, one attacker; a reload leaves the default rule.
FlashRule(id, loan, cooldown) ==
    [id |-> id, minLoan |-> loan, profit |-> 1, cooldown |-> cooldown, enabled |-> TRUE]
FlashSettings == ("two" :> <<FlashRule("big", 5, 2), FlashRule("any", 1, 3)>>) @@ ("none" :> <<>>)
Loans == {[attacker |-> "a", loan |-> 9, profit |-> 1], [attacker |-> "a", loan |-> 2, profit |-> 1],
          [attacker |-> "b", loan |-> 2, profit |-> 1]}

SmallFlash ==
    [attackers |-> {"a", "b"}, ruleIds |-> {"big", "any"}, feed |-> Loans,
     settings |-> FlashSettings, defaultRule |-> FlashRule("any", 5, 1), maxTime |-> 3]

\* Runtime rules of two patterns, one of them for an engine nobody runs.
RuntimeRule(id, engine) == [id |-> id, engine |-> engine]
RuntimeSettings ==
    LET rules == <<RuntimeRule("a", "js"), RuntimeRule("b", "js"), RuntimeRule("", "js"), RuntimeRule("c", "cel")>>
    IN  [c \in {"some", "none"} |-> [p \in {"x", "y", "depeg"} |->
            IF c = "none" /\ p = "y" THEN <<>> ELSE rules]]

SmallRuntime ==
    [patterns |-> {"x", "y", "depeg"}, builtin |-> {"depeg"}, engines |-> {"js", "python"},
     settings |-> RuntimeSettings]
=============================================================================
