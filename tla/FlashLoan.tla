----------------------------- MODULE FlashLoan -----------------------------
(***************************************************************************)
(* The flash loan pattern of the detector, patterns/flash_loan.rs, for one *)
(* tenant: the first rule a loan satisfies alerts, unless the attacker's   *)
(* address is in the cooldown of that rule.  All cooldowns are one row of  *)
(* the database, loaded once by each process and written back whole.       *)
(***************************************************************************)
EXTENDS Integers, Sequences, FiniteSets, FiniteSetsExt

CONSTANTS
    Detectors,    \* processes of the consumer group detector-workers
    Attackers,    \* addresses
    RuleIds,      \* rule ids
    Feed,         \* attacker, loan and profit of the loans there may be
    Configs,      \* names of configurations that may be in the database
    Settings,     \* the list of rules each of them holds
    DefaultRule,  \* default_flash_rule
    MaxTime,      \* bound: event timestamps
    MaxFaults     \* bound: failed calls and crashes

None  == -1
Times == 0 .. MaxTime
Keys  == RuleIds \X Attackers

VARIABLES
    config,  \* config[d]: the name of the configuration in force
    cache,   \* cache[d]: cooldown_until of each key, NotLoaded before the first event
    stored,  \* the persisted row "cooldowns"
    work,    \* work[d]: the alert being persisted and published
    faults,  \* failed calls and crashes so far
    last,    \* history: until when the newest alert of each key forbids another
    high,    \* history: the newest timestamp processed since then
    intact   \* history: has no restart lost the cooldown of that alert?

vars == <<config, cache, stored, work, faults, last, high, intact>>

\* A cooldown that is not there has passed.
NoCooldowns == [k \in Keys |-> None]
NotLoaded   == [k \in {} |-> None]
Idle        == [stage |-> "idle"]

\* Without a usable rule there is the default one.
ParseFlashLoanRules(c) == IF Settings[c] = <<>> THEN <<DefaultRule>> ELSE Settings[c]

Satisfies(e, r) == r.enabled /\ e.loan >= r.minLoan /\ e.profit >= r.profit

\* Mutant: a restarted detector begins without cooldowns.
LoadNothing(d) == NoCooldowns

\* Loaded once per process, from the cache ever after.
LoadState(d) == IF cache[d] = NotLoaded THEN stored ELSE cache[d]

\* cooldowns.retain: what has expired at t is removed.
Retain(c, t) == [k \in Keys |-> IF c[k] > t THEN c[k] ELSE None]

ApplyCooldown(c, k, until) == [c EXCEPT ![k] = until]

TypeOK ==
    /\ config \in [Detectors -> Configs]
    /\ \A d \in Detectors : cache[d] = NotLoaded \/ cache[d] \in [Keys -> {None} \cup Nat]
    /\ stored \in [Keys -> {None} \cup Nat]
    /\ \A d \in Detectors :
          work[d] = Idle \/ work[d] \in [stage : {"save", "publish"}, key : Keys, at : Times]
    /\ faults \in 0 .. MaxFaults
    /\ last \in [Keys -> {None} \cup Nat] /\ high \in [Keys -> {None} \cup Times]
    /\ intact \in [Keys -> BOOLEAN]

Init ==
    /\ config \in [Detectors -> Configs]
    /\ cache = [d \in Detectors |-> NotLoaded]
    /\ stored = NoCooldowns
    /\ work = [d \in Detectors |-> Idle]
    /\ faults = 0
    /\ last = [k \in Keys |-> None]
    /\ high = [k \in Keys |-> None]
    /\ intact = [k \in Keys |-> TRUE]

Disturbed == faults < MaxFaults /\ faults' = faults + 1
Succeeds(ok) == IF ok THEN UNCHANGED faults ELSE Disturbed

\* A loan: the first rule that it satisfies, and whose cooldown is over,
\* starts its cooldown in the cache.
ProcessEvent(d, e, t) ==
    LET rules == ParseFlashLoanRules(config[d])
        c     == Retain(LoadState(d), t)
        key(i) == <<rules[i].id, e.attacker>>
        due   == {i \in DOMAIN rules : Satisfies(e, rules[i]) /\ c[key(i)] <= t}
        first == Min(due)
        seen  == [k \in Keys |-> Max({high[k], t})]
    IN  /\ work[d] = Idle
        /\ IF due = {}
           THEN /\ cache' = [cache EXCEPT ![d] = c]
                /\ high' = seen
                /\ UNCHANGED work
           ELSE /\ cache' = [cache EXCEPT ![d] =
                       ApplyCooldown(c, key(first), t + rules[first].cooldown)]
                /\ high' = seen
                /\ work' = [work EXCEPT ![d] = [stage |-> "save", key |-> key(first), at |-> t]]
        /\ UNCHANGED <<config, stored, faults, last, intact>>

\* The row cannot be loaded: the event is skipped, the next one tries again.
LoadFails(d) ==
    /\ Disturbed
    /\ work[d] = Idle /\ cache[d] = NotLoaded
    /\ UNCHANGED <<config, cache, stored, work, last, high, intact>>

\* The whole cache is written; a failure to do so is ignored.
Save(d) ==
    LET k == work[d].key
    IN  /\ work[d].stage = "save"
        /\ \E saved \in BOOLEAN :
              /\ Succeeds(saved)
              /\ stored' = IF saved THEN cache[d] ELSE stored
              /\ intact' = [intact EXCEPT ![k] = TRUE]
        /\ last' = [last EXCEPT ![k] = cache[d][k]]
        /\ high' = [high EXCEPT ![k] = work[d].at]
        /\ work' = [work EXCEPT ![d].stage = "publish"]
        /\ UNCHANGED <<config, cache>>

\* build_detection and the registry's publication, which may fail.
Publish(d) ==
    /\ work[d].stage = "publish"
    /\ \E sent \in BOOLEAN : Succeeds(sent)
    /\ work' = [work EXCEPT ![d] = Idle]
    /\ UNCHANGED <<config, cache, stored, last, high, intact>>

ReloadConfig(d, c) ==
    /\ work[d] = Idle
    /\ config[d] # c
    /\ config' = [config EXCEPT ![d] = c]
    /\ UNCHANGED <<cache, stored, work, faults, last, high, intact>>

Crash(d) ==
    /\ Disturbed
    /\ cache' = [cache EXCEPT ![d] = NotLoaded]
    /\ work' = [work EXCEPT ![d] = Idle]
    /\ intact' = [k \in Keys |-> intact[k] /\ stored[k] >= last[k]]
    /\ UNCHANGED <<config, stored, last, high>>

Next ==
    \E d \in Detectors :
        \/ \E e \in Feed, t \in Times : ProcessEvent(d, e, t)
        \/ LoadFails(d)
        \/ Save(d)
        \/ Publish(d)
        \/ \E c \in Configs : ReloadConfig(d, c)
        \/ Crash(d)

Spec == Init /\ [][Next]_vars

-----------------------------------------------------------------------------
(* Properties. *)

\* One process: others would not see each other's cooldowns.
Alone == \E d \in Detectors : Detectors = {d}

\* A rule alerts again for an address only after its cooldown, through saves that
\* fail, restarts and other alerts, unless the process died before any save wrote
\* the cooldown; or else an event from after the cooldown was processed, and a late
\* one came to find the cooldown removed.
CooldownHolds ==
    Alone => \A d \in Detectors :
        LET k == work[d].key
        IN  work[d].stage = "save" /\ intact[k] =>
                work[d].at >= last[k] \/ high[k] >= last[k]
=============================================================================
