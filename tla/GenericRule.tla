---------------------------- MODULE GenericRule ----------------------------
(***************************************************************************)
(* The generic rule pattern of the detector, patterns/generic_rule.rs, for *)
(* one tenant: the event is executed by the external sandbox runtime, rule *)
(* after rule, with the state the rule left behind; the first matched      *)
(* alert ends the event.  What the runtime answers is left open.           *)
(***************************************************************************)
EXTENDS Integers, Sequences, FiniteSets, SequencesExt

CONSTANTS
    Patterns,   \* pattern ids with runtime rules
    Builtin,    \* those of them that reload_config leaves to a pattern of its own
    Configs,    \* names of configurations that may be in the database
    Settings,   \* Settings[c][p]: the rules of pattern p, ids and engines
    Engines,    \* the engines that the runtime can execute
    MaxFaults   \* bound: failed calls and crashes

VARIABLES
    config,    \* the name of the configuration in force
    rows,      \* rows[r]: the persisted runtime state of a rule
    degraded,  \* degraded[r]: runtime_degraded
    work,      \* the event in hand
    faults     \* failed calls and crashes so far

vars == <<config, rows, degraded, work, faults>>

\* Rules without an id or with another engine are skipped.
CompiledRules(c, p) ==
    LET executable(r) == r.id # "" /\ r.engine \in Engines
    IN  IF p \in Builtin THEN <<>> ELSE SelectSeq(Settings[c][p], executable)

RuleKeys == {<<p, r.id>> : p \in Patterns, r \in
                UNION {{Settings[c][p][i] : i \in DOMAIN Settings[c][p]} :
                          c \in Configs, p \in Patterns}}

\* The state of a rule: none yet, one the runtime returned for an execution,
\* or the empty object that stands in for it after an HTTP error.
States == {"none", "returned", "empty"}

\* What execute_runtime may come back with: a report of the runtime, or the
\* one made up for an HTTP status or a payload that is not ok.
Reports == [ok : {TRUE}, state : {"returned"}, matched : BOOLEAN]
           \cup [ok : {FALSE}, state : {"returned", "empty"}, matched : {FALSE}]

Idle == [stage |-> "idle"]

TypeOK ==
    /\ config \in Configs
    /\ rows \in [RuleKeys -> States]
    /\ degraded \in [RuleKeys -> BOOLEAN]
    /\ work = Idle \/ work.stage = "alert" \/ (work.stage = "run" /\ work.todo \in Seq(RuleKeys))
    /\ faults \in 0 .. MaxFaults

Init ==
    /\ config \in Configs
    /\ rows = [r \in RuleKeys |-> "none"]
    /\ degraded = [r \in RuleKeys |-> FALSE]
    /\ work = Idle
    /\ faults = 0

Disturbed == faults < MaxFaults /\ faults' = faults + 1
Succeeds(ok) == IF ok THEN UNCHANGED faults ELSE Disturbed

\* The candidates: patterns in any order, the rules of each in theirs.
ProcessEvent(order) ==
    LET keys(p) == [i \in DOMAIN CompiledRules(config, p) |-> <<p, CompiledRules(config, p)[i].id>>]
    IN  /\ work = Idle
        /\ work' = [stage |-> "run",
                    todo |-> FlattenSeq([i \in DOMAIN order |-> keys(order[i])])]
        /\ UNCHANGED <<config, rows, degraded, faults>>

\* Mutant: the state of the report is stored whatever the report says.
StateAfterAny(r, report) == [rows EXCEPT ![r] = report.state]

\* Only the state of an execution that went well is stored.
StateAfter(r, report) == IF report.ok THEN [rows EXCEPT ![r] = report.state] ELSE rows

\* A failure is logged when it is the first of an outage.
Health(r, report) == [degraded EXCEPT ![r] = ~report.ok]

\* One rule is executed; its state is stored unless that fails; an alert
\* ends the event, and the rules after it never see it.
Execute(report) ==
    LET r == Head(work.todo)
    IN  /\ work.stage = "run" /\ work.todo # <<>>
        /\ \E saved \in IF report.ok THEN BOOLEAN ELSE {TRUE} :
              /\ Succeeds(saved)
              /\ rows' = IF saved THEN StateAfter(r, report) ELSE rows
        /\ degraded' = Health(r, report)
        /\ work' = IF report.matched THEN [stage |-> "alert", rule |-> r]
                   ELSE [work EXCEPT !.todo = Tail(@)]
        /\ UNCHANGED config

\* The row cannot be loaded or the runtime not be reached: the event ends.
ExecuteFails ==
    /\ Disturbed
    /\ work.stage = "run" /\ work.todo # <<>>
    /\ work' = Idle
    /\ UNCHANGED <<config, rows, degraded>>

\* detection_from_alert and the registry's publication, which may fail.
Publish ==
    /\ \/ work.stage = "alert" /\ \E sent \in BOOLEAN : Succeeds(sent)
       \/ work.stage = "run" /\ work.todo = <<>> /\ UNCHANGED faults
    /\ work' = Idle
    /\ UNCHANGED <<config, rows, degraded>>

ReloadConfig(c) ==
    /\ work = Idle
    /\ config # c
    /\ config' = c
    /\ UNCHANGED <<rows, degraded, work, faults>>

Crash ==
    /\ Disturbed
    /\ degraded' = [r \in RuleKeys |-> FALSE]
    /\ work' = Idle
    /\ UNCHANGED <<config, rows>>

Next ==
    \/ \E order \in SetToSeqs(Patterns) : ProcessEvent(order)
    \/ \E report \in Reports : Execute(report)
    \/ ExecuteFails
    \/ Publish
    \/ \E c \in Configs : ReloadConfig(c)
    \/ Crash

Spec == Init /\ [][Next]_vars

-----------------------------------------------------------------------------
(* Properties. *)

\* A rule is only ever resumed from a state the runtime returned for it: the
\* empty object made up for an HTTP error never reaches the database.
StateWasReturned == \A r \in RuleKeys : rows[r] # "empty"
=============================================================================
