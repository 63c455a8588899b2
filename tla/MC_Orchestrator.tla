-------------------------- MODULE MC_Orchestrator --------------------------
(***************************************************************************)
(* TLC instances of Orchestrator.                                          *)
(***************************************************************************)
EXTENDS Orchestrator, TLC

OneSubject == CHOOSE s \in Subjects : TRUE

\* Every event key is about one subject.
SharedSubject == [k \in Keys |-> OneSubject]

Report(k, sev, t, l) ==
    [key |-> k, severity |-> sev, transition |-> t, lifecycle |-> l, usable |-> TRUE]

Unusable(k) ==
    [key |-> k, severity |-> "high", transition |-> "trigger",
     lifecycle |-> "provisional", usable |-> FALSE]

\* Triggers at both severities, an escalation, a resolution, and one unusable.
MixedFeed ==
    UNION {{Report(k, "high", "trigger", "provisional"),
            Report(k, "critical", "escalate", "provisional"),
            Report(k, "high", "resolve", "resolved"),
            Unusable(k)} : k \in Keys}

TriggerFeed == {Report(k, s, "trigger", "provisional") : k \in Keys, s \in Severity}

\* A negative quota is no limit.
Unlimited == -1
=============================================================================
