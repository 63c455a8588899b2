--------------------------- MODULE CircuitBreaker ---------------------------
(***************************************************************************)
(* CircuitBreaker of crates/common/src/circuit_breaker.rs, shared by       *)
(* several callers: a state and two counters in atomics, and the time of   *)
(* the last transition behind a lock.  Each load, store, fetch_add and     *)
(* lock acquisition is a step of its own; nothing ties them together.      *)
(***************************************************************************)
EXTENDS Integers, FiniteSets

CONSTANTS
    Callers,           \* tasks that share the breaker
    FailureThreshold,  \* config.failure_threshold
    SuccessThreshold,  \* config.success_threshold
    MaxFailures        \* bound: calls that fail; from then on the service is well

ASSUME BreakerAssumption ==
    /\ FailureThreshold \in Nat \ {0}
    /\ SuccessThreshold \in Nat \ {0}
    /\ MaxFailures \in Nat

VARIABLES
    state,      \* the atomic state
    failures,   \* failure_count
    successes,  \* success_count
    timer,      \* the timeout since last_transition: "running" or "elapsed"
    pc,         \* where each caller is in call()
    target,     \* the state the caller's transition leads to
    failed      \* calls that have failed, for the bound

shared  == <<state, failures, successes, timer>>
vars    == <<shared, pc, target, failed>>

State == {"closed", "open", "half_open"}

Timer == {"running", "elapsed"}

PC == {"idle", "timing", "running", "succeeded", "failed", "count_success", "clear",
       "count_failure", "store", "reset_failures", "reset_successes", "stamp"}

Init ==
    /\ state = "closed" /\ failures = 0 /\ successes = 0
    /\ timer = "running"
    /\ pc = [c \in Callers |-> "idle"]
    /\ target = [c \in Callers |-> "closed"]
    /\ failed = 0

Goto(c, l) == pc' = [pc EXCEPT ![c] = l]

\* Begin transition_to_closed, _open or _half_open.
Begin(c, s) == Goto(c, "store") /\ target' = [target EXCEPT ![c] = s]

-----------------------------------------------------------------------------
(***************************************************************************)
(* can_attempt, and the call itself.                                       *)
(***************************************************************************)
LoadState(c) ==
    /\ pc[c] = "idle"
    /\ Goto(c, IF state = "open" THEN "timing" ELSE "running")
    /\ UNCHANGED <<shared, target, failed>>

\* Mutant: the timeout is never found to have elapsed.
CheckTimeoutNever(c) ==
    /\ pc[c] = "timing"
    /\ Goto(c, "idle")
    /\ UNCHANGED <<shared, target, failed>>

\* Fail fast, or go half-open when the timeout has elapsed.
CheckTimeout(c) ==
    /\ pc[c] = "timing"
    /\ IF timer = "elapsed" THEN Begin(c, "half_open") ELSE Goto(c, "idle") /\ UNCHANGED target
    /\ UNCHANGED <<shared, failed>>

\* f().await returns.
Succeed(c) ==
    /\ pc[c] = "running"
    /\ Goto(c, "succeeded")
    /\ UNCHANGED <<shared, target, failed>>

Fail(c) ==
    /\ pc[c] = "running" /\ failed < MaxFailures
    /\ Goto(c, "failed")
    /\ failed' = failed + 1
    /\ UNCHANGED <<shared, target>>

-----------------------------------------------------------------------------
(***************************************************************************)
(* on_success and on_failure.                                              *)
(***************************************************************************)
OnSuccess(c) ==
    /\ pc[c] = "succeeded"
    /\ Goto(c, CASE state = "half_open" -> "count_success"
                 [] state = "closed"    -> "clear"
                 [] state = "open"      -> "idle")
    /\ UNCHANGED <<shared, target, failed>>

CountSuccess(c) ==
    /\ pc[c] = "count_success"
    /\ successes' = successes + 1
    /\ IF successes' >= SuccessThreshold THEN Begin(c, "closed")
                                         ELSE Goto(c, "idle") /\ UNCHANGED target
    /\ UNCHANGED <<state, failures, timer, failed>>

ClearFailures(c) ==
    /\ pc[c] = "clear"
    /\ failures' = 0
    /\ Goto(c, "idle")
    /\ UNCHANGED <<state, successes, timer, target, failed>>

OnFailure(c) ==
    /\ pc[c] = "failed"
    /\ CASE state = "closed"    -> Goto(c, "count_failure") /\ UNCHANGED target
         [] state = "half_open" -> Begin(c, "open")
         [] state = "open"      -> Goto(c, "idle") /\ UNCHANGED target
    /\ UNCHANGED <<shared, failed>>

\* Mutant: > instead of >=.
CountFailureLate(c) ==
    /\ pc[c] = "count_failure"
    /\ failures' = failures + 1
    /\ IF failures' > FailureThreshold THEN Begin(c, "open")
                                       ELSE Goto(c, "idle") /\ UNCHANGED target
    /\ UNCHANGED <<state, successes, timer, failed>>

CountFailure(c) ==
    /\ pc[c] = "count_failure"
    /\ failures' = failures + 1
    /\ IF failures' >= FailureThreshold THEN Begin(c, "open")
                                        ELSE Goto(c, "idle") /\ UNCHANGED target
    /\ UNCHANGED <<state, successes, timer, failed>>

-----------------------------------------------------------------------------
(***************************************************************************)
(* transition_to_closed, transition_to_open and transition_to_half_open:   *)
(* the state first, then the counters, then the time.                      *)
(***************************************************************************)
StoreState(c) ==
    /\ pc[c] = "store"
    /\ state' = target[c]
    /\ Goto(c, IF target[c] = "open" THEN "reset_successes" ELSE "reset_failures")
    /\ UNCHANGED <<failures, successes, timer, target, failed>>

ResetFailures(c) ==
    /\ pc[c] = "reset_failures"
    /\ failures' = 0
    /\ Goto(c, "reset_successes")
    /\ UNCHANGED <<state, successes, timer, target, failed>>

ResetSuccesses(c) ==
    /\ pc[c] = "reset_successes"
    /\ successes' = 0
    /\ Goto(c, "stamp")
    /\ UNCHANGED <<state, failures, timer, target, failed>>

\* last_transition = now; a caller that went half-open makes its call.
Stamp(c) ==
    /\ pc[c] = "stamp"
    /\ timer' = "running"
    /\ Goto(c, IF target[c] = "half_open" THEN "running" ELSE "idle")
    /\ UNCHANGED <<state, failures, successes, target, failed>>

\* The timeout passes without a transition.
Tick ==
    /\ timer = "running" /\ timer' = "elapsed"
    /\ UNCHANGED <<state, failures, successes, pc, target, failed>>

Step(c) ==
    \/ LoadState(c) \/ CheckTimeout(c) \/ Succeed(c)
    \/ OnSuccess(c) \/ CountSuccess(c) \/ ClearFailures(c) \/ OnFailure(c) \/ CountFailure(c)
    \/ StoreState(c) \/ ResetFailures(c) \/ ResetSuccesses(c) \/ Stamp(c)

Next == (\E c \in Callers : Step(c) \/ Fail(c)) \/ Tick

Spec == Init /\ [][Next]_vars

\* Callers keep calling, calls return, and time passes.
FairSpec == Spec /\ WF_vars(Tick) /\ \A c \in Callers : WF_vars(Step(c))

-----------------------------------------------------------------------------
(***************************************************************************)
(* Properties.                                                             *)
(***************************************************************************)
TypeOK ==
    /\ state \in State /\ failures \in Nat /\ successes \in Nat /\ timer \in Timer
    /\ pc \in [Callers -> PC] /\ target \in [Callers -> State]
    /\ failed \in Nat

\* A caller that is in no operation of the breaker.
Outside(c) == pc[c] \in {"idle", "running"}

\* The breaker never misses a trip or a recovery: whenever every caller is
\* outside it, a closed breaker has counted fewer failures than the threshold
\* and a half-open one fewer successes, in whatever order loads, counts, stores
\* and resets of concurrent calls fell (on_failure, on_success).
NoMissedTransition ==
    (\A c \in Callers : Outside(c)) =>
        /\ state = "closed" => failures < FailureThreshold
        /\ state = "half_open" => successes < SuccessThreshold

\* After the last failure of the service the breaker closes for good: no
\* interleaving leaves it open, or half-open with its successes reset for ever.
Recovers == <>[](state = "closed")

=============================================================================
