--------------------------- MODULE DeliveryProofs ---------------------------
(***************************************************************************)
(* Theorems about the parts of MC_Delivery: the circuit breaker, for any   *)
(* number of callers and any thresholds, the dead letter queue, for any    *)
(* number of callers and any limit, the detectors of the run, which are an *)
(* instance of what DetectorProofs proves of any, and the history worker,  *)
(* for any rows, any batch size and any scenario files.                    *)
(***************************************************************************)
EXTENDS MC_Delivery, FiniteSetTheorems, WellFoundedInduction, TLAPS

-----------------------------------------------------------------------------
(* The circuit breaker. *)


\* The type of everything the breaker keeps is preserved by every load, count,
\* store and reset of call(), for any set of callers.
THEOREM TypeCorrect == Spec => []TypeOK
<1>1. Init => TypeOK
  BY BreakerAssumption DEF Init, TypeOK, State, Timer, PC
<1>2. TypeOK /\ [Next]_vars => TypeOK'
  <2> SUFFICES ASSUME TypeOK, [Next]_vars PROVE TypeOK'
    OBVIOUS
  <2> USE DEF TypeOK, State, Timer, PC, Goto, Begin, shared
  <2>1. ASSUME NEW c \in Callers, Step(c) PROVE TypeOK'
    <3>1. CASE LoadState(c) \/ Succeed(c)
      BY <3>1 DEF LoadState, Succeed
    <3>2. CASE CheckTimeout(c)
      BY <3>2 DEF CheckTimeout
    <3>3. CASE OnSuccess(c)
      <4>1. PICK l \in PC : pc' = [pc EXCEPT ![c] = l]
        BY <3>3 DEF OnSuccess
      <4> QED BY <3>3, <4>1 DEF OnSuccess
    <3>4. CASE CountSuccess(c) \/ ClearFailures(c)
      BY <3>4 DEF CountSuccess, ClearFailures
    <3>5. CASE OnFailure(c)
      BY <3>5 DEF OnFailure
    <3>6. CASE CountFailure(c)
      BY <3>6 DEF CountFailure
    <3>7. CASE StoreState(c)
      BY <3>7 DEF StoreState
    <3>8. CASE ResetFailures(c) \/ ResetSuccesses(c) \/ Stamp(c)
      BY <3>8 DEF ResetFailures, ResetSuccesses, Stamp
    <3> QED BY <2>1, <3>1, <3>2, <3>3, <3>4, <3>5, <3>6, <3>7, <3>8 DEF Step
  <2>2. ASSUME NEW c \in Callers, Fail(c) PROVE TypeOK'
    BY <2>2 DEF Fail
  <2>3. CASE Tick
    BY <2>3 DEF Tick
  <2>4. CASE UNCHANGED vars
    BY <2>4 DEF vars
  <2> QED BY <2>1, <2>2, <2>3, <2>4 DEF Next
<1> QED BY <1>1, <1>2, PTL DEF Spec

-----------------------------------------------------------------------------
(***************************************************************************)
(* NoMissedTransition is not inductive: it says nothing while a caller is  *)
(* inside the breaker.  What holds throughout is that a counter at its     *)
(* threshold has a witness, a caller that is about to make the transition  *)
(* or about to reset the counter because it made the opposite one.         *)
(***************************************************************************)
WillTrip(c) ==
    \/ pc[c] = "store" /\ target[c] = "open"
    \/ pc[c] = "reset_failures"

WillClose(c) ==
    \/ pc[c] = "store" /\ target[c] = "closed"
    \/ pc[c] = "reset_failures"
    \/ pc[c] = "reset_successes"

Witnessed ==
    /\ state = "closed" /\ failures >= FailureThreshold => \E c \in Callers : WillTrip(c)
    /\ state = "half_open" /\ successes >= SuccessThreshold => \E c \in Callers : WillClose(c)

\* Every count that reached its threshold is owned by a caller that has yet to
\* act on it, through every interleaving of call().
LEMMA WitnessedHolds == Spec => []Witnessed
<1>1. Init => Witnessed
  BY BreakerAssumption DEF Init, Witnessed
<1>2. TypeOK /\ Witnessed /\ [Next]_vars => Witnessed'
  <2> SUFFICES ASSUME TypeOK, Witnessed, [Next]_vars PROVE Witnessed'
    OBVIOUS
  <2> USE BreakerAssumption DEF TypeOK, Witnessed, WillTrip, WillClose, Goto, Begin, shared
  <2>1. ASSUME NEW c \in Callers, Step(c) PROVE Witnessed'
    <3>1. CASE LoadState(c) \/ Succeed(c)
      BY <3>1 DEF LoadState, Succeed
    <3>2. CASE CheckTimeout(c)
      BY <3>2 DEF CheckTimeout
    <3>3. CASE OnSuccess(c)
      BY <3>3 DEF OnSuccess
    <3>4. CASE CountSuccess(c)
      BY <3>4 DEF CountSuccess
    <3>5. CASE ClearFailures(c)
      BY <3>5 DEF ClearFailures
    <3>6. CASE OnFailure(c)
      BY <3>6 DEF OnFailure
    <3>7. CASE CountFailure(c)
      BY <3>7 DEF CountFailure
    <3>8. CASE StoreState(c)
      BY <3>8 DEF StoreState, State
    <3>9. CASE ResetFailures(c)
      BY <3>9 DEF ResetFailures
    <3>10. CASE ResetSuccesses(c)
      BY <3>10 DEF ResetSuccesses
    <3>11. CASE Stamp(c)
      BY <3>11 DEF Stamp
    <3> QED BY <2>1, <3>1, <3>2, <3>3, <3>4, <3>5, <3>6, <3>7, <3>8, <3>9, <3>10, <3>11 DEF Step
  <2>2. ASSUME NEW c \in Callers, Fail(c) PROVE Witnessed'
    BY <2>2 DEF Fail
  <2>3. CASE Tick
    BY <2>3 DEF Tick
  <2>4. CASE UNCHANGED vars
    BY <2>4 DEF vars
  <2> QED BY <2>1, <2>2, <2>3, <2>4 DEF Next
<1> QED BY <1>1, <1>2, TypeCorrect, PTL DEF Spec

\* A breaker nobody is inside of has acted on every count that reached its
\* threshold: no interleaving of on_success and on_failure loses a trip or a
\* recovery.
THEOREM NoMissedTransitionHolds == Spec => []NoMissedTransition
<1>1. TypeOK /\ Witnessed => NoMissedTransition
  BY BreakerAssumption DEF TypeOK, Witnessed, WillTrip, WillClose, NoMissedTransition, Outside
<1> QED BY <1>1, TypeCorrect, WitnessedHolds, PTL

-----------------------------------------------------------------------------
(* The dead letter queue. *)

QueueShape ==
    /\ row \in {Q!Absent} \cup Nat /\ read \in [QueueCallers -> {Q!Absent} \cup Nat]
    /\ caller \in [QueueCallers -> Q!Places] /\ succeeded \in Nat

\* The row is deleted only after a success; a caller that is about to write
\* back a count has seen the row.
QueueKept ==
    \A c \in QueueCallers :
        /\ caller[c] = "remove" => succeeded > 0
        /\ caller[c] = "stopped" \/ (caller[c] = "write" /\ read[c] # Q!Absent)
              => row # Q!Absent \/ succeeded > 0

LEMMA QueueKeptInit == Q!Init => QueueShape /\ QueueKept
  BY DEF Q!Init, QueueShape, QueueKept, Q!Absent, Q!Places

\* The row and the count that was read are numbers, the callers are somewhere.
LEMMA QueueShapeStep == QueueShape /\ [Q!Next]_Q!vars => QueueShape'
<1> SUFFICES ASSUME QueueShape, [Q!Next]_Q!vars PROVE QueueShape'
  OBVIOUS
<1> USE DEF QueueShape, Q!Absent, Q!Places, Q!Goto
<1>1. CASE UNCHANGED Q!vars
  BY <1>1 DEF Q!vars
<1>2. ASSUME NEW c \in QueueCallers, Q!Step(c) PROVE QueueShape'
  <2>1. CASE Q!Ask(c)
    BY <2>1 DEF Q!Ask
  <2>2. CASE Q!ReadCount(c)
    BY <2>2 DEF Q!ReadCount
  <2>3. CASE Q!Update(c)
    BY <2>3 DEF Q!Update, Q!Updated, Q!NewRetryCount
  <2>4. CASE Q!Insert(c)
    BY <2>4 DEF Q!Insert
  <2>5. CASE Q!Remove(c)
    BY <2>5 DEF Q!Remove
  <2>6. ASSUME NEW ok \in BOOLEAN, Q!Attempt(c, ok) PROVE QueueShape'
    BY <2>6 DEF Q!Attempt
  <2> QED BY <1>2, <2>1, <2>2, <2>3, <2>4, <2>5, <2>6 DEF Q!Step
<1> QED BY <1>1, <1>2 DEF Q!Next

LEMMA QueueKeptStep == QueueShape /\ QueueKept /\ [Q!Next]_Q!vars => QueueKept'
<1> SUFFICES ASSUME QueueShape, QueueKept, [Q!Next]_Q!vars PROVE QueueKept'
  OBVIOUS
<1> USE DEF QueueShape, QueueKept, Q!Absent, Q!Places, Q!Goto
<1>1. CASE UNCHANGED Q!vars
  BY <1>1 DEF Q!vars
<1>2. ASSUME NEW c \in QueueCallers, Q!Step(c) PROVE QueueKept'
  <2>1. CASE Q!Ask(c)
    BY <2>1 DEF Q!Ask, Q!ShouldRetry
  <2>2. CASE Q!ReadCount(c)
    BY <2>2 DEF Q!ReadCount
  <2>3. CASE Q!Update(c)
    BY <2>3 DEF Q!Update, Q!Updated, Q!NewRetryCount
  <2>4. CASE Q!Insert(c)
    BY <2>4 DEF Q!Insert
  <2>5. CASE Q!Remove(c)
    BY <2>5 DEF Q!Remove
  <2>6. ASSUME NEW ok \in BOOLEAN, Q!Attempt(c, ok) PROVE QueueKept'
    BY <2>6 DEF Q!Attempt
  <2> QED BY <1>2, <2>1, <2>2, <2>3, <2>4, <2>5, <2>6 DEF Q!Step
<1> QED BY <1>1, <1>2 DEF Q!Next

\* How many callers have given up or are done.
StoppedIn(places) == Cardinality({c \in QueueCallers : places[c] = "stopped"})

\* With a limit of one the failure that inserts the row reaches the limit, and
\* its caller does not stop: it asks first.
Spare == MaxRetries = 1 /\ row >= 1 /\ \E c \in QueueCallers : caller[c] = "ask"

\* Who writes a count from the limit on stops: the row, and a count that was
\* read and is about to be written back, pass it by the callers that stopped.
Within(n) ==
    \/ n <= MaxRetries - 1 + StoppedIn(caller)
    \/ n <= MaxRetries + StoppedIn(caller) /\ Spare

QueueCount ==
    /\ Within(row)
    /\ \A c \in QueueCallers : caller[c] = "write" => Within(read[c])

\* A caller that leaves its place counts from then on if it stops.
LEMMA StoppedCount ==
    ASSUME IsFiniteSet(QueueCallers), NEW places \in [QueueCallers -> Q!Places], NEW c \in QueueCallers, NEW p,
           places[c] # "stopped"
    PROVE  /\ StoppedIn(places) \in Nat
           /\ StoppedIn(places) < Cardinality(QueueCallers)
           /\ StoppedIn([places EXCEPT ![c] = p])
                = IF p = "stopped" THEN StoppedIn(places) + 1 ELSE StoppedIn(places)
<1> DEFINE S == {b \in QueueCallers : places[b] = "stopped"}
           T == {b \in QueueCallers : [places EXCEPT ![c] = p][b] = "stopped"}
<1>1. S \subseteq QueueCallers /\ S # QueueCallers /\ IsFiniteSet(S) /\ Cardinality(S) \in Nat
  BY FS_Subset, FS_CardinalityType
<1>2. Cardinality(S) < Cardinality(QueueCallers)
  BY <1>1, FS_Subset, FS_CardinalityType
<1>3. Cardinality(S \cup {c}) = Cardinality(S) + 1
  BY <1>1, FS_AddElement
<1>4. T = IF p = "stopped" THEN S \cup {c} ELSE S
  OBVIOUS
<1> QED BY <1>1, <1>2, <1>3, <1>4 DEF StoppedIn

LEMMA QueueCountInit ==
    ASSUME IsFiniteSet(QueueCallers), MaxRetries \in Nat \ {0}, Q!Init PROVE QueueCount
<1> DEFINE S == {b \in QueueCallers : caller[b] = "stopped"}
<1>1. S = {} /\ row = -1 /\ \A c \in QueueCallers : caller[c] # "write"
  BY DEF Q!Init, Q!Absent
<1>2. StoppedIn(caller) = 0
  BY <1>1, FS_EmptySet DEF StoppedIn
<1> QED BY <1>1, <1>2 DEF QueueCount, Within

LEMMA QueueCountStep ==
    ASSUME IsFiniteSet(QueueCallers), MaxRetries \in Nat \ {0},
           QueueShape, QueueShape', QueueCount, [Q!Next]_Q!vars
    PROVE  QueueCount'
<1>1. CASE UNCHANGED Q!vars
  <2>1. row' = row /\ caller' = caller /\ read' = read
    BY <1>1 DEF Q!vars
  <2> QED BY <2>1 DEF QueueCount, Within, Spare
<1>2. ASSUME NEW c \in QueueCallers, Q!Step(c) PROVE QueueCount'
  <2> DEFINE n == StoppedIn(caller)
             m == StoppedIn(caller')
  <2>1. caller[c] # "stopped" /\ caller' = [caller EXCEPT ![c] = caller'[c]]
    BY <1>2 DEF Q!Step, Q!Ask, Q!ReadCount, Q!Update, Q!Insert, Q!Remove, Q!Attempt, Q!Goto, QueueShape
  <2>2. n \in Nat /\ m = IF caller'[c] = "stopped" THEN n + 1 ELSE n
    BY <2>1, StoppedCount DEF QueueShape
  <2> HIDE DEF n, m
  <2>3. \A x : Within(x) <=> x <= MaxRetries - 1 + n \/ (x <= MaxRetries + n /\ Spare)
    BY DEF Within, n
  <2>4. QueueCount' <=>
           /\ row' <= MaxRetries - 1 + m \/ (row' <= MaxRetries + m /\ Spare')
           /\ \A b \in QueueCallers : caller'[b] = "write" =>
                 read'[b] <= MaxRetries - 1 + m \/ (read'[b] <= MaxRetries + m /\ Spare')
    BY DEF QueueCount, Within, m
  <2>5. \A b \in QueueCallers : b # c => caller'[b] = caller[b]
    BY <2>1 DEF QueueShape
  <2> USE <2>2, <2>3, <2>4, <2>5 DEF QueueShape, QueueCount, Q!Absent, Q!Goto
  <2>6. CASE Q!Ask(c)
    BY <2>6 DEF Q!Ask, Q!ShouldRetry, Spare
  <2>7. CASE Q!ReadCount(c)
    BY <2>7 DEF Q!ReadCount, Spare
  <2>8. CASE Q!Update(c)
    BY <2>8 DEF Q!Update, Q!Updated, Q!NewRetryCount, Spare
  <2>9. CASE Q!Insert(c)
    BY <2>9 DEF Q!Insert, Spare
  <2>10. CASE Q!Remove(c)
    BY <2>10 DEF Q!Remove, Spare
  <2>11. ASSUME NEW ok \in BOOLEAN, Q!Attempt(c, ok) PROVE QueueCount'
    BY <2>11 DEF Q!Attempt, Spare
  <2> QED BY <1>2, <2>6, <2>7, <2>8, <2>9, <2>10, <2>11 DEF Q!Step
<1> QED BY <1>1, <1>2 DEF Q!Next

QueueInv == QueueShape /\ QueueKept /\ QueueCount

LEMMA QueueInvStep == QueueInv /\ [Q!Next]_Q!vars => QueueInv'
  BY QueueAssumption, QueueShapeStep, QueueKeptStep, QueueCountStep DEF QueueInv

LEMMA QueueInvSuffices == QueueInv => Q!GivenUpIsKept /\ Q!CountBounded
<1> SUFFICES ASSUME QueueShape, QueueKept, QueueCount PROVE Q!GivenUpIsKept /\ Q!CountBounded
  BY DEF QueueInv
<1>1. Q!GivenUpIsKept
  BY DEF QueueKept, Q!GivenUpIsKept
<1>2. Cardinality(QueueCallers) \in Nat /\ StoppedIn(caller) \in Nat
      /\ StoppedIn(caller) <= Cardinality(QueueCallers)
  BY QueueAssumption, FS_CardinalityType, FS_Subset DEF StoppedIn
<1>3. Spare => StoppedIn(caller) < Cardinality(QueueCallers)
  BY QueueAssumption, StoppedCount DEF Spare, QueueShape
<1>4. Q!Cardinality(QueueCallers) = Cardinality(QueueCallers)
  BY DEF Q!Cardinality, Cardinality
<1>5. Q!CountBounded
  BY QueueAssumption, <1>2, <1>3, <1>4 DEF QueueCount, Within, Q!CountBounded, QueueShape, Q!Absent
<1> QED BY <1>1, <1>5

-----------------------------------------------------------------------------
(* The detectors of the run, as DetectorProofs sees them. *)

P == INSTANCE DetectorProofs WITH
        Detectors <- {"d1"}, Patterns <- 2, Kinds <- {"ok", "bad", "empty"}, MaxLen <- 2,
        BatchSize <- 2, MaxEntries <- 2, MaxConfig <- 2, MaxCommands <- 1, MaxFaults <- 1

PP == INSTANCE DetectorProofs WITH
        Detectors <- {"d1", "d2"}, Patterns <- 1, Kinds <- {"ok"}, MaxLen <- 1,
        BatchSize <- 2, MaxEntries <- 2, MaxConfig <- 1, MaxCommands <- 0, MaxFaults <- 1

\* The proofs of DetectorProofs are about the detector of the run,
LEMMA SameDetector ==
    /\ D!Init => P!Init
    /\ [D!Next]_D!vars => [P!Next]_P!vars
    /\ P!HandledOnce => D!TakenUpOnce /\ D!AcknowledgedWasSeen /\ D!DetectionsPublished
    /\ P!DetectorSizes
<1>1. D!Init => P!Init
  BY DEF D!Init, P!Init, D!New, P!New
<1>2. [D!Next]_D!vars => [P!Next]_P!vars
  BY DEF
        D!streamVars, D!history, D!vars, D!Handling, D!Ids, D!Fault, D!May, D!At, D!Goto,
        D!Publish, D!Undelivered, D!ReplyFor, D!DeliverTo, D!CommandReady, D!OtherReady,
        D!Reading, D!Advance, D!DropRead, D!LoadTenantPatternConfigs, D!LoadConfig, D!Reload,
        D!Tick, D!Command, D!CommandClosed, D!Reply, D!ReadFails, D!Timer, D!RequestReload,
        D!ServerEnds, D!ChangeConfig, D!Entry, D!Hit, D!Begin, D!NextPattern, D!AfterError,
        D!Evaluate, D!AfterSave, D!InsertDetection, D!SaveDetection, D!PublishDetection,
        D!NextEntry, D!Ack, D!Crash, D!Restart, D!Step, D!Next, D!New, D!Max, D!Min,
        D!Cardinality,
        P!streamVars, P!history, P!vars, P!Handling, P!Ids, P!Fault, P!May, P!At, P!Goto,
        P!Publish, P!Undelivered, P!ReplyFor, P!DeliverTo, P!CommandReady, P!OtherReady,
        P!Reading, P!Advance, P!DropRead, P!LoadTenantPatternConfigs, P!LoadConfig, P!Reload,
        P!Tick, P!Command, P!CommandClosed, P!Reply, P!ReadFails, P!Timer, P!RequestReload,
        P!ServerEnds, P!ChangeConfig, P!Entry, P!Hit, P!Begin, P!NextPattern, P!AfterError,
        P!Evaluate, P!AfterSave, P!InsertDetection, P!SaveDetection, P!PublishDetection,
        P!NextEntry, P!Ack, P!Crash, P!Restart, P!Step, P!Next, P!New, P!Max, P!Min,
        P!Cardinality
<1>3. P!HandledOnce => D!TakenUpOnce /\ D!AcknowledgedWasSeen /\ D!DetectionsPublished
  BY DEF P!HandledOnce, P!TakenUpOnce, D!TakenUpOnce, P!AcknowledgedWasSeen,
         D!AcknowledgedWasSeen, P!DetectionsPublished, D!DetectionsPublished, P!Everyone,
         D!Everyone, P!Pending, D!Pending
<1>4. P!DetectorSizes
  BY DEF P!DetectorSizes
<1> QED BY <1>1, <1>2, <1>3, <1>4

\* and about the pair of them.
LEMMA SameDetectors ==
    /\ DD!Init => PP!Init
    /\ [DD!Next]_DD!vars => [PP!Next]_PP!vars
    /\ PP!HandledOnce => DD!TakenUpOnce /\ DD!AcknowledgedWasSeen /\ DD!DetectionsPublished
    /\ PP!DetectorSizes
<1>1. DD!Init => PP!Init
  BY DEF DD!Init, PP!Init, DD!New, PP!New
<1>2. [DD!Next]_DD!vars => [PP!Next]_PP!vars
  BY DEF
        DD!streamVars, DD!history, DD!vars, DD!Handling, DD!Ids, DD!Fault, DD!May, DD!At,
        DD!Goto, DD!Publish, DD!Undelivered, DD!ReplyFor, DD!DeliverTo, DD!CommandReady,
        DD!OtherReady, DD!Reading, DD!Advance, DD!DropRead, DD!LoadTenantPatternConfigs,
        DD!LoadConfig, DD!Reload, DD!Tick, DD!Command, DD!CommandClosed, DD!Reply, DD!ReadFails,
        DD!Timer, DD!RequestReload, DD!ServerEnds, DD!ChangeConfig, DD!Entry, DD!Hit, DD!Begin,
        DD!NextPattern, DD!AfterError, DD!Evaluate, DD!AfterSave, DD!InsertDetection,
        DD!SaveDetection, DD!PublishDetection, DD!NextEntry, DD!Ack, DD!Crash, DD!Restart,
        DD!Step, DD!Next, DD!New, DD!Max, DD!Min, DD!Cardinality,
        PP!streamVars, PP!history, PP!vars, PP!Handling, PP!Ids, PP!Fault, PP!May, PP!At,
        PP!Goto, PP!Publish, PP!Undelivered, PP!ReplyFor, PP!DeliverTo, PP!CommandReady,
        PP!OtherReady, PP!Reading, PP!Advance, PP!DropRead, PP!LoadTenantPatternConfigs,
        PP!LoadConfig, PP!Reload, PP!Tick, PP!Command, PP!CommandClosed, PP!Reply, PP!ReadFails,
        PP!Timer, PP!RequestReload, PP!ServerEnds, PP!ChangeConfig, PP!Entry, PP!Hit, PP!Begin,
        PP!NextPattern, PP!AfterError, PP!Evaluate, PP!AfterSave, PP!InsertDetection,
        PP!SaveDetection, PP!PublishDetection, PP!NextEntry, PP!Ack, PP!Crash, PP!Restart,
        PP!Step, PP!Next, PP!New, PP!Max, PP!Min, PP!Cardinality
<1>3. PP!HandledOnce => DD!TakenUpOnce /\ DD!AcknowledgedWasSeen /\ DD!DetectionsPublished
  BY DEF PP!HandledOnce, PP!TakenUpOnce, DD!TakenUpOnce, PP!AcknowledgedWasSeen,
         DD!AcknowledgedWasSeen, PP!DetectionsPublished, DD!DetectionsPublished, PP!Everyone,
         DD!Everyone, PP!Pending, DD!Pending
<1>4. PP!DetectorSizes
  BY DEF PP!DetectorSizes
<1> QED BY <1>1, <1>2, <1>3, <1>4

-----------------------------------------------------------------------------
(***************************************************************************)
(* The scenario files.  CatalogReplayable is not inductive: of an entry    *)
(* that is about to be written it says nothing.  What holds throughout is  *)
(* that the worker has behind it what its stage says: the case, once it is *)
(* past that, and the events before the step in hand, of a file that may   *)
(* have been edited since it was read.                                     *)
(***************************************************************************)
Writing == {"case", "events", "catalog", "archive"}

CatalogShape ==
    /\ files \in [ScenarioFiles -> Scenarios]
    /\ worker \in [stage : {"idle", "load", "down"} \cup Writing, file : ScenarioFiles,
                   doc : Scenarios \cup {C!None}, step : Nat]
    /\ worker.stage \in Writing => worker.doc \in Scenarios

Behind ==
    /\ worker.stage \in {"events", "catalog"} => worker.doc.id \in DOMAIN cases
    /\ worker.stage = "events" =>
        /\ worker.step \in 1 .. worker.doc.steps
        /\ \A i \in 1 .. worker.step - 1 : C!EventKey(worker.doc, i) \in DOMAIN events
    /\ worker.stage = "catalog" =>
        \A i \in 1 .. worker.doc.steps : C!EventKey(worker.doc, i) \in DOMAIN events

CatalogInv == CatalogShape /\ Behind /\ C!CatalogReplayable

LEMMA CatalogInit == C!Init => CatalogInv
<1> SUFFICES ASSUME C!Init PROVE CatalogInv
  OBVIOUS
<1>1. PICK n \in Nat \ {0} : ScenarioFiles = 1 .. n
  BY ScenarioAssumption
<1>2. worker = C!Idle /\ 1 \in ScenarioFiles
  BY <1>1 DEF C!Init
<1>3. CatalogShape /\ Behind
  BY <1>2 DEF C!Init, CatalogShape, Behind, C!Idle, Writing
<1>4. DOMAIN catalog = {}
  BY DEF C!Init
<1> QED BY <1>3, <1>4 DEF CatalogInv, C!CatalogReplayable

\* The next file is one of the files.
LEMMA NextFileShape ==
    ASSUME CatalogShape
    PROVE  C!NextFile \in [stage : {"idle", "load"}, file : ScenarioFiles,
                           doc : {C!None}, step : Nat]
<1>1. PICK n \in Nat \ {0} : ScenarioFiles = 1 .. n
  BY ScenarioAssumption
<1>2. Cardinality(ScenarioFiles) = n
  BY <1>1, FS_Interval
<1>3. C!Cardinality(ScenarioFiles) = n
  BY <1>2 DEF C!Cardinality, Cardinality
<1>4. worker.file \in 1 .. n
  BY <1>1 DEF CatalogShape
<1> QED BY <1>1, <1>3, <1>4 DEF C!NextFile, C!Idle

LEMMA CatalogStep == CatalogInv /\ [C!Next]_C!vars => CatalogInv'
<1> SUFFICES ASSUME CatalogInv, [C!Next]_C!vars PROVE CatalogInv'
  OBVIOUS
<1> USE DEF CatalogInv
<1>0. /\ \A doc \in Scenarios : doc.kind \in {"invalid", "fast", "valid"} /\ doc.steps \in Nat
      /\ worker = [stage |-> worker.stage, file |-> worker.file, doc |-> worker.doc,
                   step |-> worker.step]
  BY ScenarioAssumption DEF CatalogShape
<1>1. CASE C!Discover
  BY <1>1 DEF C!Discover, C!At, C!Goto, CatalogShape, Behind, Writing, C!CatalogReplayable
<1>2. CASE C!Load
  <2>1. files[worker.file] \in Scenarios /\ worker.stage = "load"
    BY <1>2 DEF C!Load, C!At, CatalogShape
  <2>2. CatalogShape' /\ worker'.stage \notin {"events", "catalog"}
    <3>1. CASE files[worker.file].kind = "invalid"
      BY <1>2, <2>1, <3>1, NextFileShape DEF C!Load, C!LoadScenarioFile, C!InvalidSkipped, CatalogShape, Writing
    <3>2. CASE files[worker.file].kind # "invalid"
      BY <1>0, <1>2, <2>1, <3>2 DEF C!Load, C!LoadScenarioFile, CatalogShape, Writing
    <3> QED BY <3>1, <3>2
  <2> QED BY <1>2, <2>2 DEF C!Load, Behind, C!CatalogReplayable
<1>3. CASE C!UpsertCase
  <2>1. /\ DOMAIN cases' = DOMAIN cases \cup {worker.doc.id}
        /\ worker.stage = "case" /\ worker.doc \in Scenarios /\ worker.doc.steps \in Nat
        /\ worker' = [worker EXCEPT !.stage = C!AfterCase, !.step = 1]
    <3>1. cases' = C!Upsert(cases, worker.doc.id, worker.doc)
      BY <1>3 DEF C!UpsertCase
    <3>2. worker.stage = "case" /\ worker' = [worker EXCEPT !.stage = C!AfterCase, !.step = 1]
      BY <1>3 DEF C!UpsertCase, C!At, C!Goto
    <3>3. worker.doc \in Scenarios
      BY <3>2 DEF CatalogShape, Writing
    <3> QED BY <1>0, <3>1, <3>2, <3>3 DEF C!Upsert
  <2>2. /\ worker'.doc = worker.doc /\ worker'.step = 1 /\ worker'.stage = C!AfterCase
        /\ worker.doc.steps = 0 <=> C!AfterCase = "catalog"
        /\ C!AfterCase \in {"catalog", "events"}
    BY <1>0, <2>1 DEF C!AfterCase, CatalogShape
  <2>3. CatalogShape'
    BY <1>3, <2>1, <2>2 DEF C!UpsertCase, CatalogShape, Writing
  <2>4. Behind'
    BY <1>3, <2>1, <2>2 DEF C!UpsertCase, Behind
  <2>5. C!CatalogReplayable'
    BY <1>3, <2>1 DEF C!UpsertCase, C!CatalogReplayable, C!EventKey
  <2> QED BY <2>3, <2>4, <2>5
<1>4. CASE C!UpsertEvent
  <2>1. /\ DOMAIN events' = DOMAIN events \cup {C!EventKey(worker.doc, worker.step)}
        /\ worker.stage = "events" /\ worker.doc \in Scenarios /\ worker.doc.steps \in Nat
        /\ worker.step \in 1 .. worker.doc.steps /\ worker.doc.id \in DOMAIN cases
        /\ \A i \in 1 .. worker.step - 1 : C!EventKey(worker.doc, i) \in DOMAIN events
    <3>1. events' = C!Upsert(events, C!EventKey(worker.doc, worker.step), worker.doc)
      BY <1>4 DEF C!UpsertEvent
    <3>2. worker.stage = "events" /\ worker.doc \in Scenarios
      BY <1>4 DEF C!UpsertEvent, C!At, CatalogShape, Writing
    <3> QED BY <1>0, <3>1, <3>2 DEF Behind, C!Upsert
  <2>2. \A i \in 1 .. worker.step : C!EventKey(worker.doc, i) \in DOMAIN events'
    BY <2>1
  <2>3. C!CatalogReplayable'
    BY <1>4, <2>1 DEF C!UpsertEvent, C!CatalogReplayable, C!EventKey
  <2>4. CASE worker.step = worker.doc.steps
    <3>1. worker'.stage = "catalog" /\ worker'.doc = worker.doc /\ CatalogShape'
      <4>1. worker' = [worker EXCEPT !.stage = "catalog", !.step = 1] /\ files' = files
        BY <1>4, <2>4 DEF C!UpsertEvent, C!Goto
      <4> QED BY <1>0, <2>1, <4>1 DEF CatalogShape, Writing
    <3>2. Behind'
      BY <1>4, <2>1, <2>2, <2>4, <3>1 DEF C!UpsertEvent, Behind, C!EventKey
    <3> QED BY <2>3, <3>1, <3>2
  <2>5. CASE worker.step # worker.doc.steps
    <3>1. /\ worker'.stage = "events" /\ worker'.doc = worker.doc /\ worker'.step = worker.step + 1
          /\ CatalogShape'
      BY <1>4, <2>1, <2>5 DEF C!UpsertEvent, CatalogShape, Writing
    <3>2. Behind'
      BY <1>4, <2>1, <2>2, <2>5, <3>1 DEF C!UpsertEvent, Behind, C!EventKey
    <3> QED BY <2>3, <3>1, <3>2
  <2> QED BY <2>4, <2>5
<1>5. CASE C!UpsertCatalog
  <2>1. /\ worker.stage = "catalog" /\ worker.doc \in Scenarios /\ worker.doc.id \in DOMAIN cases
        /\ \A i \in 1 .. worker.doc.steps : C!EventKey(worker.doc, i) \in DOMAIN events
    BY <1>5 DEF C!UpsertCatalog, C!At, CatalogShape, Behind, Writing
  <2>2. CatalogShape' /\ Behind'
    BY <1>5, <2>1 DEF C!UpsertCatalog, C!Goto, CatalogShape, Behind, Writing
  <2>3. /\ DOMAIN catalog' = DOMAIN catalog \cup {C!CatalogKey(worker.doc)}
        /\ \A k \in DOMAIN catalog' : catalog'[k] = worker.doc \/ (k \in DOMAIN catalog /\ catalog'[k] = catalog[k])
    <3>1. catalog' = C!Upsert(catalog, C!CatalogKey(worker.doc), worker.doc)
      BY <1>5 DEF C!UpsertCatalog
    <3> QED BY <3>1 DEF C!Upsert
  <2>4. C!CatalogReplayable'
    BY <1>5, <2>1, <2>3 DEF C!UpsertCatalog, C!CatalogReplayable, C!EventKey
  <2> QED BY <2>2, <2>4
<1>6. CASE C!WriteArchive
  <2>1. CatalogShape' /\ worker'.stage \notin {"events", "catalog"}
    <3>1. CASE worker.step = 3
      BY <1>6, <3>1, NextFileShape DEF C!WriteArchive, CatalogShape, Writing
    <3>2. CASE worker.step # 3
      BY <1>6, <3>2 DEF C!WriteArchive, C!At, CatalogShape, Writing
    <3> QED BY <3>1, <3>2
  <2> QED BY <1>6, <2>1 DEF C!WriteArchive, Behind, C!CatalogReplayable
<1>7. CASE C!Down
  BY <1>7 DEF C!Down, C!Fault, CatalogShape, Behind, Writing, C!CatalogReplayable
<1>8. CASE C!Restart
  <2>1. CatalogShape' /\ worker'.stage = "idle"
    <3>1. 1 \in ScenarioFiles
      BY ScenarioAssumption
    <3> QED BY <1>8, <3>1 DEF C!Restart, C!Idle, CatalogShape, Writing
  <2> QED BY <1>8, <2>1 DEF C!Restart, Behind, C!CatalogReplayable
<1>9. ASSUME NEW f \in ScenarioFiles, NEW doc \in Scenarios, C!Edit(f, doc) PROVE CatalogInv'
  BY <1>9 DEF C!Edit, CatalogShape, Behind, Writing, C!CatalogReplayable
<1>10. CASE UNCHANGED C!vars
  BY <1>10 DEF C!vars, CatalogShape, Behind, Writing, C!CatalogReplayable, C!EventKey
<1> QED BY <1>1, <1>2, <1>3, <1>4, <1>5, <1>6, <1>7, <1>8, <1>9, <1>10 DEF C!Next, C!Step

-----------------------------------------------------------------------------
(* The operational tables. *)

Keyed(rows) == \A r \in rows : r.at \in Int /\ r.id \in Int

\* A finite set of rows that is not empty has one that precedes no other.
LEMMA LatestRow ==
    ASSUME NEW All, Keyed(All), NEW Few \in FiniteSubsetsOf(All), Few # {}
    PROVE  \E top \in Few : \A r \in Few : ~H!Precedes(top, r)
<1> USE DEF Keyed, H!Precedes
<1> DEFINE Without == {S \in FiniteSubsetsOf(All) :
                        S # {} /\ ~\E top \in S : \A r \in S : ~H!Precedes(top, r)}
<1> SUFFICES ASSUME Without # {} PROVE FALSE
  OBVIOUS
<1>1. PICK S \in Without : \A U \in Without : ~(<<U, S>> \in StrictSubsetOrdering(All))
  <2>1. Without \subseteq FiniteSubsetsOf(All)
    OBVIOUS
  <2> HIDE DEF Without
  <2> QED BY <2>1, FS_StrictSubsetOrderingWellFounded, WFMin, Zenon
<1>2. S \subseteq All /\ IsFiniteSet(S) /\ S # {}
  BY <1>1 DEF FiniteSubsetsOf
<1>3. PICK x \in S : TRUE
  BY <1>2
<1> DEFINE U == S \ {x}
<1>4. U \in FiniteSubsetsOf(All) /\ <<U, S>> \in StrictSubsetOrdering(All)
  BY <1>2, <1>3, FS_RemoveElement DEF FiniteSubsetsOf, StrictSubsetOrdering
<1>5. CASE U = {}
  <2>1. \A r \in S : ~H!Precedes(x, r)
    BY <1>2, <1>5
  <2> QED BY <1>1, <2>1
<1>6. CASE U # {}
  <2>1. PICK top \in U : \A r \in U : ~H!Precedes(top, r)
    BY <1>1, <1>4, <1>6
  <2>2. x \in All /\ top \in All /\ top \in S /\ \A r \in S : r \in All /\ (r = x \/ r \in U)
    BY <1>2, <1>3, <2>1
  <2>3. \E m \in S : \A r \in S : ~H!Precedes(m, r)
    <3>1. CASE H!Precedes(top, x)
      BY <1>3, <2>1, <2>2, <3>1
    <3>2. CASE ~H!Precedes(top, x)
      BY <2>1, <2>2, <3>2
    <3> QED BY <3>1, <3>2
  <2> QED BY <1>1, <2>3
<1> QED BY <1>5, <1>6

InOrder(Few, s) ==
    /\ s \in [1 .. Cardinality(Few) -> Few]
    /\ \A r \in Few : \E i \in 1 .. Cardinality(Few) : s[i] = r
    /\ \A i, j \in 1 .. Cardinality(Few) : i < j => ~H!Precedes(s[j], s[i])

\* Every finite set of rows can be put in order.
LEMMA RowsOrdered ==
    ASSUME NEW All, Keyed(All), NEW Few \in FiniteSubsetsOf(All)
    PROVE  \E s : InOrder(Few, s)
<1> DEFINE Without == {S \in FiniteSubsetsOf(All) : ~\E s : InOrder(S, s)}
<1> SUFFICES ASSUME Without # {} PROVE FALSE
  OBVIOUS
<1>1. PICK S \in Without : \A U \in Without : ~(<<U, S>> \in StrictSubsetOrdering(All))
  <2>1. Without \subseteq FiniteSubsetsOf(All)
    OBVIOUS
  <2> HIDE DEF Without
  <2> QED BY <2>1, FS_StrictSubsetOrderingWellFounded, WFMin, Zenon
<1>2. S \subseteq All /\ IsFiniteSet(S) /\ S \in FiniteSubsetsOf(All)
  BY <1>1 DEF FiniteSubsetsOf
<1>3. CASE S = {}
  <2>1. InOrder(S, <<>>)
    <3>1. Cardinality(S) = 0
      BY <1>3, FS_EmptySet
    <3> QED BY <1>3, <3>1 DEF InOrder
  <2> QED BY <1>1, <2>1
<1>4. CASE S # {}
  <2>1. PICK top \in S : \A r \in S : ~H!Precedes(top, r)
    BY <1>2, <1>4, LatestRow
  <2> DEFINE U == S \ {top}
             n == Cardinality(S)
  <2>2. /\ U \in FiniteSubsetsOf(All) /\ <<U, S>> \in StrictSubsetOrdering(All)
        /\ Cardinality(U) = n - 1 /\ n \in Nat /\ Cardinality(U) \in Nat
    BY <1>2, <2>1, FS_RemoveElement, FS_CardinalityType DEF FiniteSubsetsOf, StrictSubsetOrdering
  <2>3. PICK e : InOrder(U, e)
    BY <1>1, <2>2
  <2> DEFINE s == [i \in 1 .. n |-> IF i = n THEN top ELSE e[i]]
  <2>4. \A i \in 1 .. n : i = n \/ i \in 1 .. Cardinality(U)
    BY <2>2
  <2>5. /\ \A i \in 1 .. Cardinality(U) : e[i] \in U
        /\ \A r \in U : \E i \in 1 .. Cardinality(U) : e[i] = r
        /\ \A i, j \in 1 .. Cardinality(U) : i < j => ~H!Precedes(e[j], e[i])
    BY <2>3 DEF InOrder
  <2> HIDE DEF U, n
  <2>6. s \in [1 .. n -> S]
    BY <2>1, <2>4, <2>5 DEF U
  <2>7. ASSUME NEW r \in S PROVE \E i \in 1 .. n : s[i] = r
    <3>1. CASE r = top
      <4>1. n \in 1 .. n
        BY <2>2, <1>2, <1>4, FS_EmptySet DEF n
      <4> QED BY <3>1, <4>1
    <3>2. CASE r # top
      <4>1. PICK i \in 1 .. Cardinality(U) : e[i] = r
        BY <2>5, <3>2 DEF U
      <4>2. i \in 1 .. n /\ i # n
        BY <2>2, <4>1
      <4> QED BY <4>1, <4>2
    <3> QED BY <3>1, <3>2
  <2>8. ASSUME NEW i \in 1 .. n, NEW j \in 1 .. n, i < j PROVE ~H!Precedes(s[j], s[i])
    <3>1. CASE j = n
      BY <2>1, <2>6, <3>1
    <3>2. CASE j # n
      <4>1. i # n /\ i \in 1 .. Cardinality(U) /\ j \in 1 .. Cardinality(U)
        BY <2>2, <2>4, <2>8, <3>2
      <4>2. s[i] = e[i] /\ s[j] = e[j]
        BY <3>2, <4>1
      <4> QED BY <2>5, <2>8, <4>1, <4>2
    <3> QED BY <3>1, <3>2
  <2>9. InOrder(S, s)
    BY <2>6, <2>7, <2>8 DEF InOrder, n
  <2> QED BY <1>1, <2>9
<1> QED BY <1>3, <1>4

LEMMA SortedInOrder ==
    ASSUME NEW rows, Keyed(rows), IsFiniteSet(rows)
    PROVE  InOrder(rows, H!Sorted(rows))
<1>1. rows \in FiniteSubsetsOf(rows)
  BY DEF FiniteSubsetsOf
<1>2. PICK s : InOrder(rows, s)
  BY <1>1, RowsOrdered
<1>3. H!Cardinality(rows) = Cardinality(rows)
  BY DEF H!Cardinality, Cardinality
<1> DEFINE n == Cardinality(rows)
           Fits(f) == /\ \A r \in rows : \E i \in 1 .. n : f[i] = r
                      /\ \A i, j \in 1 .. n : i < j => ~H!Precedes(f[j], f[i])
<1>4. H!Sorted(rows) = CHOOSE f \in [1 .. n -> rows] : Fits(f)
  BY <1>3 DEF H!Sorted
<1>5. \E f \in [1 .. n -> rows] : Fits(f)
  BY <1>2 DEF InOrder
<1> HIDE DEF Fits
<1>6. H!Sorted(rows) \in [1 .. n -> rows] /\ Fits(H!Sorted(rows))
  BY <1>4, <1>5
<1> QED BY <1>6 DEF Fits, InOrder

\* A query answers the rows that come first, in order.
LEMMA BatchIsFirst ==
    ASSUME NEW t, NEW rows, Keyed(rows), IsFiniteSet(rows),
           rows = {r \in source[t] : H!After(t, r, offsets[t])}
    PROVE  /\ H!Batch(t) \in Seq(rows)
           /\ H!Batch(t) = <<>> <=> rows = {} \/ HistoryBatch = 0
           /\ H!Batch(t) # <<>> =>
                \A r \in rows :
                    \/ \E i \in 1 .. Len(H!Batch(t)) : H!Batch(t)[i] = r
                    \/ ~H!Precedes(r, H!Batch(t)[Len(H!Batch(t))])
<1> DEFINE s == H!Sorted(rows)
           n == Cardinality(rows)
           k == IF n < HistoryBatch THEN n ELSE HistoryBatch
<1>1. n \in Nat /\ HistoryBatch \in Nat
  BY FS_CardinalityType, HistoryAssumption
<1>2. InOrder(rows, s)
  BY SortedInOrder
<1> HIDE DEF s, n
<1>3. s \in Seq(rows) /\ Len(s) = n
  BY <1>1, <1>2 DEF InOrder, n
<1>4. H!Batch(t) = SubSeq(s, 1, k)
  BY <1>3 DEF H!Batch, s
<1>5. /\ H!Batch(t) \in Seq(rows) /\ Len(H!Batch(t)) = k
      /\ \A i \in 1 .. k : H!Batch(t)[i] = s[i]
  BY <1>1, <1>3, <1>4
<1>6. ASSUME k # 0, NEW r \in rows
      PROVE  (\E i \in 1 .. k : s[i] = r) \/ ~H!Precedes(r, s[k])
  <2>1. PICK i \in 1 .. n : s[i] = r
    BY <1>2 DEF InOrder, n
  <2>2. CASE i <= k
    BY <1>1, <2>1, <2>2
  <2>3. CASE k < i
    <3>1. k \in 1 .. n
      BY <1>1, <1>6
    <3> QED BY <1>2, <2>1, <2>3, <3>1 DEF InOrder, n
  <2> QED BY <1>1, <2>2, <2>3
<1>7. n = 0 <=> rows = {}
  BY FS_EmptySet DEF n
<1>8. H!Batch(t) = <<>> <=> k = 0
  BY <1>1, <1>5
<1> HIDE DEF k
<1>9. k = 0 <=> (n = 0 \/ HistoryBatch = 0)
  BY <1>1 DEF k
<1>10. k \in Nat
  BY <1>1 DEF k
<1> QED BY <1>5, <1>6, <1>7, <1>8, <1>9, <1>10

(***************************************************************************)
(* NothingSkipped says where the offset is, not where the worker is that   *)
(* will save the next one, and CopiesComplete says nothing of a row before *)
(* its last statement.  What holds throughout is that of every row the     *)
(* worker has yet to pass, it holds it, has copied it, or will leave it    *)
(* after the offset it is about to save (Ahead); and that the statements   *)
(* before the one in hand have taken effect (Complete).                    *)
(***************************************************************************)
Stamped(t) ==
    {[id |-> new.id, at |-> at, case |-> new.case, severity |-> new.severity,
      status |-> new.status] : new \in HistoryRows[t], at \in 1 .. HistoryTime}

Reading == {"case", "link", "event"}

TablesShape ==
    /\ source \in [H!Tables -> SUBSET UNION {Stamped(t) : t \in H!Tables}]
    /\ offsets \in [H!Tables -> [ts : Nat, id : Nat]]
    /\ \A t \in H!Tables :
        /\ IsFiniteSet(source[t]) /\ source[t] \subseteq Stamped(t)
        /\ \A r, q \in source[t] : r.id = q.id => r = q
    /\ worker \in [stage : H!Stages, i : 1 .. 4,
                   batch : Seq(UNION {Stamped(t) : t \in H!Tables}), at : [ts : Nat, id : Nat]]
    /\ worker.stage \in Reading => worker.batch # <<>> /\ worker.batch \in Seq(Stamped(H!Table))

KeyOf(r) == [ts |-> r.at, id |-> r.id]
LastRead == worker.batch[Len(worker.batch)]
Covered(t, r, offset) == H!After(t, r, offset) \/ H!Copied(t, r) \/ H!Excused(t, r)
InHand(r) == \E i \in 1 .. Len(worker.batch) : worker.batch[i] = r

Ahead ==
    /\ worker.stage \in Reading =>
        \A r \in source[H!Table] : InHand(r) \/ Covered(H!Table, r, KeyOf(LastRead))
    /\ worker.stage = "save" => \A r \in source[H!Table] : Covered(H!Table, r, worker.at)

Linked(t, n) == t = "alerts" => <<n.case, n.id>> \in links

Done(t, n) ==
    /\ n.case \in DOMAIN cases /\ Linked(t, n)
    /\ t # "features" => <<t, n.id>> \in events
    /\ t = "features" => <<n.id, n.case>> \in registry

Complete ==
    /\ \A t \in H!Tables, at \in 1 .. HistoryTime : \A n \in HistoryRows[t] :
          <<t, n.id, at>> \in seen => Done(t, n)
    /\ worker.stage = "case" => H!Table # "features"
    /\ worker.stage = "link" => H!Table # "features" /\ H!Row.case \in DOMAIN cases
    /\ worker.stage = "event" /\ H!Table # "features" =>
          H!Row.case \in DOMAIN cases /\ Linked(H!Table, H!Row)

TablesInv == TablesShape /\ H!NothingSkipped /\ Ahead /\ Complete

\* What the key of a row is, and what it tells.
LEMMA StampedRow ==
    ASSUME NEW t \in H!Tables, NEW r \in Stamped(t)
    PROVE  /\ r.at \in 1 .. HistoryTime /\ r.id \in Nat \ {0}
           /\ \E n \in HistoryRows[t] : n.id = r.id /\ n.case = r.case
           /\ \A n \in HistoryRows[t] : n.id = r.id => n.case = r.case
           /\ t = "features" => HistoryOrder[r.id] \in Int
  BY HistoryAssumption DEF Stamped

LEMMA OrderByText ==
    ASSUME NEW r \in Stamped("features"), NEW q \in Stamped("features"),
           HistoryOrder[r.id] = HistoryOrder[q.id]
    PROVE  r.id = q.id
  BY HistoryAssumption DEF Stamped

LEMMA TableKnown ==
    ASSUME worker.i \in 1 .. 4
    PROVE  /\ H!Table \in H!Tables
           /\ H!Tables = {"incidents", "alerts", "detections", "features"}
<1>1. /\ H!Order[1] = "incidents" /\ H!Order[2] = "alerts" /\ H!Order[3] = "detections"
      /\ H!Order[4] = "features"
  BY DEF H!Order
<1>2. H!Tables = {H!Order[i] : i \in 1 .. 4}
  BY DEF H!Tables
<1>3. 1 .. 4 = {1, 2, 3, 4}
  OBVIOUS
<1>4. H!Tables = {"incidents", "alerts", "detections", "features"}
  BY <1>1, <1>2, <1>3
<1>5. H!Table \in H!Tables
  BY <1>2 DEF H!Table
<1> QED BY <1>4, <1>5

LEMMA TablesInit == H!Init => TablesInv
<1> SUFFICES ASSUME H!Init PROVE TablesInv
  OBVIOUS
<1> USE DEF H!Init
<1>1. worker = H!Start /\ worker.stage = "query" /\ worker.i = 1 /\ worker.batch = <<>>
  BY DEF H!Start
<1>2. TablesShape
  <2>1. /\ worker \in [stage : H!Stages, i : 1 .. 4,
                       batch : Seq(UNION {Stamped(t) : t \in H!Tables}), at : [ts : Nat, id : Nat]]
        /\ H!Epoch \in [ts : Nat, id : Nat]
    BY <1>1 DEF H!Start, H!Epoch, H!Stages
  <2> QED BY <1>1, <2>1, FS_EmptySet DEF TablesShape, Reading
<1>3. H!NothingSkipped
  BY DEF H!NothingSkipped
<1> QED BY <1>1, <1>2, <1>3 DEF TablesInv, Ahead, Complete, Reading

\* What was copied, and what was excused, stays so.
LEMMA CoveredStays ==
    ASSUME NEW t \in H!Tables, NEW r, NEW o, Covered(t, r, o), seen \subseteq seen',
           late \subseteq late', source["features"] \subseteq source'["features"]
    PROVE  H!After(t, r, o) \/ H!Copied(t, r)' \/ H!Excused(t, r)'
<1>1. H!Misordered(t, r) => H!Misordered(t, r)'
  BY DEF H!Misordered
<1> QED BY <1>1 DEF Covered, H!Copied, H!Excused

\* A step that touches no table, and after which the worker holds nothing.
LEMMA QuietTables ==
    ASSUME TablesInv, UNCHANGED <<source, offsets, cases, events, links, registry, seen, late>>,
           TablesShape', worker'.stage \notin Reading \cup {"save"}
    PROVE  TablesInv'
<1>1. H!NothingSkipped'
  BY DEF TablesInv, H!NothingSkipped, H!Copied, H!Excused, H!Misordered
<1>2. Ahead'
  BY DEF Ahead
<1>3. Complete'
  BY DEF TablesInv, Complete, Done, Linked, Reading
<1> QED BY <1>1, <1>2, <1>3 DEF TablesInv

-----------------------------------------------------------------------------
\* The next table, or the end of the iteration.
LEMMA NextTableShape ==
    ASSUME TablesShape
    PROVE  /\ H!NextTable \in [stage : {"sleep", "query"}, i : 1 .. 4,
                   batch : Seq(UNION {Stamped(t) : t \in H!Tables}), at : [ts : Nat, id : Nat]]
           /\ H!NextTable.stage \notin Reading \cup {"save"}
<1>1. worker.i \in 1 .. 4 /\ (worker.i # 4 => worker.i + 1 \in 1 .. 4)
  BY DEF TablesShape
<1> QED BY <1>1 DEF TablesShape, H!NextTable, Reading

\* What the query leaves out comes after the rows it answers, or is excused.
LEMMA LeftOut ==
    ASSUME TablesShape, H!NothingSkipped, H!Batch(H!Table) # <<>>,
           NEW r \in source[H!Table]
    PROVE  LET b == H!Batch(H!Table)
           IN  (\E i \in 1 .. Len(b) : b[i] = r) \/ Covered(H!Table, r, KeyOf(b[Len(b)]))
<1> DEFINE t == H!Table
           rows == {q \in source[t] : H!After(t, q, offsets[t])}
           b == H!Batch(t)
           last == b[Len(b)]
<1>1. t \in H!Tables /\ H!Tables = {"incidents", "alerts", "detections", "features"}
  BY TableKnown DEF TablesShape
<1>2. /\ source[t] \subseteq Stamped(t) /\ IsFiniteSet(source[t])
      /\ \A x, y \in source[t] : x.id = y.id => x = y
  BY <1>1 DEF TablesShape
<1>3. /\ Keyed(rows) /\ IsFiniteSet(rows) /\ rows \subseteq source[t]
  <2>1. \A q \in rows : q \in Stamped(t) /\ q.at \in 1 .. HistoryTime /\ q.id \in Nat \ {0}
    BY <1>1, <1>2, StampedRow
  <2>2. 1 .. HistoryTime \subseteq Int
    BY HistoryAssumption
  <2> QED BY <1>2, <2>1, <2>2, FS_Subset DEF Keyed
<1>4. CASE ~H!After(t, r, offsets[t])
  BY <1>1, <1>4 DEF H!NothingSkipped, Covered
<1>5. CASE H!After(t, r, offsets[t])
  <2>1. r \in rows
    BY <1>5
  <2>2. /\ b \in Seq(rows) /\ b # <<>>
        /\ (\E i \in 1 .. Len(b) : b[i] = r) \/ ~H!Precedes(r, last)
    <3> HIDE DEF t
    <3> QED BY <1>3, <2>1, BatchIsFirst DEF t
  <2>3. last \in rows /\ Len(b) \in 1 .. Len(b)
    <3> HIDE DEF b, rows
    <3> QED BY <2>2
  <2>4. CASE r = last
    BY <2>3, <2>4
  <2>5. CASE r # last /\ ~H!Precedes(r, last)
    <3>1. r \in Stamped(t) /\ last \in Stamped(t) /\ r.id # last.id
      BY <1>2, <1>3, <2>3, <2>5
    <3>2. /\ r.at \in Nat /\ last.at \in Nat /\ r.id \in Nat \ {0} /\ last.id \in Nat \ {0}
          /\ t = "features" => HistoryOrder[r.id] \in Int /\ HistoryOrder[last.id] \in Int
      BY <1>1, <3>1, StampedRow, HistoryAssumption
    <3>3. r.at > last.at \/ (r.at = last.at /\ r.id > last.id)
      <4> HIDE DEF last
      <4> QED BY <2>5, <3>1, <3>2 DEF H!Precedes
    <3>4. KeyOf(last).ts = last.at /\ KeyOf(last).id = last.id
      BY DEF KeyOf
    <3>5. t = "features" => HistoryOrder[r.id] # HistoryOrder[last.id]
      BY <3>1, OrderByText
    <3>6. last \in source[t]
      BY <1>3, <2>3
    <3> HIDE DEF last, t
    <3>7. H!After(t, r, KeyOf(last)) \/ H!Misordered(t, r)
      <4>1. CASE r.at > last.at \/ t # "features"
        BY <3>2, <3>3, <3>4, <4>1 DEF H!After, H!IdAfter
      <4>2. CASE r.at = last.at /\ t = "features"
        <5>1. CASE HistoryOrder[r.id] > HistoryOrder[last.id]
          BY <3>2, <3>3, <3>4, <4>2, <5>1 DEF H!After, H!IdAfter
        <5>2. CASE HistoryOrder[last.id] > HistoryOrder[r.id]
          BY <3>2, <3>3, <3>6, <4>2, <5>2 DEF H!Misordered
        <5> QED BY <3>2, <3>5, <4>2, <5>1, <5>2
      <4> QED BY <3>3, <4>1, <4>2
    <3> QED BY <3>7 DEF Covered, H!Excused, last, t
  <2> QED BY <2>2, <2>4, <2>5
<1> QED BY <1>4, <1>5

LEMMA QueryStep ==
    ASSUME TablesInv, H!Query PROVE TablesInv'
<1> USE DEF TablesInv
<1>1. H!Table \in H!Tables /\ H!Tables = {"incidents", "alerts", "detections", "features"}
  BY TableKnown DEF TablesShape
<1>2. CASE H!Batch(H!Table) = <<>>
  <2>1. worker' = H!NextTable /\ UNCHANGED <<source, offsets, cases, events, links, registry, seen, late>>
    BY <1>2 DEF H!Query, H!NoRows
  <2>2. TablesShape' /\ worker'.stage \notin Reading \cup {"save"}
    BY <2>1, NextTableShape DEF TablesShape, H!Stages
  <2> QED BY <2>1, <2>2, QuietTables
<1>3. CASE H!Batch(H!Table) # <<>>
  <2> DEFINE b == H!Batch(H!Table)
             t == H!Table
  <2>1. /\ worker' = [worker EXCEPT !.stage = H!FirstStage(t), !.batch = b, !.at = offsets[t]]
        /\ UNCHANGED <<source, offsets, cases, events, links, registry, seen, late>>
    BY <1>3 DEF H!Query
  <2>2. b \in Seq(Stamped(t)) /\ b # <<>>
    <3> DEFINE rows == {q \in source[t] : H!After(t, q, offsets[t])}
    <3>1. IsFiniteSet(source[t]) /\ source[t] \subseteq Stamped(t) /\ rows \subseteq Stamped(t)
      BY <1>1 DEF TablesShape
    <3>2. Keyed(rows) /\ IsFiniteSet(rows)
      <4>1. \A q \in rows : q.at \in 1 .. HistoryTime /\ q.id \in Nat \ {0}
        BY <1>1, <3>1, StampedRow
      <4>2. 1 .. HistoryTime \subseteq Int
        BY HistoryAssumption
      <4> QED BY <3>1, <4>1, <4>2, FS_Subset DEF Keyed
    <3>3. b \in Seq(rows)
      BY <3>2, BatchIsFirst
    <3> HIDE DEF rows, b
    <3> QED BY <1>3, <3>1, <3>3 DEF b
  <2>3. H!FirstStage(t) \in {"case", "event"} /\ (H!FirstStage(t) = "case" <=> t # "features")
    BY DEF H!FirstStage
  <2>4. offsets[t] \in [ts : Nat, id : Nat] /\ b \in Seq(UNION {Stamped(u) : u \in H!Tables})
    <3>1. Stamped(t) \subseteq UNION {Stamped(u) : u \in H!Tables}
      BY <1>1
    <3> HIDE DEF b
    <3> QED BY <1>1, <2>2, <3>1 DEF TablesShape
  <2> HIDE DEF b
  <2>5. /\ worker'.stage = H!FirstStage(t) /\ worker'.batch = b /\ worker'.i = worker.i
        /\ worker' \in [stage : H!Stages, i : 1 .. 4,
                        batch : Seq(UNION {Stamped(u) : u \in H!Tables}), at : [ts : Nat, id : Nat]]
    BY <2>1, <2>3, <2>4 DEF TablesShape, H!Stages
  <2>6. H!Table' = t
    BY <2>5 DEF H!Table
  <2>7. TablesShape'
    BY <2>1, <2>2, <2>5, <2>6 DEF TablesShape
  <2>8. H!NothingSkipped'
    BY <2>1 DEF H!NothingSkipped, H!Copied, H!Excused, H!Misordered
  <2>9. Ahead'
    <3>1. \A r \in source[t] : (\E i \in 1 .. Len(b) : b[i] = r) \/ Covered(t, r, KeyOf(b[Len(b)]))
      BY <1>3, LeftOut DEF b
    <3> QED BY <2>1, <2>3, <2>5, <2>6, <3>1
            DEF Ahead, InHand, LastRead, Covered, H!Copied, H!Excused, H!Misordered
  <2>10. Complete'
    BY <2>1, <2>3, <2>5, <2>6 DEF Complete, Done, Linked
  <2> QED BY <2>7, <2>8, <2>9, <2>10
<1> QED BY <1>2, <1>3

-----------------------------------------------------------------------------
\* A statement on the row in hand, which stays in hand.
LEMMA SameRow ==
    ASSUME TablesInv, worker.stage \in Reading, NEW stage \in Reading,
           worker' = [worker EXCEPT !.stage = stage], UNCHANGED <<source, offsets, seen, late>>
    PROVE  /\ TablesShape' /\ H!NothingSkipped' /\ Ahead'
           /\ worker'.stage = stage /\ H!Table' = H!Table /\ H!Row' = H!Row
<1> USE DEF TablesInv
<1>1. /\ worker'.stage = stage /\ worker'.batch = worker.batch /\ worker'.i = worker.i
      /\ worker' \in [stage : H!Stages, i : 1 .. 4,
                      batch : Seq(UNION {Stamped(u) : u \in H!Tables}), at : [ts : Nat, id : Nat]]
  BY DEF TablesShape, H!Stages, Reading
<1>2. H!Table' = H!Table /\ H!Row' = H!Row
  BY <1>1 DEF H!Table, H!Row
<1>3. TablesShape'
  BY <1>1, <1>2 DEF TablesShape
<1>4. H!NothingSkipped'
  BY DEF H!NothingSkipped, H!Copied, H!Excused, H!Misordered
<1>5. Ahead'
  BY <1>1, <1>2 DEF Ahead, InHand, LastRead, Covered, H!Copied, H!Excused, H!Misordered, Reading
<1> QED BY <1>1, <1>2, <1>3, <1>4, <1>5

\* The row is done: the next one is in hand, or the offset is about to be saved.
LEMMA RowDoneKeeps ==
    ASSUME TablesInv, worker.stage = "event", H!RowDone, UNCHANGED <<source, offsets, late>>
    PROVE  /\ TablesShape' /\ H!NothingSkipped' /\ Ahead'
           /\ H!Table' = H!Table /\ worker'.stage \in {"save", H!FirstStage(H!Table)}
<1> USE DEF TablesInv
<1> DEFINE t == H!Table
           b == worker.batch
<1>1. t \in H!Tables
  BY TableKnown DEF TablesShape
<1>2. b # <<>> /\ b \in Seq(Stamped(t))
  BY DEF TablesShape, Reading
<1> HIDE DEF t, b
<1>3. /\ Len(b) \in Nat \ {0} /\ b[1] \in Stamped(t) /\ H!Row = b[1]
      /\ Tail(b) \in Seq(Stamped(t)) /\ Len(Tail(b)) = Len(b) - 1
      /\ \A i \in 1 .. Len(b) - 1 : Tail(b)[i] = b[i + 1]
  BY <1>2 DEF H!Row, b
<1>4. b[1].at \in Nat /\ b[1].id \in Nat
  BY <1>1, <1>3, StampedRow
<1> DEFINE stage == IF Len(b) = 1 THEN "save" ELSE H!FirstStage(t)
<1>5. /\ worker' = [worker EXCEPT !.stage = stage, !.batch = Tail(b),
                                  !.at = [ts |-> b[1].at, id |-> b[1].id]]
      /\ seen' = seen \cup {<<t, b[1].id, b[1].at>>}
  BY <1>3 DEF H!RowDone, b, t
<1>6. stage \in {"save", "case", "event"} /\ stage \in {"save", H!FirstStage(t)}
  BY DEF H!FirstStage
<1>7. Stamped(t) \subseteq UNION {Stamped(u) : u \in H!Tables}
  BY <1>1
<1>8. /\ worker'.stage = stage /\ worker'.batch = Tail(b) /\ worker'.i = worker.i
      /\ worker'.at = KeyOf(b[1])
      /\ worker' \in [stage : H!Stages, i : 1 .. 4,
                      batch : Seq(UNION {Stamped(u) : u \in H!Tables}), at : [ts : Nat, id : Nat]]
  <2>1. Tail(b) \in Seq(UNION {Stamped(u) : u \in H!Tables})
    BY <1>3, <1>7
  <2> HIDE DEF stage
  <2> QED BY <1>4, <1>5, <1>6, <2>1 DEF TablesShape, H!Stages, KeyOf
<1>9. H!Table' = t
  BY <1>8 DEF H!Table, t
<1>10. TablesShape'
  <2>1. stage \in Reading => Tail(b) # <<>>
    BY <1>3, <1>6 DEF Reading
  <2> HIDE DEF stage
  <2> QED BY <1>3, <1>8, <1>9, <2>1 DEF TablesShape
<1>11. H!NothingSkipped'
  BY <1>5 DEF H!NothingSkipped, H!Copied, H!Excused, H!Misordered
<1>12. Ahead'
  <2>1. ASSUME NEW r \in source[t]
        PROVE  \/ \E i \in 1 .. Len(b) : b[i] = r
               \/ Covered(t, r, KeyOf(b[Len(b)]))
    BY <2>1 DEF Ahead, Reading, InHand, LastRead, b, t
  <2> DEFINE Later(r, o) == H!After(t, r, o) \/ <<t, r.id, r.at>> \in seen' \/ H!Excused(t, r)
  <2>2. ASSUME NEW r \in source[t], NEW o, Covered(t, r, o) PROVE Later(r, o)
    BY <1>5, <2>2 DEF Covered, H!Copied
  <2>3. ASSUME NEW r \in source[t], b[1] = r, NEW o PROVE Later(r, o)
    BY <1>5, <2>3
  <2>4. CASE Len(b) = 1
    <3>1. ASSUME NEW r \in source[t] PROVE Later(r, KeyOf(b[1]))
      <4>1. CASE b[1] = r
        BY <2>3, <4>1
      <4>2. CASE Covered(t, r, KeyOf(b[1]))
        BY <2>2, <4>2
      <4> HIDE DEF Later
      <4> QED BY <1>3, <2>1, <2>4, <4>1, <4>2
    <3> QED BY <1>8, <1>9, <2>4, <3>1 DEF Ahead, Reading, Covered, H!Copied, H!Excused, H!Misordered
  <2>5. CASE Len(b) # 1
    <3>1. Tail(b)[Len(Tail(b))] = b[Len(b)] /\ stage # "save"
      BY <1>3, <2>5 DEF H!FirstStage
    <3>2. ASSUME NEW r \in source[t]
          PROVE  \/ \E i \in 1 .. Len(Tail(b)) : Tail(b)[i] = r
                 \/ Later(r, KeyOf(b[Len(b)]))
      <4>1. CASE b[1] = r
        BY <2>3, <4>1
      <4>2. ASSUME NEW i \in 1 .. Len(b), b[i] = r, i # 1
            PROVE  \E j \in 1 .. Len(Tail(b)) : Tail(b)[j] = r
        <5>1. i - 1 \in 1 .. Len(Tail(b)) /\ Tail(b)[i - 1] = r
          BY <1>3, <4>2
        <5> QED BY <5>1
      <4>3. CASE Covered(t, r, KeyOf(b[Len(b)]))
        BY <2>2, <4>3
      <4> QED BY <2>1, <4>1, <4>2, <4>3
    <3> HIDE DEF stage
    <3>3. worker'.stage # "save" /\ LastRead' = b[Len(b)]
      <4>1. worker'.batch = Tail(b) /\ worker'.stage = stage
        BY <1>8
      <4> QED BY <3>1, <4>1 DEF LastRead
    <3> QED BY <1>8, <1>9, <3>2, <3>3
            DEF Ahead, InHand, Covered, H!Copied, H!Excused, H!Misordered
  <2> QED BY <2>4, <2>5
<1> QED BY <1>6, <1>8, <1>9, <1>10, <1>11, <1>12 DEF t

\* With the row, everything of it has been written.
LEMMA RowDoneComplete ==
    ASSUME TablesInv, worker.stage = "event", H!RowDone,
           NEW n \in HistoryRows[H!Table], n.id = H!Row.id, n.case = H!Row.case, Done(H!Table, n)',
           DOMAIN cases \subseteq DOMAIN cases', events \subseteq events', links \subseteq links',
           registry \subseteq registry', H!Table' = H!Table,
           worker'.stage \in {"save", H!FirstStage(H!Table)}
    PROVE  Complete'
<1> DEFINE t == H!Table
<1>1. t \in H!Tables /\ seen' = seen \cup {<<t, H!Row.id, H!Row.at>>}
  BY TableKnown DEF TablesInv, TablesShape, H!RowDone
<1>2. ASSUME NEW u \in H!Tables, NEW at \in 1 .. HistoryTime, NEW m \in HistoryRows[u],
             <<u, m.id, at>> \in seen'
      PROVE  Done(u, m)'
  <2>1. CASE <<u, m.id, at>> \in seen
    <3>1. Done(u, m)
      BY <2>1 DEF TablesInv, Complete
    <3> QED BY <3>1 DEF Done, Linked
  <2>2. CASE u = t /\ m.id = H!Row.id
    <3>1. m.case = n.case /\ m.id = n.id
      BY <1>1, <2>2, HistoryAssumption
    <3> QED BY <2>2, <3>1 DEF Done, Linked
  <2> QED BY <1>1, <1>2, <2>1, <2>2
<1>3. /\ worker'.stage # "link"
      /\ worker'.stage = "case" => H!Table' # "features"
      /\ worker'.stage = "event" => H!Table' = "features"
  BY DEF H!FirstStage
<1> QED BY <1>2, <1>3 DEF Complete

LEMMA CaseStep ==
    ASSUME TablesInv, H!UpsertCase PROVE TablesInv'
<1> USE DEF TablesInv
<1>1. /\ worker.stage = "case" /\ H!AfterCase(H!Table) \in {"link", "event"}
      /\ worker' = [worker EXCEPT !.stage = H!AfterCase(H!Table)]
      /\ UNCHANGED <<source, offsets, events, links, registry, seen, late>>
      /\ DOMAIN cases' = DOMAIN cases \cup {H!Row.case}
  BY DEF H!UpsertCase, H!At, H!Goto, H!AfterCase
<1>2. /\ TablesShape' /\ H!NothingSkipped' /\ Ahead'
      /\ worker'.stage = H!AfterCase(H!Table) /\ H!Table' = H!Table /\ H!Row' = H!Row
  BY <1>1, SameRow DEF Reading
<1>3. H!Table # "features" /\ (H!Table = "alerts" <=> H!AfterCase(H!Table) = "link")
  BY <1>1 DEF Complete, H!AfterCase
<1>4. Complete'
  BY <1>1, <1>2, <1>3 DEF Complete, Done, Linked
<1> QED BY <1>2, <1>4

LEMMA LinkStep ==
    ASSUME TablesInv, H!UpsertLink PROVE TablesInv'
<1> USE DEF TablesInv
<1>1. /\ worker.stage = "link" /\ worker' = [worker EXCEPT !.stage = "event"]
      /\ UNCHANGED <<source, offsets, cases, events, registry, seen, late>>
      /\ links' = links \cup {<<H!Row.case, H!Row.id>>}
  BY DEF H!UpsertLink, H!At, H!Goto
<1>2. /\ TablesShape' /\ H!NothingSkipped' /\ Ahead'
      /\ worker'.stage = "event" /\ H!Table' = H!Table /\ H!Row' = H!Row
  BY <1>1, SameRow DEF Reading
<1>3. Complete'
  BY <1>1, <1>2 DEF Complete, Done, Linked
<1> QED BY <1>2, <1>3

\* The row in hand is one that may be written.
LEMMA RowInHand ==
    ASSUME TablesShape, worker.stage \in Reading
    PROVE  \E n \in HistoryRows[H!Table] : n.id = H!Row.id /\ n.case = H!Row.case
<1>1. worker.batch # <<>> /\ worker.batch \in Seq(Stamped(H!Table)) /\ H!Table \in H!Tables
  BY TableKnown DEF TablesShape
<1>2. H!Row \in Stamped(H!Table)
  BY <1>1 DEF H!Row
<1> QED BY <1>1, <1>2, StampedRow

LEMMA EventStep ==
    ASSUME TablesInv, H!InsertEvent PROVE TablesInv'
<1> USE DEF TablesInv
<1>1. /\ worker.stage = "event" /\ H!Table # "features" /\ H!RowDone
      /\ UNCHANGED <<source, offsets, cases, links, registry, late>>
      /\ events' = events \cup {<<H!Table, H!Row.id>>}
  BY DEF H!InsertEvent, H!At
<1>2. /\ TablesShape' /\ H!NothingSkipped' /\ Ahead'
      /\ H!Table' = H!Table /\ worker'.stage \in {"save", H!FirstStage(H!Table)}
  BY <1>1, RowDoneKeeps
<1>3. PICK n \in HistoryRows[H!Table] : n.id = H!Row.id /\ n.case = H!Row.case
  BY <1>1, RowInHand DEF Reading
<1>4. Done(H!Table, n)'
  BY <1>1, <1>2, <1>3 DEF Done, Linked, Complete
<1>5. Complete'
  BY <1>1, <1>2, <1>3, <1>4, RowDoneComplete
<1> QED BY <1>2, <1>5

LEMMA FeatureStep ==
    ASSUME TablesInv, H!RegisterFeature PROVE TablesInv'
<1> USE DEF TablesInv
<1>1. /\ worker.stage = "event" /\ H!Table = "features"
      /\ UNCHANGED <<source, offsets, cases, events, links, late>>
  BY DEF H!RegisterFeature, H!At
<1>2. CASE /\ H!Row.case \in DOMAIN cases
           /\ registry' = registry \cup {<<H!Row.id, H!Row.case>>} /\ H!RowDone
  <2>1. /\ TablesShape' /\ H!NothingSkipped' /\ Ahead'
        /\ H!Table' = H!Table /\ worker'.stage \in {"save", H!FirstStage(H!Table)}
    BY <1>1, <1>2, RowDoneKeeps
  <2>2. PICK n \in HistoryRows[H!Table] : n.id = H!Row.id /\ n.case = H!Row.case
    BY <1>1, RowInHand DEF Reading
  <2>3. Done(H!Table, n)'
    BY <1>1, <1>2, <2>1, <2>2 DEF Done, Linked
  <2>4. Complete'
    BY <1>1, <1>2, <2>1, <2>2, <2>3, RowDoneComplete
  <2> QED BY <2>1, <2>4
<1>3. CASE H!Goto("down") /\ UNCHANGED <<registry, seen>>
  <2>1. worker' = [worker EXCEPT !.stage = "down"]
    BY <1>3 DEF H!Goto
  <2>2. TablesShape' /\ worker'.stage \notin Reading \cup {"save"}
    BY <1>1, <2>1 DEF TablesShape, Reading, H!Stages
  <2> QED BY <1>1, <1>3, <2>2, QuietTables
<1> QED BY <1>2, <1>3 DEF H!RegisterFeature

-----------------------------------------------------------------------------
LEMMA SaveStep ==
    ASSUME TablesInv, H!SaveOffset PROVE TablesInv'
<1> USE DEF TablesInv
<1>1. /\ worker.stage = "save" /\ worker' = H!NextTable
      /\ offsets' = [offsets EXCEPT ![H!Table] = worker.at]
      /\ UNCHANGED <<source, cases, events, links, registry, seen, late>>
      /\ H!Table \in H!Tables
  BY TableKnown DEF H!SaveOffset, H!At, H!OffsetSeen, TablesShape
<1>2. offsets \in [H!Tables -> [ts : Nat, id : Nat]] /\ worker.at \in [ts : Nat, id : Nat]
  BY DEF TablesShape
<1>3. TablesShape' /\ worker'.stage \notin Reading \cup {"save"}
  BY <1>1, <1>2, NextTableShape DEF TablesShape, H!Stages
<1>4. H!NothingSkipped'
  <2> SUFFICES ASSUME NEW t \in H!Tables, NEW r \in source[t]
               PROVE  H!After(t, r, offsets'[t]) \/ H!Copied(t, r) \/ H!Excused(t, r)
    BY <1>1 DEF H!NothingSkipped, H!Copied, H!Excused, H!Misordered
  <2>1. CASE t = H!Table
    BY <1>1, <1>2, <2>1 DEF Ahead, Covered
  <2>2. CASE t # H!Table
    BY <1>1, <1>2, <2>2 DEF H!NothingSkipped
  <2> QED BY <2>1, <2>2
<1>5. Ahead'
  BY <1>3 DEF Ahead
<1>6. Complete'
  BY <1>1, <1>3 DEF Complete, Done, Linked, Reading
<1> QED BY <1>3, <1>4, <1>5, <1>6

LEMMA WriteStep ==
    ASSUME TablesInv, NEW t \in H!Tables, NEW at \in 1 .. HistoryTime, NEW new \in HistoryRows[t],
           H!Write(t, new, at)
    PROVE  TablesInv'
<1> USE DEF TablesInv
<1> DEFINE old == {r \in source[t] : r.id = new.id}
           fresh == [id |-> new.id, at |-> at, case |-> new.case, severity |-> new.severity,
                   status |-> new.status]
<1>1. /\ old = {} \/ t = "incidents"
      /\ source' = [source EXCEPT ![t] = (source[t] \ old) \cup {fresh}]
      /\ late' = IF H!Passed(t, fresh) THEN late \cup {<<t, new.id, at>>} ELSE late
      /\ UNCHANGED <<offsets, cases, events, links, registry, worker, seen>>
  BY DEF H!Write
<1>2. fresh \in Stamped(t) /\ fresh.id = new.id /\ fresh.at = at
  BY DEF Stamped
<1>3. /\ \A r \in source[t] \ old : r.id # fresh.id
      /\ (source[t] \ old) \cup {fresh} \subseteq source[t] \cup {fresh}
      /\ H!Tables = {"incidents", "alerts", "detections", "features"}
  BY <1>2, TableKnown DEF TablesShape
<1>4. /\ IsFiniteSet(source[t]) /\ source[t] \subseteq Stamped(t)
      /\ \A r, q \in source[t] : r.id = q.id => r = q
      /\ source \in [H!Tables -> SUBSET UNION {Stamped(u) : u \in H!Tables}]
  BY DEF TablesShape
<1> DEFINE rows == (source[t] \ old) \cup {fresh}
<1>5. /\ source' = [source EXCEPT ![t] = rows] /\ rows \subseteq source[t] \cup {fresh}
      /\ \A r, q \in rows : r.id = q.id => r = q
      /\ t # "incidents" => source[t] \subseteq rows
  BY <1>1, <1>3, <1>4
<1>6. IsFiniteSet(rows) /\ rows \subseteq Stamped(t)
  <2>1. IsFiniteSet(source[t] \ old)
    BY <1>4, FS_Subset
  <2>2. IsFiniteSet(rows)
    BY <2>1, FS_AddElement
  <2> QED BY <1>2, <1>4, <2>2
<1> HIDE DEF rows, old, fresh
<1>7. /\ source'[t] = rows /\ \A u \in H!Tables \ {t} : source'[u] = source[u]
      /\ source' \in [H!Tables -> SUBSET UNION {Stamped(u) : u \in H!Tables}]
  BY <1>4, <1>5, <1>6
<1>8. TablesShape'
  <2>1. H!Table' = H!Table /\ UNCHANGED worker
    BY <1>1 DEF H!Table
  <2> QED BY <1>1, <1>5, <1>6, <1>7, <2>1 DEF TablesShape
<1>9. ASSUME NEW u \in H!Tables, NEW r \in source[u], H!Excused(u, r) PROVE H!Excused(u, r)'
  <2>1. H!Misordered(u, r) => H!Misordered(u, r)'
    BY <1>5, <1>7 DEF H!Misordered
  <2>2. late \subseteq late'
    BY <1>1
  <2> QED BY <1>9, <2>1, <2>2 DEF H!Excused
<1>10. ASSUME ~H!Excused(t, fresh)'
       PROVE  /\ H!After(t, fresh, offsets[t])
              /\ H!Table = t /\ worker.batch # <<>> => ~(fresh.at <= LastRead.at)
              /\ H!Table = t /\ worker.stage = "save" => ~(fresh.at <= worker.at.ts)
  <2>1. <<t, fresh.id, fresh.at>> \notin late'
    BY <1>10 DEF H!Excused
  <2>2. ~H!Passed(t, fresh)
    BY <1>1, <1>2, <2>1
  <2> QED BY <2>2 DEF H!Passed, LastRead
<1>11. H!NothingSkipped'
  <2> SUFFICES ASSUME NEW u \in H!Tables, NEW r \in source'[u]
               PROVE  H!After(u, r, offsets[u]) \/ H!Copied(u, r) \/ H!Excused(u, r)'
    BY <1>1 DEF H!NothingSkipped, H!Copied
  <2>1. CASE r \in source[u]
    BY <1>9, <2>1 DEF H!NothingSkipped
  <2>2. CASE u = t /\ r = fresh
    BY <1>10, <2>2
  <2> QED BY <1>5, <1>7, <2>1, <2>2
<1>12. Ahead'
  <2>1. H!Table \in H!Tables
    BY TableKnown DEF TablesShape
  <2>2. ASSUME NEW r \in source'[H!Table], r = fresh, t = H!Table, NEW o, fresh.at > o.ts
        PROVE  H!After(t, r, o)
    BY <2>2 DEF H!After
  <2>3. ASSUME worker.stage \in Reading, NEW r \in source'[H!Table]
        PROVE  \/ InHand(r) \/ H!After(H!Table, r, KeyOf(LastRead)) \/ H!Copied(H!Table, r)
               \/ \E u \in H!Tables : u = H!Table /\ H!Excused(u, r)'
    <3>1. CASE r \in source[H!Table]
      BY <1>9, <2>1, <2>3, <3>1 DEF Ahead, Covered
    <3>2. CASE t = H!Table /\ r = fresh /\ ~H!Excused(t, fresh)'
      <4>1. worker.batch # <<>> /\ worker.batch \in Seq(Stamped(t))
        BY <2>3, <3>2 DEF TablesShape
      <4>2. LastRead \in Stamped(t)
        BY <4>1 DEF LastRead
      <4>3. LastRead.at \in Int /\ fresh.at \in Int /\ KeyOf(LastRead).ts = LastRead.at
        BY <1>2, <4>2, StampedRow, HistoryAssumption DEF KeyOf
      <4>4. fresh.at > KeyOf(LastRead).ts
        BY <1>10, <3>2, <4>1, <4>3
      <4> QED BY <3>2, <4>4 DEF H!After
    <3> QED BY <1>5, <1>7, <2>1, <3>1, <3>2
  <2>4. ASSUME worker.stage = "save", NEW r \in source'[H!Table]
        PROVE  \/ H!After(H!Table, r, worker.at) \/ H!Copied(H!Table, r)
               \/ \E u \in H!Tables : u = H!Table /\ H!Excused(u, r)'
    <3>1. CASE r \in source[H!Table]
      BY <1>9, <2>1, <2>4, <3>1 DEF Ahead, Covered
    <3>2. CASE t = H!Table /\ r = fresh /\ ~H!Excused(t, fresh)'
      <4>1. worker.at.ts \in Nat /\ fresh.at \in Int
        BY <1>2, StampedRow, HistoryAssumption DEF TablesShape
      <4>2. fresh.at > worker.at.ts
        BY <1>10, <2>4, <3>2, <4>1
      <4> QED BY <3>2, <4>2 DEF H!After
    <3> QED BY <1>5, <1>7, <2>1, <3>1, <3>2
  <2>5. H!Table' = H!Table /\ LastRead' = LastRead /\ UNCHANGED <<worker, seen>>
    BY <1>1 DEF H!Table, LastRead
  <2>6. ASSUME NEW r, NEW u \in H!Tables, u = H!Table, H!Excused(u, r)' PROVE H!Excused(H!Table, r)'
    BY <2>5, <2>6 DEF H!Excused, H!Misordered
  <2>7. ASSUME worker.stage \in Reading, NEW r \in source'[H!Table]
        PROVE  InHand(r)' \/ Covered(H!Table, r, KeyOf(LastRead))'
    <3>1. InHand(r) => InHand(r)'
      BY <2>5 DEF InHand
    <3>2. H!After(H!Table, r, KeyOf(LastRead)) => H!After(H!Table, r, KeyOf(LastRead))'
      BY <2>5 DEF H!After, KeyOf
    <3>3. H!Copied(H!Table, r) => H!Copied(H!Table, r)'
      BY <2>5 DEF H!Copied
    <3> QED BY <2>3, <2>6, <2>7, <3>1, <3>2, <3>3 DEF Covered
  <2>8. ASSUME worker.stage = "save", NEW r \in source'[H!Table]
        PROVE  Covered(H!Table, r, worker.at)'
    <3>1. H!After(H!Table, r, worker.at) => H!After(H!Table, r, worker.at)'
      BY <2>5 DEF H!After
    <3>2. H!Copied(H!Table, r) => H!Copied(H!Table, r)'
      BY <2>5 DEF H!Copied
    <3> QED BY <2>4, <2>6, <2>8, <3>1, <3>2 DEF Covered
  <2> QED BY <2>5, <2>7, <2>8 DEF Ahead
<1>13. Complete'
  BY <1>1 DEF Complete, Done, Linked, H!Table, H!Row
<1> QED BY <1>8, <1>11, <1>12, <1>13

LEMMA TablesStep == TablesInv /\ [H!Next]_H!vars => TablesInv'
<1> SUFFICES ASSUME TablesInv, [H!Next]_H!vars PROVE TablesInv'
  OBVIOUS
<1>1. CASE H!Sleep \/ H!Restart
  <2>1. worker' = H!Start /\ UNCHANGED <<source, offsets, cases, events, links, registry, seen, late>>
    BY <1>1 DEF H!Sleep, H!Restart
  <2>2. /\ H!Start \in [stage : {"query"}, i : 1 .. 4,
                   batch : Seq(UNION {Stamped(t) : t \in H!Tables}), at : [ts : Nat, id : Nat]]
    BY DEF H!Start, H!Epoch
  <2>3. TablesShape' /\ worker'.stage \notin Reading \cup {"save"}
    BY <2>1, <2>2 DEF TablesInv, TablesShape, H!Stages, Reading
  <2> QED BY <2>1, <2>3, QuietTables
<1>2. CASE H!Down
  <2>1. /\ worker' = [worker EXCEPT !.stage = "down"]
        /\ UNCHANGED <<source, offsets, cases, events, links, registry, seen, late>>
    BY <1>2 DEF H!Down, H!Goto
  <2>2. TablesShape' /\ worker'.stage \notin Reading \cup {"save"}
    BY <2>1 DEF TablesInv, TablesShape, H!Stages, Reading
  <2> QED BY <2>1, <2>2, QuietTables
<1>3. CASE UNCHANGED H!vars
  BY <1>3 DEF H!vars, TablesInv, TablesShape, H!NothingSkipped, Ahead, Complete, Covered, InHand,
              LastRead, Done, Linked, H!Table, H!Row, H!Copied, H!Excused, H!Misordered
<1>4. CASE H!Query \/ H!UpsertCase \/ H!UpsertLink \/ H!InsertEvent \/ H!RegisterFeature
           \/ H!SaveOffset
  BY <1>4, QueryStep, CaseStep, LinkStep, EventStep, FeatureStep, SaveStep
<1>5. ASSUME NEW t \in H!Tables, NEW at \in 1 .. HistoryTime, NEW new \in HistoryRows[t],
             H!Write(t, new, at)
      PROVE  TablesInv'
  BY <1>5, WriteStep
<1> QED BY <1>1, <1>2, <1>3, <1>4, <1>5 DEF H!Next, H!Step

LEMMA TablesSuffices == TablesInv => H!NothingSkipped /\ H!CopiesComplete
<1> SUFFICES ASSUME TablesInv PROVE H!CopiesComplete
  BY DEF TablesInv
<1>1. ASSUME NEW t \in H!Tables, NEW r \in source[t], <<t, r.id, r.at>> \in seen
      PROVE  /\ r.case \in DOMAIN cases
             /\ t # "features" => <<t, r.id>> \in events
             /\ t = "alerts" => <<r.case, r.id>> \in links
             /\ t = "features" => <<r.id, r.case>> \in registry
  <2>1. r \in Stamped(t)
    BY DEF TablesInv, TablesShape
  <2>2. PICK n \in HistoryRows[t] : n.id = r.id /\ n.case = r.case
    BY <2>1, StampedRow
  <2>3. Done(t, n)
    BY <1>1, <2>1, <2>2, StampedRow DEF TablesInv, Complete
  <2> QED BY <2>2, <2>3 DEF Done, Linked
<1> QED BY <1>1 DEF H!CopiesComplete, H!Copied

-----------------------------------------------------------------------------
(* The run. *)

\* A behaviour is that of one part, whose variables no other step touches.
LEMMA OnePart ==
    ASSUME [DeliveryNext]_allVars
    PROVE  /\ part' = part
           /\ part = "detector" => [D!Next]_D!vars
           /\ part = "detectors" => [DD!Next]_DD!vars
           /\ part = "queue" => [Q!Next]_Q!vars
           /\ part = "tables" => [H!Next]_H!vars
           /\ part = "scenarios" => [C!Next]_C!vars
  BY DEF DeliveryNext, allVars, OfDetector, OfQueue, OfTables, OfScenarios, OfBreaker,
         detectorVars, queueVars, D!vars, D!streamVars, D!history, DD!vars, DD!streamVars,
         DD!history, Q!vars, tablesVars, filesVars, H!vars, C!vars

\* No detector of the run takes up what another had, what is acknowledged was
\* seen by every pattern, and its detections were published.
THEOREM HandledOnceHolds == DeliverySpec => []HandledOnce
<1> DEFINE Inv == /\ part = "detector" => P!DetectorInv
                  /\ part = "detectors" => PP!DetectorInv
<1>1. DeliveryInit => Inv
  BY SameDetector, SameDetectors, P!DetectorInit, PP!DetectorInit DEF DeliveryInit
<1>2. Inv /\ [DeliveryNext]_allVars => Inv'
  <2> SUFFICES ASSUME Inv, [DeliveryNext]_allVars PROVE Inv'
    OBVIOUS
  <2>1. part = "detector" => P!DetectorInv'
    BY OnePart, SameDetector, P!DetectorStep
  <2>2. part = "detectors" => PP!DetectorInv'
    BY OnePart, SameDetectors, PP!DetectorStep
  <2> QED BY <2>1, <2>2, OnePart
<1>3. Inv => HandledOnce
  BY SameDetector, SameDetectors, P!DetectorInvSuffices, PP!DetectorInvSuffices DEF HandledOnce
<1> QED BY <1>1, <1>2, <1>3, PTL DEF DeliverySpec

\* "Prevents event loss while avoiding infinite retry loops": for any number of
\* callers and any limit above zero, an entry that was given up keeps its row
\* unless somebody processed it after all, and its count passes the limit only
\* by attempts that had begun.
THEOREM GivenUpIsKeptHolds == DeliverySpec => []GivenUpIsKept
<1> DEFINE Inv == part = "queue" => QueueInv
<1>1. DeliveryInit => Inv
  BY QueueAssumption, QueueKeptInit, QueueCountInit DEF DeliveryInit, QueueInv
<1>2. Inv /\ [DeliveryNext]_allVars => Inv'
  <2> SUFFICES ASSUME Inv, [DeliveryNext]_allVars PROVE Inv'
    OBVIOUS
  <2> QED BY OnePart, QueueInvStep
<1>3. Inv => GivenUpIsKept
  BY QueueInvSuffices DEF GivenUpIsKept
<1> QED BY <1>1, <1>2, <1>3, PTL DEF DeliverySpec

\* "No row that the offset has passed was left out": for any rows, batch size,
\* writes and failures, the history worker copies completely every row that its
\* offset has passed, but for rows that became visible behind it; and, whatever
\* the scenario files say and whenever they are edited, what the replay catalog
\* lists can be replayed.
THEOREM HistoryCompleteHolds == DeliverySpec => []HistoryComplete
<1> DEFINE Inv == /\ part = "tables" => TablesInv
                  /\ part = "scenarios" => CatalogInv
<1>1. DeliveryInit => Inv
  BY TablesInit, CatalogInit DEF DeliveryInit
<1>2. Inv /\ [DeliveryNext]_allVars => Inv'
  <2> SUFFICES ASSUME Inv, [DeliveryNext]_allVars PROVE Inv'
    OBVIOUS
  <2>1. part = "tables" => TablesInv'
    BY OnePart, TablesStep
  <2>2. part = "scenarios" => CatalogInv'
    BY OnePart, CatalogStep
  <2> QED BY <2>1, <2>2, OnePart
<1>3. Inv => HistoryComplete
  BY TablesSuffices DEF HistoryComplete, CatalogInv
<1> QED BY <1>1, <1>2, <1>3, PTL DEF DeliverySpec
=============================================================================
