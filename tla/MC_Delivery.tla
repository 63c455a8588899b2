----------------------------- MODULE MC_Delivery -----------------------------
(***************************************************************************)
(* The parts that hand events on and keep them: a detector and a pair of   *)
(* them on the stream of unified events, the dead letter queue, the two    *)
(* halves of the history worker, and the circuit breaker.  A behaviour is  *)
(* that of one part.                                                       *)
(***************************************************************************)
EXTENDS CircuitBreaker, Sequences, TLC

CONSTANTS
    Parts,         \* the parts looked at
    QueueCallers,  \* the processes that share a dead entry
    MaxRetries,    \* max_retries of the dead letter queue
    HistoryRows,   \* what may be written to the operational tables
    HistoryOrder,  \* the order of the ids of feature vectors as texts
    HistoryBatch,  \* HISTORY_WORKER_BATCH_SIZE
    HistoryLag,    \* how late a row may become visible
    HistoryTime,   \* bounds of the history worker: stamps,
    HistoryWrites, \* and rows written
    HistoryFaults, \* bound of both its halves: failures and crashes
    ScenarioFiles, \* the scenario files
    Scenarios,     \* what they may say
    Slugs          \* the slugs of scenario ids

ASSUME QueueAssumption == IsFiniteSet(QueueCallers) /\ MaxRetries \in Nat \ {0}

VARIABLES part,
          stream, given, pending, config, loaded, due, rested, commands, closed, proc,
          begun, hits, lost,
          row, caller, read, succeeded,
          source, offsets, links, registry, late,
          files, catalog, archive,
          cases, events, worker, seen, count

breakerVars == vars
detectorVars == <<stream, given, pending, config, loaded, due, rested, commands, closed, proc,
                  begun, hits, lost>>
queueVars == <<row, caller, read, succeeded>>
tablesVars == <<source, offsets, links, registry, late>>
filesVars == <<files, catalog, archive>>
allVars == <<part, breakerVars, detectorVars, queueVars, tablesVars, filesVars,
             cases, events, worker, seen, count>>

-----------------------------------------------------------------------------
\* One detector with two patterns, and everything that may go wrong once.
D == INSTANCE Detector WITH
        Detectors <- {"d1"}, Patterns <- 2, Kinds <- {"ok", "bad", "empty"}, MaxLen <- 2,
        BatchSize <- 2, MaxEntries <- 2, MaxConfig <- 2, MaxCommands <- 1, MaxFaults <- 1

\* Two detectors that share the stream.
DD == INSTANCE Detector WITH
        Detectors <- {"d1", "d2"}, Patterns <- 1, Kinds <- {"ok"}, MaxLen <- 1,
        BatchSize <- 2, MaxEntries <- 2, MaxConfig <- 1, MaxCommands <- 0, MaxFaults <- 1

Q == INSTANCE DeadLetterQueue WITH Callers <- QueueCallers, MaxSuccess <- 1

\* An incident and its alert, two detections, and two feature vectors of the
\* first, whose ids are in another order as texts.
NewRow(id, case) == [id |-> id, case |-> case, severity |-> "high", status |-> "open"]
SomeRows ==
        ("incidents" :> {NewRow(1, "i"), [NewRow(1, "i") EXCEPT !.status = "closed"]})
        @@ ("alerts" :> {NewRow(1, "i")})
        @@ ("detections" :> {NewRow(1, "d1"), NewRow(2, "d2")})
        @@ ("features" :> {NewRow(9, "d1"), NewRow(10, "d1")})

TextOrder == (9 :> 2) @@ (10 :> 1)

H == INSTANCE HistoryWorker WITH
        NewRows <- HistoryRows, TextRank <- HistoryOrder, BatchSize <- HistoryBatch,
        MaxLag <- HistoryLag, MaxTime <- HistoryTime, MaxWrites <- HistoryWrites,
        MaxFaults <- HistoryFaults

\* The key of a row is a number above zero and tells its case; of two feature
\* vectors one comes first in the order of texts.
ASSUME HistoryAssumption ==
    /\ HistoryBatch \in Nat /\ HistoryTime \in Nat
    /\ \A t \in H!Tables : \A r \in HistoryRows[t] :
          r.id \in Nat \ {0} /\ \A q \in HistoryRows[t] : q.id = r.id => q.case = r.case
    /\ \A r \in HistoryRows["features"] :
          /\ HistoryOrder[r.id] \in Int
          /\ \A q \in HistoryRows["features"] : HistoryOrder[q.id] = HistoryOrder[r.id] => q.id = r.id

\* Files that say nothing, something out of range, one scenario in two
\* revisions, another with the same slug, and a third.
Scenario(id, steps) == [kind |-> "valid", id |-> id, version |-> 1, steps |-> steps]
Said == {[Scenario("a", 0) EXCEPT !.kind = "invalid"], [Scenario("a", 0) EXCEPT !.kind = "fast"],
         Scenario("a", 1), Scenario("a", 2), Scenario("b", 1), Scenario("c", 1)}

SomeSlugs == ("a" :> "s") @@ ("b" :> "s") @@ ("c" :> "t")

C == INSTANCE SimlabCatalog WITH
        Files <- ScenarioFiles, Contents <- Scenarios, Slug <- Slugs, MaxEdits <- 1,
        MaxFaults <- HistoryFaults

\* A file says something else, something out of range, or a number of steps.
ASSUME ScenarioAssumption ==
    /\ Cardinality(ScenarioFiles) \in Nat \ {0} /\ ScenarioFiles = 1 .. Cardinality(ScenarioFiles)
    /\ \A doc \in Scenarios : doc.kind \in {"invalid", "fast", "valid"} /\ doc.steps \in Nat

-----------------------------------------------------------------------------
\* The variables of the other parts stay 0, those of the breaker as they begin.
NoDetector ==
    /\ stream = 0 /\ given = 0 /\ pending = 0 /\ config = 0 /\ loaded = 0 /\ due = 0 /\ rested = 0
    /\ commands = 0 /\ closed = 0 /\ proc = 0 /\ begun = 0 /\ hits = 0 /\ lost = 0
NoQueue == row = 0 /\ caller = 0 /\ read = 0 /\ succeeded = 0
NoTables == source = 0 /\ offsets = 0 /\ links = 0 /\ registry = 0 /\ late = 0
NoFiles == files = 0 /\ catalog = 0 /\ archive = 0
NoHistory == NoTables /\ NoFiles /\ cases = 0 /\ events = 0 /\ worker = 0

DeliveryInit ==
    /\ part \in Parts /\ Init
    /\ \/ /\ part = "detector" /\ D!Init /\ NoQueue /\ NoHistory
       \/ /\ part = "detectors" /\ DD!Init /\ NoQueue /\ NoHistory
       \/ /\ part = "queue" /\ Q!Init /\ NoDetector /\ NoHistory /\ seen = 0 /\ count = 0
       \/ /\ part = "tables" /\ H!Init /\ NoDetector /\ NoQueue /\ NoFiles
       \/ /\ part = "scenarios" /\ C!Init /\ NoDetector /\ NoQueue /\ NoTables /\ seen = 0
       \/ /\ part = "breaker" /\ NoDetector /\ NoQueue /\ NoHistory /\ seen = 0 /\ count = 0

\* A step of one part leaves the others alone.
OfDetector(p, A) ==
    /\ part = p /\ A
    /\ UNCHANGED <<part, breakerVars, queueVars, tablesVars, filesVars, cases, events, worker>>
OfQueue(A) ==
    /\ part = "queue" /\ A
    /\ UNCHANGED <<part, breakerVars, detectorVars, tablesVars, filesVars, cases, events, worker,
                   seen, count>>
OfTables(A) ==
    part = "tables" /\ A /\ UNCHANGED <<part, breakerVars, detectorVars, queueVars, filesVars>>
OfScenarios(A) ==
    /\ part = "scenarios" /\ A
    /\ UNCHANGED <<part, breakerVars, detectorVars, queueVars, tablesVars, seen>>
OfBreaker(A) ==
    /\ part = "breaker" /\ A
    /\ UNCHANGED <<part, detectorVars, queueVars, tablesVars, filesVars, cases, events, worker,
                   seen, count>>

DeliveryNext ==
    \/ OfDetector("detector", D!Next) \/ OfDetector("detectors", DD!Next)
    \/ OfQueue(Q!Next) \/ OfTables(H!Next) \/ OfScenarios(C!Next) \/ OfBreaker(Next)

\* The fairness of the parts: see their modules.
DeliverySpec ==
    /\ DeliveryInit /\ [][DeliveryNext]_allVars
    /\ WF_allVars(OfDetector("detector", D!Step("d1")))
    /\ WF_allVars(OfDetector("detector", D!Timer("d1")))
    /\ \A d \in {"d1", "d2"} : WF_allVars(OfDetector("detectors", DD!Step(d)))
                               /\ WF_allVars(OfDetector("detectors", DD!Timer(d)))
    /\ \A c \in QueueCallers : WF_allVars(OfQueue(Q!Step(c)))
    /\ WF_allVars(OfTables(H!Step)) /\ WF_allVars(OfTables(H!Restart))
    /\ WF_allVars(OfScenarios(C!Step)) /\ WF_allVars(OfScenarios(C!Restart))
    /\ WF_allVars(OfBreaker(Tick)) /\ \A c \in Callers : WF_allVars(OfBreaker(Step(c)))

-----------------------------------------------------------------------------
(* The properties of the parts, each for the behaviours it is about. *)

\* An event is handled once, and completely: no detector takes up what another
\* had, and what is acknowledged was seen by every pattern and its detections
\* published.
HandledOnce ==
    /\ part = "detector" => D!TakenUpOnce /\ D!AcknowledgedWasSeen /\ D!DetectionsPublished
    /\ part = "detectors" => DD!TakenUpOnce /\ DD!AcknowledgedWasSeen /\ DD!DetectionsPublished

\* The detectors catch up: every event is seen by every pattern in the end, and
\* the newest configuration is loaded, although no notification ever arrives.
DetectorsCatchUp ==
    /\ <>[](IF part = "detector" THEN D!Done \/ D!Starved
            ELSE IF part = "detectors" THEN DD!Done \/ DD!Starved ELSE TRUE)
    /\ <>[](IF part = "detector" THEN D!Current ELSE TRUE)

\* An entry that was given up is kept, unless it was processed after all, and
\* its count passes the limit only by attempts that had begun.
GivenUpIsKept == part = "queue" => Q!GivenUpIsKept /\ Q!CountBounded

\* Nobody retries an entry for ever.
GivesUp == <>[](IF part = "queue" THEN Q!AllStopped ELSE TRUE)

\* The history is complete: no row that the offset has passed was left out or
\* copied in part, and an entry of the replay catalog can be replayed.
HistoryComplete ==
    /\ part = "tables" => H!NothingSkipped /\ H!CopiesComplete
    /\ part = "scenarios" => C!CatalogReplayable

\* The history catches up: every row is copied in the end, and the scenario
\* files end in the catalog and in the archive.
HistoryCatchesUp ==
    /\ <>[](IF part = "tables" THEN H!AllCopied ELSE TRUE)
    /\ <>[](IF part = "scenarios" THEN C!Settled ELSE TRUE)
=============================================================================
