---------------------------- MODULE SimlabCatalog ----------------------------
(***************************************************************************)
(* The last step of an iteration of the history worker,                    *)
(* sync_simlab_catalog of apps/history-worker/src/main.rs: every scenario  *)
(* file is written, one statement after the other, as a case, its events,  *)
(* an entry of the replay catalog and three files of the archive.  Nothing *)
(* remembers what was done: every iteration writes everything again.       *)
(*                                                                         *)
(* What a file says is its scenario id, dataset version, number of steps   *)
(* and a revision for all the rest.  Files are edited while the worker     *)
(* reads them, one at a time, and never deleted here.                      *)
(***************************************************************************)
EXTENDS Integers, Sequences, FiniteSets

CONSTANTS
    Files,      \* the paths, 1 .. n, in the order of files.sort()
    Contents,   \* what the files may say
    Slug,       \* Slug[scenario id]: slugify is not injective
    MaxEdits,   \* bound: edits of files
    MaxFaults   \* bound: statements that fail, and crashes

VARIABLES
    files,      \* files[f]: the content of each file
    cases,      \* history.cases of scenarios: case id -> content
    events,     \* history.case_events: <<scenario id, version, index>> -> content
    catalog,    \* history.replay_catalog: <<slug, version>> -> content
    archive,    \* the archive: <<slug, version, file name>> -> content
    worker,     \* where the process is
    count       \* edits and faults, for the bounds

vars == <<files, cases, events, catalog, archive, worker, count>>

None == [kind |-> "none"]

Idle == [stage |-> "idle", file |-> 1, doc |-> None, step |-> 0]

Init ==
    /\ files \in [Files -> Contents]
    /\ cases = <<>> /\ events = <<>> /\ catalog = <<>> /\ archive = <<>>
    /\ worker = Idle /\ count = [edits |-> 0, faults |-> 0]

\* The file names of the archive, in the order they are written.
ArchiveFiles == <<"scenario", "events", "manifest">>

EventKey(doc, i) == <<doc.id, doc.version, i>>
CatalogKey(doc) == <<Slug[doc.id], doc.version>>
ArchiveKey(doc, i) == <<Slug[doc.id], doc.version, ArchiveFiles[i]>>

\* INSERT ... ON CONFLICT DO UPDATE, and fs::write.
Upsert(table, key, doc) == [k \in DOMAIN table \cup {key} |-> IF k = key THEN doc ELSE table[k]]

At(stage) == worker.stage = stage
Goto(stage) == worker' = [worker EXCEPT !.stage = stage, !.step = 1]
Fault == count.faults < MaxFaults /\ count' = [count EXCEPT !.faults = @ + 1]

\* The next file, or the end of the iteration.
NextFile == IF worker.file = Cardinality(Files) THEN Idle
            ELSE [stage |-> "load", file |-> worker.file + 1, doc |-> None, step |-> 0]

-----------------------------------------------------------------------------
\* discover_files_recursive and load_curated_records.
Discover ==
    /\ At("idle") /\ Goto("load")
    /\ UNCHANGED <<files, cases, events, catalog, archive, count>>

\* Mutant: a file that cannot be parsed ends the iteration.
InvalidEnds == Idle

\* A file that is not a scenario is left out.
InvalidSkipped == NextFile

\* load_scenario_file: JSON or YAML with defaults for what is missing, read when
\* its turn comes.
LoadScenarioFile == files[worker.file]

\* A default_speed beyond 32 bits is an error of the whole iteration, and with
\* it of the process.
Load ==
    /\ At("load")
    /\ LET doc == LoadScenarioFile
       IN  worker' = CASE doc.kind = "invalid" -> InvalidSkipped
                       [] doc.kind = "fast"    -> [worker EXCEPT !.stage = "down"]
                       [] doc.kind = "valid"   -> [worker EXCEPT !.stage = "case", !.doc = doc]
    /\ UNCHANGED <<files, cases, events, catalog, archive, count>>

\* Mutant: the first step is no event of its own.
CaseThenCatalog == IF worker.doc.steps <= 1 THEN "catalog" ELSE "events"

\* The statement after the case: the first event, if there is one.
AfterCase == IF worker.doc.steps = 0 THEN "catalog" ELSE "events"

UpsertCase ==
    /\ At("case")
    /\ cases' = Upsert(cases, worker.doc.id, worker.doc) /\ Goto(AfterCase)
    /\ UNCHANGED <<files, events, catalog, archive, count>>

\* One event for every step that can be replayed and for every curated record
\* that matches the scenario; the key has the index of the step.
UpsertEvent ==
    /\ At("events")
    /\ events' = Upsert(events, EventKey(worker.doc, worker.step), worker.doc)
    /\ IF worker.step = worker.doc.steps THEN Goto("catalog")
       ELSE worker' = [worker EXCEPT !.step = @ + 1]
    /\ UNCHANGED <<files, cases, catalog, archive, count>>

\* A scenario whose id has the same slug takes the entry over.
UpsertCatalog ==
    /\ At("catalog")
    /\ catalog' = Upsert(catalog, CatalogKey(worker.doc), worker.doc) /\ Goto("archive")
    /\ UNCHANGED <<files, cases, events, archive, count>>

\* persist_long_term_artifacts: scenario.json, events.ndjson, manifest.json.
WriteArchive ==
    /\ At("archive")
    /\ archive' = Upsert(archive, ArchiveKey(worker.doc, worker.step), worker.doc)
    /\ worker' = IF worker.step = 3 THEN NextFile ELSE [worker EXCEPT !.step = @ + 1]
    /\ UNCHANGED <<files, cases, events, catalog, count>>

\* A statement or a write of a file fails, or the process is killed.
Down ==
    /\ worker.stage \notin {"idle", "down"} /\ Fault
    /\ worker' = [worker EXCEPT !.stage = "down"]
    /\ UNCHANGED <<files, cases, events, catalog, archive>>

\* The container starts the process again.
Restart ==
    /\ At("down") /\ worker' = Idle
    /\ UNCHANGED <<files, cases, events, catalog, archive, count>>

\* Somebody edits a scenario file.
Edit(f, doc) ==
    /\ count.edits < MaxEdits /\ files[f] # doc
    /\ files' = [files EXCEPT ![f] = doc] /\ count' = [count EXCEPT !.edits = @ + 1]
    /\ UNCHANGED <<cases, events, catalog, archive, worker>>

Step == Discover \/ Load \/ UpsertCase \/ UpsertEvent \/ UpsertCatalog \/ WriteArchive

Next == Step \/ Down \/ Restart \/ \E f \in Files, doc \in Contents : Edit(f, doc)

Spec == Init /\ [][Next]_vars

\* The loop of the worker, and the container that restarts it.
FairSpec == Spec /\ WF_vars(Step) /\ WF_vars(Restart)

-----------------------------------------------------------------------------
\* An entry of the catalog can be replayed: its case and the event of every
\* step it lists are there, whatever is edited and wherever the process died
\* (case and events are written before the catalog, in sync_simlab_catalog).
CatalogReplayable ==
    \A k \in DOMAIN catalog :
        /\ catalog[k].id \in DOMAIN cases
        /\ \A i \in 1 .. catalog[k].steps : EventKey(catalog[k], i) \in DOMAIN events

\* A file behind one whose default_speed is out of range is never reached.
Blocked(f) == \E g \in Files : g < f /\ files[g].kind = "fast"

\* The only file with its entry in the catalog: files with one entry take turns.
Alone(f) ==
    \A g \in Files \ {f} : files[g].kind = "valid" => CatalogKey(files[g]) # CatalogKey(files[f])

\* The tables and the archive have what the files say: but for files that share
\* their entry, and for those behind a file that stops the process.
Settled ==
    \A f \in Files : files[f].kind = "valid" /\ Alone(f) /\ ~Blocked(f) =>
        LET Has(table, key) == key \in DOMAIN table /\ table[key] = files[f]
        IN  /\ Has(catalog, CatalogKey(files[f]))
            /\ \A i \in 1 .. files[f].steps : Has(events, EventKey(files[f], i))
            /\ \A i \in 1 .. 3 : Has(archive, ArchiveKey(files[f], i))
=============================================================================
