---------------------------- MODULE HistoryWorker ----------------------------
(***************************************************************************)
(* The history worker, apps/history-worker/src/main.rs: it copies the rows *)
(* of four operational tables into the history schema, table after table,  *)
(* from a stored offset, one statement after the other and without a       *)
(* transaction.  An error of any statement ends the process, which is      *)
(* started again.  (The scenario files, last in an iteration, are          *)
(* SimlabCatalog.)                                                         *)
(*                                                                         *)
(* A row has an id, the stamp by which its table is read, the case it      *)
(* belongs to, and the severity and status that it gives to the case.  A   *)
(* row gets its stamp before it is visible.                                *)
(***************************************************************************)
EXTENDS Integers, Sequences, FiniteSets

CONSTANTS
    NewRows,    \* NewRows[t]: the rows that may be written, without their stamps
    TextRank,   \* the order of the ids of feature vectors as texts
    BatchSize,  \* HISTORY_WORKER_BATCH_SIZE
    MaxLag,     \* how far the stamp of a new row may be behind the newest one
    MaxTime,    \* bound: stamps
    MaxWrites,  \* bound: rows written
    MaxFaults   \* bound: statements that fail, and crashes

VARIABLES
    source,     \* the operational tables
    offsets,    \* history.ingest_offsets
    cases,      \* history.cases
    events,     \* history.case_events: <<table, id>>
    links,      \* history.case_alert_links
    registry,   \* history.ml_feature_registry
    worker,     \* where the process is
    count,      \* writes and faults, for the bounds
    seen,       \* for the properties: <<table, id, stamp>> copied
    late        \* for the properties: rows behind the offset when they were written

vars == <<source, offsets, cases, events, links, registry, worker, count, seen, late>>

Order == <<"incidents", "alerts", "detections", "features">>
Tables == {Order[i] : i \in 1 .. 4}

Epoch == [ts |-> 0, id |-> 0]

\* The next step of a process that starts an iteration.
Start == [stage |-> "query", i |-> 1, batch |-> <<>>, at |-> Epoch]

Init ==
    /\ source = [t \in Tables |-> {}] /\ offsets = [t \in Tables |-> Epoch]
    /\ cases = <<>> /\ events = {} /\ links = {} /\ registry = {}
    /\ worker = Start /\ count = [writes |-> 0, faults |-> 0]
    /\ seen = {} /\ late = {}

Stages == {"query", "case", "link", "event", "save", "sleep", "down"}

TypeOK ==
    /\ \A t \in Tables : \A r \in source[t] : r.at \in 1 .. MaxTime
    /\ \A t \in Tables : offsets[t].ts \in 0 .. MaxTime
    /\ worker.stage \in Stages /\ worker.i \in 1 .. 4 /\ Len(worker.batch) <= BatchSize
    /\ \A x \in events : x[1] \in Tables \ {"features"}
    /\ count.writes \in 0 .. MaxWrites /\ count.faults \in 0 .. MaxFaults

Fault == count.faults < MaxFaults /\ count' = [count EXCEPT !.faults = @ + 1]

-----------------------------------------------------------------------------
\* The queries.

\* The ids of the feature vectors are numbers that the query compares as texts.
IdAfter(t, a, b) == IF t = "features" /\ b # 0 THEN TextRank[a] > TextRank[b] ELSE a > b

\* Mutant: rows that share the stamp of the offset are taken for read.
StampAfter(t, r, offset) == r.at > offset.ts

After(t, r, offset) == r.at > offset.ts \/ (r.at = offset.ts /\ IdAfter(t, r.id, offset.id))

\* ORDER BY the stamp and the id, which is a number here.
Precedes(a, b) == a.at < b.at \/ (a.at = b.at /\ a.id < b.id)

Sorted(rows) ==
    LET n == Cardinality(rows)
    IN  CHOOSE s \in [1 .. n -> rows] :
            /\ \A r \in rows : \E i \in 1 .. n : s[i] = r
            /\ \A i, j \in 1 .. n : i < j => ~Precedes(s[j], s[i])

Batch(t) ==
    LET rows == Sorted({r \in source[t] : After(t, r, offsets[t])})
    IN  SubSeq(rows, 1, IF Len(rows) < BatchSize THEN Len(rows) ELSE BatchSize)

-----------------------------------------------------------------------------
\* The process, statement by statement.

Table == Order[worker.i]
Row == Head(worker.batch)

At(stage) == worker.stage = stage
Goto(stage) == worker' = [worker EXCEPT !.stage = stage]
NextTable == IF worker.i = 4 THEN [worker EXCEPT !.stage = "sleep"]
             ELSE [worker EXCEPT !.stage = "query", !.i = @ + 1]

FirstStage(t) == IF t = "features" THEN "event" ELSE "case"

\* Mutant: a table without new rows ends the iteration.
NoRowsEnds == [worker EXCEPT !.stage = "sleep"]

\* No rows, no work, and no offset saved.
NoRows == NextTable

\* load_offset and the query.
Query ==
    /\ At("query")
    /\ worker' = IF Batch(Table) = <<>> THEN NoRows
                 ELSE [worker EXCEPT !.stage = FirstStage(Table), !.batch = Batch(Table),
                                     !.at = offsets[Table]]
    /\ UNCHANGED <<source, offsets, cases, events, links, registry, count, seen, late>>

\* A case is created from a row of any table but the features; of an existing
\* one a detection changes the severity, the others the status as well.
CaseAfter(t, r) ==
    IF r.case \notin DOMAIN cases THEN [severity |-> r.severity, status |-> r.status]
    ELSE IF t = "detections" THEN [cases[r.case] EXCEPT !.severity = r.severity]
    ELSE [severity |-> r.severity, status |-> r.status]

\* Mutant: alerts are not linked to their case.
Unlinked(t) == "event"

\* The statement after that of the case.
AfterCase(t) == IF t = "alerts" THEN "link" ELSE "event"

UpsertCase ==
    /\ At("case")
    /\ cases' = [c \in DOMAIN cases \cup {Row.case} |->
                    IF c = Row.case THEN CaseAfter(Table, Row) ELSE cases[c]]
    /\ Goto(AfterCase(Table))
    /\ UNCHANGED <<source, offsets, events, links, registry, count, seen, late>>

UpsertLink ==
    /\ At("link")
    /\ links' = links \cup {<<Row.case, Row.id>>} /\ Goto("event")
    /\ UNCHANGED <<source, offsets, cases, events, registry, count, seen, late>>

\* The row is done, and with the last of them the offset is saved.
RowDone ==
    /\ worker' = [worker EXCEPT !.stage = IF Len(worker.batch) = 1 THEN "save" ELSE FirstStage(Table),
                                !.batch = Tail(@), !.at = [ts |-> Row.at, id |-> Row.id]]
    /\ seen' = seen \cup {<<Table, Row.id, Row.at>>}

InsertEvent ==
    /\ At("event") /\ Table # "features"
    /\ events' = events \cup {<<Table, Row.id>>} /\ RowDone
    /\ UNCHANGED <<source, offsets, cases, links, registry, count, late>>

\* The case of a feature vector must be there: the column refers to it.
RegisterFeature ==
    /\ At("event") /\ Table = "features"
    /\ \/ /\ Row.case \in DOMAIN cases
          /\ registry' = registry \cup {<<Row.id, Row.case>>} /\ RowDone
       \/ /\ Row.case \notin DOMAIN cases
          /\ Goto("down") /\ UNCHANGED <<registry, seen>>
    /\ UNCHANGED <<source, offsets, cases, events, links, count, late>>

\* The offset to save: the last row of the batch.
OffsetSeen == worker.at

SaveOffset ==
    /\ At("save")
    /\ offsets' = [offsets EXCEPT ![Table] = OffsetSeen]
    /\ worker' = NextTable
    /\ UNCHANGED <<source, cases, events, links, registry, count, seen, late>>

\* The next iteration, after the interval.
Sleep ==
    /\ At("sleep") /\ worker' = Start
    /\ UNCHANGED <<source, offsets, cases, events, links, registry, count, seen, late>>

\* A statement fails, before or after it took effect, or the process is killed.
Down ==
    /\ worker.stage \notin {"sleep", "down"} /\ Fault /\ Goto("down")
    /\ UNCHANGED <<source, offsets, cases, events, links, registry, seen, late>>

Restart ==
    /\ At("down") /\ worker' = Start
    /\ UNCHANGED <<source, offsets, cases, events, links, registry, count, seen, late>>

-----------------------------------------------------------------------------
\* The writers of the operational tables.

Newest(t) == IF source[t] = {} THEN 1 ELSE CHOOSE m \in {r.at : r \in source[t]} : \A r \in source[t] : r.at <= m

\* Whether the worker has passed the row, or its query has.
Passed(t, r) ==
    \/ ~After(t, r, offsets[t])
    \/ Table = t /\ worker.batch # <<>> /\ r.at <= worker.batch[Len(worker.batch)].at
    \/ Table = t /\ worker.stage = "save" /\ r.at <= worker.at.ts

\* What detector and orchestrator write: a new row, or an incident updated.  (An
\* alert that changes keeps its stamp and is not read again.  No program of the
\* repository writes feature vectors.)
Write(t, new, at) ==
    LET old == {r \in source[t] : r.id = new.id}
        row == [id |-> new.id, at |-> at, case |-> new.case, severity |-> new.severity,
                status |-> new.status]
    IN  /\ count.writes < MaxWrites /\ at >= Newest(t) - MaxLag
        /\ old = {} \/ t = "incidents"
        /\ t = "features" => \E d \in source["detections"] : d.case = new.case
        /\ source' = [source EXCEPT ![t] = (@ \ old) \cup {row}]
        /\ late' = IF Passed(t, row) THEN late \cup {<<t, new.id, at>>} ELSE late
        /\ count' = [count EXCEPT !.writes = @ + 1]
        /\ UNCHANGED <<offsets, cases, events, links, registry, worker, seen>>

Step == Query \/ UpsertCase \/ UpsertLink \/ InsertEvent \/ RegisterFeature \/ SaveOffset \/ Sleep

Next ==
    \/ Step \/ Down \/ Restart
    \/ \E t \in Tables, at \in 1 .. MaxTime : \E new \in NewRows[t] : Write(t, new, at)

Spec == Init /\ [][Next]_vars

\* The loop goes on, and the container is restarted when the process ends.
FairSpec == Spec /\ WF_vars(Step) /\ WF_vars(Restart)

-----------------------------------------------------------------------------
\* The query takes the feature vector for read: another of the same stamp has
\* a smaller number and a greater text, as 9 and 10.
Misordered(t, r) ==
    /\ t = "features"
    /\ \E q \in source[t] : q.at = r.at /\ q.id < r.id /\ TextRank[q.id] > TextRank[r.id]

Copied(t, r) == <<t, r.id, r.at>> \in seen
Excused(t, r) == <<t, r.id, r.at>> \in late \/ Misordered(t, r)

\* No row that the offset has passed was left out, whatever failed in between
\* (save_offset comes after the rows): but for rows that became visible late,
\* and feature vectors that the comparison of texts takes for read.
NothingSkipped ==
    \A t \in Tables : \A r \in source[t] :
        After(t, r, offsets[t]) \/ Copied(t, r) \/ Excused(t, r)

\* A row that is copied has its case, its event and its link or its entry: a
\* failure between the statements of a row is made up for by the next attempt.
CopiesComplete ==
    \A t \in Tables : \A r \in source[t] : Copied(t, r) =>
        /\ r.case \in DOMAIN cases
        /\ t # "features" => <<t, r.id>> \in events
        /\ t = "alerts" => <<r.case, r.id>> \in links
        /\ t = "features" => <<r.id, r.case>> \in registry

\* A feature vector of a detection that was left out for being late stops the
\* process at every iteration, and the feature vectors after it.
Poisoned ==
    \E r \in source["features"], d \in source["detections"] :
        r.case = d.case /\ Excused("detections", d) /\ ~Copied("detections", d)

\* Everything written is copied, in the end.
AllCopied == Poisoned \/ \A t \in Tables : \A r \in source[t] : Copied(t, r) \/ Excused(t, r)
=============================================================================
