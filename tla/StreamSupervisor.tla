-------------------------- MODULE StreamSupervisor --------------------------
(***************************************************************************)
(* The stream supervisor of the indexer, stream_supervisor.rs and main.rs  *)
(* of apps/indexer: it keeps one worker task per stream configuration of   *)
(* the catalog, and reconciles them with the catalog when its tick, a      *)
(* notification of the database or a reload command says so.  The catalog  *)
(* is edited at any time, so what a reconcile reads, row by row, need not  *)
(* be what the catalog holds when it is done.                              *)
(*                                                                         *)
(* A worker task is what the supervisor sees of StreamWorker: it runs, may *)
(* end by itself over a configuration that cannot work, and ends some time *)
(* after it is told to stop.                                               *)
(***************************************************************************)
EXTENDS Integers, Sequences, FiniteSets

CONSTANTS
    Streams,          \* stream_config_id
    Catalogs,         \* Catalogs[s]: what the rows of stream s may say
    LiveEnabled,      \* INDEXER_ENABLE_LIVE_STREAMS
    DriverRunsAlone,  \* whether a database connection makes progress unpolled
    MaxEdits,         \* bound: changes of the catalog
    MaxFaults         \* bound: calls that fail and connections lost

VARIABLES
    catalog,    \* the configuration of each stream
    pc,         \* where the supervisor is
    started,    \* whether the first reconcile went through
    list,       \* what is left of the configurations of this reconcile, a set: the
                \* order of the query depends on what the rows say
    desired,    \* desired_ids so far
    workers,    \* the handles: stream to task, 0 for none
    tasks,      \* every task ever spawned: its stream, its configuration, its state
    waiting,    \* the task whose end is awaited, and the configuration to start next
    listener,   \* the state of the LISTEN task
    signals,    \* notify_rx
    command,    \* a ReconcileNow waits in command_rx
    connected,  \* listener_connected
    count,      \* edits and faults, for the bounds
    fresh       \* for the properties: nothing failed or changed since this reconcile began

vars == <<catalog, pc, started, list, desired, workers, tasks, waiting, listener, signals, command,
          connected, count, fresh>>

Init ==
    /\ catalog \in [Streams -> UNION {Catalogs[s] : s \in Streams}]
    /\ \A s \in Streams : catalog[s] \in Catalogs[s]
    /\ pc = "list" /\ started = FALSE /\ list = {} /\ desired = {}
    /\ workers = [s \in Streams |-> 0] /\ tasks = <<>> /\ waiting = <<>>
    /\ listener = "connect" /\ signals = <<>> /\ command = FALSE /\ connected = FALSE
    /\ count = [edits |-> 0, faults |-> 0]
    /\ fresh = FALSE

TypeOK ==
    /\ \A s \in Streams : catalog[s] \in Catalogs[s] /\ workers[s] \in 0 .. Len(tasks)
    /\ started \in BOOLEAN /\ pc \in {"idle", "list", "stream", "join", "stale", "joinStale", "exited"}
    /\ desired \subseteq Streams
    /\ \A i \in DOMAIN tasks : tasks[i].stream \in Streams /\ tasks[i].state \in {"runs", "told", "ended"}
    /\ listener \in {"connect", "listen", "hears"}
    /\ \A i \in DOMAIN signals : signals[i] \in {"Connected", "Changed", "Disconnected"}
    /\ command \in BOOLEAN /\ connected \in BOOLEAN /\ fresh \in BOOLEAN

Fault ==
    /\ count.faults < MaxFaults
    /\ count' = [count EXCEPT !.faults = @ + 1]

-----------------------------------------------------------------------------
\* What the catalog asks for.

\* list_effective_stream_configs: enabled, and of a profile that runs; the
\* source must be enabled too, unless the profile is test.
Listed(row) == row.enabled /\ (row.profile = "test" \/ row.sourceEnabled)

\* skipped_stream_reason
Skipped(row) ==
    \/ row.profile = "live" /\ ~LiveEnabled
    \/ row.profile = "test" /\ row.endpoint # "ok"

\* resolve_runtime_tenant_targets: the owner, or the targets of the stream.
TargetsOf(row) == IF row.owner # {} THEN row.owner ELSE row.targets

\* The targets that the catalog has now.
ListStreamTenantTargets(s) == catalog[s].targets

\* A live stream nobody listens to is left out.
Unwanted(row, targets) == row.profile = "live" /\ targets = {}

\* to_runtime_config: everything that the worker is given.
RuntimeConfig(row, targets) == [row |-> [row EXCEPT !.targets = {}], targets |-> targets]

\* Mutant: the targets are left out of the hash.
HashWithoutTargets(config) == config.row

\* hash_runtime_config, of all of it.
Hash(config) == config

Wanted(s) ==
    LET row == catalog[s]
    IN  Listed(row) /\ ~Skipped(row) /\ ~Unwanted(row, TargetsOf(row))

-----------------------------------------------------------------------------
\* Reconcile: list, then stream after stream, then the stale ones.

\* Mutant: any reconcile that fails takes the supervisor down.
ReconcileFailsHard == "exited"

\* Only the first reconcile, whose error is returned, ends the supervisor, and
\* the process with it; the others log it.
ReconcileFails == IF started THEN "idle" ELSE "exited"

\* A failure leaves the workers as they are by then.
Failed ==
    /\ Fault /\ pc' = ReconcileFails /\ list' = {} /\ fresh' = FALSE
    /\ tasks' = IF pc' = "exited" THEN [t \in DOMAIN tasks |-> [tasks[t] EXCEPT !.state = "ended"]]
                                  ELSE tasks

List ==
    /\ pc = "list"
    /\ \/ /\ pc' = "stream" /\ fresh' = TRUE /\ UNCHANGED <<count, tasks>>
          /\ list' = {[id |-> s, row |-> catalog[s]] : s \in {s \in Streams : Listed(catalog[s])}}
       \/ Failed
    /\ desired' = {}
    /\ UNCHANGED <<catalog, started, workers, waiting, listener, signals, command, connected>>

Spawn(s, config) ==
    /\ tasks' = Append(tasks, [stream |-> s, config |-> config, state |-> "runs"])
    /\ workers' = [workers EXCEPT ![s] = Len(tasks) + 1]

\* Whether the worker of the stream, if any, was started with this configuration.
SameConfig(s, config) == workers[s] # 0 /\ Hash(tasks[workers[s]].config) = Hash(config)

Tell(t) == IF tasks[t].state = "runs" THEN [tasks EXCEPT ![t].state = "told"] ELSE tasks

\* A reconcile goes on with the worker of stream s, which shall run config: it
\* is left alone, started, or told to stop and awaited.
Apply(s, config) ==
    \/ /\ SameConfig(s, config)
       /\ UNCHANGED <<pc, workers, tasks, waiting>>
    \/ /\ ~SameConfig(s, config) /\ workers[s] = 0
       /\ Spawn(s, config) /\ UNCHANGED <<pc, waiting>>
    \/ /\ ~SameConfig(s, config) /\ workers[s] # 0
       /\ tasks' = Tell(workers[s])
       /\ workers' = [workers EXCEPT ![s] = 0]
       /\ waiting' = <<workers[s], config>>
       /\ pc' = "join"

\* The next configuration of the list.  Its targets are read only now.
StreamOf(next) ==
    LET s       == next.id
        row     == next.row
        targets == IF row.owner # {} THEN row.owner ELSE ListStreamTenantTargets(s)
    IN  \/ /\ Skipped(row) \/ Unwanted(row, targets)
           /\ list' = list \ {next}
           /\ UNCHANGED <<pc, desired, workers, tasks, waiting, count, fresh>>
        \/ /\ ~Skipped(row) /\ ~Unwanted(row, targets)
           /\ desired' = desired \cup {s} /\ list' = list \ {next}
           /\ Apply(s, RuntimeConfig(row, targets))
           /\ UNCHANGED <<count, fresh>>
        \/ /\ ~Skipped(row) /\ row.owner = {}
           /\ Failed
           /\ UNCHANGED <<desired, workers, waiting>>

Stream ==
    /\ pc = "stream" /\ \E next \in list : StreamOf(next)
    /\ UNCHANGED <<catalog, started, listener, signals, command, connected>>

\* Mutant: the new worker is started without waiting for the old one.
StoppedOrTold(t) == TRUE

\* stop_worker awaits the end of the task, however long that takes.
Stopped(t) == tasks[t].state = "ended"

Join ==
    /\ pc = "join" /\ Stopped(waiting[1])
    /\ Spawn(tasks[waiting[1]].stream, waiting[2])
    /\ waiting' = <<>> /\ pc' = "stream"
    /\ UNCHANGED <<catalog, started, list, desired, listener, signals, command, connected, count, fresh>>

Stale == {s \in Streams : workers[s] # 0 /\ s \notin desired}

\* At the end of the list: the stale workers, one after the other.
StopStale ==
    /\ pc = "stream" /\ list = {}
    /\ \/ \E s \in Stale :
             /\ tasks' = Tell(workers[s])
             /\ waiting' = <<workers[s]>>
             /\ workers' = [workers EXCEPT ![s] = 0]
             /\ pc' = "joinStale" /\ UNCHANGED started
       \/ Stale = {} /\ pc' = "idle" /\ started' = TRUE /\ UNCHANGED <<tasks, waiting, workers>>
    /\ UNCHANGED <<catalog, list, desired, listener, signals, command, connected, count, fresh>>

\* Mutant: a stale worker is told, and not waited for.
JoinStaleUnawaited ==
    /\ pc = "joinStale"
    /\ waiting' = <<>> /\ pc' = "stream"
    /\ UNCHANGED <<catalog, started, list, desired, workers, tasks, listener, signals, command,
                   connected, count, fresh>>

JoinStale ==
    /\ pc = "joinStale" /\ Stopped(waiting[1])
    /\ waiting' = <<>> /\ pc' = "stream"
    /\ UNCHANGED <<catalog, started, list, desired, workers, tasks, listener, signals, command, connected,
                   count, fresh>>

-----------------------------------------------------------------------------
\* The select loop.

ReconcileTick ==
    /\ pc = "idle" /\ pc' = "list"
    /\ UNCHANGED <<catalog, started, list, desired, workers, tasks, waiting, listener, signals, command,
                   connected, count, fresh>>

\* A signal of the listener: a new interval when it comes or goes, and a
\* reconcile unless it went.
Signal ==
    /\ pc = "idle" /\ signals # <<>>
    /\ signals' = Tail(signals)
    /\ connected' = CASE Head(signals) = "Connected" -> TRUE
                      [] Head(signals) = "Disconnected" -> FALSE
                      [] OTHER -> connected
    /\ pc' = IF Head(signals) = "Disconnected" THEN "idle" ELSE "list"
    /\ UNCHANGED <<catalog, started, list, desired, workers, tasks, waiting, listener, command, count, fresh>>

\* POST /reload, through adapt_health_commands.
Command ==
    /\ pc = "idle" /\ command
    /\ command' = FALSE /\ pc' = "list"
    /\ UNCHANGED <<catalog, started, list, desired, workers, tasks, waiting, listener, signals, connected,
                   count, fresh>>

-----------------------------------------------------------------------------
\* The LISTEN task.  batch_execute waits for an answer that comes only while
\* the connection is polled; the loop that polls it starts after the answer.

ListenerConnect ==
    /\ listener = "connect"
    /\ \/ listener' = "listen" /\ UNCHANGED count
       \/ UNCHANGED listener /\ Fault
    /\ UNCHANGED <<catalog, pc, started, list, desired, workers, tasks, waiting, signals, command,
                   connected, fresh>>

Polled == listener = "hears"

ListenerAnswered ==
    /\ listener = "listen"
    /\ DriverRunsAlone \/ Polled
    /\ listener' = "hears" /\ signals' = Append(signals, "Connected")
    /\ UNCHANGED <<catalog, pc, started, list, desired, workers, tasks, waiting, command, connected, count,
                   fresh>>

ListenerLost ==
    /\ listener = "hears" /\ Fault
    /\ listener' = "connect" /\ signals' = Append(signals, "Disconnected")
    /\ UNCHANGED <<catalog, pc, started, list, desired, workers, tasks, waiting, command, connected, fresh>>

-----------------------------------------------------------------------------
\* The surroundings: the catalog, operators, and the workers themselves.

\* An edit notifies those who listen at that moment.
Edit(s, row) ==
    /\ count.edits < MaxEdits /\ row # catalog[s]
    /\ catalog' = [catalog EXCEPT ![s] = row]
    /\ count' = [count EXCEPT !.edits = @ + 1]
    /\ signals' = IF listener = "hears" THEN Append(signals, "Changed") ELSE signals
    /\ fresh' = FALSE
    /\ UNCHANGED <<pc, started, list, desired, workers, tasks, waiting, listener, command, connected>>

Reload ==
    /\ ~command /\ command' = TRUE
    /\ UNCHANGED <<catalog, pc, started, list, desired, workers, tasks, waiting, listener, signals,
                   connected, count, fresh>>

\* A worker ends: told to, or over a configuration that cannot work.
TaskEnds(t) ==
    /\ \/ tasks[t].state = "told"
       \/ tasks[t].state = "runs" /\ tasks[t].config.row.static
    /\ tasks' = [tasks EXCEPT ![t].state = "ended"]
    /\ UNCHANGED <<catalog, pc, started, list, desired, workers, waiting, listener, signals, command,
                   connected, count, fresh>>

Reconcile == List \/ Stream \/ Join \/ StopStale \/ JoinStale

Next ==
    \/ Reconcile \/ ReconcileTick \/ Signal \/ Command
    \/ ListenerConnect \/ ListenerAnswered \/ ListenerLost
    \/ \E s \in Streams : \E row \in Catalogs[s] : Edit(s, row)
    \/ Reload
    \/ \E t \in DOMAIN tasks : TaskEnds(t)

Spec == Init /\ [][Next]_vars

\* The runtime polls every task that can go on, the interval ticks, and a
\* worker that is told to stop ends (see StreamWorker!StopEnds).
FairSpec ==
    /\ Spec /\ WF_vars(Reconcile) /\ WF_vars(ReconcileTick) /\ WF_vars(Signal)
    /\ WF_vars(ListenerConnect) /\ WF_vars(ListenerAnswered)
    /\ WF_vars(\E t \in DOMAIN tasks : TaskEnds(t))

-----------------------------------------------------------------------------
\* The stream has a worker, and it was given what the catalog says.
UpToDate(s) ==
    workers[s] # 0 /\ tasks[workers[s]].config = RuntimeConfig(catalog[s], TargetsOf(catalog[s]))

Alive(s) == {t \in DOMAIN tasks : tasks[t].stream = s /\ tasks[t].state # "ended"}

\* A stream never has two workers at once, which would connect twice and
\* race for its rows: reconcile awaits the old one before it starts the new.
OneWorkerPerStream == \A s \in Streams : Cardinality(Alive(s)) <= 1

\* No worker runs without a handle, but the one being stopped: the supervisor
\* could never stop it.
NoOrphan ==
    \A s \in Streams : \A t \in Alive(s) :
        workers[s] = t \/ (waiting # <<>> /\ waiting[1] = t)

\* After a reconcile that nothing disturbed, the workers are those that the
\* catalog asks for, with the configurations it gives.
ReconciledIsCatalog ==
    pc = "idle" /\ fresh =>
        \A s \in Streams :
            IF Wanted(s) THEN UpToDate(s)
                         ELSE workers[s] = 0

\* The workers are as the catalog wants them: each wanted stream has a worker
\* with its present configuration, which runs unless that cannot work, and no
\* other worker runs.
Converged ==
    \/ pc = "exited" /\ ~started
    \/ \A s \in Streams :
          IF Wanted(s)
          THEN /\ UpToDate(s)
               /\ tasks[workers[s]].state = "runs" \/ catalog[s].static
          ELSE Alive(s) = {}

\* Whatever is edited, lost or failed on the way, the workers end up as the
\* catalog wants them.
Converges == <>[]Converged

\* The supervisor hears of a change, or a connection was lost on the way.
Hears == connected \/ count.faults > 0

\* The supervisor comes to listen to the catalog: docs/ARCHITECTURE.md names
\* "`LISTEN source_stream_config_changed` for immediate reaction".
ListenerHears == <>Hears
=============================================================================
