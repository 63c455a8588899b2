------------------------------ MODULE Indexer ------------------------------
(***************************************************************************)
(* The parts of the indexer: the supervisor, a stream worker, and the two  *)
(* connectors that keep state between payloads.  What one sees of another  *)
(* is in its own module, so that a behaviour here is that of one part, and *)
(* their states add up.                                                    *)
(***************************************************************************)
EXTENDS Integers, Sequences, FiniteSets, Functions

CONSTANTS
    Parts,            \* the parts looked at
    None,             \* an absent value
    Streams,          \* of the supervisor: the streams of the catalog,
    Catalogs,         \* what the rows of each may say,
    LiveEnabled,      \* INDEXER_ENABLE_LIVE_STREAMS,
    DriverRunsAlone,  \* whether a database connection makes progress unpolled,
    MaxEdits,         \* bound: edits of the catalog,
    MaxFaults,        \* bound: calls that fail
    WorkerSettings,   \* of the worker: the settings it may be started with,
    MaxTime,          \* bound: its clock
    Heartbeats,       \* of the websocket: the settings it may have,
    HeartbeatTime,    \* bound: its clock
    Lookback,         \* of the logs: where a connection starts,
    MaxLag,           \* how far behind the head an answering node may be,
    MaxHead,          \* bound: the height of the chain,
    MaxReconnects     \* bound: connections that fail

\* A time is configured, positive, or not.
ASSUME HeartbeatTimes ==
    /\ None \notin Int /\ HeartbeatTime \in Nat
    /\ \A s \in Heartbeats : {s.interval, s.timeout} \subseteq (Nat \ {0}) \cup {None}

ASSUME CursorSettings == Lookback \in Nat /\ MaxLag \in Nat /\ MaxHead \in Nat

\* A stream has at most one row for a tenant (the primary key of its targets),
\* and a price is a number; 0 stands for none.
ASSUME StreamSettings ==
    \A s \in WorkerSettings :
        /\ s.targets \in Seq(Range(s.targets)) /\ IsInjective(s.targets)
        /\ s.freshness \in Nat /\ s.ttl \in Nat
        /\ \A prices \in s.others :
            IsFiniteSet(DOMAIN prices) /\ \A source \in DOMAIN prices : prices[source] \in Nat
        /\ \A payload \in IF s.mode = "push" THEN s.feed ELSE UNION {Range(batch) : batch \in s.feed} :
            payload.ok \in BOOLEAN /\ payload.price \in Nat
        /\ s.mode # "push" => \A batch \in s.feed : batch \in Seq(Range(batch))

VARIABLES part,
          catalog, pc, started, list, desired, workers, tasks, waiting, listener, signals, command,
          connected, fresh,
          settings, now, work, backoff, stopping, cache, recent, report, rows, raw, deferred, health,
          published, count, history,
          heartbeat, ping, link, heard, read,
          head, last_block, asked, pending, faults, handed, passed, young

supervisorVars == <<catalog, pc, started, list, desired, workers, tasks, waiting, listener, signals,
                    command, connected, fresh>>
workerVars == <<settings, work, backoff, stopping, cache, recent, report, rows, raw, deferred, health,
                published, history>>
websocketVars == <<heartbeat, ping, link, heard, read>>
logsVars == <<head, last_block, asked, pending, faults, handed, passed, young>>
vars == <<part, now, count, supervisorVars, workerVars, websocketVars, logsVars>>

-----------------------------------------------------------------------------
S == INSTANCE StreamSupervisor

W == INSTANCE StreamWorker WITH Settings <- WorkerSettings

K == INSTANCE WebsocketConnector WITH MaxTime <- HeartbeatTime

L == INSTANCE RpcLogsConnector WITH NoBlock <- None, MaxFaults <- MaxReconnects

-----------------------------------------------------------------------------
\* The variables of the other parts stay 0.
SupervisorInit ==
    /\ part = "supervisor" /\ S!Init /\ now = 0
    /\ settings = 0 /\ work = 0 /\ backoff = 0 /\ stopping = 0 /\ cache = 0 /\ recent = 0 /\ report = 0
    /\ rows = 0 /\ raw = 0 /\ deferred = 0 /\ health = 0 /\ published = 0 /\ history = 0
    /\ heartbeat = 0 /\ ping = 0 /\ link = 0 /\ heard = 0 /\ read = 0
    /\ head = 0 /\ last_block = 0 /\ asked = 0 /\ pending = 0 /\ faults = 0 /\ handed = 0 /\ passed = 0 /\ young = 0

WorkerInit ==
    /\ part = "worker" /\ W!Init
    /\ catalog = 0 /\ pc = 0 /\ started = 0 /\ list = 0 /\ desired = 0 /\ workers = 0 /\ tasks = 0 /\ waiting = 0
    /\ listener = 0 /\ signals = 0 /\ command = 0 /\ connected = 0 /\ fresh = 0
    /\ heartbeat = 0 /\ ping = 0 /\ link = 0 /\ heard = 0 /\ read = 0
    /\ head = 0 /\ last_block = 0 /\ asked = 0 /\ pending = 0 /\ faults = 0 /\ handed = 0 /\ passed = 0 /\ young = 0

ConnectorInit ==
    /\ \/ /\ part = "websocket" /\ K!Init
          /\ head = 0 /\ last_block = 0 /\ asked = 0 /\ pending = 0 /\ faults = 0 /\ handed = 0 /\ passed = 0 /\ young = 0
       \/ /\ part = "logs" /\ L!Init
          /\ heartbeat = 0 /\ ping = 0 /\ link = 0 /\ heard = 0 /\ read = 0 /\ now = 0
    /\ catalog = 0 /\ pc = 0 /\ started = 0 /\ list = 0 /\ desired = 0 /\ workers = 0 /\ tasks = 0 /\ waiting = 0
    /\ listener = 0 /\ signals = 0 /\ command = 0 /\ connected = 0 /\ fresh = 0 /\ count = 0
    /\ settings = 0 /\ work = 0 /\ backoff = 0 /\ stopping = 0 /\ cache = 0 /\ recent = 0 /\ report = 0
    /\ rows = 0 /\ raw = 0 /\ deferred = 0 /\ health = 0 /\ published = 0 /\ history = 0

Init == part \in Parts /\ (SupervisorInit \/ WorkerInit \/ ConnectorInit)

\* A step of one part leaves the others alone.
OfSupervisor(A) ==
    part = "supervisor" /\ A /\ UNCHANGED <<part, now, workerVars, websocketVars, logsVars>>
OfWorker(A) ==
    part = "worker" /\ A /\ UNCHANGED <<part, supervisorVars, websocketVars, logsVars>>

Next ==
    \/ OfSupervisor(S!Next)
    \/ OfWorker(W!Next)
    \/ /\ part = "websocket" /\ K!Next
       /\ UNCHANGED <<part, count, supervisorVars, workerVars, logsVars>>
    \/ /\ part = "logs" /\ L!Next
       /\ UNCHANGED <<part, now, count, supervisorVars, workerVars, websocketVars>>

Spec == Init /\ [][Next]_vars

\* The fairness of the supervisor and of the workers: see their modules.
FairSpec ==
    /\ Spec
    /\ WF_vars(OfSupervisor(S!Reconcile)) /\ WF_vars(OfSupervisor(S!ReconcileTick))
    /\ WF_vars(OfSupervisor(S!Signal)) /\ WF_vars(OfSupervisor(S!ListenerConnect))
    /\ WF_vars(OfSupervisor(S!ListenerAnswered))
    /\ WF_vars(OfSupervisor(\E t \in DOMAIN tasks : S!TaskEnds(t)))
    /\ WF_vars(OfWorker(W!Step /\ UNCHANGED settings))
    /\ WF_vars(OfWorker(W!StopSeen /\ UNCHANGED settings))

-----------------------------------------------------------------------------
(* The properties of the parts, each for the behaviours it is about. *)

\* The workers are those of the catalog: no stream has two at once, none runs
\* that the supervisor holds no handle of, and an undisturbed reconcile leaves
\* the ones that the catalog asks for.
WorkersFollowCatalog ==
    part = "supervisor" => S!OneWorkerPerStream /\ S!NoOrphan /\ S!ReconciledIsCatalog

\* The workers come to be what the catalog asks for; a worker that is told to
\* stop, and that the supervisor waits for, ends.
Converges ==
    /\ <>[](IF part = "supervisor" THEN S!Converged ELSE TRUE)
    /\ (IF part = "worker" THEN stopping ELSE FALSE) ~> (IF part = "worker" THEN W!Ended ELSE FALSE)

\* The supervisor comes to hear of changes of the catalog.
ListenerHears == <>(IF part = "supervisor" THEN S!Hears ELSE TRUE)

\* An event is published once for each tenant: after its row, whose required
\* raw record came before, and not again, unless the row was purged; what is
\* stored is published, or failed on the way.
PublishedOnce ==
    part = "worker" =>
        W!RawBeforeRow /\ W!PublishedIsStored /\ W!NoDoublePublish /\ W!StoredIsPublished

\* What a worker tells is founded: the rate a price is normalised with is fresh,
\* the price called the truth of a market is a median, and the health a tenant
\* sees is the one last reported.
ReportIsFounded ==
    part = "worker" => W!RateIsFresh /\ W!MedianIsCentral /\ W!HealthIsLastReport

\* A connection is not left behind while it lasts: a peer that fell silent is
\* noticed, where the heartbeat is configured to, and no block is missed that all
\* nodes behind the endpoint have seen.
ConnectionKeepsUp ==
    (part = "websocket" => K!SilenceIsNoticed) /\ (part = "logs" => L!OldBlocksNotMissed)
=============================================================================
