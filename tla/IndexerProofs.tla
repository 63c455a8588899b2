--------------------------- MODULE IndexerProofs ---------------------------
(***************************************************************************)
(* Theorems about the parts of Indexer: the heartbeat of the websocket,    *)
(* for any settings, the cursor of the logs, for any lookback, any lag of  *)
(* the nodes behind the endpoint and any number of lost connections, the   *)
(* supervisor, for any catalog, and the worker, for any stream and any     *)
(* payloads.                                                               *)
(***************************************************************************)
EXTENDS Indexer, FiniteSetTheorems, TLAPS

-----------------------------------------------------------------------------
(* The websocket. *)

\* Where the heartbeat has room, an answer that is waited for during a read is
\* not overdue; a peer that fell silent did so after the ping that it leaves
\* unanswered, or no time has passed since.
HeartbeatInv ==
    /\ heartbeat \in Heartbeats
    /\ now \in Nat /\ ping \in {None} \cup Nat
    /\ link \in {"up", "dead", "error"} /\ read \in {"called", "reading", "handled"}
    /\ K!HeartbeatWorks =>
          /\ ping # None => ping <= now /\ now - ping <= heartbeat.timeout + 1
          /\ read = "reading" => ping # None
          /\ read = "reading" => now - ping <= heartbeat.timeout
    /\ link = "dead" => /\ heard \in Nat /\ heard <= now
                        /\ K!HeartbeatWorks => IF ping = None THEN now = heard ELSE ping <= heard

\* Where it works, the two times are numbers.
LEMMA WorkingTimes ==
    ASSUME heartbeat \in Heartbeats, K!HeartbeatWorks
    PROVE  /\ heartbeat.interval \in Nat /\ heartbeat.timeout \in Nat
           /\ heartbeat.interval # None /\ heartbeat.timeout # None
           /\ heartbeat.timeout + 1 < heartbeat.interval
  BY HeartbeatTimes DEF K!HeartbeatWorks

LEMMA HeartbeatFacts ==
    /\ K!Init => HeartbeatInv
    /\ HeartbeatInv /\ [K!Next]_K!vars => HeartbeatInv'
    /\ HeartbeatInv => K!SilenceIsNoticed
<1>1. K!Init => HeartbeatInv
  BY HeartbeatTimes DEF K!Init, HeartbeatInv
<1>2. HeartbeatInv /\ [K!Next]_K!vars => HeartbeatInv'
  <2> SUFFICES ASSUME HeartbeatInv, [K!Next]_K!vars PROVE HeartbeatInv'
    OBVIOUS
  <2>0. heartbeat' = heartbeat /\ (K!HeartbeatWorks)' = K!HeartbeatWorks
    BY DEF K!Next, K!vars, K!Heartbeat, K!SendFails, K!ReadTimeout, K!Call, K!PeerFallsSilent, K!Frame,
           K!HeartbeatWorks
  <2>1. CASE K!Heartbeat
    <3>1. CASE K!HeartbeatWorks
      BY <2>0, <2>1, <3>1, WorkingTimes, HeartbeatTimes
         DEF HeartbeatInv, K!Heartbeat, K!HeartbeatDue, K!TimedOut
    <3>2. CASE ~K!HeartbeatWorks
      BY <2>0, <2>1, <3>2 DEF HeartbeatInv, K!Heartbeat
    <3> QED BY <3>1, <3>2
  <2>2. CASE K!ReadTimeout
    <3>1. CASE K!HeartbeatWorks
      BY <2>0, <2>2, <3>1, WorkingTimes, HeartbeatTimes DEF HeartbeatInv, K!ReadTimeout
    <3>2. CASE ~K!HeartbeatWorks
      BY <2>0, <2>2, <3>2 DEF HeartbeatInv, K!ReadTimeout
    <3> QED BY <3>1, <3>2
  <2>3. CASE K!Call
    BY <2>0, <2>3 DEF HeartbeatInv, K!Call
  <2>4. CASE K!PeerFallsSilent
    BY <2>0, <2>4 DEF HeartbeatInv, K!PeerFallsSilent
  <2>5. ASSUME NEW kind \in {"payload", "control", "bare", "close"}, K!Frame(kind) PROVE HeartbeatInv'
    BY <2>0, <2>5 DEF HeartbeatInv, K!Frame
  <2>6. CASE K!SendFails
    BY <2>0, <2>6 DEF HeartbeatInv, K!SendFails
  <2>7. CASE UNCHANGED K!vars
    BY <2>0, <2>7 DEF HeartbeatInv, K!vars
  <2> QED BY <2>1, <2>2, <2>3, <2>4, <2>5, <2>6, <2>7 DEF K!Next
<1>3. HeartbeatInv => K!SilenceIsNoticed
  BY WorkingTimes, HeartbeatTimes DEF HeartbeatInv, K!SilenceIsNoticed
<1> QED BY <1>1, <1>2, <1>3

-----------------------------------------------------------------------------
(* The logs. *)

CursorShape ==
    /\ head \in 0 .. MaxHead /\ last_block \in 0 .. MaxHead \cup {None}
    /\ pending \in Seq(Int)
    /\ asked # None => asked \in 0 .. head /\ pending = <<>> /\ L!From(asked) <= asked

\* What is fetched is the sequence of the blocks from `from` to `seen`.
LEMMA FetchedBlocks ==
    ASSUME NEW from \in Nat, NEW seen \in Nat
    PROVE  LET blocks == [i \in 1 .. seen + 1 - from |-> from + i - 1]
           IN  /\ blocks \in Seq(Int)
               /\ \A b \in from .. seen : \E i \in DOMAIN blocks : blocks[i] = b
<1> DEFINE n == seen + 1 - from
           blocks == [i \in 1 .. n |-> from + i - 1]
<1>1. blocks \in Seq(Int)
  <2>1. CASE n >= 0
    <3>1. n \in Nat /\ blocks \in [1 .. n -> Int]
      BY <2>1
    <3> QED BY <3>1
  <2>2. CASE n < 0
    <3>1. 1 .. n = 1 .. 0 /\ blocks \in [1 .. 0 -> Int]
      BY <2>2
    <3> QED BY <3>1
  <2> QED BY <2>1, <2>2
<1>2. ASSUME NEW b \in from .. seen PROVE \E i \in DOMAIN blocks : blocks[i] = b
  <2>1. b - from + 1 \in 1 .. n /\ from + (b - from + 1) - 1 = b
    OBVIOUS
  <2> QED BY <2>1
<1> QED BY <1>1, <1>2

CursorInv == CursorShape /\ L!OldBlocksNotMissed

LEMMA CursorFacts ==
    (L!Init => CursorInv) /\ (CursorInv /\ [L!Next]_L!vars => CursorInv')
<1> USE HeartbeatTimes, CursorSettings DEF CursorInv
<1>1. L!Init => CursorShape /\ L!OldBlocksNotMissed
  BY DEF L!Init, CursorShape, L!OldBlocksNotMissed
<1>2. CursorShape /\ L!OldBlocksNotMissed /\ [L!Next]_L!vars => CursorShape' /\ L!OldBlocksNotMissed'
  <2> SUFFICES ASSUME CursorShape, L!OldBlocksNotMissed, [L!Next]_L!vars
               PROVE  CursorShape' /\ L!OldBlocksNotMissed'
    OBVIOUS
  <2>1. CASE L!NewBlock
    BY <2>1 DEF L!NewBlock, CursorShape, L!OldBlocksNotMissed, L!From, L!Monus
  <2>2. CASE L!HandOver
    <3>1. /\ pending # <<>> /\ handed' = handed \cup {Head(pending)} /\ pending' = Tail(pending)
          /\ head' = head /\ last_block' = last_block /\ asked' = asked
          /\ passed' = passed /\ young' = young
      BY <2>2 DEF L!HandOver
    <3>2. /\ pending' \in Seq(Int) /\ Head(pending) = pending[1]
          /\ \A i \in DOMAIN pending : i = 1 \/ (i - 1 \in DOMAIN pending' /\ pending'[i - 1] = pending[i])
      BY <3>1 DEF CursorShape
    <3>3. L!OldBlocksNotMissed'
      <4> SUFFICES ASSUME last_block # None, NEW b \in 0 .. last_block, b \notin handed', b \notin passed, b \notin young
                   PROVE  \E i \in DOMAIN pending' : pending'[i] = b
        BY <3>1 DEF L!OldBlocksNotMissed
      <4>1. PICK i \in DOMAIN pending : pending[i] = b
        BY <3>1 DEF L!OldBlocksNotMissed
      <4>2. i # 1
        BY <3>1, <3>2, <4>1
      <4> QED BY <3>2, <4>1, <4>2
    <3> QED BY <3>1, <3>2, <3>3 DEF CursorShape, L!From, L!Monus
  <2>3. CASE L!Reconnect
    BY <2>3 DEF L!Reconnect, CursorShape, L!OldBlocksNotMissed
  <2>4. ASSUME NEW lag \in 0 .. MaxLag, lag <= head, L!AskHead(head - lag)
        PROVE  CursorShape' /\ L!OldBlocksNotMissed'
    <3> DEFINE seen == head - lag
    <3>1. seen \in 0 .. MaxHead /\ seen <= head /\ seen \in Nat
      BY <2>4 DEF CursorShape
    <3>2. /\ pending = <<>> /\ asked = None
          /\ IF L!From(seen) > seen THEN last_block' = seen /\ asked' = asked
                                    ELSE asked' = seen /\ last_block' = last_block
          /\ head' = head /\ pending' = pending /\ handed' = handed /\ passed' = passed /\ young' = young
      BY <2>4 DEF L!AskHead
    <3> HIDE DEF seen
    <3>3. CASE L!From(seen) > seen
      <4>1. last_block # None /\ seen <= last_block
        BY <3>1, <3>3 DEF L!From, L!Monus, CursorShape
      <4> QED BY <3>1, <3>2, <3>3, <4>1 DEF CursorShape, L!OldBlocksNotMissed
    <3>4. CASE ~(L!From(seen) > seen)
      <4>1. L!From(seen)' = L!From(seen) /\ L!From(seen) \in Int
        BY <3>1, <3>2, <3>4 DEF L!From, L!Monus, CursorShape
      <4>2. L!From(asked)' <= asked'
        BY <3>1, <3>2, <3>4 DEF L!From, L!Monus, CursorShape
      <4> QED BY <3>1, <3>2, <3>4, <4>2 DEF CursorShape, L!OldBlocksNotMissed
    <3> QED BY <3>3, <3>4
  <2>5. ASSUME NEW lag \in 0 .. MaxLag, lag <= head, L!LogsAnswered(head - lag)
        PROVE  CursorShape' /\ L!OldBlocksNotMissed'
    <3> DEFINE served == head - lag
               from == L!From(asked)
               last == IF served < asked THEN served ELSE asked
    <3>1. /\ served \in Nat /\ asked \in 0 .. MaxHead /\ asked \in Nat /\ last \in Nat
          /\ last <= asked /\ \A b \in 0 .. asked : b > last => b > head - lag
          /\ pending = <<>> /\ asked # None
      BY <2>5 DEF CursorShape, L!LogsAnswered
    <3>2. from \in Nat /\ (last_block # None => from = last_block + 1)
      BY <3>1 DEF L!From, L!Monus, CursorShape
    <3>3. /\ last_block' = asked /\ asked' = None /\ head' = head /\ handed' = handed
          /\ pending' = [i \in 1 .. last + 1 - from |-> from + i - 1]
          /\ passed' = IF last_block = None
                       THEN passed \cup {b \in 0 .. MaxHead : b < from /\ b \notin handed} ELSE passed
          /\ young' = young \cup {b \in from .. asked : head - b < MaxLag}
      BY <2>5 DEF L!LogsAnswered, L!Blocks
    <3> HIDE DEF served, from, last
    <3>4. /\ pending' \in Seq(Int)
          /\ \A b \in from .. last : \E i \in DOMAIN pending' : pending'[i] = b
      BY <3>1, <3>2, <3>3, FetchedBlocks
    <3>5. ASSUME NEW b \in 0 .. asked, b >= from PROVE b \in young' \/ b \in from .. last
      <4>1. CASE b <= last
        BY <3>1, <3>2, <3>5, <4>1
      <4>2. CASE b > last
        <5>1. head - b < MaxLag
          BY <2>5, <3>1, <4>2 DEF CursorShape
        <5> QED BY <3>1, <3>2, <3>3, <3>5, <5>1
      <4> QED BY <3>1, <4>1, <4>2
    <3>6. ASSUME NEW b \in 0 .. asked, b < from PROVE b \in handed' \/ b \in passed' \/ b \in young'
      <4>1. CASE last_block = None
        BY <3>1, <3>3, <3>6, <4>1
      <4>2. CASE last_block # None
        <5>1. b \in 0 .. last_block /\ DOMAIN pending = {}
          BY <3>1, <3>2, <3>6, <4>2 DEF CursorShape
        <5> QED BY <3>3, <4>2, <5>1 DEF L!OldBlocksNotMissed
      <4> QED BY <4>1, <4>2
    <3>7. L!OldBlocksNotMissed'
      <4> SUFFICES ASSUME NEW b \in 0 .. asked
                   PROVE  \/ b \in handed' \/ b \in passed' \/ b \in young'
                          \/ \E i \in DOMAIN pending' : pending'[i] = b
        BY <3>3 DEF L!OldBlocksNotMissed
      <4>1. CASE b >= from
        BY <3>4, <3>5, <4>1
      <4>2. CASE b < from
        BY <3>6, <4>2
      <4> QED BY <3>1, <3>2, <4>1, <4>2
    <3> QED BY <3>1, <3>3, <3>4, <3>7 DEF CursorShape
  <2>6. CASE UNCHANGED L!vars
    BY <2>6 DEF L!vars, CursorShape, L!OldBlocksNotMissed, L!From, L!Monus
  <2> QED BY <2>1, <2>2, <2>3, <2>4, <2>5, <2>6 DEF L!Next
<1> QED BY <1>1, <1>2

-----------------------------------------------------------------------------
(* The supervisor. *)

Rows == UNION {Catalogs[s] : s \in Streams}
Given ==
    [row : {[r EXCEPT !.targets = {}] : r \in Rows},
     targets : {r.targets : r \in Rows} \cup {r.owner : r \in Rows}]
Job == [stream : Streams, config : Given, state : {"runs", "told", "ended"}]

\* A handle is of a task of its stream.
Handles ==
    /\ catalog \in [Streams -> Rows] /\ tasks \in Seq(Job)
    /\ workers \in [Streams -> 0 .. Len(tasks)]
    /\ \A s \in Streams : workers[s] # 0 => tasks[workers[s]].stream = s
    /\ list \subseteq [id : Streams, row : Rows] /\ desired \subseteq Streams

\* What is awaited is a task that has no handle any more.
Awaited ==
    /\ pc = "join" => \E t \in 1 .. Len(tasks), c \in Given :
                         waiting = <<t, c>> /\ workers[tasks[t].stream] = 0
    /\ pc = "joinStale" => \E t \in 1 .. Len(tasks) :
                              waiting = <<t>> /\ workers[tasks[t].stream] = 0
    /\ pc \notin {"join", "joinStale"} => waiting = <<>>

\* What the catalog gives a stream.
Asked(s) == S!RuntimeConfig(catalog[s], S!TargetsOf(catalog[s]))

\* While nothing disturbs a reconcile, the list is what the catalog says; the
\* streams that were found wanted have their worker, or its start is awaited.
Course ==
    fresh =>
      /\ pc \in {"stream", "join", "joinStale"} =>
            /\ \A next \in list : next.row = catalog[next.id] /\ S!Listed(next.row)
            /\ \A s \in Streams : S!Wanted(s) => s \in desired \/ [id |-> s, row |-> catalog[s]] \in list
            /\ \A s \in desired :
                  /\ S!Wanted(s)
                  /\ \/ S!UpToDate(s)
                     \/ pc = "join" /\ tasks[waiting[1]].stream = s /\ waiting[2] = Asked(s)
      /\ pc = "joinStale" => list = {}
      /\ pc = "idle" => \A s \in Streams : IF S!Wanted(s) THEN S!UpToDate(s) ELSE workers[s] = 0

SupervisorInv == Handles /\ Awaited /\ S!NoOrphan /\ Course

LEMMA SupervisorBegins == S!Init => SupervisorInv
<1> SUFFICES ASSUME S!Init PROVE SupervisorInv
  OBVIOUS
<1>1. catalog \in [Streams -> Rows]
  BY DEF S!Init, Rows
<1>2. tasks = <<>> /\ tasks \in Seq(Job) /\ Len(tasks) = 0 /\ DOMAIN tasks = {}
  BY DEF S!Init
<1>3. Handles /\ Awaited
  BY <1>1, <1>2 DEF S!Init, Handles, Awaited
<1>4. S!NoOrphan /\ Course
  BY <1>2 DEF S!Init, S!NoOrphan, S!Alive, Course
<1> QED BY <1>3, <1>4 DEF SupervisorInv

\* The tasks stay what they are, but for some that end or are told to.
SameTasks ==
    /\ tasks' \in Seq(Job) /\ Len(tasks') = Len(tasks)
    /\ \A t \in 1 .. Len(tasks) :
          /\ tasks'[t].stream = tasks[t].stream /\ tasks'[t].config = tasks[t].config
          /\ tasks'[t].state # "ended" => tasks[t].state # "ended"

LEMMA TaskChanges ==
    ASSUME Handles
    PROVE  /\ tasks' = tasks => SameTasks
           /\ \A t \in 1 .. Len(tasks), state \in {"runs", "told", "ended"} :
                 (state = "ended" \/ tasks[t].state = "runs")
                 /\ tasks' = [tasks EXCEPT ![t].state = state] => SameTasks
           /\ tasks' = [t \in DOMAIN tasks |-> [tasks[t] EXCEPT !.state = "ended"]]
                 => SameTasks /\ \A t \in 1 .. Len(tasks) : tasks'[t].state = "ended"
<1>1. /\ tasks \in Seq(Job) /\ Len(tasks) \in Nat /\ DOMAIN tasks = 1 .. Len(tasks)
      /\ \A t \in 1 .. Len(tasks) : tasks[t] \in Job
  BY DEF Handles
<1>2. tasks' = tasks => SameTasks
  BY <1>1 DEF SameTasks
<1>3. ASSUME NEW t \in 1 .. Len(tasks), NEW state \in {"runs", "told", "ended"},
             state = "ended" \/ tasks[t].state = "runs",
             tasks' = [tasks EXCEPT ![t].state = state]
      PROVE  SameTasks
  <2>1. [tasks[t] EXCEPT !.state = state] \in Job
    BY <1>1 DEF Job
  <2>2. tasks' \in Seq(Job) /\ Len(tasks') = Len(tasks)
    BY <1>1, <1>3, <2>1
  <2>3. \A u \in 1 .. Len(tasks) :
           tasks'[u] = IF u = t THEN [tasks[t] EXCEPT !.state = state] ELSE tasks[u]
    BY <1>1, <1>3
  <2>4. tasks[t] \in [stream : Streams, config : Given, state : {"runs", "told", "ended"}]
    BY <1>1 DEF Job
  <2> QED BY <1>3, <2>2, <2>3, <2>4 DEF SameTasks
<1>4. ASSUME tasks' = [t \in DOMAIN tasks |-> [tasks[t] EXCEPT !.state = "ended"]]
      PROVE  SameTasks /\ \A t \in 1 .. Len(tasks) : tasks'[t].state = "ended"
  <2>1. \A t \in 1 .. Len(tasks) :
           /\ tasks[t] \in [stream : Streams, config : Given, state : {"runs", "told", "ended"}]
           /\ [tasks[t] EXCEPT !.state = "ended"] \in Job
    BY <1>1 DEF Job
  <2>2. tasks' \in [1 .. Len(tasks) -> Job]
    BY <1>1, <1>4, <2>1
  <2>3. tasks' \in Seq(Job) /\ Len(tasks') = Len(tasks)
    BY <1>1, <2>2
  <2>4. \A t \in 1 .. Len(tasks) : tasks'[t] = [tasks[t] EXCEPT !.state = "ended"]
    BY <1>1, <1>4
  <2> QED BY <2>1, <2>3, <2>4 DEF SameTasks
<1> QED BY <1>2, <1>3, <1>4

\* A worker is started: a task more, of which the supervisor has the handle.
LEMMA Spawned ==
    ASSUME Handles, NEW s \in Streams, NEW config \in Given, S!Spawn(s, config)
    PROVE  /\ tasks' \in Seq(Job) /\ Len(tasks') = Len(tasks) + 1 /\ Len(tasks) \in Nat
           /\ \A t \in 1 .. Len(tasks) : tasks'[t] = tasks[t]
           /\ tasks'[Len(tasks) + 1].stream = s /\ tasks'[Len(tasks) + 1].config = config
           /\ workers' \in [Streams -> 0 .. Len(tasks')]
           /\ \A u \in Streams : workers'[u] = IF u = s THEN Len(tasks) + 1 ELSE workers[u]
<1> DEFINE job == [stream |-> s, config |-> config, state |-> "runs"]
<1>1. job \in Job /\ job.stream = s /\ job.config = config
  BY DEF Job
<1> HIDE DEF job
<1>2. tasks \in Seq(Job) /\ tasks' = Append(tasks, job)
      /\ workers' = [workers EXCEPT ![s] = Len(tasks) + 1] /\ workers \in [Streams -> 0 .. Len(tasks)]
  BY DEF Handles, S!Spawn, job
<1>3. tasks' \in Seq(Job) /\ Len(tasks') = Len(tasks) + 1 /\ Len(tasks) \in Nat
      /\ (\A t \in 1 .. Len(tasks) : tasks'[t] = tasks[t]) /\ tasks'[Len(tasks) + 1] = job
  BY <1>1, <1>2
<1> QED BY <1>1, <1>2, <1>3

LEMMA TaskDomain ==
    ASSUME Handles
    PROVE  /\ Len(tasks) \in Nat /\ DOMAIN tasks = 1 .. Len(tasks)
           /\ \A t \in 1 .. Len(tasks) : tasks[t].stream \in Streams /\ tasks[t].config \in Given
<1>1. Len(tasks) \in Nat /\ DOMAIN tasks = 1 .. Len(tasks) /\ \A t \in 1 .. Len(tasks) : tasks[t] \in Job
  BY DEF Handles
<1>2. \A job \in Job : job.stream \in Streams /\ job.config \in Given
  BY DEF Job
<1> QED BY <1>1, <1>2

LEMMA NewTaskDomain ==
    ASSUME SameTasks, Handles PROVE DOMAIN tasks' = 1 .. Len(tasks)
  BY TaskDomain DEF SameTasks

\* The supervisor moves on without touching handles or what it waits for.
Untouched == SameTasks /\ workers' = workers /\ waiting' = waiting

LEMMA UntouchedKeeps ==
    ASSUME SupervisorInv, Untouched
    PROVE  /\ S!NoOrphan'
           /\ workers' \in [Streams -> 0 .. Len(tasks')]
           /\ \A s \in Streams : workers'[s] # 0 => tasks'[workers'[s]].stream = s
           /\ \A s \in Streams : catalog' = catalog => (S!UpToDate(s) => S!UpToDate(s)')
<1>1. S!NoOrphan'
  BY TaskDomain, NewTaskDomain DEF SupervisorInv, Untouched, SameTasks, S!NoOrphan, S!Alive
<1>2. /\ workers' \in [Streams -> 0 .. Len(tasks')]
      /\ \A s \in Streams : workers'[s] # 0 => tasks'[workers'[s]].stream = s
  BY TaskDomain DEF SupervisorInv, Handles, Untouched, SameTasks
<1>3. ASSUME NEW s \in Streams, catalog' = catalog, S!UpToDate(s) PROVE S!UpToDate(s)'
  <2>1. workers[s] \in 1 .. Len(tasks)
    BY <1>3, TaskDomain DEF S!UpToDate, SupervisorInv, Handles
  <2> QED BY <1>3, <2>1 DEF S!UpToDate, Untouched, SameTasks, S!RuntimeConfig, S!TargetsOf
<1> QED BY <1>1, <1>2, <1>3

\* A handle is given up, and its task is told to stop and awaited.
Dismissed(s) ==
    /\ SameTasks /\ workers[s] # 0 /\ workers' = [workers EXCEPT ![s] = 0]
    /\ waiting' # <<>> /\ waiting'[1] = workers[s] /\ waiting = <<>>

LEMMA DismissedKeeps ==
    ASSUME SupervisorInv, NEW s \in Streams, Dismissed(s)
    PROVE  /\ S!NoOrphan'
           /\ workers' \in [Streams -> 0 .. Len(tasks')]
           /\ \A u \in Streams : workers'[u] # 0 => tasks'[workers'[u]].stream = u
           /\ waiting'[1] \in 1 .. Len(tasks') /\ tasks'[waiting'[1]].stream = s /\ workers'[s] = 0
           /\ \A u \in Streams : u # s /\ catalog' = catalog => (S!UpToDate(u) => S!UpToDate(u)')
<1> USE DEF SupervisorInv, Handles
<1>1. \A u \in Streams : workers'[u] = IF u = s THEN 0 ELSE workers[u]
  BY DEF Dismissed
<1>2. S!NoOrphan'
  BY <1>1, TaskDomain, NewTaskDomain DEF Dismissed, SameTasks, S!NoOrphan, S!Alive
<1>3. /\ workers' \in [Streams -> 0 .. Len(tasks')]
      /\ \A u \in Streams : workers'[u] # 0 => tasks'[workers'[u]].stream = u
  <2>1. workers' \in [Streams -> 0 .. Len(tasks')]
    BY TaskDomain DEF Dismissed, SameTasks
  <2>2. ASSUME NEW u \in Streams, workers'[u] # 0 PROVE tasks'[workers'[u]].stream = u
    <3>1. workers'[u] = workers[u] /\ workers[u] \in 1 .. Len(tasks) /\ tasks[workers[u]].stream = u
      BY <1>1, <2>2, TaskDomain
    <3> QED BY <3>1 DEF Dismissed, SameTasks
  <2> QED BY <2>1, <2>2
<1>4. waiting'[1] \in 1 .. Len(tasks') /\ tasks'[waiting'[1]].stream = s /\ workers'[s] = 0
  <2>1. workers[s] \in 1 .. Len(tasks) /\ tasks[workers[s]].stream = s
    BY TaskDomain DEF Dismissed
  <2> QED BY <1>1, <2>1 DEF Dismissed, SameTasks
<1>5. ASSUME NEW u \in Streams, u # s, catalog' = catalog, S!UpToDate(u) PROVE S!UpToDate(u)'
  <2>1. workers[u] \in 1 .. Len(tasks)
    BY <1>5, TaskDomain DEF S!UpToDate
  <2> QED BY <1>1, <1>5, <2>1 DEF S!UpToDate, Dismissed, SameTasks, S!RuntimeConfig, S!TargetsOf
<1> QED BY <1>2, <1>3, <1>4, <1>5

\* A worker is started for a stream that has none.
Started(s, config) ==
    /\ workers[s] = 0 /\ S!Spawn(s, config) /\ waiting' = <<>> /\ catalog' = catalog
    /\ waiting = <<>> \/ tasks[waiting[1]].state = "ended"

LEMMA StartedKeeps ==
    ASSUME SupervisorInv, NEW s \in Streams, NEW config \in Given, Started(s, config)
    PROVE  /\ S!NoOrphan'
           /\ tasks' \in Seq(Job) /\ workers' \in [Streams -> 0 .. Len(tasks')]
           /\ \A u \in Streams : workers'[u] # 0 => tasks'[workers'[u]].stream = u
           /\ config = Asked(s) => S!UpToDate(s)'
           /\ \A u \in Streams : u # s => (S!UpToDate(u) => S!UpToDate(u)')
<1> DEFINE n == Len(tasks)
<1>1. /\ tasks' \in Seq(Job) /\ Len(tasks') = n + 1 /\ n \in Nat
      /\ \A t \in 1 .. n : tasks'[t] = tasks[t]
      /\ tasks'[n + 1].stream = s /\ tasks'[n + 1].config = config
      /\ workers' \in [Streams -> 0 .. Len(tasks')]
      /\ \A u \in Streams : workers'[u] = IF u = s THEN n + 1 ELSE workers[u]
  BY Spawned DEF SupervisorInv, Started
<1>2. DOMAIN tasks' = 1 .. n + 1 /\ DOMAIN tasks = 1 .. n
      /\ (\A u \in Streams : workers[u] \in 0 .. n) /\ workers[s] = 0
  BY <1>1, TaskDomain DEF SupervisorInv, Handles, Started
<1> HIDE DEF n
<1>3. S!NoOrphan'
  <2> SUFFICES ASSUME NEW u \in Streams, NEW t \in S!Alive(u)' PROVE workers'[u] = t
    BY DEF S!NoOrphan
  <2>1. CASE t = n + 1
    BY <1>1, <1>2, <2>1 DEF S!Alive
  <2>2. CASE t # n + 1
    <3>1. t \in 1 .. n /\ t \in S!Alive(u)
      BY <1>1, <1>2, <2>2 DEF S!Alive
    <3>2. workers[u] = t
      BY <3>1 DEF SupervisorInv, S!NoOrphan, Started, S!Alive
    <3> QED BY <1>1, <1>2, <3>1, <3>2
  <2> QED BY <2>1, <2>2
<1>4. \A u \in Streams : workers'[u] # 0 => tasks'[workers'[u]].stream = u
  BY <1>1, <1>2 DEF SupervisorInv, Handles
<1>5. config = Asked(s) => S!UpToDate(s)'
  BY <1>1, <1>2 DEF S!UpToDate, Asked, S!RuntimeConfig, S!TargetsOf, Started
<1>6. ASSUME NEW u \in Streams, u # s, S!UpToDate(u) PROVE S!UpToDate(u)'
  BY <1>1, <1>2, <1>6 DEF S!UpToDate, S!RuntimeConfig, S!TargetsOf, Started
<1> QED BY <1>1, <1>3, <1>4, <1>5, <1>6

LEMMA SameCatalog ==
    ASSUME catalog' = catalog, NEW s PROVE (S!Wanted(s)' <=> S!Wanted(s)) /\ Asked(s)' = Asked(s)
  BY DEF S!Wanted, Asked

\* Whoever is at work, the reconcile does not move, or a new one begins.
Quiet ==
    /\ Untouched /\ catalog' = catalog /\ list' = list /\ desired' = desired /\ fresh' = fresh
    /\ pc' = pc \/ (pc = "idle" /\ pc' = "list")

LEMMA QuietKeeps == ASSUME SupervisorInv, Quiet PROVE SupervisorInv'
<1>1. Handles'
  BY UntouchedKeeps DEF Quiet, Untouched, SameTasks, SupervisorInv, Handles
<1>2. Awaited'
  BY DEF Quiet, Untouched, SameTasks, SupervisorInv, Awaited
<1>3. Course'
  <2> SUFFICES ASSUME fresh' PROVE Course'
    BY DEF Course
  <2>1. /\ \A s : (S!Wanted(s)' <=> S!Wanted(s)) /\ Asked(s)' = Asked(s)
        /\ \A s \in Streams : S!UpToDate(s) => S!UpToDate(s)'
        /\ workers' = workers /\ waiting' = waiting /\ catalog' = catalog /\ list' = list
        /\ desired' = desired /\ fresh
    BY SameCatalog, UntouchedKeeps DEF Quiet, Untouched
  <2>2. pc' \in {"stream", "join", "joinStale", "idle"} => pc' = pc
    BY DEF Quiet
  <2>3. ASSUME pc = "join" PROVE tasks'[waiting'[1]].stream = tasks[waiting[1]].stream
    <3>1. waiting[1] \in 1 .. Len(tasks)
      BY <2>3 DEF SupervisorInv, Awaited
    <3> QED BY <3>1 DEF Quiet, Untouched, SameTasks
  <2>4. desired \subseteq Streams
    BY DEF SupervisorInv, Handles
  <2> HIDE DEF Quiet
  <2> QED BY <2>1, <2>2, <2>3, <2>4 DEF Course, SupervisorInv
<1> QED BY <1>1, <1>2, <1>3, UntouchedKeeps DEF SupervisorInv, Quiet

\* The catalog is edited, or a call of the reconcile fails, which ends it and,
\* the first time, all of them.
LEMMA DisturbedKeeps ==
    ASSUME SupervisorInv, Untouched, catalog' \in [Streams -> Rows], ~fresh',
           list' \subseteq list, desired' \subseteq Streams,
           pc' = pc \/ (pc' \in {"idle", "exited"} /\ waiting = <<>>)
    PROVE  SupervisorInv'
<1>1. Handles'
  BY UntouchedKeeps DEF Untouched, SameTasks, SupervisorInv, Handles
<1>2. Awaited'
  BY DEF Untouched, SameTasks, SupervisorInv, Awaited
<1> QED BY <1>1, <1>2, UntouchedKeeps DEF SupervisorInv, Course

LEMMA FailedKeeps ==
    ASSUME SupervisorInv, S!Failed, pc \in {"list", "stream"}, catalog' = catalog, workers' = workers,
           waiting' = waiting, desired' \subseteq Streams
    PROVE  SupervisorInv'
<1>1. SameTasks
  BY TaskChanges DEF S!Failed, SupervisorInv
<1>2. pc' \in {"idle", "exited"} /\ list' = {} /\ ~fresh' /\ waiting = <<>> /\ catalog \in [Streams -> Rows]
  BY DEF S!Failed, S!ReconcileFails, SupervisorInv, Handles, Awaited
<1> QED BY <1>1, <1>2, DisturbedKeeps DEF Untouched

LEMMA ListKeeps == ASSUME SupervisorInv, S!List PROVE SupervisorInv'
<1>1. CASE S!Failed
  BY <1>1, FailedKeeps DEF S!List
<1>2. CASE ~S!Failed
  <2>1. /\ pc = "list" /\ pc' = "stream" /\ tasks' = tasks /\ desired' = {} /\ catalog' = catalog
        /\ list' = {[id |-> s, row |-> catalog[s]] : s \in {s \in Streams : S!Listed(catalog[s])}}
        /\ workers' = workers /\ waiting' = waiting
    BY <1>2 DEF S!List
  <2>2. Untouched
    BY <2>1, TaskChanges DEF SupervisorInv, Untouched
  <2>3. Handles'
    BY <2>1, <2>2, UntouchedKeeps DEF Untouched, SameTasks, SupervisorInv, Handles
  <2>4. Awaited'
    BY <2>1 DEF SupervisorInv, Awaited
  <2>5. Course'
    <3>1. \A next \in list' : next.row = catalog[next.id] /\ S!Listed(next.row)
      BY <2>1
    <3>2. \A s \in Streams : S!Wanted(s) => [id |-> s, row |-> catalog[s]] \in list'
      BY <2>1 DEF S!Wanted
    <3> QED BY <2>1, <3>1, <3>2, SameCatalog DEF Course
  <2> QED BY <2>2, <2>3, <2>4, <2>5, UntouchedKeeps DEF SupervisorInv
<1> QED BY <1>1, <1>2

LEMMA ConfigGiven ==
    ASSUME NEW row \in Rows, NEW targets, \E r \in Rows : targets = r.targets \/ targets = r.owner
    PROVE  S!RuntimeConfig(row, targets) \in Given
  BY DEF S!RuntimeConfig, Given

LEMMA StreamKeeps == ASSUME SupervisorInv, S!Stream PROVE SupervisorInv'
<1>1. PICK next \in list : S!StreamOf(next)
  BY DEF S!Stream
<1> DEFINE s == next.id
           row == next.row
           targets == IF row.owner # {} THEN row.owner ELSE catalog[s].targets
           config == S!RuntimeConfig(row, targets)
<1>2. /\ pc = "stream" /\ catalog' = catalog /\ waiting = <<>>
      /\ s \in Streams /\ row \in Rows /\ catalog[s] \in Rows
  BY <1>1 DEF S!Stream, SupervisorInv, Handles, Awaited
<1>3. config \in Given
  BY <1>2, ConfigGiven
<1>4. fresh => /\ next = [id |-> s, row |-> catalog[s]] /\ row = catalog[s] /\ config = Asked(s)
               /\ S!Wanted(s) <=> ~S!Skipped(row) /\ ~S!Unwanted(row, targets)
               /\ \A u \in Streams : S!Wanted(u) => u \in desired \/ [id |-> u, row |-> catalog[u]] \in list
               /\ \A u \in desired : S!Wanted(u) /\ S!UpToDate(u)
               /\ \A n \in list : n.row = catalog[n.id] /\ S!Listed(n.row)
  <2> SUFFICES ASSUME fresh PROVE
               /\ next = [id |-> s, row |-> catalog[s]] /\ row = catalog[s] /\ config = Asked(s)
               /\ S!Wanted(s) <=> ~S!Skipped(row) /\ ~S!Unwanted(row, targets)
               /\ \A u \in Streams : S!Wanted(u) => u \in desired \/ [id |-> u, row |-> catalog[u]] \in list
               /\ \A u \in desired : S!Wanted(u) /\ S!UpToDate(u)
               /\ \A n \in list : n.row = catalog[n.id] /\ S!Listed(n.row)
    OBVIOUS
  <2>1. /\ \A n \in list : n.row = catalog[n.id] /\ S!Listed(n.row)
        /\ \A u \in Streams : S!Wanted(u) => u \in desired \/ [id |-> u, row |-> catalog[u]] \in list
        /\ \A u \in desired : S!Wanted(u) /\ S!UpToDate(u)
    BY <1>2 DEF SupervisorInv, Course
  <2>2. row = catalog[s] /\ S!Listed(row)
    BY <2>1
  <2>3. next \in [id : Streams, row : Rows]
    BY DEF SupervisorInv, Handles
  <2>4. next = [id |-> s, row |-> catalog[s]]
    BY <2>2, <2>3
  <2>5. targets = S!TargetsOf(catalog[s])
    BY <2>2 DEF S!TargetsOf
  <2>6. config = Asked(s)
    BY <2>2, <2>5 DEF Asked
  <2>7. S!Wanted(s) <=> ~S!Skipped(row) /\ ~S!Unwanted(row, targets)
    BY <2>2, <2>5 DEF S!Wanted
  <2> QED BY <2>1, <2>2, <2>4, <2>6, <2>7
<1>5. \/ /\ S!Skipped(row) \/ S!Unwanted(row, targets)
         /\ list' = list \ {next}
         /\ UNCHANGED <<pc, desired, workers, tasks, waiting, count, fresh>>
      \/ /\ ~S!Skipped(row) /\ ~S!Unwanted(row, targets)
         /\ desired' = desired \cup {s} /\ list' = list \ {next}
         /\ S!Apply(s, config)
         /\ UNCHANGED <<count, fresh>>
      \/ S!Failed /\ UNCHANGED <<desired, workers, waiting>>
  BY <1>1 DEF S!StreamOf, S!ListStreamTenantTargets
<1> HIDE DEF s, row, targets, config
<1>6. desired \subseteq Streams /\ list \subseteq [id : Streams, row : Rows]
  BY DEF SupervisorInv, Handles
<1>7. CASE S!Failed /\ UNCHANGED <<desired, workers, waiting>>
  BY <1>2, <1>6, <1>7, FailedKeeps
<1>8. CASE /\ S!Skipped(row) \/ S!Unwanted(row, targets)
           /\ list' = list \ {next}
           /\ UNCHANGED <<pc, desired, workers, tasks, waiting, count, fresh>>
  <2>1. Untouched
    BY <1>8, TaskChanges DEF SupervisorInv, Untouched
  <2>2. Handles'
    BY <1>2, <1>6, <1>8, <2>1, UntouchedKeeps DEF Untouched, SameTasks, SupervisorInv, Handles
  <2>3. Awaited'
    BY <1>8 DEF SupervisorInv, Awaited
  <2>4. Course'
    <3> SUFFICES ASSUME fresh' PROVE Course'
      BY DEF Course
    <3>1. \A u \in Streams : S!Wanted(u) => u \in desired \/ [id |-> u, row |-> catalog[u]] \in list'
      <4> SUFFICES ASSUME NEW u \in Streams, S!Wanted(u), u \notin desired
                   PROVE  [id |-> u, row |-> catalog[u]] \in list'
        OBVIOUS
      <4>1. u # s
        BY <1>4, <1>8
      <4>2. [id |-> u, row |-> catalog[u]] # next
        BY <4>1 DEF s
      <4> QED BY <1>4, <1>8, <4>2
    <3>2. \A u \in desired : S!Wanted(u) /\ S!UpToDate(u)'
      BY <1>2, <1>4, <1>6, <1>8, <2>1, UntouchedKeeps
    <3> QED BY <1>2, <1>4, <1>8, <3>1, <3>2, SameCatalog DEF Course
  <2> QED BY <2>1, <2>2, <2>3, <2>4, UntouchedKeeps DEF SupervisorInv
<1>9. CASE /\ ~S!Skipped(row) /\ ~S!Unwanted(row, targets)
           /\ desired' = desired \cup {s} /\ list' = list \ {next}
           /\ S!Apply(s, config)
           /\ UNCHANGED <<count, fresh>>
  <2>1. list' \subseteq [id : Streams, row : Rows] /\ desired' \subseteq Streams
    BY <1>2, <1>6, <1>9
  <2>2. ASSUME fresh
        PROVE  /\ \A n \in list' : n.row = catalog[n.id] /\ S!Listed(n.row)
               /\ \A u \in Streams : S!Wanted(u) => u \in desired' \/ [id |-> u, row |-> catalog[u]] \in list'
               /\ \A u \in desired' : S!Wanted(u)
               /\ \A u \in desired' : u = s \/ S!UpToDate(u)
    <3>1. \A u \in Streams : S!Wanted(u) => u \in desired' \/ [id |-> u, row |-> catalog[u]] \in list'
      <4> SUFFICES ASSUME NEW u \in Streams, S!Wanted(u), u \notin desired'
                   PROVE  [id |-> u, row |-> catalog[u]] \in list'
        OBVIOUS
      <4>1. u # s /\ u \notin desired
        BY <1>9
      <4>2. [id |-> u, row |-> catalog[u]] # next
        BY <4>1 DEF s
      <4> QED BY <1>4, <1>9, <2>2, <4>1, <4>2
    <3> QED BY <1>4, <1>9, <2>2, <3>1
  <2>3. CASE S!SameConfig(s, config) /\ UNCHANGED <<pc, workers, tasks, waiting>>
    <3>1. Untouched
      BY <2>3, TaskChanges DEF SupervisorInv, Untouched
    <3>2. Handles'
      BY <1>2, <2>1, <3>1, UntouchedKeeps DEF Untouched, SameTasks, SupervisorInv, Handles
    <3>3. Awaited'
      BY <2>3 DEF SupervisorInv, Awaited
    <3>4. ASSUME fresh PROVE S!UpToDate(s)
      BY <1>4, <2>3, <3>4 DEF S!SameConfig, S!Hash, S!UpToDate, Asked
    <3>5. Course'
      <4> SUFFICES ASSUME fresh' PROVE Course'
        BY DEF Course
      <4>1. \A u \in desired' : S!UpToDate(u)'
        BY <1>2, <1>9, <2>1, <2>2, <3>1, <3>4, UntouchedKeeps
      <4> QED BY <1>2, <1>9, <2>2, <2>3, <4>1, SameCatalog DEF Course
    <3> QED BY <3>1, <3>2, <3>3, <3>5, UntouchedKeeps DEF SupervisorInv
  <2>4. CASE workers[s] = 0 /\ S!Spawn(s, config) /\ UNCHANGED <<pc, waiting>>
    <3>1. Started(s, config)
      BY <1>2, <2>4 DEF Started
    <3>2. Handles'
      BY <1>2, <1>3, <2>1, <3>1, StartedKeeps DEF SupervisorInv, Handles
    <3>3. Awaited'
      BY <1>2, <2>4 DEF Awaited
    <3>4. Course'
      <4> SUFFICES ASSUME fresh' PROVE Course'
        BY DEF Course
      <4>1. \A u \in desired' : S!UpToDate(u)'
        BY <1>2, <1>3, <1>4, <1>9, <2>1, <2>2, <3>1, StartedKeeps
      <4> QED BY <1>2, <1>9, <2>2, <2>4, <4>1, SameCatalog DEF Course
    <3> QED BY <1>2, <1>3, <3>1, <3>2, <3>3, <3>4, StartedKeeps DEF SupervisorInv
  <2>5. CASE /\ workers[s] # 0 /\ tasks' = S!Tell(workers[s]) /\ workers' = [workers EXCEPT ![s] = 0]
             /\ waiting' = <<workers[s], config>> /\ pc' = "join"
    <3>1. workers[s] \in 1 .. Len(tasks)
      BY <1>2, <2>5, TaskDomain DEF SupervisorInv, Handles
    <3>2. Dismissed(s)
      BY <1>2, <2>5, <3>1, TaskChanges DEF Dismissed, S!Tell, SupervisorInv
    <3>3. tasks' \in Seq(Job) /\ waiting'[1] = workers[s] /\ waiting'[2] = config
      BY <2>5, <3>2 DEF Dismissed, SameTasks
    <3>4. Handles'
      BY <1>2, <2>1, <3>2, <3>3, DismissedKeeps DEF SupervisorInv, Handles
    <3>5. Awaited'
      BY <1>2, <1>3, <2>5, <3>2, <3>3, DismissedKeeps DEF Awaited
    <3>6. Course'
      <4> SUFFICES ASSUME fresh' PROVE Course'
        BY DEF Course
      <4>1. \A u \in desired' : u # s => S!UpToDate(u)'
        BY <1>2, <1>9, <2>1, <2>2, <3>2, DismissedKeeps
      <4>2. tasks'[waiting'[1]].stream = s /\ waiting'[2] = Asked(s)
        BY <1>2, <1>4, <1>9, <3>2, <3>3, DismissedKeeps
      <4> QED BY <1>2, <1>9, <2>2, <2>5, <4>1, <4>2, SameCatalog DEF Course
    <3> QED BY <1>2, <3>2, <3>4, <3>5, <3>6, DismissedKeeps DEF SupervisorInv
  <2> QED BY <1>9, <2>3, <2>4, <2>5 DEF S!Apply
<1> QED BY <1>5, <1>7, <1>8, <1>9

LEMMA JoinKeeps == ASSUME SupervisorInv, S!Join PROVE SupervisorInv'
<1>1. PICK t \in 1 .. Len(tasks), c \in Given : waiting = <<t, c>> /\ workers[tasks[t].stream] = 0
  BY DEF S!Join, SupervisorInv, Awaited
<1> DEFINE s == tasks[t].stream
<1>2. /\ s \in Streams /\ waiting[1] = t /\ waiting[2] = c /\ workers[s] = 0
      /\ tasks[t].state = "ended" /\ S!Spawn(s, c)
      /\ waiting' = <<>> /\ pc = "join" /\ pc' = "stream" /\ catalog' = catalog
      /\ list' = list /\ desired' = desired /\ fresh' = fresh
  BY <1>1, TaskDomain DEF S!Join, S!Stopped, SupervisorInv
<1> HIDE DEF s
<1>3. Started(s, c)
  BY <1>2 DEF Started
<1>4. Handles'
  BY <1>2, <1>3, StartedKeeps DEF SupervisorInv, Handles
<1>5. Awaited'
  BY <1>2 DEF Awaited
<1>6. Course'
  <2> SUFFICES ASSUME fresh' PROVE Course'
    BY DEF Course
  <2>1. desired \subseteq Streams
    BY DEF SupervisorInv, Handles
  <2>2. ASSUME NEW u \in desired PROVE S!UpToDate(u)'
    <3>1. S!UpToDate(u) \/ (s = u /\ c = Asked(u))
      BY <1>2, <2>2 DEF SupervisorInv, Course, s
    <3>2. CASE u = s
      <4>1. c = Asked(s)
        BY <1>2, <3>1, <3>2 DEF S!UpToDate
      <4> QED BY <1>2, <1>3, <3>2, <4>1, StartedKeeps
    <3>3. CASE u # s
      BY <1>2, <1>3, <2>1, <3>1, <3>3, StartedKeeps
    <3> QED BY <3>2, <3>3
  <2> QED BY <1>2, <2>2, SameCatalog DEF SupervisorInv, Course
<1> QED BY <1>2, <1>3, <1>4, <1>5, <1>6, StartedKeeps DEF SupervisorInv

LEMMA StopStaleKeeps == ASSUME SupervisorInv, S!StopStale PROVE SupervisorInv'
<1>1. /\ pc = "stream" /\ list = {} /\ waiting = <<>> /\ catalog' = catalog
      /\ list' = list /\ desired' = desired /\ fresh' = fresh /\ desired \subseteq Streams
  BY DEF S!StopStale, SupervisorInv, Handles, Awaited
<1>2. fresh => /\ \A u \in Streams : S!Wanted(u) => u \in desired
               /\ \A u \in desired : S!Wanted(u) /\ S!UpToDate(u)
  BY <1>1 DEF SupervisorInv, Course
<1>3. ASSUME NEW s \in S!Stale, tasks' = S!Tell(workers[s]), waiting' = <<workers[s]>>,
             workers' = [workers EXCEPT ![s] = 0], pc' = "joinStale"
      PROVE  SupervisorInv'
  <2>1. s \in Streams /\ workers[s] # 0 /\ s \notin desired /\ workers[s] \in 1 .. Len(tasks)
    BY TaskDomain DEF S!Stale, SupervisorInv, Handles
  <2>2. Dismissed(s)
    BY <1>1, <1>3, <2>1, TaskChanges DEF Dismissed, S!Tell, SupervisorInv
  <2>3. tasks' \in Seq(Job) /\ waiting'[1] = workers[s]
    BY <1>3, <2>2 DEF Dismissed, SameTasks
  <2>4. Handles'
    BY <1>1, <2>1, <2>2, <2>3, DismissedKeeps DEF SupervisorInv, Handles
  <2>5. Awaited'
    BY <1>3, <2>1, <2>2, <2>3, DismissedKeeps DEF Awaited
  <2>6. Course'
    <3> SUFFICES ASSUME fresh' PROVE Course'
      BY DEF Course
    <3>1. \A u \in desired : S!UpToDate(u)'
      BY <1>1, <1>2, <2>1, <2>2, DismissedKeeps
    <3> QED BY <1>1, <1>2, <1>3, <3>1, SameCatalog DEF Course
  <2> QED BY <2>1, <2>2, <2>4, <2>5, <2>6, DismissedKeeps DEF SupervisorInv
<1>4. CASE S!Stale = {} /\ pc' = "idle" /\ UNCHANGED <<tasks, waiting, workers>>
  <2>1. Untouched
    BY <1>4, TaskChanges DEF SupervisorInv, Untouched
  <2>2. Handles'
    BY <1>1, <2>1, UntouchedKeeps DEF Untouched, SameTasks, SupervisorInv, Handles
  <2>3. Awaited'
    BY <1>1, <1>4 DEF Awaited
  <2>4. Course'
    <3> SUFFICES ASSUME fresh', NEW u \in Streams
                 PROVE  IF S!Wanted(u) THEN S!UpToDate(u)' ELSE workers[u] = 0
      BY <1>1, <1>4, SameCatalog DEF Course
    <3>1. workers[u] # 0 => u \in desired
      BY <1>4 DEF S!Stale
    <3> QED BY <1>1, <1>2, <2>1, <3>1, UntouchedKeeps
  <2> QED BY <2>1, <2>2, <2>3, <2>4, UntouchedKeeps DEF SupervisorInv
<1> QED BY <1>3, <1>4 DEF S!StopStale

LEMMA JoinStaleKeeps == ASSUME SupervisorInv, S!JoinStale PROVE SupervisorInv'
<1>1. PICK t \in 1 .. Len(tasks) : waiting = <<t>> /\ workers[tasks[t].stream] = 0
  BY DEF S!JoinStale, SupervisorInv, Awaited
<1>2. /\ pc = "joinStale" /\ pc' = "stream" /\ waiting' = <<>> /\ tasks[t].state = "ended"
      /\ catalog' = catalog /\ list' = list /\ desired' = desired /\ fresh' = fresh
      /\ workers' = workers /\ tasks' = tasks
  BY <1>1 DEF S!JoinStale, S!Stopped
<1>3. Handles' /\ Awaited'
  BY <1>2 DEF SupervisorInv, Handles, Awaited
<1>4. S!NoOrphan'
  BY <1>1, <1>2 DEF SupervisorInv, S!NoOrphan, S!Alive
<1>5. Course'
  BY <1>2, SameCatalog DEF SupervisorInv, Course, S!UpToDate, S!RuntimeConfig, S!TargetsOf
<1> QED BY <1>3, <1>4, <1>5 DEF SupervisorInv

LEMMA SupervisorSteps == SupervisorInv /\ [S!Next]_S!vars => SupervisorInv'
<1> SUFFICES ASSUME SupervisorInv, [S!Next]_S!vars PROVE SupervisorInv'
  OBVIOUS
<1>1. tasks' = tasks => SameTasks
  BY TaskChanges DEF SupervisorInv
<1>2. CASE S!Reconcile
  BY <1>2, ListKeeps, StreamKeeps, JoinKeeps, StopStaleKeeps, JoinStaleKeeps DEF S!Reconcile
<1>3. CASE \/ S!ReconcileTick \/ S!Signal \/ S!Command \/ S!Reload
           \/ S!ListenerConnect \/ S!ListenerAnswered \/ S!ListenerLost \/ UNCHANGED S!vars
  <2>1. Quiet
    BY <1>1, <1>3 DEF S!ReconcileTick, S!Signal, S!Command, S!Reload, S!ListenerConnect,
                      S!ListenerAnswered, S!ListenerLost, S!vars, Quiet, Untouched
  <2> QED BY <2>1, QuietKeeps
<1>4. ASSUME NEW t \in DOMAIN tasks, S!TaskEnds(t) PROVE SupervisorInv'
  <2>1. Quiet
    BY <1>4, TaskDomain, TaskChanges DEF S!TaskEnds, SupervisorInv, Quiet, Untouched
  <2> QED BY <2>1, QuietKeeps
<1>5. ASSUME NEW s \in Streams, NEW row \in Catalogs[s], S!Edit(s, row) PROVE SupervisorInv'
  <2>1. catalog' \in [Streams -> Rows] /\ desired \subseteq Streams
    BY <1>5 DEF S!Edit, SupervisorInv, Handles, Rows
  <2> QED BY <1>1, <1>5, <2>1, DisturbedKeeps DEF S!Edit, Untouched
<1> QED BY <1>2, <1>3, <1>4, <1>5 DEF S!Next

LEMMA SupervisorSuffices ==
    SupervisorInv => S!OneWorkerPerStream /\ S!NoOrphan /\ S!ReconciledIsCatalog
<1> SUFFICES ASSUME SupervisorInv PROVE S!OneWorkerPerStream /\ S!NoOrphan /\ S!ReconciledIsCatalog
  OBVIOUS
<1>1. S!OneWorkerPerStream
  <2> SUFFICES ASSUME NEW s \in Streams PROVE S!Cardinality(S!Alive(s)) <= 1
    BY DEF S!OneWorkerPerStream
  <2>1. ASSUME NEW t \in S!Alive(s), NEW u \in S!Alive(s) PROVE t = u
    <3>1. t \in 1 .. Len(tasks) /\ u \in 1 .. Len(tasks) /\ tasks[t].stream = s /\ tasks[u].stream = s
      BY <2>1, TaskDomain DEF SupervisorInv, S!Alive
    <3>2. /\ workers[s] = t \/ (waiting # <<>> /\ waiting[1] = t)
          /\ workers[s] = u \/ (waiting # <<>> /\ waiting[1] = u)
      BY <2>1 DEF SupervisorInv, S!NoOrphan
    <3>3. waiting # <<>> => workers[tasks[waiting[1]].stream] = 0
      BY DEF SupervisorInv, Awaited
    <3> QED BY <3>1, <3>2, <3>3
  <2>2. S!Cardinality(S!Alive(s)) = Cardinality(S!Alive(s))
    BY DEF S!Cardinality, Cardinality
  <2>3. CASE S!Alive(s) = {}
    BY <2>2, <2>3, FS_EmptySet
  <2>4. CASE S!Alive(s) # {}
    <3>1. PICK t \in S!Alive(s) : S!Alive(s) = {t}
      BY <2>1, <2>4
    <3>2. Cardinality({t}) = 1
      BY FS_Singleton
    <3>3. S!Cardinality(S!Alive(s)) = 1
      BY <2>2, <3>1, <3>2
    <3> QED BY <3>3
  <2> QED BY <2>3, <2>4
<1>2. S!ReconciledIsCatalog
  BY DEF SupervisorInv, Course, S!ReconciledIsCatalog
<1> QED BY <1>1, <1>2 DEF SupervisorInv

-----------------------------------------------------------------------------
(* The worker. *)

InHand == {"fx", "truth", "raw", "insert", "publish", "health"}

ItemFields == {"stage", "todo", "p", "at", "key", "eid", "status", "price", "fanout", "rate",
               "truth", "i", "inserted"}

Payloads == IF settings.mode = "push" THEN settings.feed ELSE UNION {Range(batch) : batch \in settings.feed}

\* The item in hand: exactly a parsed one is for the bus, and the loops over
\* the targets stay within them.
ItemShape ==
    /\ DOMAIN work = ItemFields
    /\ work.status \in {"parsed", "partial", "error"}
    /\ work.fanout \in BOOLEAN /\ work.inserted \in BOOLEAN
    /\ work.fanout = TRUE <=> work.status = "parsed"
    /\ work.price \in Nat /\ work.i \in Nat \ {0}
    /\ work.stage \in {"fx", "truth", "raw"} => work.i = 1 /\ work.inserted = FALSE
    /\ work.stage \in {"fx", "truth"} => work.truth = None
    /\ work.stage = "fx" => work.rate = None
    /\ work.stage = "insert" => work.i = 1 \/ work.i <= Len(W!Targets)
    /\ work.stage = "publish" => work.i <= Len(W!Targets) /\ work.status = "parsed"

WorkShape ==
    /\ settings \in WorkerSettings /\ now \in Nat
    /\ DOMAIN report = {"healthy", "success", "failure", "message"}
    /\ DOMAIN history = {"again", "lost", "purged", "unsaid", "stored"}
    /\ work.stage \in W!Stages /\ "stage" \in DOMAIN work
    /\ work.stage = "item" => "todo" \in DOMAIN work
    /\ work.stage \in InHand \cup {"item"} => work.todo \in Seq(Payloads)
    /\ work.stage \in InHand => ItemShape

\* The event in hand brought a row of its own, and is not yet told to all.
Telling == work.stage = "publish" \/ (work.stage = "insert" /\ work.inserted)

\* The table knows every key that was stored until the purge forgets it; the
\* targets of the event in hand that are still to come were not told of it.
Ledger ==
    /\ W!PublishedIsStored
    /\ \A key \in history.stored : key \in history.purged \/ \E r \in rows : r.key = key
    /\ W!NoDoublePublish
    /\ Telling =>
        /\ work.key \in history.stored
        /\ \A r \in rows : r.key = work.key => r.status = work.status
        /\ \A j \in DOMAIN W!Targets :
            <<W!Targets[j], work.key>> \in published =>
                work.key \in history.purged \/ (work.stage = "publish" /\ j < work.i)
    /\ work.stage = "publish" => \A j \in 1 .. work.i - 1 : <<W!Targets[j], work.key>> \in published
    /\ \A r \in rows :
        r.status = "parsed" =>
            \/ \A t \in W!Tenants : <<t, r.key>> \in published
            \/ r.key \in history.lost
            \/ Telling /\ work.key = r.key

\* The required record is written before the first row.
Landed ==
    W!RawRequired => /\ \A r \in rows : r.key \in raw
                     /\ work.stage = "insert" => work.key \in raw

\* A cached rate was fresh when it was cached.
CacheIsFresh ==
    cache = None \/ (/\ cache.quoted \in Int /\ cache.at \in Int
                     /\ cache.at - cache.quoted <= W!FxFreshness)

WorkerInv ==
    /\ WorkShape /\ Ledger /\ Landed /\ CacheIsFresh
    /\ W!RateIsFresh /\ W!MedianIsCentral /\ W!HealthIsLastReport

\* What the settings are for a worker, and its targets.
LEMMA SettingFacts ==
    ASSUME WorkShape
    PROVE  /\ W!Targets \in Seq(W!Tenants) /\ DOMAIN W!Targets = 1 .. Len(W!Targets)
           /\ Len(W!Targets) \in Nat
           /\ W!Targets = <<>> <=> Len(W!Targets) = 0
           /\ \A i, j \in DOMAIN W!Targets : W!Targets[i] = W!Targets[j] => i = j
           /\ \A i \in DOMAIN W!Targets : W!Targets[i] \in W!Tenants
           /\ W!FxFreshness \in Nat /\ W!FxTTL \in Nat
           /\ \A p \in Payloads : p.ok \in BOOLEAN /\ p.price \in Nat
<1> DEFINE T == settings.targets
<1>1. settings \in WorkerSettings
  BY DEF WorkShape
<1>2. T \in Seq(Range(T)) /\ IsInjective(T) /\ settings.freshness \in Nat /\ settings.ttl \in Nat
  BY <1>1, StreamSettings
<1>3. W!Tenants = Range(T)
  BY DEF W!Tenants, W!Targets, Range
<1>4. DOMAIN T = 1 .. Len(T) /\ Len(T) \in Nat /\ (T = <<>> <=> Len(T) = 0)
  BY <1>2
<1>5. \A i, j \in DOMAIN T : T[i] = T[j] => i = j
  BY <1>2 DEF IsInjective
<1>6. \A p \in Payloads : p.ok \in BOOLEAN /\ p.price \in Nat
  BY <1>1, StreamSettings DEF Payloads
<1> QED BY <1>2, <1>3, <1>4, <1>5, <1>6 DEF W!Targets, W!FxFreshness, W!FxTTL, Range

\* What a payload, or a batch of them, that is delivered consists of.
LEMMA Delivered ==
    ASSUME WorkShape, NEW payload \in W!Feed
    PROVE  /\ W!Mode = "push" => <<payload>> \in Seq(Payloads)
           /\ W!Mode = "poll" => payload \in Seq(Payloads)
<1>1. settings \in WorkerSettings
  BY DEF WorkShape
<1>2. CASE settings.mode = "push"
  <2>1. payload \in Payloads /\ W!Mode = "push"
    BY <1>2 DEF W!Mode, W!Feed, Payloads
  <2>2. <<payload>> \in Seq(Payloads)
    BY <2>1
  <2> QED BY <2>1, <2>2
<1>3. CASE settings.mode # "push"
  <2>1. payload \in Seq(Range(payload))
    BY <1>1, <1>3, StreamSettings DEF W!Feed
  <2>2. Range(payload) \subseteq Payloads
    BY <1>3 DEF Payloads, W!Feed
  <2> QED BY <1>3, <2>1, <2>2 DEF W!Mode
<1> QED BY <1>2, <1>3

\* A step that takes no item on keeps the shape.
LEMMA NoItemKeepsShape ==
    ASSUME WorkShape, settings' = settings, now' \in Nat, DOMAIN report' = DOMAIN report,
           DOMAIN history' = DOMAIN history,
           work' = work \/ (/\ "stage" \in DOMAIN work'
                            /\ work'.stage \in W!Stages \ (InHand \cup {"item"}))
    PROVE  WorkShape'
<1>1. Payloads' = Payloads /\ W!Targets' = W!Targets
  BY DEF Payloads, W!Targets
<1> QED BY <1>1 DEF WorkShape, ItemShape, W!Stages, InHand

LEMMA NewItem ==
    ASSUME DOMAIN work' = ItemFields,
           work'.fanout \in BOOLEAN, work'.status \in {"parsed", "error"},
           work'.fanout = TRUE <=> work'.status = "parsed",
           work'.stage \in {"raw", "fx"},
           work'.inserted = FALSE, work'.price \in Nat, work'.i = 1,
           work'.rate = None, work'.truth = None
    PROVE  ItemShape'
<1>1. work'.inserted \in BOOLEAN
  OBVIOUS
<1>2. work'.status \in {"parsed", "partial", "error"}
  OBVIOUS
<1>3. work'.i \in Nat \ {0} /\ work'.stage # "insert" /\ work'.stage # "publish"
  OBVIOUS
<1> QED BY <1>1, <1>2, <1>3 DEF ItemShape, ItemFields

LEMMA ItemKeepsShape == ASSUME WorkShape, W!Item, settings' = settings PROVE WorkShape'
<1>1. /\ work.stage = "item" /\ work.todo \in Seq(Payloads) /\ Payloads' = Payloads
      /\ settings' \in WorkerSettings /\ now' \in Nat /\ report' = report /\ history' = history
      /\ W!Targets' = W!Targets
  BY DEF W!Item, W!At, WorkShape, InHand, Payloads, W!Targets
<1>2. CASE work.todo = <<>>
  <2>1. work' = [stage |-> "select"]
    BY <1>2 DEF W!Item
  <2> QED BY <1>1, <2>1 DEF WorkShape, W!Stages, InHand
<1>3. CASE work.todo # <<>>
  <2> DEFINE p == Head(work.todo)
  <2>1. p \in Payloads /\ Tail(work.todo) \in Seq(Payloads)
    BY <1>1, <1>3
  <2>2. p.ok \in BOOLEAN /\ p.price \in Nat
    BY <2>1, SettingFacts
  <2>3. CASE ~p.ok
    <3> p.ok = FALSE
      BY <2>2, <2>3
    <3> HIDE DEF p
    <3>0. PICK key, at : work' =
            [stage |-> "raw", todo |-> Tail(work.todo), p |-> p, at |-> at, key |-> key,
             eid |-> None, status |-> "error", price |-> 0, fanout |-> p.ok,
             rate |-> None, truth |-> None, i |-> 1, inserted |-> FALSE]
      BY <1>3, <2>3 DEF W!Item, p
    <3>1. /\ DOMAIN work' = ItemFields /\ work'.stage = "raw" /\ work'.todo = Tail(work.todo)
          /\ work'.status = "error" /\ work'.fanout = FALSE /\ work'.inserted = FALSE
          /\ work'.price \in Nat /\ work'.i = 1 /\ work'.rate = None /\ work'.truth = None
      BY <2>2, <3>0 DEF ItemFields
    <3>2. ItemShape'
      <4>1. work'.fanout \in BOOLEAN
        BY <3>1
      <4>2. work'.fanout = TRUE <=> work'.status = "parsed"
        BY <3>1
      <4> QED BY <3>1, <4>1, <4>2, NewItem
    <3> QED BY <1>1, <2>1, <3>1, <3>2 DEF WorkShape, W!Stages, ItemFields
  <2>4. CASE p.ok /\ work' = [work EXCEPT !.todo = Tail(@)]
    BY <1>1, <2>1, <2>4 DEF WorkShape, InHand
  <2>5. CASE p.ok /\ work' # [work EXCEPT !.todo = Tail(@)]
    <3> p.ok = TRUE
      BY <2>2, <2>5
    <3> HIDE DEF p
    <3>0. PICK key, at, eid : work' =
            [stage |-> "fx", todo |-> Tail(work.todo), p |-> p, at |-> at, key |-> key,
             eid |-> eid, status |-> "parsed", price |-> p.price, fanout |-> p.ok,
             rate |-> None, truth |-> None, i |-> 1, inserted |-> FALSE]
      BY <1>3, <2>5 DEF W!Item, p
    <3>1. /\ DOMAIN work' = ItemFields /\ work'.stage = "fx" /\ work'.todo = Tail(work.todo)
          /\ work'.status = "parsed" /\ work'.fanout = TRUE /\ work'.inserted = FALSE
          /\ work'.price \in Nat /\ work'.i = 1 /\ work'.rate = None /\ work'.truth = None
      BY <2>2, <3>0 DEF ItemFields
    <3>2. ItemShape'
      <4>1. work'.fanout \in BOOLEAN
        BY <3>1
      <4>2. work'.fanout = TRUE <=> work'.status = "parsed"
        BY <3>1
      <4> QED BY <3>1, <4>1, <4>2, NewItem
    <3> QED BY <1>1, <2>1, <3>1, <3>2 DEF WorkShape, W!Stages, ItemFields
  <2> QED BY <2>2, <2>3, <2>4, <2>5
<1> QED BY <1>2, <1>3

\* A step that takes the item in hand further, or lets go of it.
LEMMA ItemStepKeepsShape ==
    ASSUME WorkShape, settings' = settings, now' = now, DOMAIN report' = DOMAIN report,
           DOMAIN history' = DOMAIN history,
           \/ work'.stage \in InHand /\ work'.todo = work.todo /\ ItemShape'
           \/ work' = [stage |-> "item", todo |-> work.todo],
           work.stage \in InHand
    PROVE  WorkShape'
<1>1. Payloads' = Payloads /\ W!Targets' = W!Targets
  BY DEF Payloads, W!Targets
<1>2. ItemShape' => "stage" \in DOMAIN work' /\ "todo" \in DOMAIN work'
  BY DEF ItemShape, ItemFields
<1> QED BY <1>1, <1>2 DEF WorkShape, W!Stages, InHand

LEMMA FailKeepsShape ==
    ASSUME WorkShape, settings' = settings, now' = now, DOMAIN report' = DOMAIN report,
           DOMAIN history' = DOMAIN history, NEW message, W!Fail(message)
    PROVE  WorkShape'
<1>1. work' = [stage |-> "fail", message |-> message]
  BY DEF W!Fail
<1> QED BY <1>1, NoItemKeepsShape DEF WorkShape, W!Stages, InHand

\* What a normalisation does to the item and to the cache.
LEMMA Normalised ==
    ASSUME W!NormaliseUsdt
    PROVE  \/ work' = [work EXCEPT !.stage = "truth"] /\ cache' = cache
           \/ /\ W!CacheHit /\ cache' = cache
              /\ work' = [work EXCEPT !.stage = "truth", !.rate = W!Rate(cache.quoted, 2), !.price = @ * 2]
           \/ \E quoted \in W!LatestUsdtQuotes :
                /\ quoted # None /\ cache' = [quoted |-> quoted, at |-> now]
                /\ work' = [work EXCEPT !.stage = "truth", !.rate = W!Rate(quoted, 2), !.price = @ * 2]
           \/ work' = [work EXCEPT !.stage = "truth", !.rate = W!Rate(now, 1)] /\ cache' = cache
           \/ /\ cache' = cache
              /\ work' = [work EXCEPT !.stage = "truth", !.price = 0, !.status = "partial",
                                      !.fanout = FALSE]
           \/ W!Fail("db") /\ cache' = cache
<1> DEFINE next == [work EXCEPT !.stage = "truth"]
<1>1. CASE work' = next /\ cache' = cache
  BY <1>1
<1>2. CASE /\ W!CacheHit /\ cache' = cache
           /\ work' = [next EXCEPT !.rate = W!Rate(cache.quoted, 2), !.price = @ * 2]
  BY <1>2
<1>3. CASE W!Fail("db") /\ cache' = cache
  BY <1>3
<1>4. ASSUME NEW quoted \in W!LatestUsdtQuotes,
             work' = (IF quoted # None
                      THEN [next EXCEPT !.rate = W!Rate(quoted, 2), !.price = @ * 2]
                      ELSE IF W!FallbackRate(work.p) THEN [next EXCEPT !.rate = W!Rate(now, 1)]
                      ELSE [next EXCEPT !.price = 0, !.status = "partial", !.fanout = FALSE]),
             cache' = IF quoted = None THEN cache ELSE [quoted |-> quoted, at |-> now]
      PROVE  \/ /\ quoted # None /\ cache' = [quoted |-> quoted, at |-> now]
                /\ work' = [work EXCEPT !.stage = "truth", !.rate = W!Rate(quoted, 2), !.price = @ * 2]
             \/ work' = [work EXCEPT !.stage = "truth", !.rate = W!Rate(now, 1)] /\ cache' = cache
             \/ /\ cache' = cache
                /\ work' = [work EXCEPT !.stage = "truth", !.price = 0, !.status = "partial",
                                        !.fanout = FALSE]
  BY <1>4
<1> QED BY <1>1, <1>2, <1>3, <1>4 DEF W!NormaliseUsdt, W!CachedRate

LEMMA NormaliseKeepsShape == ASSUME WorkShape, W!NormaliseUsdt, settings' = settings PROVE WorkShape'
<1>1. /\ work.stage = "fx" /\ ItemShape /\ now' = now /\ report' = report /\ history' = history
      /\ W!Targets' = W!Targets
  BY DEF W!NormaliseUsdt, W!At, WorkShape, InHand, W!Targets
<1>2. ASSUME \/ \E rate : work' = [work EXCEPT !.stage = "truth", !.rate = rate]
             \/ \E rate : work' = [work EXCEPT !.stage = "truth", !.rate = rate, !.price = @ * 2]
             \/ work' = [work EXCEPT !.stage = "truth"]
      PROVE  WorkShape'
  <2>1. /\ DOMAIN work' = ItemFields /\ work'.stage = "truth" /\ work'.todo = work.todo
        /\ work'.status = work.status /\ work'.fanout = work.fanout
        /\ work'.inserted = work.inserted /\ work'.i = work.i /\ work'.truth = work.truth
        /\ work'.price \in {work.price, work.price * 2}
    BY <1>1, <1>2 DEF ItemShape, ItemFields
  <2>2. ItemShape'
    BY <1>1, <2>1 DEF ItemShape, ItemFields
  <2> QED BY <1>1, <2>1, <2>2, ItemStepKeepsShape DEF InHand
<1>3. ASSUME work' = [work EXCEPT !.stage = "truth", !.price = 0, !.status = "partial", !.fanout = FALSE]
      PROVE  WorkShape'
  <2>1. /\ DOMAIN work' = ItemFields /\ work'.stage = "truth" /\ work'.todo = work.todo
        /\ work'.status = "partial" /\ work'.fanout = FALSE
        /\ work'.inserted = work.inserted /\ work'.i = work.i /\ work'.truth = work.truth
        /\ work'.price \in Nat
    BY <1>1, <1>3 DEF ItemShape, ItemFields
  <2>2. work'.fanout \in BOOLEAN
    BY <2>1
  <2>3. work'.fanout = TRUE <=> work'.status = "parsed"
    BY <2>1
  <2>4. ItemShape'
    BY <1>1, <2>1, <2>2, <2>3 DEF ItemShape, ItemFields
  <2> QED BY <1>1, <2>1, <2>4, ItemStepKeepsShape DEF InHand
<1>4. ASSUME W!Fail("db") PROVE WorkShape'
  BY <1>1, <1>4, FailKeepsShape
<1> QED BY <1>2, <1>3, <1>4, Normalised

LEMMA TruthKeepsShape == ASSUME WorkShape, W!MarketTruth, settings' = settings PROVE WorkShape'
<1>1. /\ work.stage = "truth" /\ ItemShape /\ now' = now /\ report' = report /\ history' = history
      /\ W!Targets' = W!Targets
  BY DEF W!MarketTruth, W!At, WorkShape, InHand, W!Targets
<1>2. ASSUME \/ \E truth : work' = [work EXCEPT !.stage = "raw", !.truth = truth]
             \/ work' = [work EXCEPT !.stage = "raw"]
      PROVE  WorkShape'
  <2>1. /\ DOMAIN work' = ItemFields /\ work'.stage = "raw" /\ work'.todo = work.todo
        /\ work'.status = work.status /\ work'.fanout = work.fanout
        /\ work'.inserted = work.inserted /\ work'.i = work.i /\ work'.price = work.price
    BY <1>1, <1>2 DEF ItemShape, ItemFields
  <2>2. ItemShape'
    BY <1>1, <2>1 DEF ItemShape, ItemFields
  <2> QED BY <1>1, <2>1, <2>2, ItemStepKeepsShape DEF InHand
<1>3. ASSUME W!Fail("db") PROVE WorkShape'
  BY <1>1, <1>3, FailKeepsShape
<1> QED BY <1>2, <1>3 DEF W!MarketTruth, W!Goto

LEMMA LandingKeepsShape == ASSUME WorkShape, W!StartRawLanding, settings' = settings PROVE WorkShape'
<1>1. /\ work.stage = "raw" /\ ItemShape /\ now' = now /\ report' = report /\ history' = history
      /\ W!Targets' = W!Targets
  BY DEF W!StartRawLanding, W!At, WorkShape, InHand, W!Targets
<1>2. ASSUME work' = [work EXCEPT !.stage = "insert"] PROVE WorkShape'
  <2>1. /\ DOMAIN work' = ItemFields /\ work'.stage = "insert" /\ work'.todo = work.todo
        /\ work'.status = work.status /\ work'.fanout = work.fanout
        /\ work'.inserted = work.inserted /\ work'.i = work.i /\ work'.price = work.price
    BY <1>1, <1>2 DEF ItemShape, ItemFields
  <2>2. ItemShape'
    BY <1>1, <2>1 DEF ItemShape, ItemFields
  <2> QED BY <1>1, <2>1, <2>2, ItemStepKeepsShape DEF InHand
<1>3. ASSUME W!Fail("raw") PROVE WorkShape'
  BY <1>1, <1>3, FailKeepsShape
<1> QED BY <1>2, <1>3 DEF W!StartRawLanding, W!LandsRaw, W!Goto

\* The item in hand as the step leaves it, but for where it is.
SameItem ==
    /\ DOMAIN work' = ItemFields /\ work'.todo = work.todo /\ work'.key = work.key
    /\ work'.status = work.status /\ work'.fanout = work.fanout /\ work'.price = work.price
    /\ work'.rate = work.rate /\ work'.truth = work.truth

\* What an insertion does to the item.
LEMMA Inserting ==
    ASSUME WorkShape, W!InsertRow
    PROVE  /\ work.stage = "insert" /\ ItemShape
           /\ \/ /\ \E tenant : W!Insert(tenant)
                 /\ \/ /\ SameItem /\ work'.stage = "insert"
                       /\ work.i < Len(W!Targets) /\ work'.i = work.i + 1
                       /\ work'.inserted = W!Inserted(work)
                    \/ /\ SameItem /\ work'.stage = "health"
                       /\ work'.inserted = W!Inserted(work) /\ work'.i = work.i + 1
                       /\ work.status = "parsed" => W!Targets = <<>>
                    \/ /\ work' = [stage |-> "item", todo |-> work.todo] /\ W!Inserted(work) = FALSE
                    \/ /\ SameItem /\ work'.stage = "publish"
                       /\ work.status = "parsed" /\ W!Targets # <<>> /\ work'.i = 1
                       /\ work'.inserted = W!Inserted(work) /\ W!Inserted(work) = TRUE
              \/ /\ W!Fail("db") /\ rows' = rows
                 /\ history' = IF work.inserted /\ work.fanout
                               THEN [history EXCEPT !.lost = @ \cup {work.key}] ELSE history
<1>1. work.stage = "insert" /\ ItemShape
  BY DEF W!InsertRow, W!At, WorkShape, InHand
<1> DEFINE new == W!Inserted(work)
           w == [work EXCEPT !.inserted = new, !.i = @ + 1]
<1>2. new \in BOOLEAN
  BY DEF W!Inserted
<1>3. /\ DOMAIN w = ItemFields /\ w.stage = "insert" /\ w.todo = work.todo /\ w.key = work.key
      /\ w.status = work.status /\ w.fanout = work.fanout /\ w.price = work.price
      /\ w.rate = work.rate /\ w.truth = work.truth /\ w.inserted = new /\ w.i = work.i + 1
  BY <1>1 DEF ItemShape, ItemFields
<1> HIDE DEF w, new
<1>4. ASSUME work.i < Len(W!Targets), work' = w
      PROVE  SameItem /\ work'.stage = "insert" /\ work'.i = work.i + 1 /\ work'.inserted = new
  BY <1>3, <1>4 DEF SameItem
<1>5. ASSUME work' = W!AfterInsert(w)
      PROVE  \/ /\ SameItem /\ work'.stage = "health" /\ work'.inserted = new
                /\ work'.i = work.i + 1
                /\ work.status = "parsed" => W!Targets = <<>>
             \/ work' = [stage |-> "item", todo |-> work.todo] /\ new = FALSE
             \/ /\ SameItem /\ work'.stage = "publish" /\ work.status = "parsed"
                /\ W!Targets # <<>> /\ work'.i = 1 /\ work'.inserted = new /\ new = TRUE
  <2>1. CASE w.status = "error" \/ (w.inserted /\ ~(w.fanout /\ W!Targets # <<>>))
    <3>1. work' = [w EXCEPT !.stage = "health"]
      BY <1>5, <2>1 DEF W!AfterInsert
    <3>2. SameItem /\ work'.stage = "health" /\ work'.inserted = new /\ work'.i = work.i + 1
      BY <1>3, <3>1 DEF SameItem, ItemFields
    <3>3. work.status = "parsed" => W!Targets = <<>>
      BY <1>1, <1>3, <2>1 DEF ItemShape
    <3> QED BY <3>2, <3>3
  <2>2. CASE w.status # "error" /\ ~w.inserted
    <3>1. work' = [stage |-> "item", todo |-> w.todo]
      BY <1>5, <2>2 DEF W!AfterInsert
    <3>2. new = FALSE
      BY <1>2, <1>3, <2>2
    <3> QED BY <1>3, <3>1, <3>2
  <2>3. CASE w.status # "error" /\ w.inserted /\ w.fanout /\ W!Targets # <<>>
    <3>1. work' = [w EXCEPT !.stage = "publish", !.i = 1]
      BY <1>5, <2>3 DEF W!AfterInsert
    <3>2. new = TRUE
      BY <1>2, <1>3, <2>3
    <3>3. SameItem /\ work'.stage = "publish" /\ work'.inserted = new /\ work'.i = 1
      BY <1>3, <3>1 DEF SameItem, ItemFields
    <3>4. w.fanout = TRUE
      BY <1>1, <1>3, <2>3 DEF ItemShape
    <3>5. work.status = "parsed"
      BY <1>1, <1>3, <3>4 DEF ItemShape
    <3> QED BY <2>3, <3>2, <3>3, <3>5
  <2> QED BY <2>1, <2>2, <2>3
<1>6. \/ \E tenant : W!Insert(tenant) /\ work' = IF Len(W!Targets) > 1 /\ work.i < Len(W!Targets)
                                                 THEN w ELSE W!AfterInsert(w)
      \/ /\ W!Fail("db") /\ rows' = rows
         /\ history' = IF work.inserted /\ work.fanout
                       THEN [history EXCEPT !.lost = @ \cup {work.key}] ELSE history
  BY DEF W!InsertRow, W!InsertError, w, new
<1> QED BY <1>1, <1>4, <1>5, <1>6 DEF new

LEMMA SameItemShape ==
    ASSUME ItemShape, SameItem, work'.inserted \in BOOLEAN, work'.i \in Nat \ {0},
           work'.stage \in {"insert", "publish", "health"},
           work'.stage = "insert" => work'.i <= Len(W!Targets'),
           work'.stage = "publish" => work'.i <= Len(W!Targets') /\ work.status = "parsed"
    PROVE  ItemShape'
<1>1. /\ work'.fanout \in BOOLEAN /\ work'.price \in Nat
      /\ work'.status \in {"parsed", "partial", "error"}
  BY DEF ItemShape, SameItem
<1>2. work'.fanout = TRUE <=> work'.status = "parsed"
  BY DEF ItemShape, SameItem
<1>3. DOMAIN work' = ItemFields /\ work'.stage \notin {"fx", "truth", "raw"}
  BY DEF SameItem
<1>4. work'.stage = "publish" => work'.status = "parsed"
  BY DEF SameItem
<1> QED BY <1>1, <1>2, <1>3, <1>4 DEF ItemShape, ItemFields

LEMMA InsertKeepsShape == ASSUME WorkShape, W!InsertRow, settings' = settings PROVE WorkShape'
<1>1. W!Inserted(work) \in BOOLEAN
  BY DEF W!Inserted
<1>2. /\ W!Targets' = W!Targets /\ now' = now /\ report' = report
      /\ Len(W!Targets) \in Nat /\ (W!Targets = <<>> <=> Len(W!Targets) = 0)
  BY SettingFacts DEF W!Targets, W!InsertRow
<1>3. DOMAIN history' = DOMAIN history
  BY Inserting DEF W!Insert
<1>4. ASSUME SameItem, work'.inserted = W!Inserted(work),
             \/ work'.stage = "insert" /\ work.i < Len(W!Targets) /\ work'.i = work.i + 1
             \/ work'.stage = "health" /\ work'.i = work.i + 1
             \/ work'.stage = "publish" /\ work.status = "parsed" /\ W!Targets # <<>> /\ work'.i = 1
      PROVE  ItemShape'
  <2>1. work.i \in Nat \ {0}
    BY Inserting DEF ItemShape
  <2>2. /\ work'.i \in Nat \ {0} /\ work'.stage \in {"insert", "publish", "health"}
        /\ work'.stage = "insert" => work'.i <= Len(W!Targets')
        /\ work'.stage = "publish" => work'.i <= Len(W!Targets') /\ work.status = "parsed"
    BY <1>2, <1>4, <2>1
  <2>3. work'.inserted \in BOOLEAN
    BY <1>1, <1>4
  <2> QED BY <1>4, <2>2, <2>3, Inserting, SameItemShape
<1>5. ASSUME W!Fail("db") PROVE WorkShape'
  BY <1>2, <1>3, <1>5, FailKeepsShape
<1> QED BY <1>2, <1>3, <1>4, <1>5, Inserting, ItemStepKeepsShape DEF SameItem, InHand

\* What a publication does to the item.
LEMMA Publishing ==
    ASSUME WorkShape, W!Publish
    PROVE  /\ work.stage = "publish" /\ ItemShape /\ rows' = rows
           /\ \/ /\ published' = published \cup {<<W!Targets[work.i], work.key>>}
                 /\ history' = IF <<W!Targets[work.i], work.key>> \in published
                               THEN [history EXCEPT !.again = @ \cup {<<W!Targets[work.i], work.key>>}]
                               ELSE history
                 /\ SameItem /\ work'.inserted = work.inserted
                 /\ \/ work.i = Len(W!Targets) /\ work'.stage = "health" /\ work'.i = work.i
                    \/ work.i # Len(W!Targets) /\ work'.stage = "publish" /\ work'.i = work.i + 1
              \/ /\ W!Fail("bus") /\ published' = published
                 /\ history' = [history EXCEPT !.lost = @ \cup {work.key}]
<1>1. work.stage = "publish" /\ ItemShape
  BY DEF W!Publish, W!At, WorkShape, InHand
<1>2. CASE work' = [work EXCEPT !.stage = "health"] /\ work.i = Len(W!Targets)
  <2>1. SameItem /\ work'.stage = "health" /\ work'.i = work.i /\ work'.inserted = work.inserted
    BY <1>1, <1>2 DEF SameItem, ItemShape, ItemFields
  <2>2. ~W!Fail("bus")
    BY <2>1 DEF W!Fail, SameItem, ItemFields
  <2> QED BY <1>1, <1>2, <2>1, <2>2 DEF W!Publish
<1>3. CASE work' = [work EXCEPT !.i = @ + 1] /\ work.i # Len(W!Targets)
  <2>1. SameItem /\ work'.stage = "publish" /\ work'.i = work.i + 1 /\ work'.inserted = work.inserted
    BY <1>1, <1>3 DEF SameItem, ItemShape, ItemFields
  <2>2. ~W!Fail("bus")
    BY <2>1 DEF W!Fail, SameItem, ItemFields
  <2> QED BY <1>1, <1>3, <2>1, <2>2 DEF W!Publish
<1>4. CASE W!Fail("bus") /\ published' = published /\ history' = [history EXCEPT !.lost = @ \cup {work.key}]
  BY <1>1, <1>4 DEF W!Publish
<1> QED BY <1>1, <1>2, <1>3, <1>4 DEF W!Publish, W!LastTarget

LEMMA PublishKeepsShape == ASSUME WorkShape, W!Publish, settings' = settings PROVE WorkShape'
<1>1. /\ W!Targets' = W!Targets /\ now' = now /\ report' = report /\ Len(W!Targets) \in Nat
  BY SettingFacts DEF W!Targets, W!Publish
<1>2. DOMAIN history' = DOMAIN history
  BY Publishing
<1>3. ASSUME SameItem, work'.inserted = work.inserted,
             \/ work'.stage = "health" /\ work'.i = work.i
             \/ work.i # Len(W!Targets) /\ work'.stage = "publish" /\ work'.i = work.i + 1
      PROVE  ItemShape'
  <2>1. work.i \in Nat \ {0} /\ work.i <= Len(W!Targets) /\ work.status = "parsed"
    BY Publishing DEF ItemShape
  <2>2. /\ work'.i \in Nat \ {0} /\ work'.stage \in {"publish", "health"}
        /\ work'.stage = "publish" => work'.i <= Len(W!Targets')
    BY <1>1, <1>3, <2>1
  <2>3. work'.inserted \in BOOLEAN
    BY <1>3, Publishing DEF ItemShape
  <2> QED BY <1>3, <2>1, <2>2, <2>3, Publishing, SameItemShape
<1>4. ASSUME W!Fail("bus") PROVE WorkShape'
  BY <1>1, <1>2, <1>4, FailKeepsShape
<1> QED BY <1>1, <1>2, <1>3, <1>4, Publishing, ItemStepKeepsShape DEF SameItem, InHand

\* The steps of the surroundings, and those at the ends of a connection.
LEMMA ShapeKeeps == ASSUME WorkShape, [W!Next]_W!vars PROVE WorkShape'
<1>1. CASE UNCHANGED W!vars
  BY <1>1, NoItemKeepsShape DEF W!vars, WorkShape
<1>2. ASSUME settings' = settings,
             \/ W!Connect \/ W!StaticError \/ W!StopSeen \/ W!Disconnect \/ W!Backoff \/ W!Stop \/ W!Purge
             \/ W!Tick \/ \E key \in deferred : W!FinishDeferred(key)
      PROVE  WorkShape'
  <2>1. now' \in Nat /\ report' = report /\ DOMAIN history' = DOMAIN history
    BY <1>2 DEF W!Connect, W!StaticError, W!StopSeen, W!Disconnect, W!Backoff, W!Stop, W!Purge,
                W!Tick, W!FinishDeferred, WorkShape
  <2>2. \/ work' = work
        \/ "stage" \in DOMAIN work' /\ work'.stage \in {"select", "fail", "ended", "connect"}
    <3>1. CASE W!Connect
      <4>1. "stage" \in DOMAIN work
        BY DEF WorkShape
      <4> QED BY <3>1, <4>1 DEF W!Connect, W!Goto, W!Fail
    <3>2. CASE W!StaticError \/ W!StopSeen \/ W!Disconnect \/ W!Backoff
      BY <3>2 DEF W!StaticError, W!StopSeen, W!Disconnect, W!Backoff, W!Fail
    <3>3. CASE W!Stop \/ W!Purge \/ W!Tick \/ \E key \in deferred : W!FinishDeferred(key)
      BY <3>3 DEF W!Stop, W!Purge, W!Tick, W!FinishDeferred
    <3> QED BY <1>2, <3>1, <3>2, <3>3
  <2> QED BY <1>2, <2>1, <2>2, NoItemKeepsShape DEF W!Stages, InHand
<1>3. ASSUME settings' = settings, W!ReportFailure PROVE WorkShape'
  <2>1. /\ now' = now /\ DOMAIN report' = DOMAIN report /\ DOMAIN history' = DOMAIN history
        /\ now \in Nat
    BY <1>3 DEF W!ReportFailure, W!TellHealth, WorkShape
  <2>2. work' = [stage |-> "ended"] \/ work' = [stage |-> "backoff"]
    BY <1>3 DEF W!ReportFailure
  <2> QED BY <1>3, <2>1, <2>2, NoItemKeepsShape DEF W!Stages, InHand
<1>4. ASSUME settings' = settings, W!ReportSuccess PROVE WorkShape'
  <2>1. /\ now' = now /\ DOMAIN report' = DOMAIN report /\ DOMAIN history' = DOMAIN history
        /\ work' = [stage |-> "item", todo |-> work.todo] /\ work.stage \in InHand
    BY <1>4 DEF W!ReportSuccess, W!TellHealth, W!SuccessReport, W!At, WorkShape, InHand
  <2> QED BY <1>4, <2>1, ItemStepKeepsShape
<1>5. ASSUME settings' = settings, NEW payload \in W!Feed, W!Receive(payload) \/ W!Poll(payload)
      PROVE  WorkShape'
  <2>1. PICK items \in Seq(Payloads) : W!Deliver(items)
    BY <1>5, Delivered DEF W!Receive, W!Poll
  <2>2. Payloads' = Payloads /\ work' = [stage |-> "item", todo |-> items]
    BY <1>5, <2>1 DEF W!Deliver, Payloads
  <2> QED BY <1>5, <2>1, <2>2 DEF W!Deliver, WorkShape, W!Stages, InHand
<1> QED BY <1>1, <1>2, <1>3, <1>4, <1>5, ItemKeepsShape, NormaliseKeepsShape, TruthKeepsShape,
           LandingKeepsShape, InsertKeepsShape, PublishKeepsShape DEF W!Next, W!Step

\* A step that tells nobody anything keeps the ledger, if what it drops while it
\* is being told counts as lost.
LEMMA SilentKeepsLedger ==
    ASSUME WorkShape, Ledger, settings' = settings, rows' = rows, published' = published,
           history'.stored = history.stored, history'.purged = history.purged,
           history'.again = history.again, history.lost \subseteq history'.lost,
           \/ work' = work
           \/ ~Telling' /\ (Telling => work.key \in history'.lost \/ work.status # "parsed"
                                       \/ W!Tenants = {})
    PROVE  Ledger'
<1>1. W!Targets' = W!Targets /\ W!Tenants' = W!Tenants
  BY DEF W!Targets, W!Tenants
<1>2. W!PublishedIsStored' /\ W!NoDoublePublish'
  BY DEF Ledger, W!PublishedIsStored, W!NoDoublePublish
<1>3. CASE work' = work
  BY <1>1, <1>2, <1>3 DEF Ledger, Telling
<1>4. CASE ~Telling' /\ (Telling => work.key \in history'.lost \/ work.status # "parsed"
                                     \/ W!Tenants = {})
  <2>1. work'.stage # "publish"
    BY <1>4 DEF Telling
  <2>2. ASSUME NEW r \in rows, r.status = "parsed"
        PROVE  (\A t \in W!Tenants : <<t, r.key>> \in published) \/ r.key \in history'.lost
    BY <1>4, <2>2 DEF Ledger
  <2> QED BY <1>1, <1>2, <1>4, <2>1, <2>2 DEF Ledger
<1> QED BY <1>3, <1>4

LEMMA PurgeKeepsLedger == ASSUME WorkShape, Ledger, settings' = settings, W!Purge PROVE Ledger'
<1>1. /\ W!Targets' = W!Targets /\ W!Tenants' = W!Tenants /\ work' = work /\ published' = published
      /\ Telling' = Telling
  BY DEF W!Targets, W!Tenants, W!Purge, Telling
<1>2. PICK old \in SUBSET rows : /\ rows' = rows \ old
                                 /\ history' = [history EXCEPT !.purged = @ \cup {r.key : r \in old}]
  BY DEF W!Purge
<1>3. /\ history'.stored = history.stored /\ history'.again = history.again
      /\ history'.lost = history.lost
      /\ history'.purged = history.purged \cup {r.key : r \in old}
  BY <1>2 DEF WorkShape
<1>4. W!PublishedIsStored' /\ W!NoDoublePublish'
  BY <1>1, <1>3 DEF Ledger, W!PublishedIsStored, W!NoDoublePublish
<1>5. \A key \in history'.stored : key \in history'.purged \/ \E r \in rows' : r.key = key
  BY <1>2, <1>3 DEF Ledger
<1> QED BY <1>1, <1>2, <1>3, <1>4, <1>5 DEF Ledger

LEMMA InsertKeepsLedger ==
    ASSUME WorkShape, Ledger, settings' = settings, W!InsertRow PROVE Ledger'
<1> DEFINE Goes(new) ==
            \/ /\ SameItem /\ work'.stage = "insert" /\ work'.inserted = new
            \/ /\ SameItem /\ work'.stage = "health"
               /\ work.status = "parsed" => W!Targets = <<>>
            \/ /\ work' = [stage |-> "item", todo |-> work.todo] /\ new = FALSE
            \/ /\ SameItem /\ work'.stage = "publish" /\ work'.i = 1 /\ new = TRUE
<1>1. /\ W!Targets' = W!Targets /\ W!Tenants' = W!Tenants /\ published' = published
      /\ work.stage = "insert" /\ ItemShape /\ work.inserted \in BOOLEAN
  BY Inserting DEF W!Targets, W!Tenants, W!InsertRow, ItemShape
<1>2. W!Targets = <<>> => W!Tenants = {}
  BY SettingFacts DEF W!Tenants
<1>3. ASSUME W!Fail("db"), rows' = rows,
             history' = IF work.inserted /\ work.fanout
                        THEN [history EXCEPT !.lost = @ \cup {work.key}] ELSE history
      PROVE  Ledger'
  <2>1. ~Telling'
    BY <1>3 DEF W!Fail, Telling
  <2>2. Telling /\ work.status = "parsed" => work.inserted /\ work.fanout
    BY <1>1 DEF Telling, ItemShape
  <2>3. /\ history'.stored = history.stored /\ history'.purged = history.purged
        /\ history'.again = history.again /\ history.lost \subseteq history'.lost
        /\ work.inserted /\ work.fanout => work.key \in history'.lost
    BY <1>3 DEF WorkShape
  <2> QED BY <1>1, <1>3, <2>1, <2>2, <2>3, SilentKeepsLedger
<1>4. ASSUME NEW tenant, W!Insert(tenant), Goes(W!Inserted(work)), W!Conflicts(work), ~work.inserted
      PROVE  Ledger'
  <2>1. rows' = rows /\ history' = history /\ W!Inserted(work) = FALSE
    BY <1>1, <1>4 DEF W!Insert, W!Inserted
  <2>2. ~Telling
    BY <1>1, <1>4 DEF Telling
  <2>3. Goes(FALSE)
    BY <1>4, <2>1
  <2>4. ~Telling'
    BY <2>3 DEF Telling
  <2> QED BY <1>1, <2>1, <2>2, <2>4, SilentKeepsLedger
<1>5. ASSUME NEW tenant, W!Insert(tenant), Goes(W!Inserted(work)), ~W!Conflicts(work) \/ work.inserted
      PROVE  Ledger'
  <2>1. W!Inserted(work) = TRUE
    BY <1>1, <1>5 DEF W!Inserted
  <2>2. \/ rows' = rows /\ history' = history /\ W!Conflicts(work)
        \/ /\ rows' = rows \cup {W!RowOf(work, tenant)} /\ ~W!Conflicts(work)
           /\ history' = [history EXCEPT !.stored = @ \cup {work.key}]
    BY <1>5 DEF W!Insert
  <2>3. /\ history'.purged = history.purged /\ history'.again = history.again
        /\ history'.lost = history.lost /\ history.stored \subseteq history'.stored
        /\ history'.stored \subseteq history.stored \cup {work.key}
    BY <2>2 DEF WorkShape
  <2>4. W!RowOf(work, tenant).key = work.key /\ W!RowOf(work, tenant).status = work.status
    BY DEF W!RowOf
  <2>5. /\ rows \subseteq rows' /\ work.key \in history'.stored
        /\ work.key \in history'.purged \/ \E r \in rows' : r.key = work.key
    BY <1>1, <1>5, <2>2, <2>3, <2>4 DEF Ledger, Telling, WorkShape
  <2>6. \A r \in rows' : r.key = work.key => r.status = work.status
    BY <1>1, <1>5, <2>2, <2>4 DEF Ledger, Telling, W!Conflicts
  <2>7. \A j \in DOMAIN W!Targets :
            <<W!Targets[j], work.key>> \in published => work.key \in history'.purged
    BY <1>1, <1>5, <2>2, <2>3 DEF Ledger, Telling, W!Conflicts, W!PublishedIsStored
  <2>8. \A r \in rows' : r.status = "parsed" => \/ \A t \in W!Tenants : <<t, r.key>> \in published
                                               \/ r.key \in history'.lost
                                               \/ work.key = r.key
    BY <2>2, <2>3, <2>4 DEF Ledger
  <2>9. W!PublishedIsStored' /\ W!NoDoublePublish'
    BY <1>1, <2>3 DEF Ledger, W!PublishedIsStored, W!NoDoublePublish
  <2>10. \A key \in history'.stored : key \in history'.purged \/ \E r \in rows' : r.key = key
    BY <2>3, <2>5 DEF Ledger
  <2>11. CASE /\ SameItem
              /\ \/ work'.stage = "insert" /\ work'.inserted = TRUE
                 \/ work'.stage = "publish" /\ work'.i = 1
    <3>1. Telling' /\ work'.key = work.key /\ work'.status = work.status
      BY <2>11 DEF Telling, SameItem
    <3>2. work'.stage = "publish" => \A j \in 1 .. work'.i - 1 : <<W!Targets[j], work.key>> \in published
      BY <2>11
    <3> QED BY <1>1, <2>3, <2>5, <2>6, <2>7, <2>8, <2>9, <2>10, <3>1, <3>2 DEF Ledger
  <2>12. CASE SameItem /\ work'.stage = "health" /\ (work.status = "parsed" => W!Targets = <<>>)
    <3>1. ~Telling' /\ work'.stage # "publish"
      BY <2>12 DEF Telling
    <3> QED BY <1>1, <1>2, <2>3, <2>5, <2>6, <2>7, <2>8, <2>9, <2>10, <2>12, <3>1 DEF Ledger
  <2>13. Goes(TRUE)
    BY <1>5, <2>1
  <2> QED BY <2>11, <2>12, <2>13
<1>6. \/ \E tenant : W!Insert(tenant) /\ Goes(W!Inserted(work))
      \/ /\ W!Fail("db") /\ rows' = rows
         /\ history' = IF work.inserted /\ work.fanout
                       THEN [history EXCEPT !.lost = @ \cup {work.key}] ELSE history
  BY Inserting
<1> QED BY <1>1, <1>3, <1>4, <1>5, <1>6

LEMMA PublishKeepsLedger ==
    ASSUME WorkShape, Ledger, settings' = settings, W!Publish PROVE Ledger'
<1> DEFINE x == <<W!Targets[work.i], work.key>>
<1>1. /\ W!Targets' = W!Targets /\ W!Tenants' = W!Tenants
      /\ work.stage = "publish" /\ ItemShape /\ rows' = rows /\ Telling
  BY Publishing DEF W!Targets, W!Tenants, Telling
<1>2. /\ work.i \in 1 .. Len(W!Targets) /\ DOMAIN W!Targets = 1 .. Len(W!Targets)
      /\ Len(W!Targets) \in Nat
      /\ \A i, j \in DOMAIN W!Targets : W!Targets[i] = W!Targets[j] => i = j
  BY <1>1, SettingFacts DEF ItemShape
<1>3. ASSUME W!Fail("bus"), published' = published,
             history' = [history EXCEPT !.lost = @ \cup {work.key}]
      PROVE  Ledger'
  <2>1. ~Telling'
    BY <1>3 DEF W!Fail, Telling
  <2>2. /\ history'.stored = history.stored /\ history'.purged = history.purged
        /\ history'.again = history.again /\ history.lost \subseteq history'.lost
        /\ work.key \in history'.lost
    BY <1>3 DEF WorkShape
  <2> QED BY <1>1, <1>3, <2>1, <2>2, SilentKeepsLedger
<1>4. ASSUME published' = published \cup {x},
             history' = IF x \in published THEN [history EXCEPT !.again = @ \cup {x}] ELSE history,
             SameItem,
             \/ work.i = Len(W!Targets) /\ work'.stage = "health"
             \/ work'.stage = "publish" /\ work'.i = work.i + 1
      PROVE  Ledger'
  <2>1. /\ history'.stored = history.stored /\ history'.purged = history.purged
        /\ history'.lost = history.lost
        /\ history'.again = IF x \in published THEN history.again \cup {x} ELSE history.again
    BY <1>4 DEF WorkShape
  <2>2. work.key \in history.stored /\ (x \in published => work.key \in history.purged)
    BY <1>1, <1>2 DEF Ledger
  <2>3. W!PublishedIsStored'
    BY <1>4, <2>1, <2>2 DEF Ledger, W!PublishedIsStored
  <2>4. W!NoDoublePublish'
    BY <2>1, <2>2 DEF Ledger, W!NoDoublePublish
  <2>5. \A j \in DOMAIN W!Targets :
            <<W!Targets[j], work.key>> \in published' => work.key \in history'.purged \/ j <= work.i
    BY <1>1, <1>2, <1>4, <2>1 DEF Ledger
  <2>6. \A j \in 1 .. work.i : <<W!Targets[j], work.key>> \in published'
    BY <1>1, <1>2, <1>4 DEF Ledger
  <2>7. CASE work'.stage = "publish" /\ work'.i = work.i + 1
    <3>1. Telling' /\ work'.key = work.key /\ work'.status = work.status
      BY <1>4, <2>7 DEF Telling, SameItem
    <3>2. \A j \in 1 .. work'.i - 1 : <<W!Targets[j], work.key>> \in published'
      BY <1>2, <2>6, <2>7
    <3>3. \A j \in DOMAIN W!Targets :
            <<W!Targets[j], work.key>> \in published' => work.key \in history'.purged \/ j < work'.i
      BY <1>2, <2>5, <2>7
    <3>4. \A r \in rows : r.status = "parsed" =>
            \/ \A t \in W!Tenants : <<t, r.key>> \in published'
            \/ r.key \in history.lost
            \/ work.key = r.key
      BY <1>4 DEF Ledger
    <3>5. \A r \in rows : r.key = work.key => r.status = work.status
      BY <1>1 DEF Ledger
    <3>6. \A key \in history.stored : key \in history.purged \/ \E r \in rows : r.key = key
      BY DEF Ledger
    <3> QED BY <1>1, <2>1, <2>2, <2>3, <2>4, <2>7, <3>1, <3>2, <3>3, <3>4, <3>5, <3>6 DEF Ledger
  <2>8. CASE work.i = Len(W!Targets) /\ work'.stage = "health"
    <3>1. ~Telling' /\ work'.stage # "publish"
      BY <2>8 DEF Telling
    <3>2. \A t \in W!Tenants : <<t, work.key>> \in published'
      BY <1>2, <2>6, <2>8 DEF W!Tenants
    <3>3. \A r \in rows : r.status = "parsed" =>
            \/ \A t \in W!Tenants : <<t, r.key>> \in published'
            \/ r.key \in history.lost
      BY <1>4, <3>2 DEF Ledger
    <3> QED BY <1>1, <2>1, <2>3, <2>4, <3>1, <3>3 DEF Ledger
  <2> QED BY <1>4, <2>7, <2>8
<1> QED BY <1>3, <1>4, Publishing

\* What the next item begins with.
LEMMA TakingUp ==
    ASSUME WorkShape, W!Item
    PROVE  /\ work.stage = "item"
           /\ \/ work'.stage \in {"select", "item"}
              \/ work'.stage \in {"raw", "fx"} /\ work'.rate = None /\ work'.truth = None
<1>1. work.stage = "item" /\ "stage" \in DOMAIN work
  BY DEF W!Item, W!At, WorkShape
<1>2. CASE work.todo = <<>>
  BY <1>1, <1>2 DEF W!Item
<1>3. CASE work.todo # <<>>
  <2> DEFINE p == Head(work.todo)
  <2>1. \/ work' = [work EXCEPT !.todo = Tail(@)]
        \/ \E key, at : work' =
            [stage |-> "raw", todo |-> Tail(work.todo), p |-> p, at |-> at, key |-> key,
             eid |-> None, status |-> "error", price |-> 0, fanout |-> p.ok,
             rate |-> None, truth |-> None, i |-> 1, inserted |-> FALSE]
        \/ \E key, at, eid : work' =
            [stage |-> "fx", todo |-> Tail(work.todo), p |-> p, at |-> at, key |-> key,
             eid |-> eid, status |-> "parsed", price |-> p.price, fanout |-> p.ok,
             rate |-> None, truth |-> None, i |-> 1, inserted |-> FALSE]
    <3>1. CASE ~p.ok
      BY <1>3, <3>1 DEF W!Item
    <3>2. CASE p.ok
      BY <1>3, <3>2 DEF W!Item
    <3> QED BY <3>1, <3>2
  <2> HIDE DEF p
  <2>2. CASE work' = [work EXCEPT !.todo = Tail(@)]
    BY <1>1, <2>2
  <2>3. CASE work' # [work EXCEPT !.todo = Tail(@)]
    <3>1. work'.stage \in {"raw", "fx"} /\ work'.rate = None /\ work'.truth = None
      BY <2>1, <2>3
    <3> QED BY <1>1, <3>1
  <2> QED BY <2>2, <2>3
<1> QED BY <1>2, <1>3

\* What a normalisation leaves.
LEMMA NormalisedItem ==
    ASSUME WorkShape, W!NormaliseUsdt
    PROVE  /\ work.stage = "fx" /\ ItemShape
           /\ \/ W!Fail("db") /\ cache' = cache
              \/ /\ work'.stage = "truth" /\ work'.truth = work.truth
                 /\ \/ work'.rate = work.rate /\ cache' = cache
                    \/ W!CacheHit /\ work'.rate = W!Rate(cache.quoted, 2) /\ cache' = cache
                    \/ \E quoted \in W!LatestUsdtQuotes :
                        /\ quoted # None /\ cache' = [quoted |-> quoted, at |-> now]
                        /\ work'.rate = W!Rate(quoted, 2)
                    \/ work'.rate = W!Rate(now, 1) /\ cache' = cache
<1>1. work.stage = "fx" /\ ItemShape
  BY DEF W!NormaliseUsdt, W!At, WorkShape, InHand
<1>2. ASSUME \/ work' = [work EXCEPT !.stage = "truth"]
             \/ work' = [work EXCEPT !.stage = "truth", !.price = 0, !.status = "partial",
                                     !.fanout = FALSE]
      PROVE  work'.stage = "truth" /\ work'.truth = work.truth /\ work'.rate = work.rate
  BY <1>1, <1>2 DEF ItemShape, ItemFields
<1>3. ASSUME NEW rate, \/ work' = [work EXCEPT !.stage = "truth", !.rate = rate, !.price = @ * 2]
                       \/ work' = [work EXCEPT !.stage = "truth", !.rate = rate]
      PROVE  work'.stage = "truth" /\ work'.truth = work.truth /\ work'.rate = rate
  BY <1>1, <1>3 DEF ItemShape, ItemFields
<1>4. CASE work' = [work EXCEPT !.stage = "truth"] /\ cache' = cache
  BY <1>1, <1>2, <1>4
<1>5. CASE /\ W!CacheHit /\ cache' = cache
           /\ work' = [work EXCEPT !.stage = "truth", !.rate = W!Rate(cache.quoted, 2), !.price = @ * 2]
  BY <1>1, <1>3, <1>5
<1>6. ASSUME NEW quoted \in W!LatestUsdtQuotes, quoted # None, cache' = [quoted |-> quoted, at |-> now],
             work' = [work EXCEPT !.stage = "truth", !.rate = W!Rate(quoted, 2), !.price = @ * 2]
      PROVE  /\ work'.stage = "truth" /\ work'.truth = work.truth
             /\ work'.rate = W!Rate(quoted, 2)
  BY <1>3, <1>6
<1>7. CASE work' = [work EXCEPT !.stage = "truth", !.rate = W!Rate(now, 1)] /\ cache' = cache
  BY <1>1, <1>3, <1>7
<1>8. CASE /\ cache' = cache
           /\ work' = [work EXCEPT !.stage = "truth", !.price = 0, !.status = "partial", !.fanout = FALSE]
  BY <1>1, <1>2, <1>8
<1> QED BY <1>1, <1>4, <1>5, <1>6, <1>7, <1>8, Normalised

\* What a look at the market leaves.
LEMMA TruthTold ==
    ASSUME WorkShape, W!MarketTruth
    PROVE  /\ work.stage = "truth" /\ ItemShape
           /\ \/ W!Fail("db")
              \/ /\ work'.stage = "raw" /\ work'.rate = work.rate
                 /\ \/ work'.truth = work.truth
                    \/ \E others \in W!OtherPrices :
                        work'.truth = W!Truth([s \in DOMAIN others \cup {"self"} |->
                                                IF s = "self" THEN work.price ELSE others[s]])
<1>1. work.stage = "truth" /\ ItemShape
  BY DEF W!MarketTruth, W!At, WorkShape, InHand
<1>2. ASSUME NEW truth, work' = [work EXCEPT !.stage = "raw", !.truth = truth]
      PROVE  work'.stage = "raw" /\ work'.rate = work.rate /\ work'.truth = truth
  BY <1>1, <1>2 DEF ItemShape, ItemFields
<1>3. CASE work' = [work EXCEPT !.stage = "raw"]
  <2>1. work'.stage = "raw" /\ work'.rate = work.rate /\ work'.truth = work.truth
    BY <1>1, <1>3 DEF ItemShape, ItemFields
  <2> QED BY <1>1, <2>1
<1> QED BY <1>1, <1>2, <1>3 DEF W!MarketTruth, W!Goto, W!LatestOperationalSourcePrices

LEMMA LedgerKeeps == ASSUME WorkShape, Ledger, [W!Next]_W!vars PROVE Ledger'
<1>1. CASE UNCHANGED W!vars
  BY <1>1, SilentKeepsLedger DEF W!vars
<1>2. ASSUME settings' = settings,
             \/ W!Connect \/ W!StaticError \/ W!StopSeen \/ W!Disconnect \/ W!Backoff \/ W!Item
             \/ \E payload \in W!Feed : W!Receive(payload) \/ W!Poll(payload)
      PROVE  Ledger'
  <2>1. rows' = rows /\ published' = published /\ history' = history
    BY <1>2 DEF W!Connect, W!StaticError, W!StopSeen, W!Disconnect, W!Backoff, W!Item, W!Receive,
                W!Poll, W!Deliver
  <2>2. ~Telling
    BY <1>2 DEF W!Connect, W!StaticError, W!StopSeen, W!Disconnect, W!Backoff, W!Item, W!Receive,
                W!Poll, W!Deliver, W!At, Telling
  <2>3. ~Telling'
    <3>1. CASE W!Connect
      <4>1. work'.stage \in {"select", "fail"}
        BY <3>1 DEF W!Connect, W!Goto, W!Fail, WorkShape
      <4> QED BY <4>1 DEF Telling
    <3>2. CASE W!StaticError \/ W!StopSeen \/ W!Disconnect \/ W!Backoff
               \/ \E payload \in W!Feed : W!Receive(payload) \/ W!Poll(payload)
      <4>1. work'.stage \in {"fail", "ended", "connect", "item"}
        BY <3>2 DEF W!StaticError, W!StopSeen, W!Disconnect, W!Backoff, W!Receive, W!Poll,
                    W!Deliver, W!Fail
      <4> QED BY <4>1 DEF Telling
    <3>3. CASE W!Item
      <4>1. work'.stage \in {"select", "raw", "item", "fx"}
        BY <3>3, TakingUp
      <4> QED BY <4>1 DEF Telling
    <3> QED BY <1>2, <3>1, <3>2, <3>3
  <2> QED BY <1>2, <2>1, <2>2, <2>3, SilentKeepsLedger
<1>3. ASSUME settings' = settings,
             W!Stop \/ W!Tick \/ \E key \in deferred : W!FinishDeferred(key)
      PROVE  Ledger'
  <2>1. rows' = rows /\ published' = published /\ history' = history /\ work' = work
    BY <1>3 DEF W!Stop, W!Tick, W!FinishDeferred
  <2> QED BY <1>3, <2>1, SilentKeepsLedger
<1>4. ASSUME settings' = settings, W!NormaliseUsdt \/ W!MarketTruth \/ W!StartRawLanding PROVE Ledger'
  <2>1. rows' = rows /\ published' = published /\ history' = history
    BY <1>4 DEF W!NormaliseUsdt, W!MarketTruth, W!StartRawLanding
  <2>2. ~Telling /\ work.stage \in {"fx", "truth", "raw"} /\ ItemShape
    BY <1>4 DEF W!NormaliseUsdt, W!MarketTruth, W!StartRawLanding, W!At, Telling, WorkShape, InHand
  <2>3. work'.stage \in {"truth", "raw", "fail"} \/ work' = [work EXCEPT !.stage = "insert"]
    <3>1. CASE W!NormaliseUsdt
      BY <3>1, NormalisedItem DEF W!Fail
    <3>2. CASE W!MarketTruth
      BY <3>2, TruthTold DEF W!Fail
    <3>3. CASE W!StartRawLanding
      BY <2>2, <3>3 DEF W!StartRawLanding, W!LandsRaw, W!Fail, W!Goto
    <3> QED BY <1>4, <3>1, <3>2, <3>3
  <2>4. ~Telling'
    BY <2>2, <2>3 DEF Telling, ItemShape, ItemFields
  <2> QED BY <1>4, <2>1, <2>2, <2>4, SilentKeepsLedger
<1>5. ASSUME settings' = settings, W!ReportSuccess \/ W!ReportFailure PROVE Ledger'
  <2>1. /\ rows' = rows /\ published' = published
        /\ history' = history \/ \E failed : history' = [history EXCEPT !.unsaid = failed]
    BY <1>5 DEF W!ReportSuccess, W!ReportFailure, W!TellHealth
  <2>2. /\ history'.stored = history.stored /\ history'.purged = history.purged
        /\ history'.again = history.again /\ history'.lost = history.lost
    BY <2>1 DEF WorkShape
  <2>3. ~Telling
    BY <1>5 DEF W!ReportSuccess, W!ReportFailure, W!At, Telling
  <2>4. \/ work' = [stage |-> "item", todo |-> work.todo]
        \/ work' = [stage |-> "ended"] \/ work' = [stage |-> "backoff"]
    BY <1>5 DEF W!ReportSuccess, W!ReportFailure
  <2>5. ~Telling'
    BY <2>4 DEF Telling
  <2> QED BY <1>5, <2>1, <2>2, <2>3, <2>5, SilentKeepsLedger
<1> QED BY <1>1, <1>2, <1>3, <1>4, <1>5, PurgeKeepsLedger, InsertKeepsLedger, PublishKeepsLedger
        DEF W!Next, W!Step

LEMMA FailStage == ASSUME NEW message, W!Fail(message) PROVE work'.stage = "fail"
  BY DEF W!Fail

\* A step that does not take an item on keeps the table within its bounds and
\* the item where it was, or starts a new one.
LEMMA Elsewhere ==
    ASSUME WorkShape, [W!Next]_W!vars
    PROVE  \/ W!NormaliseUsdt \/ W!MarketTruth \/ W!StartRawLanding \/ W!InsertRow \/ W!Publish
           \/ /\ rows' \subseteq rows /\ raw \subseteq raw' /\ cache' = cache
              /\ \/ work' = work
                 \/ work'.stage \notin {"truth", "insert", "publish", "raw"}
                 \/ work'.stage = "raw" /\ work'.rate = None /\ work'.truth = None
<1>1. CASE UNCHANGED W!vars
  BY <1>1 DEF W!vars
<1>2. CASE W!Connect
  <2>1. work'.stage \in {"select", "fail"}
    BY <1>2 DEF W!Connect, W!Goto, W!Fail, WorkShape
  <2> QED BY <1>2, <2>1 DEF W!Connect
<1>3. CASE W!Item
  <2>1. rows' = rows /\ raw' = raw /\ cache' = cache
    BY <1>3 DEF W!Item
  <2> QED BY <1>3, <2>1, TakingUp
<1>6. CASE W!ReportSuccess \/ W!ReportFailure
  <2>1. rows' = rows /\ raw' = raw /\ cache' = cache
    BY <1>6 DEF W!ReportSuccess, W!ReportFailure
  <2>2. \/ work' = [stage |-> "item", todo |-> work.todo]
        \/ work' = [stage |-> "ended"] \/ work' = [stage |-> "backoff"]
    BY <1>6 DEF W!ReportSuccess, W!ReportFailure
  <2>3. work'.stage \in {"ended", "item", "backoff"}
    BY <2>2
  <2> QED BY <2>1, <2>3
<1>4. CASE \/ W!StaticError \/ W!StopSeen \/ W!Disconnect \/ W!Backoff
           \/ \E payload \in W!Feed : W!Receive(payload) \/ W!Poll(payload)
  <2>1. rows' = rows /\ raw' = raw /\ cache' = cache
    BY <1>4 DEF W!StaticError, W!StopSeen, W!Disconnect, W!Backoff, W!Receive, W!Poll, W!Deliver
  <2>2. work'.stage \in {"fail", "ended", "connect", "item"}
    BY <1>4 DEF W!StaticError, W!StopSeen, W!Disconnect, W!Backoff, W!Receive, W!Poll, W!Deliver,
                W!Fail
  <2> QED BY <2>1, <2>2
<1>5. CASE W!Stop \/ W!Tick \/ W!Purge \/ \E key \in deferred : W!FinishDeferred(key)
  <2>1. rows' \subseteq rows /\ raw \subseteq raw' /\ cache' = cache /\ work' = work
    BY <1>5 DEF W!Stop, W!Tick, W!Purge, W!FinishDeferred, W!WriteSourceEnvelope
  <2> QED BY <2>1
<1> QED BY <1>1, <1>2, <1>3, <1>4, <1>5, <1>6 DEF W!Next, W!Step

LEMMA LandedKeeps == ASSUME WorkShape, Landed, [W!Next]_W!vars PROVE Landed'
<1>1. W!RawRequired' = W!RawRequired
  BY DEF W!Next, W!vars, W!RawRequired
<1> SUFFICES ASSUME W!RawRequired
             PROVE  (\A r \in rows' : r.key \in raw') /\ (work'.stage = "insert" => work'.key \in raw')
  BY <1>1 DEF Landed
<1>2. (\A r \in rows : r.key \in raw) /\ (work.stage = "insert" => work.key \in raw)
  BY DEF Landed
<1>3. ASSUME rows' \subseteq rows, raw \subseteq raw', work' = work \/ work'.stage # "insert"
      PROVE  (\A r \in rows' : r.key \in raw') /\ (work'.stage = "insert" => work'.key \in raw')
  BY <1>2, <1>3
<1>4. CASE W!NormaliseUsdt
  <2>1. rows' = rows /\ raw' = raw /\ work'.stage # "insert"
    BY <1>4, NormalisedItem, FailStage DEF W!NormaliseUsdt
  <2> QED BY <1>3, <2>1
<1>5. CASE W!MarketTruth
  <2>1. rows' = rows /\ raw' = raw /\ work'.stage # "insert"
    BY <1>5, TruthTold, FailStage DEF W!MarketTruth
  <2> QED BY <1>3, <2>1
<1>6. CASE W!StartRawLanding
  <2>1. work.stage = "raw" /\ ItemShape /\ rows' = rows
    BY <1>6 DEF W!StartRawLanding, W!At, WorkShape, InHand
  <2>2. \/ work' = [work EXCEPT !.stage = "insert"] /\ raw' = raw \cup {work.key}
        \/ W!Fail("raw") /\ raw \subseteq raw'
    BY <1>6 DEF W!StartRawLanding, W!LandsRaw, W!WriteSourceEnvelope, W!Goto
  <2>3. CASE work' = [work EXCEPT !.stage = "insert"] /\ raw' = raw \cup {work.key}
    <3>1. work'.key = work.key
      BY <2>1, <2>3 DEF ItemShape, ItemFields
    <3> QED BY <1>2, <2>1, <2>3, <3>1
  <2>4. CASE W!Fail("raw") /\ raw \subseteq raw'
    <3>1. work'.stage = "fail"
      BY <2>4 DEF W!Fail
    <3> QED BY <1>3, <2>1, <2>4, <3>1
  <2> QED BY <2>2, <2>3, <2>4
<1>7. CASE W!InsertRow
  <2>1. work.stage = "insert" /\ raw' = raw
    BY <1>7, Inserting DEF W!InsertRow
  <2>2. \A r \in rows' : r.key \in raw'
    <3>1. ASSUME NEW tenant, W!Insert(tenant) PROVE \A r \in rows' : r.key \in raw'
      BY <1>2, <2>1, <3>1 DEF W!Insert, W!RowOf
    <3> QED BY <1>2, <1>7, <2>1, <3>1, Inserting
  <2>3. work'.stage = "insert" => work'.key = work.key
    <3>1. work' = [stage |-> "item", todo |-> work.todo] => work'.stage = "item"
      OBVIOUS
    <3> QED BY <1>7, <3>1, Inserting, FailStage DEF SameItem
  <2> QED BY <1>2, <2>1, <2>2, <2>3
<1>8. CASE W!Publish
  <2>1. rows' = rows /\ raw' = raw /\ work'.stage # "insert"
    BY <1>8, Publishing, FailStage DEF W!Publish
  <2> QED BY <1>3, <2>1
<1> QED BY <1>3, <1>4, <1>5, <1>6, <1>7, <1>8, Elsewhere

\* A rate is at most as old as the freshness of its lookup and the life of the
\* cache together.
LEMMA RateKeeps ==
    ASSUME WorkShape, CacheIsFresh, W!RateIsFresh, [W!Next]_W!vars
    PROVE  CacheIsFresh' /\ W!RateIsFresh'
<1>1. /\ W!FxFreshness' = W!FxFreshness /\ W!FxTTL' = W!FxTTL /\ now \in Nat
      /\ W!FxFreshness \in Nat /\ W!FxTTL \in Nat
  BY SettingFacts DEF W!Next, W!vars, W!FxFreshness, W!FxTTL, WorkShape
<1>2. ASSUME cache' = cache,
             \/ work' = work
             \/ work'.stage \notin {"truth", "raw", "insert", "publish"}
             \/ work'.rate = None
             \/ work.stage \in {"truth", "raw", "insert", "publish"} /\ work'.rate = work.rate
      PROVE  CacheIsFresh' /\ W!RateIsFresh'
  BY <1>1, <1>2 DEF CacheIsFresh, W!RateIsFresh
<1>3. CASE W!NormaliseUsdt
  <2>1. work.rate = None
    BY <1>3, NormalisedItem DEF ItemShape
  <2>2. ASSUME NEW quoted \in W!LatestUsdtQuotes, quoted # None,
               cache' = [quoted |-> quoted, at |-> now], work'.rate = W!Rate(quoted, 2)
        PROVE  CacheIsFresh' /\ W!RateIsFresh'
    <3>1. quoted \in Int /\ now - quoted <= W!FxFreshness
      BY <1>1, <2>2 DEF W!LatestUsdtQuotes
    <3>2. cache'.quoted = quoted /\ cache'.at = now /\ work'.rate.used = now /\ work'.rate.quoted = quoted
      BY <2>2 DEF W!Rate
    <3> QED BY <1>1, <3>1, <3>2 DEF CacheIsFresh, W!RateIsFresh
  <2>3. ASSUME W!CacheHit, work'.rate = W!Rate(cache.quoted, 2), cache' = cache
        PROVE  CacheIsFresh' /\ W!RateIsFresh'
    <3>1. cache # None /\ now - cache.at <= W!FxTTL
      BY <2>3 DEF W!CacheHit
    <3>2. work'.rate.used = now /\ work'.rate.quoted = cache.quoted
      BY <2>3 DEF W!Rate
    <3> QED BY <1>1, <2>3, <3>1, <3>2 DEF CacheIsFresh, W!RateIsFresh
  <2>4. ASSUME work'.rate = W!Rate(now, 1), cache' = cache PROVE CacheIsFresh' /\ W!RateIsFresh'
    <3>1. work'.rate.used = now /\ work'.rate.quoted = now
      BY <2>4 DEF W!Rate
    <3> QED BY <1>1, <2>4, <3>1 DEF CacheIsFresh, W!RateIsFresh
  <2>5. W!Fail("db") => work'.stage = "fail"
    BY DEF W!Fail
  <2> QED BY <1>2, <1>3, <2>1, <2>2, <2>3, <2>4, <2>5, NormalisedItem
<1>4. CASE W!MarketTruth
  <2>1. cache' = cache /\ (W!Fail("db") => work'.stage = "fail")
    BY <1>4, FailStage DEF W!MarketTruth
  <2> QED BY <1>2, <1>4, <2>1, TruthTold
<1>5. CASE W!StartRawLanding
  <2>1. work.stage = "raw" /\ ItemShape /\ cache' = cache
    BY <1>5 DEF W!StartRawLanding, W!At, WorkShape, InHand
  <2>2. work' = [work EXCEPT !.stage = "insert"] \/ W!Fail("raw")
    BY <1>5 DEF W!StartRawLanding, W!LandsRaw, W!Goto
  <2>3. work' = [work EXCEPT !.stage = "insert"] => work'.rate = work.rate
    BY <2>1 DEF ItemShape, ItemFields
  <2>4. W!Fail("raw") => work'.stage = "fail"
    BY DEF W!Fail
  <2> QED BY <1>2, <2>1, <2>2, <2>3, <2>4
<1>6. CASE W!InsertRow
  <2>1. cache' = cache /\ (W!Fail("db") => work'.stage = "fail")
    BY <1>6, FailStage DEF W!InsertRow
  <2>2. work' = [stage |-> "item", todo |-> work.todo] => work'.stage = "item"
    OBVIOUS
  <2> QED BY <1>2, <1>6, <2>1, <2>2, Inserting DEF SameItem
<1>7. CASE W!Publish
  <2>1. cache' = cache /\ (W!Fail("bus") => work'.stage = "fail")
    BY <1>7, FailStage DEF W!Publish
  <2> QED BY <1>2, <1>7, <2>1, Publishing DEF SameItem
<1> QED BY <1>2, <1>3, <1>4, <1>5, <1>6, <1>7, Elsewhere

\* A finite set of sources that is not empty has one with the highest price.
LEMMA HighestPrice ==
    ASSUME NEW prices, \A s \in DOMAIN prices : prices[s] \in Int,
           NEW Few \in FiniteSubsetsOf(DOMAIN prices), Few # {}
    PROVE  \E top \in Few : \A s \in Few : prices[s] <= prices[top]
<1> DEFINE D == DOMAIN prices
           Without == {T \in FiniteSubsetsOf(D) :
                        T # {} /\ ~\E top \in T : \A s \in T : prices[s] <= prices[top]}
<1> SUFFICES ASSUME Without # {} PROVE FALSE
  OBVIOUS
<1>1. PICK T \in Without : \A U \in Without : ~(<<U, T>> \in StrictSubsetOrdering(D))
  <2>1. Without \subseteq FiniteSubsetsOf(D)
    OBVIOUS
  <2> HIDE DEF Without
  <2> QED BY <2>1, FS_StrictSubsetOrderingWellFounded, WFMin, Zenon
<1>2. T \subseteq D /\ IsFiniteSet(T) /\ T # {}
  BY <1>1 DEF FiniteSubsetsOf
<1>3. PICK x \in T : TRUE
  BY <1>2
<1> DEFINE U == T \ {x}
<1>4. U \in FiniteSubsetsOf(D) /\ <<U, T>> \in StrictSubsetOrdering(D)
  BY <1>2, <1>3, FS_RemoveElement DEF FiniteSubsetsOf, StrictSubsetOrdering
<1>5. CASE U = {}
  <2>1. \A s \in T : prices[s] <= prices[x]
    BY <1>2, <1>5
  <2> QED BY <1>1, <2>1
<1>6. CASE U # {}
  <2>1. PICK top \in U : \A s \in U : prices[s] <= prices[top]
    BY <1>1, <1>4, <1>6
  <2>2. prices[top] \in Int /\ prices[x] \in Int /\ \A s \in T : prices[s] \in Int
    BY <1>2, <1>3, <2>1
  <2>3. \E m \in T : \A s \in T : prices[s] <= prices[m]
    <3>1. CASE prices[x] <= prices[top]
      BY <2>1, <2>2, <3>1
    <3>2. CASE prices[top] <= prices[x]
      BY <2>1, <2>2, <3>2
    <3> QED BY <2>2, <3>1, <3>2
  <2> QED BY <1>1, <2>3
<1> QED BY <1>5, <1>6

Ordered(prices, Few, sources) ==
    /\ sources \in [1 .. Cardinality(Few) -> Few]
    /\ \A s \in Few : \E i \in 1 .. Cardinality(Few) : sources[i] = s
    /\ \A i, j \in 1 .. Cardinality(Few) : i <= j => prices[sources[i]] <= prices[sources[j]]

\* Every finite set of sources can be put in the order of their prices.
LEMMA OrderedSources ==
    ASSUME NEW prices, \A s \in DOMAIN prices : prices[s] \in Int,
           NEW Few \in FiniteSubsetsOf(DOMAIN prices)
    PROVE  \E sources : Ordered(prices, Few, sources)
<1> DEFINE D == DOMAIN prices
           Without == {T \in FiniteSubsetsOf(D) : ~\E sources : Ordered(prices, T, sources)}
<1> SUFFICES ASSUME Without # {} PROVE FALSE
  OBVIOUS
<1>1. PICK T \in Without : \A U \in Without : ~(<<U, T>> \in StrictSubsetOrdering(D))
  <2>1. Without \subseteq FiniteSubsetsOf(D)
    OBVIOUS
  <2> HIDE DEF Without
  <2> QED BY <2>1, FS_StrictSubsetOrderingWellFounded, WFMin, Zenon
<1>2. T \subseteq D /\ IsFiniteSet(T) /\ T \in FiniteSubsetsOf(D)
  BY <1>1 DEF FiniteSubsetsOf
<1>3. CASE T = {}
  <2>1. Ordered(prices, T, <<>>)
    <3>1. Cardinality(T) = 0
      BY <1>3, FS_EmptySet
    <3> QED BY <1>3, <3>1 DEF Ordered
  <2> QED BY <1>1, <2>1
<1>4. CASE T # {}
  <2>1. PICK top \in T : \A s \in T : prices[s] <= prices[top]
    BY <1>2, <1>4, HighestPrice
  <2> DEFINE U == T \ {top}
             n == Cardinality(T)
  <2>2. /\ U \in FiniteSubsetsOf(D) /\ <<U, T>> \in StrictSubsetOrdering(D)
        /\ Cardinality(U) = n - 1 /\ n \in Nat /\ Cardinality(U) \in Nat
    BY <1>2, <2>1, FS_RemoveElement, FS_CardinalityType DEF FiniteSubsetsOf, StrictSubsetOrdering
  <2>3. PICK e : Ordered(prices, U, e)
    BY <1>1, <2>2
  <2> DEFINE sources == [i \in 1 .. n |-> IF i = n THEN top ELSE e[i]]
  <2>4. \A i \in 1 .. n : i = n \/ i \in 1 .. Cardinality(U)
    BY <2>2
  <2>5. /\ \A i \in 1 .. Cardinality(U) : e[i] \in U
        /\ \A s \in U : \E i \in 1 .. Cardinality(U) : e[i] = s
        /\ \A i, j \in 1 .. Cardinality(U) : i <= j => prices[e[i]] <= prices[e[j]]
    BY <2>3 DEF Ordered
  <2> HIDE DEF U, n
  <2>6. sources \in [1 .. n -> T]
    BY <2>1, <2>4, <2>5 DEF U
  <2>7. ASSUME NEW s \in T PROVE \E i \in 1 .. n : sources[i] = s
    <3>1. CASE s = top
      <4>1. n \in 1 .. n
        BY <2>2
      <4> QED BY <3>1, <4>1
    <3>2. CASE s # top
      <4>1. PICK i \in 1 .. Cardinality(U) : e[i] = s
        BY <2>5, <3>2 DEF U
      <4>2. i \in 1 .. n /\ i # n
        BY <2>2, <4>1
      <4> QED BY <4>1, <4>2
    <3> QED BY <3>1, <3>2
  <2>8. ASSUME NEW i \in 1 .. n, NEW j \in 1 .. n, i <= j
        PROVE  prices[sources[i]] <= prices[sources[j]]
    <3>1. CASE j = n
      BY <2>1, <2>6, <3>1
    <3>2. CASE j # n
      <4>1. i # n /\ i \in 1 .. Cardinality(U) /\ j \in 1 .. Cardinality(U)
        BY <2>2, <2>4, <2>8, <3>2
      <4> QED BY <2>5, <2>8, <3>2, <4>1
    <3> QED BY <3>1, <3>2
  <2>9. Ordered(prices, T, sources)
    BY <2>6, <2>7, <2>8 DEF Ordered, n
  <2> QED BY <1>1, <2>9
<1> QED BY <1>3, <1>4

\* What ByPrice returns: as many sources as there are, in the order of their prices.
LEMMA ByPriceOrders ==
    ASSUME NEW prices, IsFiniteSet(DOMAIN prices), \A s \in DOMAIN prices : prices[s] \in Int
    PROVE  LET n == Cardinality(DOMAIN prices)
           IN  /\ n \in Nat /\ W!ByPrice(prices) \in [1 .. n -> DOMAIN prices]
               /\ \A i, j \in 1 .. n :
                    i <= j => prices[W!ByPrice(prices)[i]] <= prices[W!ByPrice(prices)[j]]
<1> DEFINE D == DOMAIN prices
           Sorted(e) == /\ \A s \in D : \E i \in 1 .. Cardinality(D) : e[i] = s
                        /\ \A i, j \in 1 .. Cardinality(D) : i <= j => prices[e[i]] <= prices[e[j]]
<1>1. D \in FiniteSubsetsOf(D) /\ Cardinality(D) \in Nat
  BY FS_CardinalityType DEF FiniteSubsetsOf
<1>2. \E e \in [1 .. Cardinality(D) -> D] : Sorted(e)
  BY <1>1, OrderedSources DEF Ordered
<1>3. W!Cardinality(D) = Cardinality(D)
  BY DEF W!Cardinality, Cardinality
<1>4. W!ByPrice(prices) = CHOOSE e \in [1 .. Cardinality(D) -> D] : Sorted(e)
  BY <1>3 DEF W!ByPrice
<1>5. W!ByPrice(prices) \in [1 .. Cardinality(D) -> D] /\ Sorted(W!ByPrice(prices))
  <2> HIDE DEF Sorted
  <2> QED BY <1>2, <1>4
<1> QED BY <1>1, <1>5

\* At most half of the prices are below their median and at most half above it.
LEMMA MedianCentral ==
    ASSUME NEW prices, IsFiniteSet(DOMAIN prices), \A s \in DOMAIN prices : prices[s] \in Int,
           DOMAIN prices # {}
    PROVE  LET truth == W!Truth(prices)
               n     == Len(truth.prices)
               below == {i \in 1 .. n : 2 * truth.prices[i] < truth.twice}
               above == {i \in 1 .. n : 2 * truth.prices[i] > truth.twice}
           IN  2 * W!Cardinality(below) <= n /\ 2 * W!Cardinality(above) <= n
<1> DEFINE n == Cardinality(DOMAIN prices)
           by == W!ByPrice(prices)
           sorted == [i \in DOMAIN by |-> prices[by[i]]]
<1>1. /\ n \in Nat /\ by \in [1 .. n -> DOMAIN prices]
      /\ \A i, j \in 1 .. n : i <= j => prices[by[i]] <= prices[by[j]]
  BY ByPriceOrders
<1>2. n >= 1
  BY <1>1, FS_EmptySet
<1> HIDE DEF n, by
<1>3. /\ sorted \in [1 .. n -> Int]
      /\ \A i, j \in 1 .. n : i <= j => sorted[i] <= sorted[j]
  BY <1>1
<1>4. /\ W!Truth(prices).prices = sorted
      /\ W!Truth(prices).twice = W!TwiceMedian(sorted)
  BY DEF W!Truth, by
<1> HIDE DEF sorted
<1>5. sorted \in Seq(Int) /\ Len(sorted) = n
  BY <1>1, <1>3
<1> DEFINE twice == W!TwiceMedian(sorted)
           below == {i \in 1 .. n : 2 * sorted[i] < twice}
           above == {i \in 1 .. n : 2 * sorted[i] > twice}
           h == n \div 2
<1>6. h \in Nat /\ (IF n % 2 = 0 THEN n = 2 * h ELSE n = 2 * h + 1)
  BY <1>1
<1>7. twice = IF n % 2 = 0 THEN sorted[h] + sorted[h + 1] ELSE 2 * sorted[h + 1]
  BY <1>5 DEF W!TwiceMedian
<1> HIDE DEF h, twice
<1>8. h + 1 \in 1 .. n /\ (n % 2 = 0 => h \in 1 .. n)
  BY <1>1, <1>2, <1>6
<1>9. below \subseteq 1 .. h
  <2> SUFFICES ASSUME NEW i \in 1 .. n, 2 * sorted[i] < twice, i > h PROVE FALSE
    BY <1>1, <1>6
  <2>1. h + 1 <= i /\ sorted[h + 1] <= sorted[i] /\ sorted[i] \in Int /\ sorted[h + 1] \in Int
    BY <1>3, <1>6, <1>8
  <2>2. CASE n % 2 = 0
    <3>1. sorted[h] <= sorted[h + 1] /\ sorted[h] \in Int
      BY <1>3, <1>6, <1>8, <2>2
    <3> QED BY <1>7, <2>1, <2>2, <3>1
  <2>3. CASE n % 2 # 0
    BY <1>7, <2>1, <2>3
  <2> QED BY <2>2, <2>3
<1>10. above \subseteq n - h + 1 .. n
  <2> SUFFICES ASSUME NEW i \in 1 .. n, 2 * sorted[i] > twice, i <= n - h PROVE FALSE
    BY <1>1, <1>6
  <2>1. i <= h + 1 /\ sorted[i] <= sorted[h + 1] /\ sorted[i] \in Int /\ sorted[h + 1] \in Int
    BY <1>3, <1>6, <1>8
  <2>2. CASE n % 2 = 0
    <3>1. i <= h /\ sorted[i] <= sorted[h] /\ sorted[h] \in Int
      BY <1>3, <1>6, <1>8, <2>2
    <3> QED BY <1>7, <2>1, <2>2, <3>1
  <2>3. CASE n % 2 # 0
    BY <1>7, <2>1, <2>3
  <2> QED BY <2>2, <2>3
<1>11. /\ Cardinality(below) <= h /\ Cardinality(below) \in Nat
       /\ Cardinality(above) <= h /\ Cardinality(above) \in Nat
  <2>1. IsFiniteSet(1 .. h) /\ Cardinality(1 .. h) = h
    <3>1. h \in Int /\ 1 \in Int /\ h >= 0
      BY <1>6
    <3>2. IsFiniteSet(1 .. h) /\ Cardinality(1 .. h) = IF 1 > h THEN 0 ELSE h - 1 + 1
      BY <3>1, FS_Interval
    <3> QED BY <3>1, <3>2
  <2>2. IsFiniteSet(n - h + 1 .. n) /\ Cardinality(n - h + 1 .. n) = h
    <3>1. n - h + 1 \in Int /\ n \in Int /\ h \in Int /\ h >= 0
      BY <1>1, <1>6
    <3>2. /\ IsFiniteSet(n - h + 1 .. n)
          /\ Cardinality(n - h + 1 .. n) = IF n - h + 1 > n THEN 0 ELSE n - (n - h + 1) + 1
      BY <3>1, FS_Interval
    <3> QED BY <3>1, <3>2
  <2> HIDE DEF below, above
  <2>3. Cardinality(below) <= h /\ Cardinality(below) \in Nat
    BY <1>9, <2>1, FS_Subset, FS_CardinalityType
  <2>4. Cardinality(above) <= h /\ Cardinality(above) \in Nat
    BY <1>10, <2>2, FS_Subset, FS_CardinalityType
  <2> QED BY <2>3, <2>4
<1>12. W!Cardinality(below) = Cardinality(below) /\ W!Cardinality(above) = Cardinality(above)
  BY DEF W!Cardinality, Cardinality
<1> HIDE DEF below, above
<1>13. 2 * W!Cardinality(below) <= n /\ 2 * W!Cardinality(above) <= n
  BY <1>1, <1>6, <1>11, <1>12
<1> QED BY <1>4, <1>5, <1>13 DEF below, above, twice

LEMMA MedianKeeps ==
    ASSUME WorkShape, W!MedianIsCentral, [W!Next]_W!vars PROVE W!MedianIsCentral'
<1>1. ASSUME work' = work \/ work'.stage # "raw" \/ work'.truth = None PROVE W!MedianIsCentral'
  BY <1>1 DEF W!MedianIsCentral
<1>2. CASE W!MarketTruth
  <2>1. work.truth = None /\ work.price \in Nat
    BY <1>2, TruthTold DEF ItemShape
  <2>2. ASSUME NEW others \in W!OtherPrices,
               work'.truth = W!Truth([s \in DOMAIN others \cup {"self"} |->
                                        IF s = "self" THEN work.price ELSE others[s]])
        PROVE  W!MedianIsCentral'
    <3> DEFINE prices == [s \in DOMAIN others \cup {"self"} |->
                            IF s = "self" THEN work.price ELSE others[s]]
    <3>1. IsFiniteSet(DOMAIN others) /\ \A s \in DOMAIN others : others[s] \in Nat
      BY StreamSettings DEF WorkShape, W!OtherPrices
    <3>2. /\ IsFiniteSet(DOMAIN prices) /\ DOMAIN prices # {}
          /\ \A s \in DOMAIN prices : prices[s] \in Int
      BY <2>1, <3>1, FS_AddElement
    <3>3. work'.truth = W!Truth(prices)
      BY <2>2
    <3> HIDE DEF prices
    <3> QED BY <3>2, <3>3, MedianCentral DEF W!MedianIsCentral
  <2> QED BY <1>1, <1>2, <2>1, <2>2, TruthTold, FailStage
<1>3. CASE W!NormaliseUsdt
  <2>1. work'.stage # "raw"
    BY <1>3, NormalisedItem, FailStage
  <2> QED BY <1>1, <2>1
<1>4. CASE W!StartRawLanding
  <2>1. work.stage = "raw" /\ ItemShape
    BY <1>4 DEF W!StartRawLanding, W!At, WorkShape, InHand
  <2>2. work' = [work EXCEPT !.stage = "insert"] \/ W!Fail("raw")
    BY <1>4 DEF W!StartRawLanding, W!LandsRaw, W!Goto
  <2>3. work'.stage # "raw"
    BY <2>1, <2>2, FailStage DEF ItemShape, ItemFields
  <2> QED BY <1>1, <2>3
<1>5. CASE W!InsertRow
  <2>1. work' = [stage |-> "item", todo |-> work.todo] => work'.stage = "item"
    OBVIOUS
  <2> QED BY <1>1, <1>5, <2>1, Inserting, FailStage
<1>6. CASE W!Publish
  BY <1>1, <1>6, Publishing, FailStage
<1> QED BY <1>1, <1>2, <1>3, <1>4, <1>5, <1>6, Elsewhere

\* What the worker remembers to have reported is what it wrote, for every tenant.
LEMMA HealthKeeps ==
    ASSUME WorkShape, W!HealthIsLastReport, [W!Next]_W!vars PROVE W!HealthIsLastReport'
<1>1. W!Tenants' = W!Tenants /\ W!Live' = W!Live
  BY DEF W!Next, W!vars, W!Tenants, W!Targets, W!Live
<1>2. ASSUME report' = report, health' = health, history'.unsaid = history.unsaid
      PROVE  W!HealthIsLastReport'
  BY <1>1, <1>2 DEF W!HealthIsLastReport
<1>3. ASSUME NEW healthy \in BOOLEAN, NEW failed, W!TellHealth(healthy, failed), report'.healthy = healthy
      PROVE  W!HealthIsLastReport'
  <2>1. /\ history'.unsaid = failed
        /\ \A t \in W!Tenants \ failed : health'[t] = healthy
    BY <1>3 DEF W!TellHealth, WorkShape
  <2> QED BY <1>1, <1>3, <2>1 DEF W!HealthIsLastReport
<1>4. CASE W!ReportSuccess
  <2>1. ASSUME NEW failed, W!TellHealth(TRUE, failed), report' = W!SuccessReport PROVE W!HealthIsLastReport'
    <3>1. report'.healthy = TRUE
      BY <2>1 DEF W!SuccessReport
    <3> QED BY <1>3, <2>1, <3>1
  <2> QED BY <1>2, <1>4, <2>1 DEF W!ReportSuccess
<1>5. CASE W!ReportFailure
  <2>1. ASSUME NEW failed, W!TellHealth(FALSE, failed),
               report' = [report EXCEPT !.healthy = FALSE, !.failure = now, !.message = work.message]
        PROVE  W!HealthIsLastReport'
    <3>1. report'.healthy = FALSE
      BY <2>1 DEF WorkShape
    <3> QED BY <1>3, <2>1, <3>1
  <2> QED BY <1>2, <1>5, <2>1 DEF W!ReportFailure
<1>6. CASE \/ W!Connect \/ W!StaticError \/ W!Item \/ W!NormaliseUsdt \/ W!MarketTruth
           \/ W!StartRawLanding \/ W!Backoff \/ W!StopSeen \/ W!Disconnect \/ W!Stop \/ W!Tick
           \/ (\E payload \in W!Feed : W!Receive(payload) \/ W!Poll(payload))
           \/ (\E key \in deferred : W!FinishDeferred(key)) \/ UNCHANGED W!vars
  <2>1. report' = report /\ health' = health /\ history' = history
    BY <1>6 DEF W!Connect, W!StaticError, W!Item, W!NormaliseUsdt, W!MarketTruth,
                W!StartRawLanding, W!Backoff, W!StopSeen, W!Disconnect, W!Stop, W!Tick,
                W!Receive, W!Poll, W!Deliver, W!FinishDeferred, W!vars
  <2> QED BY <1>2, <2>1
<1>7. CASE W!InsertRow \/ W!Publish \/ W!Purge
  <2>1. report' = report /\ health' = health
    BY <1>7 DEF W!InsertRow, W!Publish, W!Purge
  <2>2. CASE W!InsertRow
    <3>1. history'.unsaid = history.unsaid
      BY <2>2, Inserting DEF W!Insert, WorkShape
    <3> QED BY <1>2, <2>1, <3>1
  <2>3. CASE W!Publish
    <3>1. history'.unsaid = history.unsaid
      BY <2>3, Publishing DEF WorkShape
    <3> QED BY <1>2, <2>1, <3>1
  <2>4. CASE W!Purge
    <3>1. history'.unsaid = history.unsaid
      BY <2>4 DEF W!Purge, WorkShape
    <3> QED BY <1>2, <2>1, <3>1
  <2> QED BY <1>7, <2>2, <2>3, <2>4
<1> QED BY <1>4, <1>5, <1>6, <1>7 DEF W!Next, W!Step

LEMMA WorkerBegins == W!Init => WorkerInv
<1> SUFFICES ASSUME W!Init PROVE WorkerInv
  OBVIOUS
<1>1. WorkShape
  BY DEF W!Init, W!HistoryInit, WorkShape, W!Stages, InHand
<1>2. Ledger /\ Landed
  BY DEF W!Init, W!HistoryInit, Ledger, Landed, Telling, W!PublishedIsStored, W!NoDoublePublish
<1>3. CacheIsFresh /\ W!RateIsFresh /\ W!MedianIsCentral /\ W!HealthIsLastReport
  BY DEF W!Init, CacheIsFresh, W!RateIsFresh, W!MedianIsCentral, W!HealthIsLastReport
<1> QED BY <1>1, <1>2, <1>3 DEF WorkerInv

LEMMA WorkerSteps == WorkerInv /\ [W!Next]_W!vars => WorkerInv'
  BY ShapeKeeps, LedgerKeeps, LandedKeeps, RateKeeps, MedianKeeps, HealthKeeps DEF WorkerInv

LEMMA WorkerSuffices ==
    WorkerInv => W!RawBeforeRow /\ W!PublishedIsStored /\ W!NoDoublePublish /\ W!StoredIsPublished
  BY DEF WorkerInv, Ledger, Landed, Telling, W!RawBeforeRow, W!StoredIsPublished

-----------------------------------------------------------------------------
(* The run. *)

\* A behaviour is that of one part, whose variables no other step touches.
LEMMA OnePart ==
    ASSUME [Next]_vars
    PROVE  /\ part' = part
           /\ part = "websocket" => [K!Next]_K!vars
           /\ part = "logs" => [L!Next]_L!vars
           /\ part = "supervisor" => [S!Next]_S!vars
           /\ part = "worker" => [W!Next]_W!vars
  BY DEF Next, vars, OfSupervisor, OfWorker, supervisorVars, workerVars, websocketVars, logsVars,
         K!vars, L!vars, S!vars, W!vars

LEMMA InitOfPart ==
    ASSUME Init
    PROVE  /\ part = "websocket" => K!Init
           /\ part = "logs" => L!Init
           /\ part = "supervisor" => S!Init
           /\ part = "worker" => W!Init
  BY DEF Init, SupervisorInit, WorkerInit, ConnectorInit

\* A stream never has two workers at once, none runs that the supervisor has no
\* handle of, and a reconcile that nothing disturbs leaves the workers that the
\* catalog asks for: whatever is edited, fails or ends while it reads the rows.
THEOREM WorkersFollowCatalogHolds == Spec => []WorkersFollowCatalog
<1> DEFINE Inv == part = "supervisor" => SupervisorInv
<1>1. Init => Inv
  BY InitOfPart, SupervisorBegins
<1>2. Inv /\ [Next]_vars => Inv'
  BY OnePart, SupervisorSteps
<1>3. Inv => WorkersFollowCatalog
  BY SupervisorSuffices DEF WorkersFollowCatalog
<1> QED BY <1>1, <1>2, <1>3, PTL DEF Spec

\* Where a ping and a timeout are configured, and the timeout and a read end
\* before the next ping, a connection whose peer fell silent is given up within
\* them, whatever was read, sent and answered before.  While a connection of logs
\* lasts, no block below the cursor is missed that lay MaxLag or more below the
\* head when it was asked for, also when one node tells the head and another,
\* behind it, gives the logs, or the head is taken back.
THEOREM ConnectionKeepsUpHolds == Spec => []ConnectionKeepsUp
<1> DEFINE Inv == /\ part = "websocket" => HeartbeatInv
                  /\ part = "logs" => CursorInv
<1>1. Init => Inv
  BY InitOfPart, HeartbeatFacts, CursorFacts
<1>2. Inv /\ [Next]_vars => Inv'
  BY OnePart, HeartbeatFacts, CursorFacts
<1>3. Inv => ConnectionKeepsUp
  BY HeartbeatFacts DEF ConnectionKeepsUp, CursorInv
<1> QED BY <1>1, <1>2, <1>3, PTL DEF Spec

\* Whatever the provider delivers, again and again, and whatever fails, between
\* the rows of two tenants or between their events: an event is published after
\* its row, whose required raw record came before, to no tenant twice unless the
\* purge made the table forget it, and to every tenant unless it failed on the way.
THEOREM PublishedOnceHolds == Spec => []PublishedOnce
<1> DEFINE Inv == part = "worker" => WorkerInv
<1>1. Init => Inv
  BY InitOfPart, WorkerBegins
<1>2. Inv /\ [Next]_vars => Inv'
  BY OnePart, WorkerSteps
<1>3. Inv => PublishedOnce
  BY WorkerSuffices DEF PublishedOnce
<1> QED BY <1>1, <1>2, <1>3, PTL DEF Spec

\* For any prices of any number of sources the truth of a market is a median of
\* theirs; a price is normalised with a rate whose age is bounded by the freshness
\* of its lookup and the life of the cache together, however often the cache hits;
\* and a tenant sees the health last reported, unless that write failed.
THEOREM ReportIsFoundedHolds == Spec => []ReportIsFounded
<1> DEFINE Inv == part = "worker" => WorkerInv
<1>1. Init => Inv
  BY InitOfPart, WorkerBegins
<1>2. Inv /\ [Next]_vars => Inv'
  BY OnePart, WorkerSteps
<1>3. Inv => ReportIsFounded
  BY DEF WorkerInv, ReportIsFounded
<1> QED BY <1>1, <1>2, <1>3, PTL DEF Spec
=============================================================================
