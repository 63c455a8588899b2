------------------------------ MODULE Detector ------------------------------
(***************************************************************************)
(* The detectors, apps/detector/src/main.rs and patterns/mod.rs, on the    *)
(* stream of unified events, crates/state-manager/src/lib.rs: processes of *)
(* one consumer group read batches, run every pattern on every event, save *)
(* and publish what the patterns detect, and acknowledge.                  *)
(*                                                                         *)
(* The loop is a select!: the group read is one of its branches, and when  *)
(* another branch is ready first the read is dropped, with what Redis may  *)
(* have delivered to it.  A read needs several turns of the event loop: to *)
(* connect, to send XREADGROUP, to get the reply.  What a pattern decides  *)
(* is a choice here (Depeg, Utilization, TvlDrop, FlashLoan, GenericRule); *)
(* the copy of the event into the raw table is left out: nobody here reads *)
(* it, and its errors are only logged.                                     *)
(***************************************************************************)
EXTENDS Integers, FiniteSets, FiniteSetsExt

CONSTANTS
    Detectors,     \* processes of the group
    Patterns,      \* how many patterns the registry has
    Kinds,         \* entries: "ok", "bad" (does not deserialise), "empty" (no payload)
    MaxLen,        \* MAXLEN of the stream
    BatchSize,     \* STREAM_BATCH_SIZE
    MaxEntries,    \* bound: entries published
    MaxConfig,     \* bound: versions of the pattern configuration
    MaxCommands,   \* bound: reload requests
    MaxFaults      \* bound: calls that fail, and crashes

VARIABLES
    stream,        \* the entries that Redis keeps, with growing ids
    given,         \* the last id delivered to the group
    pending,       \* the pending entries of each consumer
    config,        \* the version of tenant_pattern_configs
    loaded,        \* the version each process has
    due,           \* the reload ticker of each process is ready
    rested,        \* the last read of each process has ended since the last tick
    commands,      \* reload requests in the channel of each process
    closed,        \* the health server of each process, which sends them, has ended
    proc,          \* where each process is
    count,         \* published entries and faults
    seen,          \* for the properties: <<entry, pattern>> dispatched
    begun,         \* for the properties: how often an entry was taken up
    hits,          \* for the properties: <<entry, pattern, "hit" | "saved" | "sent" | "unsent">>
    lost           \* for the properties: entries trimmed, or delivered to nobody

streamVars == <<stream, given, pending>>
history == <<seen, begun, hits, lost>>
vars == <<streamVars, config, loaded, due, rested, commands, closed, proc, count, history>>

New == [at |-> "new", batch |-> {}, pattern |-> 1]

Init ==
    /\ stream = {} /\ given = 0 /\ pending = [d \in Detectors |-> {}]
    /\ config = 1 /\ loaded = [d \in Detectors |-> 1]
    /\ due = [d \in Detectors |-> FALSE] /\ rested = [d \in Detectors |-> TRUE]
    /\ commands = [d \in Detectors |-> 0] /\ closed = [d \in Detectors |-> FALSE]
    /\ proc = [d \in Detectors |-> New]
    /\ count = [published |-> 0, commands |-> 0, faults |-> 0]
    /\ seen = {} /\ begun = [e \in 1 .. MaxEntries |-> 0] /\ hits = {} /\ lost = {}

\* A batch in hand, or the next turn of the loop.
Handling(batch) == IF batch = {} THEN New ELSE [at |-> "begin", batch |-> batch, pattern |-> 1]

Ids(entries) == {x.id : x \in entries}

Fault == count.faults < MaxFaults /\ count' = [count EXCEPT !.faults = @ + 1]
\* A call that may fail: ok says whether it does not.
May(ok) == IF ok THEN count' = count ELSE Fault

At(d, place) == proc[d].at = place
Goto(d, place) == proc' = [proc EXCEPT ![d].at = place]

-----------------------------------------------------------------------------
\* The stream.

\* publish_raw_json: XADD, which may trim down to MAXLEN, read or not.
Publish(kind) ==
    /\ count.published < MaxEntries
    /\ LET id  == count.published + 1
           all == stream \cup {[id |-> id, kind |-> kind]}
       IN  \E cut \in 0 .. count.published :
             /\ stream' = {x \in all : x.id > cut}
             /\ cut = 0 \/ Cardinality(stream') >= MaxLen
             /\ lost' = lost \cup {e \in Ids(all) : given < e /\ e <= cut}
    /\ count' = [count EXCEPT !.published = @ + 1]
    /\ UNCHANGED <<given, pending, config, loaded, due, rested, commands, closed, proc, seen, begun, hits>>

\* Mutant: what a consumer has pending is delivered to it again.
PendingToo(d) == {x \in stream : x.id > given \/ x.id \in pending[d]}

\* XREADGROUP with ">": only what no consumer of the group has had.
Undelivered(d) == {x \in stream : x.id > given}

\* COUNT: the oldest of them.
ReplyFor(d) ==
    {x \in Undelivered(d) : Cardinality({y \in Undelivered(d) : y.id <= x.id}) <= BatchSize}

\* Redis hands a batch to a consumer, which has it pending from now on.
DeliverTo(d, reply) ==
    /\ reply # {}
    /\ given' = Max({given} \cup Ids(reply))
    /\ pending' = [pending EXCEPT ![d] = @ \cup Ids(reply)]

-----------------------------------------------------------------------------
\* The select loop.

\* command_rx.recv() is ready: a request, or the channel is closed.  (The
\* listener for notifications never gets its LISTEN through, as the one of
\* StreamSupervisor, so its branch is never ready.)
CommandReady(d) == commands[d] > 0 \/ closed[d]
OtherReady(d) == due[d] \/ CommandReady(d)

Reading == {"new", "connecting", "waiting"}

\* The read makes progress, in a turn in which no branch is ready.
Advance(d) ==
    /\ proc[d].at \in {"new", "connecting"} /\ ~OtherReady(d)
    /\ Goto(d, IF At(d, "new") THEN "connecting" ELSE "waiting")
    /\ UNCHANGED <<streamVars, config, loaded, due, rested, commands, closed, count, history>>

\* Another branch is ready and the read is dropped: Redis may have delivered
\* a batch to it, or still do so.
DropRead(d) ==
    /\ proc' = [proc EXCEPT ![d] = New]
    /\ UNCHANGED <<stream, seen, begun, hits>>
    /\ \/ UNCHANGED <<given, pending, lost>>
       \/ /\ At(d, "waiting") /\ DeliverTo(d, ReplyFor(d)) /\ lost' = lost \cup Ids(ReplyFor(d))

\* The rows of all tenants, in one query.
LoadTenantPatternConfigs == config

\* Mutant: the reload keeps what is loaded.
KeepConfig(d) == loaded[d]

LoadConfig(d) == LoadTenantPatternConfigs

\* reload_pattern_configs; when the query fails the patterns keep what they have.
Reload(d, ok) == May(ok) /\ loaded' = IF ok THEN [loaded EXCEPT ![d] = LoadConfig(d)] ELSE loaded

Tick(d, ok) ==
    /\ proc[d].at \in Reading /\ due[d]
    /\ due' = [due EXCEPT ![d] = FALSE] /\ Reload(d, ok) /\ DropRead(d)
    /\ UNCHANGED <<config, rested, commands, closed>>

Command(d, ok) ==
    /\ proc[d].at \in Reading /\ commands[d] > 0
    /\ commands' = [commands EXCEPT ![d] = @ - 1] /\ Reload(d, ok) /\ DropRead(d)
    /\ UNCHANGED <<config, due, rested, closed>>

\* The channel is closed: a warning, and the next turn finds it closed again.
CommandClosed(d) ==
    /\ proc[d].at \in Reading /\ closed[d] /\ commands[d] = 0
    /\ rested' = [rested EXCEPT ![d] = TRUE] /\ DropRead(d)
    /\ UNCHANGED <<config, loaded, due, commands, closed, count>>

\* The group read returns: nothing within the time, or a batch, from which
\* entries without payload are left out.  One entry that does not deserialise
\* fails the read of all of them.
Reply(d) ==
    /\ At(d, "waiting") /\ rested' = [rested EXCEPT ![d] = TRUE]
    /\ LET reply == ReplyFor(d)
           fails == \E x \in reply : x.kind = "bad"
           batch == IF fails THEN {} ELSE Ids({x \in reply : x.kind = "ok"})
       IN  /\ IF reply = {} THEN UNCHANGED <<given, pending>> ELSE DeliverTo(d, reply)
           /\ proc' = [proc EXCEPT ![d] = Handling(batch)]
           /\ lost' = lost \cup (Ids(reply) \ batch)
    /\ UNCHANGED <<stream, config, loaded, due, commands, closed, count, seen, begun, hits>>

\* The connection fails, before or after Redis has delivered.
ReadFails(d) ==
    /\ proc[d].at \in {"connecting", "waiting"} /\ Fault
    /\ rested' = [rested EXCEPT ![d] = TRUE] /\ DropRead(d)
    /\ UNCHANGED <<config, loaded, due, commands, closed>>

\* interval(30 s): a read, which blocks for 2 s, ends between two ticks.
Timer(d) ==
    /\ ~At(d, "down") /\ rested[d] /\ ~due[d]
    /\ due' = [due EXCEPT ![d] = TRUE] /\ rested' = [rested EXCEPT ![d] = FALSE]
    /\ UNCHANGED <<streamVars, config, loaded, commands, closed, proc, count, history>>

\* POST /reload.
RequestReload(d) ==
    /\ ~closed[d] /\ ~At(d, "down") /\ count.commands < MaxCommands
    /\ commands' = [commands EXCEPT ![d] = @ + 1]
    /\ count' = [count EXCEPT !.commands = @ + 1]
    /\ UNCHANGED <<streamVars, config, loaded, due, rested, closed, proc, history>>

\* The health server ends, on an error of bind or accept (or was never started,
\* with HEALTH_CHECK_ENABLED=false), and with it the channel.
ServerEnds(d) ==
    /\ ~closed[d] /\ ~At(d, "down") /\ Fault
    /\ closed' = [closed EXCEPT ![d] = TRUE]
    /\ UNCHANGED <<streamVars, config, loaded, due, rested, commands, proc, history>>

ChangeConfig ==
    /\ config < MaxConfig /\ config' = config + 1
    /\ UNCHANGED <<streamVars, loaded, due, rested, commands, closed, proc, count, history>>

-----------------------------------------------------------------------------
\* PatternRegistry::process_event, and the acknowledgement.

\* The entries of a batch are handled in their order.
Entry(d) == Min(proc[d].batch)
Hit(d, what) == <<Entry(d), proc[d].pattern, what>>

Begin(d) ==
    /\ At(d, "begin") /\ Goto(d, "pattern")
    /\ begun' = [begun EXCEPT ![Entry(d)] = @ + 1]
    /\ UNCHANGED <<streamVars, config, loaded, due, rested, commands, closed, count, seen, hits, lost>>

\* The next pattern, or the acknowledgement.
NextPattern(d) ==
    IF proc[d].pattern = Patterns THEN [proc[d] EXCEPT !.at = "ack", !.pattern = 1]
    ELSE [proc[d] EXCEPT !.at = "pattern", !.pattern = @ + 1]

\* Mutant: the error of a pattern ends the event.
ErrorEnds(d) == [proc[d] EXCEPT !.at = "ack", !.pattern = 1]

\* An error of a pattern is logged.
AfterError(d) == NextPattern(d)

Evaluate(d, result) ==
    /\ At(d, "pattern") /\ seen' = seen \cup {<<Entry(d), proc[d].pattern>>}
    /\ \/ result = "none" /\ proc' = [proc EXCEPT ![d] = NextPattern(d)] /\ UNCHANGED <<count, hits>>
       \/ result = "hit" /\ hits' = hits \cup {Hit(d, "hit")}
          /\ Goto(d, "save") /\ UNCHANGED count
       \/ result = "error" /\ Fault /\ proc' = [proc EXCEPT ![d] = AfterError(d)] /\ UNCHANGED hits
    /\ UNCHANGED <<streamVars, config, loaded, due, rested, commands, closed, begun, lost>>

\* Mutant: what cannot be saved is not published.
UnsavedDropped(d, ok) == IF ok THEN [proc[d] EXCEPT !.at = "publish"] ELSE NextPattern(d)

\* Saved or not, the detection is published.
AfterSave(d, ok) == [proc[d] EXCEPT !.at = "publish"]

\* INSERT ... ON CONFLICT DO NOTHING.
InsertDetection(d) == hits \cup {Hit(d, "saved")}

SaveDetection(d, ok) ==
    /\ At(d, "save") /\ May(ok) /\ proc' = [proc EXCEPT ![d] = AfterSave(d, ok)]
    /\ hits' = IF ok THEN InsertDetection(d) ELSE hits
    /\ UNCHANGED <<streamVars, config, loaded, due, rested, commands, closed, seen, begun, lost>>

PublishDetection(d, ok) ==
    /\ At(d, "publish") /\ May(ok) /\ proc' = [proc EXCEPT ![d] = NextPattern(d)]
    /\ hits' = hits \cup {Hit(d, IF ok THEN "sent" ELSE "unsent")}
    /\ UNCHANGED <<streamVars, config, loaded, due, rested, commands, closed, seen, begun, lost>>

\* Mutant: after an entry the loop reads again.
BatchDropped(d) == New

\* The next entry of the batch, or the next turn of the loop.
NextEntry(d) == Handling(proc[d].batch \ {Entry(d)})

\* ack_unified_event, whatever became of the event; a failure is logged.
Ack(d, ok) ==
    /\ At(d, "ack") /\ May(ok)
    /\ pending' = IF ok THEN [pending EXCEPT ![d] = @ \ {Entry(d)}] ELSE pending
    /\ proc' = [proc EXCEPT ![d] = NextEntry(d)]
    /\ UNCHANGED <<stream, given, config, loaded, due, rested, commands, closed, history>>

\* The process ends: a crash, or SIGTERM, for which there is no handler.
Crash(d) ==
    /\ ~At(d, "down") /\ Fault
    /\ lost' = lost \cup proc[d].batch
    /\ proc' = [proc EXCEPT ![d] = [New EXCEPT !.at = "down"]]
    /\ due' = [due EXCEPT ![d] = FALSE] /\ rested' = [rested EXCEPT ![d] = TRUE]
    /\ commands' = [commands EXCEPT ![d] = 0] /\ closed' = [closed EXCEPT ![d] = FALSE]
    /\ UNCHANGED <<streamVars, config, loaded, seen, begun, hits>>

\* The consumer has its old name; a configuration that cannot be loaded at the
\* start is that of no pattern, until the next tick.
Restart(d, ok) ==
    /\ At(d, "down") /\ May(ok) /\ Goto(d, "new")
    /\ loaded' = [loaded EXCEPT ![d] = IF ok THEN config ELSE 0]
    /\ UNCHANGED <<streamVars, config, due, rested, commands, closed, history>>

-----------------------------------------------------------------------------
Step(d) ==
    \/ Advance(d) \/ CommandClosed(d) \/ Reply(d) \/ Begin(d)
    \/ \E ok \in BOOLEAN : Tick(d, ok) \/ Command(d, ok) \/ SaveDetection(d, ok)
                           \/ PublishDetection(d, ok) \/ Ack(d, ok) \/ Restart(d, ok)
    \/ \E result \in {"none", "hit", "error"} : Evaluate(d, result)

Next ==
    \/ \E kind \in Kinds : Publish(kind)
    \/ ChangeConfig
    \/ \E d \in Detectors : Step(d) \/ ReadFails(d) \/ Timer(d) \/ RequestReload(d)
                            \/ ServerEnds(d) \/ Crash(d)

Spec == Init /\ [][Next]_vars

\* The processes run, the interval fires, the container is restarted.
FairSpec == Spec /\ \A d \in Detectors : WF_vars(Step(d)) /\ WF_vars(Timer(d))

-----------------------------------------------------------------------------
Everyone(e) == \A p \in 1 .. Patterns : <<e, p>> \in seen
Pending(e) == \E d \in Detectors : e \in pending[d]

TypeOK ==
    /\ Ids(stream) \subseteq 1 .. count.published /\ given \in 0 .. count.published
    /\ pending \in [Detectors -> SUBSET (1 .. given)]
    /\ loaded \in [Detectors -> 0 .. config] /\ commands \in [Detectors -> 0 .. MaxCommands]
    /\ \A d \in Detectors : /\ proc[d].batch \subseteq 1 .. given
                          /\ Cardinality(proc[d].batch) <= BatchSize
                          /\ proc[d].pattern \in 1 .. Patterns

\* No event is taken up twice, by two detectors or by one that starts again
\* (XREADGROUP with ">" and nothing that claims pending entries): patterns
\* that count or average see every event at most once.
TakenUpOnce == \A e \in 1 .. MaxEntries : begun[e] <= 1

\* An event that the group has had and that is not pending was seen by every
\* pattern, also when one of them failed on it; what a process that died, a
\* dropped read or a failed batch had stays pending.
AcknowledgedWasSeen ==
    \A e \in 1 .. given : Pending(e) \/ Everyone(e) \/ e \in lost

\* The detections of an acknowledged event were published, also those that
\* could not be saved, unless the publication itself failed.
DetectionsPublished ==
    \A e \in 1 .. given : ~Pending(e) => \A p \in 1 .. Patterns :
        <<e, p, "hit">> \in hits => <<e, p, "sent">> \in hits \/ <<e, p, "unsent">> \in hits

\* Everything published is seen, or lost.
Done == \A e \in 1 .. count.published : Everyone(e) \/ e \in lost

\* With its command channel closed a detector reads no more: that branch is
\* ready in every turn.
Starved == \A d \in Detectors : closed[d]

\* Every detector has the newest configuration in the end, although no
\* notification ever arrives: the ticker sees to it.
Current == \A d \in Detectors : loaded[d] = config
=============================================================================
