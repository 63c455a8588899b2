--------------------------- MODULE FinalityWorker ---------------------------
(***************************************************************************)
(* The finality worker, apps/finality/src/main.rs, for one chain: one or   *)
(* more processes of one consumer group read raksha:normalized-events and  *)
(* raksha:reorg-notices, run the tracker of FinalityTracker, publish its   *)
(* notices and updates, acknowledge, and now and then save the tracker to  *)
(* Postgres.  Every await is a step of its own; a failed publish or read   *)
(* ends the process (the ? operator), which Crash covers.                  *)
(*                                                                         *)
(* A consumer group hands every entry to one consumer once (XREADGROUP     *)
(* with >); an entry delivered to a process that dies stays in the group's *)
(* pending list, which nothing in the code reads again.                    *)
(***************************************************************************)
EXTENDS Integers, Sequences, FiniteSets

CONSTANTS
    Keys, Hashes, NoHash, MaxHeight, EventDepths, DefaultDepth, MaxDepth,
    Workers,          \* processes of the consumer group
    Feed,             \* events the producers publish
    MaxEvents,        \* bound: events published
    BatchSize,        \* entries per XREADGROUP
    PersistInterval,  \* updates between two saves
    MaxCrashes,       \* bound: crashes
    MaxStops,         \* bound: graceful shutdowns
    DbFaults          \* may a save or a load fail?

T == INSTANCE FinalityTracker WITH
        MaxNotices <- MaxEvents, tracker <- <<>>, notices <- <<>>, batch <- <<>>

ASSUME WorkerAssumption ==
    /\ T!TrackerAssumption
    /\ Feed \subseteq T!Event
    /\ MaxEvents \in Nat /\ MaxCrashes \in Nat /\ MaxStops \in Nat
    /\ BatchSize \in Nat \ {0} /\ PersistInterval \in Nat \ {0}
    /\ DbFaults \in BOOLEAN

VARIABLES
    normalized,  \* raksha:normalized-events
    nextEvent,   \* the group's position in it: entries up to here are delivered
    reorgs,      \* raksha:reorg-notices
    nextReorg,   \* the group's position in it
    published,   \* raksha:finality-updates, per key: the states published, in order
    saved,       \* the finality_state row, or {} when there is none
    pc,          \* where each process is in its loop
    mem,         \* the in-memory tracker of each process, {} when it has none
    engine,      \* InMemoryFinalityEngine of each process
    inbox,       \* entries read and not yet acknowledged by each process
    outbox,      \* what the entry at hand still has to publish
    count,       \* event_count: updates published since the last save
    crashes,     \* crashes so far
    stops        \* graceful shutdowns so far

streams == <<normalized, nextEvent, reorgs, nextReorg, published>>
bounds  == <<crashes, stops>>
procs   == <<pc, mem, engine, inbox, outbox, count>>
vars    == <<streams, saved, procs, bounds>>

-----------------------------------------------------------------------------
\* Nothing, or one value: an absent tracker, row or notice is the empty set.
Some(x) == {x}
The(s)  == CHOOSE x \in s : TRUE
Lower(a, b) == IF a <= b THEN a ELSE b

NothingToPublish == [notice |-> {}, updates |-> T!EmptyBatch]

NoStates == [k \in Keys |-> "none"]

\* InMemoryFinalityEngine::handle_reorg_notice
HandleReorgNotice(states, n) ==
    [k \in Keys |-> IF k \in n.keys THEN "retracted" ELSE states[k]]

PC == {"down", "events", "event", "event_out", "reorgs", "notice", "notice_out",
       "persist", "loop"}

Init ==
    /\ normalized = <<>> /\ nextEvent = 0
    /\ reorgs = <<>> /\ nextReorg = 0
    /\ published = [k \in Keys |-> <<>>]
    /\ saved = {}
    /\ pc = [w \in Workers |-> "events"]
    /\ mem = [w \in Workers |-> {}]
    /\ engine = [w \in Workers |-> NoStates]
    /\ inbox = [w \in Workers |-> <<>>]
    /\ outbox = [w \in Workers |-> NothingToPublish]
    /\ count = [w \in Workers |-> 0]
    /\ crashes = 0 /\ stops = 0

\* A producer outside this repository appends an event.
Produce(e) ==
    /\ Len(normalized) < MaxEvents
    /\ normalized' = Append(normalized, e)
    /\ UNCHANGED <<nextEvent, reorgs, nextReorg, published, saved, procs, bounds>>

-----------------------------------------------------------------------------
(***************************************************************************)
(* The first half of the loop: a batch of events.                          *)
(***************************************************************************)
\* Mutant: what did not fit into the batch is skipped.
ReadEventsSkips(w) ==
    /\ pc[w] = "events"
    /\ inbox' = [inbox EXCEPT ![w] =
          SubSeq(normalized, nextEvent + 1, Lower(nextEvent + BatchSize, Len(normalized)))]
    /\ nextEvent' = Len(normalized)
    /\ pc' = [pc EXCEPT ![w] = "event"]
    /\ UNCHANGED <<normalized, reorgs, nextReorg, published, saved, mem, engine,
                   outbox, count, bounds>>

ReadEvents(w) ==
    /\ pc[w] = "events"
    /\ LET upto == Lower(nextEvent + BatchSize, Len(normalized))
       IN  /\ inbox' = [inbox EXCEPT ![w] = SubSeq(normalized, nextEvent + 1, upto)]
           /\ nextEvent' = upto
    /\ pc' = [pc EXCEPT ![w] = "event"]
    /\ UNCHANGED <<normalized, reorgs, nextReorg, published, saved, mem, engine,
                   outbox, count, bounds>>

\* The row of the chain, whichever process wrote it last.
LoadFinalityState == saved

\* An upsert: the row becomes that of this tracker, whatever it was.
SaveFinalityState(row) == saved' = row

\* load_tracker_from_db: the saved tracker, if there is one and it can be read.
LoadTrackerFromDb(ok) == IF ok THEN LoadFinalityState ELSE {}

\* trackers.contains_key is false: load the row, or start afresh when there is
\* none or the load fails.
LoadTracker(w) ==
    /\ pc[w] = "event" /\ inbox[w] # <<>> /\ mem[w] = {}
    /\ \E ok \in {TRUE, ~DbFaults} :
          mem' = [mem EXCEPT ![w] = IF LoadTrackerFromDb(ok) # {} THEN LoadTrackerFromDb(ok)
                                    ELSE Some(T!NewTracker)]
    /\ UNCHANGED <<streams, saved, pc, engine, inbox, outbox, count, bounds>>

\* Mutant: the tracker is saved before its updates are published.
ObserveAndSave(w) ==
    /\ pc[w] = "event" /\ inbox[w] # <<>> /\ mem[w] # {}
    /\ LET t == The(mem[w])
           e == Head(inbox[w])
       IN  /\ mem' = [mem EXCEPT ![w] = Some(T!ObserveTracker(t, e))]
           /\ outbox' = [outbox EXCEPT ![w] =
                 [notice  |-> IF T!DetectConflictingHash(t, e)
                              THEN Some(T!ObserveNotice(t, e)) ELSE {},
                  updates |-> T!ObserveUpdates(t, e)]]
           /\ saved' = Some(T!ObserveTracker(t, e))
    /\ pc' = [pc EXCEPT ![w] = "event_out"]
    /\ UNCHANGED <<streams, engine, inbox, count, bounds>>

\* observe_event on the next entry; its notice and updates go to the outbox.
Observe(w) ==
    /\ pc[w] = "event" /\ inbox[w] # <<>> /\ mem[w] # {}
    /\ LET t == The(mem[w])
           e == Head(inbox[w])
       IN  /\ mem' = [mem EXCEPT ![w] = Some(T!ObserveTracker(t, e))]
           /\ outbox' = [outbox EXCEPT ![w] =
                 [notice  |-> IF T!DetectConflictingHash(t, e)
                              THEN Some(T!ObserveNotice(t, e)) ELSE {},
                  updates |-> T!ObserveUpdates(t, e)]]
    /\ pc' = [pc EXCEPT ![w] = "event_out"]
    /\ UNCHANGED <<streams, saved, engine, inbox, count, bounds>>

\* publish_reorg_notice, then the engine withdraws the affected keys.
PublishNotice(w) ==
    /\ pc[w] = "event_out" /\ outbox[w].notice # {}
    /\ LET n == The(outbox[w].notice)
       IN  /\ reorgs' = Append(reorgs, n)
           /\ engine' = [engine EXCEPT ![w] = HandleReorgNotice(@, n)]
    /\ outbox' = [outbox EXCEPT ![w].notice = {}]
    /\ UNCHANGED <<normalized, nextEvent, nextReorg, published, saved, pc, mem, inbox,
                   count, bounds>>

\* Mutant: confirmations first.
NextUpdatesReversed(u) ==
    IF u.confirmed # {} THEN {<<k, "confirmed">> : k \in u.confirmed}
    ELSE IF u.provisional # {} THEN {<<k, "provisional">> : k \in u.provisional}
    ELSE {<<k, "retracted">> : k \in u.retracted}

\* The updates still to be published that may be the next one: retracted keys
\* come first, then the provisional one, then the confirmed ones.
NextUpdates(u) ==
    IF u.retracted # {} THEN {<<k, "retracted">> : k \in u.retracted}
    ELSE IF u.provisional # {} THEN {<<k, "provisional">> : k \in u.provisional}
    ELSE {<<k, "confirmed">> : k \in u.confirmed}

\* publish_finality_update, then apply_update on the engine (both loops of updates).
PublishUpdate(w) ==
    /\ pc[w] \in {"event_out", "notice_out"} /\ outbox[w].notice = {}
    /\ \E u \in NextUpdates(outbox[w].updates) :
          /\ published' = [published EXCEPT ![u[1]] = Append(@, u[2])]
          /\ engine' = [engine EXCEPT ![w][u[1]] = u[2]]
          /\ outbox' = [outbox EXCEPT ![w].updates[u[2]] = @ \ {u[1]}]
    /\ count' = [count EXCEPT ![w] = @ + 1]
    /\ UNCHANGED <<normalized, nextEvent, reorgs, nextReorg, saved, pc, mem, inbox, bounds>>

\* Everything about the entry is published: XACK it and take the next one.
Ack(w) ==
    /\ pc[w] \in {"event_out", "notice_out"} /\ outbox[w] = NothingToPublish
    /\ inbox' = [inbox EXCEPT ![w] = Tail(@)]
    /\ pc' = [pc EXCEPT ![w] = IF @ = "event_out" THEN "event" ELSE "notice"]
    /\ UNCHANGED <<streams, saved, mem, engine, outbox, count, bounds>>

\* The batch is done: go on to the other half of the loop.
BatchDone(w) ==
    /\ pc[w] \in {"event", "notice"} /\ inbox[w] = <<>>
    /\ pc' = [pc EXCEPT ![w] = IF @ = "event" THEN "reorgs" ELSE "persist"]
    /\ UNCHANGED <<streams, saved, mem, engine, inbox, outbox, count, bounds>>

-----------------------------------------------------------------------------
(***************************************************************************)
(* The second half: a batch of reorg notices, the group's own included.    *)
(***************************************************************************)
ReadReorgs(w) ==
    /\ pc[w] = "reorgs"
    /\ LET upto == Lower(nextReorg + BatchSize, Len(reorgs))
       IN  /\ inbox' = [inbox EXCEPT ![w] = SubSeq(reorgs, nextReorg + 1, upto)]
           /\ nextReorg' = upto
    /\ pc' = [pc EXCEPT ![w] = "notice"]
    /\ UNCHANGED <<normalized, nextEvent, reorgs, published, saved, mem, engine,
                   outbox, count, bounds>>

\* apply_reorg_notice.  A process without a tracker creates an empty one here
\* (or_insert_with), whatever the database holds.
ApplyNotice(w) ==
    /\ pc[w] = "notice" /\ inbox[w] # <<>>
    /\ LET t == IF mem[w] = {} THEN T!NewTracker ELSE The(mem[w])
           n == Head(inbox[w])
       IN  /\ mem' = [mem EXCEPT ![w] = Some(T!ApplyNoticeTracker(t, n))]
           /\ engine' = [engine EXCEPT ![w] = HandleReorgNotice(@, n)]
           /\ outbox' = [outbox EXCEPT ![w].updates = T!ApplyNoticeUpdates(t, n)]
    /\ pc' = [pc EXCEPT ![w] = "notice_out"]
    /\ UNCHANGED <<streams, saved, inbox, count, bounds>>

-----------------------------------------------------------------------------
(***************************************************************************)
(* The end of the loop, shutdown, crash and restart.                       *)
(***************************************************************************)
\* persist_tracker for every tracker the process holds; a failure is logged.
SaveTracker(w) ==
    \E ok \in {TRUE, ~DbFaults} :
        IF ok /\ mem[w] # {} THEN SaveFinalityState(mem[w]) ELSE UNCHANGED saved

Persist(w) ==
    /\ pc[w] = "persist"
    /\ IF count[w] >= PersistInterval
       THEN SaveTracker(w) /\ count' = [count EXCEPT ![w] = 0]
       ELSE UNCHANGED <<saved, count>>
    /\ pc' = [pc EXCEPT ![w] = "loop"]
    /\ UNCHANGED <<streams, mem, engine, inbox, outbox, bounds>>

\* No shutdown was requested: around again.
Loop(w) ==
    /\ pc[w] = "loop"
    /\ pc' = [pc EXCEPT ![w] = "events"]
    /\ UNCHANGED <<streams, saved, mem, engine, inbox, outbox, count, bounds>>

\* The process ends and its memory is gone.
Exit(w) ==
    /\ pc' = [pc EXCEPT ![w] = "down"]
    /\ mem' = [mem EXCEPT ![w] = {}]
    /\ engine' = [engine EXCEPT ![w] = NoStates]
    /\ inbox' = [inbox EXCEPT ![w] = <<>>]
    /\ outbox' = [outbox EXCEPT ![w] = NothingToPublish]
    /\ count' = [count EXCEPT ![w] = 0]
    /\ UNCHANGED streams

\* Mutant: break without the final save.
StopUnsaved(w) ==
    /\ pc[w] = "loop" /\ stops < MaxStops
    /\ Exit(w)
    /\ stops' = stops + 1 /\ UNCHANGED <<crashes, saved>>

\* is_shutdown_requested: save and break.
Stop(w) ==
    /\ pc[w] = "loop" /\ stops < MaxStops
    /\ SaveTracker(w)
    /\ Exit(w)
    /\ stops' = stops + 1 /\ UNCHANGED crashes

\* The process is killed, a ? in main returns an error, or FINALITY_RUN_ONCE ends
\* the loop, which does not save.
Crash(w) ==
    /\ pc[w] # "down" /\ crashes < MaxCrashes
    /\ Exit(w)
    /\ crashes' = crashes + 1 /\ UNCHANGED <<stops, saved>>

Start(w) ==
    /\ pc[w] = "down"
    /\ pc' = [pc EXCEPT ![w] = "events"]
    /\ UNCHANGED <<streams, saved, mem, engine, inbox, outbox, count, bounds>>

Step(w) ==
    \/ ReadEvents(w) \/ LoadTracker(w) \/ Observe(w) \/ PublishNotice(w)
    \/ PublishUpdate(w) \/ Ack(w) \/ BatchDone(w) \/ ReadReorgs(w) \/ ApplyNotice(w)
    \/ Persist(w) \/ Loop(w) \/ Start(w)

Next ==
    \/ \E e \in Feed : Produce(e)
    \/ \E w \in Workers : Step(w) \/ Stop(w) \/ Crash(w)

Spec == Init /\ [][Next]_vars

\* A live process keeps going, and a dead one is started again (restart:
\* unless-stopped in infra/docker-compose.yml); nothing else is assumed.
FairSpec == Spec /\ \A w \in Workers : WF_vars(Step(w))

-----------------------------------------------------------------------------
(***************************************************************************)
(* Properties.                                                             *)
(***************************************************************************)
TypeOK ==
    /\ normalized \in Seq(Feed) /\ nextEvent \in 0..Len(normalized)
    /\ reorgs \in Seq(T!Notice) /\ nextReorg \in 0..Len(reorgs)
    /\ published \in [Keys -> Seq(T!KeyState)]
    /\ saved \subseteq T!Tracker
    /\ pc \in [Workers -> PC]
    /\ mem \in [Workers -> SUBSET T!Tracker]
    /\ engine \in [Workers -> [Keys -> T!KeyState]]
    /\ inbox \in [Workers -> Seq(Feed \cup T!Notice)]
    /\ outbox \in [Workers -> [notice : SUBSET T!Notice, updates : T!Batch]]
    /\ count \in [Workers -> Nat]
    /\ crashes \in 0..MaxCrashes /\ stops \in 0..MaxStops

PublishedStates(k) == {published[k][i] : i \in 1..Len(published[k])}

LastPublished(k) ==
    IF published[k] = <<>> THEN "none" ELSE published[k][Len(published[k])]

\* What the database says of a key, subscribers have been told: no process
\* saves a decision before publishing it, so a restart from the row cannot
\* silently skip one, with any number of processes, crashes and failed saves.
SnapshotPublished ==
    \A t \in saved : \A k \in Keys :
        t.states[k] # "none" => t.states[k] \in PublishedStates(k)

\* Between two batches the engine agrees with the tracker on every key the
\* process has handled since it started.
EngineMirrorsTracker ==
    \A w \in Workers : pc[w] \in {"events", "event", "reorgs", "notice", "persist", "loop"} =>
        \A k \in Keys : engine[w][k] # "none" =>
            /\ mem[w] # {}
            /\ engine[w][k] = The(mem[w]).states[k]

\* An event that was handed to a process and not lost in a crash is reported.
EveryEventReported ==
    \A i \in 1..MaxEvents : \A k \in Keys :
        (i <= Len(normalized) /\ normalized[i].key = k) ~> published[k] # <<>>

\* What subscribers of raksha:finality-updates see is the lifecycle of Lifecycle.
L == INSTANCE Lifecycle WITH status <- [k \in Keys |-> LastPublished(k)]

LifecycleSpec == L!Spec
=============================================================================
