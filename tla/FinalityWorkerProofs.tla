------------------------ MODULE FinalityWorkerProofs ------------------------
(***************************************************************************)
(* Theorems about FinalityWorker, for any number of processes, crashes,    *)
(* failed saves, events, keys and heights: what is saved was published,    *)
(* and the engine agrees with the tracker.  The last part shows that one   *)
(* process that only stops gracefully implements Lifecycle.                *)
(***************************************************************************)
EXTENDS FinalityWorker, TLAPS

P == INSTANCE FinalityTrackerProofs WITH
        MaxNotices <- MaxEvents, tracker <- <<>>, notices <- <<>>, batch <- <<>>

-----------------------------------------------------------------------------
(***************************************************************************)
(* The tracker's operations, as FinalityTrackerProofs describes them.      *)
(***************************************************************************)
\* The proofs of FinalityTrackerProofs are about the operators the worker uses.
LEMMA SameOperators ==
    /\ P!TrackerAssumption
    /\ P!Tracker = T!Tracker /\ P!Event = T!Event /\ P!Notice = T!Notice
    /\ P!Batch = T!Batch /\ P!Heights = T!Heights
    /\ \A t, e : /\ P!ObserveTracker(t, e) = T!ObserveTracker(t, e)
                 /\ P!ObserveUpdates(t, e) = T!ObserveUpdates(t, e)
                 /\ P!ObserveNotice(t, e) = T!ObserveNotice(t, e)
                 /\ P!DetectConflictingHash(t, e) = T!DetectConflictingHash(t, e)
    /\ \A t, n : /\ P!ApplyNoticeTracker(t, n) = T!ApplyNoticeTracker(t, n)
                 /\ P!ApplyNoticeUpdates(t, n) = T!ApplyNoticeUpdates(t, n)
    /\ \A t, h : P!CollectAffectedKeys(t, h) = T!CollectAffectedKeys(t, h)
<1> USE DEF P!Heights, T!Heights, P!BlockEntry, T!BlockEntry, P!KeyState, T!KeyState
<1>1. P!TrackerAssumption
  BY WorkerAssumption DEF P!TrackerAssumption, T!TrackerAssumption
<1>2. P!Tracker = T!Tracker /\ P!Event = T!Event /\ P!Notice = T!Notice /\ P!Batch = T!Batch
  BY DEF P!Tracker, T!Tracker, P!Event, T!Event, P!Notice, T!Notice, P!Batch, T!Batch
<1> USE DEF P!NoBlock, T!NoBlock, P!Occupied, T!Occupied, P!TopHeight, T!TopHeight,
            P!SaturatingSub, T!SaturatingSub, P!ConfirmationDepth, T!ConfirmationDepth,
            P!DetectConflictingHash, T!DetectConflictingHash, P!CollectAffectedKeys,
            T!CollectAffectedKeys, P!RollbackFromBlock, T!RollbackFromBlock, P!Retract,
            T!Retract, P!NewlyRetracted, T!NewlyRetracted, P!AfterConflict, T!AfterConflict,
            P!FileEvent, T!FileEvent, P!Due, T!Due, P!ConfirmDue, T!ConfirmDue
<1>3. ASSUME NEW t, NEW e
      PROVE  /\ P!ObserveTracker(t, e) = T!ObserveTracker(t, e)
             /\ P!ObserveUpdates(t, e) = T!ObserveUpdates(t, e)
             /\ P!ObserveNotice(t, e) = T!ObserveNotice(t, e)
             /\ P!DetectConflictingHash(t, e) = T!DetectConflictingHash(t, e)
             /\ P!CollectAffectedKeys(t, e) = T!CollectAffectedKeys(t, e)
  BY Zenon DEF P!ObserveTracker, T!ObserveTracker, P!ObserveUpdates, T!ObserveUpdates,
         P!ObserveNotice, T!ObserveNotice
<1>4. ASSUME NEW t, NEW n
      PROVE  /\ P!ApplyNoticeTracker(t, n) = T!ApplyNoticeTracker(t, n)
             /\ P!ApplyNoticeUpdates(t, n) = T!ApplyNoticeUpdates(t, n)
  BY Zenon DEF P!ApplyNoticeTracker, T!ApplyNoticeTracker, P!ApplyNoticeUpdates, T!ApplyNoticeUpdates,
         P!EmptyBatch, T!EmptyBatch
<1> HIDE DEF P!NoBlock, T!NoBlock, P!Occupied, T!Occupied, P!TopHeight, T!TopHeight,
            P!SaturatingSub, T!SaturatingSub, P!ConfirmationDepth, T!ConfirmationDepth,
            P!DetectConflictingHash, T!DetectConflictingHash, P!CollectAffectedKeys,
            T!CollectAffectedKeys, P!RollbackFromBlock, T!RollbackFromBlock, P!Retract,
            T!Retract, P!NewlyRetracted, T!NewlyRetracted, P!AfterConflict, T!AfterConflict,
            P!FileEvent, T!FileEvent, P!Due, T!Due, P!ConfirmDue, T!ConfirmDue
<1> QED
  BY <1>1, <1>2, <1>3, <1>4

\* observe_event and apply_reorg_notice return well-formed trackers, updates and
\* notices.
LEMMA OperationTypes ==
    ASSUME NEW t \in T!Tracker
    PROVE  /\ \A e \in T!Event : /\ T!ObserveTracker(t, e) \in T!Tracker
                                 /\ T!ObserveUpdates(t, e) \in T!Batch
                                 /\ T!ObserveNotice(t, e) \in T!Notice
           /\ \A n \in T!Notice : /\ T!ApplyNoticeTracker(t, n) \in T!Tracker
                                  /\ T!ApplyNoticeUpdates(t, n) \in T!Batch
<1>0. P!TrackerAssumption /\ t \in P!Tracker
  BY SameOperators
<1>1. ASSUME NEW e \in P!Event
      PROVE  /\ P!ObserveTracker(t, e) \in P!Tracker
             /\ P!ObserveUpdates(t, e) \in P!Batch
             /\ P!ObserveNotice(t, e) \in P!Notice
  <2>1. [from |-> e.block, keys |-> {}] \in P!Notice
    BY DEF P!Event, P!Notice
  <2> QED
    BY <1>0, <2>1, P!ObserveFacts, P!UpdatesType
<1>2. ASSUME NEW n \in P!Notice
      PROVE  /\ P!ApplyNoticeTracker(t, n) \in P!Tracker
             /\ P!ApplyNoticeUpdates(t, n) \in P!Batch
  <2>1. P!ApplyNoticeTracker(t, n) \in P!Tracker
    BY <1>0, P!ApplyNoticeFacts
  <2>2. P!ApplyNoticeUpdates(t, n) \in P!Batch
    BY DEF P!ApplyNoticeUpdates, P!EmptyBatch, P!Batch, P!NewlyRetracted, P!Notice
  <2> QED
    BY <2>1, <2>2
<1> QED
  BY <1>1, <1>2, SameOperators

-----------------------------------------------------------------------------
(***************************************************************************)
(* Types, and what the position of a process says about its variables.     *)
(***************************************************************************)
Publishing(w) == pc[w] \in {"event_out", "notice_out"}

AtMostOne(S) == S = {} \/ \E t \in T!Tracker : S = {t}

\* A process holds at most one tracker; its inbox holds what it has read; while
\* it publishes it has a tracker and an entry, and otherwise nothing to publish.
Local(w) ==
    /\ AtMostOne(mem[w])
    /\ pc[w] \in {"event", "event_out"} => inbox[w] \in Seq(Feed)
    /\ pc[w] \in {"notice", "notice_out"} => inbox[w] \in Seq(T!Notice)
    /\ Publishing(w) => mem[w] # {} /\ inbox[w] # <<>>
    /\ ~Publishing(w) => outbox[w] = NothingToPublish

Shape == AtMostOne(saved) /\ \A w \in Workers : Local(w)

Alone(w) ==
    \A v \in Workers \ {w} :
        /\ pc'[v] = pc[v] /\ mem'[v] = mem[v] /\ engine'[v] = engine[v]
        /\ inbox'[v] = inbox[v] /\ outbox'[v] = outbox[v]

\* A step of one process leaves the memory of the others alone.
LEMMA StepIsLocal ==
    ASSUME TypeOK, NEW w \in Workers, Step(w) \/ Stop(w) \/ Crash(w)
    PROVE  Alone(w)
<1> USE DEF TypeOK, Alone
<1>1. CASE ReadEvents(w) \/ LoadTracker(w) \/ Observe(w) \/ PublishNotice(w)
  BY <1>1 DEF ReadEvents, LoadTracker, Observe, PublishNotice
<1>2. CASE PublishUpdate(w)
  BY <1>2 DEF PublishUpdate
<1>3. CASE Ack(w) \/ BatchDone(w) \/ ReadReorgs(w) \/ ApplyNotice(w)
  BY <1>3 DEF Ack, BatchDone, ReadReorgs, ApplyNotice
<1>4. CASE Persist(w) \/ Loop(w) \/ Start(w) \/ Stop(w) \/ Crash(w)
  BY <1>4 DEF Persist, Loop, Start, Stop, Crash, Exit
<1> QED
  BY <1>1, <1>2, <1>3, <1>4 DEF Step

\* What has been published, and the entries of an inbox, have the types of the
\* streams they come from.
LEMMA BatchTypes ==
    ASSUME TypeOK, NEW a \in Nat, NEW b \in Nat
    PROVE  /\ b <= Len(normalized) => SubSeq(normalized, a + 1, b) \in Seq(Feed)
           /\ b <= Len(reorgs) => SubSeq(reorgs, a + 1, b) \in Seq(T!Notice)
<1>1. normalized \in Seq(Feed) /\ reorgs \in Seq(T!Notice)
  BY DEF TypeOK
<1>2. ASSUME NEW S, NEW s \in Seq(S), b <= Len(s) PROVE SubSeq(s, a + 1, b) \in Seq(S)
  <2>1. \A i \in 1..Len(s) : s[i] \in S
    BY <1>2
  <2>2. \A i \in (a + 1)..b : s[i] \in S
    BY <1>2, <2>1
  <2> QED
    BY <1>2, <2>2
<1> QED
  BY <1>1, <1>2

\* One tracker: The picks it.
LEMMA TheOne ==
    ASSUME NEW S, AtMostOne(S), S # {}
    PROVE  The(S) \in T!Tracker /\ S = {The(S)}
  BY DEF AtMostOne, The

\* The batch a process may publish from next is a part of its updates.
LEMMA NextUpdateFacts ==
    ASSUME NEW b \in T!Batch, NEW u \in NextUpdates(b)
    PROVE  /\ u = <<u[1], u[2]>> /\ u[1] \in Keys
           /\ u[2] \in {"retracted", "provisional", "confirmed"}
           /\ u[1] \in b[u[2]]
           /\ u[2] = "provisional" => b.retracted = {}
           /\ u[2] = "confirmed" => b.retracted = {} /\ b.provisional = {}
<1>1. CASE b.retracted # {}
  BY <1>1 DEF NextUpdates, T!Batch
<1>2. CASE b.retracted = {} /\ b.provisional # {}
  BY <1>2 DEF NextUpdates, T!Batch
<1>3. CASE b.retracted = {} /\ b.provisional = {}
  BY <1>3 DEF NextUpdates, T!Batch
<1> QED
  BY <1>1, <1>2, <1>3

\* Publishing one update takes it out of the outbox and changes nothing else there.
LEMMA PublishUpdateOutbox ==
    ASSUME NEW b \in T!Batch, NEW k \in Keys, NEW s \in {"retracted", "provisional", "confirmed"}
    PROVE  LET c == [b EXCEPT ![s] = @ \ {k}]
           IN  /\ c \in T!Batch
               /\ c.retracted = IF s = "retracted" THEN b.retracted \ {k} ELSE b.retracted
               /\ c.provisional = IF s = "provisional" THEN b.provisional \ {k} ELSE b.provisional
               /\ c.confirmed = IF s = "confirmed" THEN b.confirmed \ {k} ELSE b.confirmed
  BY DEF T!Batch

\* A new tracker is a tracker, and an empty outbox an outbox.
LEMMA InitialTypes ==
    /\ T!NewTracker \in T!Tracker
    /\ NothingToPublish \in [notice : SUBSET T!Notice, updates : T!Batch]
    /\ NoStates \in [Keys -> T!KeyState]
<1>1. T!NewTracker \in T!Tracker
  BY WorkerAssumption DEF T!TrackerAssumption, T!NewTracker, T!Tracker, T!Heights,
                          T!BlockEntry, T!NoBlock, T!KeyState
<1> QED
  BY <1>1 DEF NothingToPublish, T!EmptyBatch, T!Batch, NoStates, T!KeyState

\* Reading entries keeps the types.
LEMMA ReadTypes ==
    ASSUME TypeOK, Shape, NEW w \in Workers, ReadEvents(w) \/ ReadReorgs(w)
    PROVE  TypeOK' /\ Local(w)'
<1> DEFINE upto(pos, s) == Lower(pos + BatchSize, Len(s))
<1>0. /\ normalized \in Seq(Feed) /\ nextEvent \in 0..Len(normalized) /\ BatchSize \in Nat
      /\ reorgs \in Seq(T!Notice) /\ nextReorg \in 0..Len(reorgs)
  BY WorkerAssumption DEF TypeOK
<1>1. upto(nextEvent, normalized) \in 0..Len(normalized) /\ upto(nextReorg, reorgs) \in 0..Len(reorgs)
  BY <1>0 DEF Lower
<1>2. /\ SubSeq(normalized, nextEvent + 1, upto(nextEvent, normalized)) \in Seq(Feed)
      /\ SubSeq(reorgs, nextReorg + 1, upto(nextReorg, reorgs)) \in Seq(T!Notice)
  BY <1>0, <1>1, BatchTypes
<1> HIDE DEF upto
<1>3. Local(w) /\ ~Publishing(w)
  BY DEF Shape, ReadEvents, ReadReorgs, Publishing
<1>4. CASE ReadEvents(w)
  <2>1. /\ nextEvent' = upto(nextEvent, normalized)
        /\ inbox' = [inbox EXCEPT ![w] = SubSeq(normalized, nextEvent + 1, upto(nextEvent, normalized))]
        /\ pc' = [pc EXCEPT ![w] = "event"]
        /\ UNCHANGED <<normalized, reorgs, nextReorg, published, saved, mem, engine,
                       outbox, count, bounds>>
    BY <1>4 DEF ReadEvents, upto
  <2>2. SubSeq(normalized, nextEvent + 1, upto(nextEvent, normalized)) \in Seq(Feed \cup T!Notice)
    BY <1>2
  <2>3. TypeOK'
    BY <1>1, <2>1, <2>2 DEF TypeOK, bounds, PC
  <2>4. inbox'[w] \in Seq(Feed) /\ pc'[w] = "event" /\ mem' = mem /\ outbox' = outbox
    BY <1>2, <2>1 DEF TypeOK
  <2> QED
    BY <1>3, <2>3, <2>4 DEF Local, Publishing
<1>5. CASE ReadReorgs(w)
  <2>1. /\ nextReorg' = upto(nextReorg, reorgs)
        /\ inbox' = [inbox EXCEPT ![w] = SubSeq(reorgs, nextReorg + 1, upto(nextReorg, reorgs))]
        /\ pc' = [pc EXCEPT ![w] = "notice"]
        /\ UNCHANGED <<normalized, nextEvent, reorgs, published, saved, mem, engine,
                       outbox, count, bounds>>
    BY <1>5 DEF ReadReorgs, upto
  <2>2. SubSeq(reorgs, nextReorg + 1, upto(nextReorg, reorgs)) \in Seq(Feed \cup T!Notice)
    BY <1>2
  <2>3. TypeOK'
    BY <1>1, <2>1, <2>2 DEF TypeOK, bounds, PC
  <2>4. inbox'[w] \in Seq(T!Notice) /\ pc'[w] = "notice" /\ mem' = mem /\ outbox' = outbox
    BY <1>2, <2>1 DEF TypeOK
  <2> QED
    BY <1>3, <2>3, <2>4 DEF Local, Publishing
<1> QED
  BY <1>4, <1>5

\* Running the tracker keeps the types.
LEMMA TrackerTypes ==
    ASSUME TypeOK, Shape, NEW w \in Workers, LoadTracker(w) \/ Observe(w) \/ ApplyNotice(w)
    PROVE  TypeOK' /\ Local(w)'
<1>0. Local(w) /\ ~Publishing(w) /\ AtMostOne(saved) /\ mem[w] \subseteq T!Tracker
  BY DEF Shape, LoadTracker, Observe, ApplyNotice, Publishing, TypeOK
<1>1. CASE LoadTracker(w)
  <2>1. PICK t \in T!Tracker : mem' = [mem EXCEPT ![w] = {t}]
    <3>1. PICK ok : mem' = [mem EXCEPT ![w] = IF LoadTrackerFromDb(ok) # {} THEN LoadTrackerFromDb(ok)
                                              ELSE Some(T!NewTracker)]
      BY <1>1 DEF LoadTracker
    <3>2. LoadTrackerFromDb(ok) = {} \/ \E t \in T!Tracker : LoadTrackerFromDb(ok) = {t}
      BY <1>0 DEF LoadTrackerFromDb, LoadFinalityState, AtMostOne
    <3> QED
      BY <3>1, <3>2, InitialTypes DEF Some
  <2>2. TypeOK'
    BY <1>1, <2>1 DEF LoadTracker, TypeOK, streams, bounds
  <2>3. mem'[w] = {t} /\ pc' = pc /\ inbox' = inbox /\ outbox' = outbox
    BY <1>1, <2>1 DEF TypeOK, LoadTracker
  <2> QED
    BY <1>0, <2>2, <2>3 DEF Local, Publishing, AtMostOne
<1>2. CASE Observe(w)
  <2> DEFINE t == The(mem[w])
             e == Head(inbox[w])
             o == [notice  |-> IF T!DetectConflictingHash(t, e)
                               THEN Some(T!ObserveNotice(t, e)) ELSE {},
                   updates |-> T!ObserveUpdates(t, e)]
  <2>1. pc[w] = "event" /\ inbox[w] # <<>> /\ mem[w] # {}
    BY <1>2 DEF Observe
  <2>2. t \in T!Tracker
    BY <1>0, <2>1, TheOne DEF Local
  <2>3. inbox[w] \in Seq(Feed) /\ e \in T!Event
    BY <1>0, <2>1, WorkerAssumption DEF Local
  <2>4. T!ObserveTracker(t, e) \in T!Tracker /\ o \in [notice : SUBSET T!Notice, updates : T!Batch]
    BY <2>2, <2>3, OperationTypes DEF Some
  <2>5. /\ mem' = [mem EXCEPT ![w] = {T!ObserveTracker(t, e)}]
        /\ outbox' = [outbox EXCEPT ![w] = o]
        /\ pc' = [pc EXCEPT ![w] = "event_out"]
        /\ UNCHANGED <<streams, saved, engine, inbox, count, bounds>>
    BY <1>2 DEF Observe, Some
  <2> HIDE DEF t, e, o
  <2>6. TypeOK'
    BY <2>4, <2>5 DEF TypeOK, streams, bounds, PC
  <2>7. pc'[w] = "event_out" /\ mem'[w] = {T!ObserveTracker(t, e)} /\ inbox' = inbox
    BY <2>5 DEF TypeOK
  <2> QED
    BY <2>1, <2>3, <2>4, <2>6, <2>7 DEF Local, Publishing, AtMostOne
<1>3. CASE ApplyNotice(w)
  <2> DEFINE t == IF mem[w] = {} THEN T!NewTracker ELSE The(mem[w])
             n == Head(inbox[w])
  <2>1. pc[w] = "notice" /\ inbox[w] # <<>>
    BY <1>3 DEF ApplyNotice
  <2>2. t \in T!Tracker
    BY <1>0, TheOne, InitialTypes DEF Local
  <2>3. inbox[w] \in Seq(T!Notice) /\ n \in T!Notice
    BY <1>0, <2>1 DEF Local
  <2>4. T!ApplyNoticeTracker(t, n) \in T!Tracker /\ T!ApplyNoticeUpdates(t, n) \in T!Batch
    BY <2>2, <2>3, OperationTypes
  <2>5. /\ mem' = [mem EXCEPT ![w] = {T!ApplyNoticeTracker(t, n)}]
        /\ engine' = [engine EXCEPT ![w] = HandleReorgNotice(engine[w], n)]
        /\ outbox' = [outbox EXCEPT ![w].updates = T!ApplyNoticeUpdates(t, n)]
        /\ pc' = [pc EXCEPT ![w] = "notice_out"]
        /\ UNCHANGED <<streams, saved, inbox, count, bounds>>
    BY <1>3 DEF ApplyNotice, Some
  <2> HIDE DEF t, n
  <2>6. HandleReorgNotice(engine[w], n) \in [Keys -> T!KeyState]
    BY DEF HandleReorgNotice, TypeOK, T!KeyState
  <2>7. TypeOK'
    BY <2>4, <2>5, <2>6 DEF TypeOK, streams, bounds, PC
  <2>8. pc'[w] = "notice_out" /\ mem'[w] = {T!ApplyNoticeTracker(t, n)} /\ inbox' = inbox
    BY <2>5 DEF TypeOK
  <2> QED
    BY <2>1, <2>3, <2>4, <2>7, <2>8 DEF Local, Publishing, AtMostOne
<1> QED
  BY <1>1, <1>2, <1>3

\* What a process does with the next update: the update leaves the outbox, and
\* subscribers and engine learn it.
LEMMA PublishUpdateEffect ==
    ASSUME TypeOK, Shape, NEW w \in Workers, PublishUpdate(w)
    PROVE  \E k \in Keys, s \in {"retracted", "provisional", "confirmed"} :
              LET b == outbox[w].updates
                  c == outbox'[w].updates
              IN  /\ b \in T!Batch /\ c \in T!Batch /\ k \in b[s]
                  /\ s = "provisional" => b.retracted = {}
                  /\ s = "confirmed" => b.retracted = {} /\ b.provisional = {}
                  /\ c.retracted = IF s = "retracted" THEN b.retracted \ {k} ELSE b.retracted
                  /\ c.provisional = IF s = "provisional" THEN b.provisional \ {k} ELSE b.provisional
                  /\ c.confirmed = IF s = "confirmed" THEN b.confirmed \ {k} ELSE b.confirmed
                  /\ outbox[w].notice = {} /\ outbox'[w].notice = {}
                  /\ outbox' = [outbox EXCEPT ![w] = outbox'[w]]
                  /\ published' = [published EXCEPT ![k] = Append(@, s)]
                  /\ engine' = [engine EXCEPT ![w] = [engine[w] EXCEPT ![k] = s]]
                  /\ UNCHANGED <<normalized, nextEvent, reorgs, nextReorg, saved, pc, mem,
                                 inbox, bounds>>
<1> DEFINE b == outbox[w].updates
<1>1. outbox[w] \in [notice : SUBSET T!Notice, updates : T!Batch] /\ outbox[w].notice = {}
  BY DEF TypeOK, PublishUpdate
<1>2. PICK u \in NextUpdates(b) :
         /\ published' = [published EXCEPT ![u[1]] = Append(@, u[2])]
         /\ engine' = [engine EXCEPT ![w][u[1]] = u[2]]
         /\ outbox' = [outbox EXCEPT ![w].updates[u[2]] = @ \ {u[1]}]
  BY DEF PublishUpdate
<1>3. b \in T!Batch
  BY <1>1
<1> DEFINE k == u[1]
           s == u[2]
<1>4. /\ k \in Keys /\ s \in {"retracted", "provisional", "confirmed"} /\ k \in b[s]
      /\ s = "provisional" => b.retracted = {}
      /\ s = "confirmed" => b.retracted = {} /\ b.provisional = {}
  BY <1>3, NextUpdateFacts
<1> DEFINE c == [b EXCEPT ![s] = @ \ {k}]
<1>5. outbox' = [outbox EXCEPT ![w] = [outbox[w] EXCEPT !.updates = c]]
  BY <1>2
<1>6. outbox'[w] = [outbox[w] EXCEPT !.updates = c]
  BY <1>5 DEF TypeOK
<1>7. outbox'[w].updates = c /\ outbox'[w].notice = outbox[w].notice
  BY <1>1, <1>6
<1>8. /\ c \in T!Batch
      /\ c.retracted = IF s = "retracted" THEN b.retracted \ {k} ELSE b.retracted
      /\ c.provisional = IF s = "provisional" THEN b.provisional \ {k} ELSE b.provisional
      /\ c.confirmed = IF s = "confirmed" THEN b.confirmed \ {k} ELSE b.confirmed
  BY <1>3, <1>4, PublishUpdateOutbox
<1>9. outbox' = [outbox EXCEPT ![w] = outbox'[w]]
  BY <1>5, <1>6
<1>10. published' = [published EXCEPT ![k] = Append(@, s)]
       /\ engine' = [engine EXCEPT ![w] = [engine[w] EXCEPT ![k] = s]]
  BY <1>2
<1>11. UNCHANGED <<normalized, nextEvent, reorgs, nextReorg, saved, pc, mem, inbox, bounds>>
  BY DEF PublishUpdate
<1> HIDE DEF b, c, k, s
<1>12. /\ b \in T!Batch /\ outbox'[w].updates \in T!Batch /\ k \in b[s]
       /\ outbox'[w].updates.retracted = IF s = "retracted" THEN b.retracted \ {k} ELSE b.retracted
       /\ outbox'[w].updates.provisional = IF s = "provisional" THEN b.provisional \ {k} ELSE b.provisional
       /\ outbox'[w].updates.confirmed = IF s = "confirmed" THEN b.confirmed \ {k} ELSE b.confirmed
       /\ outbox[w].notice = {} /\ outbox'[w].notice = {}
  BY <1>1, <1>3, <1>4, <1>7, <1>8
<1> QED
  BY <1>4, <1>9, <1>10, <1>11, <1>12 DEF b

\* Publishing and acknowledging keep the types.
LEMMA PublishTypes ==
    ASSUME TypeOK, Shape, NEW w \in Workers, PublishNotice(w) \/ PublishUpdate(w) \/ Ack(w)
    PROVE  TypeOK' /\ Local(w)'
<1>0. Local(w) /\ Publishing(w) /\ mem[w] # {} /\ inbox[w] # <<>>
  BY DEF Shape, Local, PublishNotice, PublishUpdate, Ack, Publishing
<1>1. CASE PublishNotice(w)
  <2> DEFINE n == The(outbox[w].notice)
             o == [outbox[w] EXCEPT !.notice = {}]
  <2>1. outbox[w] \in [notice : SUBSET T!Notice, updates : T!Batch] /\ outbox[w].notice # {}
    BY <1>1 DEF TypeOK, PublishNotice
  <2>2. n \in T!Notice /\ o \in [notice : SUBSET T!Notice, updates : T!Batch]
    BY <2>1 DEF The
  <2>3. /\ reorgs' = Append(reorgs, n)
        /\ engine' = [engine EXCEPT ![w] = HandleReorgNotice(engine[w], n)]
        /\ outbox' = [outbox EXCEPT ![w] = o]
        /\ UNCHANGED <<normalized, nextEvent, nextReorg, published, saved, pc, mem, inbox,
                       count, bounds>>
    BY <1>1 DEF PublishNotice
  <2> HIDE DEF n, o
  <2>4. HandleReorgNotice(engine[w], n) \in [Keys -> T!KeyState]
    BY DEF HandleReorgNotice, TypeOK, T!KeyState
  <2>5. reorgs' \in Seq(T!Notice) /\ nextReorg' \in 0..Len(reorgs')
    BY <2>2, <2>3 DEF TypeOK
  <2>6. TypeOK'
    BY <2>2, <2>3, <2>4, <2>5 DEF TypeOK, bounds
  <2> QED
    BY <1>0, <2>3, <2>6 DEF Local, Publishing
<1>2. CASE PublishUpdate(w)
  <2>1. PICK k \in Keys, s \in {"retracted", "provisional", "confirmed"} :
           /\ outbox'[w].updates \in T!Batch /\ outbox'[w].notice = {}
           /\ outbox' = [outbox EXCEPT ![w] = outbox'[w]]
           /\ published' = [published EXCEPT ![k] = Append(@, s)]
           /\ engine' = [engine EXCEPT ![w] = [engine[w] EXCEPT ![k] = s]]
           /\ UNCHANGED <<normalized, nextEvent, reorgs, nextReorg, saved, pc, mem, inbox, bounds>>
    BY <1>2, PublishUpdateEffect
  <2>2. published' \in [Keys -> Seq(T!KeyState)]
    BY <2>1 DEF TypeOK, T!KeyState
  <2>3. engine' \in [Workers -> [Keys -> T!KeyState]]
    BY <2>1 DEF TypeOK, T!KeyState
  <2>4. outbox' \in [Workers -> [notice : SUBSET T!Notice, updates : T!Batch]]
    <3>1. outbox' = [outbox EXCEPT ![w].updates = outbox'[w].updates]
      <4>1. PICK u \in NextUpdates(outbox[w].updates) :
               outbox' = [outbox EXCEPT ![w].updates[u[2]] = @ \ {u[1]}]
        BY <1>2 DEF PublishUpdate
      <4> DEFINE c == [outbox[w].updates EXCEPT ![u[2]] = @ \ {u[1]}]
      <4>2. outbox' = [outbox EXCEPT ![w].updates = c]
        BY <4>1
      <4>3. outbox'[w].updates = c
        BY <4>2 DEF TypeOK
      <4> QED
        BY <4>2, <4>3
    <3> QED
      BY <2>1, <3>1 DEF TypeOK
  <2>5. count' \in [Workers -> Nat]
    BY <1>2 DEF PublishUpdate, TypeOK
  <2>6. TypeOK'
    BY <2>1, <2>2, <2>3, <2>4, <2>5 DEF TypeOK, bounds
  <2> QED
    BY <1>0, <2>1, <2>6 DEF Local, Publishing
<1>3. CASE Ack(w)
  <2>1. /\ inbox' = [inbox EXCEPT ![w] = Tail(inbox[w])]
        /\ pc' = [pc EXCEPT ![w] = IF pc[w] = "event_out" THEN "event" ELSE "notice"]
        /\ outbox[w] = NothingToPublish
        /\ UNCHANGED <<streams, saved, mem, engine, outbox, count, bounds>>
    BY <1>3 DEF Ack
  <2>2. /\ Tail(inbox[w]) \in Seq(Feed \cup T!Notice)
        /\ pc[w] = "event_out" => Tail(inbox[w]) \in Seq(Feed)
        /\ pc[w] = "notice_out" => Tail(inbox[w]) \in Seq(T!Notice)
    BY <1>0 DEF Local, TypeOK
  <2>3. TypeOK'
    BY <2>1, <2>2 DEF TypeOK, streams, bounds, PC
  <2>4. inbox'[w] = Tail(inbox[w]) /\ pc'[w] = IF pc[w] = "event_out" THEN "event" ELSE "notice"
    BY <2>1 DEF TypeOK
  <2> QED
    BY <1>0, <2>1, <2>2, <2>3, <2>4 DEF Local, Publishing
<1> QED
  BY <1>1, <1>2, <1>3

\* The rest of the loop, shutdown, crash and restart keep the types.
LEMMA LoopTypes ==
    ASSUME TypeOK, Shape, NEW w \in Workers,
           BatchDone(w) \/ Persist(w) \/ Loop(w) \/ Start(w) \/ Stop(w) \/ Crash(w)
    PROVE  TypeOK' /\ Local(w)' /\ AtMostOne(saved')
<1>0. Local(w) /\ AtMostOne(saved) /\ mem[w] \subseteq T!Tracker
  BY DEF Shape, TypeOK
<1>1. AtMostOne(saved') /\ saved' \subseteq T!Tracker
  <2>1. saved' = saved \/ saved' = mem[w]
    BY DEF BatchDone, Persist, Loop, Start, Stop, Crash, Exit, SaveTracker, SaveFinalityState
  <2> QED
    BY <1>0, <2>1 DEF TypeOK, Local
<1>2. CASE BatchDone(w) \/ Loop(w) \/ Start(w) \/ Persist(w)
  <2>1. /\ UNCHANGED <<streams, mem, engine, inbox, outbox, bounds>>
        /\ ~Publishing(w)
        /\ \/ pc' = [pc EXCEPT ![w] = IF pc[w] = "event" THEN "reorgs" ELSE "persist"]
           \/ pc' = [pc EXCEPT ![w] = "events"]
           \/ pc' = [pc EXCEPT ![w] = "loop"]
    BY <1>2 DEF BatchDone, Loop, Start, Persist, Publishing
  <2>2. count' \in [Workers -> Nat]
    BY <1>2 DEF BatchDone, Loop, Start, Persist, TypeOK
  <2>3. TypeOK'
    BY <1>1, <2>1, <2>2 DEF TypeOK, streams, bounds, PC
  <2>4. pc'[w] \in {"reorgs", "persist", "events", "loop"}
    BY <2>1 DEF TypeOK
  <2> QED
    BY <1>0, <1>1, <2>1, <2>3, <2>4 DEF Local, Publishing
<1>3. CASE Stop(w) \/ Crash(w)
  <2>1. Exit(w) /\ crashes' \in 0..MaxCrashes /\ stops' \in 0..MaxStops
    BY <1>3, WorkerAssumption DEF Stop, Crash, TypeOK
  <2>2. TypeOK'
    BY <1>1, <2>1, InitialTypes DEF Exit, TypeOK, streams, PC
  <2>3. pc'[w] = "down" /\ mem'[w] = {} /\ outbox'[w] = NothingToPublish
    BY <2>1 DEF Exit, TypeOK
  <2> QED
    BY <1>1, <2>2, <2>3 DEF Local, Publishing, AtMostOne
<1> QED
  BY <1>2, <1>3

\* Every step keeps the types, and what the position of a process says.
LEMMA TypeStep ==
    ASSUME TypeOK, Shape, [Next]_vars
    PROVE  TypeOK' /\ Shape'
<1>1. ASSUME NEW e \in Feed, Produce(e) PROVE TypeOK' /\ Shape'
  <2>1. normalized' \in Seq(Feed) /\ nextEvent' \in 0..Len(normalized')
    BY <1>1 DEF Produce, TypeOK
  <2>2. UNCHANGED <<reorgs, nextReorg, published, saved, pc, mem, engine, inbox, outbox, count,
                    crashes, stops>>
    BY <1>1 DEF Produce, procs, bounds
  <2>3. TypeOK'
    BY <2>1, <2>2 DEF TypeOK
  <2>4. Shape'
    BY <2>2 DEF Shape, Local, Publishing, AtMostOne
  <2> QED
    BY <2>3, <2>4
<1>2. ASSUME NEW w \in Workers, Step(w) \/ Stop(w) \/ Crash(w) PROVE TypeOK' /\ Shape'
  <2>1. TypeOK' /\ Local(w)' /\ AtMostOne(saved')
    <3>1. CASE ReadEvents(w) \/ ReadReorgs(w)
      <4>1. saved' = saved
        BY <3>1 DEF ReadEvents, ReadReorgs
      <4> QED
        BY <3>1, <4>1, ReadTypes DEF Shape
    <3>2. CASE LoadTracker(w) \/ Observe(w) \/ ApplyNotice(w)
      <4>1. saved' = saved
        BY <3>2 DEF LoadTracker, Observe, ApplyNotice
      <4> QED
        BY <3>2, <4>1, TrackerTypes DEF Shape
    <3>3. CASE PublishNotice(w) \/ PublishUpdate(w) \/ Ack(w)
      <4>1. saved' = saved
        BY <3>3 DEF PublishNotice, PublishUpdate, Ack
      <4> QED
        BY <3>3, <4>1, PublishTypes DEF Shape
    <3>4. CASE BatchDone(w) \/ Persist(w) \/ Loop(w) \/ Start(w) \/ Stop(w) \/ Crash(w)
      BY <3>4, LoopTypes
    <3> QED
      BY <1>2, <3>1, <3>2, <3>3, <3>4 DEF Step
  <2>2. ASSUME NEW v \in Workers, v # w PROVE Local(v)'
    <3>1. pc'[v] = pc[v] /\ mem'[v] = mem[v] /\ inbox'[v] = inbox[v] /\ outbox'[v] = outbox[v]
      BY <1>2, <2>2, StepIsLocal DEF Alone
    <3>2. Local(v)
      BY DEF Shape
    <3> QED
      BY <3>1, <3>2 DEF Local, Publishing
  <2> QED
    BY <2>1, <2>2 DEF Shape
<1>3. CASE UNCHANGED vars
  <2>1. UNCHANGED <<normalized, nextEvent, reorgs, nextReorg, published, saved, pc, mem, engine,
                    inbox, outbox, count, crashes, stops>>
    BY <1>3 DEF vars, streams, procs, bounds
  <2> QED
    BY <2>1 DEF TypeOK, Shape, Local, Publishing, AtMostOne
<1> QED
  BY <1>1, <1>2, <1>3 DEF Next

\* Types and shape together are inductive.
THEOREM ShapeHolds == Spec => [](TypeOK /\ Shape)
<1>1. Init => TypeOK /\ Shape
  <2> SUFFICES ASSUME Init PROVE TypeOK /\ Shape
    OBVIOUS
  <2>1. TypeOK
    BY InitialTypes, WorkerAssumption DEF Init, TypeOK, PC
  <2>2. Shape
    BY DEF Init, Shape, Local, Publishing, AtMostOne
  <2> QED
    BY <2>1, <2>2
<1>2. TypeOK /\ Shape /\ [Next]_vars => TypeOK' /\ Shape'
  BY TypeStep
<1> QED
  BY <1>1, <1>2, PTL DEF Spec

\* Every variable of the worker keeps its type, whatever the processes do.
THEOREM TypeCorrect == Spec => []TypeOK
  BY ShapeHolds, PTL

-----------------------------------------------------------------------------
(***************************************************************************)
(* What is decided, what is published, and what the engine knows.          *)
(***************************************************************************)
Pending(w) == outbox[w].updates.retracted \cup outbox[w].updates.provisional
              \cup outbox[w].updates.confirmed

\* The updates a process still has to publish lead to the states its tracker
\* has, and a notice it still has to publish names retracted keys.
OutboxFits(w) ==
    \A t \in mem[w] :
        /\ \A k \in outbox[w].updates.retracted : t.states[k] = "retracted"
        /\ \A k \in outbox[w].updates.provisional :
              t.states[k] = IF k \in outbox[w].updates.confirmed THEN "confirmed" ELSE "provisional"
        /\ \A k \in outbox[w].updates.confirmed : t.states[k] = "confirmed"
        /\ \A n \in outbox[w].notice : \A k \in n.keys : t.states[k] = "retracted"

\* What the engine knows of a key is what the tracker says, up to updates that
\* are still to be applied.
EngineFits(w) ==
    \A k \in Keys : engine[w][k] # "none" =>
        /\ mem[w] # {}
        /\ \A t \in mem[w] : engine[w][k] = t.states[k] \/ k \in Pending(w)

\* What the tracker says of a key was published, up to updates still in the outbox.
Told(w) ==
    \A t \in mem[w] : \A k \in Keys :
        t.states[k] = "none" \/ t.states[k] \in PublishedStates(k) \/ k \in Pending(w)

Fits(w) == OutboxFits(w) /\ EngineFits(w) /\ Told(w)

\* The inductive invariant: SnapshotPublished holds because a process saves
\* only when its outbox is empty, which needs what the tracker says between
\* deciding and publishing.
PublishInv == SnapshotPublished /\ \A w \in Workers : Fits(w)

\* An idle process has nothing pending.
LEMMA IdleHasNothing ==
    ASSUME NEW w \in Workers, outbox[w] = NothingToPublish
    PROVE  Pending(w) = {} /\ outbox[w].notice = {}
  BY DEF Pending, NothingToPublish, T!EmptyBatch

\* What observe_event and apply_reorg_notice report of a key agrees with what
\* they do to it.
LEMMA OperationReports ==
    ASSUME NEW t \in T!Tracker, NEW k \in Keys
    PROVE  /\ \A e \in T!Event :
                LET u == T!ObserveUpdates(t, e)
                    s == t.states[k]
                    r == T!ObserveTracker(t, e).states[k]
                IN  /\ k \in u.retracted => /\ s # "retracted" /\ r = "retracted"
                                            /\ k \in T!CollectAffectedKeys(t, e.block)
                                            /\ k \notin u.provisional /\ k \notin u.confirmed
                    /\ k \in u.provisional => /\ s = "none"
                                              /\ r = IF k \in u.confirmed THEN "confirmed"
                                                     ELSE "provisional"
                    /\ k \in u.confirmed => /\ r = "confirmed"
                                            /\ s = IF k \in u.provisional THEN "none"
                                                   ELSE "provisional"
                    /\ k \notin u.retracted \cup u.provisional \cup u.confirmed => r = s
                    /\ s = "retracted" => r = "retracted"
                    /\ /\ T!DetectConflictingHash(t, e)
                       /\ k \in T!ObserveNotice(t, e).keys
                       => r = "retracted"
           /\ \A n \in T!Notice :
                LET u == T!ApplyNoticeUpdates(t, n)
                    r == T!ApplyNoticeTracker(t, n).states[k]
                IN  /\ k \in u.retracted <=> k \in n.keys /\ t.states[k] # "retracted"
                    /\ u.provisional = {} /\ u.confirmed = {}
                    /\ r = IF k \in n.keys THEN "retracted" ELSE t.states[k]
<1>0. P!TrackerAssumption /\ t \in P!Tracker
  BY SameOperators
<1>1. ASSUME NEW e \in P!Event
      PROVE  LET u == P!ObserveUpdates(t, e)
                 s == t.states[k]
                 r == P!ObserveTracker(t, e).states[k]
             IN  /\ k \in u.retracted => /\ s # "retracted" /\ r = "retracted"
                                         /\ k \in P!CollectAffectedKeys(t, e.block)
                                         /\ k \notin u.provisional /\ k \notin u.confirmed
                 /\ k \in u.provisional => /\ s = "none"
                                           /\ r = IF k \in u.confirmed THEN "confirmed"
                                                  ELSE "provisional"
                 /\ k \in u.confirmed => /\ r = "confirmed"
                                         /\ s = IF k \in u.provisional THEN "none"
                                                ELSE "provisional"
                 /\ k \notin u.retracted \cup u.provisional \cup u.confirmed => r = s
  BY <1>0, P!ObserveReports
<1>2. ASSUME NEW e \in P!Event
      PROVE  LET r == P!ObserveTracker(t, e).states[k]
             IN  /\ t.states[k] = "retracted" => r = "retracted"
                 /\ /\ P!DetectConflictingHash(t, e)
                    /\ k \in P!ObserveNotice(t, e).keys
                    => r = "retracted"
  BY <1>0, P!ObserveFacts DEF P!ObserveNotice
<1>3. ASSUME NEW n \in P!Notice
      PROVE  LET u == P!ApplyNoticeUpdates(t, n)
                 r == P!ApplyNoticeTracker(t, n).states[k]
             IN  /\ k \in u.retracted <=> k \in n.keys /\ t.states[k] # "retracted"
                 /\ u.provisional = {} /\ u.confirmed = {}
                 /\ r = IF k \in n.keys THEN "retracted" ELSE t.states[k]
  BY <1>0, P!ApplyNoticeReports
<1> QED
  BY <1>1, <1>2, <1>3, SameOperators

\* The stream of updates only grows.
LEMMA PublishedGrows ==
    ASSUME TypeOK, Shape, [Next]_vars, NEW k \in Keys
    PROVE  PublishedStates(k) \subseteq PublishedStates(k)'
<1>1. published' = published
      \/ \E j \in Keys, s \in T!KeyState : published' = [published EXCEPT ![j] = Append(@, s)]
  <2>1. ASSUME NEW w \in Workers, PublishUpdate(w)
        PROVE  \E j \in Keys, s \in T!KeyState : published' = [published EXCEPT ![j] = Append(@, s)]
    <3>1. PICK j \in Keys, s \in {"retracted", "provisional", "confirmed"} :
             published' = [published EXCEPT ![j] = Append(@, s)]
      BY <2>1, PublishUpdateEffect
    <3>2. s \in T!KeyState
      BY DEF T!KeyState
    <3> QED
      BY <3>1, <3>2
  <2>2. ASSUME NEW w \in Workers, ~PublishUpdate(w), Step(w) \/ Stop(w) \/ Crash(w)
        PROVE  published' = published
    BY <2>2 DEF Step, ReadEvents, LoadTracker, Observe, PublishNotice, Ack, BatchDone, ReadReorgs,
                ApplyNotice, Persist, Loop, Start, Stop, Crash, Exit, streams
  <2> QED
    BY <2>1, <2>2 DEF Next, Produce, vars, streams
<1>2. published[k] \in Seq(T!KeyState)
  BY DEF TypeOK
<1>3. Len(published[k]) <= Len(published'[k])
      /\ \A i \in 1..Len(published[k]) : published'[k][i] = published[k][i]
  <2>1. ASSUME NEW j \in Keys, NEW s \in T!KeyState,
               published' = [published EXCEPT ![j] = Append(@, s)]
        PROVE  published'[k] = published[k] \/ published'[k] = Append(published[k], s)
    BY <2>1 DEF TypeOK
  <2> QED
    BY <1>1, <1>2, <2>1
<1>4. Len(published[k]) \in Nat /\ Len(published'[k]) \in Nat
  <2>1. TypeOK'
    BY TypeStep
  <2>2. published'[k] \in Seq(T!KeyState)
    BY <2>1 DEF TypeOK
  <2> QED
    BY <1>2, <2>2
<1>5. ASSUME NEW i \in 1..Len(published[k])
      PROVE  i \in 1..Len(published'[k]) /\ published'[k][i] = published[k][i]
  BY <1>3, <1>4
<1> QED
  BY <1>5 DEF PublishedStates

\* Fits reads a process's tracker, engine and outbox, and a stream that grows.
LEMMA FitsFrame ==
    ASSUME TypeOK, Shape, [Next]_vars, NEW v \in Workers, Fits(v),
           mem'[v] = mem[v], engine'[v] = engine[v], outbox'[v] = outbox[v]
    PROVE  Fits(v)'
<1>1. Pending(v)' = Pending(v)
  BY DEF Pending
<1>2. OutboxFits(v)' /\ EngineFits(v)'
  BY <1>1 DEF Fits, OutboxFits, EngineFits
<1>3. \A k \in Keys : PublishedStates(k) \subseteq PublishedStates(k)'
  BY PublishedGrows
<1>4. Told(v)'
  BY <1>1, <1>3 DEF Fits, Told
<1> QED
  BY <1>2, <1>4 DEF Fits

\* A loaded tracker says what the row says, and the row was published; the
\* engine of a process without a tracker knows nothing.
LEMMA LoadFits ==
    ASSUME TypeOK, Shape, PublishInv, NEW w \in Workers, LoadTracker(w)
    PROVE  Fits(w)'
<1>1. outbox[w] = NothingToPublish /\ mem[w] = {} /\ Fits(w)
  BY DEF LoadTracker, Shape, Local, Publishing, PublishInv
<1>2. outbox' = outbox /\ engine' = engine /\ published' = published
  BY DEF LoadTracker, streams
<1>3. Pending(w)' = {} /\ outbox'[w].notice = {} /\ outbox'[w].updates = T!EmptyBatch
  BY <1>1, <1>2, IdleHasNothing DEF Pending, NothingToPublish
<1>4. mem'[w] \subseteq saved \cup {T!NewTracker}
  <2>1. PICK ok : mem' = [mem EXCEPT ![w] = IF LoadTrackerFromDb(ok) # {} THEN LoadTrackerFromDb(ok)
                                            ELSE Some(T!NewTracker)]
    BY DEF LoadTracker
  <2> QED
    BY <2>1 DEF TypeOK, LoadTrackerFromDb, LoadFinalityState, Some
<1>5. \A k \in Keys : engine'[w][k] = "none"
  BY <1>1, <1>2 DEF Fits, EngineFits
<1>6. Told(w)'
  <2> SUFFICES ASSUME NEW t \in mem'[w], NEW k \in Keys, t.states[k] # "none"
               PROVE  t.states[k] \in PublishedStates(k)'
    BY DEF Told
  <2>1. t \in saved
    BY <1>4 DEF T!NewTracker
  <2> QED
    BY <1>2, <2>1 DEF PublishInv, SnapshotPublished, PublishedStates
<1>7. OutboxFits(w)'
  BY <1>3 DEF OutboxFits, T!EmptyBatch
<1> QED
  BY <1>5, <1>6, <1>7 DEF Fits, EngineFits

\* observe_event changes exactly the keys it reports, so what the engine and
\* the subscribers know stays true of every other key.
LEMMA ObserveFits ==
    ASSUME TypeOK, Shape, PublishInv, NEW w \in Workers, Observe(w)
    PROVE  Fits(w)'
<1> DEFINE t == The(mem[w])
           e == Head(inbox[w])
           c == T!ObserveTracker(t, e)
           u == T!ObserveUpdates(t, e)
<1>1. /\ outbox[w] = NothingToPublish /\ mem[w] = {t} /\ t \in T!Tracker /\ e \in T!Event /\ Fits(w)
  <2>1. pc[w] = "event" /\ inbox[w] # <<>> /\ mem[w] # {} /\ Local(w)
    BY DEF Observe, Shape
  <2>2. inbox[w] \in Seq(Feed) /\ outbox[w] = NothingToPublish
    BY <2>1 DEF Local, Publishing
  <2> QED
    BY <2>1, <2>2, TheOne, WorkerAssumption DEF Local, PublishInv
<1>2. Pending(w) = {}
  BY <1>1, IdleHasNothing
<1>3. /\ mem'[w] = {c} /\ engine' = engine /\ published' = published
      /\ outbox'[w].updates = u
      /\ outbox'[w].notice = IF T!DetectConflictingHash(t, e) THEN {T!ObserveNotice(t, e)} ELSE {}
  BY DEF Observe, TypeOK, Some, streams
<1>4. u \in T!Batch /\ T!ObserveNotice(t, e) \in T!Notice
  BY <1>1, OperationTypes
<1>5. Pending(w)' = u.retracted \cup u.provisional \cup u.confirmed
  BY <1>3 DEF Pending
<1>6. ASSUME NEW k \in Keys
      PROVE  /\ k \in u.retracted => c.states[k] = "retracted"
             /\ k \in u.provisional => c.states[k] = IF k \in u.confirmed THEN "confirmed"
                                                     ELSE "provisional"
             /\ k \in u.confirmed => c.states[k] = "confirmed"
             /\ k \notin Pending(w)' => c.states[k] = t.states[k]
             /\ T!DetectConflictingHash(t, e) /\ k \in T!ObserveNotice(t, e).keys
                => c.states[k] = "retracted"
  BY <1>1, <1>5, OperationReports
<1> HIDE DEF t, e, c, u
<1>7. OutboxFits(w)'
  <2>1. \A k \in u.retracted \cup u.provisional \cup u.confirmed : k \in Keys
    BY <1>4 DEF T!Batch
  <2>2. \A n \in outbox'[w].notice : \A k \in n.keys :
           /\ k \in Keys /\ T!DetectConflictingHash(t, e) /\ k \in T!ObserveNotice(t, e).keys
    BY <1>3, <1>4 DEF T!Notice
  <2> QED
    BY <1>3, <1>6, <2>1, <2>2 DEF OutboxFits
<1>8. EngineFits(w)'
  BY <1>1, <1>2, <1>3, <1>6 DEF EngineFits, Fits
<1>9. Told(w)'
  <2>1. \A k \in Keys : PublishedStates(k)' = PublishedStates(k)
    BY <1>3 DEF PublishedStates
  <2> QED
    BY <1>1, <1>2, <1>3, <1>6, <2>1 DEF Told, Fits
<1> QED
  BY <1>7, <1>8, <1>9 DEF Fits

\* apply_reorg_notice, with or without a tracker: the engine withdraws the keys
\* the notice names, and so does the tracker.
LEMMA ApplyNoticeFits ==
    ASSUME TypeOK, Shape, PublishInv, NEW w \in Workers, ApplyNotice(w)
    PROVE  Fits(w)'
<1> DEFINE t == IF mem[w] = {} THEN T!NewTracker ELSE The(mem[w])
           n == Head(inbox[w])
           c == T!ApplyNoticeTracker(t, n)
           u == T!ApplyNoticeUpdates(t, n)
<1>1. /\ outbox[w] = NothingToPublish /\ n \in T!Notice /\ Fits(w) /\ t \in T!Tracker
      /\ mem[w] = {} \/ mem[w] = {t}
  <2>1. pc[w] = "notice" /\ inbox[w] # <<>> /\ Local(w)
    BY DEF ApplyNotice, Shape
  <2>2. inbox[w] \in Seq(T!Notice) /\ outbox[w] = NothingToPublish
    BY <2>1 DEF Local, Publishing
  <2> QED
    BY <2>1, <2>2, TheOne, InitialTypes DEF Local, PublishInv
<1>2. Pending(w) = {} /\ outbox[w].notice = {}
  BY <1>1, IdleHasNothing
<1>3. \A k \in Keys : mem[w] = {} => t.states[k] = "none"
  BY DEF T!NewTracker
<1>4. /\ mem'[w] = {c} /\ published' = published
      /\ engine'[w] = HandleReorgNotice(engine[w], n)
      /\ outbox'[w].updates = u /\ outbox'[w].notice = {}
  <2>1. outbox' = [outbox EXCEPT ![w] = [outbox[w] EXCEPT !.updates = u]]
    BY DEF ApplyNotice
  <2>2. outbox'[w] = [outbox[w] EXCEPT !.updates = u]
    BY <2>1 DEF TypeOK
  <2>3. outbox'[w].updates = u /\ outbox'[w].notice = {}
    BY <1>2, <2>2 DEF TypeOK
  <2> QED
    BY <2>3 DEF ApplyNotice, TypeOK, Some, streams
<1>5. \A k \in Keys : engine'[w][k] = IF k \in n.keys THEN "retracted" ELSE engine[w][k]
  BY <1>4 DEF HandleReorgNotice
<1>6. u \in T!Batch
  BY <1>1, OperationTypes
<1>7. ASSUME NEW k \in Keys
      PROVE  /\ k \in u.retracted <=> k \in n.keys /\ t.states[k] # "retracted"
             /\ u.provisional = {} /\ u.confirmed = {}
             /\ c.states[k] = IF k \in n.keys THEN "retracted" ELSE t.states[k]
  BY <1>1, OperationReports
<1>8. Pending(w)' = u.retracted \cup u.provisional \cup u.confirmed
  BY <1>4 DEF Pending
<1> HIDE DEF t, n, c, u
<1>9. OutboxFits(w)'
  <2>1. \A k \in u.retracted \cup u.provisional \cup u.confirmed : k \in Keys
    BY <1>6 DEF T!Batch
  <2> QED
    BY <1>4, <1>7, <2>1 DEF OutboxFits
<1>10. EngineFits(w)'
  <2>1. \A k \in Keys : engine[w][k] # "none" => engine[w][k] = t.states[k]
    BY <1>1, <1>2 DEF EngineFits, Fits
  <2> QED
    BY <1>4, <1>5, <1>7, <2>1 DEF EngineFits
<1>11. Told(w)'
  <2>1. \A k \in Keys : PublishedStates(k)' = PublishedStates(k)
    BY <1>4 DEF PublishedStates
  <2>2. \A k \in Keys : t.states[k] = "none" \/ t.states[k] \in PublishedStates(k)
    BY <1>1, <1>2, <1>3 DEF Told, Fits
  <2> QED
    BY <1>4, <1>7, <1>8, <2>1, <2>2 DEF Told
<1> QED
  BY <1>9, <1>10, <1>11 DEF Fits

\* Publishing a notice tells the engine of keys the tracker has retracted.
LEMMA PublishNoticeFits ==
    ASSUME TypeOK, Shape, PublishInv, NEW w \in Workers, PublishNotice(w)
    PROVE  Fits(w)'
<1> DEFINE n == The(outbox[w].notice)
<1>1. Fits(w) /\ mem[w] # {} /\ AtMostOne(mem[w]) /\ n \in outbox[w].notice
  BY DEF PublishNotice, Shape, Local, Publishing, PublishInv, The
<1>2. /\ mem' = mem /\ published' = published
      /\ engine'[w] = HandleReorgNotice(engine[w], n)
      /\ outbox'[w].updates = outbox[w].updates /\ outbox'[w].notice = {}
  <2>1. outbox' = [outbox EXCEPT ![w] = [outbox[w] EXCEPT !.notice = {}]]
    BY DEF PublishNotice
  <2>2. outbox'[w] = [outbox[w] EXCEPT !.notice = {}]
    BY <2>1 DEF TypeOK
  <2>3. outbox'[w].updates = outbox[w].updates /\ outbox'[w].notice = {}
    BY <2>2 DEF TypeOK
  <2> QED
    BY <2>3 DEF PublishNotice, TypeOK
<1>3. \A k \in Keys : engine'[w][k] = IF k \in n.keys THEN "retracted" ELSE engine[w][k]
  BY <1>2 DEF HandleReorgNotice
<1>4. \A t \in mem[w] : \A k \in n.keys : t.states[k] = "retracted"
  BY <1>1 DEF Fits, OutboxFits
<1> HIDE DEF n
<1>5. Pending(w)' = Pending(w) /\ \A k \in Keys : PublishedStates(k)' = PublishedStates(k)
  BY <1>2 DEF Pending, PublishedStates
<1>6. OutboxFits(w)' /\ Told(w)'
  BY <1>1, <1>2, <1>5 DEF Fits, OutboxFits, Told
<1>7. EngineFits(w)'
  BY <1>1, <1>2, <1>3, <1>4, <1>5 DEF Fits, EngineFits
<1> QED
  BY <1>6, <1>7 DEF Fits

\* Publishing an update: a key leaves the outbox for good when the state
\* published is the state the tracker has.
LEMMA PublishUpdateFits ==
    ASSUME TypeOK, Shape, PublishInv, [Next]_vars, NEW w \in Workers, PublishUpdate(w)
    PROVE  Fits(w)'
<1> DEFINE b == outbox[w].updates
           c == outbox'[w].updates
<1>1. Fits(w) /\ mem[w] # {} /\ AtMostOne(mem[w])
  BY DEF PublishUpdate, Shape, Local, Publishing, PublishInv
<1>2. PICK k \in Keys, s \in {"retracted", "provisional", "confirmed"} :
         /\ b \in T!Batch /\ c \in T!Batch /\ k \in b[s]
         /\ s = "provisional" => b.retracted = {}
         /\ s = "confirmed" => b.retracted = {} /\ b.provisional = {}
         /\ c.retracted = IF s = "retracted" THEN b.retracted \ {k} ELSE b.retracted
         /\ c.provisional = IF s = "provisional" THEN b.provisional \ {k} ELSE b.provisional
         /\ c.confirmed = IF s = "confirmed" THEN b.confirmed \ {k} ELSE b.confirmed
         /\ outbox'[w].notice = {}
         /\ published' = [published EXCEPT ![k] = Append(@, s)]
         /\ engine' = [engine EXCEPT ![w] = [engine[w] EXCEPT ![k] = s]]
         /\ mem' = mem
  BY PublishUpdateEffect
<1>3. \A t \in mem[w] :
         /\ \A j \in b.retracted : t.states[j] = "retracted"
         /\ \A j \in b.provisional : t.states[j] = IF j \in b.confirmed THEN "confirmed" ELSE "provisional"
         /\ \A j \in b.confirmed : t.states[j] = "confirmed"
  BY <1>1 DEF Fits, OutboxFits
<1>4. Pending(w) = b.retracted \cup b.provisional \cup b.confirmed
      /\ Pending(w)' = c.retracted \cup c.provisional \cup c.confirmed
  BY DEF Pending
<1> HIDE DEF b, c
<1>5. \A t \in mem[w] : k \in Pending(w)' \/ t.states[k] = s
  BY <1>2, <1>3, <1>4
<1>6. \A j \in Keys : j # k /\ j \in Pending(w) => j \in Pending(w)'
  BY <1>2, <1>4
<1>7. OutboxFits(w)'
  <2>1. \A t \in mem[w] :
           /\ \A j \in c.retracted : t.states[j] = "retracted"
           /\ \A j \in c.provisional : t.states[j] = IF j \in c.confirmed THEN "confirmed" ELSE "provisional"
           /\ \A j \in c.confirmed : t.states[j] = "confirmed"
    BY <1>2, <1>3
  <2> QED
    BY <1>2, <2>1 DEF OutboxFits, c
<1>8. EngineFits(w)'
  <2>1. \A j \in Keys : engine'[w][j] = IF j = k THEN s ELSE engine[w][j]
    BY <1>2 DEF TypeOK
  <2> QED
    BY <1>1, <1>2, <1>5, <1>6, <2>1 DEF Fits, EngineFits
<1>9. Told(w)'
  <2>1. \A j \in Keys : PublishedStates(j) \subseteq PublishedStates(j)'
    BY PublishedGrows
  <2>2. s \in PublishedStates(k)'
    <3>1. published'[k] = Append(published[k], s) /\ published[k] \in Seq(T!KeyState)
      BY <1>2 DEF TypeOK
    <3>2. Len(published'[k]) \in 1..Len(published'[k]) /\ published'[k][Len(published'[k])] = s
      BY <3>1 DEF T!KeyState
    <3> QED
      BY <3>2 DEF PublishedStates
  <2> QED
    BY <1>1, <1>2, <1>5, <1>6, <2>1, <2>2 DEF Fits, Told
<1> QED
  BY <1>7, <1>8, <1>9 DEF Fits

\* Every step of every process keeps the invariant; the row changes only to the
\* tracker of a process whose outbox is empty.
LEMMA PublishInvStep ==
    ASSUME TypeOK, Shape, PublishInv, [Next]_vars
    PROVE  PublishInv'
<1>1. SnapshotPublished'
  <2>1. saved' = saved
        \/ \E w \in Workers : saved' = mem[w] /\ pc[w] \in {"persist", "loop"}
    BY DEF Next, Produce, Step, ReadEvents, LoadTracker, Observe, PublishNotice, PublishUpdate, Ack,
           BatchDone, ReadReorgs, ApplyNotice, Persist, Loop, Start, Stop, Crash, SaveTracker,
           SaveFinalityState, vars
  <2>2. \A t \in saved' : \A k \in Keys : t.states[k] # "none" => t.states[k] \in PublishedStates(k)
    <3>1. CASE saved' = saved
      BY <3>1 DEF PublishInv, SnapshotPublished
    <3>2. ASSUME NEW w \in Workers, saved' = mem[w], pc[w] \in {"persist", "loop"}
          PROVE  \A t \in saved' : \A k \in Keys :
                    t.states[k] # "none" => t.states[k] \in PublishedStates(k)
      <4>1. Pending(w) = {}
        BY <3>2, IdleHasNothing DEF Shape, Local, Publishing
      <4> QED
        BY <3>2, <4>1 DEF PublishInv, Fits, Told
    <3> QED
      BY <2>1, <3>1, <3>2
  <2>3. \A k \in Keys : PublishedStates(k) \subseteq PublishedStates(k)'
    BY PublishedGrows
  <2> QED
    BY <2>2, <2>3 DEF SnapshotPublished
<1>2. ASSUME NEW v \in Workers PROVE Fits(v)'
  <2>0. Fits(v)
    BY DEF PublishInv
  <2>1. ASSUME NEW e \in Feed, Produce(e) PROVE Fits(v)'
    BY <2>0, <2>1, FitsFrame DEF Produce, procs
  <2>2. CASE UNCHANGED vars
    BY <2>0, <2>2, FitsFrame DEF vars, procs
  <2>3. ASSUME NEW w \in Workers, Step(w) \/ Stop(w) \/ Crash(w) PROVE Fits(v)'
    <3>1. CASE v # w
      <4>1. mem'[v] = mem[v] /\ engine'[v] = engine[v] /\ outbox'[v] = outbox[v]
        BY <2>3, <3>1, StepIsLocal DEF Alone
      <4> QED
        BY <2>0, <4>1, FitsFrame
    <3>2. CASE v = w
      <4>1. CASE LoadTracker(w)
        BY <3>2, <4>1, LoadFits
      <4>2. CASE Observe(w)
        BY <3>2, <4>2, ObserveFits
      <4>3. CASE ApplyNotice(w)
        BY <3>2, <4>3, ApplyNoticeFits
      <4>4. CASE PublishNotice(w)
        BY <3>2, <4>4, PublishNoticeFits
      <4>5. CASE PublishUpdate(w)
        BY <3>2, <4>5, PublishUpdateFits
      <4>6. CASE \/ ReadEvents(w) \/ Ack(w) \/ BatchDone(w) \/ ReadReorgs(w)
                 \/ Persist(w) \/ Loop(w) \/ Start(w)
        <5>1. mem' = mem /\ engine' = engine /\ outbox' = outbox
          BY <4>6 DEF ReadEvents, Ack, BatchDone, ReadReorgs, Persist, Loop, Start
        <5> QED
          BY <2>0, <5>1, FitsFrame
      <4>7. CASE Stop(w) \/ Crash(w)
        <5>1. mem'[v] = {} /\ engine'[v] = NoStates
          BY <3>2, <4>7 DEF Stop, Crash, Exit, TypeOK
        <5> QED
          BY <5>1 DEF Fits, OutboxFits, EngineFits, Told, NoStates
      <4> QED
        BY <2>3, <4>1, <4>2, <4>3, <4>4, <4>5, <4>6, <4>7 DEF Step
    <3> QED
      BY <3>1, <3>2
  <2> QED
    BY <2>1, <2>2, <2>3 DEF Next
<1> QED
  BY <1>1, <1>2 DEF PublishInv

\* The invariant holds in every reachable state.
THEOREM PublishInvHolds == Spec => []PublishInv
<1>1. Init => PublishInv
  <2> SUFFICES ASSUME Init PROVE PublishInv
    OBVIOUS
  <2>1. saved = {} /\ \A w \in Workers : mem[w] = {} /\ engine[w] = NoStates
    BY DEF Init
  <2> QED
    BY <2>1 DEF PublishInv, SnapshotPublished, Fits, OutboxFits, EngineFits, Told, NoStates
<1>2. TypeOK /\ Shape /\ PublishInv /\ [Next]_vars => PublishInv'
  BY PublishInvStep
<1> QED
  BY <1>1, <1>2, ShapeHolds, PTL DEF Spec

\* persist_tracker never saves a decision that subscribers have not been told,
\* with any number of processes sharing the row, crashes and failed saves.
THEOREM SnapshotPublishedHolds == Spec => []SnapshotPublished
<1>1. PublishInv => SnapshotPublished
  BY DEF PublishInv
<1> QED
  BY <1>1, PublishInvHolds, PTL

\* Between two batches InMemoryFinalityEngine says of every key it knows what
\* the tracker says.
THEOREM EngineMirrorsTrackerHolds == Spec => []EngineMirrorsTracker
<1>1. TypeOK /\ Shape /\ PublishInv => EngineMirrorsTracker
  <2> SUFFICES ASSUME TypeOK, Shape, PublishInv, NEW w \in Workers,
                      pc[w] \in {"events", "event", "reorgs", "notice", "persist", "loop"},
                      NEW k \in Keys, engine[w][k] # "none"
               PROVE  mem[w] # {} /\ engine[w][k] = The(mem[w]).states[k]
    BY DEF EngineMirrorsTracker
  <2>1. Pending(w) = {} /\ AtMostOne(mem[w])
    BY IdleHasNothing DEF Shape, Local, Publishing
  <2>2. mem[w] # {} /\ \A t \in mem[w] : engine[w][k] = t.states[k]
    BY <2>1 DEF PublishInv, Fits, EngineFits
  <2> QED
    BY <2>1, <2>2, TheOne
<1> QED
  BY <1>1, ShapeHolds, PublishInvHolds, PTL

-----------------------------------------------------------------------------
(***************************************************************************)
(* One process that only stops gracefully implements Lifecycle.            *)
(***************************************************************************)
\* The tracker's word on a key: the one in memory, or else the one to be loaded.
Current(w, k) ==
    IF mem[w] # {} THEN The(mem[w]).states[k]
    ELSE IF saved # {} THEN The(saved).states[k] ELSE "none"

\* Subscribers know what the tracker says, and a pending update is a legal next
\* step of what they know.
HistoryFits(w) ==
    \A k \in Keys :
        /\ k \notin Pending(w) => LastPublished(k) = Current(w, k)
        /\ k \in outbox[w].updates.retracted => LastPublished(k) \in {"provisional", "confirmed"}
        /\ k \in outbox[w].updates.provisional => LastPublished(k) = "none"
        /\ k \in outbox[w].updates.confirmed =>
              k \in outbox[w].updates.provisional \/ LastPublished(k) = "provisional"

\* Notices not yet applied name keys that are retracted already.
NoticesFit(w) ==
    /\ \A i \in nextReorg + 1..Len(reorgs) : \A k \in reorgs[i].keys : Current(w, k) = "retracted"
    /\ pc[w] \in {"notice", "notice_out"} =>
          \A i \in 1..Len(inbox[w]) : \A k \in inbox[w][i].keys : Current(w, k) = "retracted"

\* A batch of events leaves at most a batch of notices, which the second half of
\* the loop reads: a process never starts with notices waiting for it, so it
\* never applies one to the empty tracker of or_insert_with.
NoticesRead(w) ==
    /\ pc[w] \in {"down", "events", "notice", "notice_out", "persist", "loop"}
       => nextReorg = Len(reorgs)
    /\ pc[w] = "event" => Len(reorgs) - nextReorg + Len(inbox[w]) <= BatchSize
    /\ pc[w] = "event_out" =>
          Len(reorgs) - nextReorg + Len(inbox[w]) + (IF outbox[w].notice = {} THEN 0 ELSE 1)
          <= BatchSize + 1
    /\ pc[w] = "reorgs" => Len(reorgs) - nextReorg <= BatchSize
    /\ mem[w] = {} => /\ nextReorg = Len(reorgs)
                      /\ pc[w] \in {"notice", "notice_out"} => inbox[w] = <<>>

KeysKnown(w) == \A t \in mem[w] \cup saved : P!HeldIsKnown(t)

SingleInv(w) == KeysKnown(w) /\ HistoryFits(w) /\ NoticesFit(w) /\ NoticesRead(w)

\* What the proof assumes of the deployment: one process, no crash, a database
\* that answers.  The number of graceful restarts is not bounded.
Graceful(w) == Workers = {w} /\ MaxCrashes = 0 /\ DbFaults = FALSE

Acts(w) == Step(w) \/ Stop(w)

\* The last update of a key is the one appended last.
LEMMA LastAppended ==
    ASSUME TypeOK, NEW k \in Keys, NEW s \in T!KeyState,
           published' = [published EXCEPT ![k] = Append(@, s)]
    PROVE  \A j \in Keys : LastPublished(j)' = IF j = k THEN s ELSE LastPublished(j)
<1>1. published'[k] = Append(published[k], s) /\ published[k] \in Seq(T!KeyState)
  BY DEF TypeOK
<1>2. published'[k] # <<>> /\ published'[k][Len(published'[k])] = s
  <2> DEFINE q == published[k]
             r == published'[k]
  <2>1. q \in Seq(T!KeyState) /\ r = Append(q, s)
    BY <1>1
  <2> HIDE DEF q, r
  <2>2. Len(r) = Len(q) + 1 /\ Len(q) \in Nat /\ r[Len(q) + 1] = s /\ r \in Seq(T!KeyState)
    BY <2>1
  <2>3. r # <<>>
    BY <2>2
  <2> QED
    BY <2>2, <2>3 DEF r
<1>3. \A j \in Keys : j # k => published'[j] = published[j]
  BY DEF TypeOK
<1> QED
  BY <1>2, <1>3 DEF LastPublished

\* Loading, saving and stopping move the tracker's word between memory and row
\* without changing it.
LEMMA CurrentKept ==
    ASSUME NEW w, Graceful(w), TypeOK, Shape, Acts(w), ~Observe(w), ~ApplyNotice(w),
           NEW k \in Keys
    PROVE  Current(w, k)' = Current(w, k)
<1>0. w \in Workers /\ AtMostOne(saved) /\ AtMostOne(mem[w]) /\ {TRUE, ~DbFaults} = {TRUE}
  BY DEF Graceful, Shape, Local
<1>1. CASE LoadTracker(w)
  <2>1. /\ mem[w] = {} /\ saved' = saved
        /\ mem'[w] = IF saved # {} THEN saved ELSE {T!NewTracker}
    BY <1>0, <1>1 DEF LoadTracker, LoadTrackerFromDb, LoadFinalityState, Some, TypeOK
  <2>2. The({T!NewTracker}) = T!NewTracker /\ T!NewTracker.states[k] = "none"
    BY DEF The, T!NewTracker
  <2> QED
    BY <2>1, <2>2 DEF Current
<1>2. CASE Persist(w)
  <2>1. mem' = mem /\ (saved' = saved \/ mem[w] # {})
    BY <1>2 DEF Persist, SaveTracker
  <2> QED
    BY <2>1 DEF Current
<1>3. CASE Stop(w)
  <2>1. mem'[w] = {} /\ saved' = IF mem[w] # {} THEN mem[w] ELSE saved
    BY <1>0, <1>3 DEF Stop, Exit, SaveTracker, SaveFinalityState, TypeOK
  <2> QED
    BY <2>1 DEF Current
<1>4. CASE ~LoadTracker(w) /\ ~Persist(w) /\ ~Stop(w)
  <2>1. mem' = mem /\ saved' = saved
    BY <1>4 DEF Acts, Step, ReadEvents, PublishNotice, PublishUpdate, Ack, BatchDone, ReadReorgs,
                Loop, Start
  <2> QED
    BY <2>1 DEF Current
<1> QED
  BY <1>1, <1>2, <1>3, <1>4

\* Notices name known keys.
LEMMA NoticeKeys ==
    /\ TypeOK => \A i \in nextReorg + 1..Len(reorgs) :
                    i \in 1..Len(reorgs) /\ \A k \in reorgs[i].keys : k \in Keys
    /\ \A s \in Seq(T!Notice) : \A i \in 1..Len(s) : \A k \in s[i].keys : k \in Keys
<1>1. ASSUME NEW s \in Seq(T!Notice), NEW i \in 1..Len(s), NEW k \in s[i].keys PROVE k \in Keys
  <2>1. s[i] \in T!Notice
    OBVIOUS
  <2> QED
    BY <2>1 DEF T!Notice
<1>2. ASSUME TypeOK, NEW i \in nextReorg + 1..Len(reorgs) PROVE i \in 1..Len(reorgs)
  BY <1>2 DEF TypeOK
<1>3. TypeOK => reorgs \in Seq(T!Notice)
  BY DEF TypeOK
<1> QED
  BY <1>1, <1>2, <1>3

\* observe_event turns what subscribers know into the tracker's new word by
\* legal steps, and no key comes back from Retracted.
LEMMA ObserveSingle ==
    ASSUME NEW w, Graceful(w), TypeOK, Shape, PublishInv, SingleInv(w), Observe(w)
    PROVE  SingleInv(w)'
<1> DEFINE t == The(mem[w])
           e == Head(inbox[w])
           c == T!ObserveTracker(t, e)
           u == T!ObserveUpdates(t, e)
<1>1. /\ w \in Workers /\ pc[w] = "event" /\ inbox[w] # <<>> /\ inbox[w] \in Seq(Feed)
      /\ mem[w] = {t} /\ t \in T!Tracker /\ e \in T!Event /\ outbox[w] = NothingToPublish
  <2>1. w \in Workers /\ pc[w] = "event" /\ inbox[w] # <<>> /\ mem[w] # {} /\ Local(w)
    BY DEF Observe, Shape, Graceful
  <2>2. inbox[w] \in Seq(Feed) /\ outbox[w] = NothingToPublish
    BY <2>1 DEF Local, Publishing
  <2> QED
    BY <2>1, <2>2, TheOne, WorkerAssumption DEF Local
<1>2. Pending(w) = {} /\ outbox[w].notice = {}
  BY <1>1, IdleHasNothing
<1>3. /\ mem'[w] = {c} /\ saved' = saved /\ published' = published /\ pc'[w] = "event_out"
      /\ inbox' = inbox /\ reorgs' = reorgs /\ nextReorg' = nextReorg
      /\ outbox'[w].updates = u
      /\ outbox'[w].notice = {} \/ \E n : outbox'[w].notice = {n}
  BY <1>1 DEF Observe, TypeOK, Some, streams
<1>4. \A k \in Keys : Current(w, k) = t.states[k] /\ Current(w, k)' = c.states[k]
  <2>1. The({c}) = c
    BY DEF The
  <2> QED
    BY <1>1, <1>3, <2>1 DEF Current
<1>5. c \in T!Tracker /\ u \in T!Batch /\ P!HeldIsKnown(t) /\ t \in P!Tracker
  BY <1>1, OperationTypes, SameOperators DEF SingleInv, KeysKnown
<1>6. KeysKnown(w)'
  <2>1. P!HeldIsKnown(c)
    BY <1>1, <1>5, SameOperators, P!HeldIsKnownKept
  <2> QED
    BY <1>3, <2>1 DEF SingleInv, KeysKnown
<1>7. \A k \in Keys : /\ LastPublished(k)' = t.states[k] /\ t.states[k] \in T!KeyState
  BY <1>1, <1>2, <1>3, <1>4 DEF SingleInv, HistoryFits, LastPublished, T!Tracker
<1>8. ASSUME NEW k \in Keys
      PROVE  /\ k \in u.retracted => t.states[k] \in {"provisional", "confirmed"}
             /\ k \in u.provisional => t.states[k] = "none"
             /\ k \in u.confirmed => k \in u.provisional \/ t.states[k] = "provisional"
             /\ k \notin u.retracted \cup u.provisional \cup u.confirmed => c.states[k] = t.states[k]
             /\ t.states[k] = "retracted" => c.states[k] = "retracted"
  <2>1. /\ k \in u.retracted => t.states[k] # "retracted" /\ k \in T!CollectAffectedKeys(t, e.block)
        /\ k \in u.provisional => t.states[k] = "none"
        /\ k \in u.confirmed => k \in u.provisional \/ t.states[k] = "provisional"
        /\ k \notin u.retracted \cup u.provisional \cup u.confirmed => c.states[k] = t.states[k]
        /\ t.states[k] = "retracted" => c.states[k] = "retracted"
    BY <1>1, OperationReports
  <2>2. k \in T!CollectAffectedKeys(t, e.block) => t.states[k] # "none"
    BY <1>5 DEF T!CollectAffectedKeys, P!HeldIsKnown, T!Heights, P!Heights
  <2> QED
    BY <1>7, <2>1, <2>2 DEF T!KeyState
<1>9. Pending(w)' = u.retracted \cup u.provisional \cup u.confirmed
  BY <1>3 DEF Pending
<1> HIDE DEF t, e, c, u
<1>10. HistoryFits(w)'
  BY <1>3, <1>4, <1>7, <1>8, <1>9 DEF HistoryFits
<1>11. NoticesFit(w)'
  <2>1. \A i \in nextReorg + 1..Len(reorgs) : \A k \in reorgs[i].keys : k \in Keys
    BY NoticeKeys
  <2> QED
    BY <1>3, <1>4, <1>8, <2>1 DEF SingleInv, NoticesFit
<1>12. NoticesRead(w)'
  <2>1. Len(reorgs) - nextReorg + Len(inbox[w]) <= BatchSize
    BY <1>1 DEF SingleInv, NoticesRead
  <2>2. Len(reorgs) \in Nat /\ nextReorg \in Nat /\ Len(inbox[w]) \in Nat /\ BatchSize \in Nat
    <3>1. /\ \A S, q : q \in Seq(S) => Len(q) \in Nat
          /\ reorgs \in Seq(T!Notice) /\ nextReorg \in 0..Len(reorgs) /\ inbox[w] \in Seq(Feed)
      BY <1>1 DEF TypeOK
    <3> QED
      BY <3>1, WorkerAssumption
  <2>3. Len(reorgs) - nextReorg + Len(inbox[w]) + (IF outbox'[w].notice = {} THEN 0 ELSE 1)
        <= BatchSize + 1
    <3> DEFINE x == IF outbox'[w].notice = {} THEN 0 ELSE 1
    <3>1. x \in 0..1
      OBVIOUS
    <3> HIDE DEF x
    <3>2. Len(reorgs) - nextReorg + Len(inbox[w]) + x <= BatchSize + 1
      BY <2>1, <2>2, <3>1
    <3> QED
      BY <3>2 DEF x
  <2> QED
    BY <1>3, <2>3 DEF NoticesRead
<1> QED
  BY <1>6, <1>10, <1>11, <1>12 DEF SingleInv

\* A notice read back names keys that are retracted: applying it changes no
\* state and reports nothing.
LEMMA ApplyNoticeSingle ==
    ASSUME NEW w, Graceful(w), TypeOK, Shape, PublishInv, SingleInv(w), ApplyNotice(w)
    PROVE  SingleInv(w)'
<1> DEFINE t == The(mem[w])
           n == Head(inbox[w])
           c == T!ApplyNoticeTracker(t, n)
           u == T!ApplyNoticeUpdates(t, n)
<1>1. /\ w \in Workers /\ pc[w] = "notice" /\ inbox[w] # <<>> /\ inbox[w] \in Seq(T!Notice)
      /\ mem[w] = {t} /\ mem[w] # {} /\ t \in T!Tracker /\ n \in T!Notice
      /\ outbox[w] = NothingToPublish
  <2>1. w \in Workers /\ pc[w] = "notice" /\ inbox[w] # <<>> /\ Local(w)
    BY DEF ApplyNotice, Shape, Graceful
  <2>2. inbox[w] \in Seq(T!Notice) /\ outbox[w] = NothingToPublish
    BY <2>1 DEF Local, Publishing
  <2>3. mem[w] # {}
    BY <2>1 DEF SingleInv, NoticesRead
  <2> QED
    BY <2>1, <2>2, <2>3, TheOne DEF Local
<1>2. Pending(w) = {} /\ outbox[w].notice = {}
  BY <1>1, IdleHasNothing
<1>3. /\ mem'[w] = {c} /\ saved' = saved /\ published' = published /\ pc'[w] = "notice_out"
      /\ inbox' = inbox /\ reorgs' = reorgs /\ nextReorg' = nextReorg
      /\ outbox'[w].updates = u
  <2>1. outbox' = [outbox EXCEPT ![w] = [outbox[w] EXCEPT !.updates = u]]
    BY <1>1 DEF ApplyNotice
  <2>2. outbox'[w].updates = u
    BY <1>1, <2>1 DEF TypeOK
  <2> QED
    BY <1>1, <2>2 DEF ApplyNotice, TypeOK, Some, streams
<1>4. \A k \in n.keys : k \in Keys /\ t.states[k] = "retracted"
  <2>1. n = inbox[w][1] /\ 1 \in 1..Len(inbox[w])
    BY <1>1
  <2>2. \A k \in n.keys : Current(w, k) = "retracted"
    BY <1>1, <2>1 DEF SingleInv, NoticesFit
  <2> QED
    BY <1>1, <2>2 DEF Current, T!Notice
<1>5. ASSUME NEW k \in Keys
      PROVE  c.states[k] = t.states[k] /\ k \notin u.retracted \cup u.provisional \cup u.confirmed
  BY <1>1, <1>4, OperationReports
<1>6. \A k \in Keys : Current(w, k)' = Current(w, k)
  <2>1. The({c}) = c
    BY DEF The
  <2> QED
    BY <1>1, <1>3, <1>5, <2>1 DEF Current
<1>7. KeysKnown(w)'
  <2>1. P!HeldIsKnown(t) /\ t \in P!Tracker
    BY <1>1, SameOperators DEF SingleInv, KeysKnown
  <2>2. P!HeldIsKnown(c)
    BY <1>1, <2>1, SameOperators, P!HeldIsKnownKept
  <2> QED
    BY <1>3, <2>2 DEF SingleInv, KeysKnown
<1>8. \A k \in Keys : k \notin Pending(w)'
  BY <1>3, <1>5 DEF Pending
<1> HIDE DEF t, n, c, u
<1>9. HistoryFits(w)'
  <2>1. \A k \in Keys : LastPublished(k)' = LastPublished(k)
    BY <1>3 DEF LastPublished
  <2> QED
    BY <1>2, <1>6, <1>8, <2>1 DEF SingleInv, HistoryFits, Pending
<1>10. NoticesFit(w)'
  <2>1. \A i \in nextReorg + 1..Len(reorgs) : \A k \in reorgs[i].keys : k \in Keys
    BY NoticeKeys
  <2>2. \A i \in 1..Len(inbox[w]) : \A k \in inbox[w][i].keys : k \in Keys
    BY <1>1, NoticeKeys
  <2> QED
    BY <1>1, <1>3, <1>6, <2>1, <2>2 DEF SingleInv, NoticesFit
<1>11. NoticesRead(w)'
  BY <1>1, <1>3 DEF SingleInv, NoticesRead
<1> QED
  BY <1>7, <1>9, <1>10, <1>11 DEF SingleInv

\* Publishing a notice or an update, and acknowledging, keep the invariant.
LEMMA PublishSingle ==
    ASSUME NEW w, Graceful(w), TypeOK, Shape, PublishInv, SingleInv(w),
           PublishNotice(w) \/ PublishUpdate(w) \/ Ack(w)
    PROVE  SingleInv(w)'
<1>0. w \in Workers /\ Fits(w) /\ Local(w) /\ mem[w] # {} /\ inbox[w] # <<>> /\ Publishing(w)
  BY DEF Graceful, PublishInv, Shape, Local, Publishing, PublishNotice, PublishUpdate, Ack
<1>1. \A k \in Keys : Current(w, k)' = Current(w, k)
  <2>1. ~Observe(w) /\ ~ApplyNotice(w)
    BY <1>0 DEF Publishing, Observe, ApplyNotice
  <2> QED
    BY <2>1, CurrentKept DEF Acts, Step
<1>2. mem' = mem /\ saved' = saved /\ nextReorg' = nextReorg
  BY DEF PublishNotice, PublishUpdate, Ack, streams
<1>3. KeysKnown(w)'
  BY <1>2 DEF SingleInv, KeysKnown
<1>4. \A k \in Keys : \A t \in mem[w] : Current(w, k) = t.states[k]
  BY <1>0, TheOne DEF Local, Current
<1>5. /\ Len(reorgs) \in Nat /\ nextReorg \in Nat /\ Len(inbox[w]) \in Nat /\ BatchSize \in Nat
      /\ reorgs \in Seq(T!Notice) /\ nextReorg <= Len(reorgs)
  <2>1. /\ reorgs \in Seq(T!Notice) /\ nextReorg \in 0..Len(reorgs)
        /\ inbox[w] \in Seq(Feed \cup T!Notice)
    BY <1>0 DEF TypeOK
  <2>2. Len(reorgs) \in Nat /\ Len(inbox[w]) \in Nat
    BY <2>1
  <2> QED
    BY <2>1, <2>2, WorkerAssumption
<1>6. CASE PublishNotice(w)
  <2> DEFINE n == The(outbox[w].notice)
  <2>1. pc[w] = "event_out" /\ outbox[w].notice # {} /\ n \in outbox[w].notice /\ n \in T!Notice
    BY <1>0, <1>6 DEF PublishNotice, The, TypeOK
  <2>2. /\ reorgs' = Append(reorgs, n) /\ pc' = pc /\ inbox' = inbox /\ published' = published
        /\ outbox'[w].updates = outbox[w].updates /\ outbox'[w].notice = {}
    <3>1. outbox' = [outbox EXCEPT ![w] = [outbox[w] EXCEPT !.notice = {}]]
      BY <1>6 DEF PublishNotice
    <3>2. outbox'[w] = [outbox[w] EXCEPT !.notice = {}]
      BY <1>0, <3>1 DEF TypeOK
    <3>3. outbox'[w].updates = outbox[w].updates /\ outbox'[w].notice = {}
      BY <1>0, <3>2 DEF TypeOK
    <3> QED
      BY <1>6, <3>3 DEF PublishNotice
  <2>3. \A k \in n.keys : k \in Keys /\ Current(w, k) = "retracted"
    <3>1. PICK t : t \in mem[w]
      BY <1>0
    <3>2. \A k \in n.keys : t.states[k] = "retracted"
      BY <1>0, <2>1, <3>1 DEF Fits, OutboxFits
    <3> QED
      BY <1>4, <2>1, <3>1, <3>2 DEF T!Notice
  <2> HIDE DEF n
  <2>4. HistoryFits(w)'
    <3>1. Pending(w)' = Pending(w) /\ \A k \in Keys : LastPublished(k)' = LastPublished(k)
      BY <2>2 DEF Pending, LastPublished
    <3> QED
      BY <1>1, <2>2, <3>1 DEF SingleInv, HistoryFits
  <2>5. /\ Len(reorgs') = Len(reorgs) + 1
        /\ \A i \in nextReorg + 1..Len(reorgs') :
              reorgs'[i] = n \/ (i \in nextReorg + 1..Len(reorgs) /\ reorgs'[i] = reorgs[i])
    BY <1>5, <2>1, <2>2
  <2>6. NoticesFit(w)'
    <3>1. \A i \in nextReorg + 1..Len(reorgs) : \A k \in reorgs[i].keys :
             k \in Keys /\ Current(w, k) = "retracted"
      BY NoticeKeys DEF SingleInv, NoticesFit
    <3>2. \A i \in nextReorg + 1..Len(reorgs') : \A k \in reorgs'[i].keys :
             k \in Keys /\ Current(w, k) = "retracted"
      BY <2>3, <2>5, <3>1
    <3> QED
      BY <1>1, <1>2, <2>1, <2>2, <3>2 DEF NoticesFit
  <2>7. NoticesRead(w)'
    <3>1. Len(reorgs) - nextReorg + Len(inbox[w]) + 1 <= BatchSize + 1
      BY <2>1 DEF SingleInv, NoticesRead
    <3>2. Len(reorgs') - nextReorg + Len(inbox[w]) + 0 <= BatchSize + 1
      <4>1. /\ Len(reorgs') = Len(reorgs) + 1
            /\ Len(reorgs) \in Nat /\ nextReorg \in Nat /\ Len(inbox[w]) \in Nat /\ BatchSize \in Nat
        BY <1>5, <2>5
      <4>2. \A a, b, c, d \in Nat : a - b + c + 1 <= d + 1 => (a + 1) - b + c + 0 <= d + 1
        OBVIOUS
      <4> QED
        BY <3>1, <4>1, <4>2, Zenon
    <3> QED
      BY <1>0, <1>2, <2>1, <2>2, <3>2 DEF NoticesRead
  <2> QED
    BY <1>3, <2>4, <2>6, <2>7 DEF SingleInv
<1>7. CASE PublishUpdate(w)
  <2> DEFINE b == outbox[w].updates
             c == outbox'[w].updates
  <2>1. PICK k \in Keys, s \in {"retracted", "provisional", "confirmed"} :
           /\ b \in T!Batch /\ c \in T!Batch /\ k \in b[s]
           /\ s = "provisional" => b.retracted = {}
           /\ s = "confirmed" => b.retracted = {} /\ b.provisional = {}
           /\ c.retracted = IF s = "retracted" THEN b.retracted \ {k} ELSE b.retracted
           /\ c.provisional = IF s = "provisional" THEN b.provisional \ {k} ELSE b.provisional
           /\ c.confirmed = IF s = "confirmed" THEN b.confirmed \ {k} ELSE b.confirmed
           /\ outbox[w].notice = {} /\ outbox'[w].notice = {}
           /\ published' = [published EXCEPT ![k] = Append(@, s)]
           /\ UNCHANGED <<reorgs, pc, inbox>>
    BY <1>0, <1>7, PublishUpdateEffect
  <2>2. \A j \in Keys : LastPublished(j)' = IF j = k THEN s ELSE LastPublished(j)
    BY <2>1, LastAppended DEF T!KeyState
  <2>3. /\ \A j \in b.retracted : Current(w, j) = "retracted"
        /\ \A j \in b.provisional : Current(w, j) = IF j \in b.confirmed THEN "confirmed" ELSE "provisional"
        /\ \A j \in b.confirmed : Current(w, j) = "confirmed"
    <3>1. PICK t : t \in mem[w]
      BY <1>0
    <3>2. \A j \in b.retracted \cup b.provisional \cup b.confirmed : j \in Keys
      BY <2>1 DEF T!Batch
    <3>3. /\ \A j \in b.retracted : t.states[j] = "retracted"
          /\ \A j \in b.provisional : t.states[j] = IF j \in b.confirmed THEN "confirmed" ELSE "provisional"
          /\ \A j \in b.confirmed : t.states[j] = "confirmed"
      BY <1>0, <3>1 DEF Fits, OutboxFits
    <3> QED
      BY <1>4, <3>1, <3>2, <3>3
  <2>4. \A j \in Keys :
           /\ j \notin b.retracted \cup b.provisional \cup b.confirmed
              => LastPublished(j) = Current(w, j)
           /\ j \in b.retracted => LastPublished(j) \in {"provisional", "confirmed"}
           /\ j \in b.provisional => LastPublished(j) = "none"
           /\ j \in b.confirmed => j \in b.provisional \/ LastPublished(j) = "provisional"
    BY DEF SingleInv, HistoryFits, Pending
  <2>5. Pending(w)' = c.retracted \cup c.provisional \cup c.confirmed
    BY DEF Pending
  <2>6. ASSUME NEW j \in Keys
        PROVE  /\ j \notin Pending(w)' => LastPublished(j)' = Current(w, j)
               /\ j \in c.retracted => LastPublished(j)' \in {"provisional", "confirmed"}
               /\ j \in c.provisional => LastPublished(j)' = "none"
               /\ j \in c.confirmed => j \in c.provisional \/ LastPublished(j)' = "provisional"
    <3> HIDE DEF b, c
    <3>1. CASE j # k
      BY <2>1, <2>2, <2>4, <2>5, <3>1
    <3>2. CASE j = k /\ s = "retracted"
      BY <2>1, <2>2, <2>3, <2>5, <3>2
    <3>3. CASE j = k /\ s = "provisional"
      BY <2>1, <2>2, <2>3, <2>5, <3>3
    <3>4. CASE j = k /\ s = "confirmed"
      BY <2>1, <2>2, <2>3, <2>5, <3>4
    <3> QED
      BY <3>1, <3>2, <3>3, <3>4
  <2>7. HistoryFits(w)'
    BY <1>1, <2>6 DEF HistoryFits
  <2>8. NoticesFit(w)'
    <3>1. \A i \in nextReorg + 1..Len(reorgs) : \A j \in reorgs[i].keys : j \in Keys
      BY NoticeKeys
    <3>2. pc[w] = "notice_out" => \A i \in 1..Len(inbox[w]) : \A j \in inbox[w][i].keys : j \in Keys
      BY <1>0, NoticeKeys DEF Local
    <3> QED
      BY <1>0, <1>1, <1>2, <2>1, <3>1, <3>2 DEF SingleInv, NoticesFit, Publishing
  <2>9. NoticesRead(w)'
    BY <1>0, <1>2, <2>1 DEF SingleInv, NoticesRead
  <2> QED
    BY <1>3, <2>7, <2>8, <2>9 DEF SingleInv
<1>8. CASE Ack(w)
  <2>1. /\ inbox'[w] = Tail(inbox[w]) /\ outbox' = outbox /\ published' = published
        /\ pc'[w] = IF pc[w] = "event_out" THEN "event" ELSE "notice"
        /\ reorgs' = reorgs /\ outbox[w] = NothingToPublish
    BY <1>0, <1>8 DEF Ack, TypeOK, streams
  <2>2. HistoryFits(w)'
    <3>1. Pending(w)' = Pending(w) /\ \A k \in Keys : LastPublished(k)' = LastPublished(k)
      BY <2>1 DEF Pending, LastPublished
    <3> QED
      BY <1>1, <2>1, <3>1 DEF SingleInv, HistoryFits
  <2>3. /\ Len(inbox'[w]) = Len(inbox[w]) - 1
        /\ \A i \in 1..Len(inbox'[w]) : i + 1 \in 1..Len(inbox[w]) /\ inbox'[w][i] = inbox[w][i + 1]
    <3>1. inbox[w] \in Seq(Feed \cup T!Notice)
      BY <1>0 DEF TypeOK
    <3> QED
      BY <1>0, <2>1, <3>1
  <2>4. NoticesFit(w)'
    <3>1. \A i \in nextReorg + 1..Len(reorgs) : \A j \in reorgs[i].keys : j \in Keys
      BY NoticeKeys
    <3>2. pc[w] = "notice_out" => \A i \in 1..Len(inbox[w]) : \A j \in inbox[w][i].keys :
                                     j \in Keys /\ Current(w, j) = "retracted"
      BY <1>0, NoticeKeys DEF Local, SingleInv, NoticesFit
    <3>3. pc'[w] \in {"notice", "notice_out"} =>
             \A i \in 1..Len(inbox'[w]) : \A j \in inbox'[w][i].keys :
                j \in Keys /\ Current(w, j) = "retracted"
      BY <1>0, <2>1, <2>3, <3>2 DEF Publishing
    <3> QED
      BY <1>1, <1>2, <2>1, <3>1, <3>3 DEF SingleInv, NoticesFit
  <2>5. NoticesRead(w)'
    <3>1. outbox[w].notice = {}
      BY <1>0, <2>1, IdleHasNothing
    <3>2. pc[w] = "event_out" => Len(reorgs) - nextReorg + Len(inbox[w]) <= BatchSize + 1
      BY <1>5, <3>1 DEF SingleInv, NoticesRead
    <3>3. pc[w] = "event_out" => Len(reorgs) - nextReorg + Len(inbox'[w]) <= BatchSize
      BY <1>5, <2>3, <3>2
    <3> QED
      BY <1>0, <1>2, <2>1, <3>3 DEF SingleInv, NoticesRead, Publishing
  <2> QED
    BY <1>3, <2>2, <2>4, <2>5 DEF SingleInv
<1> QED
  BY <1>6, <1>7, <1>8

\* Reading a batch: after the events there is room for the notices they can
\* cause, and the second half reads all that wait.
LEMMA ReadSingle ==
    ASSUME NEW w, Graceful(w), TypeOK, Shape, PublishInv, SingleInv(w), ReadEvents(w) \/ ReadReorgs(w)
    PROVE  SingleInv(w)'
<1>0. w \in Workers /\ ~Observe(w) /\ ~ApplyNotice(w)
  BY DEF Graceful, ReadEvents, ReadReorgs, Observe, ApplyNotice
<1>1. \A k \in Keys : Current(w, k)' = Current(w, k)
  BY <1>0, CurrentKept DEF Acts, Step
<1>2. mem' = mem /\ saved' = saved /\ outbox' = outbox /\ published' = published /\ reorgs' = reorgs
  BY DEF ReadEvents, ReadReorgs
<1>3. KeysKnown(w)' /\ HistoryFits(w)'
  <2>1. Pending(w)' = Pending(w) /\ \A k \in Keys : LastPublished(k)' = LastPublished(k)
    BY <1>2 DEF Pending, LastPublished
  <2> QED
    BY <1>1, <1>2, <2>1 DEF SingleInv, KeysKnown, HistoryFits
<1>4. /\ normalized \in Seq(Feed) /\ nextEvent \in 0..Len(normalized) /\ Len(normalized) \in Nat
      /\ reorgs \in Seq(T!Notice) /\ nextReorg \in 0..Len(reorgs) /\ Len(reorgs) \in Nat
      /\ BatchSize \in Nat
  <2>1. /\ normalized \in Seq(Feed) /\ nextEvent \in 0..Len(normalized)
        /\ reorgs \in Seq(T!Notice) /\ nextReorg \in 0..Len(reorgs)
    BY DEF TypeOK
  <2> QED
    BY <2>1, WorkerAssumption
<1>5. \A i \in nextReorg + 1..Len(reorgs) : \A k \in reorgs[i].keys :
         k \in Keys /\ Current(w, k) = "retracted"
  BY NoticeKeys DEF SingleInv, NoticesFit
<1>6. CASE ReadEvents(w)
  <2> DEFINE upto == Lower(nextEvent + BatchSize, Len(normalized))
  <2>1. /\ pc[w] = "events" /\ pc'[w] = "event" /\ nextReorg' = nextReorg
        /\ inbox'[w] = SubSeq(normalized, nextEvent + 1, upto)
    BY <1>0, <1>6 DEF ReadEvents, TypeOK
  <2>2. upto \in nextEvent..Len(normalized) /\ upto - nextEvent <= BatchSize
    BY <1>4 DEF Lower
  <2> HIDE DEF upto
  <2>3. Len(inbox'[w]) = upto - nextEvent
    BY <1>4, <2>1, <2>2
  <2>4. nextReorg = Len(reorgs)
    BY <2>1 DEF SingleInv, NoticesRead
  <2>5. Len(reorgs) - nextReorg + Len(inbox'[w]) <= BatchSize
    BY <1>4, <2>2, <2>3, <2>4
  <2>6. NoticesRead(w)'
    BY <1>2, <2>1, <2>4, <2>5 DEF NoticesRead
  <2>7. NoticesFit(w)'
    BY <1>1, <1>2, <1>5, <2>1 DEF NoticesFit
  <2> QED
    BY <1>3, <2>6, <2>7 DEF SingleInv
<1>7. CASE ReadReorgs(w)
  <2> DEFINE upto == Lower(nextReorg + BatchSize, Len(reorgs))
  <2>1. /\ pc[w] = "reorgs" /\ pc'[w] = "notice" /\ nextReorg' = upto
        /\ inbox'[w] = SubSeq(reorgs, nextReorg + 1, upto)
    BY <1>0, <1>7 DEF ReadReorgs, TypeOK
  <2>2. Len(reorgs) - nextReorg <= BatchSize
    BY <2>1 DEF SingleInv, NoticesRead
  <2>3. upto = Len(reorgs)
    BY <1>4, <2>2 DEF Lower
  <2> HIDE DEF upto
  <2>4. /\ Len(inbox'[w]) = Len(reorgs) - nextReorg
        /\ \A i \in 1..Len(inbox'[w]) : /\ inbox'[w][i] = reorgs[nextReorg + i]
                                        /\ nextReorg + i \in nextReorg + 1..Len(reorgs)
    BY <1>4, <2>1, <2>3
  <2>5. mem[w] = {} => inbox'[w] = <<>>
    <3>1. mem[w] = {} => nextReorg = Len(reorgs)
      BY DEF SingleInv, NoticesRead
    <3>2. SubSeq(reorgs, Len(reorgs) + 1, Len(reorgs)) = <<>>
      BY <1>4
    <3> QED
      BY <2>1, <2>3, <3>1, <3>2
  <2>6. NoticesRead(w)'
    BY <1>2, <2>1, <2>3, <2>5 DEF NoticesRead
  <2>7. NoticesFit(w)'
    <3>1. \A i \in 1..Len(inbox'[w]) : \A k \in inbox'[w][i].keys :
             k \in Keys /\ Current(w, k) = "retracted"
      BY <1>5, <2>4
    <3>2. ~\E i \in nextReorg' + 1..Len(reorgs') : TRUE
      BY <1>2, <1>4, <2>1, <2>3
    <3> QED
      BY <1>1, <2>1, <3>1, <3>2 DEF NoticesFit
  <2> QED
    BY <1>3, <2>6, <2>7 DEF SingleInv
<1> QED
  BY <1>6, <1>7

\* Loading, the end of the loop, shutdown and restart.
LEMMA LoopSingle ==
    ASSUME NEW w, Graceful(w), TypeOK, Shape, PublishInv, SingleInv(w),
           LoadTracker(w) \/ BatchDone(w) \/ Persist(w) \/ Loop(w) \/ Start(w) \/ Stop(w)
    PROVE  SingleInv(w)'
<1>0. /\ w \in Workers /\ ~Observe(w) /\ ~ApplyNotice(w) /\ ~Publishing(w)
      /\ outbox[w] = NothingToPublish
  <2>1. w \in Workers /\ ~ApplyNotice(w) /\ ~Observe(w) /\ ~Publishing(w)
    BY DEF Graceful, Observe, ApplyNotice, Publishing, LoadTracker, BatchDone, Persist, Loop, Start, Stop
  <2> QED
    BY <2>1 DEF Shape, Local
<1>1. \A k \in Keys : Current(w, k)' = Current(w, k)
  BY <1>0, CurrentKept DEF Acts, Step
<1>2. /\ published' = published /\ reorgs' = reorgs /\ nextReorg' = nextReorg
      /\ outbox'[w] = outbox[w] /\ (inbox'[w] = inbox[w] \/ pc'[w] = "down")
  BY <1>0 DEF LoadTracker, BatchDone, Persist, Loop, Start, Stop, Exit, streams, TypeOK
<1>3. KeysKnown(w)'
  <2>1. mem'[w] \cup saved' \subseteq mem[w] \cup saved \cup {T!NewTracker}
    BY <1>0 DEF LoadTracker, LoadTrackerFromDb, LoadFinalityState, Some, BatchDone, Persist, Loop,
                Start, Stop, Exit, SaveTracker, SaveFinalityState, TypeOK
  <2>2. P!HeldIsKnown(T!NewTracker)
    BY DEF P!HeldIsKnown, T!NewTracker, T!NoBlock, T!Heights, P!Heights
  <2> QED
    BY <2>1, <2>2 DEF SingleInv, KeysKnown
<1>4. HistoryFits(w)'
  <2>1. Pending(w)' = Pending(w) /\ \A k \in Keys : LastPublished(k)' = LastPublished(k)
    BY <1>2 DEF Pending, LastPublished
  <2> QED
    BY <1>1, <1>2, <2>1 DEF SingleInv, HistoryFits
<1>5. /\ pc'[w] = "notice" => FALSE
      /\ pc'[w] = "notice_out" => FALSE
      /\ pc'[w] = "event_out" => FALSE
      /\ pc'[w] \in {"down", "events", "persist", "loop"} => nextReorg = Len(reorgs)
      /\ pc'[w] = "event" => pc[w] = "event" /\ inbox'[w] = inbox[w]
      /\ pc'[w] = "reorgs" => pc[w] = "event" /\ inbox[w] = <<>>
      /\ mem'[w] = {} => nextReorg = Len(reorgs)
  <2>1. CASE LoadTracker(w)
    <3>1. PICK ok : mem' = [mem EXCEPT ![w] = IF LoadTrackerFromDb(ok) # {} THEN LoadTrackerFromDb(ok)
                                              ELSE Some(T!NewTracker)]
      BY <2>1 DEF LoadTracker
    <3>2. mem'[w] # {} /\ pc' = pc /\ pc[w] = "event" /\ inbox' = inbox
      BY <1>0, <2>1, <3>1 DEF LoadTracker, Some, TypeOK
    <3> QED
      BY <3>2
  <2>2. CASE BatchDone(w) \/ Persist(w) \/ Loop(w) \/ Start(w)
    BY <1>0, <2>2 DEF BatchDone, Persist, Loop, Start, SingleInv, NoticesRead, TypeOK
  <2>3. CASE Stop(w)
    BY <1>0, <2>3 DEF Stop, Exit, SingleInv, NoticesRead, TypeOK
  <2> QED
    BY <2>1, <2>2, <2>3
<1>6. NoticesFit(w)'
  <2>1. \A i \in nextReorg + 1..Len(reorgs) : \A k \in reorgs[i].keys :
           k \in Keys /\ Current(w, k) = "retracted"
    BY NoticeKeys DEF SingleInv, NoticesFit
  <2> QED
    BY <1>1, <1>2, <1>5, <2>1 DEF NoticesFit
<1>7. NoticesRead(w)'
  <2>1. pc'[w] = "reorgs" => Len(reorgs) - nextReorg <= BatchSize
    <3>1. Len(<<>>) = 0
      OBVIOUS
    <3>2. Len(reorgs) \in Nat /\ nextReorg \in Nat /\ BatchSize \in Nat
      <4>1. reorgs \in Seq(T!Notice) /\ nextReorg \in 0..Len(reorgs)
        BY DEF TypeOK
      <4> QED
        BY <4>1, WorkerAssumption
    <3>3. pc'[w] = "reorgs" => Len(reorgs) - nextReorg + 0 <= BatchSize
      BY <1>5, <3>1 DEF SingleInv, NoticesRead
    <3> QED
      BY <3>2, <3>3
  <2> QED
    BY <1>2, <1>5, <2>1 DEF SingleInv, NoticesRead
<1> QED
  BY <1>3, <1>4, <1>6, <1>7 DEF SingleInv

\* Every step of the process keeps the invariant.
LEMMA SingleStep ==
    ASSUME NEW w, Graceful(w), TypeOK, Shape, PublishInv, SingleInv(w), [Next]_vars
    PROVE  SingleInv(w)'
<1>0. w \in Workers /\ \A v \in Workers : v = w
  BY DEF Graceful
<1>1. CASE Acts(w)
  <2>1. CASE Observe(w)
    BY <2>1, ObserveSingle
  <2>2. CASE ApplyNotice(w)
    BY <2>2, ApplyNoticeSingle
  <2>3. CASE PublishNotice(w) \/ PublishUpdate(w) \/ Ack(w)
    BY <2>3, PublishSingle
  <2>4. CASE ReadEvents(w) \/ ReadReorgs(w)
    BY <2>4, ReadSingle
  <2>5. CASE LoadTracker(w) \/ BatchDone(w) \/ Persist(w) \/ Loop(w) \/ Start(w) \/ Stop(w)
    BY <2>5, LoopSingle
  <2> QED
    BY <1>1, <2>1, <2>2, <2>3, <2>4, <2>5 DEF Acts, Step
<1>2. ~Crash(w)
  BY DEF Graceful, TypeOK, Crash
<1>3. CASE UNCHANGED vars \/ \E e \in Feed : Produce(e)
  <2>1. UNCHANGED <<reorgs, nextReorg, published, saved, pc, mem, inbox, outbox>>
    BY <1>3 DEF vars, streams, procs, Produce
  <2>2. \A k \in Keys : Current(w, k)' = Current(w, k) /\ LastPublished(k)' = LastPublished(k)
    BY <2>1 DEF Current, LastPublished
  <2>3. Pending(w)' = Pending(w)
    BY <2>1 DEF Pending
  <2>4. HistoryFits(w)' /\ KeysKnown(w)' /\ NoticesRead(w)'
    BY <2>1, <2>2, <2>3 DEF SingleInv, HistoryFits, KeysKnown, NoticesRead
  <2>5. NoticesFit(w)'
    <3>1. \A k : Current(w, k)' = Current(w, k)
      BY <2>1 DEF Current
    <3> QED
      BY <2>1, <3>1 DEF SingleInv, NoticesFit
  <2> QED
    BY <2>4, <2>5 DEF SingleInv
<1> QED
  BY <1>0, <1>1, <1>2, <1>3 DEF Next, Acts

\* A step changes what subscribers see of at most one key, by a step of Lifecycle.
LEMMA LifecycleStep ==
    ASSUME NEW w, Graceful(w), TypeOK, Shape, PublishInv, SingleInv(w), [Next]_vars
    PROVE  [L!Next]_([k \in Keys |-> LastPublished(k)])
<1> DEFINE status == [k \in Keys |-> LastPublished(k)]
<1>0. w \in Workers /\ \A v \in Workers : v = w
  BY DEF Graceful
<1>1. CASE PublishUpdate(w)
  <2> DEFINE b == outbox[w].updates
  <2>1. PICK k \in Keys, s \in {"retracted", "provisional", "confirmed"} :
           /\ b \in T!Batch /\ k \in b[s]
           /\ s = "confirmed" => b.provisional = {}
           /\ published' = [published EXCEPT ![k] = Append(@, s)]
    BY <1>0, <1>1, PublishUpdateEffect
  <2>2. \A j \in Keys : LastPublished(j)' = IF j = k THEN s ELSE LastPublished(j)
    BY <2>1, LastAppended DEF T!KeyState
  <2>3. status' = [status EXCEPT ![k] = s]
    BY <2>2
  <2>4. /\ s = "retracted" => LastPublished(k) \in {"provisional", "confirmed"}
        /\ s = "provisional" => LastPublished(k) = "none"
        /\ s = "confirmed" => LastPublished(k) = "provisional"
    BY <2>1 DEF SingleInv, HistoryFits
  <2>5. status[k] = LastPublished(k)
    OBVIOUS
  <2>6. L!Introduce(k) \/ L!Confirm(k) \/ L!Retract(k)
    BY <2>1, <2>3, <2>4, <2>5 DEF L!Introduce, L!Confirm, L!Retract
  <2> QED
    BY <2>6 DEF L!Next
<1>2. CASE ~PublishUpdate(w)
  <2>1. published' = published
    BY <1>0, <1>2 DEF Next, Produce, Step, ReadEvents, LoadTracker, Observe, PublishNotice, Ack,
           BatchDone, ReadReorgs, ApplyNotice, Persist, Loop, Start, Stop, Crash, Exit, vars, streams
  <2>2. status' = status
    BY <2>1 DEF LastPublished
  <2> QED
    BY <2>2
<1> QED
  BY <1>1, <1>2

\* With one process that stops only gracefully and a database that answers, the
\* updates on raksha:finality-updates follow Lifecycle for every key, across any
\* number of restarts, forks and replayed notices.
THEOREM ImplementsLifecycle ==
    ASSUME NEW CONSTANT w, Graceful(w)
    PROVE  Spec => LifecycleSpec
<1>1. Init => SingleInv(w) /\ L!Init
  <2> SUFFICES ASSUME Init PROVE SingleInv(w) /\ L!Init
    OBVIOUS
  <2>1. /\ w \in Workers /\ mem[w] = {} /\ saved = {} /\ outbox[w] = NothingToPublish
        /\ reorgs = <<>> /\ nextReorg = 0 /\ pc[w] = "events"
        /\ \A k \in Keys : published[k] = <<>>
    BY DEF Init, Graceful
  <2>2. \A k \in Keys : LastPublished(k) = "none" /\ Current(w, k) = "none"
    BY <2>1 DEF LastPublished, Current
  <2>3. KeysKnown(w) /\ HistoryFits(w)
    BY <2>1, <2>2 DEF KeysKnown, HistoryFits, NothingToPublish, T!EmptyBatch
  <2>4. NoticesFit(w) /\ NoticesRead(w)
    BY <2>1 DEF NoticesFit, NoticesRead
  <2>5. L!Init
    BY <2>2 DEF L!Init
  <2> QED
    BY <2>3, <2>4, <2>5 DEF SingleInv
<1>2. TypeOK /\ Shape /\ PublishInv /\ SingleInv(w) /\ [Next]_vars => SingleInv(w)'
  BY SingleStep
<1>3. TypeOK /\ Shape /\ PublishInv /\ SingleInv(w) /\ [Next]_vars
      => [L!Next]_([k \in Keys |-> LastPublished(k)])
  BY LifecycleStep
<1> QED
  BY <1>1, <1>2, <1>3, ShapeHolds, PublishInvHolds, PTL DEF Spec, LifecycleSpec, L!Spec
=============================================================================
