----------------------- MODULE FinalityTrackerProofs -----------------------
(***************************************************************************)
(* Theorems about FinalityTracker, for every set of keys and hashes, every *)
(* height bound and every confirmation depth.                              *)
(***************************************************************************)
EXTENDS FinalityTracker, WellFoundedInduction, TLAPS

-----------------------------------------------------------------------------
(***************************************************************************)
(* Facts about heights.                                                    *)
(***************************************************************************)
\* A non-empty set of heights has a largest element.
LEMMA HeightMax ==
    ASSUME NEW S, S \subseteq Heights, S # {}
    PROVE  \E h \in S : \A g \in S : g <= h
<1> DEFINE T == {MaxHeight - h : h \in S}
<1>0. MaxHeight \in Nat
  BY TrackerAssumption
<1>1. T \subseteq Nat /\ T # {}
  <2>1. \A h \in S : MaxHeight - h \in Nat
    BY <1>0 DEF Heights
  <2>2. PICK h \in S : TRUE
    OBVIOUS
  <2>3. MaxHeight - h \in T
    BY <2>2
  <2> QED
    BY <2>1, <2>3
<1>2. PICK x \in T : \A y \in T : ~ (<<y, x>> \in OpToRel(<, Nat))
  <2> HIDE DEF T
  <2> QED
    BY <1>1, WFMin, NatLessThanWellFounded, Zenon
<1>3. \A y \in T : x <= y
  <2> HIDE DEF T
  <2> SUFFICES ASSUME NEW y \in T PROVE x <= y
    OBVIOUS
  <2>1. ~ (<<y, x>> \in OpToRel(<, Nat))
    BY <1>2
  <2>2. x \in Nat /\ y \in Nat
    BY <1>1
  <2>3. ~ (y < x)
    BY <2>1, <2>2 DEF OpToRel
  <2> QED
    BY <2>2, <2>3
<1>4. PICK h \in S : x = MaxHeight - h
  OBVIOUS
<1>5. ASSUME NEW g \in S PROVE g <= h
  <2>1. x <= MaxHeight - g
    BY <1>3
  <2>2. g \in Nat /\ h \in Nat
    BY <1>0 DEF Heights
  <2> QED
    BY <1>0, <1>4, <2>1, <2>2
<1> QED
  BY <1>4, <1>5

\* blocks.keys().next_back(): the top height is the largest occupied one.
LEMMA TopHeightIsMax ==
    ASSUME NEW blocks
    PROVE  /\ TopHeight(blocks) \in Heights
           /\ Occupied(blocks) = {} => TopHeight(blocks) = 0
           /\ Occupied(blocks) # {} => TopHeight(blocks) \in Occupied(blocks)
           /\ \A h \in Occupied(blocks) : h <= TopHeight(blocks)
<1>1. Occupied(blocks) \subseteq Heights
  BY DEF Occupied
<1>2. CASE Occupied(blocks) = {}
  BY <1>2, TrackerAssumption DEF TopHeight, Heights
<1>3. CASE Occupied(blocks) # {}
  <2>1. \E h \in Occupied(blocks) : \A g \in Occupied(blocks) : g <= h
    BY <1>1, <1>3, HeightMax
  <2>2. /\ TopHeight(blocks) \in Occupied(blocks)
        /\ \A g \in Occupied(blocks) : g <= TopHeight(blocks)
    BY <1>3, <2>1 DEF TopHeight
  <2> QED
    BY <1>1, <1>3, <2>2
<1> QED
  BY <1>2, <1>3

\* It is the only such height.
LEMMA TopHeightUnique ==
    ASSUME NEW blocks, NEW h \in Occupied(blocks), \A g \in Occupied(blocks) : g <= h
    PROVE  TopHeight(blocks) = h
<1>1. /\ TopHeight(blocks) \in Occupied(blocks)
      /\ h <= TopHeight(blocks)
  BY TopHeightIsMax
<1>2. TopHeight(blocks) <= h
  BY <1>1
<1>3. h \in Int /\ TopHeight(blocks) \in Int
  BY <1>1, TrackerAssumption DEF Occupied, Heights
<1> QED
  BY <1>1, <1>2, <1>3

-----------------------------------------------------------------------------
(***************************************************************************)
(* What each operation returns.                                            *)
(***************************************************************************)
\* rollback_from_block keeps the states and resets the head to the top height.
LEMMA RollbackFacts ==
    ASSUME NEW t \in Tracker, NEW from \in Heights
    PROVE  /\ RollbackFromBlock(t, from) \in Tracker
           /\ RollbackFromBlock(t, from).states = t.states
           /\ RollbackFromBlock(t, from).head = TopHeight(RollbackFromBlock(t, from).blocks)
           /\ \A h \in Heights : RollbackFromBlock(t, from).blocks[h]
                                 = IF h >= from THEN NoBlock ELSE t.blocks[h]
<1> DEFINE kept == [h \in Heights |-> IF h >= from THEN NoBlock ELSE t.blocks[h]]
<1>1. kept \in [Heights -> BlockEntry]
  BY DEF Tracker, BlockEntry, NoBlock
<1>2. TopHeight(kept) \in Heights
  BY TopHeightIsMax
<1>3. RollbackFromBlock(t, from) = [t EXCEPT !.blocks = kept, !.head = TopHeight(kept)]
  BY DEF RollbackFromBlock
<1> HIDE DEF kept
<1>4. RollbackFromBlock(t, from) \in Tracker
  BY <1>1, <1>2, <1>3 DEF Tracker
<1>5. /\ RollbackFromBlock(t, from).states = t.states
      /\ RollbackFromBlock(t, from).head = TopHeight(kept)
      /\ RollbackFromBlock(t, from).blocks = kept
  BY <1>3 DEF Tracker
<1> QED
  BY <1>4, <1>5 DEF kept

\* Retracting keys changes their states and nothing else.
LEMMA RetractFacts ==
    ASSUME NEW t \in Tracker, NEW S
    PROVE  /\ Retract(t, S) \in Tracker
           /\ Retract(t, S).head = t.head
           /\ Retract(t, S).blocks = t.blocks
           /\ \A k \in Keys : Retract(t, S).states[k]
                              = IF k \in S THEN "retracted" ELSE t.states[k]
  BY DEF Retract, Tracker, KeyState

\* The conflict branch of observe_event retracts exactly the affected keys.
LEMMA AfterConflictFacts ==
    ASSUME NEW t \in Tracker, NEW e \in Event
    PROVE  /\ AfterConflict(t, e) \in Tracker
           /\ t.head = TopHeight(t.blocks)
              => AfterConflict(t, e).head = TopHeight(AfterConflict(t, e).blocks)
           /\ \A k \in Keys : AfterConflict(t, e).states[k]
                 = IF DetectConflictingHash(t, e) /\ k \in CollectAffectedKeys(t, e.block)
                   THEN "retracted" ELSE t.states[k]
<1>1. e.block \in Heights
  BY DEF Event
<1>2. CASE DetectConflictingHash(t, e)
  <2> DEFINE r == RollbackFromBlock(t, e.block)
  <2>1. /\ r \in Tracker
        /\ r.states = t.states
        /\ r.head = TopHeight(r.blocks)
    BY <1>1, RollbackFacts
  <2>2. AfterConflict(t, e) = Retract(r, CollectAffectedKeys(t, e.block))
    BY <1>2 DEF AfterConflict
  <2> HIDE DEF r
  <2> QED
    BY <1>2, <2>1, <2>2, RetractFacts
<1>3. CASE ~DetectConflictingHash(t, e)
  BY <1>3 DEF AfterConflict
<1> QED
  BY <1>2, <1>3

\* Filing an event keeps the head on top and only introduces the event's key.
LEMMA FileEventFacts ==
    ASSUME NEW t \in Tracker, NEW e \in Event
    PROVE  /\ FileEvent(t, e) \in Tracker
           /\ t.head = TopHeight(t.blocks)
              => FileEvent(t, e).head = TopHeight(FileEvent(t, e).blocks)
           /\ \A k \in Keys : FileEvent(t, e).states[k]
                 = IF k = e.key /\ t.states[k] = "none" THEN "provisional" ELSE t.states[k]
<1> DEFINE f == FileEvent(t, e)
<1> DEFINE entry == t.blocks[e.block]
<1> DEFINE filed == [hash |-> IF entry.keys = {} \/ entry.hash = NoHash
                              THEN e.hash ELSE entry.hash,
                     keys |-> entry.keys \cup {e.key}]
<1>1. e.block \in Heights /\ e.key \in Keys /\ e.hash \in Hashes \cup {NoHash}
  BY DEF Event
<1>2. t.head \in Heights /\ t.blocks \in [Heights -> BlockEntry] /\ t.states \in [Keys -> KeyState]
  BY DEF Tracker
<1>3. filed \in BlockEntry
  BY <1>1, <1>2 DEF BlockEntry
<1>4. /\ f.head = (IF t.head >= e.block THEN t.head ELSE e.block)
      /\ f.blocks = [t.blocks EXCEPT ![e.block] = filed]
      /\ f.states = [t.states EXCEPT ![e.key] = IF @ = "none" THEN "provisional" ELSE @]
  BY DEF FileEvent
<1>5. f \in Tracker
  <2>1. f.head \in Heights
    BY <1>1, <1>2, <1>4
  <2>2. f.blocks \in [Heights -> BlockEntry]
    BY <1>1, <1>2, <1>3, <1>4
  <2>3. f.states \in [Keys -> KeyState]
    BY <1>1, <1>2, <1>4 DEF KeyState
  <2>4. f = [head |-> f.head, blocks |-> f.blocks, states |-> f.states]
    BY DEF FileEvent
  <2> HIDE DEF f
  <2> QED
    BY <2>1, <2>2, <2>3, <2>4 DEF Tracker
<1>6. ASSUME t.head = TopHeight(t.blocks) PROVE f.head = TopHeight(f.blocks)
  <2>1. Occupied(f.blocks) = Occupied(t.blocks) \cup {e.block}
    BY <1>1, <1>2, <1>4 DEF Occupied
  <2>2. /\ \A h \in Occupied(t.blocks) : h <= t.head
        /\ Occupied(t.blocks) # {} => t.head \in Occupied(t.blocks)
        /\ Occupied(t.blocks) = {} => t.head = 0
    BY <1>6, TopHeightIsMax
  <2>3. Occupied(t.blocks) \subseteq Nat /\ t.head \in Nat /\ e.block \in Nat
    BY <1>1, <1>2, TrackerAssumption DEF Occupied, Heights
  <2>4. f.head \in Occupied(f.blocks) /\ \A g \in Occupied(f.blocks) : g <= f.head
    <3> HIDE DEF f
    <3> QED
      BY <1>4, <2>1, <2>2, <2>3
  <2> QED
    BY <2>4, TopHeightUnique
<1>7. \A k \in Keys : f.states[k]
          = IF k = e.key /\ t.states[k] = "none" THEN "provisional" ELSE t.states[k]
  BY <1>1, <1>2, <1>4
<1> QED
  BY <1>5, <1>6, <1>7

\* The confirmation sweep confirms exactly the due keys.
LEMMA ConfirmDueFacts ==
    ASSUME NEW t \in Tracker, NEW d
    PROVE  /\ ConfirmDue(t, d) \in Tracker
           /\ ConfirmDue(t, d).head = t.head
           /\ ConfirmDue(t, d).blocks = t.blocks
           /\ \A k \in Keys : ConfirmDue(t, d).states[k]
                              = IF k \in Due(t, d) THEN "confirmed" ELSE t.states[k]
  BY DEF ConfirmDue, Tracker, KeyState

-----------------------------------------------------------------------------
(***************************************************************************)
(* observe_event and apply_reorg_notice as a whole.                        *)
(***************************************************************************)
\* observe_event: the head stays on top, retractions last, and nothing due is left.
LEMMA ObserveFacts ==
    ASSUME NEW t \in Tracker, NEW e \in Event
    PROVE  /\ ObserveTracker(t, e) \in Tracker
           /\ t.head = TopHeight(t.blocks)
              => ObserveTracker(t, e).head = TopHeight(ObserveTracker(t, e).blocks)
           /\ \A k \in Keys :
                 \/ t.states[k] = "retracted"
                 \/ DetectConflictingHash(t, e) /\ k \in CollectAffectedKeys(t, e.block)
                 => ObserveTracker(t, e).states[k] = "retracted"
           /\ \A k \in Keys :
                 ObserveTracker(t, e).states[k] = "provisional"
                 => k \notin Due(ObserveTracker(t, e), ConfirmationDepth(e))
<1> DEFINE a == AfterConflict(t, e)
           f == FileEvent(a, e)
           d == ConfirmationDepth(e)
           c == ConfirmDue(f, d)
<1>1. ObserveTracker(t, e) = c
  BY DEF ObserveTracker
<1>2. /\ a \in Tracker
      /\ t.head = TopHeight(t.blocks) => a.head = TopHeight(a.blocks)
      /\ \A k \in Keys : a.states[k]
            = IF DetectConflictingHash(t, e) /\ k \in CollectAffectedKeys(t, e.block)
              THEN "retracted" ELSE t.states[k]
  BY AfterConflictFacts
<1> HIDE DEF a
<1>3. /\ f \in Tracker
      /\ a.head = TopHeight(a.blocks) => f.head = TopHeight(f.blocks)
      /\ \A k \in Keys : f.states[k]
            = IF k = e.key /\ a.states[k] = "none" THEN "provisional" ELSE a.states[k]
  BY <1>2, FileEventFacts
<1> HIDE DEF f, d
<1>4. /\ c \in Tracker
      /\ c.head = f.head /\ c.blocks = f.blocks
      /\ \A k \in Keys : c.states[k] = IF k \in Due(f, d) THEN "confirmed" ELSE f.states[k]
  BY <1>3, ConfirmDueFacts
<1> HIDE DEF c
<1>5. t.head = TopHeight(t.blocks) => c.head = TopHeight(c.blocks)
  BY <1>2, <1>3, <1>4
<1>6. ASSUME NEW k \in Keys,
             \/ t.states[k] = "retracted"
             \/ DetectConflictingHash(t, e) /\ k \in CollectAffectedKeys(t, e.block)
      PROVE  c.states[k] = "retracted"
  <2>1. a.states[k] = "retracted"
    BY <1>2, <1>6
  <2>2. f.states[k] = "retracted"
    BY <1>3, <2>1
  <2>3. k \notin Due(f, d)
    BY <2>2 DEF Due
  <2> QED
    BY <1>4, <2>2, <2>3
<1>7. ASSUME NEW k \in Keys, c.states[k] = "provisional"
      PROVE  k \notin Due(c, d)
  <2>1. k \notin Due(f, d) /\ f.states[k] = "provisional"
    BY <1>4, <1>7
  <2> QED
    BY <1>4, <2>1 DEF Due
<1> QED
  BY <1>1, <1>4, <1>5, <1>6, <1>7 DEF d

\* apply_reorg_notice: the head is on top, and only the named keys change state.
LEMMA ApplyNoticeFacts ==
    ASSUME NEW t \in Tracker, NEW n \in Notice
    PROVE  /\ ApplyNoticeTracker(t, n) \in Tracker
           /\ ApplyNoticeTracker(t, n).head = TopHeight(ApplyNoticeTracker(t, n).blocks)
           /\ \A k \in Keys : ApplyNoticeTracker(t, n).states[k]
                              = IF k \in n.keys THEN "retracted" ELSE t.states[k]
           /\ \A h \in Heights : \/ ApplyNoticeTracker(t, n).blocks[h] = NoBlock
                                 \/ ApplyNoticeTracker(t, n).blocks[h] = t.blocks[h]
<1>1. n.from \in Heights
  BY DEF Notice
<1> DEFINE r == RollbackFromBlock(t, n.from)
<1>2. /\ r \in Tracker /\ r.states = t.states /\ r.head = TopHeight(r.blocks)
      /\ \A h \in Heights : r.blocks[h] = IF h >= n.from THEN NoBlock ELSE t.blocks[h]
  BY <1>1, RollbackFacts
<1>3. ApplyNoticeTracker(t, n) = Retract(r, n.keys)
  BY DEF ApplyNoticeTracker
<1> HIDE DEF r
<1> QED
  BY <1>2, <1>3, RetractFacts

\* The updates and the notice of an operation name known keys.
LEMMA UpdatesType ==
    ASSUME NEW t \in Tracker, NEW e \in Event, NEW n \in Notice
    PROVE  /\ ObserveUpdates(t, e) \in Batch
           /\ ApplyNoticeUpdates(t, n) \in Batch
           /\ ObserveNotice(t, e) \in Notice
<1>1. e.block \in Heights /\ e.key \in Keys
  BY DEF Event
<1>2. CollectAffectedKeys(t, e.block) \subseteq Keys
  BY DEF CollectAffectedKeys, Tracker, BlockEntry
<1>3. ObserveUpdates(t, e) \in Batch
  BY <1>1, <1>2 DEF ObserveUpdates, Batch, NewlyRetracted, Due
<1>4. ApplyNoticeUpdates(t, n) \in Batch
  BY DEF ApplyNoticeUpdates, EmptyBatch, Batch, NewlyRetracted, Notice
<1>5. ObserveNotice(t, e) \in Notice
  BY <1>1, <1>2 DEF ObserveNotice, Notice
<1> QED
  BY <1>3, <1>4, <1>5

-----------------------------------------------------------------------------
(***************************************************************************)
(* Invariants.                                                             *)
(***************************************************************************)
\* Every step keeps the tracker, the stream of notices and the updates well formed.
THEOREM TypeCorrect == Spec => []TypeOK
<1>1. Init => TypeOK
  <2> SUFFICES ASSUME Init PROVE TypeOK
    OBVIOUS
  <2>1. NewTracker \in Tracker
    BY TrackerAssumption DEF NewTracker, Tracker, Heights, BlockEntry, NoBlock, KeyState
  <2>2. <<>> \in Seq(Notice) /\ EmptyBatch \in Batch
    BY DEF EmptyBatch, Batch
  <2> QED
    BY <2>1, <2>2 DEF Init, TypeOK
<1>2. TypeOK /\ [Next]_vars => TypeOK'
  <2> SUFFICES ASSUME TypeOK, [Next]_vars PROVE TypeOK'
    OBVIOUS
  <2> USE DEF TypeOK
  <2>1. ASSUME NEW e \in Event, ObserveEvent(e) PROVE TypeOK'
    <3>1. tracker' \in Tracker
      BY <2>1, ObserveFacts DEF ObserveEvent
    <3>2. batch' \in Batch /\ ObserveNotice(tracker, e) \in Notice
      <4>1. [from |-> e.block, keys |-> {}] \in Notice
        BY DEF Event, Notice
      <4> QED
        BY <2>1, <4>1, UpdatesType DEF ObserveEvent
    <3>3. notices' \in Seq(Notice)
      BY <2>1, <3>2 DEF ObserveEvent
    <3> QED
      BY <3>1, <3>2, <3>3
  <2>2. CASE ApplyReorgNotice
    <3>1. Head(notices) \in Notice /\ notices' \in Seq(Notice)
      BY <2>2 DEF ApplyReorgNotice
    <3>2. tracker' \in Tracker
      BY <2>2, <3>1, ApplyNoticeFacts DEF ApplyReorgNotice
    <3>3. batch' \in Batch
      BY <2>2, <3>1 DEF ApplyReorgNotice, ApplyNoticeUpdates, EmptyBatch, Batch,
                        NewlyRetracted, Notice
    <3> QED
      BY <3>1, <3>2, <3>3
  <2>3. CASE UNCHANGED vars
    BY <2>3 DEF vars
  <2> QED
    BY <2>1, <2>2, <2>3 DEF Next
<1> QED
  BY <1>1, <1>2, PTL DEF Spec

\* A sweep that leaves nothing due leaves nothing overdue, because no event
\* asks for more than MaxDepth.
LEMMA SweptIsNotOverdue ==
    ASSUME NEW t \in Tracker, NEW e \in Event,
           \A k \in Keys : t.states[k] = "provisional" => k \notin Due(t, ConfirmationDepth(e))
    PROVE  \A h \in Heights : \A k \in t.blocks[h].keys :
              h <= SaturatingSub(t.head, MaxDepth) => t.states[k] # "provisional"
<1> SUFFICES ASSUME NEW h \in Heights, NEW k \in t.blocks[h].keys,
                    h <= SaturatingSub(t.head, MaxDepth), t.states[k] = "provisional"
             PROVE  FALSE
  OBVIOUS
<1>1. k \in Keys /\ t.head \in Nat /\ h \in Nat
  BY TrackerAssumption DEF Tracker, BlockEntry, Heights
<1>2. MaxDepth \in Nat /\ ConfirmationDepth(e) \in 0..MaxDepth
  <2>1. e.depth \in EventDepths
    BY DEF Event
  <2>2. MaxDepth \in Nat /\ e.depth \in 0..MaxDepth /\ DefaultDepth \in 1..MaxDepth
    BY <2>1, TrackerAssumption
  <2> QED
    BY <2>2 DEF ConfirmationDepth
<1>3. h <= SaturatingSub(t.head, ConfirmationDepth(e))
  BY <1>1, <1>2 DEF SaturatingSub
<1>4. k \in Due(t, ConfirmationDepth(e))
  BY <1>1, <1>3 DEF Due
<1> QED
  BY <1>1, <1>4

\* The inductive invariant: a notice can lower the head, and nothing becomes
\* overdue then only because the head was the top height before.
Inv == TypeOK /\ HeadIsTop /\ NoticesNameRetracted /\ NothingOverdue

\* observe_event keeps the invariant.
LEMMA ObservePreserves ==
    ASSUME Inv, NEW e \in Event, ObserveEvent(e)
    PROVE  HeadIsTop' /\ NoticesNameRetracted' /\ NothingOverdue'
<1>1. tracker \in Tracker /\ tracker' = ObserveTracker(tracker, e)
  BY DEF Inv, TypeOK, ObserveEvent
<1>2. HeadIsTop'
  BY <1>1, ObserveFacts DEF Inv, HeadIsTop
<1>3. NothingOverdue'
  <2>1. tracker' \in Tracker
    BY <1>1, ObserveFacts
  <2>2. \A k \in Keys : tracker'.states[k] = "provisional"
                        => k \notin Due(tracker', ConfirmationDepth(e))
    BY <1>1, ObserveFacts
  <2> QED
    BY <2>1, <2>2, SweptIsNotOverdue DEF NothingOverdue
<1>4. NoticesNameRetracted'
  <2>1. \A k \in Keys : \/ tracker.states[k] = "retracted"
                        \/ /\ DetectConflictingHash(tracker, e)
                           /\ k \in CollectAffectedKeys(tracker, e.block)
                        => tracker'.states[k] = "retracted"
    BY <1>1, ObserveFacts
  <2>2. \A i \in 1..Len(notices) : \A k \in notices[i].keys :
           k \in Keys /\ tracker'.states[k] = "retracted"
    <3> SUFFICES ASSUME NEW i \in 1..Len(notices), NEW k \in notices[i].keys
                 PROVE  k \in Keys /\ tracker'.states[k] = "retracted"
      OBVIOUS
    <3>1. k \in Keys
      <4>1. notices \in Seq(Notice)
        BY DEF Inv, TypeOK
      <4>2. notices[i] \in Notice
        BY <4>1
      <4> QED
        BY <4>2 DEF Notice
    <3>2. tracker.states[k] = "retracted"
      BY DEF Inv, NoticesNameRetracted
    <3> QED
      BY <2>1, <3>1, <3>2
  <2>3. CASE DetectConflictingHash(tracker, e)
    <3> DEFINE n == ObserveNotice(tracker, e)
    <3>1. notices' = Append(notices, n) /\ notices \in Seq(Notice)
      BY <2>3 DEF ObserveEvent, Inv, TypeOK
    <3>2. \A k \in n.keys : k \in CollectAffectedKeys(tracker, e.block)
      BY DEF ObserveNotice
    <3>3. CollectAffectedKeys(tracker, e.block) \subseteq Keys
      BY <1>1 DEF CollectAffectedKeys, Tracker, BlockEntry
    <3>4. \A k \in n.keys : tracker'.states[k] = "retracted"
      BY <2>1, <2>3, <3>2, <3>3
    <3> HIDE DEF n
    <3>5. \A i \in 1..Len(notices') : notices'[i] = n \/ (i \in 1..Len(notices) /\ notices'[i] = notices[i])
      BY <3>1
    <3> QED
      BY <2>2, <3>4, <3>5 DEF NoticesNameRetracted
  <2>4. CASE ~DetectConflictingHash(tracker, e)
    BY <2>2, <2>4 DEF ObserveEvent, NoticesNameRetracted
  <2> QED
    BY <2>3, <2>4
<1> QED
  BY <1>2, <1>3, <1>4

\* apply_reorg_notice keeps the invariant.
LEMMA ApplyNoticePreserves ==
    ASSUME Inv, TypeOK', ApplyReorgNotice
    PROVE  HeadIsTop' /\ NoticesNameRetracted' /\ NothingOverdue'
<1> DEFINE n == Head(notices)
<1>1. /\ tracker \in Tracker /\ notices \in Seq(Notice) /\ notices # <<>>
      /\ n \in Notice /\ notices' = Tail(notices)
      /\ tracker' = ApplyNoticeTracker(tracker, n)
  BY DEF Inv, TypeOK, ApplyReorgNotice
<1> HIDE DEF n
<1>2. /\ tracker'.head = TopHeight(tracker'.blocks)
      /\ \A k \in Keys : tracker'.states[k]
                         = IF k \in n.keys THEN "retracted" ELSE tracker.states[k]
      /\ \A h \in Heights : tracker'.blocks[h] = NoBlock \/ tracker'.blocks[h] = tracker.blocks[h]
  BY <1>1, ApplyNoticeFacts
<1>3. HeadIsTop'
  BY <1>2 DEF HeadIsTop
<1>4. NoticesNameRetracted'
  <2> SUFFICES ASSUME NEW i \in 1..Len(notices'), NEW k \in notices'[i].keys
               PROVE  tracker'.states[k] = "retracted"
    BY DEF NoticesNameRetracted
  <2>1. i + 1 \in 1..Len(notices) /\ notices'[i] = notices[i + 1]
    BY <1>1
  <2>2. tracker.states[k] = "retracted" /\ k \in Keys
    <3>1. notices[i + 1] \in Notice /\ k \in notices[i + 1].keys
      BY <1>1, <2>1
    <3>2. k \in Keys
      BY <3>1 DEF Notice
    <3> QED
      BY <2>1, <3>1, <3>2 DEF Inv, NoticesNameRetracted
  <2> QED
    BY <1>2, <2>2
<1>5. NothingOverdue'
  <2> SUFFICES ASSUME NEW h \in Heights, NEW k \in tracker'.blocks[h].keys,
                      h <= SaturatingSub(tracker'.head, MaxDepth),
                      tracker'.states[k] = "provisional"
               PROVE  FALSE
    BY DEF NothingOverdue
  <2>1. tracker'.blocks[h] = tracker.blocks[h] /\ k \in tracker.blocks[h].keys
    BY <1>2 DEF NoBlock
  <2>2. k \in Keys
    BY <1>1, <2>1 DEF Tracker, BlockEntry
  <2>3. tracker.states[k] = "provisional"
    BY <1>2, <2>2
  <2>4. Occupied(tracker'.blocks) \subseteq Occupied(tracker.blocks)
    BY <1>2 DEF Occupied, NoBlock
  <2>5. tracker'.head <= tracker.head
    <3>1. /\ Occupied(tracker'.blocks) = {} => tracker'.head = 0
          /\ Occupied(tracker'.blocks) # {} => tracker'.head \in Occupied(tracker'.blocks)
      BY <1>2, TopHeightIsMax
    <3>2. \A g \in Occupied(tracker.blocks) : g <= tracker.head
      BY TopHeightIsMax DEF Inv, HeadIsTop
    <3>3. tracker.head \in Nat
      BY <1>1, TrackerAssumption DEF Tracker, Heights
    <3> QED
      BY <2>4, <3>1, <3>2, <3>3
  <2>6. h <= SaturatingSub(tracker.head, MaxDepth)
    <3>1. tracker.head \in Nat /\ tracker'.head \in Nat /\ h \in Nat /\ MaxDepth \in Nat
      BY <1>1, TrackerAssumption DEF TypeOK, Tracker, Heights
    <3> QED
      BY <2>5, <3>1 DEF SaturatingSub
  <2> QED
    BY <2>1, <2>3, <2>6 DEF Inv, NothingOverdue
<1> QED
  BY <1>3, <1>4, <1>5

\* The conjunction of the tracker's safety invariants is inductive.
THEOREM InvHolds == Spec => []Inv
<1>1. Init => HeadIsTop /\ NoticesNameRetracted /\ NothingOverdue
  <2> SUFFICES ASSUME Init PROVE HeadIsTop /\ NoticesNameRetracted /\ NothingOverdue
    OBVIOUS
  <2>1. /\ tracker.head = 0 /\ notices = <<>>
        /\ \A h \in Heights : tracker.blocks[h] = NoBlock
    BY DEF Init, NewTracker
  <2>2. Occupied(tracker.blocks) = {}
    BY <2>1 DEF Occupied, NoBlock
  <2>3. HeadIsTop
    BY <2>1, <2>2 DEF HeadIsTop, TopHeight
  <2>4. NoticesNameRetracted
    BY <2>1 DEF NoticesNameRetracted
  <2>5. NothingOverdue
    BY <2>1 DEF NothingOverdue, NoBlock
  <2> QED
    BY <2>3, <2>4, <2>5
<1>2. Inv /\ TypeOK' /\ [Next]_vars => Inv'
  <2> SUFFICES ASSUME Inv, TypeOK', [Next]_vars PROVE Inv'
    OBVIOUS
  <2>1. ASSUME NEW e \in Event, ObserveEvent(e) PROVE Inv'
    BY <2>1, ObservePreserves DEF Inv
  <2>2. CASE ApplyReorgNotice
    BY <2>2, ApplyNoticePreserves DEF Inv
  <2>3. CASE UNCHANGED vars
    BY <2>3 DEF vars, Inv, TypeOK, HeadIsTop, NoticesNameRetracted, NothingOverdue
  <2> QED
    BY <2>1, <2>2, <2>3 DEF Next
<1>3. Inv <=> TypeOK /\ HeadIsTop /\ NoticesNameRetracted /\ NothingOverdue
  BY DEF Inv
<1> QED
  BY <1>1, <1>2, <1>3, TypeCorrect, PTL DEF Spec

\* head_block is always the highest block the tracker holds.
THEOREM HeadIsTopHolds == Spec => []HeadIsTop
<1>1. Inv => HeadIsTop
  BY DEF Inv
<1> QED
  BY <1>1, InvHolds, PTL

\* Reading its own notices back never retracts anything new.
THEOREM NoticesNameRetractedHolds == Spec => []NoticesNameRetracted
<1>1. Inv => NoticesNameRetracted
  BY DEF Inv
<1> QED
  BY <1>1, InvHolds, PTL

\* No key the tracker holds stays Provisional below the deepest confirmation depth.
THEOREM NothingOverdueHolds == Spec => []NothingOverdue
<1>1. Inv => NothingOverdue
  BY DEF Inv
<1> QED
  BY <1>1, InvHolds, PTL

\* No operation takes a key out of Retracted.
THEOREM RetractedIsTerminalHolds == Spec => RetractedIsTerminal
<1>1. ASSUME TypeOK, [Next]_vars, NEW k \in Keys, tracker.states[k] = "retracted"
      PROVE  tracker'.states[k] = "retracted"
  <2>0. tracker \in Tracker /\ notices \in Seq(Notice)
    BY <1>1 DEF TypeOK
  <2>1. ASSUME NEW e \in Event, ObserveEvent(e) PROVE tracker'.states[k] = "retracted"
    BY <1>1, <2>0, <2>1, ObserveFacts DEF ObserveEvent
  <2>2. CASE ApplyReorgNotice
    <3>1. Head(notices) \in Notice
      BY <2>0, <2>2 DEF ApplyReorgNotice
    <3> QED
      BY <1>1, <2>0, <2>2, <3>1, ApplyNoticeFacts DEF ApplyReorgNotice
  <2>3. CASE UNCHANGED vars
    BY <1>1, <2>3 DEF vars
  <2> QED
    BY <1>1, <2>1, <2>2, <2>3 DEF Next
<1>2. TypeOK /\ [Next]_vars
      => [\A k \in Keys : tracker.states[k] = "retracted" => tracker'.states[k] = "retracted"]_vars
  BY <1>1
<1> QED
  BY <1>2, TypeCorrect, PTL DEF Spec, RetractedIsTerminal

-----------------------------------------------------------------------------
(***************************************************************************)
(* What a step may do to the states of the keys.                           *)
(***************************************************************************)
\* max(1): every event asks for at least one block on top of its own.
LEMMA DepthIsPositive ==
    ASSUME NEW e \in Event
    PROVE  ConfirmationDepth(e) \in Nat \ {0}
<1>1. e.depth \in 0..MaxDepth /\ MaxDepth \in Nat /\ DefaultDepth \in 1..MaxDepth
  BY TrackerAssumption DEF Event
<1> QED
  BY <1>1 DEF ConfirmationDepth

\* Which blocks observe_event forgets: in a conflict those from the forked
\* height on, and only their keys leave.
LEMMA ObserveBlocks ==
    ASSUME NEW t \in Tracker, NEW e \in Event, NEW h \in Heights, NEW k \in t.blocks[h].keys,
           k \notin ObserveTracker(t, e).blocks[h].keys
    PROVE  DetectConflictingHash(t, e) /\ k \in CollectAffectedKeys(t, e.block)
<1> DEFINE a == AfterConflict(t, e)
           f == FileEvent(a, e)
<1>1. e.block \in Heights /\ a \in Tracker /\ f \in Tracker
  BY AfterConflictFacts, FileEventFacts DEF Event
<1>2. ObserveTracker(t, e).blocks = f.blocks
  BY <1>1, ConfirmDueFacts DEF ObserveTracker
<1>3. a.blocks[h].keys \subseteq f.blocks[h].keys
  <2> HIDE DEF a
  <2> QED
    BY <1>1 DEF FileEvent, Tracker
<1>4. k \notin a.blocks[h].keys
  BY <1>2, <1>3
<1>5. DetectConflictingHash(t, e)
  BY <1>4 DEF AfterConflict
<1>6. a.blocks = RollbackFromBlock(t, e.block).blocks
  BY <1>1, <1>5, RollbackFacts, RetractFacts DEF AfterConflict
<1>7. h >= e.block
  BY <1>1, <1>4, <1>6, RollbackFacts
<1> QED
  BY <1>5, <1>7 DEF CollectAffectedKeys

\* The state of every key after observe_event, by the branch that set it.
LEMMA ObserveStates ==
    ASSUME NEW t \in Tracker, NEW e \in Event, NEW k \in Keys
    PROVE  LET f == FileEvent(AfterConflict(t, e), e)
               hit == DetectConflictingHash(t, e) /\ k \in CollectAffectedKeys(t, e.block)
           IN  /\ k \in Due(f, ConfirmationDepth(e))
                  => /\ ~hit
                     /\ t.states[k] \in {"none", "provisional"}
                     /\ ObserveTracker(t, e).states[k] = "confirmed"
                     /\ \E h \in Heights : /\ h <= SaturatingSub(f.head, ConfirmationDepth(e))
                                           /\ k \in f.blocks[h].keys
               /\ k \notin Due(f, ConfirmationDepth(e))
                  => ObserveTracker(t, e).states[k]
                     = IF hit THEN "retracted"
                       ELSE IF k = e.key /\ t.states[k] = "none" THEN "provisional"
                       ELSE t.states[k]
               /\ ObserveTracker(t, e).head = f.head
               /\ ObserveTracker(t, e).blocks = f.blocks
<1> DEFINE a == AfterConflict(t, e)
           f == FileEvent(a, e)
           d == ConfirmationDepth(e)
           hit == DetectConflictingHash(t, e) /\ k \in CollectAffectedKeys(t, e.block)
<1>1. a \in Tracker /\ a.states[k] = IF hit THEN "retracted" ELSE t.states[k]
  BY AfterConflictFacts
<1>2. ObserveTracker(t, e) = ConfirmDue(f, d)
  BY DEF ObserveTracker
<1> HIDE DEF a, hit
<1>3. f \in Tracker /\ f.states[k] = IF k = e.key /\ a.states[k] = "none"
                                     THEN "provisional" ELSE a.states[k]
  BY <1>1, FileEventFacts
<1> HIDE DEF f, d
<1>4. /\ ObserveTracker(t, e).head = f.head /\ ObserveTracker(t, e).blocks = f.blocks
      /\ ObserveTracker(t, e).states[k] = IF k \in Due(f, d) THEN "confirmed" ELSE f.states[k]
  BY <1>2, <1>3, ConfirmDueFacts
<1>5. k \in Due(f, d) => /\ f.states[k] = "provisional"
                         /\ \E h \in Heights : h <= SaturatingSub(f.head, d) /\ k \in f.blocks[h].keys
  BY DEF Due
<1>6. k \in Due(f, d) => ~hit /\ t.states[k] \in {"none", "provisional"}
  BY <1>1, <1>3, <1>5
<1>7. k \notin Due(f, d) => ObserveTracker(t, e).states[k]
                            = IF hit THEN "retracted"
                              ELSE IF k = e.key /\ t.states[k] = "none" THEN "provisional"
                              ELSE t.states[k]
  BY <1>1, <1>3, <1>4
<1> QED
  BY <1>4, <1>5, <1>6, <1>7 DEF a, f, d, hit

\* What observe_event reports of a key and what it does to its state agree:
\* an update carries the new state, and a key without an update is unchanged.
LEMMA ObserveReports ==
    ASSUME NEW t \in Tracker, NEW e \in Event, NEW k \in Keys
    PROVE  LET u == ObserveUpdates(t, e)
               s == t.states[k]
               r == ObserveTracker(t, e).states[k]
           IN  /\ k \in u.retracted => /\ s # "retracted" /\ r = "retracted"
                                       /\ k \in CollectAffectedKeys(t, e.block)
                                       /\ k \notin u.provisional /\ k \notin u.confirmed
               /\ k \in u.provisional => /\ s = "none"
                                         /\ r = IF k \in u.confirmed THEN "confirmed"
                                                ELSE "provisional"
               /\ k \in u.confirmed => /\ r = "confirmed"
                                       /\ s = IF k \in u.provisional THEN "none"
                                              ELSE "provisional"
               /\ k \notin u.retracted \cup u.provisional \cup u.confirmed => r = s
<1> DEFINE a == AfterConflict(t, e)
           f == FileEvent(a, e)
           d == ConfirmationDepth(e)
           u == ObserveUpdates(t, e)
           s == t.states[k]
           r == ObserveTracker(t, e).states[k]
           hit == DetectConflictingHash(t, e) /\ k \in CollectAffectedKeys(t, e.block)
<1>1. /\ u.retracted = IF DetectConflictingHash(t, e)
                       THEN NewlyRetracted(t, CollectAffectedKeys(t, e.block)) ELSE {}
      /\ u.provisional = IF a.states[e.key] = "none" THEN {e.key} ELSE {}
      /\ u.confirmed = Due(f, d)
  BY DEF ObserveUpdates
<1>2. a \in Tracker /\ a.states[k] = IF hit THEN "retracted" ELSE s
  BY AfterConflictFacts
<1>3. /\ k \in Due(f, d) => ~hit /\ s \in {"none", "provisional"} /\ r = "confirmed"
      /\ k \notin Due(f, d) => r = IF hit THEN "retracted"
                                   ELSE IF k = e.key /\ s = "none" THEN "provisional"
                                   ELSE s
  BY ObserveStates
<1>4. k \in Due(f, d) => f.states[k] = "provisional"
  BY DEF Due
<1>5. f.states[k] = IF k = e.key /\ a.states[k] = "none" THEN "provisional" ELSE a.states[k]
  BY <1>2, FileEventFacts
<1>6. k \in u.retracted <=> hit /\ s # "retracted"
  BY <1>1 DEF NewlyRetracted
<1>7. hit => k \in CollectAffectedKeys(t, e.block)
  OBVIOUS
<1> HIDE DEF a, f, d, u, s, r, hit
<1>8. k \in u.provisional <=> k = e.key /\ a.states[k] = "none"
  BY <1>1
<1>9. k \in u.confirmed <=> k \in Due(f, d)
  BY <1>1
<1>10. /\ k \in u.retracted => /\ s # "retracted" /\ r = "retracted"
                               /\ k \in CollectAffectedKeys(t, e.block)
                               /\ k \notin u.provisional /\ k \notin u.confirmed
       /\ k \in u.provisional => s = "none" /\ r = IF k \in u.confirmed THEN "confirmed"
                                                   ELSE "provisional"
       /\ k \in u.confirmed => r = "confirmed" /\ s = IF k \in u.provisional THEN "none"
                                                      ELSE "provisional"
       /\ k \notin u.retracted \cup u.provisional \cup u.confirmed => r = s
  BY <1>2, <1>3, <1>4, <1>5, <1>6, <1>7, <1>8, <1>9
<1> QED
  BY <1>10 DEF u, s, r

\* The same for apply_reorg_notice: it reports the named keys that were not
\* retracted yet.
LEMMA ApplyNoticeReports ==
    ASSUME NEW t \in Tracker, NEW n \in Notice, NEW k \in Keys
    PROVE  LET u == ApplyNoticeUpdates(t, n)
               r == ApplyNoticeTracker(t, n).states[k]
           IN  /\ k \in u.retracted <=> k \in n.keys /\ t.states[k] # "retracted"
               /\ u.provisional = {} /\ u.confirmed = {}
               /\ r = IF k \in n.keys THEN "retracted" ELSE t.states[k]
<1>1. /\ ApplyNoticeUpdates(t, n).retracted = NewlyRetracted(t, n.keys)
      /\ ApplyNoticeUpdates(t, n).provisional = {}
      /\ ApplyNoticeUpdates(t, n).confirmed = {}
  BY DEF ApplyNoticeUpdates, EmptyBatch
<1>2. ApplyNoticeTracker(t, n).states[k] = IF k \in n.keys THEN "retracted" ELSE t.states[k]
  BY ApplyNoticeFacts
<1> QED
  BY <1>1, <1>2 DEF NewlyRetracted

\* Only an observed event confirms a key, and only while a block holds it that is
\* buried by the depth this event asks for (or the genesis block, where the
\* subtraction saturates), whatever forks, notices and other depths came before.
THEOREM ConfirmedIsBuriedHolds == Spec => ConfirmedIsBuried
<1> DEFINE Asked(e) == IF e.requires THEN e.depth ELSE DefaultDepth
           BuriedFor(e, k) == \E h \in Heights :
                                 /\ k \in tracker'.blocks[h].keys
                                 /\ h = 0 \/ (h < tracker'.head /\ h + Asked(e) <= tracker'.head)
<1>1. ASSUME TypeOK, Next PROVE ConfirmedWhenBuried
  <2> SUFFICES ASSUME NEW k \in Keys, tracker'.states[k] = "confirmed",
                      tracker.states[k] # "confirmed"
               PROVE  /\ Len(notices') >= Len(notices)
                      /\ \A e \in Event : ObserveEvent(e) => BuriedFor(e, k)
    BY DEF ConfirmedWhenBuried
  <2>0. tracker \in Tracker /\ notices \in Seq(Notice)
    BY <1>1 DEF TypeOK
  <2>1. ASSUME NEW e \in Event, ObserveEvent(e) PROVE BuriedFor(e, k)
    <3> DEFINE f == FileEvent(AfterConflict(tracker, e), e)
               d == ConfirmationDepth(e)
    <3>1. tracker' = ObserveTracker(tracker, e)
      BY <2>1 DEF ObserveEvent
    <3>2. k \in Due(f, d)
      BY <2>0, <3>1, ObserveStates
    <3>3. PICK h \in Heights : h <= SaturatingSub(f.head, d) /\ k \in f.blocks[h].keys
      BY <2>0, <3>2, ObserveStates
    <3>4. tracker'.head = f.head /\ tracker'.blocks = f.blocks
      BY <2>0, <3>1, ObserveStates
    <3>5. f.head \in Nat /\ h \in Nat /\ d \in Nat \ {0}
      <4>1. tracker' \in Tracker
        BY <2>0, <3>1, ObserveFacts
      <4> QED
        BY <3>4, <4>1, DepthIsPositive, TrackerAssumption DEF Tracker, Heights
    <3>6. Asked(e) <= d /\ Asked(e) \in Nat
      <4>1. e.requires \in BOOLEAN /\ e.depth \in Nat /\ DefaultDepth \in Nat
        <5>1. e.requires \in BOOLEAN /\ e.depth \in EventDepths
          BY DEF Event
        <5>2. EventDepths \subseteq Nat /\ DefaultDepth \in Nat
          BY TrackerAssumption
        <5> QED
          BY <5>1, <5>2
      <4>2. Asked(e) \in Nat
        BY <4>1
      <4>3. Asked(e) <= d
        BY <4>1, <4>2 DEF ConfirmationDepth
      <4> QED
        BY <4>2, <4>3
    <3> HIDE DEF f, d, Asked
    <3>7. h = 0 \/ (h < f.head /\ h + Asked(e) <= f.head)
      BY <3>3, <3>5, <3>6 DEF SaturatingSub
    <3> QED
      BY <3>3, <3>4, <3>7
  <2>2. ASSUME NEW e \in Event, ObserveEvent(e) PROVE Len(notices') >= Len(notices)
    BY <2>0, <2>2 DEF ObserveEvent
  <2>3. ~ApplyReorgNotice
    <3> SUFFICES ASSUME ApplyReorgNotice PROVE FALSE
      OBVIOUS
    <3>1. Head(notices) \in Notice
      BY <2>0 DEF ApplyReorgNotice
    <3>2. tracker'.states[k] = IF k \in Head(notices).keys THEN "retracted" ELSE tracker.states[k]
      BY <2>0, <3>1, ApplyNoticeFacts DEF ApplyReorgNotice
    <3> QED
      BY <3>2
  <2> HIDE DEF BuriedFor
  <2> QED
    BY <1>1, <2>1, <2>2, <2>3 DEF Next
<1>2. TypeOK /\ [Next]_vars => [ConfirmedWhenBuried]_vars
  BY <1>1
<1> QED
  BY <1>2, TypeCorrect, PTL DEF Spec, ConfirmedIsBuried

\* The updates handed to the worker are exactly the changes of state.
THEOREM UpdatesMirrorStatesHolds == Spec => UpdatesMirrorStates
<1> DEFINE Mirror(k) ==
        /\ k \in batch'.retracted <=> /\ tracker.states[k] # "retracted"
                                      /\ tracker'.states[k] = "retracted"
        /\ k \in batch'.provisional => tracker.states[k] = "none"
        /\ k \in batch'.confirmed <=> /\ tracker.states[k] # "confirmed"
                                      /\ tracker'.states[k] = "confirmed"
        /\ tracker.states[k] # tracker'.states[k]
           => k \in batch'.retracted \cup batch'.provisional \cup batch'.confirmed
<1>1. ASSUME TypeOK, Next, NEW k \in Keys PROVE Mirror(k)
  <2>0. tracker \in Tracker /\ notices \in Seq(Notice) /\ tracker.states[k] \in KeyState
    BY <1>1 DEF TypeOK, Tracker
  <2>1. ASSUME NEW e \in Event, ObserveEvent(e) PROVE Mirror(k)
    <3> DEFINE u == ObserveUpdates(tracker, e)
               r == ObserveTracker(tracker, e).states[k]
    <3>1. batch' = u /\ tracker'.states[k] = r
      BY <2>1 DEF ObserveEvent
    <3>2. /\ k \in u.retracted => tracker.states[k] # "retracted" /\ r = "retracted"
          /\ k \in u.provisional => tracker.states[k] = "none" /\ r \in {"confirmed", "provisional"}
          /\ k \in u.provisional /\ r = "confirmed" => k \in u.confirmed
          /\ k \in u.confirmed => tracker.states[k] \in {"none", "provisional"} /\ r = "confirmed"
          /\ k \notin u.retracted \cup u.provisional \cup u.confirmed => r = tracker.states[k]
      BY <2>0, ObserveReports
    <3> HIDE DEF u, r
    <3> QED
      BY <2>0, <3>1, <3>2
  <2>2. CASE ApplyReorgNotice
    <3>1. Head(notices) \in Notice
      BY <2>0, <2>2 DEF ApplyReorgNotice
    <3> QED
      BY <2>0, <2>2, <3>1, ApplyNoticeReports DEF ApplyReorgNotice
  <2> QED
    BY <1>1, <2>1, <2>2 DEF Next
<1>2. TypeOK /\ [Next]_vars => [\A k \in Keys : Mirror(k)]_vars
  BY <1>1
<1> QED
  BY <1>2, TypeCorrect, PTL DEF Spec, UpdatesMirrorStates

\* An observed event makes the tracker forget a key only by retracting it.
THEOREM DroppedKeysRetractedHolds == Spec => DroppedKeysRetracted
<1> DEFINE Dropped == Len(notices') >= Len(notices) =>
                        \A h \in Heights : \A k \in tracker.blocks[h].keys :
                           k \notin tracker'.blocks[h].keys => tracker'.states[k] = "retracted"
<1>1. ASSUME TypeOK, Next PROVE Dropped
  <2> SUFFICES ASSUME Len(notices') >= Len(notices), NEW h \in Heights,
                      NEW k \in tracker.blocks[h].keys, k \notin tracker'.blocks[h].keys
               PROVE  tracker'.states[k] = "retracted"
    OBVIOUS
  <2>0. tracker \in Tracker /\ notices \in Seq(Notice)
    BY <1>1 DEF TypeOK
  <2>1. k \in Keys
    BY <2>0 DEF Tracker, BlockEntry
  <2>2. ASSUME NEW e \in Event, ObserveEvent(e) PROVE tracker'.states[k] = "retracted"
    <3>1. tracker' = ObserveTracker(tracker, e)
      BY <2>2 DEF ObserveEvent
    <3>2. DetectConflictingHash(tracker, e) /\ k \in CollectAffectedKeys(tracker, e.block)
      BY <2>0, <3>1, ObserveBlocks
    <3> QED
      BY <2>0, <2>1, <3>1, <3>2, ObserveFacts
  <2>3. ~ApplyReorgNotice
    <3> SUFFICES ASSUME ApplyReorgNotice PROVE FALSE
      OBVIOUS
    <3>1. notices # <<>> /\ notices' = Tail(notices)
      BY DEF ApplyReorgNotice
    <3>2. Len(notices') = Len(notices) - 1 /\ Len(notices) \in Nat
      BY <2>0, <3>1
    <3> QED
      BY <3>2
  <2> QED
    BY <1>1, <2>2, <2>3 DEF Next
<1>2. TypeOK /\ [Next]_vars => [Dropped]_vars
  BY <1>1
<1> QED
  BY <1>2, TypeCorrect, PTL DEF Spec, DroppedKeysRetracted

-----------------------------------------------------------------------------
(***************************************************************************)
(* A key held by a block has been introduced.                              *)
(***************************************************************************)
HeldIsKnown(t) == \A h \in Heights : \A k \in t.blocks[h].keys : t.states[k] # "none"

\* Filing an event introduces its key, and no operation makes a key unknown.
LEMMA HeldIsKnownKept ==
    ASSUME NEW t \in Tracker, HeldIsKnown(t)
    PROVE  /\ \A e \in Event : HeldIsKnown(ObserveTracker(t, e))
           /\ \A n \in Notice : HeldIsKnown(ApplyNoticeTracker(t, n))
<1>1. ASSUME NEW e \in Event PROVE HeldIsKnown(ObserveTracker(t, e))
  <2> DEFINE a == AfterConflict(t, e)
             f == FileEvent(a, e)
  <2>1. a \in Tracker /\ f \in Tracker /\ e.block \in Heights /\ e.key \in Keys
    BY AfterConflictFacts, FileEventFacts DEF Event
  <2>2. \A h \in Heights : a.blocks[h].keys \subseteq t.blocks[h].keys
    <3>1. CASE DetectConflictingHash(t, e)
      <4>1. a.blocks = RollbackFromBlock(t, e.block).blocks
        BY <2>1, <3>1, RollbackFacts, RetractFacts DEF AfterConflict
      <4> QED
        BY <2>1, <4>1, RollbackFacts DEF NoBlock
    <3>2. CASE ~DetectConflictingHash(t, e)
      BY <3>2 DEF AfterConflict
    <3> QED
      BY <3>1, <3>2
  <2>3. \A h \in Heights : f.blocks[h].keys \subseteq a.blocks[h].keys \cup {e.key}
    <3> HIDE DEF a
    <3> QED
      BY <2>1 DEF FileEvent, Tracker
  <2>4. ObserveTracker(t, e).blocks = f.blocks /\ f.states[e.key] # "none"
    <3>1. ObserveTracker(t, e).blocks = f.blocks
      BY <2>1, ConfirmDueFacts DEF ObserveTracker
    <3>2. f.states[e.key] # "none"
      BY <2>1, FileEventFacts
    <3> QED
      BY <3>1, <3>2
  <2>5. ASSUME NEW k \in Keys, t.states[k] # "none" \/ k = e.key
        PROVE  ObserveTracker(t, e).states[k] # "none"
    <3>1. f.states[k] # "none"
      BY <2>1, <2>4, <2>5, AfterConflictFacts, FileEventFacts
    <3> QED
      BY <2>1, <3>1, ConfirmDueFacts DEF ObserveTracker
  <2> SUFFICES ASSUME NEW h \in Heights, NEW k \in f.blocks[h].keys
               PROVE  ObserveTracker(t, e).states[k] # "none"
    BY <2>4 DEF HeldIsKnown
  <2>6. k \in t.blocks[h].keys \/ k = e.key
    BY <2>2, <2>3
  <2>7. k \in Keys
    BY <2>1, <2>6 DEF Tracker, BlockEntry
  <2> QED
    BY <2>5, <2>6, <2>7 DEF HeldIsKnown
<1>2. ASSUME NEW n \in Notice PROVE HeldIsKnown(ApplyNoticeTracker(t, n))
  <2> SUFFICES ASSUME NEW h \in Heights, NEW k \in ApplyNoticeTracker(t, n).blocks[h].keys
               PROVE  ApplyNoticeTracker(t, n).states[k] # "none"
    BY DEF HeldIsKnown
  <2>1. k \in t.blocks[h].keys
    BY ApplyNoticeFacts DEF NoBlock
  <2>2. k \in Keys
    BY <2>1 DEF Tracker, BlockEntry
  <2> QED
    BY <2>1, <2>2, ApplyNoticeFacts DEF HeldIsKnown
<1> QED
  BY <1>1, <1>2
=============================================================================
