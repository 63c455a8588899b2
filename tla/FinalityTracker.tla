--------------------------- MODULE FinalityTracker ---------------------------
(***************************************************************************)
(* The per-chain confirmation tracker of crates/state-manager/src/         *)
(* finality.rs (ChainFinalityTracker): it files every observed event under *)
(* its block height, retracts events when a block shows a second hash, and *)
(* confirms events once the head is deep enough above their block.         *)
(*                                                                         *)
(* A tracker is a value, so that the finality worker (FinalityWorker) can  *)
(* keep one per process, save it and restore it.  The state machine at the *)
(* end of this module is one tracker together with the stream of its own   *)
(* reorg notices, which the worker publishes and then reads back.          *)
(***************************************************************************)
EXTENDS Integers, Sequences

CONSTANTS
    Keys,          \* event keys
    Hashes,        \* block hashes
    NoHash,        \* the event carries no block hash (Option::None)
    MaxHeight,     \* bound: heights are 0..MaxHeight (u64 in the code)
    EventDepths,   \* confirmation_depth values events may ask for
    DefaultDepth,  \* default_confirmation_depth of the tracker
    MaxDepth,      \* bound: the largest of these depths (u64 in the code)
    MaxNotices     \* bound: reorg notices waiting in the stream

ASSUME TrackerAssumption ==
    /\ NoHash \notin Hashes
    /\ MaxHeight \in Nat
    /\ MaxDepth \in Nat
    /\ EventDepths \subseteq 0..MaxDepth
    /\ DefaultDepth \in 1..MaxDepth
    /\ MaxNotices \in Nat

-----------------------------------------------------------------------------
(***************************************************************************)
(* Data.  The order of event_keys inside a block only fixes the order of   *)
(* updates about different keys, so a block holds a set of keys.  A block  *)
(* entry is created together with its first key and removed as a whole, so *)
(* a height without an entry is one whose key set is empty.                *)
(***************************************************************************)
Heights == 0..MaxHeight

BlockEntry == [hash : Hashes \cup {NoHash}, keys : SUBSET Keys]

NoBlock == [hash |-> NoHash, keys |-> {}]

KeyState == {"none", "provisional", "confirmed", "retracted"}

Tracker == [head   : Heights,
            blocks : [Heights -> BlockEntry],
            states : [Keys -> KeyState]]

Event == [key      : Keys,
          block    : Heights,
          hash     : Hashes \cup {NoHash},
          requires : BOOLEAN,
          depth    : EventDepths]

Notice == [from : Heights, keys : SUBSET Keys]

Batch == [retracted : SUBSET Keys, provisional : SUBSET Keys, confirmed : SUBSET Keys]

EmptyBatch == [retracted |-> {}, provisional |-> {}, confirmed |-> {}]

NewTracker == [head   |-> 0,
               blocks |-> [h \in Heights |-> NoBlock],
               states |-> [k \in Keys |-> "none"]]

-----------------------------------------------------------------------------
(***************************************************************************)
(* Operations.                                                             *)
(***************************************************************************)
Occupied(blocks) == {h \in Heights : blocks[h].keys # {}}

\* Mutant: a sentinel instead of unwrap_or(0).
TopHeightSentinel(blocks) ==
    IF Occupied(blocks) = {}
    THEN -1
    ELSE CHOOSE h \in Occupied(blocks) : \A g \in Occupied(blocks) : g <= h

\* blocks.keys().next_back().copied().unwrap_or(0)
TopHeight(blocks) ==
    IF Occupied(blocks) = {}
    THEN 0
    ELSE CHOOSE h \in Occupied(blocks) : \A g \in Occupied(blocks) : g <= h

SaturatingSub(a, b) == IF a >= b THEN a - b ELSE 0

\* Mutant: no .max(1) on the event's depth.
UnclampedDepth(e) == IF e.requires THEN e.depth ELSE DefaultDepth

ConfirmationDepth(e) ==
    IF e.requires THEN IF e.depth >= 1 THEN e.depth ELSE 1
                  ELSE DefaultDepth

\* Two known hashes for one height: the chain has forked there.
DetectConflictingHash(t, e) ==
    /\ t.blocks[e.block].keys # {}
    /\ t.blocks[e.block].hash # NoHash
    /\ e.hash # NoHash
    /\ t.blocks[e.block].hash # e.hash

\* Mutant: get(&from) instead of range(from..).
CollectOneBlock(t, from) == t.blocks[from].keys

CollectAffectedKeys(t, from) ==
    UNION {t.blocks[h].keys : h \in {g \in Heights : g >= from}}

\* Mutant: split_off without resetting head_block.
RollbackKeepsHead(t, from) ==
    [t EXCEPT !.blocks = [h \in Heights |-> IF h >= from THEN NoBlock ELSE t.blocks[h]]]

RollbackFromBlock(t, from) ==
    LET kept == [h \in Heights |-> IF h >= from THEN NoBlock ELSE t.blocks[h]]
    IN  [t EXCEPT !.blocks = kept, !.head = TopHeight(kept)]

\* Mutant: confirmed keys are left alone.
RetractProvisional(t, S) ==
    [t EXCEPT !.states = [k \in Keys |-> IF k \in S /\ t.states[k] = "provisional"
                                         THEN "retracted" ELSE t.states[k]]]

\* Insert Retracted for every key of S; the updates are the keys that were not.
Retract(t, S) ==
    [t EXCEPT !.states = [k \in Keys |-> IF k \in S THEN "retracted" ELSE t.states[k]]]

\* Mutant: an update for every key, already retracted or not.
RetractedAgain(t, S) == S

NewlyRetracted(t, S) == {k \in S : t.states[k] # "retracted"}

\* The conflict branch at the top of observe_event.
AfterConflict(t, e) ==
    IF DetectConflictingHash(t, e)
    THEN Retract(RollbackFromBlock(t, e.block), CollectAffectedKeys(t, e.block))
    ELSE t

\* Mutant: a new sighting makes a retracted key provisional again.
FileEventRevives(t, e) ==
    LET entry == t.blocks[e.block]
        filed == [hash |-> IF entry.keys = {} \/ entry.hash = NoHash
                           THEN e.hash ELSE entry.hash,
                  keys |-> entry.keys \cup {e.key}]
    IN  [head   |-> IF t.head >= e.block THEN t.head ELSE e.block,
         blocks |-> [t.blocks EXCEPT ![e.block] = filed],
         states |-> [t.states EXCEPT ![e.key] =
                        IF @ = "confirmed" THEN @ ELSE "provisional"]]

\* File the event under its block, raise the head, start the key as Provisional.
FileEvent(t, e) ==
    LET entry == t.blocks[e.block]
        filed == [hash |-> IF entry.keys = {} \/ entry.hash = NoHash
                           THEN e.hash ELSE entry.hash,
                  keys |-> entry.keys \cup {e.key}]
    IN  [head   |-> IF t.head >= e.block THEN t.head ELSE e.block,
         blocks |-> [t.blocks EXCEPT ![e.block] = filed],
         states |-> [t.states EXCEPT ![e.key] =
                        IF @ = "none" THEN "provisional" ELSE @]]

\* Mutant: the finalized height itself is left out.
DueBelow(t, depth) ==
    {k \in Keys :
        /\ t.states[k] = "provisional"
        /\ \E h \in Heights : /\ h < SaturatingSub(t.head, depth)
                              /\ k \in t.blocks[h].keys}

\* Provisional keys in blocks at or below the finalized height.
Due(t, depth) ==
    {k \in Keys :
        /\ t.states[k] = "provisional"
        /\ \E h \in Heights : /\ h <= SaturatingSub(t.head, depth)
                              /\ k \in t.blocks[h].keys}

ConfirmDue(t, depth) ==
    [t EXCEPT !.states = [k \in Keys |-> IF k \in Due(t, depth)
                                         THEN "confirmed" ELSE t.states[k]]]

\* The tracker after observe_event(e).
ObserveTracker(t, e) ==
    ConfirmDue(FileEvent(AfterConflict(t, e), e), ConfirmationDepth(e))

\* The updates observe_event(e) returns, in the order retracted, provisional,
\* confirmed.
ObserveUpdates(t, e) ==
    LET forked == AfterConflict(t, e)
        filed  == FileEvent(forked, e)
    IN  [retracted   |-> IF DetectConflictingHash(t, e)
                         THEN NewlyRetracted(t, CollectAffectedKeys(t, e.block))
                         ELSE {},
         provisional |-> IF forked.states[e.key] = "none" THEN {e.key} ELSE {},
         confirmed   |-> Due(filed, ConfirmationDepth(e))]

\* The reorg notice observe_event(e) returns when DetectConflictingHash(t, e)
\* (the conflicting entry is occupied, so the affected keys are not empty).
ObserveNotice(t, e) == [from |-> e.block, keys |-> CollectAffectedKeys(t, e.block)]

\* The tracker after apply_reorg_notice(n).
ApplyNoticeTracker(t, n) == Retract(RollbackFromBlock(t, n.from), n.keys)

ApplyNoticeUpdates(t, n) == [EmptyBatch EXCEPT !.retracted = NewlyRetracted(t, n.keys)]

-----------------------------------------------------------------------------
(***************************************************************************)
(* One tracker and the stream of its own notices.                          *)
(***************************************************************************)
VARIABLES
    tracker,   \* the tracker
    notices,   \* raksha:reorg-notices: notices published and not yet read back
    batch      \* the updates of the last operation

vars == <<tracker, notices, batch>>

Init ==
    /\ tracker = NewTracker
    /\ notices = <<>>
    /\ batch = EmptyBatch

ObserveEvent(e) ==
    /\ IF DetectConflictingHash(tracker, e)
       THEN /\ Len(notices) < MaxNotices
            /\ notices' = Append(notices, ObserveNotice(tracker, e))
       ELSE UNCHANGED notices
    /\ tracker' = ObserveTracker(tracker, e)
    /\ batch' = ObserveUpdates(tracker, e)

ApplyReorgNotice ==
    /\ notices # <<>>
    /\ notices' = Tail(notices)
    /\ tracker' = ApplyNoticeTracker(tracker, Head(notices))
    /\ batch' = ApplyNoticeUpdates(tracker, Head(notices))

Next == (\E e \in Event : ObserveEvent(e)) \/ ApplyReorgNotice

Spec == Init /\ [][Next]_vars

-----------------------------------------------------------------------------
(***************************************************************************)
(* Properties.                                                             *)
(***************************************************************************)
TypeOK ==
    /\ tracker \in Tracker
    /\ notices \in Seq(Notice)
    /\ batch \in Batch

\* head_block is the highest block the tracker still holds, or 0: rollback,
\* late events and replayed notices never leave it above or below
\* (finality.rs, observe_event and rollback_from_block).
HeadIsTop == tracker.head = TopHeight(tracker.blocks)

\* A notice still in the stream only names keys whose retraction has already
\* been decided: reading one's own notice back can retract nothing new.
NoticesNameRetracted ==
    \A i \in 1..Len(notices) : \A k \in notices[i].keys : tracker.states[k] = "retracted"

\* Retracted is terminal: neither a new sighting of the event, nor the
\* confirmation sweep, nor a notice brings a key back (test tc_d_1002).
RetractedIsTerminal ==
    [][\A k \in Keys : tracker.states[k] = "retracted"
                       => tracker'.states[k] = "retracted"]_vars

\* Nothing is overdue: no key stays Provisional in a block that lies the
\* largest depth or more below the head, in whatever order events, forks and
\* notices arrived.
NothingOverdue ==
    \A h \in Heights : \A k \in tracker.blocks[h].keys :
        h <= SaturatingSub(tracker.head, MaxDepth) => tracker.states[k] # "provisional"

\* A step that confirms a key observes an event, and the key's block is buried
\* deep enough for that event.
ConfirmedWhenBuried ==
    \A k \in Keys :
        tracker'.states[k] = "confirmed" /\ tracker.states[k] # "confirmed"
        => /\ Len(notices') >= Len(notices)
           /\ \A e \in Event :
                 \/ \E h \in Heights :
                       /\ k \in tracker'.blocks[h].keys
                       /\ \/ h = 0
                          \/ /\ h < tracker'.head
                             /\ h + (IF e.requires THEN e.depth ELSE DefaultDepth) <= tracker'.head
                 \/ ~ObserveEvent(e)

\* A key is confirmed only by an observed event, and only while a block of the
\* surviving fork holds it that the head buries by the depth that this event asks
\* for, at least by one block (the genesis block is final at once, because the
\* subtraction saturates).  It is not the key's own depth: the tracker keeps none,
\* and an event that asks for less confirms those before it that asked for more.
ConfirmedIsBuried == [][ConfirmedWhenBuried]_vars

\* The updates handed to the worker are exactly the changes of state: a key
\* that changed is reported with its new state, one that did not is silent.
UpdatesMirrorStates ==
    [][\A k \in Keys :
          /\ k \in batch'.retracted <=> /\ tracker.states[k] # "retracted"
                                        /\ tracker'.states[k] = "retracted"
          /\ k \in batch'.provisional => tracker.states[k] = "none"
          /\ k \in batch'.confirmed <=> /\ tracker.states[k] # "confirmed"
                                        /\ tracker'.states[k] = "confirmed"
          /\ tracker.states[k] # tracker'.states[k]
             => k \in batch'.retracted \cup batch'.provisional \cup batch'.confirmed]_vars

\* When an observed event makes the tracker stop tracking a key, the key is
\* retracted: the conflict branch forgets a block only after withdrawing its
\* events.  Otherwise a key would stay Provisional with no block left to
\* confirm or retract it from.
DroppedKeysRetracted ==
    [][Len(notices') >= Len(notices) =>
          \A h \in Heights : \A k \in tracker.blocks[h].keys :
             k \notin tracker'.blocks[h].keys => tracker'.states[k] = "retracted"]_vars
=============================================================================
