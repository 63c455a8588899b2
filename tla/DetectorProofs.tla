---------------------------- MODULE DetectorProofs ----------------------------
(***************************************************************************)
(* Theorems about Detector, for any number of processes, of patterns, of   *)
(* entries and of faults, any batch size and any MAXLEN.                   *)
(***************************************************************************)
EXTENDS Detector, FiniteSetTheorems, WellFoundedInduction, TLAPS

Resting == {"new", "connecting", "waiting", "down"}
Busy == {"pattern", "save", "publish", "ack"}
Job == [at : Resting \cup {"begin"} \cup Busy, batch : SUBSET Nat, pattern : 1 .. Patterns]

DetectorSizes == Patterns \in Nat \ {0} /\ BatchSize \in Nat /\ MaxEntries \in Nat

DetectorShape ==
    /\ IsFiniteSet(stream) /\ \A x \in stream : x.id \in 1 .. count.published
    /\ count \in [published : 0 .. MaxEntries, commands : Nat, faults : Nat]
    /\ given \in 0 .. count.published
    /\ pending \in [Detectors -> SUBSET (1 .. given)]
    /\ proc \in [Detectors -> Job]
    /\ begun \in [1 .. MaxEntries -> Nat]

\* A process that waits for entries holds none; what it holds is pending with
\* it, and with nobody else in hand.
Batches ==
    \A d \in Detectors :
        /\ proc[d].batch = {} <=> proc[d].at \in Resting
        /\ proc[d].batch \subseteq pending[d]
        /\ \A c \in Detectors : c # d => proc[c].batch \cap proc[d].batch = {}
        /\ proc[d].at = "begin" => proc[d].pattern = 1

\* Of the entries in a batch only the one in hand was taken up.
Taken ==
    /\ \A e \in 1 .. MaxEntries : begun[e] <= 1 /\ (e > given => begun[e] = 0)
    /\ \A d \in Detectors : \A e \in proc[d].batch :
          begun[e] = 0 \/ (e = Min(proc[d].batch) /\ proc[d].at \in Busy)

\* The patterns before the one in hand have seen the entry.
SeenBy(job, q) ==
    \/ q < job.pattern \/ job.at = "ack"
    \/ job.at \in {"save", "publish"} /\ q = job.pattern

Seen ==
    \A d \in Detectors : proc[d].at \in Busy =>
        \A q \in 1 .. Patterns : SeenBy(proc[d], q) => <<Min(proc[d].batch), q>> \in seen

\* What was published and not delivered is in the stream, or was trimmed.
Kept == \A e \in 1 .. count.published : e <= given \/ e \in lost \/ e \in Ids(stream)

ToldIn(marks, e, p) == <<e, p, "sent">> \in marks \/ <<e, p, "unsent">> \in marks
Told(e, p) == ToldIn(hits, e, p)

\* A detection that is not told of is of an entry that is pending, and, when a
\* process has the entry in hand, is what it saves or publishes.
Telling ==
    \A e \in Nat, p \in 1 .. Patterns : <<e, p, "hit">> \in hits /\ ~Told(e, p) =>
        /\ Pending(e)
        /\ \A d \in Detectors : e \in proc[d].batch =>
              /\ e = Min(proc[d].batch) /\ proc[d].at \in {"save", "publish"}
              /\ proc[d].pattern = p

DetectorInv ==
    DetectorShape /\ Batches /\ Taken /\ Seen /\ Kept /\ Telling /\ AcknowledgedWasSeen

-----------------------------------------------------------------------------
\* The first entry of a batch is one of it.
LEMMA FirstIn ==
    ASSUME NEW S \in SUBSET Nat, S # {} PROVE Min(S) \in S
<1>1. PICK x \in S : \A y \in S : ~(<<y, x>> \in OpToRel(<, Nat))
  BY WFMin, NatLessThanWellFounded
<1>2. ASSUME NEW y \in S PROVE x <= y
  <2>1. x \in Nat /\ y \in Nat
    OBVIOUS
  <2>2. ~(<<y, x>> \in OpToRel(<, Nat))
    BY <1>1
  <2>3. ~(y < x)
    BY <2>1, <2>2 DEF OpToRel
  <2> QED BY <2>1, <2>3
<1> QED BY <1>2 DEF Min

\* The last of the ids that were given.
LEMMA LastIn ==
    ASSUME NEW n \in Nat, NEW S \in SUBSET (0 .. n), S # {}
    PROVE  Max(S) \in S /\ \A y \in S : y <= Max(S)
<1> DEFINE U == {m \in Nat : \A y \in S : y <= m}
<1>1. n \in U /\ U \in SUBSET Nat
  OBVIOUS
<1>2. PICK m \in U : \A k \in U : ~(<<k, m>> \in OpToRel(<, Nat))
  BY <1>1, WFMin, NatLessThanWellFounded
<1>3. m \in S
  <2>1. SUFFICES ASSUME m \notin S PROVE FALSE
    OBVIOUS
  <2>2. m \in Nat /\ \A y \in S : y \in Nat /\ y < m
    BY <2>1
  <2>3. m # 0
    <3>1. PICK y \in S : TRUE
      OBVIOUS
    <3> QED BY <2>2, <3>1
  <2>5. m - 1 \in Nat /\ \A y \in S : y <= m - 1
    BY <2>2, <2>3
  <2>6. m - 1 \in U
    BY <2>5
  <2>4. <<m - 1, m>> \in OpToRel(<, Nat)
    BY <2>3 DEF OpToRel
  <2> QED BY <1>2, <2>6, <2>4
<1>4. \A y \in S : m >= y
  OBVIOUS
<1>5. Max(S) \in S /\ \A y \in S : Max(S) >= y
  BY <1>3, <1>4 DEF Max
<1> QED BY <1>5

-----------------------------------------------------------------------------
(* The kinds of steps. *)

SameCount ==
    /\ count' \in [published : 0 .. MaxEntries, commands : Nat, faults : Nat]
    /\ count'.published = count.published

\* Nothing happens to an entry.
Still ==
    /\ stream' = stream /\ given' = given /\ pending' = pending /\ seen' = seen
    /\ begun' = begun /\ hits' = hits /\ lost' = lost /\ SameCount
    /\ \/ proc' = proc
       \/ \E d \in Detectors, job \in Job :
             /\ proc[d].at \in Resting /\ job.at \in Resting /\ job.batch = {}
             /\ proc' = [proc EXCEPT ![d] = job]

\* Redis hands a batch to a process, which gets b of it: nothing when its read
\* was dropped or failed.
Delivered(d, ids, b) ==
    /\ stream' = stream /\ seen' = seen /\ begun' = begun /\ hits' = hits /\ SameCount
    /\ proc[d].at \in Resting /\ ids # {} /\ b \subseteq ids
    /\ given' = Max({given} \cup ids)
    /\ pending' = [pending EXCEPT ![d] = @ \cup ids]
    /\ proc' = [proc EXCEPT ![d] = Handling(b)]
    /\ lost' = lost \cup (ids \ b)

LEMMA NewIsJob ==
    ASSUME Patterns \in Nat \ {0}
    PROVE  /\ New \in Job /\ New.at \in Resting /\ New.batch = {}
           /\ New = [at |-> "new", batch |-> {}, pattern |-> 1]
  BY DEF New, Job, Resting

\* A read that is dropped: nothing, or a batch that nobody gets.
LEMMA Dropped ==
    ASSUME Patterns \in Nat \ {0}, DetectorShape, NEW d \in Detectors, proc[d].at \in Resting,
           SameCount, DropRead(d)
    PROVE  Still \/ Delivered(d, Ids(ReplyFor(d)), {})
<1>1. /\ proc' = [proc EXCEPT ![d] = New]
      /\ stream' = stream /\ seen' = seen /\ begun' = begun /\ hits' = hits
  BY DEF DropRead
<1>2. CASE given' = given /\ pending' = pending /\ lost' = lost
  BY <1>1, <1>2, NewIsJob DEF Still
<1>3. CASE DeliverTo(d, ReplyFor(d)) /\ lost' = lost \cup Ids(ReplyFor(d))
  <2>1. Ids(ReplyFor(d)) # {}
    BY <1>3 DEF DeliverTo, Ids
  <2>2. /\ given' = Max({given} \cup Ids(ReplyFor(d)))
        /\ pending' = [pending EXCEPT ![d] = @ \cup Ids(ReplyFor(d))]
    BY <1>3 DEF DeliverTo
  <2> DEFINE ids == Ids(ReplyFor(d))
  <2> HIDE DEF ids
  <2>3. Handling({}) = New
    BY DEF Handling
  <2>4. Delivered(d, ids, {})
    BY <1>1, <1>3, <2>1, <2>2, <2>3 DEF Delivered, ids
  <2> QED BY <2>4 DEF ids
<1> QED BY <1>2, <1>3 DEF DropRead

LEMMA Replied ==
    ASSUME Patterns \in Nat \ {0}, DetectorShape, NEW d \in Detectors, SameCount, Reply(d)
    PROVE  Still \/ \E b : Delivered(d, Ids(ReplyFor(d)), b)
<1> DEFINE reply == ReplyFor(d)
           ids == Ids(reply)
           b == IF \E x \in reply : x.kind = "bad" THEN {} ELSE Ids({x \in reply : x.kind = "ok"})
<1>1. /\ stream' = stream /\ seen' = seen /\ begun' = begun /\ hits' = hits
      /\ proc[d].at \in Resting
      /\ IF reply = {} THEN given' = given /\ pending' = pending ELSE DeliverTo(d, reply)
      /\ lost' = lost \cup (ids \ b)
  BY DEF Reply, At, Resting
<1>2. proc' = [proc EXCEPT ![d] = Handling(b)]
  BY DEF Reply
<1>3. b \subseteq ids
  BY DEF Ids
<1>4. CASE reply = {}
  <2>1. b = {} /\ ids = {}
    BY <1>3, <1>4 DEF Ids
  <2>2. Handling(b) = New
    BY <2>1 DEF Handling
  <2> HIDE DEF reply, ids, b
  <2> QED BY <1>1, <1>2, <1>4, <2>1, <2>2, NewIsJob DEF Still
<1>5. CASE reply # {}
  <2>1. ids # {}
    BY <1>5 DEF Ids
  <2>2. /\ given' = Max({given} \cup ids)
        /\ pending' = [pending EXCEPT ![d] = @ \cup ids]
    BY <1>1, <1>5 DEF DeliverTo
  <2>3. Delivered(d, ids, b)
    <3> HIDE DEF reply, ids, b
    <3> QED BY <1>1, <1>2, <1>3, <2>1, <2>2 DEF Delivered
  <2> QED BY <2>3
<1> QED BY <1>4, <1>5

\* Every step is one of these.
LEMMA DetectorSteps ==
    ASSUME Patterns \in Nat \ {0}, DetectorShape, Batches, [Next]_vars
    PROVE  \/ Still
           \/ \E d \in Detectors : \E b : Delivered(d, Ids(ReplyFor(d)), b)
           \/ \E kind \in Kinds : Publish(kind)
           \/ \E d \in Detectors :
                 \/ Begin(d) \/ Crash(d)
                 \/ \E result \in {"none", "hit", "error"} : Evaluate(d, result)
                 \/ \E ok \in BOOLEAN : SaveDetection(d, ok) \/ PublishDetection(d, ok) \/ Ack(d, ok)
<1>1. Fault => SameCount
  BY DEF Fault, SameCount, DetectorShape
<1>2. count' = count => SameCount
  BY DEF SameCount, DetectorShape
<1>3. \A ok \in BOOLEAN : May(ok) => SameCount
  BY <1>1, <1>2 DEF May
<1>4. CASE UNCHANGED vars
  BY <1>2, <1>4 DEF vars, streamVars, history, Still
<1>5. CASE ChangeConfig
  BY <1>2, <1>5 DEF ChangeConfig, streamVars, history, Still
<1>6. ASSUME NEW d \in Detectors, Timer(d) \/ RequestReload(d) \/ ServerEnds(d) PROVE Still
  <2>1. SameCount
    <3>1. CASE Timer(d) BY <1>2, <3>1 DEF Timer
    <3>2. CASE RequestReload(d) BY <3>2 DEF RequestReload, SameCount, DetectorShape
    <3>3. CASE ServerEnds(d) BY <1>1, <3>3 DEF ServerEnds
    <3> QED BY <1>6, <3>1, <3>2, <3>3
  <2> QED BY <1>6, <2>1 DEF Timer, RequestReload, ServerEnds, streamVars, history, Still
<1>7. ASSUME NEW d \in Detectors, Advance(d) PROVE Still
  <2> DEFINE job == [proc[d] EXCEPT !.at = IF At(d, "new") THEN "connecting" ELSE "waiting"]
  <2>1. proc[d] \in Job /\ proc[d].at \in Resting /\ proc[d].batch = {}
    BY <1>7 DEF Advance, Batches, Resting, DetectorShape
  <2>2. job \in Job /\ job.at \in Resting /\ job.batch = {}
    BY <2>1 DEF Job, Resting
  <2>3. proc' = [proc EXCEPT ![d] = job]
    BY <1>7 DEF Advance, Goto, DetectorShape
  <2> HIDE DEF job
  <2> QED BY <1>2, <1>7, <2>1, <2>2, <2>3 DEF Advance, streamVars, history, Still
<1>8. ASSUME NEW d \in Detectors, NEW ok \in BOOLEAN, Restart(d, ok) PROVE Still
  <2> DEFINE job == [proc[d] EXCEPT !.at = "new"]
  <2>1. proc[d] \in Job /\ proc[d].at \in Resting /\ proc[d].batch = {}
    BY <1>8 DEF Restart, At, Batches, Resting, DetectorShape
  <2>2. job \in Job /\ job.at \in Resting /\ job.batch = {}
    BY <2>1 DEF Job, Resting
  <2>3. proc' = [proc EXCEPT ![d] = job]
    BY <1>8 DEF Restart, Goto, DetectorShape
  <2> HIDE DEF job
  <2> QED BY <1>3, <1>8, <2>1, <2>2, <2>3 DEF Restart, streamVars, history, Still
<1>9. ASSUME NEW d \in Detectors,
             \/ CommandClosed(d) \/ ReadFails(d)
             \/ \E ok \in BOOLEAN : Tick(d, ok) \/ Command(d, ok)
      PROVE  Still \/ Delivered(d, Ids(ReplyFor(d)), {})
  <2>1. proc[d].at \in Resting /\ DropRead(d)
    BY <1>9 DEF CommandClosed, ReadFails, Tick, Command, Reading, Resting
  <2>2. SameCount
    BY <1>1, <1>2, <1>3, <1>9 DEF CommandClosed, ReadFails, Tick, Command, Reload
  <2> QED BY <2>1, <2>2, Dropped
<1>10. ASSUME NEW d \in Detectors, Reply(d)
       PROVE  Still \/ \E b : Delivered(d, Ids(ReplyFor(d)), b)
  BY <1>2, <1>10, Replied DEF Reply
<1> HIDE DEF Still, Delivered
<1>11. ASSUME NEW d \in Detectors, Step(d)
       PROVE  \/ Advance(d) \/ CommandClosed(d) \/ Reply(d) \/ Begin(d)
              \/ \E ok \in BOOLEAN : Tick(d, ok) \/ Command(d, ok)
              \/ \E ok \in BOOLEAN : Restart(d, ok)
              \/ \E ok \in BOOLEAN : SaveDetection(d, ok) \/ PublishDetection(d, ok) \/ Ack(d, ok)
              \/ \E result \in {"none", "hit", "error"} : Evaluate(d, result)
  BY <1>11 DEF Step
<1>12. \/ UNCHANGED vars \/ ChangeConfig
       \/ \E kind \in Kinds : Publish(kind)
       \/ \E d \in Detectors : \/ Step(d) \/ ReadFails(d) \/ Crash(d)
                               \/ Timer(d) \/ RequestReload(d) \/ ServerEnds(d)
  BY DEF Next
<1> QED BY <1>4, <1>5, <1>6, <1>7, <1>8, <1>9, <1>10, <1>11, <1>12

-----------------------------------------------------------------------------
LEMMA HandlingFacts ==
    ASSUME Patterns \in Nat \ {0}, NEW b \in SUBSET Nat
    PROVE  /\ Handling(b) \in Job /\ Handling(b).batch = b /\ Handling(b).pattern = 1
           /\ b = {} => Handling(b).at = "new"
           /\ b # {} => Handling(b).at = "begin"
<1>1. CASE b = {}
  <2>1. Handling(b) = New
    BY <1>1 DEF Handling
  <2> QED BY <1>1, <2>1, NewIsJob
<1>2. CASE b # {}
  <2>1. Handling(b) = [at |-> "begin", batch |-> b, pattern |-> 1]
    BY <1>2 DEF Handling
  <2>2. Handling(b) \in Job
    BY <2>1 DEF Job
  <2>3. Handling(b).at = "begin"
    BY <2>1
  <2>4. Handling(b).batch = b
    BY <2>1
  <2>5. Handling(b).pattern = 1
    BY <2>1
  <2> QED BY <1>2, <2>2, <2>3, <2>4, <2>5
<1> QED BY <1>1, <1>2

\* What Redis hands out is the oldest part of what nobody had, so that the last
\* id given passes only entries that it hands out and entries that were trimmed.
LEMMA DeliveryFacts ==
    ASSUME BatchSize \in Nat, DetectorShape, Kept, NEW d \in Detectors, ReplyFor(d) # {}
    PROVE  LET ids == Ids(ReplyFor(d))
               g   == Max({given} \cup ids)
           IN  /\ ids \subseteq given + 1 .. g
               /\ g \in given .. count.published
               /\ \A e \in given + 1 .. g : e \in ids \/ e \in lost
<1> DEFINE U == Undelivered(d)
           ids == Ids(ReplyFor(d))
           g == Max({given} \cup ids)
           Older(x) == {y \in U : y.id <= x.id}
<1>1. U = {x \in stream : x.id > given} /\ \A x \in U : x.id \in given + 1 .. count.published
  BY DEF Undelivered, DetectorShape
<1>2. IsFiniteSet(U)
  BY <1>1, FS_Subset DEF DetectorShape
<1>3. ReplyFor(d) = {x \in U : Cardinality(Older(x)) <= BatchSize}
  BY DEF ReplyFor
<1>4. ids \subseteq given + 1 .. count.published
  BY <1>1, <1>3 DEF Ids
<1>5. g \in {given} \cup ids /\ \A e \in {given} \cup ids : e <= g
  <2>1. count.published \in Nat /\ {given} \cup ids \subseteq 0 .. count.published
    BY <1>4 DEF DetectorShape
  <2> HIDE DEF ids
  <2> QED BY <2>1, LastIn
<1>6. ASSUME NEW x \in ReplyFor(d), NEW y \in U, y.id <= x.id PROVE y \in ReplyFor(d)
  <2> HIDE DEF U
  <2>1. x \in U /\ Older(y) \subseteq Older(x)
    BY <1>1, <1>3, <1>6 DEF DetectorShape
  <2>2. IsFiniteSet(Older(x)) /\ IsFiniteSet(Older(y))
    BY <1>2, FS_Subset
  <2> HIDE DEF Older
  <2>3. Cardinality(Older(y)) <= Cardinality(Older(x)) /\ Cardinality(Older(y)) \in Nat
        /\ Cardinality(Older(x)) \in Nat
    BY <2>1, <2>2, FS_Subset, FS_CardinalityType
  <2>4. /\ Cardinality(Older(x)) = Cardinality(Older(x))
        /\ Cardinality(Older(y)) = Cardinality(Older(y))
    BY DEF Cardinality, Cardinality
  <2>5. Cardinality(Older(x)) <= BatchSize
    BY <1>3, <2>4
  <2>6. Cardinality(Older(y)) <= BatchSize
    BY <2>3, <2>5
  <2> QED BY <1>3, <2>4, <2>6
<1>7. ASSUME NEW e \in given + 1 .. g PROVE e \in ids \/ e \in lost
  <2>1. g \in ids
    BY <1>5 DEF DetectorShape
  <2>2. PICK x \in ReplyFor(d) : x.id = g
    BY <2>1 DEF Ids
  <2>3. SUFFICES ASSUME e \notin lost PROVE e \in ids
    OBVIOUS
  <2>4. e \in 1 .. count.published /\ e > given /\ e <= g
    BY <1>4, <2>1 DEF DetectorShape
  <2>5. PICK y \in stream : y.id = e
    BY <2>3, <2>4 DEF Kept, Ids, DetectorShape
  <2>6. y \in U
    BY <1>1, <2>4, <2>5
  <2>7. y \in ReplyFor(d)
    BY <1>6, <2>2, <2>4, <2>5, <2>6
  <2> QED BY <2>5, <2>7 DEF Ids
<1>8. g \in given .. count.published /\ ids \subseteq given + 1 .. g
  <2> HIDE DEF g, ids
  <2> QED BY <1>4, <1>5 DEF DetectorShape
<1> QED BY <1>7, <1>8

LEMMA StillKeeps ==
    ASSUME DetectorInv, Still PROVE DetectorInv'
<1> USE DEF DetectorInv
<1>1. /\ stream' = stream /\ given' = given /\ pending' = pending /\ seen' = seen
      /\ begun' = begun /\ hits' = hits /\ lost' = lost /\ SameCount
  BY DEF Still
<1>2. /\ DetectorShape' /\ Batches'
      /\ \A d \in Detectors : proc'[d] = proc[d]
            \/ (proc'[d].at \in Resting /\ proc'[d].batch = {})
  <2>1. CASE proc' = proc
    BY <1>1, <2>1 DEF DetectorShape, Batches, SameCount
  <2>2. ASSUME NEW d \in Detectors, NEW job \in Job, proc[d].at \in Resting,
               job.at \in Resting, job.batch = {}, proc' = [proc EXCEPT ![d] = job]
        PROVE  /\ DetectorShape' /\ Batches'
               /\ \A c \in Detectors : proc'[c] = IF c = d THEN job ELSE proc[c]
    <3>1. \A c \in Detectors : proc'[c] = IF c = d THEN job ELSE proc[c]
      BY <2>2 DEF DetectorShape
    <3>2. DetectorShape'
      BY <1>1, <2>2 DEF DetectorShape, SameCount
    <3>3. Batches'
      BY <1>1, <2>2, <3>1 DEF Batches, Resting
    <3> QED BY <3>1, <3>2, <3>3
  <2> QED BY <2>1, <2>2 DEF Still
<1>3. Taken'
  BY <1>1, <1>2 DEF Taken
<1>4. Seen'
  BY <1>1, <1>2 DEF Seen, Resting, Busy, SeenBy
<1>5. Kept'
  BY <1>1 DEF Kept, SameCount
<1>6. Telling'
  BY <1>1, <1>2 DEF Telling, Told, Pending
<1>7. AcknowledgedWasSeen'
  BY <1>1 DEF AcknowledgedWasSeen, Pending, Everyone
<1> QED BY <1>2, <1>3, <1>4, <1>5, <1>6, <1>7

LEMMA DeliveredKeeps ==
    ASSUME DetectorSizes, DetectorInv, NEW d \in Detectors, NEW b,
           Delivered(d, Ids(ReplyFor(d)), b)
    PROVE  DetectorInv'
<1> DEFINE ids == Ids(ReplyFor(d))
           job == Handling(b)
<1>1. /\ stream' = stream /\ seen' = seen /\ begun' = begun /\ hits' = hits /\ SameCount
      /\ proc[d].at \in Resting /\ b \subseteq ids
      /\ given' = Max({given} \cup ids)
      /\ pending' = [pending EXCEPT ![d] = @ \cup ids]
      /\ proc' = [proc EXCEPT ![d] = job]
      /\ lost' = lost \cup (ids \ b)
  BY DEF Delivered
<1>2. /\ ids \subseteq given + 1 .. given'
      /\ given' \in given .. count.published
      /\ \A e \in given + 1 .. given' : e \in ids \/ e \in lost
  <2>1. ReplyFor(d) # {}
    BY DEF Delivered, Ids
  <2> QED BY <1>1, <2>1, DeliveryFacts DEF DetectorInv, DetectorSizes
<1> HIDE DEF ids
<1>3. given \in Nat /\ count.published \in Nat /\ MaxEntries \in Nat /\ count.published <= MaxEntries
      /\ given' \in Nat /\ given <= given'
  BY <1>2 DEF DetectorInv, DetectorShape, DetectorSizes
<1>4. /\ job \in Job /\ job.batch = b /\ job.pattern = 1
      /\ b = {} => job.at = "new"
      /\ b # {} => job.at = "begin"
  <2>1. b \subseteq Nat
    BY <1>1, <1>2, <1>3
  <2> QED BY <2>1, HandlingFacts DEF DetectorSizes
<1> HIDE DEF job
<1>5. /\ \A c \in Detectors : proc'[c] = IF c = d THEN job ELSE proc[c]
      /\ \A c \in Detectors : pending'[c] = IF c = d THEN pending[c] \cup ids ELSE pending[c]
      /\ \A c \in Detectors : \A e \in pending[c] : e \in Nat /\ e <= given /\ e > 0
  <2>1. \A c \in Detectors : proc'[c] = IF c = d THEN job ELSE proc[c]
    BY <1>1 DEF DetectorInv, DetectorShape
  <2>2. \A c \in Detectors : pending'[c] = IF c = d THEN pending[c] \cup ids ELSE pending[c]
    BY <1>1 DEF DetectorInv, DetectorShape
  <2>3. \A c \in Detectors : \A e \in pending[c] : e \in Nat /\ e <= given /\ e > 0
    BY <1>3 DEF DetectorInv, DetectorShape
  <2> QED BY <2>1, <2>2, <2>3
<1>6. /\ \A c \in Detectors : proc[c].batch \subseteq pending[c]
      /\ \A c \in Detectors : \A e \in proc[c].batch : e \notin ids
      /\ proc[d].batch = {}
  <2>1. \A c \in Detectors : proc[c].batch \subseteq pending[c]
    BY DEF DetectorInv, Batches
  <2>2. \A e \in ids : e > given
    BY <1>2, <1>3
  <2>3. proc[d].batch = {}
    BY <1>1 DEF DetectorInv, Batches
  <2> QED BY <1>3, <1>5, <2>1, <2>2, <2>3
<1>7. DetectorShape'
  <2>1. pending' \in [Detectors -> SUBSET (1 .. given')]
    <3>1. DOMAIN pending' = Detectors /\ pending' = [c \in Detectors |-> pending'[c]]
      BY <1>1 DEF DetectorInv, DetectorShape
    <3>2. \A c \in Detectors : \A e \in pending'[c] : e \in 1 .. given'
      <4> SUFFICES ASSUME NEW c \in Detectors, NEW e \in pending'[c] PROVE e \in 1 .. given'
        OBVIOUS
      <4>1. CASE e \in ids
        BY <1>2, <1>3, <4>1
      <4>2. CASE e \in pending[c]
        BY <1>3, <1>5, <4>2
      <4> QED BY <1>5, <4>1, <4>2
    <3> QED BY <3>1, <3>2
  <2>2. proc' \in [Detectors -> Job]
    BY <1>1, <1>4 DEF DetectorInv, DetectorShape
  <2>3. given' \in 0 .. count'.published
    BY <1>1, <1>2, <1>3 DEF SameCount
  <2> QED BY <1>1, <2>1, <2>2, <2>3 DEF DetectorInv, DetectorShape, SameCount
<1>8. Batches'
  <2>1. ASSUME NEW c \in Detectors
        PROVE  /\ proc'[c].batch = {} <=> proc'[c].at \in Resting
               /\ proc'[c].batch \subseteq pending'[c]
               /\ proc'[c].at = "begin" => proc'[c].pattern = 1
    <3>1. CASE c # d
      BY <1>5, <3>1 DEF DetectorInv, Batches
    <3>2. CASE c = d
      <4>1. proc'[c] = job /\ b \subseteq pending'[c]
        BY <1>1, <1>5, <3>2
      <4> QED BY <1>4, <4>1 DEF Resting
    <3> QED BY <3>1, <3>2
  <2>2. ASSUME NEW c \in Detectors, NEW f \in Detectors, f # c
        PROVE  proc'[f].batch \cap proc'[c].batch = {}
    <3>1. CASE c # d /\ f # d
      BY <1>5, <2>2, <3>1 DEF DetectorInv, Batches
    <3>2. CASE c = d
      BY <1>1, <1>4, <1>5, <1>6, <2>2, <3>2
    <3>3. CASE f = d
      BY <1>1, <1>4, <1>5, <1>6, <2>2, <3>3
    <3> QED BY <3>1, <3>2, <3>3
  <2> QED BY <2>1, <2>2 DEF Batches
<1>9. Taken'
  <2>1. \A e \in ids : e \in 1 .. MaxEntries /\ begun[e] = 0
    BY <1>2, <1>3 DEF DetectorInv, Taken
  <2>2. \A e \in 1 .. MaxEntries : begun[e] <= 1 /\ (e > given' => begun[e] = 0)
    BY <1>3 DEF DetectorInv, Taken
  <2>3. ASSUME NEW c \in Detectors, NEW e \in proc'[c].batch
        PROVE  begun[e] = 0 \/ (e = Min(proc'[c].batch) /\ proc'[c].at \in Busy)
    <3>1. CASE c = d
      BY <1>1, <1>4, <1>5, <2>1, <2>3, <3>1
    <3>2. CASE c # d
      BY <1>5, <2>3, <3>2 DEF DetectorInv, Taken
    <3> QED BY <3>1, <3>2
  <2> QED BY <1>1, <2>2, <2>3 DEF Taken
<1>10. Seen'
  BY <1>1, <1>4, <1>5 DEF DetectorInv, Seen, SeenBy, Busy
<1>11. Kept'
  BY <1>1, <1>3 DEF DetectorInv, Kept, SameCount
<1>12. Telling'
  <2> SUFFICES ASSUME NEW e \in Nat, NEW p \in 1 .. Patterns, <<e, p, "hit">> \in hits, ~Told(e, p)
               PROVE  /\ Pending(e)'
                      /\ \A c \in Detectors : e \in proc'[c].batch =>
                            /\ e = Min(proc'[c].batch) /\ proc'[c].at \in {"save", "publish"}
                            /\ proc'[c].pattern = p
    BY <1>1 DEF Telling, Told
  <2>1. PICK f \in Detectors : e \in pending[f]
    BY DEF DetectorInv, Telling, Pending
  <2>2. e \notin ids
    BY <1>2, <1>3, <1>5, <2>1
  <2>3. e \in pending'[f]
    BY <1>5, <2>1
  <2> QED BY <1>1, <1>4, <1>5, <2>2, <2>3 DEF DetectorInv, Telling, Pending
<1>13. AcknowledgedWasSeen'
  <2> SUFFICES ASSUME NEW e \in 1 .. given' PROVE Pending(e)' \/ Everyone(e)' \/ e \in lost'
    BY DEF AcknowledgedWasSeen
  <2>1. CASE e <= given
    BY <1>1, <1>3, <1>5, <2>1 DEF DetectorInv, AcknowledgedWasSeen, Pending, Everyone
  <2>2. CASE e > given
    <3>1. e \in given + 1 .. given'
      BY <1>3, <2>2
    <3>2. CASE e \in ids
      BY <1>5, <3>2 DEF Pending
    <3>3. CASE e \in lost
      BY <1>1, <3>3
    <3> QED BY <1>2, <3>1, <3>2, <3>3
  <2> QED BY <1>3, <2>1, <2>2
<1> QED BY <1>7, <1>8, <1>9, <1>10, <1>11, <1>12, <1>13 DEF DetectorInv

LEMMA PublishKeeps ==
    ASSUME DetectorSizes, DetectorInv, NEW kind, Publish(kind) PROVE DetectorInv'
<1> DEFINE id == count.published + 1
           all == stream \cup {[id |-> id, kind |-> kind]}
<1>1. /\ given' = given /\ pending' = pending /\ proc' = proc /\ seen' = seen /\ begun' = begun
      /\ hits' = hits /\ count.published < MaxEntries
      /\ count' = [count EXCEPT !.published = @ + 1]
  BY DEF Publish
<1>2. PICK cut \in 0 .. count.published :
        /\ stream' = {x \in all : x.id > cut}
        /\ lost' = lost \cup {e \in Ids(all) : given < e /\ e <= cut}
  BY DEF Publish
<1>3. count.published \in Nat /\ count'.published = id /\ MaxEntries \in Nat
  BY <1>1 DEF DetectorInv, DetectorShape, DetectorSizes
<1>4. \A x \in all : x.id \in 1 .. id
  BY <1>3 DEF DetectorInv, DetectorShape
<1>5. IsFiniteSet(stream')
  <2>1. IsFiniteSet(all)
    BY FS_AddElement DEF DetectorInv, DetectorShape
  <2> HIDE DEF all
  <2> QED BY <1>2, <2>1, FS_Subset
<1>6. DetectorShape'
  <2>1. count' \in [published : 0 .. MaxEntries, commands : Nat, faults : Nat]
    BY <1>1, <1>3 DEF DetectorInv, DetectorShape
  <2>2. \A x \in stream' : x.id \in 1 .. count'.published
    <3> HIDE DEF all
    <3> QED BY <1>2, <1>3, <1>4
  <2>3. given' \in 0 .. count'.published
    BY <1>1, <1>3 DEF DetectorInv, DetectorShape
  <2> QED BY <1>1, <1>5, <2>1, <2>2, <2>3 DEF DetectorInv, DetectorShape
<1>7. Batches' /\ Taken' /\ Seen' /\ Telling'
  BY <1>1 DEF DetectorInv, Batches, Taken, Seen, SeenBy, Telling, Told, Pending
<1>8. Kept'
  <2> SUFFICES ASSUME NEW e \in 1 .. id, e > given, e \notin lost'
               PROVE  e \in Ids(stream')
    BY <1>1, <1>3 DEF Kept, Ids, DetectorInv, DetectorShape
  <2>1. e \in Ids(all)
    <3>1. CASE e = id
      <4> DEFINE x == [id |-> id, kind |-> kind]
      <4>1. x \in all /\ x.id = e
        BY <3>1
      <4> QED BY <4>1 DEF Ids
    <3>2. CASE e # id
      <4>1. e \in 1 .. count.published /\ e \notin lost /\ ~(e <= given)
        BY <1>2, <1>3, <3>2 DEF DetectorInv, DetectorShape
      <4>2. e \in Ids(stream)
        BY <4>1 DEF DetectorInv, Kept
      <4> QED BY <4>2 DEF Ids
    <3> QED BY <3>1, <3>2
  <2>2. PICK x \in all : x.id = e
    BY <2>1 DEF Ids
  <2>3. e > cut
    <3>1. ~(e <= cut)
      <4> HIDE DEF all
      <4> QED BY <1>2, <2>1 DEF DetectorInv, DetectorShape
    <3> QED BY <1>3, <3>1
  <2> HIDE DEF all
  <2> QED BY <1>2, <2>2, <2>3 DEF Ids
<1>9. AcknowledgedWasSeen'
  BY <1>1, <1>2 DEF DetectorInv, AcknowledgedWasSeen, Pending, Everyone
<1> QED BY <1>6, <1>7, <1>8, <1>9 DEF DetectorInv

-----------------------------------------------------------------------------
(* The steps of a process that handles an entry. *)

\* The process d goes on with a job; nobody else does anything.
Works(d, job) ==
    /\ stream' = stream /\ given' = given /\ SameCount
    /\ proc' = [proc EXCEPT ![d] = job]
    /\ pending' \in [Detectors -> SUBSET (1 .. given)]

LEMMA WorkFacts ==
    ASSUME DetectorSizes, DetectorInv, NEW d \in Detectors, proc[d].at \notin Resting
    PROVE  /\ proc[d] \in Job /\ Entry(d) = Min(proc[d].batch) /\ Entry(d) \in proc[d].batch
           /\ Entry(d) \in pending[d] /\ Entry(d) \in 1 .. given /\ Entry(d) \in 1 .. MaxEntries
           /\ Entry(d) \in Nat /\ proc[d].batch \in SUBSET Nat
           /\ \A c \in Detectors : c # d => Entry(d) \notin proc[c].batch
<1>1. proc[d] \in Job /\ proc[d].batch # {} /\ proc[d].batch \in SUBSET Nat
  BY DEF DetectorInv, DetectorShape, Batches, Job
<1>2. Entry(d) = Min(proc[d].batch) /\ Entry(d) \in proc[d].batch
  BY <1>1, FirstIn DEF Entry
<1>3. Entry(d) \in pending[d]
  BY <1>2 DEF DetectorInv, Batches
<1>4. Entry(d) \in 1 .. given /\ given \in 0 .. count.published /\ count.published \in 0 .. MaxEntries
  BY <1>3 DEF DetectorInv, DetectorShape
<1>5. Entry(d) \in 1 .. MaxEntries /\ Entry(d) \in Nat
  BY <1>4 DEF DetectorSizes
<1>6. \A c \in Detectors : c # d => Entry(d) \notin proc[c].batch
  BY <1>2 DEF DetectorInv, Batches
<1> QED BY <1>1, <1>2, <1>3, <1>4, <1>5, <1>6

\* What every such step keeps; the job's batch is the old one, or a part of it.
LEMMA WorkKeeps ==
    ASSUME DetectorInv, NEW d \in Detectors, NEW job \in Job, Works(d, job),
           proc[d].at \notin Resting, job.batch \subseteq proc[d].batch,
           job.batch = {} <=> job.at \in Resting,
           job.at = "begin" => job.pattern = 1,
           job.batch \subseteq pending'[d], \A c \in Detectors : c # d => pending'[c] = pending[c]
    PROVE  /\ \A c \in Detectors : proc'[c] = IF c = d THEN job ELSE proc[c]
           /\ begun' \in [1 .. MaxEntries -> Nat] => DetectorShape'
           /\ Batches'
           /\ lost \subseteq lost' => Kept'
<1>1. \A c \in Detectors : proc'[c] = IF c = d THEN job ELSE proc[c]
  BY DEF DetectorInv, DetectorShape, Works
<1>2. begun' \in [1 .. MaxEntries -> Nat] => DetectorShape'
  BY DEF DetectorInv, DetectorShape, Works, SameCount
<1>3. Batches'
  <2>1. ASSUME NEW c \in Detectors
        PROVE  /\ proc'[c].batch = {} <=> proc'[c].at \in Resting
               /\ proc'[c].batch \subseteq pending'[c]
               /\ proc'[c].at = "begin" => proc'[c].pattern = 1
    <3>1. CASE c = d
      BY <1>1, <3>1
    <3>2. CASE c # d
      BY <1>1, <3>2 DEF DetectorInv, Batches
    <3> QED BY <3>1, <3>2
  <2>2. ASSUME NEW c \in Detectors, NEW f \in Detectors, f # c
        PROVE  proc'[f].batch \cap proc'[c].batch = {}
    <3>1. proc'[f].batch \subseteq proc[f].batch /\ proc'[c].batch \subseteq proc[c].batch
      BY <1>1
    <3>2. proc[f].batch \cap proc[c].batch = {}
      BY <2>2 DEF DetectorInv, Batches
    <3> QED BY <3>1, <3>2
  <2> QED BY <2>1, <2>2 DEF Batches
<1>4. lost \subseteq lost' => Kept'
  BY DEF DetectorInv, Kept, Works, SameCount
<1> QED BY <1>1, <1>2, <1>3, <1>4

Stages == Resting \cup {"begin"} \cup Busy

Moved(job, at) == [job EXCEPT !.at = at]
Advanced(job, at, p) == [job EXCEPT !.at = at, !.pattern = p]

LEMMA JobMoves ==
    ASSUME NEW job \in Job, NEW at \in Stages
    PROVE  /\ Moved(job, at) \in Job
           /\ Moved(job, at).at = at
           /\ Moved(job, at).batch = job.batch
           /\ Moved(job, at).pattern = job.pattern
<1> HIDE DEF Stages
<1>1. Job = [at : Stages, batch : SUBSET Nat, pattern : 1 .. Patterns]
  BY DEF Job, Stages
<1> QED BY <1>1 DEF Moved

LEMMA JobAdvances ==
    ASSUME NEW job \in Job, NEW at \in Stages, NEW p \in 1 .. Patterns
    PROVE  /\ Advanced(job, at, p) \in Job
           /\ Advanced(job, at, p).at = at
           /\ Advanced(job, at, p).batch = job.batch
           /\ Advanced(job, at, p).pattern = p
<1> HIDE DEF Stages
<1>1. Job = [at : Stages, batch : SUBSET Nat, pattern : 1 .. Patterns]
  BY DEF Job, Stages
<1> QED BY <1>1 DEF Advanced

\* NextPattern: the same batch, and the next pattern or the acknowledgement.
LEMMA NextPatternFacts ==
    ASSUME DetectorSizes, DetectorInv, NEW d \in Detectors, proc[d].at \in Busy
    PROVE  LET job == NextPattern(d)
           IN  /\ job \in Job /\ job.batch = proc[d].batch
               /\ \/ proc[d].pattern = Patterns /\ job.at = "ack"
                  \/ /\ proc[d].pattern < Patterns
                     /\ job.at = "pattern" /\ job.pattern = proc[d].pattern + 1
<1>1. proc[d] \in Job /\ Patterns \in Nat \ {0}
  BY DEF DetectorInv, DetectorShape, DetectorSizes
<1>2. CASE proc[d].pattern = Patterns
  <2>1. NextPattern(d) = Advanced(proc[d], "ack", 1)
    BY <1>2 DEF NextPattern, Advanced
  <2>2. "ack" \in Stages /\ 1 \in 1 .. Patterns
    BY <1>1 DEF Stages, Busy
  <2> QED BY <1>1, <1>2, <2>1, <2>2, JobAdvances
<1>3. CASE proc[d].pattern # Patterns
  <2>1. NextPattern(d) = Advanced(proc[d], "pattern", proc[d].pattern + 1)
    BY <1>3 DEF NextPattern, Advanced
  <2>2. proc[d].pattern < Patterns /\ proc[d].pattern \in Nat
    BY <1>1, <1>3 DEF Job
  <2>3. "pattern" \in Stages /\ proc[d].pattern + 1 \in 1 .. Patterns
    BY <1>1, <2>2 DEF Stages, Busy
  <2> QED BY <1>1, <2>1, <2>2, <2>3, JobAdvances
<1> QED BY <1>2, <1>3

\* The rest of the invariant, from what the step does to the entry in hand.
LEMMA WorkKeepsEntries ==
    ASSUME DetectorInv, NEW d \in Detectors, NEW job \in Job, Works(d, job), proc[d].at \notin Resting
    PROVE  /\ begun' = begun /\ (\A e \in job.batch : begun[e] = 0 \/ (e = Min(job.batch) /\ job.at \in Busy))
                 => Taken'
           /\ seen \subseteq seen' /\ (job.at \in Busy => \A q \in 1 .. Patterns :
                    SeenBy(job, q) => <<Min(job.batch), q>> \in seen')
                 => Seen'
           /\ pending' = pending /\ seen \subseteq seen' /\ lost \subseteq lost' => AcknowledgedWasSeen'
<1>1. /\ \A c \in Detectors : proc'[c] = IF c = d THEN job ELSE proc[c]
      /\ given' = given
  BY DEF DetectorInv, DetectorShape, Works
<1>2. begun' = begun /\ (\A e \in job.batch : begun[e] = 0 \/ (e = Min(job.batch) /\ job.at \in Busy))
         => Taken'
  BY <1>1 DEF DetectorInv, Taken
<1>3. ASSUME seen \subseteq seen',
             job.at \in Busy => \A q \in 1 .. Patterns : SeenBy(job, q) => <<Min(job.batch), q>> \in seen'
      PROVE  Seen'
  <2> SUFFICES ASSUME NEW c \in Detectors, proc'[c].at \in Busy, NEW q \in 1 .. Patterns,
                      SeenBy(proc'[c], q)
               PROVE  <<Min(proc'[c].batch), q>> \in seen'
    BY DEF Seen, SeenBy
  <2>1. CASE c = d
    <3>1. proc'[c] = job
      BY <1>1, <2>1
    <3> QED BY <1>3, <3>1
  <2>2. CASE c # d
    <3>1. proc'[c] = proc[c]
      BY <1>1, <2>2
    <3>2. <<Min(proc[c].batch), q>> \in seen
      BY <3>1 DEF DetectorInv, Seen
    <3> QED BY <1>3, <3>1, <3>2
  <2> QED BY <2>1, <2>2
<1>4. ASSUME pending' = pending, seen \subseteq seen', lost \subseteq lost' PROVE AcknowledgedWasSeen'
  BY <1>1, <1>4 DEF DetectorInv, AcknowledgedWasSeen, Pending, Everyone
<1> QED BY <1>2, <1>3, <1>4

LEMMA BeginKeeps ==
    ASSUME DetectorSizes, DetectorInv, NEW d \in Detectors, Begin(d) PROVE DetectorInv'
<1> DEFINE e0 == Entry(d)
           job == Moved(proc[d], "pattern")
<1>1. /\ proc[d].at = "begin" /\ stream' = stream /\ given' = given /\ pending' = pending
      /\ count' = count /\ seen' = seen /\ hits' = hits /\ lost' = lost
      /\ proc' = [proc EXCEPT ![d] = job]
      /\ begun' = [begun EXCEPT ![e0] = @ + 1]
  <2>1. proc' = [proc EXCEPT ![d] = job]
    BY DEF Begin, Goto, Moved
  <2> QED BY <2>1 DEF Begin, At, streamVars
<1>2. /\ proc[d] \in Job /\ e0 = Min(proc[d].batch) /\ e0 \in proc[d].batch /\ e0 \in 1 .. given
      /\ e0 \in 1 .. MaxEntries /\ proc[d].batch \subseteq pending[d]
      /\ \A c \in Detectors : c # d => e0 \notin proc[c].batch
  BY <1>1, WorkFacts DEF Resting, DetectorInv, Batches
<1>3. job \in Job /\ job.at = "pattern" /\ job.batch = proc[d].batch /\ job.pattern = 1
  BY <1>1, <1>2, JobMoves DEF Stages, Busy, DetectorInv, Batches
<1> HIDE DEF job, e0
<1>4. Works(d, job)
  BY <1>1 DEF Works, SameCount, DetectorInv, DetectorShape
<1>5. /\ \A c \in Detectors : proc'[c] = IF c = d THEN job ELSE proc[c]
      /\ begun' \in [1 .. MaxEntries -> Nat] => DetectorShape'
      /\ Batches' /\ Kept'
  BY <1>1, <1>2, <1>3, <1>4, WorkKeeps DEF Resting
<1>6. begun' \in [1 .. MaxEntries -> Nat]
  BY <1>1, <1>2 DEF DetectorInv, DetectorShape
<1>7. Taken'
  <2>1. /\ begun[e0] = 0 /\ \A e \in proc[d].batch : begun[e] = 0
    BY <1>1, <1>2 DEF DetectorInv, Taken, Busy
  <2>2. \A e \in 1 .. MaxEntries : begun'[e] = IF e = e0 THEN 1 ELSE begun[e]
    BY <1>1, <1>2, <2>1 DEF DetectorInv, DetectorShape
  <2>3. \A e \in 1 .. MaxEntries : begun'[e] <= 1 /\ (e > given' => begun'[e] = 0)
    BY <1>1, <1>2, <2>2 DEF DetectorInv, Taken, DetectorShape
  <2>4. ASSUME NEW c \in Detectors, NEW e \in proc'[c].batch
        PROVE  begun'[e] = 0 \/ (e = Min(proc'[c].batch) /\ proc'[c].at \in Busy)
    <3>1. e \in 1 .. MaxEntries
      <4>1. e \in proc[c].batch
        BY <1>3, <1>5
      <4>2. e \in 1 .. given
        BY <4>1 DEF DetectorInv, Batches, DetectorShape
      <4> QED BY <4>2 DEF DetectorInv, DetectorShape, DetectorSizes
    <3>2. CASE c = d
      <4>1. proc'[c] = job
        BY <1>5, <3>2
      <4> QED BY <1>2, <1>3, <2>1, <2>2, <3>1, <4>1 DEF Busy
    <3>3. CASE c # d
      <4>1. proc'[c] = proc[c] /\ e # e0
        BY <1>2, <1>5, <3>3
      <4>2. begun'[e] = begun[e]
        BY <2>2, <3>1, <4>1
      <4> QED BY <4>1, <4>2 DEF DetectorInv, Taken
    <3> QED BY <3>2, <3>3
  <2> QED BY <2>3, <2>4 DEF Taken
<1>8. Seen' /\ AcknowledgedWasSeen'
  <2>1. \A q \in 1 .. Patterns : ~SeenBy(job, q)
    BY <1>3 DEF SeenBy
  <2>2. seen \subseteq seen' /\ lost \subseteq lost'
    BY <1>1
  <2> QED BY <1>1, <1>3, <1>4, <2>1, <2>2, WorkKeepsEntries DEF Resting
<1>9. Telling'
  <2> SUFFICES ASSUME NEW e \in Nat, NEW p \in 1 .. Patterns, <<e, p, "hit">> \in hits, ~Told(e, p)
               PROVE  /\ Pending(e)'
                      /\ \A c \in Detectors : e \in proc'[c].batch =>
                            /\ e = Min(proc'[c].batch) /\ proc'[c].at \in {"save", "publish"}
                            /\ proc'[c].pattern = p
    BY <1>1 DEF Telling, Told
  <2>1. Pending(e)'
    BY <1>1 DEF DetectorInv, Telling, Pending
  <2>2. e \notin proc[d].batch
    BY <1>1 DEF DetectorInv, Telling
  <2> QED BY <1>3, <1>5, <2>1, <2>2 DEF DetectorInv, Telling
<1> QED BY <1>5, <1>6, <1>7, <1>8, <1>9 DEF DetectorInv

\* A step with the entry in hand that goes on with it: what the patterns before
\* the next one have seen, and what becomes of a detection.
LEMMA HandKeeps ==
    ASSUME DetectorSizes, DetectorInv, NEW d \in Detectors, NEW job \in Job, Works(d, job),
           proc[d].at \in Busy, job.batch = proc[d].batch, job.at \in Busy,
           pending' = pending, begun' = begun, lost' = lost, seen \subseteq seen', hits \subseteq hits',
           \A q \in 1 .. Patterns : SeenBy(job, q) => <<Entry(d), q>> \in seen',
           \/ proc[d].at \notin {"save", "publish"}
           \/ ToldIn(hits', Entry(d), proc[d].pattern)
           \/ job.at \in {"save", "publish"} /\ job.pattern = proc[d].pattern,
           \A e \in Nat, p \in 1 .. Patterns : <<e, p, "hit">> \in hits' =>
              \/ <<e, p, "hit">> \in hits
              \/ e = Entry(d) /\ p = job.pattern /\ job.at = "save"
    PROVE  DetectorInv'
<1> DEFINE e0 == Entry(d)
<1>1. /\ proc[d] \in Job /\ e0 = Min(proc[d].batch) /\ e0 \in proc[d].batch
      /\ e0 \in pending[d]
      /\ \A c \in Detectors : c # d => e0 \notin proc[c].batch
      /\ proc[d].at \notin Resting /\ job.at \notin Resting /\ job.at # "begin"
  BY WorkFacts DEF Busy, Resting
<1>2. proc[d].batch \subseteq pending'[d]
  BY DEF DetectorInv, Batches
<1>3. /\ \A c \in Detectors : proc'[c] = IF c = d THEN job ELSE proc[c]
      /\ DetectorShape' /\ Batches' /\ Kept'
  <2>1. begun' \in [1 .. MaxEntries -> Nat]
    BY DEF DetectorInv, DetectorShape
  <2> QED BY <1>1, <1>2, <2>1, WorkKeeps
<1>4. Taken' /\ Seen' /\ AcknowledgedWasSeen'
  <2>1. \A e \in job.batch : begun[e] = 0 \/ (e = Min(job.batch) /\ job.at \in Busy)
    BY DEF DetectorInv, Taken
  <2>2. \A q \in 1 .. Patterns : SeenBy(job, q) => <<Min(job.batch), q>> \in seen'
    BY <1>1
  <2> QED BY <1>1, <2>1, <2>2, WorkKeepsEntries
<1>5. Telling'
  <2> SUFFICES ASSUME NEW e \in Nat, NEW p \in 1 .. Patterns, <<e, p, "hit">> \in hits', ~Told(e, p)'
               PROVE  /\ Pending(e)'
                      /\ \A c \in Detectors : e \in proc'[c].batch =>
                            /\ e = Min(proc'[c].batch) /\ proc'[c].at \in {"save", "publish"}
                            /\ proc'[c].pattern = p
    BY DEF Telling, Told
  <2>1. CASE <<e, p, "hit">> \in hits
    <3>1. ~Told(e, p)
      BY DEF Told, ToldIn
    <3>2. /\ Pending(e)
          /\ \A c \in Detectors : e \in proc[c].batch =>
                /\ e = Min(proc[c].batch) /\ proc[c].at \in {"save", "publish"}
                /\ proc[c].pattern = p
      BY <2>1, <3>1 DEF DetectorInv, Telling
    <3>3. Pending(e)'
      BY <3>2 DEF Pending
    <3>4. ASSUME e \in proc[d].batch PROVE job.at \in {"save", "publish"} /\ job.pattern = p
      <4>1. e = Entry(d) /\ proc[d].at \in {"save", "publish"} /\ proc[d].pattern = p
        BY <1>1, <3>2, <3>4
      <4>2. ~ToldIn(hits', e, p)
        BY DEF Told
      <4> QED BY <4>1, <4>2
    <3> QED BY <1>3, <3>2, <3>3, <3>4
  <2>2. CASE e = e0 /\ p = job.pattern /\ job.at = "save"
    <3>1. Pending(e)'
      BY <1>1, <2>2 DEF Pending
    <3> QED BY <1>1, <1>3, <2>2, <3>1
  <2> QED BY <2>1, <2>2
<1> QED BY <1>3, <1>4, <1>5 DEF DetectorInv

\* After NextPattern the patterns up to the one in hand count as seen.
LEMMA SeenAfter ==
    ASSUME DetectorSizes, DetectorInv, NEW d \in Detectors, proc[d].at \in Busy, proc[d].at # "ack",
           NEW q \in 1 .. Patterns, SeenBy(NextPattern(d), q)
    PROVE  q = proc[d].pattern \/ <<Entry(d), q>> \in seen
<1>1. \/ proc[d].pattern = Patterns /\ NextPattern(d).at = "ack"
      \/ /\ proc[d].pattern < Patterns
         /\ NextPattern(d).at = "pattern" /\ NextPattern(d).pattern = proc[d].pattern + 1
  BY NextPatternFacts
<1>2. proc[d].pattern \in 1 .. Patterns /\ Patterns \in Nat
  BY DEF DetectorInv, DetectorShape, Job, DetectorSizes
<1>3. q = proc[d].pattern \/ q < proc[d].pattern
  BY <1>1, <1>2 DEF SeenBy
<1>4. q < proc[d].pattern => <<Entry(d), q>> \in seen
  BY DEF DetectorInv, Seen, SeenBy, Entry
<1> QED BY <1>3, <1>4

LEMMA FaultFacts ==
    ASSUME DetectorInv PROVE (Fault => SameCount) /\ (count' = count => SameCount)
                             /\ \A ok \in BOOLEAN : May(ok) => SameCount
<1>1. Fault => SameCount
  BY DEF Fault, SameCount, DetectorInv, DetectorShape
<1>2. count' = count => SameCount
  BY DEF SameCount, DetectorInv, DetectorShape
<1> QED BY <1>1, <1>2 DEF May

LEMMA EvaluateKeeps ==
    ASSUME DetectorSizes, DetectorInv, NEW d \in Detectors, NEW result, Evaluate(d, result)
    PROVE  DetectorInv'
<1> DEFINE e0 == Entry(d)
           p0 == proc[d].pattern
<1>1. /\ proc[d].at = "pattern" /\ stream' = stream /\ given' = given /\ pending' = pending
      /\ begun' = begun /\ lost' = lost /\ seen' = seen \cup {<<e0, p0>>}
  BY DEF Evaluate, At, streamVars
<1>2. proc[d].at \in Busy /\ proc[d] \in Job /\ p0 \in 1 .. Patterns
  BY <1>1 DEF Busy, DetectorInv, DetectorShape, Job
<1>3. CASE SameCount /\ proc' = [proc EXCEPT ![d] = NextPattern(d)] /\ hits' = hits
  <2> DEFINE job == NextPattern(d)
  <2>1. job \in Job /\ job.batch = proc[d].batch /\ job.at \in Busy
    BY <1>2, NextPatternFacts DEF Busy
  <2>2. \A q \in 1 .. Patterns : SeenBy(job, q) => <<e0, q>> \in seen'
    BY <1>1, <1>2, SeenAfter
  <2> HIDE DEF job
  <2>3. Works(d, job)
    BY <1>1, <1>3 DEF Works, job, DetectorInv, DetectorShape
  <2> QED BY <1>1, <1>2, <1>3, <2>1, <2>2, <2>3, HandKeeps
<1>4. CASE SameCount /\ proc' = [proc EXCEPT ![d] = Moved(proc[d], "save")] /\ hits' = hits \cup {<<e0, p0, "hit">>}
  <2> DEFINE job == Moved(proc[d], "save")
  <2>1. job \in Job /\ job.batch = proc[d].batch /\ job.at = "save" /\ job.pattern = p0
    BY <1>2, JobMoves DEF Stages, Busy
  <2> HIDE DEF job
  <2>2. \A q \in 1 .. Patterns : SeenBy(job, q) => <<e0, q>> \in seen'
    <3>1. \A q \in 1 .. Patterns : q < p0 => <<e0, q>> \in seen
      BY <1>2 DEF DetectorInv, Seen, SeenBy, Entry
    <3> QED BY <1>1, <2>1, <3>1 DEF SeenBy
  <2>3. Works(d, job)
    BY <1>1, <1>4 DEF Works, job, DetectorInv, DetectorShape
  <2>4. job.at \in Busy /\ proc[d].at \notin {"save", "publish"}
    BY <1>1, <2>1 DEF Busy
  <2>5. \A e \in Nat, p \in 1 .. Patterns : <<e, p, "hit">> \in hits' =>
              \/ <<e, p, "hit">> \in hits
              \/ e = Entry(d) /\ p = job.pattern /\ job.at = "save"
    BY <1>4, <2>1
  <2>6. seen \subseteq seen' /\ hits \subseteq hits'
    BY <1>1, <1>4
  <2> QED BY <1>1, <1>2, <2>1, <2>2, <2>3, <2>4, <2>5, <2>6, HandKeeps
<1>5. \/ SameCount /\ proc' = [proc EXCEPT ![d] = NextPattern(d)] /\ hits' = hits
      \/ SameCount /\ proc' = [proc EXCEPT ![d] = Moved(proc[d], "save")] /\ hits' = hits \cup {<<e0, p0, "hit">>}
  <2>1. CASE result = "none" /\ proc' = [proc EXCEPT ![d] = NextPattern(d)] /\ count' = count /\ hits' = hits
    BY <2>1, FaultFacts
  <2>2. CASE result = "hit" /\ hits' = hits \cup {Hit(d, "hit")} /\ Goto(d, "save") /\ count' = count
    BY <2>2, FaultFacts DEF Hit, Goto, Moved
  <2>3. CASE result = "error" /\ Fault /\ proc' = [proc EXCEPT ![d] = AfterError(d)] /\ hits' = hits
    BY <2>3, FaultFacts DEF AfterError
  <2> QED BY <2>1, <2>2, <2>3 DEF Evaluate
<1> QED BY <1>3, <1>4, <1>5

LEMMA SaveKeeps ==
    ASSUME DetectorSizes, DetectorInv, NEW d \in Detectors, NEW ok \in BOOLEAN, SaveDetection(d, ok)
    PROVE  DetectorInv'
<1> DEFINE e0 == Entry(d)
           job == Moved(proc[d], "publish")
<1>1. /\ proc[d].at = "save" /\ stream' = stream /\ given' = given /\ pending' = pending
      /\ begun' = begun /\ lost' = lost /\ seen' = seen /\ SameCount
      /\ proc' = [proc EXCEPT ![d] = job]
  <2>1. SameCount
    BY FaultFacts DEF SaveDetection
  <2>2. proc' = [proc EXCEPT ![d] = job]
    BY DEF SaveDetection, AfterSave, Moved
  <2> QED BY <2>1, <2>2 DEF SaveDetection, At, streamVars
<1>2. proc[d].at \in Busy /\ proc[d] \in Job
  BY <1>1 DEF Busy, DetectorInv, DetectorShape
<1>3. job \in Job /\ job.batch = proc[d].batch /\ job.at = "publish" /\ job.pattern = proc[d].pattern
  BY <1>2, JobMoves DEF Stages, Busy
<1> HIDE DEF job
<1>4. hits' = hits \/ hits' = hits \cup {<<e0, proc[d].pattern, "saved">>}
  BY DEF SaveDetection, InsertDetection, Hit
<1>5. /\ hits \subseteq hits' /\ seen \subseteq seen'
      /\ \A e \in Nat, p \in 1 .. Patterns : <<e, p, "hit">> \in hits' => <<e, p, "hit">> \in hits
  BY <1>1, <1>4
<1>6. \A q \in 1 .. Patterns : SeenBy(job, q) => <<e0, q>> \in seen'
  <2>1. \A q \in 1 .. Patterns : SeenBy(job, q) => SeenBy(proc[d], q)
    BY <1>1, <1>3 DEF SeenBy
  <2>2. \A q \in 1 .. Patterns : SeenBy(proc[d], q) => <<e0, q>> \in seen
    BY <1>2 DEF DetectorInv, Seen, Entry
  <2> QED BY <1>1, <2>1, <2>2
<1>7. Works(d, job)
  BY <1>1 DEF Works, DetectorInv, DetectorShape
<1>8. job.at \in Busy /\ job.at \in {"save", "publish"}
  BY <1>3 DEF Busy
<1> QED BY <1>1, <1>2, <1>3, <1>5, <1>6, <1>7, <1>8, HandKeeps

LEMMA SendKeeps ==
    ASSUME DetectorSizes, DetectorInv, NEW d \in Detectors, NEW ok \in BOOLEAN, PublishDetection(d, ok)
    PROVE  DetectorInv'
<1> DEFINE e0 == Entry(d)
           job == NextPattern(d)
<1>1. /\ proc[d].at = "publish" /\ stream' = stream /\ given' = given /\ pending' = pending
      /\ begun' = begun /\ lost' = lost /\ seen' = seen /\ SameCount
      /\ proc' = [proc EXCEPT ![d] = job]
  <2>1. SameCount
    BY FaultFacts DEF PublishDetection
  <2> QED BY <2>1 DEF PublishDetection, At, streamVars
<1>2. proc[d].at \in Busy /\ proc[d] \in Job /\ proc[d].pattern \in 1 .. Patterns
  BY <1>1 DEF Busy, DetectorInv, DetectorShape, Job
<1>3. job \in Job /\ job.batch = proc[d].batch /\ job.at \in Busy
  BY <1>2, NextPatternFacts DEF Busy
<1>4. \/ hits' = hits \cup {<<e0, proc[d].pattern, "sent">>}
      \/ hits' = hits \cup {<<e0, proc[d].pattern, "unsent">>}
  BY DEF PublishDetection, Hit
<1>5. /\ hits \subseteq hits' /\ seen \subseteq seen'
      /\ \A e \in Nat, p \in 1 .. Patterns : <<e, p, "hit">> \in hits' => <<e, p, "hit">> \in hits
      /\ ToldIn(hits', e0, proc[d].pattern)
  BY <1>1, <1>4 DEF ToldIn
<1>6. \A q \in 1 .. Patterns : SeenBy(job, q) => <<e0, q>> \in seen'
  <2>1. <<e0, proc[d].pattern>> \in seen
    BY <1>1, <1>2 DEF DetectorInv, Seen, SeenBy, Entry
  <2> QED BY <1>1, <1>2, <2>1, SeenAfter
<1> HIDE DEF job
<1>7. Works(d, job)
  BY <1>1 DEF Works, DetectorInv, DetectorShape
<1> QED BY <1>1, <1>2, <1>3, <1>5, <1>6, <1>7, HandKeeps

LEMMA AckKeeps ==
    ASSUME DetectorSizes, DetectorInv, NEW d \in Detectors, NEW ok \in BOOLEAN, Ack(d, ok)
    PROVE  DetectorInv'
<1> DEFINE e0 == Entry(d)
           rest == proc[d].batch \ {e0}
           job == Handling(rest)
<1>1. /\ proc[d].at = "ack" /\ stream' = stream /\ given' = given
      /\ begun' = begun /\ lost' = lost /\ seen' = seen /\ hits' = hits /\ SameCount
      /\ proc' = [proc EXCEPT ![d] = job]
  <2>1. SameCount
    BY FaultFacts DEF Ack
  <2> QED BY <2>1 DEF Ack, At, NextEntry, history
<1>2. /\ proc[d] \in Job /\ proc[d].at \in Busy /\ proc[d].at \notin Resting
      /\ e0 = Min(proc[d].batch) /\ e0 \in proc[d].batch /\ rest \in SUBSET Nat
      /\ \A c \in Detectors : c # d => e0 \notin proc[c].batch
  <2>1. proc[d].at \notin Resting /\ proc[d].at \in Busy
    BY <1>1 DEF Resting, Busy
  <2> QED BY <2>1, WorkFacts
<1>3. /\ job \in Job /\ job.batch = rest /\ job.pattern = 1
      /\ rest = {} => job.at = "new"
      /\ rest # {} => job.at = "begin"
  BY <1>2, HandlingFacts DEF DetectorSizes
<1> HIDE DEF job
<1>4. \A c \in Detectors : /\ pending[c] \ {e0} \subseteq pending'[c] /\ pending'[c] \subseteq pending[c]
                           /\ c # d => pending'[c] = pending[c]
  <2>1. pending' = [pending EXCEPT ![d] = @ \ {e0}] \/ pending' = pending
    BY DEF Ack
  <2> QED BY <2>1 DEF DetectorInv, DetectorShape
<1>5. pending' \in [Detectors -> SUBSET (1 .. given)]
  <2>1. pending' = [pending EXCEPT ![d] = @ \ {e0}] \/ pending' = pending
    BY DEF Ack
  <2> QED BY <2>1 DEF DetectorInv, DetectorShape
<1>6. Works(d, job)
  BY <1>1, <1>5 DEF Works
<1>7. /\ rest \subseteq proc[d].batch /\ rest \subseteq pending'[d]
      /\ rest = {} <=> job.at \in Resting
      /\ job.at = "begin" => job.pattern = 1
      /\ job.at \notin Busy
  <2>1. rest \subseteq pending[d] \ {e0}
    BY DEF DetectorInv, Batches
  <2> QED BY <1>3, <1>4, <2>1 DEF Resting, Busy
<1>8. /\ \A c \in Detectors : proc'[c] = IF c = d THEN job ELSE proc[c]
      /\ DetectorShape' /\ Batches' /\ Kept'
  <2>1. begun' \in [1 .. MaxEntries -> Nat] /\ lost \subseteq lost'
    BY <1>1 DEF DetectorInv, DetectorShape
  <2>2. \A c \in Detectors : c # d => pending'[c] = pending[c]
    BY <1>4
  <2> HIDE DEF rest
  <2> QED BY <1>2, <1>3, <1>6, <1>7, <2>1, <2>2, WorkKeeps
<1>9. Taken' /\ Seen'
  <2>1. \A e \in job.batch : begun[e] = 0
    BY <1>2, <1>3 DEF DetectorInv, Taken
  <2> HIDE DEF rest
  <2> QED BY <1>1, <1>2, <1>3, <1>6, <1>7, <2>1, WorkKeepsEntries
<1>10. AcknowledgedWasSeen'
  <2> SUFFICES ASSUME NEW e \in 1 .. given PROVE Pending(e)' \/ Everyone(e)' \/ e \in lost'
    BY <1>1 DEF AcknowledgedWasSeen
  <2>1. CASE e = e0
    <3>1. \A q \in 1 .. Patterns : <<e0, q>> \in seen
      BY <1>1, <1>2 DEF DetectorInv, Seen, SeenBy
    <3> QED BY <1>1, <2>1, <3>1 DEF Everyone
  <2>2. CASE e # e0
    <3>1. Pending(e) => Pending(e)'
      BY <1>4, <2>2 DEF Pending
    <3>2. Everyone(e) => Everyone(e)'
      BY <1>1 DEF Everyone
    <3> QED BY <1>1, <3>1, <3>2 DEF DetectorInv, AcknowledgedWasSeen
  <2> QED BY <2>1, <2>2
<1>11. Telling'
  <2> SUFFICES ASSUME NEW e \in Nat, NEW p \in 1 .. Patterns, <<e, p, "hit">> \in hits, ~Told(e, p)
               PROVE  /\ Pending(e)'
                      /\ \A c \in Detectors : e \in proc'[c].batch =>
                            /\ e = Min(proc'[c].batch) /\ proc'[c].at \in {"save", "publish"}
                            /\ proc'[c].pattern = p
    BY <1>1 DEF Telling, Told
  <2>1. /\ Pending(e)
        /\ \A c \in Detectors : e \in proc[c].batch =>
                /\ e = Min(proc[c].batch) /\ proc[c].at \in {"save", "publish"}
                /\ proc[c].pattern = p
    BY DEF DetectorInv, Telling
  <2>2. e \notin proc[d].batch
    BY <1>1, <2>1
  <2>3. Pending(e)'
    BY <1>2, <1>4, <2>1, <2>2 DEF Pending
  <2> QED BY <1>3, <1>8, <2>1, <2>2, <2>3
<1> QED BY <1>8, <1>9, <1>10, <1>11 DEF DetectorInv

LEMMA CrashKeeps ==
    ASSUME DetectorSizes, DetectorInv, NEW d \in Detectors, Crash(d) PROVE DetectorInv'
<1> DEFINE job == Moved(New, "down")
<1>1. /\ stream' = stream /\ given' = given /\ pending' = pending /\ begun' = begun
      /\ lost' = lost \cup proc[d].batch /\ seen' = seen /\ hits' = hits /\ SameCount
      /\ proc' = [proc EXCEPT ![d] = job]
  <2>1. SameCount
    BY FaultFacts DEF Crash
  <2> QED BY <2>1 DEF Crash, streamVars, Moved
<1>2. job \in Job /\ job.at = "down" /\ job.batch = {} /\ job.at \in Resting /\ job.at \notin Busy
      /\ job.at # "begin"
  BY NewIsJob, JobMoves DEF Stages, Resting, Busy, DetectorSizes
<1> HIDE DEF job
<1>3. CASE proc[d].at \in Resting
  <2>1. lost' = lost
    BY <1>1, <1>3 DEF DetectorInv, Batches
  <2>2. Still
    BY <1>1, <1>2, <1>3, <2>1 DEF Still
  <2> QED BY <2>2, StillKeeps
<1>4. CASE proc[d].at \notin Resting
  <2>1. Works(d, job)
    BY <1>1 DEF Works, DetectorInv, DetectorShape
  <2>2. begun' \in [1 .. MaxEntries -> Nat] /\ lost \subseteq lost' /\ seen \subseteq seen'
    BY <1>1 DEF DetectorInv, DetectorShape
  <2>3. /\ \A c \in Detectors : proc'[c] = IF c = d THEN job ELSE proc[c]
        /\ DetectorShape' /\ Batches' /\ Kept'
    BY <1>1, <1>2, <1>4, <2>1, <2>2, WorkKeeps
  <2>4. Taken' /\ Seen' /\ AcknowledgedWasSeen'
    BY <1>1, <1>2, <1>4, <2>1, <2>2, WorkKeepsEntries
  <2>5. Telling'
    <3> SUFFICES ASSUME NEW e \in Nat, NEW p \in 1 .. Patterns, <<e, p, "hit">> \in hits, ~Told(e, p)
                 PROVE  /\ Pending(e)'
                        /\ \A c \in Detectors : e \in proc'[c].batch =>
                              /\ e = Min(proc'[c].batch) /\ proc'[c].at \in {"save", "publish"}
                              /\ proc'[c].pattern = p
      BY <1>1 DEF Telling, Told
    <3>1. Pending(e)'
      BY <1>1 DEF DetectorInv, Telling, Pending
    <3> QED BY <1>2, <2>3, <3>1 DEF DetectorInv, Telling
  <2> QED BY <2>3, <2>4, <2>5 DEF DetectorInv
<1> QED BY <1>3, <1>4

LEMMA DetectorInit == ASSUME DetectorSizes, Init PROVE DetectorInv
<1>1. /\ stream = {} /\ given = 0 /\ pending = [d \in Detectors |-> {}]
      /\ proc = [d \in Detectors |-> New] /\ hits = {}
      /\ begun = [e \in 1 .. MaxEntries |-> 0]
      /\ count = [published |-> 0, commands |-> 0, faults |-> 0]
  BY DEF Init
<1>2. \A d \in Detectors : /\ proc[d] \in Job /\ proc[d].at \in Resting /\ proc[d].batch = {}
                           /\ proc[d].at \notin Busy /\ proc[d].at # "begin"
  BY <1>1, NewIsJob DEF Busy, DetectorSizes
<1>3. DetectorShape
  <2>1. count \in [published : 0 .. MaxEntries, commands : Nat, faults : Nat] /\ count.published = 0
    BY <1>1 DEF DetectorSizes
  <2>2. proc \in [Detectors -> Job]
    BY <1>1, NewIsJob DEF DetectorSizes
  <2> QED BY <1>1, <2>1, <2>2, FS_EmptySet DEF DetectorShape
<1>4. Batches /\ Seen /\ Telling
  BY <1>1, <1>2 DEF Batches, Seen, Telling
<1>5. Taken /\ Kept /\ AcknowledgedWasSeen
  BY <1>1, <1>2 DEF Taken, Kept, AcknowledgedWasSeen
<1> QED BY <1>3, <1>4, <1>5 DEF DetectorInv

LEMMA DetectorStep == ASSUME DetectorSizes, DetectorInv, [Next]_vars PROVE DetectorInv'
<1>1. \/ Still
      \/ \E d \in Detectors : \E b : Delivered(d, Ids(ReplyFor(d)), b)
      \/ \E kind \in Kinds : Publish(kind)
      \/ \E d \in Detectors :
            \/ Begin(d) \/ Crash(d)
            \/ \E result \in {"none", "hit", "error"} : Evaluate(d, result)
            \/ \E ok \in BOOLEAN : SaveDetection(d, ok) \/ PublishDetection(d, ok) \/ Ack(d, ok)
  BY DetectorSteps DEF DetectorInv, DetectorSizes
<1> QED BY <1>1, StillKeeps, DeliveredKeeps, PublishKeeps, BeginKeeps, CrashKeeps, EvaluateKeeps,
           SaveKeeps, SendKeeps, AckKeeps

\* An event is handled once, and completely (the conjuncts that the run
\* delivery checks for one detector and for two).
HandledOnce == TakenUpOnce /\ AcknowledgedWasSeen /\ DetectionsPublished

LEMMA DetectorInvSuffices == DetectorInv => HandledOnce
<1> SUFFICES ASSUME DetectorInv PROVE HandledOnce
  OBVIOUS
<1>1. TakenUpOnce
  BY DEF DetectorInv, Taken, TakenUpOnce
<1>2. DetectionsPublished
  <2> SUFFICES ASSUME NEW e \in 1 .. given, ~Pending(e), NEW p \in 1 .. Patterns,
                      <<e, p, "hit">> \in hits
               PROVE  <<e, p, "sent">> \in hits \/ <<e, p, "unsent">> \in hits
    BY DEF DetectionsPublished
  <2>1. e \in Nat
    BY DEF DetectorInv, DetectorShape
  <2> QED BY <2>1 DEF DetectorInv, Telling, Told, ToldIn
<1> QED BY <1>1, <1>2 DEF HandledOnce, DetectorInv


\* No detector takes up what another had, what is acknowledged was seen by
\* every pattern, and its detections were published: for any number of
\* processes, patterns, entries, faults and crashes, any batch size and any
\* MAXLEN.
THEOREM EntriesHandledOnce == ASSUME DetectorSizes PROVE Spec => []HandledOnce
  BY DetectorInit, DetectorStep, DetectorInvSuffices, PTL DEF Spec
=============================================================================
