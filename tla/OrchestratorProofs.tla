------------------------- MODULE OrchestratorProofs -------------------------
(***************************************************************************)
(* Theorems about Orchestrator, for every set of keys, subjects and        *)
(* processes and every bound.  The first part holds for any number of      *)
(* processes; the last part is about one process, because the code has no  *)
(* lock between the calls of two.                                          *)
(***************************************************************************)
EXTENDS Orchestrator, FiniteSetTheorems, TLAPS

-----------------------------------------------------------------------------
(***************************************************************************)
(* Types, and what the position of a process says about its variables.     *)
(***************************************************************************)
\* An alert that rows and caches may hold: its id is one of the n ids given out,
\* its incident one of the m incidents (or none).
Row(a, n, m) == a \in Alert /\ a.id \in 1..n /\ a.incident \in 0..m

\* What a table or a cache holds for a key: nothing, or one alert of that key.
Cell(S, k, n, m) == S = {} \/ \E a \in Alert : S = {a} /\ a.key = k /\ Row(a, n, m)

\* The entries a process works on come from one stream; while it works on one,
\* the entry is there and the alert at hand is a row.
Local(w) ==
    /\ pc[w] = "detection" => inbox[w] \in Seq(Detection)
    /\ pc[w] = "update" => inbox[w] \in Seq(Update)
    /\ ~Idle(w) => /\ inbox[w] # <<>>
                   /\ inbox[w] \in Seq(Detection) \/ inbox[w] \in Seq(Update)
                   /\ Row(alert[w], Len(alerts), Len(incidents))
    /\ alert[w].incident \in 0..Len(incidents)
    /\ pc[w] = "incident" => alert[w].incident # NoIncident
    /\ goal[w].status \in Terminal => goal[w].closes
    /\ \A k \in Keys : Cell(cache[w][k], k, Len(alerts), Len(incidents))

Shape ==
    /\ \A k \in Keys : Cell(latest[k], k, Len(alerts), Len(incidents))
    /\ \A w \in Workers : Local(w)

\* Entries of the two streams are told apart by their fields.
LEMMA EntryKind ==
    /\ \A x \in Detection : IsDetection(x)
    /\ \A x \in Update : ~IsDetection(x)
  BY DEF IsDetection, Detection, Update

\* The alert of the one that a cell holds.
LEMMA TheOne ==
    ASSUME NEW k, NEW S, NEW n, NEW m, Cell(S, k, n, m), S # {}
    PROVE  The(S) \in Alert /\ S = {The(S)} /\ The(S).key = k /\ Row(The(S), n, m)
  BY DEF Cell, The

\* Acknowledging takes the next entry of the same batch.
LEMMA AckEffect ==
    ASSUME TypeOK, NEW w \in Workers, AckEntry(w), inbox[w] # <<>>
    PROVE  /\ inbox[w] \in Seq(Detection) => pc'[w] = "detection" /\ inbox'[w] \in Seq(Detection)
           /\ inbox[w] \in Seq(Update) => pc'[w] = "update" /\ inbox'[w] \in Seq(Update)
           /\ inbox'[w] = Tail(inbox[w]) /\ inbox'[w] \in Seq(Detection \cup Update)
           /\ pc' \in [Workers -> PC] /\ inbox' \in [Workers -> Seq(Detection \cup Update)]
           /\ pc' = [pc EXCEPT ![w] = pc'[w]] /\ inbox' = [inbox EXCEPT ![w] = inbox'[w]]
           /\ pc'[w] \in {"detection", "update"}
<1>1. /\ pc \in [Workers -> PC] /\ inbox \in [Workers -> Seq(Detection \cup Update)]
  BY DEF TypeOK
<1>2. /\ pc'[w] = IF IsDetection(Head(inbox[w])) THEN "detection" ELSE "update"
      /\ inbox' = [inbox EXCEPT ![w] = Tail(inbox[w])]
      /\ inbox'[w] = Tail(inbox[w])
      /\ pc' = [pc EXCEPT ![w] = pc'[w]]
  BY <1>1 DEF AckEntry, Goto
<1>3. Tail(inbox[w]) \in Seq(Detection \cup Update)
  BY <1>1
<1>4. ASSUME inbox[w] \in Seq(Detection)
      PROVE  pc'[w] = "detection" /\ inbox'[w] \in Seq(Detection)
  BY <1>2, <1>4, EntryKind
<1>5. ASSUME inbox[w] \in Seq(Update)
      PROVE  pc'[w] = "update" /\ inbox'[w] \in Seq(Update)
  BY <1>2, <1>5, EntryKind
<1>6. pc'[w] \in PC /\ pc'[w] \in {"detection", "update"}
  BY <1>2 DEF PC
<1> QED
  BY <1>1, <1>2, <1>3, <1>4, <1>5, <1>6

Alone(w) ==
    \A v \in Workers \ {w} :
        /\ pc'[v] = pc[v] /\ inbox'[v] = inbox[v] /\ alert'[v] = alert[v]
        /\ goal'[v] = goal[v] /\ cache'[v] = cache[v]

\* A step of one process leaves the memory of the others alone.
LEMMA StepIsLocal ==
    ASSUME TypeOK, NEW w \in Workers, Step(w) \/ Crash(w)
    PROVE  Alone(w)
<1> USE DEF TypeOK, Alone, Goto, AckEntry, local
<1>1. CASE ReadDetections(w) \/ ReadUpdates(w) \/ BatchDone(w)
  BY <1>1 DEF ReadDetections, ReadUpdates, BatchDone
<1>2. CASE TakeDetection(w)
  BY <1>2 DEF TakeDetection
<1>3. CASE TakeUpdate(w)
  BY <1>3 DEF TakeUpdate
<1>4. CASE FindIncident(w) \/ CreateIncident(w) \/ UpdateIncident(w)
  BY <1>4 DEF FindIncident, CreateIncident, UpdateIncident
<1>5. CASE FindDuplicate(w) \/ CheckQuota(w) \/ Notify(w)
  BY <1>5 DEF FindDuplicate, CheckQuota, Notify
<1>6. CASE SaveAlert(w) \/ SaveLifecycle(w) \/ RecordUsage(w) \/ Crash(w)
  BY <1>6 DEF SaveAlert, SaveLifecycle, RecordUsage, Crash
<1>7. CASE Remember(w)
  BY <1>7 DEF Remember
<1> QED
  BY <1>1, <1>2, <1>3, <1>4, <1>5, <1>6, <1>7 DEF Step

\* Rows stay rows: neither table loses a row.
LEMMA RowsStay ==
    ASSUME NEW n \in Nat, NEW m \in Nat, NEW n1 \in Nat, NEW m1 \in Nat, n1 >= n, m1 >= m
    PROVE  /\ \A a : Row(a, n, m) => Row(a, n1, m1)
           /\ \A S, k : Cell(S, k, n, m) => Cell(S, k, n1, m1)
           /\ \A i : i \in 0..m => i \in 0..m1
<1>1. ASSUME NEW a, Row(a, n, m) PROVE Row(a, n1, m1)
  BY <1>1 DEF Row
<1>2. ASSUME NEW S, NEW k, Cell(S, k, n, m) PROVE Cell(S, k, n1, m1)
  BY <1>1, <1>2 DEF Cell
<1> QED
  BY <1>1, <1>2

\* What a step of process w has to keep.
Kept(w) ==
    /\ TypeOK' /\ Local(w)'
    /\ Len(alerts') >= Len(alerts) /\ Len(incidents') >= Len(incidents)
    /\ \A k \in Keys : Cell(latest'[k], k, Len(alerts'), Len(incidents'))

\* The two tables as they grow.
LEMMA Lengths ==
    ASSUME TypeOK
    PROVE  /\ Len(alerts) \in Nat /\ Len(incidents) \in Nat /\ Len(offered) \in Nat
           /\ Len(updates) \in Nat /\ Len(detections) \in Nat
  BY DEF TypeOK

\* It is enough to look at the process that takes the step.
LEMMA ShapeFrame ==
    ASSUME TypeOK, Shape, NEW w \in Workers, Alone(w), Kept(w)
    PROVE  Shape'
<1>0. TypeOK'
  BY DEF Kept
<1>1. /\ Len(alerts) \in Nat /\ Len(incidents) \in Nat
      /\ Len(alerts') \in Nat /\ Len(incidents') \in Nat
  <2>1. alerts' \in Seq(Lifecycles \cup {"none"})
    BY <1>0, Zenon DEF TypeOK
  <2>2. incidents' \in Seq([subject : Subjects, closed : BOOLEAN,
                            status : {"triggered", "active", "absent"} \cup Terminal])
    BY <1>0, Zenon DEF TypeOK
  <2> QED
    BY <2>1, <2>2, Lengths
<1>2. /\ \A a : Row(a, Len(alerts), Len(incidents)) => Row(a, Len(alerts'), Len(incidents'))
      /\ \A S, k : Cell(S, k, Len(alerts), Len(incidents)) => Cell(S, k, Len(alerts'), Len(incidents'))
      /\ \A i : i \in 0..Len(incidents) => i \in 0..Len(incidents')
  BY <1>1, RowsStay DEF Kept
<1>5. ASSUME NEW v \in Workers \ {w} PROVE Local(v)'
  <2>1. /\ pc'[v] = pc[v] /\ inbox'[v] = inbox[v] /\ alert'[v] = alert[v]
        /\ goal'[v] = goal[v] /\ cache'[v] = cache[v]
    BY DEF Alone
  <2>2. Local(v)
    BY DEF Shape
  <2>3. ~Idle(v)' => ~Idle(v)
    BY <2>1 DEF Idle
  <2> QED
    BY <2>1, <2>2, <2>3, <1>2 DEF Local
<1> QED
  BY <1>5 DEF Shape, Kept

\* Reading a batch, and the end of one.
LEMMA ReadTypes ==
    ASSUME TypeOK, Shape, NEW w \in Workers, ReadDetections(w) \/ ReadUpdates(w) \/ BatchDone(w)
    PROVE  Kept(w)
<1>1. Local(w) /\ \A k \in Keys : Cell(latest[k], k, Len(alerts), Len(incidents))
  BY DEF Shape
<1>2. UNCHANGED <<detections, updates, incidents, latest, alerts, fired, offered, refused, alert, goal, cache, crashes>>
  BY DEF ReadDetections, ReadUpdates, BatchDone, tables, streams, local, gateway
<1>4. /\ pc' \in [Workers -> PC] /\ Idle(w)'
      /\ inbox' \in [Workers -> Seq(Detection \cup Update)]
      /\ nextDet' \in 0..Len(detections) /\ nextUpd' \in 0..Len(updates)
      /\ pc'[w] = "detection" => inbox'[w] \in Seq(Detection)
      /\ pc'[w] = "update" => inbox'[w] \in Seq(Update)
  <2>1. BatchSize \in Nat /\ Len(updates) \in Nat /\ Len(detections) \in Nat
    BY OrchestratorAssumption DEF TypeOK
  <2>2. CASE ReadDetections(w)
    <3> DEFINE upto == Lower(nextDet + BatchSize, Len(detections))
    <3>1. upto \in 0..Len(detections)
      BY <2>1 DEF Lower, TypeOK
    <3>2. SubSeq(detections, nextDet + 1, upto) \in Seq(Detection)
      BY <3>1 DEF TypeOK
    <3>3. SubSeq(detections, nextDet + 1, upto) \in Seq(Detection \cup Update)
      BY <3>2
    <3> HIDE DEF upto
    <3>4. /\ inbox' = [inbox EXCEPT ![w] = SubSeq(detections, nextDet + 1, upto)]
          /\ nextDet' = upto /\ pc' = [pc EXCEPT ![w] = "detection"] /\ nextUpd' = nextUpd
      BY <2>2 DEF ReadDetections, Goto, upto
    <3> QED
      BY <3>1, <3>2, <3>3, <3>4 DEF TypeOK, PC, Idle
  <2>3. CASE ReadUpdates(w)
    <3> DEFINE upto == Lower(nextUpd + BatchSize, Len(updates))
    <3>1. upto \in 0..Len(updates)
      BY <2>1 DEF Lower, TypeOK
    <3>2. SubSeq(updates, nextUpd + 1, upto) \in Seq(Update)
      BY <3>1 DEF TypeOK
    <3>3. SubSeq(updates, nextUpd + 1, upto) \in Seq(Detection \cup Update)
      BY <3>2
    <3> HIDE DEF upto
    <3>4. /\ inbox' = [inbox EXCEPT ![w] = SubSeq(updates, nextUpd + 1, upto)]
          /\ nextUpd' = upto /\ pc' = [pc EXCEPT ![w] = "update"] /\ nextDet' = nextDet
      BY <2>3 DEF ReadUpdates, Goto, upto
    <3> QED
      BY <3>1, <3>2, <3>3, <3>4 DEF TypeOK, PC, Idle
  <2>4. CASE BatchDone(w)
    BY <2>4 DEF BatchDone, Goto, local, streams, TypeOK, PC, Idle
  <2> QED
    BY <2>2, <2>3, <2>4
<1>5. TypeOK'
  BY <1>2, <1>4 DEF TypeOK
<1>6. Local(w)'
  <2>1. /\ alert'[w] = alert[w] /\ goal'[w] = goal[w] /\ cache'[w] = cache[w]
        /\ Len(alerts') = Len(alerts) /\ Len(incidents') = Len(incidents)
    BY <1>2
  <2>2. pc'[w] # "incident" /\ pc'[w] \in {"detections", "detection", "updates", "update"}
    BY <1>4 DEF Idle
  <2> QED
    BY <1>1, <1>4, <2>1, <2>2 DEF Local, Idle
<1>7. /\ Len(alerts') >= Len(alerts) /\ Len(incidents') >= Len(incidents)
      /\ \A k \in Keys : Cell(latest'[k], k, Len(alerts'), Len(incidents'))
  <2>1. latest' = latest /\ alerts' = alerts /\ incidents' = incidents
    BY <1>2
  <2>2. Len(alerts') >= Len(alerts) /\ Len(incidents') >= Len(incidents)
    BY <2>1, Lengths
  <2> QED
    BY <1>1, <2>1, <2>2
<1> QED
  BY <1>5, <1>6, <1>7 DEF Kept

\* A step within the processing of an entry that leaves the tables' rows, the
\* caches and the entries alone.
LEMMA InnerTypes ==
    ASSUME TypeOK, Shape, NEW w \in Workers, ~Idle(w),
           UNCHANGED <<streams, latest, inbox, goal, cache>>,
           NEW l \in PC \ {"detections", "detection", "updates", "update"},
           pc' = [pc EXCEPT ![w] = l],
           alert' \in [Workers -> Alert], crashes' = crashes, fired' \in Nat,
           offered' \in Seq(Alert), refused' \subseteq 1..Len(offered'),
           alerts' \in Seq(Lifecycles \cup {"none"}),
           incidents' \in Seq([subject : Subjects, closed : BOOLEAN,
                               status : {"triggered", "active", "absent"} \cup Terminal]),
           Len(alerts') = Len(alerts), Len(incidents') >= Len(incidents),
           Row(alert'[w], Len(alerts'), Len(incidents')),
           l = "incident" => alert'[w].incident # NoIncident
    PROVE  Kept(w)
<1>1. Local(w) /\ \A k \in Keys : Cell(latest[k], k, Len(alerts), Len(incidents))
  BY DEF Shape
<1>2. Len(incidents') \in Nat /\ Len(alerts) \in Nat /\ Len(incidents) \in Nat
  BY Lengths
<1>3. \A S, k : Cell(S, k, Len(alerts), Len(incidents)) => Cell(S, k, Len(alerts'), Len(incidents'))
  <2>1. Len(alerts) >= Len(alerts)
    BY <1>2
  <2> QED
    BY <1>2, <2>1, RowsStay
<1>4. TypeOK'
  <2>1. pc' \in [Workers -> PC]
    BY DEF TypeOK
  <2> QED
    BY <2>1 DEF TypeOK, streams
<1>5. /\ pc'[w] = l /\ inbox'[w] = inbox[w] /\ goal'[w] = goal[w] /\ cache'[w] = cache[w]
      /\ latest' = latest
  BY DEF TypeOK
<1>6. alert'[w].incident \in 0..Len(incidents')
  BY DEF Row
<1>7. Local(w)'
  <2>1. \A k \in Keys : Cell(cache'[w][k], k, Len(alerts'), Len(incidents'))
    BY <1>1, <1>3, <1>5 DEF Local
  <2>2. /\ inbox[w] # <<>>
        /\ inbox[w] \in Seq(Detection) \/ inbox[w] \in Seq(Update)
        /\ goal[w].status \in Terminal => goal[w].closes
    BY <1>1 DEF Local
  <2>3. pc'[w] \notin {"detections", "detection", "updates", "update"}
    BY <1>5
  <2> QED
    BY <1>5, <1>6, <2>1, <2>2, <2>3 DEF Local
<1>8. \A k \in Keys : Cell(latest'[k], k, Len(alerts'), Len(incidents'))
  BY <1>1, <1>3, <1>5
<1> QED
  BY <1>2, <1>4, <1>7, <1>8 DEF Kept

\* The incident calls keep the types.
LEMMA IncidentTypes ==
    ASSUME TypeOK, Shape, NEW w \in Workers,
           FindIncident(w) \/ CreateIncident(w) \/ UpdateIncident(w)
    PROVE  Kept(w)
<1>1. /\ Local(w) /\ alert[w] \in Alert /\ Len(incidents) \in Nat /\ Len(alerts) \in Nat
      /\ alert \in [Workers -> Alert] /\ goal[w] \in [status : {"triggered", "active"} \cup Terminal, closes : BOOLEAN]
      /\ pc \in [Workers -> PC]
  BY Lengths DEF Shape, TypeOK
<1>2. ~Idle(w)
  BY DEF FindIncident, CreateIncident, UpdateIncident, Idle
<1>3. Row(alert[w], Len(alerts), Len(incidents))
  BY <1>1, <1>2 DEF Local
<1> DEFINE Incident == [subject : Subjects, closed : BOOLEAN,
                        status : {"triggered", "active", "absent"} \cup Terminal]
<1>4. /\ incidents \in Seq(Incident) /\ fired \in Nat /\ alerts \in Seq(Lifecycles \cup {"none"})
      /\ offered \in Seq(Alert) /\ refused \subseteq 1..Len(offered)
  BY DEF TypeOK
<1>5. CASE FindIncident(w)
  <2>1. /\ UNCHANGED <<streams, incidents, latest, alerts, fired, offered, refused, inbox, goal, cache, crashes>>
        /\ \/ \E l \in {"dedup", "create"} : pc' = [pc EXCEPT ![w] = l] /\ alert' = alert
           \/ /\ pc' = [pc EXCEPT ![w] = "incident"]
              /\ \E i \in 1..Len(incidents) : alert' = [alert EXCEPT ![w].incident = i]
    BY <1>5 DEF FindIncident, Goto, tables, gateway
  <2>2. CASE \E l \in {"dedup", "create"} : pc' = [pc EXCEPT ![w] = l] /\ alert' = alert
    <3>1. PICK l \in {"dedup", "create"} : pc' = [pc EXCEPT ![w] = l] /\ alert' = alert
      BY <2>2
    <3>2. l \in PC \ {"detections", "detection", "updates", "update"} /\ l # "incident"
      BY DEF PC
    <3>3. Len(incidents') >= Len(incidents) /\ Len(alerts') = Len(alerts)
      BY <2>1, <1>1
    <3> QED
      BY <1>1, <1>2, <1>3, <1>4, <2>1, <3>1, <3>2, <3>3, InnerTypes
  <2>3. CASE \E i \in 1..Len(incidents) : /\ alert' = [alert EXCEPT ![w].incident = i]
                                          /\ pc' = [pc EXCEPT ![w] = "incident"]
    <3>1. PICK i \in 1..Len(incidents) : /\ alert' = [alert EXCEPT ![w].incident = i]
                                          /\ pc' = [pc EXCEPT ![w] = "incident"]
      BY <2>3
    <3>2. i \in Nat /\ i # 0 /\ i \in 0..Len(incidents)
      BY <1>1
    <3>3. alert'[w] = [alert[w] EXCEPT !.incident = i] /\ alert' \in [Workers -> Alert]
      BY <1>1, <3>1, <3>2 DEF Alert
    <3>4. Row(alert'[w], Len(alerts), Len(incidents)) /\ alert'[w].incident # NoIncident
      BY <1>1, <1>3, <3>2, <3>3 DEF Row, Alert, NoIncident
    <3>5. "incident" \in PC \ {"detections", "detection", "updates", "update"}
      BY DEF PC
    <3>6. Len(incidents') >= Len(incidents) /\ Len(alerts') = Len(alerts)
      BY <2>1, <1>1
    <3> QED
      BY <1>1, <1>2, <1>4, <2>1, <3>1, <3>3, <3>4, <3>5, <3>6, InnerTypes
  <2> QED
    BY <2>1, <2>2, <2>3
<1>6. CASE CreateIncident(w)
  <2>1. PICK s \in {"triggered", "active", "absent"} \cup Terminal :
           incidents' = Append(incidents, [subject |-> SubjectOf[alert[w].key], status |-> s, closed |-> FALSE])
    BY <1>1, <1>6 DEF CreateIncident
  <2>2. [subject |-> SubjectOf[alert[w].key], status |-> s, closed |-> FALSE] \in Incident
    BY <1>1, OrchestratorAssumption DEF Alert
  <2>3. incidents' \in Seq(Incident) /\ Len(incidents') = Len(incidents) + 1
    BY <1>4, <2>1, <2>2
  <2>4. /\ UNCHANGED <<streams, latest, alerts, fired, offered, refused, inbox, goal, cache, crashes>>
        /\ alert' = [alert EXCEPT ![w].incident = Len(incidents) + 1]
        /\ pc' = [pc EXCEPT ![w] = "incident"]
    BY <1>6 DEF CreateIncident, Goto, gateway
  <2> DEFINE m == Len(incidents) + 1
  <2>m. m \in Nat /\ m # 0 /\ m \in 0..Len(incidents') /\ alert' = [alert EXCEPT ![w].incident = m]
    BY <1>1, <2>3, <2>4
  <2> HIDE DEF m
  <2>5. alert'[w] = [alert[w] EXCEPT !.incident = m] /\ alert' \in [Workers -> Alert]
    BY <1>1, <2>m DEF Alert
  <2>6. Row(alert'[w], Len(alerts), Len(incidents')) /\ alert'[w].incident # NoIncident
    BY <1>1, <1>3, <2>m, <2>5 DEF Row, Alert, NoIncident
  <2>7. "incident" \in PC \ {"detections", "detection", "updates", "update"}
    BY DEF PC
  <2>8. Len(incidents') >= Len(incidents) /\ Len(alerts') = Len(alerts)
    BY <2>3, <2>4, <1>1
  <2> QED
    BY <1>1, <1>2, <1>4, <2>3, <2>4, <2>5, <2>6, <2>7, <2>8, InnerTypes
<1>7. CASE UpdateIncident(w)
  <2> DEFINE i == alert[w].incident
  <2>1. i \in 1..Len(incidents)
    BY <1>1, <1>7 DEF UpdateIncident, Local, NoIncident
  <2>2. /\ UNCHANGED <<streams, latest, alerts, fired, offered, refused, inbox, alert, goal, cache, crashes>>
        /\ pc' = [pc EXCEPT ![w] = "dedup"]
        /\ \/ incidents' = incidents
           \/ incidents' = [incidents EXCEPT ![i] = [incidents[i] EXCEPT !.status = goal[w].status,
                                                           !.closed = incidents[i].closed \/ goal[w].closes]]
    BY <1>7, <1>4, <2>1 DEF UpdateIncident, Goto, local, gateway
  <2>3. [incidents[i] EXCEPT !.status = goal[w].status,
                             !.closed = incidents[i].closed \/ goal[w].closes] \in Incident
    <3> HIDE DEF i, Incident
    <3>1. incidents[i] \in Incident
      BY <1>4, <2>1
    <3>2. goal[w].status \in {"triggered", "active", "absent"} \cup Terminal
      BY <1>1
    <3>3. (incidents[i].closed \/ goal[w].closes) \in BOOLEAN
      OBVIOUS
    <3> QED
      BY <3>1, <3>2, <3>3 DEF Incident
  <2> HIDE DEF i, Incident
  <2>4. incidents' \in Seq(Incident) /\ Len(incidents') = Len(incidents)
    <3>1. incidents \in Seq(Incident)
      BY <1>4
    <3>2. \/ incidents' = incidents
          \/ incidents' = [incidents EXCEPT ![i] = [incidents[i] EXCEPT !.status = goal[w].status,
                                                          !.closed = incidents[i].closed \/ goal[w].closes]]
      BY <2>2
    <3> QED
      BY <2>1, <2>3, <3>1, <3>2
  <2>5. "dedup" \in PC \ {"detections", "detection", "updates", "update"}
    BY DEF PC
  <2>6. Len(incidents') >= Len(incidents) /\ Len(alerts') = Len(alerts)
    BY <2>4, <2>2, <1>1
  <2>7. Row(alert'[w], Len(alerts'), Len(incidents'))
    BY <1>3, <2>2, <2>4
  <2> QED
    BY <1>1, <1>2, <1>4, <2>2, <2>4, <2>5, <2>6, <2>7, InnerTypes DEF Incident
<1> QED
  BY <1>5, <1>6, <1>7

\* A step that ends the work on the entry keeps the types.
LEMMA AckTypes ==
    ASSUME TypeOK, Shape, NEW w \in Workers, AckEntry(w), inbox[w] # <<>>,
           inbox[w] \in Seq(Detection) \/ inbox[w] \in Seq(Update),
           UNCHANGED <<streams, tables, offered, refused, alert, goal, crashes>>,
           cache' \in [Workers -> [Keys -> SUBSET Alert]],
           \A k \in Keys : Cell(cache'[w][k], k, Len(alerts), Len(incidents))
    PROVE  Kept(w)
<1>1. Local(w) /\ \A k \in Keys : Cell(latest[k], k, Len(alerts), Len(incidents))
  BY DEF Shape
<1>2. /\ latest' = latest /\ alerts' = alerts /\ incidents' = incidents
      /\ alert'[w] = alert[w] /\ goal'[w] = goal[w]
      /\ Len(alerts') >= Len(alerts) /\ Len(incidents') >= Len(incidents)
  BY Lengths DEF tables
<1>3. TypeOK'
  <2>1. pc' \in [Workers -> PC] /\ inbox' \in [Workers -> Seq(Detection \cup Update)]
    BY AckEffect
  <2> QED
    BY <2>1 DEF TypeOK, streams, tables
<1>4. Local(w)'
  <2>1. /\ inbox[w] \in Seq(Detection) => pc'[w] = "detection" /\ inbox'[w] \in Seq(Detection)
        /\ inbox[w] \in Seq(Update) => pc'[w] = "update" /\ inbox'[w] \in Seq(Update)
        /\ pc'[w] \in {"detection", "update"}
    BY AckEffect
  <2>2. /\ pc'[w] = "detection" => inbox'[w] \in Seq(Detection)
        /\ pc'[w] = "update" => inbox'[w] \in Seq(Update)
        /\ pc'[w] # "incident" /\ pc'[w] \in {"detections", "detection", "updates", "update"}
    BY <2>1
  <2>3. /\ alert[w].incident \in 0..Len(incidents)
        /\ goal[w].status \in Terminal => goal[w].closes
    BY <1>1 DEF Local
  <2> QED
    BY <1>2, <2>2, <2>3 DEF Local, Idle
<1> QED
  BY <1>1, <1>2, <1>3, <1>4 DEF Kept

\* The entry of a process that works on one.
LEMMA Working ==
    ASSUME TypeOK, Shape, NEW w \in Workers, ~Idle(w)
    PROVE  /\ inbox[w] # <<>>
           /\ inbox[w] \in Seq(Detection) \/ inbox[w] \in Seq(Update)
           /\ Row(alert[w], Len(alerts), Len(incidents))
           /\ alert[w] \in Alert
  BY DEF Shape, Local, TypeOK

\* The duplicate check keeps the types.
LEMMA DuplicateTypes ==
    ASSUME TypeOK, Shape, NEW w \in Workers, FindDuplicate(w)
    PROVE  Kept(w)
<1>1. ~Idle(w) /\ UNCHANGED <<streams, tables, offered, refused, goal, cache, crashes>>
  BY DEF FindDuplicate, Idle, gateway
<1>2. /\ inbox[w] # <<>>
      /\ inbox[w] \in Seq(Detection) \/ inbox[w] \in Seq(Update)
      /\ Row(alert[w], Len(alerts), Len(incidents)) /\ alert[w] \in Alert
  BY <1>1, Working
<1> DEFINE dup(young) == {a \in latest[alert[w].key] : ShouldSuppressDuplicate(alert[w], a, young)}
<1>3. \/ AckEntry(w) /\ alert' = alert
      \/ pc' = [pc EXCEPT ![w] = "quota"] /\ UNCHANGED <<alert, inbox>>
      \/ \E young \in InWindow : /\ dup(young) # {} /\ alert' = [alert EXCEPT ![w] = The(dup(young))]
                                 /\ pc' = [pc EXCEPT ![w] = "remember"] /\ inbox' = inbox
  BY DEF FindDuplicate, Goto, FindLatestAlertByEventKey
<1>4. /\ fired \in Nat /\ offered \in Seq(Alert) /\ alerts \in Seq(Lifecycles \cup {"none"})
      /\ incidents \in Seq([subject : Subjects, closed : BOOLEAN,
                            status : {"triggered", "active", "absent"} \cup Terminal])
      /\ alert \in [Workers -> Alert] /\ pc \in [Workers -> PC]
      /\ cache \in [Workers -> [Keys -> SUBSET Alert]]
      /\ Len(incidents) \in Nat /\ refused \subseteq 1..Len(offered)
  BY Lengths DEF TypeOK
<1>5. /\ UNCHANGED <<streams, latest, goal, cache>>
      /\ fired' = fired /\ offered' = offered /\ refused' = refused /\ alerts' = alerts
      /\ incidents' = incidents /\ crashes' = crashes /\ Len(incidents') >= Len(incidents)
  BY <1>1, <1>4 DEF tables
<1>6. /\ "quota" \in PC \ {"detections", "detection", "updates", "update"}
      /\ "remember" \in PC \ {"detections", "detection", "updates", "update"}
  BY DEF PC
<1>7. CASE AckEntry(w) /\ alert' = alert
  <2>1. \A k \in Keys : Cell(cache[w][k], k, Len(alerts), Len(incidents))
    BY DEF Shape, Local
  <2> QED
    BY <1>1, <1>2, <1>4, <1>5, <1>7, <2>1, AckTypes
<1>8. CASE pc' = [pc EXCEPT ![w] = "quota"] /\ UNCHANGED <<alert, inbox>>
  BY <1>1, <1>2, <1>4, <1>5, <1>6, <1>8, InnerTypes
<1>9. ASSUME NEW young \in InWindow, dup(young) # {}, alert' = [alert EXCEPT ![w] = The(dup(young))],
             pc' = [pc EXCEPT ![w] = "remember"], inbox' = inbox
      PROVE  Kept(w)
  <2>1. Cell(latest[alert[w].key], alert[w].key, Len(alerts), Len(incidents))
    BY <1>2 DEF Shape, Alert
  <2>2. The(dup(young)) \in latest[alert[w].key]
    BY <1>9 DEF The
  <2>3. The(dup(young)) \in Alert /\ Row(The(dup(young)), Len(alerts), Len(incidents))
    BY <2>1, <2>2 DEF Cell
  <2> HIDE DEF dup
  <2>4. alert'[w] = The(dup(young)) /\ alert' \in [Workers -> Alert]
    BY <1>4, <1>9, <2>3
  <2> QED
    BY <1>1, <1>4, <1>5, <1>6, <1>9, <2>3, <2>4, InnerTypes
<1> QED
  BY <1>3, <1>7, <1>8, <1>9

\* The quota check, the notifier, the table of alerts and the usage events.
LEMMA DispatchTypes ==
    ASSUME TypeOK, Shape, NEW w \in Workers,
           CheckQuota(w) \/ Notify(w) \/ SaveAlert(w) \/ RecordUsage(w)
    PROVE  Kept(w)
<1>1. ~Idle(w) /\ UNCHANGED <<streams, incidents, latest, inbox, goal, cache, crashes>>
  BY DEF CheckQuota, Notify, SaveAlert, RecordUsage, Idle, tables, local
<1>2. /\ Row(alert[w], Len(alerts), Len(incidents)) /\ alert[w] \in Alert
      /\ alert[w].id \in 1..Len(alerts) /\ alert[w].lifecycle \in Lifecycles
  BY <1>1, Working DEF Row, Alert
<1>3. /\ fired \in Nat /\ offered \in Seq(Alert) /\ alerts \in Seq(Lifecycles \cup {"none"})
      /\ incidents \in Seq([subject : Subjects, closed : BOOLEAN,
                            status : {"triggered", "active", "absent"} \cup Terminal])
      /\ alert \in [Workers -> Alert] /\ pc \in [Workers -> PC] /\ Len(incidents) \in Nat
  BY Lengths DEF TypeOK
<1>4. \E l \in {"save", "notify", "lifecycle", "remember"} : pc' = [pc EXCEPT ![w] = l]
  BY DEF CheckQuota, Notify, SaveAlert, RecordUsage, Goto
<1>5. PICK l \in {"save", "notify", "lifecycle", "remember"} : pc' = [pc EXCEPT ![w] = l]
  BY <1>4
<1>6. l \in PC \ {"detections", "detection", "updates", "update"} /\ l # "incident"
  BY DEF PC
<1>7. fired' \in Nat
  BY <1>3 DEF CheckQuota, Notify, SaveAlert, RecordUsage, RecordUsageEvent, tables
<1>8. offered' \in Seq(Alert) /\ refused' \subseteq 1..Len(offered')
  <2>1. \/ offered' = offered /\ refused' = refused
        \/ /\ offered' = Append(offered, alert[w])
           /\ refused' \subseteq refused \cup {Len(offered) + 1}
    BY DEF CheckQuota, Notify, SaveAlert, RecordUsage, gateway
  <2>2. /\ offered \in Seq(Alert) /\ alert[w] \in Alert /\ Len(offered) \in Nat
        /\ refused \subseteq 1..Len(offered)
    BY <1>2, <1>3, Lengths DEF TypeOK
  <2>3. Append(offered, alert[w]) \in Seq(Alert) /\ Len(Append(offered, alert[w])) = Len(offered) + 1
    BY <2>2
  <2>4. CASE offered' = offered /\ refused' = refused
    BY <2>2, <2>4
  <2>5. CASE /\ offered' = Append(offered, alert[w])
             /\ refused' \subseteq refused \cup {Len(offered) + 1}
    BY <2>2, <2>3, <2>5
  <2> QED
    BY <2>1, <2>4, <2>5
<1>9. alerts' \in Seq(Lifecycles \cup {"none"}) /\ Len(alerts') = Len(alerts)
  <2>1. alerts' = alerts \/ alerts' = [alerts EXCEPT ![alert[w].id] = alert[w].lifecycle]
    BY DEF CheckQuota, Notify, SaveAlert, RecordUsage, tables
  <2> QED
    BY <1>2, <1>3, <2>1
<1>10. /\ alert' \in [Workers -> Alert]
       /\ alert'[w] = alert[w] \/ alert'[w] = [alert[w] EXCEPT !.lifecycle = "suppressed"]
  <2>1. alert' = alert \/ alert' = [alert EXCEPT ![w] = [alert[w] EXCEPT !.lifecycle = "suppressed"]]
    BY <1>3 DEF CheckQuota, Notify, SaveAlert, RecordUsage, local
  <2>2. [alert[w] EXCEPT !.lifecycle = "suppressed"] \in Alert
    BY <1>2 DEF Alert, Lifecycles
  <2> QED
    BY <1>3, <2>1, <2>2
<1>11. Row(alert'[w], Len(alerts'), Len(incidents'))
  <2>1. alert'[w].id = alert[w].id /\ alert'[w].incident = alert[w].incident
    BY <1>2, <1>10 DEF Alert
  <2>2. alert'[w] \in Alert
    BY <1>10
  <2> QED
    BY <1>1, <1>2, <1>9, <2>1, <2>2 DEF Row
<1>12. Len(incidents') >= Len(incidents)
  BY <1>1, <1>3
<1> QED
  BY <1>1, <1>3, <1>5, <1>6, <1>7, <1>8, <1>9, <1>10, <1>11, <1>12, InnerTypes

\* What a transition asks for: a terminal status comes with closing.
LEMMA GoalTypes ==
    ASSUME NEW t \in Transition
    PROVE  /\ GoalOfTransition(t) \in [status : {"triggered", "active"} \cup Terminal, closes : BOOLEAN]
           /\ GoalOfTransition(t).status \in Terminal => GoalOfTransition(t).closes
<1>1. \/ IncidentStatusForTransition(t) \in {"triggered", "active"}
      \/ IncidentStatusForTransition(t) \in Terminal /\ t \in {"resolve", "retract"}
  BY DEF IncidentStatusForTransition, Terminal, Transition
<1>2. /\ GoalOfTransition(t).status = IncidentStatusForTransition(t)
      /\ GoalOfTransition(t).closes = (t \in {"resolve", "retract"})
  BY DEF GoalOfTransition
<1>3. (t \in {"resolve", "retract"}) \in BOOLEAN
  OBVIOUS
<1>4. {"triggered", "active"} \cap Terminal = {}
  BY DEF Terminal
<1>5. GoalOfTransition(t) \in [status : {"triggered", "active"} \cup Terminal, closes : BOOLEAN]
  BY <1>1, <1>3 DEF GoalOfTransition
<1> QED
  BY <1>1, <1>2, <1>4, <1>5

\* The alert of a detection: a fresh id and, so far, no incident.
LEMMA DetectionTypes ==
    ASSUME TypeOK, Shape, NEW w \in Workers, TakeDetection(w)
    PROVE  Kept(w)
<1> DEFINE d == Head(inbox[w])
<1>1. /\ pc[w] = "detection" /\ inbox[w] # <<>>
      /\ UNCHANGED <<streams, incidents, latest, fired, offered, refused, cache, crashes>>
  BY DEF TakeDetection, gateway
<1>2. inbox[w] \in Seq(Detection) /\ d \in Detection /\ Local(w)
  BY <1>1 DEF Shape, Local
<1>3. \A k \in Keys : /\ Cell(cache[w][k], k, Len(alerts), Len(incidents))
                      /\ Cell(latest[k], k, Len(alerts), Len(incidents))
  BY DEF Shape, Local
<1>4. CASE ~d.usable
  <2>1. AckEntry(w) /\ UNCHANGED <<alerts, alert, goal>>
    BY <1>4 DEF TakeDetection
  <2>2. UNCHANGED <<streams, tables, offered, refused, alert, goal, crashes>> /\ cache' = cache
    BY <1>1, <2>1 DEF tables
  <2>3. cache \in [Workers -> [Keys -> SUBSET Alert]]
    BY DEF TypeOK
  <2> QED
    BY <1>1, <1>2, <1>3, <2>1, <2>2, <2>3, AckTypes
<1>5. CASE d.usable
  <2> DEFINE a == AlertFromDetection(Len(alerts) + 1, d)
             g == GoalOfTransition(d.transition)
  <2>1. /\ alerts' = Append(alerts, "none") /\ alert' = [alert EXCEPT ![w] = a]
        /\ goal' = [goal EXCEPT ![w] = g] /\ pc' = [pc EXCEPT ![w] = "find"] /\ inbox' = inbox
    BY <1>5 DEF TakeDetection, Goto
  <2>2. /\ Len(alerts) \in Nat /\ Len(incidents) \in Nat
        /\ alerts \in Seq(Lifecycles \cup {"none"}) /\ alert \in [Workers -> Alert]
        /\ goal \in [Workers -> [status : {"triggered", "active"} \cup Terminal, closes : BOOLEAN]]
        /\ pc \in [Workers -> PC]
    BY Lengths DEF TypeOK
  <2>3. alerts' \in Seq(Lifecycles \cup {"none"}) /\ Len(alerts') = Len(alerts) + 1
    BY <2>1, <2>2
  <2>4. a \in Alert /\ a.id = Len(alerts) + 1 /\ a.incident = 0
    <3>1. Len(alerts) + 1 \in Nat
      BY <2>2
    <3> QED
      BY <1>2, <3>1 DEF AlertFromDetection, Alert, Detection, NoIncident, Lifecycles
  <2>5. g \in [status : {"triggered", "active"} \cup Terminal, closes : BOOLEAN]
        /\ (g.status \in Terminal => g.closes)
    BY <1>2, GoalTypes DEF Detection
  <2> HIDE DEF a, g, d
  <2>6. /\ alert'[w] = a /\ goal'[w] = g /\ pc'[w] = "find" /\ inbox'[w] = inbox[w]
        /\ alert' \in [Workers -> Alert] /\ pc' \in [Workers -> PC]
        /\ goal' \in [Workers -> [status : {"triggered", "active"} \cup Terminal, closes : BOOLEAN]]
    BY <2>1, <2>2, <2>4, <2>5 DEF PC
  <2>7. TypeOK'
    BY <1>1, <2>1, <2>3, <2>6 DEF TypeOK, streams
  <2>8. Len(alerts') >= Len(alerts) /\ Len(alerts') \in Nat /\ Len(incidents) >= Len(incidents)
    BY <2>2, <2>3
  <2>9. \A S, k : Cell(S, k, Len(alerts), Len(incidents)) => Cell(S, k, Len(alerts'), Len(incidents))
    BY <2>2, <2>8, RowsStay
  <2>10. Row(a, Len(alerts'), Len(incidents)) /\ a.incident \in 0..Len(incidents)
    BY <2>2, <2>3, <2>4 DEF Row
  <2>11. incidents' = incidents /\ latest' = latest /\ cache' = cache
    BY <1>1
  <2>12. Local(w)'
    <3>1. \A k \in Keys : Cell(cache'[w][k], k, Len(alerts'), Len(incidents'))
      BY <1>3, <2>9, <2>11
    <3> QED
      BY <1>1, <1>2, <2>5, <2>6, <2>10, <2>11, <3>1 DEF Local
  <2>13. \A k \in Keys : Cell(latest'[k], k, Len(alerts'), Len(incidents'))
    BY <1>3, <2>9, <2>11
  <2>14. Len(incidents') >= Len(incidents)
    BY <2>8, <2>11
  <2> QED
    BY <2>7, <2>8, <2>12, <2>13, <2>14 DEF Kept
<1> QED
  BY <1>4, <1>5

\* The alert a finality update applies to is a row.
LEMMA UpdateTypes ==
    ASSUME TypeOK, Shape, NEW w \in Workers, TakeUpdate(w)
    PROVE  Kept(w)
<1> DEFINE u == Head(inbox[w])
<1>1. /\ pc[w] = "update" /\ inbox[w] # <<>>
      /\ UNCHANGED <<streams, tables, offered, refused, cache, crashes>>
  BY DEF TakeUpdate, gateway
<1>2. inbox[w] \in Seq(Update) /\ u \in Update /\ Local(w)
  BY <1>1 DEF Shape, Local
<1>3. \A k \in Keys : /\ Cell(cache[w][k], k, Len(alerts), Len(incidents))
                      /\ Cell(latest[k], k, Len(alerts), Len(incidents))
  BY DEF Shape, Local
<1>4. \/ AckEntry(w) /\ UNCHANGED <<alert, goal>>
      \/ \E e \in {cache[w][u.key], latest[u.key]} :
            /\ e # {} /\ alert' = [alert EXCEPT ![w] = [The(e) EXCEPT !.lifecycle = u.lifecycle]]
            /\ goal' = [goal EXCEPT ![w] = GoalOfUpdate(u.lifecycle)]
            /\ pc' = [pc EXCEPT ![w] = IF The(e).incident # NoIncident THEN "incident" ELSE "dedup"]
            /\ inbox' = inbox
  BY DEF TakeUpdate, Goto, FindLatestAlertByEventKey
<1>5. CASE AckEntry(w) /\ UNCHANGED <<alert, goal>>
  <2>1. UNCHANGED <<streams, tables, offered, refused, alert, goal, crashes>> /\ cache' = cache
    BY <1>1, <1>5
  <2>2. cache \in [Workers -> [Keys -> SUBSET Alert]]
    BY DEF TypeOK
  <2> QED
    BY <1>1, <1>2, <1>3, <1>5, <2>1, <2>2, AckTypes
<1>6. ASSUME NEW e \in {cache[w][u.key], latest[u.key]}, e # {},
             alert' = [alert EXCEPT ![w] = [The(e) EXCEPT !.lifecycle = u.lifecycle]],
             goal' = [goal EXCEPT ![w] = GoalOfUpdate(u.lifecycle)],
             pc' = [pc EXCEPT ![w] = IF The(e).incident # NoIncident THEN "incident" ELSE "dedup"],
             inbox' = inbox
      PROVE  Kept(w)
  <2> DEFINE a == [The(e) EXCEPT !.lifecycle = u.lifecycle]
             g == GoalOfUpdate(u.lifecycle)
  <2>1. /\ Len(alerts) \in Nat /\ Len(incidents) \in Nat
        /\ alert \in [Workers -> Alert]
        /\ goal \in [Workers -> [status : {"triggered", "active"} \cup Terminal, closes : BOOLEAN]]
        /\ pc \in [Workers -> PC]
    BY Lengths DEF TypeOK
  <2>2. Cell(e, u.key, Len(alerts), Len(incidents)) /\ u.key \in Keys
    BY <1>2, <1>3 DEF Update
  <2>3. The(e) \in Alert /\ Row(The(e), Len(alerts), Len(incidents))
    BY <1>6, <2>2, TheOne
  <2>4. /\ a \in Alert /\ a.id = The(e).id /\ a.incident = The(e).incident
    BY <1>2, <2>3 DEF Alert, Update, Lifecycles
  <2>5. g \in [status : {"triggered", "active"} \cup Terminal, closes : BOOLEAN]
        /\ (g.status \in Terminal => g.closes)
    BY DEF GoalOfUpdate, Terminal
  <2>6. Row(a, Len(alerts), Len(incidents)) /\ a.incident \in 0..Len(incidents)
    BY <2>3, <2>4 DEF Row
  <2>7. /\ pc' \in [Workers -> PC] /\ pc'[w] \in {"incident", "dedup"}
        /\ pc'[w] = "incident" => a.incident # NoIncident
    BY <1>6, <2>1, <2>4 DEF PC
  <2> HIDE DEF a, g, u
  <2>8. /\ alert'[w] = a /\ goal'[w] = g /\ inbox'[w] = inbox[w]
        /\ alert' \in [Workers -> Alert]
        /\ goal' \in [Workers -> [status : {"triggered", "active"} \cup Terminal, closes : BOOLEAN]]
    BY <1>6, <2>1, <2>4, <2>5 DEF a, g
  <2>9. TypeOK'
    BY <1>1, <1>6, <2>7, <2>8 DEF TypeOK, streams, tables
  <2>10. incidents' = incidents /\ latest' = latest /\ cache' = cache /\ alerts' = alerts
    BY <1>1 DEF tables
  <2>11. Local(w)'
    BY <1>1, <1>2, <1>3, <2>5, <2>6, <2>7, <2>8, <2>10 DEF Local
  <2>12. Len(alerts') >= Len(alerts) /\ Len(incidents') >= Len(incidents)
    BY <2>1, <2>10
  <2> QED
    BY <1>3, <2>9, <2>10, <2>11, <2>12 DEF Kept
<1> QED
  BY <1>4, <1>5, <1>6

\* The newest row of a key.
LEMMA LifecycleTypes ==
    ASSUME TypeOK, Shape, NEW w \in Workers, SaveLifecycle(w)
    PROVE  Kept(w)
<1>1. /\ ~Idle(w) /\ pc' = [pc EXCEPT ![w] = "usage"]
      /\ UNCHANGED <<streams, incidents, alerts, fired, offered, refused, inbox, alert, goal, cache, crashes>>
      /\ latest' = latest \/ latest' = [latest EXCEPT ![alert[w].key] = {alert[w]}]
  BY DEF SaveLifecycle, Idle, Goto, local, SaveAlertLifecycle, Some, gateway
<1>2. /\ inbox[w] # <<>>
      /\ inbox[w] \in Seq(Detection) \/ inbox[w] \in Seq(Update)
      /\ Row(alert[w], Len(alerts), Len(incidents)) /\ alert[w] \in Alert /\ alert[w].key \in Keys
  BY <1>1, Working DEF Alert
<1>3. /\ latest \in [Keys -> SUBSET Alert] /\ pc \in [Workers -> PC]
      /\ Local(w) /\ \A k \in Keys : Cell(latest[k], k, Len(alerts), Len(incidents))
  BY DEF TypeOK, Shape
<1>4. latest' \in [Keys -> SUBSET Alert] /\ \A k \in Keys : Cell(latest'[k], k, Len(alerts), Len(incidents))
  <2>1. Cell({alert[w]}, alert[w].key, Len(alerts), Len(incidents))
    BY <1>2 DEF Cell
  <2> QED
    BY <1>1, <1>2, <1>3, <2>1
<1>5. pc' \in [Workers -> PC] /\ pc'[w] = "usage"
  BY <1>1, <1>3 DEF PC
<1>6. TypeOK'
  BY <1>1, <1>4, <1>5 DEF TypeOK, streams
<1>7. /\ inbox'[w] = inbox[w] /\ alert'[w] = alert[w] /\ goal'[w] = goal[w] /\ cache'[w] = cache[w]
      /\ Len(alerts') = Len(alerts) /\ Len(incidents') = Len(incidents)
  BY <1>1
<1>8. Local(w)'
  BY <1>2, <1>3, <1>5, <1>7 DEF Local
<1>9. Len(alerts') >= Len(alerts) /\ Len(incidents') >= Len(incidents)
  BY <1>7, Lengths
<1> QED
  BY <1>4, <1>6, <1>7, <1>8, <1>9 DEF Kept

\* The cache after an alert entered it: the alert itself, what was cached before,
\* or nothing.
LEMMA RememberEffect ==
    ASSUME TypeOK, Shape, NEW w \in Workers, Remember(w)
    PROVE  /\ \A k \in Keys : \/ cache'[w][k] = {}
                              \/ k = alert[w].key /\ cache'[w][k] = {alert[w]}
                              \/ k # alert[w].key /\ cache'[w][k] = cache[w][k]
           /\ cache' \in [Workers -> [Keys -> SUBSET Alert]]
           /\ \A v \in Workers \ {w} : cache'[v] = cache[v]
<1> DEFINE filled == [cache[w] EXCEPT ![alert[w].key] = {alert[w]}]
<1>1. PICK keep \in SUBSET {k \in Keys : filled[k] # {}} :
         cache' = [cache EXCEPT ![w] = [k \in Keys |-> IF k \in keep THEN filled[k] ELSE {}]]
  BY DEF Remember, Some
<1>2. alert[w] \in Alert /\ alert[w].key \in Keys /\ cache \in [Workers -> [Keys -> SUBSET Alert]]
  BY DEF TypeOK, Alert
<1>3. /\ filled \in [Keys -> SUBSET Alert] /\ filled[alert[w].key] = {alert[w]}
      /\ \A k \in Keys : k # alert[w].key => filled[k] = cache[w][k]
  BY <1>2
<1> HIDE DEF filled
<1>4. cache'[w] = [k \in Keys |-> IF k \in keep THEN filled[k] ELSE {}]
  BY <1>1, <1>2
<1>5. [k \in Keys |-> IF k \in keep THEN filled[k] ELSE {}] \in [Keys -> SUBSET Alert]
  BY <1>3
<1>6. \A k \in Keys : cache'[w][k] = filled[k] \/ cache'[w][k] = {}
  BY <1>4
<1> QED
  BY <1>1, <1>2, <1>3, <1>5, <1>6

\* Remembering keeps the types.
LEMMA RememberTypes ==
    ASSUME TypeOK, Shape, NEW w \in Workers, Remember(w)
    PROVE  Kept(w)
<1>1. ~Idle(w) /\ AckEntry(w) /\ UNCHANGED <<streams, tables, offered, refused, alert, goal, crashes>>
  BY DEF Remember, Idle, gateway
<1>2. /\ inbox[w] # <<>>
      /\ inbox[w] \in Seq(Detection) \/ inbox[w] \in Seq(Update)
      /\ Row(alert[w], Len(alerts), Len(incidents)) /\ alert[w] \in Alert
  BY <1>1, Working
<1>3. \A k \in Keys : Cell(cache[w][k], k, Len(alerts), Len(incidents))
  BY DEF Shape, Local
<1>4. /\ Cell({alert[w]}, alert[w].key, Len(alerts), Len(incidents))
      /\ \A k : Cell({}, k, Len(alerts), Len(incidents))
  BY <1>2 DEF Cell
<1>5. \A k \in Keys : Cell(cache'[w][k], k, Len(alerts), Len(incidents))
  BY <1>3, <1>4, RememberEffect
<1> QED
  BY <1>1, <1>2, <1>5, RememberEffect, AckTypes

\* A new process starts with an empty cache and no entry.
LEMMA CrashTypes ==
    ASSUME TypeOK, Shape, NEW w \in Workers, Crash(w)
    PROVE  Kept(w)
<1>1. /\ UNCHANGED <<streams, tables, offered, refused, alert, goal>>
      /\ pc' = [pc EXCEPT ![w] = "detections"] /\ inbox' = [inbox EXCEPT ![w] = <<>>]
      /\ cache' = [cache EXCEPT ![w] = [k \in Keys |-> {}]]
      /\ crashes < MaxCrashes /\ crashes' = crashes + 1
  BY DEF Crash, Goto, gateway
<1>2. /\ latest' = latest /\ alerts' = alerts /\ incidents' = incidents
      /\ Len(alerts') >= Len(alerts) /\ Len(incidents') >= Len(incidents)
  BY <1>1, Lengths DEF tables
<1>3. /\ pc' \in [Workers -> PC] /\ pc'[w] = "detections"
      /\ inbox' \in [Workers -> Seq(Detection \cup Update)]
      /\ cache' \in [Workers -> [Keys -> SUBSET Alert]]
      /\ \A k \in Keys : cache'[w][k] = {}
      /\ crashes' \in 0..MaxCrashes
  BY <1>1, OrchestratorAssumption DEF TypeOK, PC
<1>4. TypeOK'
  BY <1>1, <1>3 DEF TypeOK, streams, tables
<1>5. Local(w) /\ \A k \in Keys : Cell(latest[k], k, Len(alerts), Len(incidents))
  BY DEF Shape
<1>6. \A k \in Keys : Cell(cache'[w][k], k, Len(alerts'), Len(incidents'))
  BY <1>3 DEF Cell
<1>7. Local(w)'
  BY <1>1, <1>2, <1>3, <1>5, <1>6 DEF Local, Idle
<1> QED
  BY <1>2, <1>4, <1>5, <1>7 DEF Kept

\* The producers only append to their streams.
LEMMA ProducerEffect ==
    ASSUME TypeOK,
           \/ \E d \in DetectionFeed : Detect(d)
           \/ \E k \in Keys, s \in UpdateStates : Finalize([key |-> k, lifecycle |-> s])
    PROVE  /\ UNCHANGED <<nextDet, nextUpd, tables, offered, refused, pc, local, crashes>>
           /\ detections' \in Seq(Detection) /\ nextDet \in 0..Len(detections')
           /\ updates' \in Seq(Update) /\ nextUpd \in 0..Len(updates')
<1>1. /\ detections \in Seq(Detection) /\ nextDet \in 0..Len(detections)
      /\ updates \in Seq(Update) /\ nextUpd \in 0..Len(updates)
      /\ Len(detections) \in Nat /\ Len(updates) \in Nat
  BY Lengths DEF TypeOK
<1>2. ASSUME NEW d \in DetectionFeed, Detect(d)
      PROVE  /\ UNCHANGED <<nextDet, nextUpd, tables, offered, refused, pc, local, crashes>>
             /\ detections' \in Seq(Detection) /\ nextDet \in 0..Len(detections')
             /\ updates' \in Seq(Update) /\ nextUpd \in 0..Len(updates')
  <2>1. /\ UNCHANGED <<nextDet, nextUpd, tables, offered, refused, pc, local, crashes>> /\ updates' = updates
        /\ detections' = Append(detections, d)
    BY <1>2 DEF Detect, gateway
  <2>2. d \in Detection
    BY OrchestratorAssumption
  <2>3. detections' \in Seq(Detection) /\ Len(detections') = Len(detections) + 1
    BY <1>1, <2>1, <2>2
  <2> QED
    BY <1>1, <2>1, <2>3
<1>3. ASSUME NEW k \in Keys, NEW s \in UpdateStates, Finalize([key |-> k, lifecycle |-> s])
      PROVE  /\ UNCHANGED <<nextDet, nextUpd, tables, offered, refused, pc, local, crashes>>
             /\ detections' \in Seq(Detection) /\ nextDet \in 0..Len(detections')
             /\ updates' \in Seq(Update) /\ nextUpd \in 0..Len(updates')
  <2>1. /\ UNCHANGED <<nextDet, nextUpd, tables, offered, refused, pc, local, crashes>> /\ detections' = detections
        /\ updates' = Append(updates, [key |-> k, lifecycle |-> s])
    BY <1>3 DEF Finalize, gateway
  <2>2. [key |-> k, lifecycle |-> s] \in Update
    BY OrchestratorAssumption DEF Update
  <2>3. updates' \in Seq(Update) /\ Len(updates') = Len(updates) + 1
    BY <1>1, <2>1, <2>2
  <2> QED
    BY <1>1, <2>1, <2>3
<1> QED
  BY <1>2, <1>3

\* Every step keeps the types and the shape.
LEMMA TypeStep ==
    ASSUME TypeOK, Shape, [Next]_vars
    PROVE  TypeOK' /\ Shape'
<1>1. CASE UNCHANGED vars
  <2>1. UNCHANGED <<detections, nextDet, updates, nextUpd, incidents, latest, alerts, fired,
                    offered, refused, pc, inbox, alert, goal, cache, crashes>>
    BY <1>1 DEF vars, streams, tables, local, gateway
  <2>2. TypeOK'
    BY <2>1 DEF TypeOK
  <2>3. Shape'
    BY <2>1 DEF Shape, Local, Idle
  <2> QED
    BY <2>2, <2>3
<1>2. CASE \/ \E d \in DetectionFeed : Detect(d)
           \/ \E k \in Keys, s \in UpdateStates : Finalize([key |-> k, lifecycle |-> s])
  <2>1. /\ UNCHANGED <<nextDet, nextUpd, tables, offered, refused, pc, local, crashes>>
        /\ detections' \in Seq(Detection) /\ nextDet \in 0..Len(detections')
        /\ updates' \in Seq(Update) /\ nextUpd \in 0..Len(updates')
    BY <1>2, ProducerEffect
  <2>2. UNCHANGED <<nextDet, nextUpd, incidents, latest, alerts, fired,
                    offered, refused, pc, inbox, alert, goal, cache, crashes>>
    BY <2>1 DEF tables, local
  <2>3. TypeOK'
    BY <2>1, <2>2 DEF TypeOK
  <2>4. Shape'
    BY <2>2 DEF Shape, Local, Idle
  <2> QED
    BY <2>3, <2>4
<1>3. ASSUME NEW w \in Workers, Step(w) \/ Crash(w)
      PROVE  TypeOK' /\ Shape'
  <2>1. Alone(w)
    BY <1>3, StepIsLocal
  <2>2. Kept(w)
    BY <1>3, ReadTypes, DetectionTypes, UpdateTypes, IncidentTypes, DuplicateTypes, DispatchTypes,
       LifecycleTypes, RememberTypes, CrashTypes DEF Step
  <2> QED
    BY <2>1, <2>2, ShapeFrame DEF Kept
<1> QED
  BY <1>1, <1>2, <1>3 DEF Next

\* The initial state.
LEMMA InitialTypes ==
    Init => TypeOK /\ Shape
<1> SUFFICES ASSUME Init PROVE TypeOK /\ Shape
  OBVIOUS
<1>1. NoAlert \in Alert /\ NoAlert.incident = 0
  BY OrchestratorAssumption DEF NoAlert, Alert, Severity, Lifecycles, NoIncident
<1>2. NoGoal \in [status : {"triggered", "active"} \cup Terminal, closes : BOOLEAN] /\ NoGoal.status \notin Terminal
  BY DEF NoGoal, Terminal
<1> HIDE DEF NoGoal, NoAlert
<1>3. TypeOK
  BY <1>1, <1>2, OrchestratorAssumption DEF Init, TypeOK, PC
<1>4. Shape
  BY <1>1, <1>2, OrchestratorAssumption DEF Init, Shape, Local, Cell, Idle
<1> QED
  BY <1>3, <1>4

\* Every reachable state has its types, and the position of each process says
\* what its entries, its alert, its goal and its cache are.
THEOREM ShapeHolds ==
    Spec => [](TypeOK /\ Shape)
<1>1. TypeOK /\ Shape /\ [Next]_vars => TypeOK' /\ Shape'
  BY TypeStep
<1> QED
  BY <1>1, InitialTypes, PTL DEF Spec

\* The type invariant, for every set of keys, subjects and processes.
THEOREM TypeCorrect ==
    Spec => []TypeOK
  BY ShapeHolds, PTL

-----------------------------------------------------------------------------
(***************************************************************************)
(* The notifier comes first, for any number of processes, crashes and      *)
(* failed calls.                                                           *)
(***************************************************************************)
\* Processes between the notifier and the usage event of an alert that counts.
Charging ==
    {w \in Workers : pc[w] \in {"save", "lifecycle", "usage"} /\ alert[w].lifecycle # "suppressed"}

\* The notifier was called with the alert of this id in this state.
Offered(id, s) == \E i \in 1..Len(offered) : offered[i].id = id /\ offered[i].lifecycle = s

\* For an alert about to be stored the notifier was called.
Told(w) ==
    pc[w] \in {"save", "lifecycle"} /\ alert[w].lifecycle # "suppressed" =>
        Offered(alert[w].id, alert[w].lifecycle)

AlertsOffered ==
    \A id \in 1..Len(alerts) : alerts[id] \notin {"none", "suppressed"} => Offered(id, alerts[id])

RowsOffered ==
    \A k \in Keys : \A a \in latest[k] :
        a.lifecycle # "suppressed" => Offered(a.id, a.lifecycle)

NotifyInv ==
    /\ AlertsOffered /\ RowsOffered
    /\ fired + Cardinality(Charging) <= Len(offered)
    /\ \A w \in Workers : Told(w)

\* A call of the gateway succeeded or failed.
LEMMA OfferedSplit ==
    ASSUME TypeOK, NEW id, NEW s, Offered(id, s)
    PROVE  Delivered(id, s) \/ Refused(id, s)
<1>1. PICK i \in 1..Len(offered) : offered[i].id = id /\ offered[i].lifecycle = s
  BY DEF Offered
<1>2. CASE i \in refused
  BY <1>1, <1>2 DEF Refused
<1>3. CASE i \notin refused
  BY <1>1, <1>3 DEF Delivered
<1> QED
  BY <1>2, <1>3

\* Two sets of processes that differ in one process at most.
LEMMA CountStep ==
    ASSUME NEW S, NEW T, S \subseteq Workers, T \subseteq Workers, NEW w, S \ {w} = T \ {w}
    PROVE  /\ Cardinality(S) \in Nat /\ Cardinality(T) \in Nat
           /\ w \in S /\ w \notin T => Cardinality(T) = Cardinality(S) - 1
           /\ w \notin S /\ w \in T => Cardinality(T) = Cardinality(S) + 1
           /\ (w \in S <=> w \in T) => Cardinality(T) = Cardinality(S)
<1>1. IsFiniteSet(S) /\ IsFiniteSet(T)
  BY OrchestratorAssumption, FS_Subset
<1>2. Cardinality(S) \in Nat /\ Cardinality(T) \in Nat
  BY <1>1, FS_CardinalityType
<1>3. ASSUME w \in S, w \notin T PROVE Cardinality(T) = Cardinality(S) - 1
  <2>1. T = S \ {w}
    BY <1>3
  <2> QED
    BY <1>1, <1>3, <2>1, FS_RemoveElement
<1>4. ASSUME w \notin S, w \in T PROVE Cardinality(T) = Cardinality(S) + 1
  <2>1. T = S \cup {w}
    BY <1>4
  <2> QED
    BY <1>1, <1>4, <2>1, FS_AddElement
<1>5. ASSUME w \in S <=> w \in T PROVE Cardinality(T) = Cardinality(S)
  <2>1. S = T
    BY <1>5
  <2> QED
    BY <2>1
<1> QED
  BY <1>2, <1>3, <1>4, <1>5

\* The steps that have nothing to do with the notifier and what follows it.
Beside(w) ==
    \/ ReadDetections(w) \/ ReadUpdates(w) \/ BatchDone(w) \/ TakeDetection(w) \/ TakeUpdate(w)
    \/ FindIncident(w) \/ CreateIncident(w) \/ UpdateIncident(w) \/ FindDuplicate(w) \/ Remember(w)

\* Steps beside the notifier.
LEMMA BesideEffect ==
    ASSUME TypeOK, Shape, NEW w \in Workers, Beside(w)
    PROVE  /\ pc[w] \notin {"notify", "save", "lifecycle", "usage"}
           /\ pc'[w] \notin {"notify", "save", "lifecycle", "usage"}
           /\ offered' = offered /\ fired' = fired /\ crashes' = crashes /\ latest' = latest
           /\ alerts' = alerts \/ alerts' = Append(alerts, "none")
<1>1. pc \in [Workers -> PC]
  BY DEF TypeOK
<1>2. CASE ReadDetections(w) \/ ReadUpdates(w) \/ BatchDone(w)
  BY <1>1, <1>2 DEF ReadDetections, ReadUpdates, BatchDone, Goto, tables, gateway
<1>3. CASE TakeDetection(w)
  BY <1>1, <1>3 DEF TakeDetection, AckEntry, Goto, gateway
<1>4. CASE TakeUpdate(w)
  BY <1>1, <1>4 DEF TakeUpdate, AckEntry, Goto, tables, gateway
<1>5. CASE FindIncident(w) \/ CreateIncident(w) \/ UpdateIncident(w)
  BY <1>1, <1>5 DEF FindIncident, CreateIncident, UpdateIncident, Goto, tables, gateway
<1>6. CASE FindDuplicate(w)
  BY <1>1, <1>6 DEF FindDuplicate, AckEntry, Goto, tables, gateway
<1>7. CASE Remember(w)
  BY <1>1, <1>7 DEF Remember, AckEntry, Goto, tables, gateway
<1> QED
  BY <1>2, <1>3, <1>4, <1>5, <1>6, <1>7 DEF Beside

\* A step is one of these or a step of the dispatch.
LEMMA StepCases ==
    ASSUME NEW w, Step(w)
    PROVE  \/ Beside(w) \/ CheckQuota(w) \/ Notify(w) \/ SaveAlert(w) \/ SaveLifecycle(w)
           \/ RecordUsage(w)
  BY DEF Step, Beside

\* The invariant after a step of process w, from what the step does.
LEMMA NotifyFrame ==
    ASSUME TypeOK, TypeOK', NotifyInv, NEW w \in Workers, Alone(w),
           offered' = offered \/ \E a \in Alert : offered' = Append(offered, a),
           \A id \in 1..Len(alerts') : alerts'[id] \notin {"none", "suppressed"} =>
               \/ id \in 1..Len(alerts) /\ alerts'[id] = alerts[id]
               \/ Offered(id, alerts'[id]),
           \A k \in Keys : \A a \in latest'[k] : a.lifecycle # "suppressed" =>
               a \in latest[k] \/ Offered(a.id, a.lifecycle),
           Told(w)', fired' + Cardinality(Charging') <= Len(offered')
    PROVE  NotifyInv'
<1>1. offered \in Seq(Alert) /\ Len(offered) \in Nat
  BY Lengths DEF TypeOK
<1>2. /\ Len(offered') \in Nat /\ Len(offered) <= Len(offered')
      /\ \A i \in 1..Len(offered) : i \in 1..Len(offered') /\ offered'[i] = offered[i]
  <2>1. CASE offered' = offered
    BY <1>1, <2>1
  <2>2. CASE \E a \in Alert : offered' = Append(offered, a)
    BY <1>1, <2>2
  <2> QED
    BY <2>1, <2>2
<1>4. ASSUME NEW v \in Workers PROVE Told(v)'
  <2>1. CASE v = w
    BY <2>1
  <2>2. CASE v # w
    <3>1. pc'[v] = pc[v] /\ alert'[v] = alert[v]
      BY <2>2 DEF Alone
    <3>2. pc'[v] \in {"save", "lifecycle"} /\ alert'[v].lifecycle # "suppressed" =>
             Offered(alert[v].id, alert[v].lifecycle)
      BY <3>1 DEF NotifyInv, Told
    <3> QED
      BY <1>2, <3>1, <3>2 DEF Told, Offered
  <2> QED
    BY <2>1, <2>2
<1>5. AlertsOffered'
  <2> SUFFICES ASSUME NEW id \in 1..Len(alerts'), alerts'[id] \notin {"none", "suppressed"}
               PROVE  \E i \in 1..Len(offered') : /\ offered'[i].id = id
                                                  /\ offered'[i].lifecycle = alerts'[id]
    BY DEF AlertsOffered, Offered
  <2>1. Offered(id, alerts'[id])
    BY DEF NotifyInv, AlertsOffered
  <2> QED
    BY <1>2, <2>1 DEF Offered
<1>6. RowsOffered'
  <2> SUFFICES ASSUME NEW k \in Keys, NEW a \in latest'[k], a.lifecycle # "suppressed"
               PROVE  \E i \in 1..Len(offered') : /\ offered'[i].id = a.id
                                                  /\ offered'[i].lifecycle = a.lifecycle
    BY DEF RowsOffered, Offered
  <2>1. Offered(a.id, a.lifecycle)
    BY DEF NotifyInv, RowsOffered
  <2> QED
    BY <1>2, <2>1 DEF Offered
<1> QED
  BY <1>4, <1>5, <1>6 DEF NotifyInv

\* Every step of a process keeps it.
LEMMA NotifyStep ==
    ASSUME TypeOK, Shape, TypeOK', NotifyInv, NEW w \in Workers, Step(w) \/ Crash(w)
    PROVE  NotifyInv'
<1>1. Alone(w)
  BY StepIsLocal
<1>2. Charging \ {w} = Charging' \ {w} /\ Charging \subseteq Workers /\ Charging' \subseteq Workers
  BY <1>1 DEF Charging, Alone
<1>3. /\ Cardinality(Charging) \in Nat /\ Cardinality(Charging') \in Nat
      /\ w \in Charging /\ w \notin Charging' => Cardinality(Charging') = Cardinality(Charging) - 1
      /\ w \notin Charging /\ w \in Charging' => Cardinality(Charging') = Cardinality(Charging) + 1
      /\ (w \in Charging <=> w \in Charging') => Cardinality(Charging') = Cardinality(Charging)
  BY <1>2, CountStep
<1>4. /\ fired \in Nat /\ Len(offered) \in Nat /\ fired + Cardinality(Charging) <= Len(offered)
      /\ offered \in Seq(Alert) /\ alerts \in Seq(Lifecycles \cup {"none"})
      /\ pc \in [Workers -> PC] /\ alert \in [Workers -> Alert] /\ Len(alerts) \in Nat
      /\ Told(w)
  BY Lengths DEF TypeOK, NotifyInv
<1>5. CASE Beside(w)
  <2>1. /\ pc[w] \notin {"notify", "save", "lifecycle", "usage"}
        /\ pc'[w] \notin {"notify", "save", "lifecycle", "usage"}
        /\ offered' = offered /\ fired' = fired
        /\ alerts' = alerts \/ alerts' = Append(alerts, "none")
        /\ latest' = latest
    BY <1>5, BesideEffect
  <2>2. w \notin Charging /\ w \notin Charging' /\ Told(w)'
    BY <2>1 DEF Charging, Told
  <2>3. fired' + Cardinality(Charging') <= Len(offered')
    BY <1>3, <1>4, <2>1, <2>2
  <2>4. \A id \in 1..Len(alerts') : alerts'[id] \notin {"none", "suppressed"} =>
               id \in 1..Len(alerts) /\ alerts'[id] = alerts[id]
    BY <1>4, <2>1
  <2> QED
    BY <1>1, <2>1, <2>2, <2>3, <2>4, NotifyFrame
<1>6. CASE CheckQuota(w)
  <2>1. /\ pc[w] = "quota" /\ offered' = offered /\ fired' = fired /\ alerts' = alerts
        /\ latest' = latest
        /\ \/ pc'[w] = "notify"
           \/ pc'[w] = "save" /\ alert'[w] = [alert[w] EXCEPT !.lifecycle = "suppressed"]
    BY <1>4, <1>6 DEF CheckQuota, Goto, tables, gateway
  <2>2. pc'[w] = "save" => alert'[w].lifecycle = "suppressed"
    BY <1>4, <2>1 DEF Alert
  <2>3. w \notin Charging /\ w \notin Charging' /\ Told(w)'
    BY <2>1, <2>2 DEF Charging, Told
  <2>4. fired' + Cardinality(Charging') <= Len(offered')
    BY <1>3, <1>4, <2>1, <2>3
  <2> QED
    BY <1>1, <2>1, <2>3, <2>4, NotifyFrame
<1>7. CASE Notify(w)
  <2>1. /\ pc[w] = "notify" /\ offered' = Append(offered, alert[w]) /\ fired' = fired /\ alerts' = alerts
        /\ pc'[w] = "save" /\ alert'[w] = alert[w] /\ latest' = latest
    BY <1>4, <1>7 DEF Notify, Goto, tables, local
  <2>2. alert[w] \in Alert
    BY <1>4
  <2>3. /\ Len(offered') = Len(offered) + 1 /\ offered'[Len(offered) + 1] = alert[w]
        /\ Len(offered) + 1 \in 1..Len(offered')
    BY <1>4, <2>1, <2>2
  <2>4. w \notin Charging /\ Told(w)'
    BY <2>1, <2>3 DEF Charging, Told, Offered
  <2>5. fired' + Cardinality(Charging') <= Len(offered')
    BY <1>3, <1>4, <2>1, <2>3, <2>4
  <2> QED
    BY <1>1, <2>1, <2>2, <2>4, <2>5, NotifyFrame
<1>8. CASE SaveAlert(w)
  <2>1. /\ pc[w] = "save" /\ offered' = offered /\ fired' = fired
        /\ pc'[w] = "lifecycle" /\ alert'[w] = alert[w] /\ latest' = latest
        /\ alerts' = alerts \/ alerts' = [alerts EXCEPT ![alert[w].id] = alert[w].lifecycle]
    BY <1>4, <1>8 DEF SaveAlert, Goto, local, gateway
  <2>2. (w \in Charging <=> w \in Charging') /\ Told(w)'
    BY <1>4, <2>1 DEF Charging, Told, Offered
  <2>3. fired' + Cardinality(Charging') <= Len(offered')
    BY <1>3, <1>4, <2>1, <2>2
  <2>4. ASSUME NEW id \in 1..Len(alerts'), alerts'[id] \notin {"none", "suppressed"}
        PROVE  \/ id \in 1..Len(alerts) /\ alerts'[id] = alerts[id]
               \/ Offered(id, alerts'[id])
    <3>1. /\ id \in 1..Len(alerts)
          /\ \/ alerts'[id] = alerts[id]
             \/ id = alert[w].id /\ alerts'[id] = alert[w].lifecycle
      BY <1>4, <2>1
    <3>2. CASE id = alert[w].id /\ alerts'[id] = alert[w].lifecycle
      BY <1>4, <2>1, <2>4, <3>2 DEF Told
    <3> QED
      BY <3>1, <3>2
  <2> QED
    BY <1>1, <2>1, <2>2, <2>3, <2>4, NotifyFrame
<1>9. CASE SaveLifecycle(w)
  <2>1. /\ pc[w] = "lifecycle" /\ offered' = offered /\ fired' = fired /\ alerts' = alerts
        /\ pc'[w] = "usage" /\ alert'[w] = alert[w]
    BY <1>4, <1>9 DEF SaveLifecycle, Goto, local, gateway
  <2>2. (w \in Charging <=> w \in Charging') /\ Told(w)'
    BY <2>1 DEF Charging, Told
  <2>3. fired' + Cardinality(Charging') <= Len(offered')
    BY <1>3, <1>4, <2>1, <2>2
  <2>4. ASSUME NEW k \in Keys, NEW a \in latest'[k], a.lifecycle # "suppressed"
        PROVE  a \in latest[k] \/ Offered(a.id, a.lifecycle)
    <3>1. latest' = latest \/ latest' = [latest EXCEPT ![alert[w].key] = {alert[w]}]
      BY <1>9 DEF SaveLifecycle, SaveAlertLifecycle, Some
    <3>2. latest \in [Keys -> SUBSET Alert]
      BY DEF TypeOK
    <3>3. latest'[k] \subseteq latest[k] \cup {alert[w]}
      BY <3>1, <3>2
    <3>4. a \in latest[k] \/ a = alert[w]
      BY <3>3
    <3> QED
      BY <1>4, <2>1, <2>4, <3>4 DEF Told
  <2> QED
    BY <1>1, <2>1, <2>2, <2>3, <2>4, NotifyFrame
<1>10. CASE RecordUsage(w)
  <2>1. /\ pc[w] = "usage" /\ offered' = offered /\ alerts' = alerts /\ latest' = latest
        /\ pc'[w] = "remember" /\ alert'[w] = alert[w]
        /\ fired' = fired \/ (fired' = fired + 1 /\ alert[w].lifecycle # "suppressed")
    BY <1>4, <1>10 DEF RecordUsage, RecordUsageEvent, Goto, local, gateway
  <2>2. w \notin Charging' /\ Told(w)' /\ (alert[w].lifecycle # "suppressed" => w \in Charging)
    BY <2>1 DEF Charging, Told
  <2>3. fired' + Cardinality(Charging') <= Len(offered')
    BY <1>3, <1>4, <2>1, <2>2
  <2> QED
    BY <1>1, <2>1, <2>2, <2>3, NotifyFrame
<1>11. CASE Crash(w)
  <2>1. /\ offered' = offered /\ alerts' = alerts /\ fired' = fired /\ latest' = latest
        /\ pc'[w] = "detections"
    BY <1>4, <1>11 DEF Crash, Goto, tables, gateway
  <2>2. w \notin Charging' /\ Told(w)'
    BY <2>1 DEF Charging, Told
  <2>3. fired' + Cardinality(Charging') <= Len(offered')
    BY <1>3, <1>4, <2>1, <2>2
  <2> QED
    BY <1>1, <2>1, <2>2, <2>3, NotifyFrame
<1> QED
  BY <1>5, <1>6, <1>7, <1>8, <1>9, <1>10, <1>11, StepCases

\* For what the tables and subscribers know as an alert the notifier was called
\* first, whatever the number of processes, crashes and failed calls, its own
\* included: the order of the calls in dispatch_alert guarantees it.  An alert
\* whose call failed is stored and charged like any other.
THEOREM StoredWasOfferedHolds ==
    Spec => []StoredWasOffered
<1>1. Init => NotifyInv
  <2> SUFFICES ASSUME Init PROVE NotifyInv
    OBVIOUS
  <2>1. Charging = {}
    BY DEF Init, Charging
  <2>2. Cardinality(Charging) = 0
    BY <2>1, FS_EmptySet
  <2> QED
    BY <2>2 DEF Init, NotifyInv, AlertsOffered, RowsOffered, Told
<1>2. TypeOK /\ Shape /\ TypeOK' /\ NotifyInv /\ [Next]_vars => NotifyInv'
  <2> SUFFICES ASSUME TypeOK, Shape, TypeOK', NotifyInv, [Next]_vars PROVE NotifyInv'
    OBVIOUS
  <2>1. ASSUME UNCHANGED <<alerts, latest, fired, offered, pc, alert>> PROVE NotifyInv'
    <3>1. Charging' = Charging
      BY <2>1 DEF Charging
    <3>2. \A v \in Workers : Told(v)'
      BY <2>1 DEF NotifyInv, Told, Offered
    <3>3. AlertsOffered' /\ RowsOffered'
      BY <2>1 DEF NotifyInv, AlertsOffered, RowsOffered, Offered
    <3>4. fired' + Cardinality(Charging') <= Len(offered')
      BY <2>1, <3>1 DEF NotifyInv
    <3> QED
      BY <3>2, <3>3, <3>4 DEF NotifyInv
  <2>2. CASE UNCHANGED vars
    BY <2>1, <2>2 DEF vars, tables, local, gateway
  <2>3. CASE \/ \E d \in DetectionFeed : Detect(d)
             \/ \E k \in Keys, s \in UpdateStates : Finalize([key |-> k, lifecycle |-> s])
    BY <2>1, <2>3, ProducerEffect DEF tables, local, gateway
  <2>4. ASSUME NEW w \in Workers, Step(w) \/ Crash(w) PROVE NotifyInv'
    BY <2>4, NotifyStep
  <2> QED
    BY <2>2, <2>3, <2>4 DEF Next
<1>3. TypeOK /\ NotifyInv => StoredWasOffered
  <2> SUFFICES ASSUME TypeOK, NotifyInv PROVE StoredWasOffered
    OBVIOUS
  <2>1. ASSUME NEW id \in 1..Len(alerts), alerts[id] \notin {"none", "suppressed"}
        PROVE  Delivered(id, alerts[id]) \/ Refused(id, alerts[id])
    BY <2>1, OfferedSplit DEF NotifyInv, AlertsOffered
  <2>2. ASSUME NEW k \in Keys, NEW a \in latest[k], a.lifecycle # "suppressed"
        PROVE  Delivered(a.id, a.lifecycle) \/ Refused(a.id, a.lifecycle)
    BY <2>2, OfferedSplit DEF NotifyInv, RowsOffered
  <2>3. fired <= Len(offered)
    <3>1. IsFiniteSet(Charging)
      BY OrchestratorAssumption, FS_Subset DEF Charging
    <3>2. Cardinality(Charging) \in Nat
      BY <3>1, FS_CardinalityType
    <3> QED
      BY <3>2, Lengths DEF NotifyInv, TypeOK
  <2> QED
    BY <2>1, <2>2, <2>3 DEF StoredWasOffered
<1> QED
  BY <1>1, <1>2, <1>3, ShapeHolds, PTL DEF Spec

-----------------------------------------------------------------------------
(***************************************************************************)
(* The monthly quota, for any number of processes and crashes, as long as  *)
(* no database call fails.                                                 *)
(***************************************************************************)
\* Processes that passed the quota check and have not offered yet.
Cleared == {w \in Workers : pc[w] = "notify" /\ ShouldEnforceMonthlyQuota(alert[w])}

\* Processes that offered and have not recorded the usage event yet.
Unrecorded ==
    {w \in Workers : pc[w] \in {"save", "lifecycle", "usage"} /\ ShouldEnforceMonthlyQuota(alert[w])}

\* The notifications are recorded, about to be, or lost in a crash; and those
\* still to come were cleared when less than the quota was recorded.
QuotaInv ==
    /\ Cardinality(QuotaNotices) <= fired + Cardinality(Unrecorded) + crashes
    /\ Cardinality(QuotaNotices) + Cardinality(Cleared) <= Quota + Cardinality(Workers) - 1 + crashes

\* Disjoint sets of processes.
LEMMA InFlight ==
    ASSUME NEW S, NEW T, S \subseteq Workers, T \subseteq Workers, S \cap T = {}
    PROVE  /\ Cardinality(S) \in Nat /\ Cardinality(T) \in Nat /\ Cardinality(Workers) \in Nat
           /\ Cardinality(S) + Cardinality(T) <= Cardinality(Workers)
<1>1. IsFiniteSet(S) /\ IsFiniteSet(T) /\ IsFiniteSet(Workers) /\ IsFiniteSet(S \cup T)
  BY OrchestratorAssumption, FS_Subset, FS_Union
<1>2. S \cup T \subseteq Workers
  OBVIOUS
<1>3. Cardinality(S \cup T) = Cardinality(S) + Cardinality(T) - Cardinality({})
  BY <1>1, FS_Union
<1>4. Cardinality(S \cup T) <= Cardinality(Workers)
  BY <1>1, <1>2, FS_Subset
<1> QED
  BY <1>1, <1>3, <1>4, FS_EmptySet, FS_CardinalityType

\* Without failing calls every call succeeds.
LEMMA NoFaults ==
    ASSUME ~DbFaults
    PROVE  Ok = {TRUE}
<1>1. (~DbFaults) = TRUE
  BY OrchestratorAssumption
<1> QED
  BY <1>1 DEF Ok

\* Handing an alert to the notifier adds at most one notification that counts.
LEMMA NoticesCount ==
    ASSUME TypeOK
    PROVE  /\ Cardinality(QuotaNotices) \in Nat
           /\ offered' = offered => Cardinality(QuotaNotices') = Cardinality(QuotaNotices)
           /\ \A a \in Alert : offered' = Append(offered, a) =>
                 Cardinality(QuotaNotices') = Cardinality(QuotaNotices)
                                              + IF ShouldEnforceMonthlyQuota(a) THEN 1 ELSE 0
<1>1. offered \in Seq(Alert) /\ Len(offered) \in Nat
  BY Lengths DEF TypeOK
<1>2. IsFiniteSet(QuotaNotices)
  <2>1. IsFiniteSet(1..Len(offered))
    BY <1>1, FS_Interval
  <2> QED
    BY <2>1, FS_Subset DEF QuotaNotices
<1>3. Cardinality(QuotaNotices) \in Nat
  BY <1>2, FS_CardinalityType
<1>4. ASSUME offered' = offered PROVE Cardinality(QuotaNotices') = Cardinality(QuotaNotices)
  <2>1. QuotaNotices' = QuotaNotices
    BY <1>4 DEF QuotaNotices
  <2> QED
    BY <2>1
<1>5. ASSUME NEW a \in Alert, offered' = Append(offered, a)
      PROVE  Cardinality(QuotaNotices') = Cardinality(QuotaNotices)
                                          + IF ShouldEnforceMonthlyQuota(a) THEN 1 ELSE 0
  <2> DEFINE n == Len(offered)
  <2>1. /\ Len(offered') = n + 1 /\ offered'[n + 1] = a
        /\ \A i \in 1..n : offered'[i] = offered[i]
    BY <1>1, <1>5
  <2>2. n + 1 \notin QuotaNotices
    BY <1>1 DEF QuotaNotices
  <2>3. CASE ShouldEnforceMonthlyQuota(a)
    <3>1. QuotaNotices' = QuotaNotices \cup {n + 1}
      BY <1>1, <2>1, <2>3 DEF QuotaNotices
    <3> QED
      BY <1>2, <2>2, <2>3, <3>1, FS_AddElement
  <2>4. CASE ~ShouldEnforceMonthlyQuota(a)
    <3>1. QuotaNotices' = QuotaNotices
      BY <1>1, <2>1, <2>4 DEF QuotaNotices
    <3> QED
      BY <1>3, <2>4, <3>1
  <2> QED
    BY <2>3, <2>4
<1> QED
  BY <1>3, <1>4, <1>5

\* Every step of a process keeps the invariant.
LEMMA QuotaStep ==
    ASSUME TypeOK, Shape, TypeOK', QuotaInv, ~DbFaults, Quota >= 1,
           NEW w \in Workers, Step(w) \/ Crash(w)
    PROVE  QuotaInv'
<1>1. Alone(w)
  BY StepIsLocal
<1>2. /\ Cleared \ {w} = Cleared' \ {w} /\ Cleared \subseteq Workers /\ Cleared' \subseteq Workers
      /\ Unrecorded \ {w} = Unrecorded' \ {w} /\ Unrecorded \subseteq Workers /\ Unrecorded' \subseteq Workers
  BY <1>1 DEF Cleared, Unrecorded, Alone
<1> DEFINE C == Cardinality(Cleared)
           U == Cardinality(Unrecorded)
           N == Cardinality(QuotaNotices)
           W == Cardinality(Workers)
           C1 == Cardinality(Cleared')
           U1 == Cardinality(Unrecorded')
           N1 == Cardinality(QuotaNotices')
<1>3. /\ w \in Cleared /\ w \notin Cleared' => C1 = C - 1
      /\ w \notin Cleared /\ w \in Cleared' => C1 = C + 1
      /\ (w \in Cleared <=> w \in Cleared') => C1 = C
  BY <1>2, CountStep
<1>4. /\ w \in Unrecorded /\ w \notin Unrecorded' => U1 = U - 1
      /\ w \notin Unrecorded /\ w \in Unrecorded' => U1 = U + 1
      /\ (w \in Unrecorded <=> w \in Unrecorded') => U1 = U
  BY <1>2, CountStep
<1>5. C \in Nat /\ U \in Nat /\ W \in Nat /\ C + U <= W
  <2>1. Cleared \cap Unrecorded = {}
    BY DEF Cleared, Unrecorded
  <2> QED
    BY <1>2, <2>1, InFlight
<1>6. C1 \in Nat /\ U1 \in Nat /\ C1 + U1 <= W
  <2>1. Cleared' \cap Unrecorded' = {}
    BY DEF Cleared, Unrecorded
  <2> QED
    BY <1>2, <2>1, InFlight
<1>7. /\ N \in Nat
      /\ offered' = offered => N1 = N
      /\ offered' = Append(offered, alert[w]) =>
            N1 = N + IF ShouldEnforceMonthlyQuota(alert[w]) THEN 1 ELSE 0
  BY NoticesCount DEF TypeOK
<1>8. /\ fired \in Nat /\ crashes \in Nat /\ Quota \in Int
      /\ pc \in [Workers -> PC] /\ alert \in [Workers -> Alert]
      /\ Ok = {TRUE}
  <2>1. crashes \in 0..MaxCrashes /\ MaxCrashes \in Nat
    BY OrchestratorAssumption DEF TypeOK
  <2>2. fired \in Nat /\ pc \in [Workers -> PC] /\ alert \in [Workers -> Alert]
    BY DEF TypeOK
  <2>3. Ok = {TRUE}
    BY NoFaults
  <2> QED
    BY <2>1, <2>2, <2>3, OrchestratorAssumption
<1>9. N <= fired + U + crashes /\ N + C <= Quota + W - 1 + crashes
  BY DEF QuotaInv
<1>10. (N1 <= fired' + U1 + crashes' /\ N1 + C1 <= Quota + W - 1 + crashes') => QuotaInv'
  BY DEF QuotaInv
<1> HIDE DEF C, U, N, W, C1, U1, N1
<1>11. CASE Beside(w)
  <2>1. /\ pc[w] \notin {"notify", "save", "lifecycle", "usage"}
        /\ pc'[w] \notin {"notify", "save", "lifecycle", "usage"}
        /\ offered' = offered /\ fired' = fired /\ crashes' = crashes
    BY <1>11, BesideEffect
  <2>2. w \notin Cleared /\ w \notin Cleared' /\ w \notin Unrecorded /\ w \notin Unrecorded'
    BY <2>1 DEF Cleared, Unrecorded
  <2> QED
    BY <1>3, <1>4, <1>7, <1>9, <1>10, <2>1, <2>2
<1>12. CASE CheckQuota(w)
  <2>1. /\ pc[w] = "quota" /\ offered' = offered /\ fired' = fired /\ crashes' = crashes
        /\ \/ /\ pc'[w] = "notify" /\ alert'[w] = alert[w]
              /\ ~(ShouldEnforceMonthlyQuota(alert[w]) /\ CheckQuotaExceeded)
           \/ pc'[w] = "save" /\ alert'[w] = [alert[w] EXCEPT !.lifecycle = "suppressed"]
    BY <1>8, <1>12 DEF CheckQuota, Goto, tables, gateway
  <2>2. w \notin Cleared /\ w \notin Unrecorded
    BY <2>1 DEF Cleared, Unrecorded
  <2>3. w \notin Unrecorded'
    <3>1. pc'[w] = "save" => alert'[w].lifecycle = "suppressed"
      BY <1>8, <2>1 DEF Alert
    <3> QED
      BY <2>1, <3>1 DEF Unrecorded, ShouldEnforceMonthlyQuota
  <2>4. w \in Cleared' => fired < Quota
    BY <1>8, <2>1 DEF Cleared, CheckQuotaExceeded, MonthlyAlertQuota, FiredThisMonth
  <2>5. CASE w \in Cleared'
    <3>1. N1 = N /\ U1 = U /\ fired' = fired /\ crashes' = crashes /\ fired < Quota
      BY <1>4, <1>7, <2>1, <2>2, <2>3, <2>4, <2>5
    <3>2. N <= fired + U + crashes /\ C1 + U <= W
      BY <1>6, <1>9, <3>1
    <3>3. N1 + C1 <= Quota + W - 1 + crashes
      BY <1>5, <1>6, <1>7, <1>8, <3>1, <3>2
    <3> QED
      BY <1>10, <3>1, <3>2, <3>3
  <2>6. CASE w \notin Cleared'
    BY <1>3, <1>4, <1>7, <1>9, <1>10, <2>1, <2>2, <2>3, <2>6
  <2> QED
    BY <2>5, <2>6
<1>13. CASE Notify(w)
  <2>1. /\ pc[w] = "notify" /\ offered' = Append(offered, alert[w]) /\ fired' = fired
        /\ crashes' = crashes /\ pc'[w] = "save" /\ alert'[w] = alert[w]
    BY <1>8, <1>13 DEF Notify, Goto, tables, local
  <2>2. /\ w \notin Unrecorded /\ w \notin Cleared'
        /\ w \in Cleared <=> ShouldEnforceMonthlyQuota(alert[w])
        /\ w \in Unrecorded' <=> ShouldEnforceMonthlyQuota(alert[w])
    BY <2>1 DEF Cleared, Unrecorded
  <2>3. CASE ShouldEnforceMonthlyQuota(alert[w])
    <3>1. N1 = N + 1 /\ C1 = C - 1 /\ U1 = U + 1 /\ fired' = fired /\ crashes' = crashes
      BY <1>3, <1>4, <1>7, <1>8, <2>1, <2>2, <2>3
    <3>2. N1 <= fired' + U1 + crashes'
      BY <1>5, <1>7, <1>8, <1>9, <3>1
    <3>3. N1 + C1 <= Quota + W - 1 + crashes'
      BY <1>5, <1>7, <1>8, <1>9, <3>1
    <3> QED
      BY <1>10, <3>2, <3>3
  <2>4. CASE ~ShouldEnforceMonthlyQuota(alert[w])
    <3>1. N1 = N /\ C1 = C /\ U1 = U /\ fired' = fired /\ crashes' = crashes
      BY <1>3, <1>4, <1>7, <1>8, <2>1, <2>2, <2>4
    <3>2. N1 <= fired' + U1 + crashes'
      BY <1>5, <1>7, <1>8, <1>9, <3>1
    <3>3. N1 + C1 <= Quota + W - 1 + crashes'
      BY <1>5, <1>7, <1>8, <1>9, <3>1
    <3> QED
      BY <1>10, <3>2, <3>3
  <2> QED
    BY <2>3, <2>4
<1>14. CASE SaveAlert(w) \/ SaveLifecycle(w)
  <2>1. /\ offered' = offered /\ fired' = fired /\ crashes' = crashes /\ alert'[w] = alert[w]
        /\ pc[w] \in {"save", "lifecycle"} /\ pc'[w] \in {"lifecycle", "usage"}
    BY <1>8, <1>14 DEF SaveAlert, SaveLifecycle, Goto, local, gateway
  <2>2. /\ w \notin Cleared /\ w \notin Cleared'
        /\ w \in Unrecorded <=> w \in Unrecorded'
    BY <2>1 DEF Cleared, Unrecorded
  <2> QED
    BY <1>3, <1>4, <1>7, <1>9, <1>10, <2>1, <2>2
<1>15. CASE RecordUsage(w)
  <2>1. /\ pc[w] = "usage" /\ offered' = offered /\ crashes' = crashes
        /\ pc'[w] = "remember" /\ alert'[w] = alert[w]
        /\ fired' = IF alert[w].lifecycle = "suppressed" THEN fired ELSE fired + 1
    BY <1>8, <1>15 DEF RecordUsage, RecordUsageEvent, Goto, local, gateway
  <2>2. /\ w \notin Cleared /\ w \notin Cleared' /\ w \notin Unrecorded'
        /\ w \in Unrecorded => alert[w].lifecycle # "suppressed"
    BY <2>1 DEF Cleared, Unrecorded, ShouldEnforceMonthlyQuota
  <2>3. CASE w \in Unrecorded
    <3>1. N1 = N /\ C1 = C /\ U1 = U - 1 /\ fired' = fired + 1 /\ crashes' = crashes
      BY <1>3, <1>4, <1>7, <1>8, <2>1, <2>2, <2>3
    <3>2. N1 <= fired' + U1 + crashes'
      BY <1>5, <1>7, <1>8, <1>9, <3>1
    <3>3. N1 + C1 <= Quota + W - 1 + crashes'
      BY <1>5, <1>7, <1>8, <1>9, <3>1
    <3> QED
      BY <1>10, <3>2, <3>3
  <2>4. CASE w \notin Unrecorded
    <3>1. N1 = N /\ C1 = C /\ U1 = U /\ fired' \in {fired, fired + 1} /\ crashes' = crashes
      BY <1>3, <1>4, <1>7, <1>8, <2>1, <2>2, <2>4
    <3>2. N1 <= fired' + U1 + crashes'
      <4>1. fired' \in Nat /\ fired <= fired'
        BY <1>8, <3>1
      <4>2. \A n, f, g, u, c \in Nat : n <= f + u + c /\ f <= g => n <= g + u + c
        OBVIOUS
      <4>3. N <= fired' + U + crashes
        BY <1>5, <1>7, <1>8, <1>9, <4>1, <4>2, Zenon
      <4> QED
        BY <3>1, <4>3
    <3>3. N1 + C1 <= Quota + W - 1 + crashes'
      BY <1>5, <1>7, <1>8, <1>9, <3>1
    <3> QED
      BY <1>10, <3>2, <3>3
  <2> QED
    BY <2>3, <2>4
<1>16. CASE Crash(w)
  <2>1. offered' = offered /\ fired' = fired /\ pc'[w] = "detections" /\ crashes' = crashes + 1
    BY <1>8, <1>16 DEF Crash, Goto, tables, gateway
  <2>2. w \notin Cleared' /\ w \notin Unrecorded'
    BY <2>1 DEF Cleared, Unrecorded
  <2>3. U1 >= U - 1 /\ C1 <= C
    BY <1>3, <1>4, <1>5, <2>2
  <2> QED
    BY <1>5, <1>6, <1>7, <1>8, <1>9, <1>10, <2>1, <2>3
<1> QED
  BY <1>11, <1>12, <1>13, <1>14, <1>15, <1>16, StepCases

\* The quota is overshot by at most one alert per process beyond the first and
\* one per crash: for every number of processes, and without a failed call.
THEOREM QuotaOvershootBoundedHolds ==
    Spec => []QuotaOvershootBounded
<1> DEFINE Inv == ~DbFaults /\ Quota >= 1 => QuotaInv
<1>1. Init => Inv
  <2> SUFFICES ASSUME Init, Quota >= 1 PROVE QuotaInv
    OBVIOUS
  <2>1. Cleared = {} /\ Unrecorded = {} /\ QuotaNotices = {}
    BY DEF Init, Cleared, Unrecorded, QuotaNotices
  <2>2. Cardinality(Cleared) = 0 /\ Cardinality(Unrecorded) = 0 /\ Cardinality(QuotaNotices) = 0
    BY <2>1, FS_EmptySet
  <2>3. fired = 0 /\ crashes = 0 /\ Quota \in Int /\ Cardinality(Workers) \in Nat
    BY OrchestratorAssumption, FS_CardinalityType DEF Init
  <2> QED
    BY <2>2, <2>3 DEF QuotaInv
<1>2. TypeOK /\ Shape /\ TypeOK' /\ Inv /\ [Next]_vars => Inv'
  <2> SUFFICES ASSUME TypeOK, Shape, TypeOK', QuotaInv, [Next]_vars, ~DbFaults, Quota >= 1
               PROVE  QuotaInv'
    OBVIOUS
  <2>1. ASSUME UNCHANGED <<fired, offered, pc, alert, crashes>> PROVE QuotaInv'
    <3>1. Cleared' = Cleared /\ Unrecorded' = Unrecorded /\ QuotaNotices' = QuotaNotices
      BY <2>1 DEF Cleared, Unrecorded, QuotaNotices
    <3> QED
      BY <2>1, <3>1 DEF QuotaInv
  <2>2. CASE UNCHANGED vars
    BY <2>1, <2>2 DEF vars, tables, local, gateway
  <2>3. CASE \/ \E d \in DetectionFeed : Detect(d)
             \/ \E k \in Keys, s \in UpdateStates : Finalize([key |-> k, lifecycle |-> s])
    BY <2>1, <2>3, ProducerEffect DEF tables, local
  <2>4. ASSUME NEW w \in Workers, Step(w) \/ Crash(w) PROVE QuotaInv'
    BY <2>4, QuotaStep
  <2> QED
    BY <2>2, <2>3, <2>4 DEF Next
<1>3. TypeOK /\ Inv => QuotaOvershootBounded
  <2> SUFFICES ASSUME TypeOK, QuotaInv PROVE Cardinality(QuotaNotices) <= Quota + Cardinality(Workers) - 1 + crashes
    BY DEF QuotaOvershootBounded
  <2>1. Cardinality(QuotaNotices) \in Nat /\ Cardinality(Cleared) \in Nat
    <3>1. Cleared \subseteq Workers
      BY DEF Cleared
    <3> QED
      BY <3>1, NoticesCount, OrchestratorAssumption, FS_Subset, FS_CardinalityType
  <2>2. Quota + Cardinality(Workers) - 1 + crashes \in Int
    BY OrchestratorAssumption, FS_CardinalityType DEF TypeOK
  <2> QED
    BY <2>1, <2>2 DEF QuotaInv
<1> HIDE DEF Inv
<1> QED
  BY <1>1, <1>2, <1>3, ShapeHolds, PTL DEF Spec

-----------------------------------------------------------------------------
(***************************************************************************)
(* One process, whose calls do not fail: the cache and the table agree.    *)
(***************************************************************************)
\* The alert that was just stored is the newest row of its key; what is cached
\* of any other key is its newest row.
Stored(w) == pc[w] \in {"usage", "remember"}

CacheInv(w) ==
    /\ Stored(w) => latest[alert[w].key] = {alert[w]}
    /\ \A k \in Keys : cache[w][k] # {} /\ ~(Stored(w) /\ k = alert[w].key)
                       => cache[w][k] = latest[k]

\* Every step keeps it.
LEMMA CacheStep ==
    ASSUME NEW w, Workers = {w}, ~DbFaults, TypeOK, Shape, CacheInv(w), [Next]_vars
    PROVE  CacheInv(w)'
<1>1. /\ w \in Workers /\ pc \in [Workers -> PC] /\ Ok = {TRUE}
      /\ alert \in [Workers -> Alert] /\ alert[w] \in Alert /\ alert[w].key \in Keys
      /\ latest \in [Keys -> SUBSET Alert]
  BY NoFaults DEF TypeOK, Alert
<1>2. ASSUME UNCHANGED <<latest, cache>>, ~Stored(w), ~Stored(w)' PROVE CacheInv(w)'
  BY <1>2 DEF CacheInv
<1>3. ASSUME UNCHANGED <<latest, cache, pc, alert>> PROVE CacheInv(w)'
  BY <1>3 DEF CacheInv, Stored
<1>4. CASE UNCHANGED vars
  BY <1>3, <1>4 DEF vars, tables, local
<1>5. CASE \/ \E d \in DetectionFeed : Detect(d)
           \/ \E k \in Keys, s \in UpdateStates : Finalize([key |-> k, lifecycle |-> s])
  BY <1>3, <1>5, ProducerEffect DEF tables, local
<1>6. CASE ReadDetections(w) \/ ReadUpdates(w) \/ BatchDone(w)
  BY <1>1, <1>2, <1>6 DEF ReadDetections, ReadUpdates, BatchDone, Goto, tables, local, Stored
<1>7. CASE TakeDetection(w)
  BY <1>1, <1>2, <1>7 DEF TakeDetection, AckEntry, Goto, Stored
<1>8. CASE TakeUpdate(w)
  BY <1>1, <1>2, <1>8 DEF TakeUpdate, AckEntry, Goto, tables, Stored
<1>9. CASE FindIncident(w) \/ CreateIncident(w) \/ UpdateIncident(w)
  BY <1>1, <1>2, <1>9 DEF FindIncident, CreateIncident, UpdateIncident, Goto, tables, local, Stored
<1>10. CASE CheckQuota(w) \/ Notify(w) \/ SaveAlert(w)
  BY <1>1, <1>2, <1>10 DEF CheckQuota, Notify, SaveAlert, Goto, tables, local, Stored
<1>11. CASE FindDuplicate(w)
  <2> DEFINE dup(young) == {a \in latest[alert[w].key] : ShouldSuppressDuplicate(alert[w], a, young)}
  <2>1. /\ UNCHANGED <<latest, cache>> /\ pc[w] = "dedup"
        /\ \/ pc' = [pc EXCEPT ![w] = "quota"]
           \/ \E young \in InWindow : /\ dup(young) # {} /\ alert' = [alert EXCEPT ![w] = The(dup(young))]
                                      /\ pc' = [pc EXCEPT ![w] = "remember"]
    BY <1>1, <1>11 DEF FindDuplicate, Goto, FindLatestAlertByEventKey, tables
  <2>2. CASE pc' = [pc EXCEPT ![w] = "quota"]
    BY <1>1, <1>2, <2>1, <2>2 DEF Stored
  <2>3. ASSUME NEW young \in InWindow, dup(young) # {}, alert' = [alert EXCEPT ![w] = The(dup(young))],
               pc' = [pc EXCEPT ![w] = "remember"]
        PROVE  CacheInv(w)'
    <3>1. alert'[w] \in latest[alert[w].key]
      BY <1>1, <2>3 DEF The
    <3>2. Cell(latest[alert[w].key], alert[w].key, Len(alerts), Len(incidents))
      BY <1>1 DEF Shape
    <3>3. latest[alert[w].key] = {alert'[w]} /\ alert'[w].key = alert[w].key
      BY <3>1, <3>2 DEF Cell
    <3>4. latest'[alert'[w].key] = {alert'[w]}
      BY <2>1, <3>3
    <3>5. ~Stored(w)
      BY <2>1 DEF Stored
    <3> QED
      BY <2>1, <3>4, <3>5 DEF CacheInv
  <2> QED
    BY <2>1, <2>2, <2>3
<1>12. CASE SaveLifecycle(w)
  <2>1. /\ pc[w] = "lifecycle" /\ latest' = [latest EXCEPT ![alert[w].key] = {alert[w]}]
        /\ UNCHANGED <<alert, cache>>
    BY <1>1, <1>12 DEF SaveLifecycle, SaveAlertLifecycle, Some, local
  <2>2. ~Stored(w) /\ latest'[alert[w].key] = {alert[w]}
        /\ \A k \in Keys : k # alert[w].key => latest'[k] = latest[k]
    BY <1>1, <2>1 DEF Stored
  <2>3. pc'[w] = "usage"
    BY <1>1, <1>12 DEF SaveLifecycle, Goto
  <2> QED
    BY <2>1, <2>2, <2>3 DEF CacheInv, Stored
<1>13. CASE RecordUsage(w)
  <2>1. pc[w] = "usage" /\ pc'[w] = "remember" /\ UNCHANGED <<latest, alert, cache>>
    BY <1>1, <1>13 DEF RecordUsage, Goto, local
  <2> QED
    BY <2>1 DEF CacheInv, Stored
<1>14. CASE Remember(w)
  <2>1. latest' = latest /\ pc[w] = "remember" /\ pc'[w] \in {"detection", "update"}
    BY <1>1, <1>14 DEF Remember, AckEntry, Goto, tables
  <2>2. \A k \in Keys : \/ cache'[w][k] = {}
                        \/ k = alert[w].key /\ cache'[w][k] = {alert[w]}
                        \/ k # alert[w].key /\ cache'[w][k] = cache[w][k]
    BY <1>1, <1>14, RememberEffect
  <2>3. Stored(w) /\ ~Stored(w)'
    BY <2>1 DEF Stored
  <2> QED
    BY <2>1, <2>2, <2>3 DEF CacheInv
<1>15. CASE Crash(w)
  <2>1. /\ pc' = [pc EXCEPT ![w] = "detections"] /\ cache' = [cache EXCEPT ![w] = [k \in Keys |-> {}]]
    BY <1>15 DEF Crash, Goto
  <2>2. ~Stored(w)' /\ \A k \in Keys : cache'[w][k] = {}
    BY <1>1, <2>1 DEF Stored, TypeOK
  <2> QED
    BY <2>2 DEF CacheInv
<1> QED
  BY <1>4, <1>5, <1>6, <1>7, <1>8, <1>9, <1>10, <1>11, <1>12, <1>13, <1>14, <1>15 DEF Next, Step

\* One process whose calls do not fail remembers, of every key, the newest row
\* of the key or nothing, whatever it crashes in between and whatever the cache
\* drops: a finality update is applied to the state the tables hold.
THEOREM CacheIsLatestHolds ==
    ASSUME NEW CONSTANT w, Workers = {w}, ~DbFaults
    PROVE  Spec => []CacheIsLatest
<1>1. Init => CacheInv(w)
  BY DEF Init, CacheInv, Stored
<1>2. TypeOK /\ Shape /\ CacheInv(w) /\ [Next]_vars => CacheInv(w)'
  BY CacheStep
<1>3. CacheInv(w) => CacheIsLatest
  BY DEF CacheInv, CacheIsLatest, Idle, Stored
<1> QED
  BY <1>1, <1>2, <1>3, ShapeHolds, PTL DEF Spec

-----------------------------------------------------------------------------
(***************************************************************************)
(* One process that neither crashes nor sees a failed call: the incidents. *)
(***************************************************************************)
\* An incident that was never closed is open, except while its first update is
\* still to come; before one is created there is none to find.
IncidentInv(w) ==
    /\ OneOpenIncident
    /\ pc[w] = "create" =>
          \A i \in 1..Len(incidents) : incidents[i].subject = SubjectOf[alert[w].key] => ~Open(i)
    /\ \A i \in 1..Len(incidents) :
          incidents[i].closed \/ Open(i) \/ (pc[w] = "incident" /\ alert[w].incident = i)
    /\ \A i \in 1..Len(incidents) : incidents[i].status # "absent"

\* Every step keeps it.
LEMMA IncidentStep ==
    ASSUME NEW w, Workers = {w}, ~DbFaults, MaxCrashes = 0, TypeOK, Shape, IncidentInv(w), [Next]_vars
    PROVE  IncidentInv(w)'
<1> DEFINE Incident == [subject : Subjects, closed : BOOLEAN,
                        status : {"triggered", "active", "absent"} \cup Terminal]
<1>1. /\ w \in Workers /\ pc \in [Workers -> PC] /\ Ok = {TRUE}
      /\ alert \in [Workers -> Alert] /\ alert[w] \in Alert /\ alert[w].key \in Keys
      /\ Len(incidents) \in Nat /\ incidents \in Seq(Incident)
      /\ goal[w] \in [status : {"triggered", "active"} \cup Terminal, closes : BOOLEAN]
  BY NoFaults, Lengths DEF TypeOK, Alert
<1> HIDE DEF Incident
<1>2. ASSUME UNCHANGED <<incidents, pc, alert>> PROVE IncidentInv(w)'
  BY <1>2 DEF IncidentInv, OneOpenIncident, Open
<1>3. ASSUME incidents' = incidents, pc[w] # "incident", pc'[w] # "create" PROVE IncidentInv(w)'
  <2>1. OneOpenIncident'
    BY <1>3 DEF IncidentInv, OneOpenIncident
  <2> QED
    BY <1>3, <2>1 DEF IncidentInv, Open
<1>4. CASE UNCHANGED vars
  BY <1>2, <1>4 DEF vars, tables, local
<1>5. CASE \/ \E d \in DetectionFeed : Detect(d)
           \/ \E k \in Keys, s \in UpdateStates : Finalize([key |-> k, lifecycle |-> s])
  BY <1>2, <1>5, ProducerEffect DEF tables, local
<1>6. CASE ReadDetections(w) \/ ReadUpdates(w) \/ BatchDone(w)
  BY <1>1, <1>3, <1>6 DEF ReadDetections, ReadUpdates, BatchDone, Goto, tables
<1>7. CASE TakeDetection(w)
  BY <1>1, <1>3, <1>7 DEF TakeDetection, AckEntry, Goto
<1>8. CASE TakeUpdate(w)
  BY <1>1, <1>3, <1>8 DEF TakeUpdate, AckEntry, Goto, tables
<1>9. CASE FindIncident(w)
  <2> DEFINE open == {i \in 1..Len(incidents) : Open(i) /\ incidents[i].subject = SubjectOf[alert[w].key]}
  <2>1. /\ incidents' = incidents /\ pc[w] = "find"
        /\ \/ open = {} /\ pc'[w] = "create" /\ alert' = alert
           \/ pc'[w] = "incident"
    BY <1>1, <1>9 DEF FindIncident, Goto, tables
  <2>2. CASE pc'[w] = "incident"
    BY <1>3, <2>1, <2>2
  <2>3. CASE open = {} /\ pc'[w] = "create" /\ alert' = alert
    <3>1. OneOpenIncident'
      BY <2>1 DEF IncidentInv, OneOpenIncident
    <3> QED
      BY <2>1, <2>3, <3>1 DEF IncidentInv, Open
  <2> QED
    BY <2>1, <2>2, <2>3
<1>10. CASE CreateIncident(w)
  <2> DEFINE new == [subject |-> SubjectOf[alert[w].key], status |-> goal[w].status, closed |-> FALSE]
             n == Len(incidents)
  <2>1. /\ pc[w] = "create" /\ incidents' = Append(incidents, new)
        /\ pc'[w] = "incident" /\ alert' = [alert EXCEPT ![w].incident = n + 1]
    BY <1>1, <1>10 DEF CreateIncident, Goto
  <2>2. new \in Incident /\ new.subject = SubjectOf[alert[w].key] /\ new.status # "absent"
    BY <1>1, OrchestratorAssumption DEF Incident, Terminal
  <2> HIDE DEF new
  <2>3. /\ Len(incidents') = n + 1 /\ incidents'[n + 1] = new
        /\ \A i \in 1..n : incidents'[i] = incidents[i]
    BY <1>1, <2>1, <2>2
  <2>4. alert'[w].incident = n + 1
    BY <1>1, <2>1 DEF Alert
  <2>5. \A i \in 1..n : incidents[i].subject = new.subject => incidents[i].closed
    BY <2>1, <2>2 DEF IncidentInv
  <2>6. \A i \in 1..Len(incidents') : i = n + 1 \/ i \in 1..n
    BY <1>1, <2>3
  <2>7. OneOpenIncident'
    <3> SUFFICES ASSUME NEW i \in 1..Len(incidents'), NEW j \in 1..Len(incidents'),
                        incidents'[i].subject = incidents'[j].subject,
                        \A x \in {i, j} : ~incidents'[x].closed /\ incidents'[x].status # "absent"
                 PROVE  i = j
      BY DEF OneOpenIncident
    <3>1. CASE i \in 1..n /\ j \in 1..n
      BY <2>3, <3>1 DEF IncidentInv, OneOpenIncident
    <3>2. CASE i = n + 1 \/ j = n + 1
      BY <2>3, <2>5, <2>6, <3>2
    <3> QED
      BY <2>6, <3>1, <3>2
  <2>8. ASSUME NEW i \in 1..Len(incidents')
        PROVE  /\ incidents'[i].closed \/ Open(i)' \/ alert'[w].incident = i
               /\ incidents'[i].status # "absent"
    <3>1. CASE i = n + 1
      BY <2>2, <2>3, <2>4, <3>1
    <3>2. CASE i \in 1..n
      BY <2>1, <2>3, <3>2 DEF IncidentInv, Open
    <3> QED
      BY <2>6, <3>1, <3>2
  <2> QED
    BY <2>1, <2>7, <2>8 DEF IncidentInv
<1>11. CASE UpdateIncident(w)
  <2> DEFINE n == alert[w].incident
             s == goal[w].status
             c == goal[w].closes
  <2>1. n \in 1..Len(incidents) /\ pc[w] = "incident" /\ (s \in Terminal => c)
    BY <1>1, <1>11 DEF UpdateIncident, Shape, Local, NoIncident
  <2>2. /\ incidents[n].status # "absent" /\ pc' = [pc EXCEPT ![w] = "dedup"]
        /\ incidents' = [incidents EXCEPT ![n].status = s, ![n].closed = @ \/ c]
    BY <1>1, <1>11, <2>1 DEF UpdateIncident, Goto, IncidentInv
  <2>3. s \in {"triggered", "active"} \cup Terminal /\ c \in BOOLEAN
    BY <1>1
  <2> DEFINE new == [incidents[n] EXCEPT !.status = s, !.closed = incidents[n].closed \/ c]
  <2>3a. incidents' = [incidents EXCEPT ![n] = new]
    BY <1>1, <2>1, <2>2 DEF Incident
  <2> HIDE DEF n, s, c, new
  <2>4. /\ Len(incidents') = Len(incidents)
        /\ \A i \in 1..Len(incidents) : i # n => incidents'[i] = incidents[i]
    BY <1>1, <2>1, <2>3a
  <2>5. /\ incidents'[n].status = s /\ incidents'[n].subject = incidents[n].subject
        /\ incidents'[n].closed <=> (incidents[n].closed \/ c)
    <3>1. incidents[n] \in Incident
      BY <1>1, <2>1
    <3>2. incidents'[n] = new
      BY <1>1, <2>1, <2>3a
    <3>3. new.status = s /\ new.subject = incidents[n].subject
      BY <3>1 DEF Incident, new
    <3>4. new.closed = (incidents[n].closed \/ c)
      BY <3>1 DEF Incident, new
    <3> QED
      BY <3>2, <3>3, <3>4
  <2>6. OneOpenIncident'
    <3> SUFFICES ASSUME NEW i \in 1..Len(incidents'), NEW j \in 1..Len(incidents'),
                        incidents'[i].subject = incidents'[j].subject,
                        \A x \in {i, j} : ~incidents'[x].closed /\ incidents'[x].status # "absent"
                 PROVE  i = j
      BY DEF OneOpenIncident
    <3>1. \A x \in {i, j} : /\ incidents[x].subject = incidents'[x].subject
                            /\ ~incidents[x].closed /\ incidents[x].status # "absent"
      BY <2>2, <2>4, <2>5
    <3> QED
      BY <2>4, <3>1 DEF IncidentInv, OneOpenIncident
  <2>7. ASSUME NEW i \in 1..Len(incidents')
        PROVE  (incidents'[i].closed \/ Open(i)') /\ incidents'[i].status # "absent"
    <3>1. CASE i = n
      BY <2>1, <2>3, <2>5, <3>1 DEF Open, Terminal
    <3>2. CASE i # n
      <4>1. i \in 1..Len(incidents) /\ incidents'[i] = incidents[i] /\ alert[w].incident # i
        BY <2>4, <3>2 DEF n
      <4> QED
        BY <4>1 DEF IncidentInv, Open
    <3> QED
      BY <3>1, <3>2
  <2>8. pc'[w] = "dedup"
    BY <1>1, <2>2
  <2> QED
    BY <2>6, <2>7, <2>8 DEF IncidentInv
<1>12. CASE FindDuplicate(w)
  BY <1>1, <1>3, <1>12 DEF FindDuplicate, AckEntry, Goto, tables
<1>13. CASE CheckQuota(w) \/ Notify(w) \/ SaveAlert(w) \/ SaveLifecycle(w) \/ RecordUsage(w)
  BY <1>1, <1>3, <1>13 DEF CheckQuota, Notify, SaveAlert, SaveLifecycle, RecordUsage, Goto, tables
<1>14. CASE Remember(w)
  BY <1>1, <1>3, <1>14 DEF Remember, AckEntry, Goto, tables
<1>15. ~Crash(w)
  BY OrchestratorAssumption DEF Crash, TypeOK
<1> QED
  BY <1>4, <1>5, <1>6, <1>7, <1>8, <1>9, <1>10, <1>11, <1>12, <1>13, <1>14, <1>15 DEF Next, Step

\* One process that runs without crashes and failed calls never has two
\* incidents of a subject that were not closed.  A crash between create_incident
\* and the update, or a second process between find and create, breaks it.
THEOREM OneOpenIncidentHolds ==
    ASSUME NEW CONSTANT w, Workers = {w}, ~DbFaults, MaxCrashes = 0
    PROVE  Spec => []OneOpenIncident
<1>1. Init => IncidentInv(w)
  BY DEF Init, IncidentInv, OneOpenIncident
<1>2. TypeOK /\ Shape /\ IncidentInv(w) /\ [Next]_vars => IncidentInv(w)'
  BY IncidentStep
<1>3. IncidentInv(w) => OneOpenIncident
  BY DEF IncidentInv
<1> QED
  BY <1>1, <1>2, <1>3, ShapeHolds, PTL DEF Spec

-----------------------------------------------------------------------------
(***************************************************************************)
(* One process, which may crash and whose calls may fail: the order of     *)
(* finality updates.                                                       *)
(***************************************************************************)
\* The process has a batch of finality updates in its hands.
OnUpdate(w) == pc[w] = "update" \/ (~Idle(w) /\ inbox[w] \in Seq(Update))

\* The updates it has taken up so far, the one it works on included.
Done(w) ==
    IF pc[w] = "update" THEN nextUpd - Len(inbox[w])
    ELSE IF OnUpdate(w) THEN nextUpd - Len(inbox[w]) + 1 ELSE nextUpd

\* The alert at hand is not yet the newest row.
Before(w) == ~Idle(w) /\ pc[w] \notin {"usage", "remember"}

\* The batch is the part of the stream that was read last.
BatchIsSuffix(w) ==
    OnUpdate(w) => /\ Len(inbox[w]) <= nextUpd
                   /\ \A i \in 1..Len(inbox[w]) : inbox[w][i] = updates[nextUpd - Len(inbox[w]) + i]

\* A key whose newest row says retracted had its retraction taken up.
RetractionSeen(w) ==
    \A k \in Keys : \A a \in latest[k] : a.lifecycle = "retracted" =>
        \E j \in 1..Done(w) : updates[j].key = k /\ updates[j].lifecycle = "retracted"

\* The alert at hand says what its update says, or has a fresh id.
AlertFollows(w) ==
    Before(w) =>
        IF OnUpdate(w)
        THEN /\ alert[w].key = Head(inbox[w]).key
             /\ \/ alert[w].lifecycle = Head(inbox[w]).lifecycle
                \/ alert[w].lifecycle = "suppressed" /\ Head(inbox[w]).lifecycle # "retracted"
        ELSE /\ alert[w].lifecycle # "retracted"
             /\ \A k \in Keys : \A a \in latest[k] : a.id # alert[w].id

OrderInv(w) == BatchIsSuffix(w) /\ RetractionSeen(w) /\ AlertFollows(w)

\* The entry at hand is the update at position Done(w).
LEMMA HeadIsDone ==
    ASSUME TypeOK, Shape, NEW w \in Workers, BatchIsSuffix(w), OnUpdate(w), inbox[w] # <<>>
    PROVE  /\ inbox[w] \in Seq(Update) /\ Len(inbox[w]) \in Nat \ {0}
           /\ Head(inbox[w]) \in Update
           /\ nextUpd - Len(inbox[w]) + 1 \in 1..Len(updates)
           /\ Head(inbox[w]) = updates[nextUpd - Len(inbox[w]) + 1]
<1>1. inbox[w] \in Seq(Update) /\ nextUpd \in Nat /\ nextUpd <= Len(updates) /\ Len(updates) \in Nat
  BY Lengths DEF OnUpdate, Shape, Local, TypeOK
<1>2. Len(inbox[w]) \in Nat \ {0} /\ Head(inbox[w]) = inbox[w][1] /\ Head(inbox[w]) \in Update
  BY <1>1
<1>3. Len(inbox[w]) <= nextUpd /\ inbox[w][1] = updates[nextUpd - Len(inbox[w]) + 1]
  BY <1>2 DEF BatchIsSuffix
<1>4. \A n \in Nat \ {0}, m, l \in Nat : n <= m /\ m <= l => m - n + 1 \in 1..l
  OBVIOUS
<1>5. nextUpd - Len(inbox[w]) + 1 \in 1..Len(updates)
  BY <1>1, <1>2, <1>3, <1>4, Zenon
<1> QED
  BY <1>1, <1>2, <1>3, <1>5

\* What was taken up stays so.
LEMMA SeenStays ==
    ASSUME NEW w, RetractionSeen(w), latest' = latest,
           Done(w) \in Int, Done(w)' \in Int, Done(w) <= Done(w)',
           \A j \in 1..Done(w) : updates'[j] = updates[j]
    PROVE  RetractionSeen(w)'
<1> SUFFICES ASSUME NEW k \in Keys, NEW a \in latest'[k], a.lifecycle = "retracted"
             PROVE  \E j \in 1..Done(w)' : updates'[j].key = k /\ updates'[j].lifecycle = "retracted"
  BY DEF RetractionSeen
<1>1. PICK j \in 1..Done(w) : updates[j].key = k /\ updates[j].lifecycle = "retracted"
  BY DEF RetractionSeen
<1>2. j \in 1..Done(w)' /\ updates'[j] = updates[j]
  OBVIOUS
<1> QED
  BY <1>1, <1>2

\* A step within the processing of an entry, before or after the row is stored.
LEMMA OrderInner ==
    ASSUME TypeOK, Shape, NEW w \in Workers, OrderInv(w), ~Idle(w), ~Idle(w)',
           UNCHANGED <<updates, nextUpd, latest>>, inbox'[w] = inbox[w],
           Before(w)' => /\ Before(w) /\ alert'[w].key = alert[w].key /\ alert'[w].id = alert[w].id
                         /\ \/ alert'[w].lifecycle = alert[w].lifecycle
                            \/ /\ alert'[w].lifecycle = "suppressed"
                               /\ alert[w].lifecycle \in {"provisional", "confirmed"}
    PROVE  OrderInv(w)'
<1>1. OnUpdate(w)' <=> OnUpdate(w)
  BY DEF OnUpdate, Idle
<1>2. Done(w)' = Done(w)
  BY <1>1 DEF Done, Idle
<1>3. BatchIsSuffix(w)'
  BY <1>1 DEF OrderInv, BatchIsSuffix
<1>4. RetractionSeen(w)'
  BY <1>2 DEF OrderInv, RetractionSeen
<1>5. AlertFollows(w)'
  BY <1>1 DEF OrderInv, AlertFollows
<1> QED
  BY <1>3, <1>4, <1>5 DEF OrderInv

\* Acknowledging an entry.
LEMMA OrderAck ==
    ASSUME TypeOK, Shape, NEW w \in Workers, OrderInv(w), AckEntry(w), inbox[w] # <<>>,
           pc[w] \in {"detection", "update"} \/ ~Idle(w),
           UNCHANGED <<updates, nextUpd, latest>>
    PROVE  OrderInv(w)'
<1>1. /\ inbox[w] \in Seq(Detection) \/ inbox[w] \in Seq(Update)
      /\ pc[w] = "detection" => inbox[w] \in Seq(Detection)
      /\ pc[w] = "update" => inbox[w] \in Seq(Update)
  BY DEF Shape, Local
<1>2. /\ inbox[w] \in Seq(Detection) => pc'[w] = "detection"
      /\ inbox[w] \in Seq(Update) => pc'[w] = "update"
      /\ inbox'[w] = Tail(inbox[w])
  BY AckEffect
<1>3. pc'[w] \in {"detection", "update"} /\ Idle(w)' /\ ~Before(w)'
  BY <1>1, <1>2 DEF Idle, Before
<1>4. AlertFollows(w)'
  BY <1>3 DEF AlertFollows
<1>5. CASE pc'[w] = "detection"
  <2>1. inbox[w] \in Seq(Detection) /\ inbox[w] \notin Seq(Update)
    <3>1. ~(inbox[w] \in Seq(Update))
      BY <1>2, <1>5
    <3> QED
      BY <1>1, <3>1
  <2>2. ~OnUpdate(w) /\ ~OnUpdate(w)' /\ pc[w] # "update" /\ pc'[w] # "update"
    BY <1>1, <1>3, <1>5, <2>1 DEF OnUpdate
  <2>3. BatchIsSuffix(w)'
    BY <2>2 DEF BatchIsSuffix
  <2>4. RetractionSeen(w)'
    BY <2>2 DEF OrderInv, RetractionSeen, Done
  <2> QED
    BY <1>4, <2>3, <2>4 DEF OrderInv
<1>6. CASE pc'[w] = "update"
  <2>1. inbox[w] \in Seq(Update)
    BY <1>1, <1>2, <1>6
  <2>2. OnUpdate(w) /\ OnUpdate(w)'
    <3>1. pc[w] # "detection"
      BY <1>1, <1>2, <1>6
    <3> QED
      BY <1>6, <2>1, <3>1 DEF OnUpdate, Idle
  <2> DEFINE n == Len(inbox[w])
  <2>3. /\ n \in Nat \ {0} /\ nextUpd \in Nat /\ n <= nextUpd /\ Len(inbox'[w]) = n - 1
        /\ \A i \in 1..n - 1 : inbox'[w][i] = inbox[w][i + 1]
    BY <1>2, <2>1, <2>2, Lengths DEF TypeOK, OrderInv, BatchIsSuffix
  <2>4. \A i \in 1..n : inbox[w][i] = updates[nextUpd - n + i]
    BY <2>2 DEF OrderInv, BatchIsSuffix
  <2> HIDE DEF n
  <2>5. \A i \in 1..n - 1 : inbox'[w][i] = updates[nextUpd - (n - 1) + i]
    <3> SUFFICES ASSUME NEW i \in 1..n - 1 PROVE inbox'[w][i] = updates[nextUpd - (n - 1) + i]
      OBVIOUS
    <3>1. i + 1 \in 1..n /\ nextUpd - n + (i + 1) = nextUpd - (n - 1) + i
      BY <2>3
    <3>2. inbox'[w][i] = inbox[w][i + 1]
      BY <2>3
    <3>3. inbox[w][i + 1] = updates[nextUpd - n + (i + 1)]
      BY <2>4, <3>1
    <3> QED
      BY <3>1, <3>2, <3>3
  <2>6. BatchIsSuffix(w)'
    BY <2>3, <2>5 DEF BatchIsSuffix
  <2>7. /\ Done(w)' = nextUpd - (n - 1)
        /\ Done(w) \in {nextUpd - n, nextUpd - n + 1}
    BY <1>6, <2>2, <2>3 DEF Done, n
  <2>8. RetractionSeen(w)'
    BY <2>3, <2>7, SeenStays DEF OrderInv
  <2> QED
    BY <1>4, <2>6, <2>8 DEF OrderInv
<1> QED
  BY <1>3, <1>5, <1>6

\* Taking a detection: the id is fresh and the lifecycle not retracted.
LEMMA OrderDetection ==
    ASSUME TypeOK, Shape, NEW w \in Workers, OrderInv(w), TakeDetection(w)
    PROVE  OrderInv(w)'
<1> DEFINE d == Head(inbox[w])
<1>1. /\ pc[w] = "detection" /\ inbox[w] # <<>> /\ UNCHANGED <<updates, nextUpd, latest>>
  BY DEF TakeDetection, streams
<1>2. inbox[w] \in Seq(Detection) /\ d \in Detection
  BY <1>1 DEF Shape, Local
<1>3. CASE ~d.usable
  BY <1>1, <1>3, OrderAck DEF TakeDetection
<1>4. CASE d.usable
  <2> DEFINE a == AlertFromDetection(Len(alerts) + 1, d)
  <2>1. pc'[w] = "find" /\ inbox'[w] = inbox[w] /\ alert'[w] = a
    BY <1>4 DEF TakeDetection, Goto, TypeOK
  <2>2. a.lifecycle # "retracted" /\ a.id = Len(alerts) + 1
    BY <1>2 DEF AlertFromDetection, Detection
  <2>3. \A k \in Keys : \A b \in latest'[k] : b.id # a.id
    BY <1>1, <2>2, Lengths DEF Shape, Cell, Row
  <2>4. inbox[w] \notin Seq(Update)
    <3>1. d \notin Update
      BY <1>2, EntryKind
    <3> QED
      BY <1>1, <3>1
  <2>5. ~OnUpdate(w) /\ ~OnUpdate(w)' /\ pc[w] # "update" /\ pc'[w] # "update"
    BY <1>1, <2>1, <2>4 DEF OnUpdate, Idle
  <2>6. BatchIsSuffix(w)'
    BY <1>1, <2>5 DEF BatchIsSuffix
  <2>7. RetractionSeen(w)'
    BY <1>1, <2>5 DEF OrderInv, RetractionSeen, Done
  <2>8. AlertFollows(w)'
    BY <2>1, <2>2, <2>3, <2>5 DEF AlertFollows
  <2> QED
    BY <2>6, <2>7, <2>8 DEF OrderInv
<1> QED
  BY <1>3, <1>4

\* Taking an update: the alert gets its key and its state from it.
LEMMA OrderUpdate ==
    ASSUME TypeOK, Shape, NEW w \in Workers, OrderInv(w), TakeUpdate(w)
    PROVE  OrderInv(w)'
<1> DEFINE u == Head(inbox[w])
<1>1. /\ pc[w] = "update" /\ inbox[w] # <<>> /\ UNCHANGED <<updates, nextUpd, latest>>
  BY DEF TakeUpdate, streams, tables
<1>2. inbox[w] \in Seq(Update) /\ u \in Update
  BY <1>1 DEF Shape, Local
<1>3. \/ AckEntry(w)
      \/ \E e \in {cache[w][u.key], latest[u.key]} :
            /\ e # {} /\ alert' = [alert EXCEPT ![w] = [The(e) EXCEPT !.lifecycle = u.lifecycle]]
            /\ pc' = [pc EXCEPT ![w] = IF The(e).incident # NoIncident THEN "incident" ELSE "dedup"]
            /\ inbox' = inbox
  BY DEF TakeUpdate, Goto, FindLatestAlertByEventKey
<1>4. CASE AckEntry(w)
  BY <1>1, <1>4, OrderAck
<1>5. ASSUME NEW e \in {cache[w][u.key], latest[u.key]}, e # {},
             alert' = [alert EXCEPT ![w] = [The(e) EXCEPT !.lifecycle = u.lifecycle]],
             pc' = [pc EXCEPT ![w] = IF The(e).incident # NoIncident THEN "incident" ELSE "dedup"],
             inbox' = inbox
      PROVE  OrderInv(w)'
  <2>1. Cell(e, u.key, Len(alerts), Len(incidents))
    BY <1>2 DEF Shape, Local, Update
  <2>2. The(e) \in Alert /\ The(e).key = u.key
    BY <1>5, <2>1, TheOne
  <2>3. alert'[w].key = u.key /\ alert'[w].lifecycle = u.lifecycle
    BY <1>5, <2>2 DEF Alert, TypeOK
  <2>4. pc'[w] \in {"incident", "dedup"}
    BY <1>5 DEF TypeOK
  <2>5. OnUpdate(w) /\ OnUpdate(w)' /\ pc'[w] # "update"
    BY <1>1, <1>2, <1>5, <2>4 DEF OnUpdate, Idle
  <2>6. BatchIsSuffix(w)'
    BY <1>1, <1>5, <2>5 DEF OrderInv, BatchIsSuffix
  <2>7. /\ Done(w) = nextUpd - Len(inbox[w]) /\ Done(w)' = nextUpd - Len(inbox[w]) + 1
        /\ nextUpd \in Int /\ Len(inbox[w]) \in Int
    BY <1>1, <1>2, <1>5, <2>5, Lengths DEF Done, TypeOK
  <2>8. RetractionSeen(w)'
    <3>1. Done(w) \in Int /\ Done(w)' \in Int /\ Done(w) <= Done(w)'
      BY <2>7
    <3> QED
      BY <1>1, <3>1, SeenStays DEF OrderInv
  <2>9. AlertFollows(w)'
    BY <1>5, <2>3, <2>5 DEF AlertFollows
  <2> QED
    BY <2>6, <2>8, <2>9 DEF OrderInv
<1> QED
  BY <1>3, <1>4, <1>5

\* Storing the newest row: a retracted one comes from the update just taken up.
LEMMA OrderLifecycle ==
    ASSUME TypeOK, Shape, NEW w \in Workers, OrderInv(w), SaveLifecycle(w)
    PROVE  OrderInv(w)'
<1>1. /\ pc[w] = "lifecycle" /\ pc'[w] = "usage" /\ inbox' = inbox
      /\ UNCHANGED <<updates, nextUpd>>
      /\ latest' = latest \/ latest' = [latest EXCEPT ![alert[w].key] = {alert[w]}]
  BY DEF SaveLifecycle, Goto, local, streams, SaveAlertLifecycle, Some, TypeOK
<1>2. ~Idle(w) /\ ~Idle(w)' /\ Before(w) /\ ~Before(w)' /\ inbox[w] # <<>>
  <2>1. ~Idle(w) /\ ~Idle(w)' /\ Before(w) /\ ~Before(w)'
    BY <1>1 DEF Idle, Before
  <2> QED
    BY <2>1, Working
<1>3. OnUpdate(w)' <=> OnUpdate(w)
  BY <1>1, <1>2 DEF OnUpdate, Idle
<1>4. Done(w)' = Done(w)
  BY <1>1, <1>3 DEF Done
<1>5. BatchIsSuffix(w)' /\ AlertFollows(w)'
  BY <1>1, <1>2, <1>3 DEF OrderInv, BatchIsSuffix, AlertFollows
<1>6. RetractionSeen(w)'
  <2> SUFFICES ASSUME NEW k \in Keys, NEW a \in latest'[k], a.lifecycle = "retracted"
               PROVE  \E j \in 1..Done(w) : updates[j].key = k /\ updates[j].lifecycle = "retracted"
    BY <1>1, <1>4 DEF RetractionSeen
  <2>1. a \in latest[k] \/ (k = alert[w].key /\ a = alert[w])
    BY <1>1 DEF TypeOK
  <2>2. CASE a \in latest[k]
    BY <2>2 DEF OrderInv, RetractionSeen
  <2>3. CASE k = alert[w].key /\ a = alert[w]
    <3>1. OnUpdate(w) /\ Head(inbox[w]).key = k /\ Head(inbox[w]).lifecycle = "retracted"
      BY <1>2, <2>3 DEF OrderInv, AlertFollows
    <3>2. /\ Head(inbox[w]) = updates[nextUpd - Len(inbox[w]) + 1]
          /\ nextUpd - Len(inbox[w]) + 1 \in 1..Len(updates)
      BY <1>2, <3>1, HeadIsDone DEF OrderInv
    <3>3. Done(w) = nextUpd - Len(inbox[w]) + 1
      BY <1>1, <3>1 DEF Done
    <3>4. Done(w) \in 1..Done(w) /\ updates[Done(w)] = Head(inbox[w])
      BY <3>2, <3>3, Lengths
    <3> QED
      BY <3>1, <3>4
  <2> QED
    BY <2>1, <2>2, <2>3
<1> QED
  BY <1>5, <1>6 DEF OrderInv

\* No update is taken up before it is read.
LEMMA DoneBound ==
    ASSUME TypeOK, Shape, NEW w \in Workers
    PROVE  Done(w) \in Int /\ Done(w) <= nextUpd
<1>1. nextUpd \in Nat /\ inbox[w] \in Seq(Detection \cup Update) /\ Len(inbox[w]) \in Nat
  BY Lengths DEF TypeOK
<1>2. CASE pc[w] = "update"
  BY <1>1, <1>2 DEF Done
<1>3. CASE pc[w] # "update" /\ OnUpdate(w)
  <2>1. inbox[w] # <<>>
    BY <1>3, Working DEF OnUpdate
  <2>2. Len(inbox[w]) >= 1
    BY <1>1, <2>1
  <2> QED
    BY <1>1, <1>3, <2>2 DEF Done
<1>4. CASE ~OnUpdate(w)
  BY <1>1, <1>4 DEF Done, OnUpdate
<1> QED
  BY <1>2, <1>3, <1>4

\* Reading a batch, its end, and a restart.
LEMMA OrderRead ==
    ASSUME TypeOK, Shape, NEW w \in Workers, OrderInv(w),
           ReadDetections(w) \/ ReadUpdates(w) \/ BatchDone(w) \/ Crash(w)
    PROVE  OrderInv(w)'
<1>1. updates' = updates /\ latest' = latest
  BY DEF ReadDetections, ReadUpdates, BatchDone, Crash, streams, tables
<1>2. /\ updates \in Seq(Update) /\ nextUpd \in Nat /\ nextUpd <= Len(updates) /\ Len(updates) \in Nat
      /\ inbox[w] \in Seq(Detection \cup Update) /\ Len(inbox[w]) \in Nat
      /\ BatchSize \in Nat
  BY Lengths, OrchestratorAssumption DEF TypeOK
<1>3. Idle(w)' /\ ~Before(w)'
  BY DEF ReadDetections, ReadUpdates, BatchDone, Crash, Goto, Idle, Before, TypeOK
<1>4. AlertFollows(w)'
  BY <1>3 DEF AlertFollows
<1>5. Done(w) \in Int /\ Done(w) <= nextUpd
  BY DoneBound
<1>6. CASE pc'[w] # "update"
  <2>1. ~OnUpdate(w)' /\ Done(w)' = nextUpd'
    BY <1>3, <1>6 DEF OnUpdate, Done
  <2>2. nextUpd' = nextUpd
    BY <1>6 DEF ReadDetections, ReadUpdates, BatchDone, Crash, Goto, streams, TypeOK
  <2>3. BatchIsSuffix(w)'
    BY <2>1 DEF BatchIsSuffix
  <2>4. RetractionSeen(w)'
    BY <1>1, <1>2, <1>5, <2>1, <2>2, SeenStays DEF OrderInv
  <2> QED
    BY <1>4, <2>3, <2>4 DEF OrderInv
<1>7. CASE pc'[w] = "update"
  <2> DEFINE upto == Lower(nextUpd + BatchSize, Len(updates))
  <2>1. pc[w] = "updates" /\ inbox' = [inbox EXCEPT ![w] = SubSeq(updates, nextUpd + 1, upto)] /\ nextUpd' = upto
    BY <1>7 DEF ReadDetections, ReadUpdates, BatchDone, Crash, Goto, TypeOK
  <2>2. upto \in Nat /\ nextUpd <= upto /\ upto <= Len(updates)
    BY <1>2 DEF Lower
  <2> HIDE DEF upto
  <2>3. inbox'[w] = SubSeq(updates, nextUpd + 1, upto)
    BY <2>1 DEF TypeOK
  <2>4. /\ Len(inbox'[w]) = upto - nextUpd
        /\ \A i \in 1..upto - nextUpd : inbox'[w][i] = updates[nextUpd + i]
    BY <1>2, <2>2, <2>3
  <2>5. upto - (upto - nextUpd) = nextUpd
    BY <1>2, <2>2
  <2>6. BatchIsSuffix(w)'
    <3>1. Len(inbox'[w]) <= nextUpd'
      BY <1>2, <2>1, <2>2, <2>4
    <3>2. \A i \in 1..Len(inbox'[w]) : inbox'[w][i] = updates'[nextUpd' - Len(inbox'[w]) + i]
      BY <1>1, <2>1, <2>4, <2>5
    <3> QED
      BY <3>1, <3>2 DEF BatchIsSuffix
  <2>7. Done(w)' = nextUpd
    BY <1>7, <2>1, <2>4, <2>5 DEF Done
  <2>8. RetractionSeen(w)'
    BY <1>1, <1>2, <1>5, <2>7, SeenStays DEF OrderInv
  <2> QED
    BY <1>4, <2>6, <2>8 DEF OrderInv
<1> QED
  BY <1>6, <1>7

\* A new finality update is behind the batch at hand.
LEMMA OrderFinalize ==
    ASSUME TypeOK, Shape, NEW w \in Workers, OrderInv(w),
           NEW k \in Keys, NEW s \in UpdateStates, Finalize([key |-> k, lifecycle |-> s])
    PROVE  OrderInv(w)'
<1> DEFINE u == [key |-> k, lifecycle |-> s]
           n == Len(updates)
<1>1. updates' = Append(updates, u) /\ UNCHANGED <<nextUpd, latest, pc, inbox, alert>>
  BY DEF Finalize, tables, local
<1>2. updates \in Seq(Update) /\ n \in Nat /\ nextUpd \in Nat /\ nextUpd <= n
  BY Lengths DEF TypeOK
<1>3. u \in Update
  BY OrchestratorAssumption DEF Update
<1> HIDE DEF u
<1>4. Len(updates') = n + 1 /\ updates'[n + 1] = u /\ \A i \in 1..n : updates'[i] = updates[i]
  BY <1>1, <1>2, <1>3
<1>6. (OnUpdate(w)' <=> OnUpdate(w)) /\ (Before(w)' <=> Before(w)) /\ Done(w)' = Done(w)
  BY <1>1 DEF OnUpdate, Before, Done, Idle
<1>7. AlertFollows(w)'
  BY <1>1, <1>6 DEF OrderInv, AlertFollows
<1>8. BatchIsSuffix(w)'
  <2> SUFFICES ASSUME OnUpdate(w)
               PROVE  /\ Len(inbox[w]) <= nextUpd
                      /\ \A i \in 1..Len(inbox[w]) : inbox[w][i] = updates'[nextUpd - Len(inbox[w]) + i]
    BY <1>1, <1>6 DEF BatchIsSuffix
  <2> DEFINE m == Len(inbox[w])
  <2>1. /\ m <= nextUpd /\ \A i \in 1..m : inbox[w][i] = updates[nextUpd - m + i]
    BY DEF OrderInv, BatchIsSuffix
  <2>2. m \in Nat
    <3>1. inbox[w] \in Seq(Detection \cup Update)
      BY DEF TypeOK
    <3> QED
      BY <3>1
  <2> HIDE DEF m, n
  <2>3. \A i \in 1..m : nextUpd - m + i \in 1..n
    BY <1>2, <2>1, <2>2
  <2>4. \A i \in 1..m : inbox[w][i] = updates'[nextUpd - m + i]
    BY <1>4, <2>1, <2>3
  <2> QED
    BY <2>1, <2>4 DEF m
<1>9. RetractionSeen(w)'
  <2>1. Done(w) \in Int /\ Done(w) <= nextUpd
    BY DoneBound
  <2>2. \A j \in 1..Done(w) : updates'[j] = updates[j]
    BY <1>2, <1>4, <2>1
  <2>3. Done(w)' \in Int /\ Done(w) <= Done(w)' /\ latest' = latest /\ RetractionSeen(w)
    BY <1>1, <1>6, <2>1 DEF OrderInv
  <2> QED
    BY <2>1, <2>2, <2>3, SeenStays
<1> QED
  BY <1>7, <1>8, <1>9 DEF OrderInv

\* The incident calls, and the dispatch before and after the newest row.
LEMMA OrderDispatch ==
    ASSUME TypeOK, Shape, NEW w \in Workers, OrderInv(w),
           \/ FindIncident(w) \/ CreateIncident(w) \/ UpdateIncident(w) \/ FindDuplicate(w)
           \/ CheckQuota(w) \/ Notify(w) \/ SaveAlert(w) \/ RecordUsage(w) \/ Remember(w)
    PROVE  OrderInv(w)'
<1>1. /\ pc \in [Workers -> PC] /\ alert \in [Workers -> Alert] /\ alert[w] \in Alert
      /\ ~Idle(w) /\ inbox[w] # <<>>
  <2>1. ~Idle(w)
    BY DEF FindIncident, CreateIncident, UpdateIncident, FindDuplicate, CheckQuota, Notify,
           SaveAlert, RecordUsage, Remember, Idle
  <2> QED
    BY <2>1, Working DEF TypeOK
<1>2. UNCHANGED <<updates, nextUpd, latest>>
  BY DEF FindIncident, CreateIncident, UpdateIncident, FindDuplicate, CheckQuota, Notify,
         SaveAlert, RecordUsage, Remember, streams, tables
<1>3. CASE AckEntry(w)
  BY <1>1, <1>2, <1>3, OrderAck
<1>4. CASE FindIncident(w) \/ CreateIncident(w)
  <2>1. /\ pc[w] \in {"find", "create"} /\ pc'[w] \in {"dedup", "create", "incident"} /\ inbox' = inbox
        /\ \/ alert' = alert
           \/ \E i : alert' = [alert EXCEPT ![w] = [alert[w] EXCEPT !.incident = i]]
    BY <1>1, <1>4 DEF FindIncident, CreateIncident, Goto
  <2>2. /\ alert'[w].key = alert[w].key /\ alert'[w].id = alert[w].id
        /\ alert'[w].lifecycle = alert[w].lifecycle
    BY <1>1, <2>1 DEF Alert
  <2>3. ~Idle(w)' /\ Before(w)
    BY <2>1 DEF Idle, Before
  <2> QED
    BY <1>1, <1>2, <2>1, <2>2, <2>3, OrderInner
<1>5. CASE UpdateIncident(w) \/ Notify(w) \/ SaveAlert(w) \/ RecordUsage(w)
  <2>1. /\ pc'[w] \in {"dedup", "save", "lifecycle", "remember"} /\ inbox' = inbox /\ alert' = alert
        /\ pc'[w] # "remember" => pc[w] \in {"incident", "notify", "save"}
    BY <1>1, <1>5 DEF UpdateIncident, Notify, SaveAlert, RecordUsage, Goto, local
  <2>2. ~Idle(w)' /\ (Before(w)' => Before(w))
    BY <2>1 DEF Idle, Before
  <2> QED
    BY <1>1, <1>2, <2>1, <2>2, OrderInner
<1>6. CASE FindDuplicate(w) /\ ~AckEntry(w)
  <2>1. /\ pc[w] = "dedup" /\ inbox' = inbox
        /\ pc'[w] = "remember" \/ (pc'[w] = "quota" /\ alert' = alert)
    BY <1>1, <1>6 DEF FindDuplicate, Goto
  <2>2. ~Idle(w)' /\ Before(w) /\ (Before(w)' => alert' = alert)
    BY <2>1 DEF Idle, Before
  <2> QED
    BY <1>1, <1>2, <2>1, <2>2, OrderInner
<1>7. CASE CheckQuota(w)
  <2>1. /\ pc[w] = "quota" /\ inbox' = inbox /\ pc'[w] \in {"save", "notify"}
        /\ \/ alert' = alert
           \/ /\ alert' = [alert EXCEPT ![w] = [alert[w] EXCEPT !.lifecycle = "suppressed"]]
              /\ ShouldEnforceMonthlyQuota(alert[w])
    BY <1>1, <1>7 DEF CheckQuota, Goto
  <2>2. /\ alert'[w].key = alert[w].key /\ alert'[w].id = alert[w].id
        /\ \/ alert'[w].lifecycle = alert[w].lifecycle
           \/ /\ alert'[w].lifecycle = "suppressed"
              /\ alert[w].lifecycle \in {"provisional", "confirmed"}
    BY <1>1, <2>1 DEF Alert, ShouldEnforceMonthlyQuota
  <2>3. ~Idle(w)' /\ Before(w)
    BY <2>1 DEF Idle, Before
  <2> QED
    BY <1>1, <1>2, <2>1, <2>2, <2>3, OrderInner
<1>8. CASE Remember(w)
  BY <1>3, <1>8 DEF Remember
<1> QED
  BY <1>3, <1>4, <1>5, <1>6, <1>7, <1>8

\* Every step keeps the invariant.
LEMMA OrderStep ==
    ASSUME NEW w, Workers = {w}, TypeOK, Shape, OrderInv(w), [Next]_vars
    PROVE  OrderInv(w)'
<1>1. w \in Workers
  OBVIOUS
<1>2. ASSUME UNCHANGED <<updates, nextUpd, latest, pc, inbox, alert>> PROVE OrderInv(w)'
  <2>1. (OnUpdate(w)' <=> OnUpdate(w)) /\ (Before(w)' <=> Before(w)) /\ Done(w)' = Done(w)
    BY <1>2 DEF OnUpdate, Before, Done, Idle
  <2>2. BatchIsSuffix(w)'
    BY <1>2, <2>1 DEF OrderInv, BatchIsSuffix
  <2>3. RetractionSeen(w)'
    BY <1>2, <2>1 DEF OrderInv, RetractionSeen
  <2>4. AlertFollows(w)'
    BY <1>2, <2>1 DEF OrderInv, AlertFollows
  <2> QED
    BY <2>2, <2>3, <2>4 DEF OrderInv
<1>3. CASE UNCHANGED vars
  BY <1>2, <1>3 DEF vars, tables, local, streams
<1>4. CASE \E d \in DetectionFeed : Detect(d)
  BY <1>2, <1>4 DEF Detect, tables, local
<1>5. CASE \E k \in Keys, s \in UpdateStates : Finalize([key |-> k, lifecycle |-> s])
  BY <1>1, <1>5, OrderFinalize
<1>6. CASE Step(w) \/ Crash(w)
  BY <1>1, <1>6, OrderRead, OrderDetection, OrderUpdate, OrderDispatch, OrderLifecycle DEF Step
<1> QED
  BY <1>3, <1>4, <1>5, <1>6 DEF Next

\* With the invariant, a newest row that says retracted is replaced, for the
\* same alert, by one that does not only for an update behind a retraction.
LEMMA ReinstatedStep ==
    ASSUME NEW w, Workers = {w}, TypeOK, Shape, OrderInv(w), [Next]_vars,
           NEW k \in Keys, NEW a \in latest[k], NEW b \in latest'[k],
           a.id = b.id, a.lifecycle = "retracted", b.lifecycle # "retracted"
    PROVE  \E i, j \in 1..nextUpd :
               /\ i < j /\ updates[i].key = k /\ updates[j].key = k
               /\ updates[i].lifecycle = "retracted" /\ updates[j].lifecycle # "retracted"
<1>1. Cell(latest[k], k, Len(alerts), Len(incidents)) /\ latest[k] = {a} /\ w \in Workers
  BY DEF Shape, Cell
<1>2. CASE latest' = latest
  BY <1>1, <1>2
<1>3. CASE SaveLifecycle(w)
  <2>1. /\ pc[w] = "lifecycle"
        /\ latest' = latest \/ latest' = [latest EXCEPT ![alert[w].key] = {alert[w]}]
    BY <1>3 DEF SaveLifecycle, SaveAlertLifecycle, Some
  <2>2. latest' = latest \/ b \in latest[k] \/ (k = alert[w].key /\ b = alert[w])
    BY <2>1 DEF TypeOK
  <2>3. CASE k = alert[w].key /\ b = alert[w]
    <3>1. Before(w) /\ ~Idle(w)
      BY <2>1 DEF Before, Idle
    <3>2. /\ OnUpdate(w) /\ Head(inbox[w]).key = k
          /\ \/ b.lifecycle = Head(inbox[w]).lifecycle
             \/ Head(inbox[w]).lifecycle # "retracted"
      BY <2>3, <3>1 DEF OrderInv, AlertFollows
    <3>3. /\ inbox[w] # <<>> /\ Head(inbox[w]) \in Update
          /\ Done(w) \in 1..Len(updates) /\ Head(inbox[w]) = updates[Done(w)]
      <4>1. inbox[w] # <<>>
        BY <1>1, <3>1, Working
      <4>2. Done(w) = nextUpd - Len(inbox[w]) + 1
        BY <2>1, <3>2 DEF Done
      <4> QED
        BY <1>1, <3>2, <4>1, <4>2, HeadIsDone DEF OrderInv
    <3>4. PICK i \in 1..Done(w) : updates[i].key = k /\ updates[i].lifecycle = "retracted"
      BY DEF OrderInv, RetractionSeen
    <3>5. Head(inbox[w]).lifecycle # "retracted"
      BY <3>2
    <3>6. i # Done(w) /\ updates[Done(w)].key = k /\ updates[Done(w)].lifecycle # "retracted"
      BY <3>2, <3>3, <3>4, <3>5
    <3>7. Done(w) \in Int /\ Done(w) <= nextUpd /\ nextUpd \in Int
      BY <1>1, DoneBound DEF TypeOK
    <3>8. i < Done(w) /\ i \in 1..nextUpd /\ Done(w) \in 1..nextUpd
      BY <3>3, <3>6, <3>7
    <3> QED
      BY <3>4, <3>6, <3>8
  <2> QED
    BY <1>1, <1>2, <2>2, <2>3
<1>4. CASE Step(w) /\ ~SaveLifecycle(w)
  <2>1. latest' = latest
    <3>1. CASE Beside(w)
      BY <1>1, <3>1, BesideEffect
    <3>2. CASE CheckQuota(w) \/ Notify(w) \/ SaveAlert(w) \/ RecordUsage(w)
      BY <3>2 DEF CheckQuota, Notify, SaveAlert, RecordUsage, tables
    <3> QED
      BY <1>4, <3>1, <3>2, StepCases
  <2> QED
    BY <1>2, <2>1
<1>5. CASE UNCHANGED vars
  BY <1>2, <1>5 DEF vars, tables
<1>6. CASE \/ \E d \in DetectionFeed : Detect(d)
           \/ \E x \in Keys, s \in UpdateStates : Finalize([key |-> x, lifecycle |-> s])
  BY <1>2, <1>6, ProducerEffect DEF tables
<1>7. CASE Crash(w)
  BY <1>2, <1>7 DEF Crash, tables
<1> QED
  BY <1>3, <1>4, <1>5, <1>6, <1>7 DEF Next

\* With one process, whatever crashes and fails and whatever the order of the
\* updates, an alert leaves the state retracted only by an update that follows
\* a retraction of its key in the stream: the process takes the updates up in
\* the order of the stream, and what it caches is never ahead of them.
THEOREM ReinstatedByLaterUpdateHolds ==
    ASSUME NEW CONSTANT w, Workers = {w}
    PROVE  Spec => ReinstatedByLaterUpdate
<1>1. Init => OrderInv(w)
  BY DEF Init, OrderInv, BatchIsSuffix, RetractionSeen, AlertFollows, Before, OnUpdate, Idle
<1>2. TypeOK /\ Shape /\ OrderInv(w) /\ [Next]_vars => OrderInv(w)'
  BY OrderStep
<1>3. TypeOK /\ Shape /\ OrderInv(w) /\ [Next]_vars =>
         [\A k \in Keys : \A a \in latest[k], b \in latest'[k] :
             a.id = b.id /\ a.lifecycle = "retracted" /\ b.lifecycle # "retracted" =>
                 \E i, j \in 1..nextUpd :
                     /\ i < j /\ updates[i].key = k /\ updates[j].key = k
                     /\ updates[i].lifecycle = "retracted" /\ updates[j].lifecycle # "retracted"]_vars
  BY ReinstatedStep
<1> QED
  BY <1>1, <1>2, <1>3, ShapeHolds, PTL DEF Spec, ReinstatedByLaterUpdate

-----------------------------------------------------------------------------
(***************************************************************************)
(* One process without crashes and failed calls, inside the suppression    *)
(* window and without a quota: no notification is repeated.                *)
(***************************************************************************)
Says(a, b) == a.severity = b.severity /\ a.lifecycle = b.lifecycle

\* Notification i is the last one about key k.
LastOf(k, i) ==
    /\ i \in 1..Len(offered) /\ offered[i].key = k
    /\ \A j \in i + 1..Len(offered) : offered[j].key # k

\* Before the duplicate check the newest row is another alert or another state;
\* after it, another severity or state; and the newest row, or the alert on its
\* way there, is what subscribers were told last.
RepeatInv(w) ==
    /\ NoRepeatedNotification
    /\ pc[w] \in {"find", "create", "incident", "dedup"} =>
          \A a \in latest[alert[w].key] : a.id # alert[w].id \/ a.lifecycle # alert[w].lifecycle
    /\ pc[w] \in {"quota", "notify"} => \A a \in latest[alert[w].key] : ~Says(a, alert[w])
    /\ \A k \in Keys : \A i \in 1..Len(offered) : LastOf(k, i) =>
          IF pc[w] \in {"save", "lifecycle"} /\ alert[w].key = k THEN Says(offered[i], alert[w])
          ELSE \E a \in latest[k] : Says(offered[i], a)

\* A step that neither notifies nor stores a row, and is not on the way from one
\* to the other.
LEMMA RepeatQuiet ==
    ASSUME NEW w, RepeatInv(w), UNCHANGED <<offered, latest>>,
           pc[w] \notin {"save", "lifecycle"}, pc'[w] \notin {"save", "lifecycle"},
           pc'[w] \in {"find", "create", "incident", "dedup"} =>
              \A a \in latest[alert'[w].key] : a.id # alert'[w].id \/ a.lifecycle # alert'[w].lifecycle,
           pc'[w] \in {"quota", "notify"} => \A a \in latest[alert'[w].key] : ~Says(a, alert'[w])
    PROVE  RepeatInv(w)'
<1>1. NoRepeatedNotification'
  BY DEF RepeatInv, NoRepeatedNotification
<1>2. \A k \in Keys : \A i \in 1..Len(offered) : LastOf(k, i) => \E a \in latest[k] : Says(offered[i], a)
  BY DEF RepeatInv
<1>3. \A k, i : LastOf(k, i)' <=> LastOf(k, i)
  BY DEF LastOf
<1> QED
  BY <1>1, <1>2, <1>3 DEF RepeatInv, Says

\* Handing the alert to the notifier.
LEMMA RepeatNotify ==
    ASSUME TypeOK, NEW w \in Workers, RepeatInv(w), Notify(w)
    PROVE  RepeatInv(w)'
<1> DEFINE n == Len(offered)
<1>1. /\ pc[w] = "notify" /\ pc'[w] = "save" /\ alert' = alert /\ latest' = latest
      /\ offered' = Append(offered, alert[w])
  BY DEF Notify, Goto, tables, local, TypeOK
<1>2. offered \in Seq(Alert) /\ n \in Nat /\ alert[w] \in Alert /\ alert[w].key \in Keys
  BY Lengths DEF TypeOK, Alert
<1>3. /\ Len(offered') = n + 1 /\ offered'[n + 1] = alert[w]
      /\ \A i \in 1..n : offered'[i] = offered[i]
  BY <1>1, <1>2
<1>4. \A a \in latest[alert[w].key] : ~Says(a, alert[w])
  BY <1>1 DEF RepeatInv
<1>5. \A k \in Keys : \A i \in 1..n : LastOf(k, i) => \E a \in latest[k] : Says(offered[i], a)
  BY <1>1 DEF RepeatInv
<1>6. NoRepeatedNotification'
  <2> SUFFICES ASSUME Quota < 0, NEW i \in 1..n + 1, NEW j \in 1..n + 1,
                      i < j, offered'[i].key = offered'[j].key,
                      \A m \in i + 1..j - 1 : offered'[m].key # offered'[j].key
               PROVE  \/ offered'[i].severity # offered'[j].severity
                      \/ offered'[i].lifecycle # offered'[j].lifecycle
    BY <1>3 DEF NoRepeatedNotification
  <2>1. i \in 1..n /\ (j \in 1..n \/ j = n + 1)
    BY <1>2
  <2>2. CASE j \in 1..n
    <3>1. \A m \in i + 1..j - 1 : m \in 1..n /\ offered'[m] = offered[m]
      BY <1>2, <1>3, <2>1, <2>2
    <3> QED
      BY <1>3, <2>1, <2>2, <3>1 DEF RepeatInv, NoRepeatedNotification
  <2>3. CASE j = n + 1
    <3>1. \A m \in i + 1..n : m \in i + 1..j - 1 /\ offered'[m] = offered[m]
      BY <1>2, <1>3, <2>1, <2>3
    <3>2. LastOf(alert[w].key, i)
      BY <1>3, <2>1, <2>3, <3>1 DEF LastOf
    <3>3. PICK a \in latest[alert[w].key] : Says(offered[i], a)
      BY <1>2, <1>5, <2>1, <3>2
    <3>4. ~Says(a, alert[w])
      BY <1>4
    <3> QED
      BY <1>3, <2>1, <2>3, <3>3, <3>4 DEF Says
  <2> QED
    BY <2>1, <2>2, <2>3
<1>7. ASSUME NEW k \in Keys, NEW i \in 1..n + 1, LastOf(k, i)'
      PROVE  IF alert[w].key = k THEN Says(offered'[i], alert[w])
             ELSE \E a \in latest[k] : Says(offered'[i], a)
  <2>1. CASE i = n + 1
    BY <1>3, <1>7, <2>1 DEF LastOf, Says
  <2>2. CASE i \in 1..n
    <3>1. n + 1 \in i + 1..n + 1
      BY <1>2, <2>2
    <3>2. k # alert[w].key
      BY <1>3, <1>7, <3>1 DEF LastOf
    <3>3. \A j \in i + 1..n : j \in i + 1..n + 1 /\ j \in 1..n
      BY <1>2, <2>2
    <3>4. LastOf(k, i)
      BY <1>3, <1>7, <2>2, <3>3 DEF LastOf
    <3> QED
      BY <1>3, <1>5, <2>2, <3>2, <3>4
  <2> QED
    BY <1>2, <2>1, <2>2
<1> HIDE DEF n
<1>8. \A k \in Keys : \A i \in 1..Len(offered') : LastOf(k, i)' =>
         IF pc'[w] \in {"save", "lifecycle"} /\ alert'[w].key = k THEN Says(offered'[i], alert'[w])
         ELSE \E a \in latest'[k] : Says(offered'[i], a)
  BY <1>1, <1>3, <1>7
<1> QED
  BY <1>1, <1>6, <1>8 DEF RepeatInv, Says

\* Every step keeps it.
LEMMA RepeatStep ==
    ASSUME NEW w, Workers = {w}, ~DbFaults, MaxCrashes = 0, InWindow = {TRUE}, Quota < 0,
           TypeOK, Shape, CacheInv(w), RepeatInv(w), [Next]_vars
    PROVE  RepeatInv(w)'
<1>1. /\ w \in Workers /\ pc \in [Workers -> PC] /\ Ok = {TRUE}
      /\ alert \in [Workers -> Alert] /\ alert[w] \in Alert /\ alert[w].key \in Keys
      /\ latest \in [Keys -> SUBSET Alert]
  BY NoFaults DEF TypeOK, Alert
<1>2. ASSUME UNCHANGED <<offered, latest, pc, alert>> PROVE RepeatInv(w)'
  <2>1. NoRepeatedNotification'
    BY <1>2 DEF RepeatInv, NoRepeatedNotification
  <2>2. \A k, i : LastOf(k, i)' <=> LastOf(k, i)
    BY <1>2 DEF LastOf
  <2> QED
    BY <1>2, <2>1, <2>2 DEF RepeatInv, Says
<1>3. ASSUME UNCHANGED <<offered, latest>>, pc[w] \notin {"save", "lifecycle"},
             pc'[w] \in {"detections", "detection", "updates", "update", "remember"}
      PROVE  RepeatInv(w)'
  BY <1>3, RepeatQuiet
<1>4. CASE UNCHANGED vars
  BY <1>2, <1>4 DEF vars, tables, local, gateway
<1>5. CASE \/ \E d \in DetectionFeed : Detect(d)
           \/ \E k \in Keys, s \in UpdateStates : Finalize([key |-> k, lifecycle |-> s])
  BY <1>2, <1>5, ProducerEffect DEF tables, local
<1>6. CASE ReadDetections(w) \/ ReadUpdates(w) \/ BatchDone(w)
  <2>1. /\ UNCHANGED <<offered, latest>> /\ pc[w] \notin {"save", "lifecycle"}
        /\ pc'[w] \in {"detections", "detection", "updates", "update"}
    BY <1>1, <1>6 DEF ReadDetections, ReadUpdates, BatchDone, Goto, tables, gateway
  <2> QED
    BY <1>3, <2>1
<1>7. CASE TakeDetection(w)
  <2> DEFINE d == Head(inbox[w])
  <2>1. /\ UNCHANGED <<offered, latest>> /\ pc[w] = "detection"
        /\ \/ pc'[w] \in {"detection", "update"}
           \/ pc'[w] = "find" /\ alert'[w] = AlertFromDetection(Len(alerts) + 1, d)
    BY <1>1, <1>7 DEF TakeDetection, AckEntry, Goto, gateway
  <2>2. CASE pc'[w] \in {"detection", "update"}
    BY <1>3, <2>1, <2>2
  <2>3. CASE pc'[w] = "find" /\ alert'[w] = AlertFromDetection(Len(alerts) + 1, d)
    <3>1. inbox[w] \in Seq(Detection) /\ inbox[w] # <<>>
      BY <1>1, <1>7 DEF TakeDetection, Shape, Local
    <3>2. d.key \in Keys
      <4>1. d \in Detection
        BY <3>1
      <4> QED
        BY <4>1 DEF Detection
    <3>3. alert'[w].id = Len(alerts) + 1 /\ alert'[w].key \in Keys
      BY <2>3, <3>2 DEF AlertFromDetection
    <3>4. \A k \in Keys : \A a \in latest[k] : a.id # Len(alerts) + 1
      BY Lengths DEF Shape, Cell, Row
    <3>5. \A a \in latest[alert'[w].key] : a.id # alert'[w].id
      BY <3>3, <3>4
    <3> QED
      BY <2>1, <2>3, <3>5, RepeatQuiet
  <2> QED
    BY <2>1, <2>2, <2>3
<1>8. CASE TakeUpdate(w)
  <2> DEFINE u == Head(inbox[w])
             e == IF cache[w][u.key] # {} THEN cache[w][u.key] ELSE latest[u.key]
  <2>1. /\ UNCHANGED <<offered, latest>> /\ pc[w] = "update"
        /\ \/ pc'[w] \in {"detection", "update"}
           \/ /\ pc'[w] \in {"incident", "dedup"} /\ e # {} /\ The(e).lifecycle # u.lifecycle
              /\ alert'[w] = [The(e) EXCEPT !.lifecycle = u.lifecycle]
    BY <1>1, <1>8 DEF TakeUpdate, AckEntry, Goto, FindLatestAlertByEventKey, tables, gateway
  <2>2. CASE pc'[w] \in {"detection", "update"}
    BY <1>3, <2>1, <2>2
  <2>3. CASE /\ pc'[w] \in {"incident", "dedup"} /\ e # {} /\ The(e).lifecycle # u.lifecycle
             /\ alert'[w] = [The(e) EXCEPT !.lifecycle = u.lifecycle]
    <3>1. u.key \in Keys
      <4>1. inbox[w] \in Seq(Update) /\ inbox[w] # <<>>
        BY <1>1, <1>8 DEF TakeUpdate, Shape, Local
      <4>2. u \in Update
        BY <4>1
      <4> QED
        BY <4>2 DEF Update
    <3>2. e = latest[u.key]
      BY <2>1, <3>1 DEF CacheInv, Stored
    <3>3. Cell(latest[u.key], u.key, Len(alerts), Len(incidents))
      BY <3>1 DEF Shape
    <3> HIDE DEF u, e
    <3>4. The(e) \in Alert /\ latest[u.key] = {The(e)} /\ The(e).key = u.key
      BY <2>3, <3>2, <3>3, TheOne
    <3>5. alert'[w].key = u.key /\ alert'[w].lifecycle = u.lifecycle
      BY <2>3, <3>4 DEF Alert
    <3>6. \A a \in latest[alert'[w].key] : a.lifecycle # alert'[w].lifecycle
      BY <2>3, <3>4, <3>5
    <3> QED
      BY <2>1, <2>3, <3>6, RepeatQuiet
  <2> QED
    BY <2>1, <2>2, <2>3
<1>9. CASE FindIncident(w) \/ CreateIncident(w) \/ UpdateIncident(w)
  <2>1. /\ UNCHANGED <<offered, latest>> /\ pc[w] \in {"find", "create", "incident"}
        /\ pc'[w] \in {"create", "incident", "dedup"}
        /\ \/ alert' = alert
           \/ \E i : alert' = [alert EXCEPT ![w] = [alert[w] EXCEPT !.incident = i]]
    BY <1>1, <1>9 DEF FindIncident, CreateIncident, UpdateIncident, Goto, tables, local, gateway
  <2>2. /\ alert'[w].key = alert[w].key /\ alert'[w].id = alert[w].id
        /\ alert'[w].lifecycle = alert[w].lifecycle
    BY <1>1, <2>1 DEF Alert
  <2>3. \A a \in latest[alert'[w].key] : a.id # alert'[w].id \/ a.lifecycle # alert'[w].lifecycle
    BY <2>1, <2>2 DEF RepeatInv
  <2> QED
    BY <2>1, <2>3, RepeatQuiet
<1>10. CASE FindDuplicate(w)
  <2>1. /\ UNCHANGED <<offered, latest>> /\ pc[w] = "dedup"
        /\ \/ pc'[w] = "remember"
           \/ /\ pc'[w] = "quota" /\ alert' = alert
              /\ {a \in latest[alert[w].key] : ShouldSuppressDuplicate(alert[w], a, TRUE)} = {}
    BY <1>1, <1>10 DEF FindDuplicate, Goto, FindLatestAlertByEventKey, tables, gateway
  <2>2. CASE pc'[w] = "remember"
    BY <1>3, <2>1, <2>2
  <2>3. CASE /\ pc'[w] = "quota" /\ alert' = alert
             /\ {a \in latest[alert[w].key] : ShouldSuppressDuplicate(alert[w], a, TRUE)} = {}
    <3>1. ASSUME NEW a \in latest[alert[w].key] PROVE ~Says(a, alert[w])
      <4>1. ~ShouldSuppressDuplicate(alert[w], a, TRUE)
        BY <2>3
      <4>2. a.key = alert[w].key
        BY <1>1 DEF Shape, Cell
      <4>3. a.id # alert[w].id \/ a.lifecycle # alert[w].lifecycle
        BY <2>1 DEF RepeatInv
      <4> QED
        BY <4>1, <4>2, <4>3 DEF Says, ShouldSuppressDuplicate
    <3> QED
      BY <2>1, <2>3, <3>1, RepeatQuiet
  <2> QED
    BY <2>1, <2>2, <2>3
<1>11. CASE CheckQuota(w)
  <2>1. ~CheckQuotaExceeded
    BY OrchestratorAssumption DEF CheckQuotaExceeded, MonthlyAlertQuota
  <2>2. UNCHANGED <<offered, latest, alert>> /\ pc[w] = "quota" /\ pc'[w] = "notify"
    BY <1>1, <1>11, <2>1 DEF CheckQuota, Goto, tables, gateway
  <2>3. \A a \in latest[alert'[w].key] : ~Says(a, alert'[w])
    BY <2>2 DEF RepeatInv
  <2> QED
    BY <2>2, <2>3, RepeatQuiet
<1>12. CASE Notify(w)
  BY <1>1, <1>12, RepeatNotify
<1>13. CASE SaveAlert(w)
  <2>1. UNCHANGED <<offered, latest, alert>> /\ pc[w] = "save" /\ pc'[w] = "lifecycle"
    BY <1>1, <1>13 DEF SaveAlert, Goto, local, gateway
  <2>2. NoRepeatedNotification'
    BY <2>1 DEF RepeatInv, NoRepeatedNotification
  <2>3. \A k, i : LastOf(k, i)' <=> LastOf(k, i)
    BY <2>1 DEF LastOf
  <2> QED
    BY <2>1, <2>2, <2>3 DEF RepeatInv, Says
<1>14. CASE SaveLifecycle(w)
  <2>1. /\ UNCHANGED <<offered, alert>> /\ pc[w] = "lifecycle" /\ pc'[w] = "usage"
        /\ latest' = [latest EXCEPT ![alert[w].key] = {alert[w]}]
    BY <1>1, <1>14 DEF SaveLifecycle, SaveAlertLifecycle, Some, Goto, local, gateway
  <2>2. NoRepeatedNotification'
    BY <2>1 DEF RepeatInv, NoRepeatedNotification
  <2>3. \A k, i : LastOf(k, i)' <=> LastOf(k, i)
    BY <2>1 DEF LastOf
  <2>4. /\ latest'[alert[w].key] = {alert[w]}
        /\ \A k \in Keys : k # alert[w].key => latest'[k] = latest[k]
    BY <1>1, <2>1
  <2>5. ASSUME NEW k \in Keys, NEW i \in 1..Len(offered'), LastOf(k, i)'
        PROVE  \E a \in latest'[k] : Says(offered'[i], a)
    <3>1. LastOf(k, i) /\ i \in 1..Len(offered) /\ offered'[i] = offered[i]
      BY <2>1, <2>3, <2>5
    <3>2. CASE k = alert[w].key
      BY <2>1, <2>4, <3>1, <3>2 DEF RepeatInv
    <3>3. CASE k # alert[w].key
      BY <2>1, <2>4, <3>1, <3>3 DEF RepeatInv
    <3> QED
      BY <3>2, <3>3
  <2> QED
    BY <2>1, <2>2, <2>5 DEF RepeatInv, Says
<1>15. CASE RecordUsage(w) \/ Remember(w)
  <2>1. /\ UNCHANGED <<offered, latest>> /\ pc[w] \in {"usage", "remember"}
        /\ pc'[w] \in {"detection", "update", "remember"}
    BY <1>1, <1>15 DEF RecordUsage, Remember, AckEntry, Goto, tables, gateway
  <2> QED
    BY <1>3, <2>1
<1>16. ~Crash(w)
  BY OrchestratorAssumption DEF Crash, TypeOK
<1> QED
  BY <1>4, <1>5, <1>6, <1>7, <1>8, <1>9, <1>10, <1>11, <1>12, <1>13, <1>14, <1>15, <1>16
     DEF Next, Step

\* Inside the suppression window, one process that runs without crashes and
\* failed calls never tells subscribers the same about a key twice in a row.
THEOREM NoRepeatedNotificationHolds ==
    ASSUME NEW CONSTANT w, Workers = {w}, ~DbFaults, MaxCrashes = 0, InWindow = {TRUE}
    PROVE  Spec => []NoRepeatedNotification
<1> DEFINE Inv == CacheInv(w) /\ (Quota < 0 => RepeatInv(w))
<1>1. Init => Inv
  BY DEF Init, CacheInv, Stored, RepeatInv, NoRepeatedNotification
<1>2. TypeOK /\ Shape /\ Inv /\ [Next]_vars => Inv'
  BY CacheStep, RepeatStep
<1>3. Inv => NoRepeatedNotification
  BY DEF RepeatInv, NoRepeatedNotification
<1> HIDE DEF Inv
<1> QED
  BY <1>1, <1>2, <1>3, ShapeHolds, PTL DEF Spec
=============================================================================
