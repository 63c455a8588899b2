---------------------------- MODULE Orchestrator ----------------------------
(***************************************************************************)
(* The orchestrator, apps/orchestrator/src/main.rs, for one tenant and one *)
(* pattern: one or more processes of one consumer group turn detections    *)
(* into alerts, keep the incident of the alert's subject, suppress         *)
(* duplicates, enforce the monthly quota, notify, persist and publish; and *)
(* apply finality updates to the alert last seen for an event key.         *)
(*                                                                         *)
(* Every database or network await is a step of its own.  With DbFaults,   *)
(* any database call may fail, with GatewayFaults any call of the notifier *)
(* gateway; the code logs the failure and goes on (or drops the entry),    *)
(* and acknowledges the entry in every case.                               *)
(***************************************************************************)
EXTENDS Integers, Sequences, FiniteSets

CONSTANTS
    Keys,            \* event keys
    Subjects,        \* what incidents are about (subject_type, subject_key, chain)
    SubjectOf,       \* the subject of each event key
    Workers,         \* processes of the consumer group
    DetectionFeed,   \* detections the detector may publish
    UpdateStates,    \* lifecycle states the finality worker may publish
    MaxDetections,   \* bound: detections published
    MaxUpdates,      \* bound: finality updates published
    BatchSize,       \* entries per XREADGROUP
    Quota,           \* monthly_alert_quota; a negative one is no limit
    InWindow,        \* may the previous alert be inside (TRUE), outside (FALSE) the window?
    CacheSize,       \* alert_context_max_entries
    MaxCrashes,      \* bound: crashes and restarts
    DbFaults,        \* may a database call fail?
    GatewayFaults    \* may a call of the notifier gateway fail?

Severity   == {"high", "critical"}
Lifecycles == {"provisional", "confirmed", "retracted", "suppressed", "resolved"}
Transition == {"trigger", "escalate", "deescalate", "update", "resolve", "retract"}

\* usable: the detection has an event key, a triggered rule and a tenant.
Detection == [key : Keys, severity : Severity, transition : Transition,
              lifecycle : {"provisional", "confirmed", "resolved"}, usable : BOOLEAN]

Update == [key : Keys, lifecycle : {"provisional", "confirmed", "retracted"}]

ASSUME OrchestratorAssumption ==
    /\ Keys # {} /\ SubjectOf \in [Keys -> Subjects]
    /\ DetectionFeed \subseteq Detection
    /\ UpdateStates \subseteq {"provisional", "confirmed", "retracted"}
    /\ IsFiniteSet(Workers) /\ Workers # {}
    /\ MaxDetections \in Nat /\ MaxUpdates \in Nat /\ MaxCrashes \in Nat
    /\ BatchSize \in Nat \ {0} /\ CacheSize \in Nat \ {0}
    /\ Quota \in Int
    /\ InWindow \subseteq BOOLEAN /\ InWindow # {}
    /\ DbFaults \in BOOLEAN /\ GatewayFaults \in BOOLEAN

VARIABLES
    detections,  \* raksha:detections
    nextDet,     \* the group's position in it
    updates,     \* raksha:finality-updates
    nextUpd,     \* the group's position in it
    incidents,   \* table incidents: id |-> [subject, status, closed]
    latest,      \* alert_lifecycle_events: the newest row of each event key, {} if none
    alerts,      \* table alerts: id |-> the lifecycle stored, "none" before it is
    fired,       \* usage events alert_fired of this month
    offered,     \* alerts the notifier gateway was called with, in order
    refused,     \* the positions in it whose call failed
    pc,          \* where each process is
    inbox,       \* entries read and not yet acknowledged
    alert,       \* the alert at hand
    goal,        \* the incident status it asks for
    cache,       \* alerts_by_event_key of each process: {} or one alert
    crashes      \* crashes so far

streams == <<detections, nextDet, updates, nextUpd>>
tables  == <<incidents, latest, alerts, fired>>
local   == <<inbox, alert, goal, cache>>
gateway == <<offered, refused>>
vars    == <<streams, tables, gateway, pc, local, crashes>>

-----------------------------------------------------------------------------
Some(x) == {x}
The(s)  == CHOOSE x \in s : TRUE
Lower(a, b) == IF a <= b THEN a ELSE b
Ok == {TRUE, ~DbFaults}
GatewayOk == {TRUE, ~GatewayFaults}

\* Table alerts has a row per alert id; ids are fresh (Uuid::new_v4).
NoIncident == 0
NoAlert == [id |-> 0, key |-> CHOOSE k \in Keys : TRUE, severity |-> "high",
            lifecycle |-> "provisional", incident |-> NoIncident]
NoGoal == [status |-> "active", closes |-> FALSE]

Terminal == {"resolved", "retracted"}
Open(i) == incidents[i].status \in {"triggered", "active"}

IncidentStatusForTransition(t) ==
    CASE t = "trigger" -> "triggered"
      [] t = "resolve" -> "resolved"
      [] t = "retract" -> "retracted"
      [] OTHER         -> "active"

GoalOfTransition(t) ==
    [status |-> IncidentStatusForTransition(t), closes |-> t \in {"resolve", "retract"}]

GoalOfUpdate(s) ==
    IF s = "retracted" THEN [status |-> "retracted", closes |-> TRUE]
                       ELSE [status |-> "active", closes |-> FALSE]

\* Mutant: no bypass for critical alerts.
EnforceQuotaOnAll(a) == a.lifecycle \in {"provisional", "confirmed"}

ShouldEnforceMonthlyQuota(a) ==
    a.severity # "critical" /\ a.lifecycle \in {"provisional", "confirmed"}

\* load_tenant_monthly_alert_quota: negative when the tenant has none.
MonthlyAlertQuota == Quota

\* count_usage_event_quantity_for_current_month, of alert_fired.
FiredThisMonth == fired

\* Mutant: > instead of >=.
QuotaPassed == Quota >= 0 /\ fired > Quota

CheckQuotaExceeded == MonthlyAlertQuota >= 0 /\ FiredThisMonth >= MonthlyAlertQuota

\* The newest row of the event key, of any incident and from any process.
FindLatestAlertByEventKey(k) == latest[k]

\* A row is appended: it is the newest of its event key.
SaveAlertLifecycle(a) == [latest EXCEPT ![a.key] = Some(a)]

\* A usage event of quantity 1; a suppressed alert has another event type.
RecordUsageEvent(a) == IF a.lifecycle = "suppressed" THEN fired ELSE fired + 1

\* The incident is attached later; everything else is that of the detection.
AlertFromDetection(id, d) ==
    [id |-> id, key |-> d.key, severity |-> d.severity, lifecycle |-> d.lifecycle,
     incident |-> NoIncident]

\* Mutant: only the alert itself counts as its duplicate.
SuppressSameId(a, existing, young) == a.id = existing.id /\ young

\* Another alert of the key with the same severity and lifecycle is the newest
\* one, and young enough.
ShouldSuppressDuplicate(a, existing, young) ==
    /\ a.id # existing.id
    /\ a.key = existing.key
    /\ a.severity = existing.severity
    /\ a.lifecycle = existing.lifecycle
    /\ young

Init ==
    /\ detections = <<>> /\ nextDet = 0
    /\ updates = <<>> /\ nextUpd = 0
    /\ incidents = <<>>
    /\ latest = [k \in Keys |-> {}]
    /\ alerts = <<>>
    /\ fired = 0
    /\ offered = <<>> /\ refused = {}
    /\ pc = [w \in Workers |-> "detections"]
    /\ inbox = [w \in Workers |-> <<>>]
    /\ alert = [w \in Workers |-> NoAlert]
    /\ goal = [w \in Workers |-> NoGoal]
    /\ cache = [w \in Workers |-> [k \in Keys |-> {}]]
    /\ crashes = 0

-----------------------------------------------------------------------------
(***************************************************************************)
(* The producers: a detector and the finality worker.                      *)
(***************************************************************************)
Detect(d) ==
    /\ Len(detections) < MaxDetections
    /\ detections' = Append(detections, d)
    /\ UNCHANGED <<nextDet, updates, nextUpd, tables, gateway, pc, local, crashes>>

\* The finality worker publishes the updates of a batch one by one.  Any may
\* follow any: a restart from an older row repeats a confirmation, or confirms
\* what was retracted.
Finalize(u) ==
    /\ Len(updates) < MaxUpdates
    /\ updates' = Append(updates, u)
    /\ UNCHANGED <<detections, nextDet, nextUpd, tables, gateway, pc, local, crashes>>

-----------------------------------------------------------------------------
(***************************************************************************)
(* The loop: a batch of detections, then a batch of finality updates.      *)
(***************************************************************************)
Goto(w, l) == pc' = [pc EXCEPT ![w] = l]

ReadDetections(w) ==
    /\ pc[w] = "detections"
    /\ LET upto == Lower(nextDet + BatchSize, Len(detections))
       IN  /\ inbox' = [inbox EXCEPT ![w] = SubSeq(detections, nextDet + 1, upto)]
           /\ nextDet' = upto
    /\ Goto(w, "detection")
    /\ UNCHANGED <<detections, updates, nextUpd, tables, gateway, alert, goal, cache, crashes>>

\* Mutant: newest entry first.
ReadUpdatesReversed(w) ==
    /\ pc[w] = "updates"
    /\ LET upto == Lower(nextUpd + BatchSize, Len(updates))
       IN  /\ inbox' = [inbox EXCEPT ![w] =
                 [i \in 1..(upto - nextUpd) |-> updates[upto + 1 - i]]]
           /\ nextUpd' = upto
    /\ Goto(w, "update")
    /\ UNCHANGED <<detections, nextDet, updates, tables, gateway, alert, goal, cache, crashes>>

ReadUpdates(w) ==
    /\ pc[w] = "updates"
    /\ LET upto == Lower(nextUpd + BatchSize, Len(updates))
       IN  /\ inbox' = [inbox EXCEPT ![w] = SubSeq(updates, nextUpd + 1, upto)]
           /\ nextUpd' = upto
    /\ Goto(w, "update")
    /\ UNCHANGED <<detections, nextDet, updates, tables, gateway, alert, goal, cache, crashes>>

BatchDone(w) ==
    /\ pc[w] \in {"detection", "update"} /\ inbox[w] = <<>>
    /\ Goto(w, IF pc[w] = "detection" THEN "updates" ELSE "detections")
    /\ UNCHANGED <<streams, tables, gateway, local, crashes>>

\* The entry needs no more work: acknowledge it and take the next one.  Entries
\* of the two streams are told apart by their fields.
IsDetection(x) == "usable" \in DOMAIN x

AckEntry(w) ==
    /\ Goto(w, IF IsDetection(Head(inbox[w])) THEN "detection" ELSE "update")
    /\ inbox' = [inbox EXCEPT ![w] = Tail(@)]

\* alert_from_detection, or the early exits before it.
TakeDetection(w) ==
    /\ pc[w] = "detection" /\ inbox[w] # <<>>
    /\ LET d == Head(inbox[w])
       IN  IF d.usable
           THEN /\ alerts' = Append(alerts, "none")
                /\ alert' = [alert EXCEPT ![w] = AlertFromDetection(Len(alerts) + 1, d)]
                /\ goal' = [goal EXCEPT ![w] = GoalOfTransition(d.transition)]
                /\ Goto(w, "find")
                /\ UNCHANGED inbox
           ELSE AckEntry(w) /\ UNCHANGED <<alerts, alert, goal>>
    /\ UNCHANGED <<streams, incidents, latest, fired, gateway, cache, crashes>>

\* The alert an update applies to: the cached one, else the newest row.
TakeUpdate(w) ==
    /\ pc[w] = "update" /\ inbox[w] # <<>>
    /\ \E ok \in Ok :
       LET u        == Head(inbox[w])
           existing == IF cache[w][u.key] # {} THEN cache[w][u.key]
                       ELSE IF ok THEN FindLatestAlertByEventKey(u.key) ELSE {}
       IN  IF \/ u.lifecycle = "provisional" \/ existing = {}
              \/ The(existing).lifecycle = u.lifecycle
           THEN AckEntry(w) /\ UNCHANGED <<alert, goal>>
           ELSE /\ alert' = [alert EXCEPT ![w] = [The(existing) EXCEPT !.lifecycle = u.lifecycle]]
                /\ goal' = [goal EXCEPT ![w] = GoalOfUpdate(u.lifecycle)]
                /\ Goto(w, IF The(existing).incident # NoIncident THEN "incident" ELSE "dedup")
                /\ UNCHANGED inbox
    /\ UNCHANGED <<streams, tables, gateway, cache, crashes>>

-----------------------------------------------------------------------------
(***************************************************************************)
(* attach_incident_context, and the incident update of a finality update.  *)
(***************************************************************************)
\* Mutant: only incidents still in status triggered are found.
FindTriggered(w) ==
    /\ pc[w] = "find"
    /\ \E ok \in Ok :
       LET open == {i \in 1..Len(incidents) :
                       incidents[i].status = "triggered" /\ incidents[i].subject = SubjectOf[alert[w].key]}
       IN  \/ ~ok /\ Goto(w, "dedup") /\ UNCHANGED alert
           \/ ok /\ open = {} /\ Goto(w, "create") /\ UNCHANGED alert
           \/ /\ ok /\ Goto(w, "incident")
              /\ \E i \in open : alert' = [alert EXCEPT ![w].incident = i]
    /\ UNCHANGED <<streams, tables, gateway, inbox, goal, cache, crashes>>

\* find_active_incident.  Several open incidents are ordered by updated_at,
\* which each process stamps from its own clock before its calls: any may win.
FindIncident(w) ==
    /\ pc[w] = "find"
    /\ \E ok \in Ok :
       LET open == {i \in 1..Len(incidents) :
                       Open(i) /\ incidents[i].subject = SubjectOf[alert[w].key]}
       IN  \/ ~ok /\ Goto(w, "dedup") /\ UNCHANGED alert
           \/ ok /\ open = {} /\ Goto(w, "create") /\ UNCHANGED alert
           \/ /\ ok /\ Goto(w, "incident")
              /\ \E i \in open : alert' = [alert EXCEPT ![w].incident = i]
    /\ UNCHANGED <<streams, tables, gateway, inbox, goal, cache, crashes>>

\* create_incident; when it fails the alert refers to a row that is not there.
CreateIncident(w) ==
    /\ pc[w] = "create"
    /\ \E ok \in Ok :
          incidents' = Append(incidents,
             [subject |-> SubjectOf[alert[w].key],
              status  |-> IF ok THEN goal[w].status ELSE "absent", closed |-> FALSE])
    /\ alert' = [alert EXCEPT ![w].incident = Len(incidents) + 1]
    /\ Goto(w, "incident")
    /\ UNCHANGED <<streams, latest, alerts, fired, gateway, inbox, goal, cache, crashes>>

\* update_incident_state: an unconditional UPDATE; closed_at is set, never reset.
UpdateIncident(w) ==
    /\ pc[w] = "incident"
    /\ \E ok \in Ok :
       LET i == alert[w].incident
       IN  incidents' = IF ok /\ incidents[i].status # "absent"
                        THEN [incidents EXCEPT ![i].status = goal[w].status,
                                               ![i].closed = @ \/ goal[w].closes]
                        ELSE incidents
    /\ Goto(w, "dedup")
    /\ UNCHANGED <<streams, latest, alerts, fired, gateway, local, crashes>>

-----------------------------------------------------------------------------
(***************************************************************************)
(* dispatch_alert.                                                         *)
(***************************************************************************)
\* find_dispatch_duplicate.  A duplicate ends the dispatch and its predecessor
\* is remembered instead; a failed lookup drops the alert.
FindDuplicate(w) ==
    /\ pc[w] = "dedup"
    /\ \E ok \in Ok, young \in InWindow :
       LET duplicate == {a \in FindLatestAlertByEventKey(alert[w].key) :
                            ShouldSuppressDuplicate(alert[w], a, young)}
       IN  \/ ~ok /\ AckEntry(w) /\ UNCHANGED alert
           \/ ok /\ duplicate = {} /\ Goto(w, "quota") /\ UNCHANGED <<alert, inbox>>
           \/ /\ ok /\ duplicate # {}
              /\ alert' = [alert EXCEPT ![w] = The(duplicate)]
              /\ Goto(w, "remember") /\ UNCHANGED inbox
    /\ UNCHANGED <<streams, tables, gateway, goal, cache, crashes>>

\* Mutant: a failed lookup skips the notifier.
CheckQuotaSkips(w) ==
    /\ pc[w] = "quota"
    /\ \E ok \in Ok :
          IF ok /\ ShouldEnforceMonthlyQuota(alert[w]) /\ CheckQuotaExceeded
          THEN /\ alert' = [alert EXCEPT ![w].lifecycle = "suppressed"]
               /\ Goto(w, "save")
          ELSE Goto(w, IF ok THEN "notify" ELSE "save") /\ UNCHANGED alert
    /\ UNCHANGED <<streams, tables, gateway, inbox, goal, cache, crashes>>

\* check_quota_exceeded; a failed lookup lets the alert through.
CheckQuota(w) ==
    /\ pc[w] = "quota"
    /\ \E ok \in Ok :
          IF ok /\ ShouldEnforceMonthlyQuota(alert[w]) /\ CheckQuotaExceeded
          THEN /\ alert' = [alert EXCEPT ![w].lifecycle = "suppressed"]
               /\ Goto(w, "save")
          ELSE Goto(w, "notify") /\ UNCHANGED alert
    /\ UNCHANGED <<streams, tables, gateway, inbox, goal, cache, crashes>>

\* notifier_gateway.dispatch_alert.  An error is logged and never retried: the
\* alert is stored and charged all the same.
Notify(w) ==
    /\ pc[w] = "notify"
    /\ offered' = Append(offered, alert[w])
    /\ \E ok \in GatewayOk : refused' = IF ok THEN refused ELSE refused \cup {Len(offered) + 1}
    /\ Goto(w, "save")
    /\ UNCHANGED <<streams, tables, local, crashes>>

\* save_alert
SaveAlert(w) ==
    /\ pc[w] = "save"
    /\ \E ok \in Ok :
          alerts' = IF ok THEN [alerts EXCEPT ![alert[w].id] = alert[w].lifecycle] ELSE alerts
    /\ Goto(w, "lifecycle")
    /\ UNCHANGED <<streams, incidents, latest, fired, gateway, local, crashes>>

\* save_alert_lifecycle, then the two publications.
SaveLifecycle(w) ==
    /\ pc[w] = "lifecycle"
    /\ \E ok \in Ok :
          latest' = IF ok THEN SaveAlertLifecycle(alert[w]) ELSE latest
    /\ Goto(w, "usage")
    /\ UNCHANGED <<streams, incidents, alerts, fired, gateway, local, crashes>>

\* record_usage_event; only alert_fired counts against the quota.
RecordUsage(w) ==
    /\ pc[w] = "usage"
    /\ \E ok \in Ok : fired' = IF ok THEN RecordUsageEvent(alert[w]) ELSE fired
    /\ Goto(w, "remember")
    /\ UNCHANGED <<streams, incidents, latest, alerts, gateway, local, crashes>>

\* Mutant: entry().or_insert: an alert already cached stays.
RememberFirst(w) ==
    /\ pc[w] = "remember"
    /\ LET filled == [cache[w] EXCEPT ![alert[w].key] =
                                IF @ = {} THEN Some(alert[w]) ELSE @]
       IN  \E keep \in SUBSET {k \in Keys : filled[k] # {}} :
              /\ Cardinality(keep) <= CacheSize
              /\ cache' = [cache EXCEPT ![w] = [k \in Keys |-> IF k \in keep THEN filled[k] ELSE {}]]
    /\ AckEntry(w)
    /\ UNCHANGED <<streams, tables, gateway, alert, goal, crashes>>

\* The dispatched alert enters the cache, prune_alert_contexts drops what is too
\* old (any entry may be) and all but the CacheSize youngest, and the entry is
\* acknowledged.
Remember(w) ==
    /\ pc[w] = "remember"
    /\ LET filled == [cache[w] EXCEPT ![alert[w].key] = Some(alert[w])]
       IN  \E keep \in SUBSET {k \in Keys : filled[k] # {}} :
              /\ Cardinality(keep) <= CacheSize
              /\ cache' = [cache EXCEPT ![w] = [k \in Keys |-> IF k \in keep THEN filled[k] ELSE {}]]
    /\ AckEntry(w)
    /\ UNCHANGED <<streams, tables, gateway, alert, goal, crashes>>

\* The process dies, at any await or at its shutdown check, and is replaced.
Crash(w) ==
    /\ crashes < MaxCrashes
    /\ crashes' = crashes + 1
    /\ Goto(w, "detections")
    /\ inbox' = [inbox EXCEPT ![w] = <<>>]
    /\ cache' = [cache EXCEPT ![w] = [k \in Keys |-> {}]]
    /\ UNCHANGED <<streams, tables, gateway, alert, goal>>

Step(w) ==
    \/ ReadDetections(w) \/ ReadUpdates(w) \/ BatchDone(w) \/ TakeDetection(w) \/ TakeUpdate(w)
    \/ FindIncident(w) \/ CreateIncident(w) \/ UpdateIncident(w)
    \/ FindDuplicate(w) \/ CheckQuota(w) \/ Notify(w) \/ SaveAlert(w) \/ SaveLifecycle(w)
    \/ RecordUsage(w) \/ Remember(w)

Next ==
    \/ \E d \in DetectionFeed : Detect(d)
    \/ \E k \in Keys, s \in UpdateStates : Finalize([key |-> k, lifecycle |-> s])
    \/ \E w \in Workers : Step(w) \/ Crash(w)

Spec == Init /\ [][Next]_vars

\* A process that can go on does.
FairSpec == Spec /\ \A w \in Workers : WF_vars(Step(w))

-----------------------------------------------------------------------------
(***************************************************************************)
(* Properties.                                                             *)
(***************************************************************************)
Alert == [id : Nat, key : Keys, severity : Severity, lifecycle : Lifecycles, incident : Nat]

PC == {"detections", "detection", "updates", "update", "find", "create", "incident", "dedup",
       "quota", "notify", "save", "lifecycle", "usage", "remember"}

TypeOK ==
    /\ detections \in Seq(Detection) /\ nextDet \in 0..Len(detections)
    /\ updates \in Seq(Update) /\ nextUpd \in 0..Len(updates)
    /\ incidents \in Seq([subject : Subjects, closed : BOOLEAN,
                          status : {"triggered", "active", "absent"} \cup Terminal])
    /\ latest \in [Keys -> SUBSET Alert]
    /\ alerts \in Seq(Lifecycles \cup {"none"})
    /\ fired \in Nat
    /\ offered \in Seq(Alert) /\ refused \subseteq 1..Len(offered)
    /\ pc \in [Workers -> PC]
    /\ inbox \in [Workers -> Seq(Detection \cup Update)]
    /\ alert \in [Workers -> Alert]
    /\ goal \in [Workers -> [status : {"triggered", "active"} \cup Terminal, closes : BOOLEAN]]
    /\ cache \in [Workers -> [Keys -> SUBSET Alert]]
    /\ crashes \in 0..MaxCrashes

Idle(w) == pc[w] \in {"detections", "detection", "updates", "update"}

\* The calls of the notifier the monthly quota is about.
QuotaNotices == {i \in 1..Len(offered) : ShouldEnforceMonthlyQuota(offered[i])}

\* The quota read and the usage record are two calls: each process may slip one
\* alert past the limit, and so may each crash between the two, but no more.
QuotaOvershootBounded ==
    ~DbFaults /\ Quota >= 1 => Cardinality(QuotaNotices) <= Quota + Cardinality(Workers) - 1 + crashes

\* An incident that was resolved or retracted stays closed (test helper
\* is_terminal_incident_status: "no further transitions expected").
TerminalIsFinal ==
    [][\A i \in 1..Len(incidents) :
          incidents[i].status \in Terminal => incidents'[i].status \in Terminal]_vars

\* A subject has at most one incident that was never closed: whatever follows
\* on a resolution or a retraction, alerts about the subject find one incident.
OneOpenIncident ==
    \A i, j \in 1..Len(incidents) :
        /\ incidents[i].subject = incidents[j].subject
        /\ \A n \in {i, j} : ~incidents[n].closed /\ incidents[n].status # "absent"
        => i = j

\* Inside the suppression window two successive calls of the notifier about a
\* key say something new: another severity or another lifecycle state.
\* (Without a quota: the row of an alert the quota suppressed is the newest one
\* of its key, and hides the alert before it from the duplicate check.)
NoRepeatedNotification ==
    Quota < 0 => \A i, j \in 1..Len(offered) :
        /\ i < j /\ offered[i].key = offered[j].key
        /\ \A m \in i + 1..j - 1 : offered[m].key # offered[j].key
        => \/ offered[i].severity # offered[j].severity
           \/ offered[i].lifecycle # offered[j].lifecycle

\* What an idle process remembers of a key is the newest row of the key, so a
\* finality update is applied to the state the tables hold.
CacheIsLatest ==
    \A w \in Workers : Idle(w) => \A k \in Keys : cache[w][k] # {} => cache[w][k] = latest[k]

\* A retraction holds until a later update: an alert whose newest row says
\* retracted is brought back only by an update of its key that follows a
\* retraction in the stream, never by one published before it that was still
\* in hand, in a cache or in the batch.
ReinstatedByLaterUpdate ==
    [][\A k \in Keys : \A a \in latest[k], b \in latest'[k] :
          a.id = b.id /\ a.lifecycle = "retracted" /\ b.lifecycle # "retracted" =>
              \E i, j \in 1..nextUpd :
                  /\ i < j /\ updates[i].key = k /\ updates[j].key = k
                  /\ updates[i].lifecycle = "retracted" /\ updates[j].lifecycle # "retracted"]_vars

\* The gateway took the alert with this id in this state, or its call failed.
Delivered(id, s) ==
    \E i \in 1..Len(offered) \ refused : offered[i].id = id /\ offered[i].lifecycle = s
Refused(id, s) ==
    \E i \in refused : offered[i].id = id /\ offered[i].lifecycle = s

\* What the tables and subscribers know as an alert, the notifier was called
\* for first: neither a crash nor a failed database call leaves a row, the
\* newest one of its key included, or a charge against the quota, for an alert
\* the gateway neither took nor refused with an error.
StoredWasOffered ==
    /\ \A id \in 1..Len(alerts) : alerts[id] \notin {"none", "suppressed"} =>
          Delivered(id, alerts[id]) \/ Refused(id, alerts[id])
    /\ \A k \in Keys : \A a \in latest[k] : a.lifecycle # "suppressed" =>
          Delivered(a.id, a.lifecycle) \/ Refused(a.id, a.lifecycle)
    /\ fired <= Len(offered)

\* Every critical detection leads to a call of the notifier, whatever the quota.
CriticalOffered ==
    \A i \in 1..MaxDetections : \A k \in Keys :
        (/\ i <= Len(detections) /\ detections[i].key = k
         /\ detections[i].severity = "critical" /\ detections[i].usable)
        ~> \E j \in 1..Len(offered) : offered[j].key = k /\ offered[j].severity = "critical"
=============================================================================
