----------------------------- MODULE DepegProofs -----------------------------
(***************************************************************************)
(* Proofs about Depeg, for any markets, scopes, sources, feeds, policies   *)
(* and reloads, and for any sequence of failed calls, crashes and          *)
(* clean-ups.                                                              *)
(***************************************************************************)
EXTENDS Depeg, FiniteSetTheorems, SequenceTheorems, TLAPS

-----------------------------------------------------------------------------
(* What an evaluation returns. *)

\* The parts of a snapshot that decide the next row; there is no breach
\* without a fresh quote.
Decisive(snap) ==
    /\ snap.fresh \in BOOLEAN /\ snap.breach \in BOOLEAN
    /\ snap.rank \in Ranks /\ snap.floor \in Nat
    /\ snap.breach => snap.fresh

\* evaluate_policy rates every set of quotes on the scale of its policy.
LEMMA SnapshotDecisive ==
    ASSUME NEW pol \in Policy, NEW quotes, NEW t, NEW systemic
    PROVE  Decisive(Snapshot(pol, quotes, t, systemic))
<1> DEFINE S == Eligible(pol, quotes, t)
           floor == IF systemic THEN pol.systemicFloor ELSE pol.isolatedFloor
           div == Divergence(pol, WeightedMedian(pol, quotes, S))
           bands == IF systemic THEN pol.systemic ELSE pol.isolated
           rank == SeverityForDivergence(div, bands)
<1>1. floor \in Nat
  BY DEF Policy
<1>2. rank \in Ranks
  BY DEF SeverityForDivergence, Ranks
<1>3. 0 \in Ranks
  BY DEF Ranks
<1> QED BY <1>1, <1>2, <1>3 DEF Snapshot, Decisive

\* The next row is well-formed and carries the event's time as its high-water
\* mark; the cooldown is kept or starts at that time, and an alert starts it.
LEMMA NextRowFacts ==
    ASSUME NEW pol \in Policy, NEW row \in Row, NEW snap, Decisive(snap), NEW t \in Times
    PROVE  /\ NextRow(pol, row, snap, t) \in Row
           /\ NextRow(pol, row, snap, t).highWater = t
           /\ snap.fresh =>
                 NextRow(pol, row, snap, t).cooldownUntil \in {row.cooldownUntil, t + pol.cooldown}
           /\ Alerts(row, snap, t) =>
                 NextRow(pol, row, snap, t).cooldownUntil = t + pol.cooldown
<1>1. t \in Int /\ pol.cooldown \in Nat /\ t \in {None} \cup Times
  BY DepegAssumption DEF Times, Policy
<1>2. FreshRow \in Row
  BY DEF FreshRow, Row, Ranks, None
<1>3. ASSUME NEW r \in Row
      PROVE  [r EXCEPT !.highWater = t] \in Row
  BY <1>1 DEF Row
<1>4. CASE ~snap.fresh
  BY <1>2, <1>3, <1>4 DEF NextRow, Decisive, Alerts, Row
<1> DEFINE until == t + pol.cooldown
           Kept(r) == r \in Row /\ r.cooldownUntil \in {row.cooldownUntil, until}
<1>5. until \in Int
  BY <1>1
<1>6. ASSUME NEW sev \in Ranks, NEW floor \in Nat, NEW u \in Int
      PROVE  Move(row, sev, floor, u) \in Row /\ Move(row, sev, floor, u).cooldownUntil = u
  BY DEF Move, Row
<1>7. ASSUME NEW x \in Nat, NEW y \in Nat
      PROVE  Kept(Count(row, x, y))
  BY DEF Count, Row
<1>8. /\ row.sev \in Ranks /\ row.floor \in Nat
      /\ row.belowSeverity \in Nat /\ row.belowSeverity + 1 \in Nat
      /\ row.belowTrigger \in Nat /\ row.belowTrigger + 1 \in Nat /\ 0 \in Nat
  BY DEF Row
<1>9. CASE snap.fresh /\ snap.breach
  <2> DEFINE n == BreachRow(pol, row, snap, t)
  <2>1. NextRow(pol, row, snap, t) = [n EXCEPT !.highWater = t]
    BY <1>9 DEF NextRow
  <2>2. /\ Kept(Trigger(pol, row, snap, t)) /\ Trigger(pol, row, snap, t).cooldownUntil = until
        /\ Kept(Escalate(pol, row, snap, t)) /\ Escalate(pol, row, snap, t).cooldownUntil = until
    BY <1>5, <1>6, <1>8 DEF Trigger, Escalate, Decisive
  <2>3. Kept(Deescalate(pol, row, snap, t))
    BY <1>5, <1>6, <1>8 DEF Deescalate, Decisive
  <2>4. Kept(Raise(pol, row, snap, t))
    BY <1>7, <1>8, <2>2 DEF Raise
  <2>5. Kept(Lower(pol, row, snap, t))
    BY <1>7, <1>8, <2>3 DEF Lower
  <2>6. Kept(n)
    BY <1>7, <1>8, <2>4, <2>5 DEF BreachRow
  <2>7. Alerts(row, snap, t) => n.cooldownUntil = until
    BY <2>2 DEF Alerts, BreachRow, Raise
  <2> QED BY <1>3, <1>9, <2>1, <2>6, <2>7 DEF Row
<1>10. CASE snap.fresh /\ ~snap.breach
  <2> DEFINE n == QuietRow(pol, row, snap, t)
  <2>1. NextRow(pol, row, snap, t) = [n EXCEPT !.highWater = t]
    BY <1>10 DEF NextRow
  <2>2. Kept(Resolve(pol, row, t))
    BY <1>5, <1>6, <1>8 DEF Resolve, Ranks
  <2>3. Kept(n)
    BY <1>7, <1>8, <2>2 DEF QuietRow
  <2> QED BY <1>3, <1>10, <2>1, <2>3 DEF Row, Alerts
<1> QED BY <1>4, <1>9, <1>10 DEF Decisive

Cooldown(cfg, m) == cfg.policies[m].cooldown

\* An evaluation hands over a well-formed outcome, whose cooldown is the
\* loaded row's or starts at the time of the event.
LEMMA EvaluateFacts ==
    ASSUME NEW cfg \in Config, NEW c, NEW k \in Keys, NEW row \in Row, NEW t \in Times
    PROVE  LET out == Evaluate(cfg, c, k, row, t)
           IN  /\ out \in Outcome
               /\ out.stage = "save" /\ out.key = k /\ out.at = t
               /\ out.next.highWater = t
               /\ out.alert => out.fresh /\ ~Cooling(row, t)
               /\ out.fresh => out.next.cooldownUntil
                                   \in {row.cooldownUntil, t + Cooldown(cfg, k[1])}
               /\ out.alert => out.next.cooldownUntil = t + Cooldown(cfg, k[1])
<1> DEFINE pol == cfg.policies[k[1]]
           snap == Snapshot(pol, LatestQuotesForTime(c[k], t), t,
                            AssessContext(pol, cfg, c, k[2], t))
           out == Evaluate(cfg, c, k, row, t)
<1>1. pol \in Policy
  BY DEF Config, Keys
<1>2. Decisive(snap)
  BY <1>1, SnapshotDecisive
<1>3. out = [stage |-> "save", key |-> k, at |-> t, next |-> NextRow(pol, row, snap, t),
             fresh |-> snap.fresh, alert |-> Alerts(row, snap, t),
             seen |-> IF snap.breach THEN snap.rank ELSE 0]
  BY DEF Evaluate
<1> HIDE DEF snap, out
<1>4. Alerts(row, snap, t) \in BOOLEAN
  BY DEF Alerts
<1>5. (IF snap.breach THEN snap.rank ELSE 0) \in Ranks
  BY <1>2 DEF Decisive, Ranks
<1>6. Alerts(row, snap, t) => snap.fresh /\ ~Cooling(row, t)
  BY <1>2 DEF Alerts, Decisive
<1>7. /\ NextRow(pol, row, snap, t) \in Row
      /\ NextRow(pol, row, snap, t).highWater = t
      /\ snap.fresh =>
            NextRow(pol, row, snap, t).cooldownUntil \in {row.cooldownUntil, t + pol.cooldown}
      /\ Alerts(row, snap, t) => NextRow(pol, row, snap, t).cooldownUntil = t + pol.cooldown
  BY <1>1, <1>2, NextRowFacts
<1>8. snap.fresh \in BOOLEAN
  BY <1>2 DEF Decisive
<1>9. out \in Outcome
  BY <1>3, <1>4, <1>5, <1>7, <1>8 DEF Outcome
<1> QED BY <1>3, <1>6, <1>7, <1>9 DEF Cooldown, out

-----------------------------------------------------------------------------
(***************************************************************************)
(* AlertsSpaced is about an alert that has been decided and not saved.  It *)
(* is inductive together with what the row remembers of the last alert: a  *)
(* high-water mark not below it, and a cooldown that still covers it.  The *)
(* mark is what keeps a late event from starting a resolution's cooldown   *)
(* in the past.                                                            *)
(***************************************************************************)
Core ==
    /\ config \in [Detectors -> Configs]
    /\ rows \in [Keys -> Row]
    /\ work \in [Detectors -> {Idle} \cup Outcome]
    /\ last \in [Keys -> Alert]
    /\ intact \in [Keys -> BOOLEAN]

\* until is at least some configuration's cooldown after from.
Covers(k, from, until) ==
    \E c \in Configs : /\ k[1] \in Settings[c].markets
                       /\ until >= from + Settings[c].policies[k[1]].cooldown

RowRemembers ==
    \A k \in Keys : intact[k] =>
        /\ rows[k].highWater >= last[k].at
        /\ Covers(k, last[k].at, rows[k].cooldownUntil)

OutcomeRemembers ==
    \A d \in Detectors : work[d].stage = "save" =>
        LET w == work[d] IN
        /\ w.next.highWater = w.at
        /\ w.alert => w.fresh /\ Covers(w.key, w.at, w.next.cooldownUntil)
        /\ intact[w.key] =>
              /\ w.at >= last[w.key].at
              /\ w.alert => Covers(w.key, last[w.key].at, w.at)
              /\ w.fresh => Covers(w.key, last[w.key].at, w.next.cooldownUntil)

Spaced == Core /\ RowRemembers /\ OutcomeRemembers

\* Every cooldown is a natural number.
LEMMA CooldownNat ==
    ASSUME NEW c \in Configs, NEW m \in Markets
    PROVE  Settings[c] \in Config /\ Cooldown(Settings[c], m) \in Nat
BY DepegAssumption DEF Config, Policy, Cooldown

\* The initial rows remember nothing and nothing is asked of them.
LEMMA SpacedInit == Init => Spaced
<1> SUFFICES ASSUME Init PROVE Spaced
  OBVIOUS
<1>1. FreshRow \in Row /\ NoAlert \in Alert
  BY DEF FreshRow, Row, Ranks, None, NoAlert, Alert
<1> QED BY <1>1 DEF Init, Spaced, Core, RowRemembers, OutcomeRemembers, Idle

\* An event: the outcome inherits what its row remembers, since it is not
\* late.  Nothing else that the invariant reads changes.
LEMMA SpacedProcessEvent ==
    ASSUME Spaced, NEW d \in Detectors, NEW k \in Keys, NEW s, NEW q, q.at \in Times,
           ProcessEvent(d, k, s, q)
    PROVE  Spaced'
<1>1. /\ UNCHANGED <<config, rows, last, intact>>
      /\ work[d] = Idle /\ k[1] \in Settings[config[d]].markets
  BY DEF ProcessEvent, Accepts
<1>2. CASE UNCHANGED work
  BY <1>1, <1>2 DEF Spaced, Core, RowRemembers, OutcomeRemembers, Covers
<1>3. ASSUME NEW c, ~LateDelivery(rows[k], q.at),
             work' = [work EXCEPT ![d] = Evaluate(Settings[config[d]], c, k, rows[k], q.at)]
      PROVE  Spaced'
  <2> DEFINE cfg == Settings[config[d]]
             out == Evaluate(cfg, c, k, rows[k], q.at)
             m == k[1]
  <2>1. rows[k] \in Row /\ last[k] \in Alert /\ config[d] \in Configs /\ m \in Markets
    BY DEF Spaced, Core, Keys
  <2>2. cfg \in Config /\ Cooldown(cfg, m) \in Nat
    BY <2>1, CooldownNat
  <2>3. /\ out \in Outcome
        /\ out.stage = "save" /\ out.key = k /\ out.at = q.at
        /\ out.next.highWater = q.at
        /\ out.alert => out.fresh /\ ~Cooling(rows[k], q.at)
        /\ out.fresh => out.next.cooldownUntil \in {rows[k].cooldownUntil, q.at + Cooldown(cfg, m)}
        /\ out.alert => out.next.cooldownUntil = q.at + Cooldown(cfg, m)
    BY <2>1, <2>2, EvaluateFacts
  <2> HIDE DEF out, cfg
  <2>4. /\ q.at \in Int /\ q.at >= rows[k].highWater
        /\ rows[k].highWater \in Int /\ rows[k].cooldownUntil \in Int /\ last[k].at \in Int
    BY <1>3, <2>1, DepegAssumption DEF LateDelivery, Row, Alert, Times, None
  <2>5. ASSUME NEW from \in Int, q.at >= from
        PROVE  Covers(k, from, q.at + Cooldown(cfg, m))
    BY <1>1, <2>1, <2>2, <2>4, <2>5 DEF Covers, cfg, Cooldown
  <2>6. work'[d] = out
    BY <1>3 DEF Spaced, Core, out, cfg
  <2>7. out.alert => out.fresh /\ Covers(k, q.at, out.next.cooldownUntil)
    BY <2>3, <2>4, <2>5
  <2>8. ASSUME intact[k]
        PROVE  /\ q.at >= last[k].at
               /\ out.alert => Covers(k, last[k].at, q.at)
               /\ out.fresh => Covers(k, last[k].at, out.next.cooldownUntil)
    <3>1. rows[k].highWater >= last[k].at /\ Covers(k, last[k].at, rows[k].cooldownUntil)
      BY <2>8 DEF Spaced, RowRemembers
    <3>2. q.at >= last[k].at
      BY <2>4, <3>1
    <3>3. Covers(k, last[k].at, q.at + Cooldown(cfg, m))
      BY <2>4, <2>5, <3>2
    <3>4. PICK b \in Configs : /\ m \in Settings[b].markets
                               /\ rows[k].cooldownUntil >= last[k].at + Cooldown(Settings[b], m)
      BY <3>1 DEF Covers, Cooldown
    <3>5. Cooldown(Settings[b], m) \in Nat
      BY <2>1, CooldownNat
    <3>6. out.alert => rows[k].cooldownUntil <= q.at
      BY <2>3, <2>4 DEF Cooling
    <3>7. out.alert => q.at >= last[k].at + Cooldown(Settings[b], m)
      BY <2>4, <3>4, <3>5, <3>6
    <3>8. out.alert => Covers(k, last[k].at, q.at)
      BY <3>4, <3>7 DEF Covers, Cooldown
    <3> QED BY <2>3, <3>1, <3>2, <3>3, <3>8
  <2>9. Core' /\ RowRemembers'
    BY <1>1, <1>3, <2>3 DEF Spaced, Core, RowRemembers, Covers, out, cfg
  <2>10. OutcomeRemembers'
    <3> SUFFICES ASSUME NEW e \in Detectors, work'[e].stage = "save"
                 PROVE  LET w == work'[e] IN
                        /\ w.next.highWater = w.at
                        /\ w.alert => w.fresh /\ Covers(w.key, w.at, w.next.cooldownUntil)
                        /\ intact[w.key] =>
                              /\ w.at >= last[w.key].at
                              /\ w.alert => Covers(w.key, last[w.key].at, w.at)
                              /\ w.fresh => Covers(w.key, last[w.key].at, w.next.cooldownUntil)
      BY <1>1 DEF OutcomeRemembers, Covers
    <3>1. CASE e = d
      BY <2>3, <2>6, <2>7, <2>8, <3>1
    <3>2. CASE e # d
      <4>1. work'[e] = work[e]
        BY <1>3, <3>2 DEF Spaced, Core
      <4> QED BY <4>1 DEF Spaced, OutcomeRemembers
    <3> QED BY <3>1, <3>2
  <2> QED BY <2>9, <2>10 DEF Spaced
<1> QED BY <1>2, <1>3 DEF ProcessEvent

\* Steps that touch neither the rows nor the histories, and decide nothing:
\* what a detector holds stays or is dropped.
LEMMA SpacedQuiet ==
    ASSUME Spaced, UNCHANGED <<rows, last>>,
           config' \in [Detectors -> Configs],
           work' \in [Detectors -> {Idle} \cup Outcome],
           \A e \in Detectors : work'[e].stage = "save" => work'[e] = work[e],
           intact' \in [Keys -> BOOLEAN],
           \A k \in Keys : intact'[k] => intact[k]
    PROVE  Spaced'
<1>1. Core'
  BY DEF Spaced, Core
<1>2. RowRemembers'
  BY DEF Spaced, RowRemembers, Covers
<1>3. OutcomeRemembers'
  <2> SUFFICES ASSUME NEW e \in Detectors, work'[e].stage = "save"
               PROVE  LET w == work'[e] IN
                      /\ w.next.highWater = w.at
                      /\ w.alert => w.fresh /\ Covers(w.key, w.at, w.next.cooldownUntil)
                      /\ intact'[w.key] =>
                            /\ w.at >= last[w.key].at
                            /\ w.alert => Covers(w.key, last[w.key].at, w.at)
                            /\ w.fresh => Covers(w.key, last[w.key].at, w.next.cooldownUntil)
    BY DEF OutcomeRemembers, Covers
  <2>1. work'[e] = work[e]
    OBVIOUS
  <2>2. work[e] \in Outcome
    BY <2>1 DEF Spaced, Core, Idle
  <2>3. work[e].key \in Keys
    BY <2>2 DEF Outcome
  <2> QED BY <2>1, <2>3 DEF Spaced, OutcomeRemembers
<1> QED BY <1>1, <1>2, <1>3 DEF Spaced

\* A save: a saved row remembers the alert it raised, or the one before it; a
\* row that was not saved, or started from nothing, promises nothing more.
\* It takes a single detector: another one's outcome may rest on the old row.
LEMMA SpacedSave ==
    ASSUME Spaced, NEW d, Detectors = {d}, Save(d)
    PROVE  Spaced'
<1> DEFINE w == work[d]
           k == w.key
<1>1. w \in Outcome
  BY DEF Spaced, Core, Save, Idle
<1>2. /\ k \in Keys /\ w.next \in Row /\ w.at \in Times /\ w.seen \in Ranks
      /\ w.fresh \in BOOLEAN /\ w.alert \in BOOLEAN
  BY <1>1 DEF Outcome
<1>3. PICK saved \in BOOLEAN :
        /\ rows' = IF saved THEN [rows EXCEPT ![k] = w.next] ELSE rows
        /\ Record(w, saved)
  BY DEF Save
<1>4. /\ w.next.highWater = w.at
      /\ w.alert => w.fresh /\ Covers(k, w.at, w.next.cooldownUntil)
      /\ intact[k] =>
            /\ w.at >= last[k].at
            /\ w.fresh => Covers(k, last[k].at, w.next.cooldownUntil)
  BY DEF Spaced, OutcomeRemembers, Save
<1>5. /\ last' = IF w.alert THEN [last EXCEPT ![k] = [at |-> w.at, sev |-> w.seen]] ELSE last
      /\ intact' = [intact EXCEPT ![k] = saved /\ w.fresh /\ (w.alert \/ intact[k])]
  BY <1>3 DEF Record, Newest
<1>6. /\ config' = config
      /\ work' = [work EXCEPT ![d] = IF w.alert THEN [w EXCEPT !.stage = "publish"] ELSE Idle]
  BY DEF Save
<1>7. work' \in [Detectors -> {Idle} \cup Outcome] /\ work'[d].stage # "save"
  <2>1. [w EXCEPT !.stage = "publish"] \in Outcome
    BY <1>1 DEF Outcome
  <2>2. [w EXCEPT !.stage = "publish"].stage = "publish" /\ Idle.stage = "idle"
    BY <1>1 DEF Outcome, Idle
  <2> QED BY <1>6, <2>1, <2>2 DEF Spaced, Core
<1>8. rows' \in [Keys -> Row]
  BY <1>2, <1>3 DEF Spaced, Core
<1>9. last' \in [Keys -> Alert]
  <2>1. [at |-> w.at, sev |-> w.seen] \in Alert
    BY <1>2 DEF Alert
  <2> QED BY <1>2, <1>5, <2>1 DEF Spaced, Core
<1>10. intact' \in [Keys -> BOOLEAN]
  BY <1>2, <1>5 DEF Spaced, Core
<1>11. Core'
  BY <1>6, <1>7, <1>8, <1>9, <1>10 DEF Spaced, Core
<1>12. OutcomeRemembers'
  BY <1>7 DEF OutcomeRemembers
<1>13. RowRemembers'
  <2> SUFFICES ASSUME NEW j \in Keys, intact'[j]
               PROVE  /\ rows'[j].highWater >= last'[j].at
                      /\ Covers(j, last'[j].at, rows'[j].cooldownUntil)
    BY DEF RowRemembers, Covers
  <2>1. CASE j # k
    <3>1. rows'[j] = rows[j] /\ last'[j] = last[j] /\ intact[j]
      BY <1>3, <1>5, <2>1 DEF Spaced, Core
    <3> QED BY <3>1 DEF Spaced, RowRemembers
  <2>2. CASE j = k
    <3>1. saved /\ w.fresh /\ (w.alert \/ intact[k])
      BY <1>2, <1>5, <2>2 DEF Spaced, Core
    <3>2. rows'[k] = w.next
      BY <1>2, <1>3, <3>1 DEF Spaced, Core
    <3>3. w.alert => last'[k].at = w.at
      BY <1>2, <1>5 DEF Spaced, Core
    <3>4. ~w.alert => last'[k] = last[k]
      BY <1>5
    <3>5. w.at >= w.at
      BY <1>2, DepegAssumption DEF Times
    <3> QED BY <1>4, <2>2, <3>1, <3>2, <3>3, <3>4, <3>5
  <2> QED BY <2>1, <2>2
<1> QED BY <1>11, <1>12, <1>13 DEF Spaced

\* A clean-up of a row takes back what it promises.
LEMMA SpacedCleanUp ==
    ASSUME Spaced, NEW k \in Keys, CleanUp(k)
    PROVE  Spaced'
<1>1. FreshRow \in Row
  BY DEF FreshRow, Row, Ranks, None
<1>2. /\ UNCHANGED <<config, work, last>>
      /\ rows' = [rows EXCEPT ![k] = FreshRow]
      /\ intact' = [intact EXCEPT ![k] = FALSE]
  BY DEF CleanUp
<1>3. Core'
  BY <1>1, <1>2 DEF Spaced, Core
<1>4. \A j \in Keys : intact'[j] => j # k /\ intact[j] /\ rows'[j] = rows[j]
  BY <1>2 DEF Spaced, Core
<1>5. RowRemembers'
  BY <1>2, <1>4 DEF Spaced, RowRemembers, Covers
<1>6. OutcomeRemembers'
  <2> SUFFICES ASSUME NEW e \in Detectors, work[e].stage = "save"
               PROVE  LET w == work[e] IN
                      /\ w.next.highWater = w.at
                      /\ w.alert => w.fresh /\ Covers(w.key, w.at, w.next.cooldownUntil)
                      /\ intact'[w.key] =>
                            /\ w.at >= last[w.key].at
                            /\ w.alert => Covers(w.key, last[w.key].at, w.at)
                            /\ w.fresh => Covers(w.key, last[w.key].at, w.next.cooldownUntil)
    BY <1>2 DEF OutcomeRemembers, Covers
  <2>1. work[e] \in Outcome
    BY DEF Spaced, Core, Idle
  <2>2. work[e].key \in Keys
    BY <2>1 DEF Outcome
  <2> QED BY <1>4, <2>2 DEF Spaced, OutcomeRemembers
<1> QED BY <1>3, <1>5, <1>6 DEF Spaced

\* Every step of a single detector keeps the invariant.
LEMMA SpacedStep ==
    ASSUME NEW d, Detectors = {d}, Spaced, [Next]_vars
    PROVE  Spaced'
<1>1. /\ config \in [Detectors -> Configs] /\ intact \in [Keys -> BOOLEAN]
      /\ work \in [Detectors -> {Idle} \cup Outcome] /\ Idle.stage = "idle"
  BY DEF Spaced, Core, Idle
<1>2. ASSUME NEW e \in Feed, NEW scope \in Scopes, NEW t \in Times,
             \/ ProcessEvent(d, <<e[1], scope>>, e[2], [at |-> t, price |-> e[3]])
             \/ LoadFails(d, <<e[1], scope>>, e[2], [at |-> t, price |-> e[3]])
      PROVE  Spaced'
  <2> DEFINE k == <<e[1], scope>>
             q == [at |-> t, price |-> e[3]]
  <2>1. k \in Keys /\ q.at \in Times
    BY DepegAssumption DEF Keys
  <2>2. CASE ProcessEvent(d, k, e[2], q)
    BY <2>1, <2>2, SpacedProcessEvent
  <2>3. CASE LoadFails(d, k, e[2], q)
    <3>1. UNCHANGED <<config, rows, work, last, intact>>
      BY <2>3 DEF LoadFails
    <3> QED BY <1>1, <3>1, SpacedQuiet
  <2> QED BY <1>2, <2>2, <2>3
<1>3. CASE Save(d)
  BY <1>3, SpacedSave
<1>4. CASE Publish(d)
  <2>1. PICK sent \in BOOLEAN : intact' = [intact EXCEPT ![work[d].key] = @ /\ sent]
    BY <1>4 DEF Publish
  <2>2. /\ UNCHANGED <<config, rows, last>>
        /\ work' = [work EXCEPT ![d] = Idle]
    BY <1>4 DEF Publish
  <2>3. work[d] \in Outcome
    BY <1>1, <1>4 DEF Publish
  <2>4. work[d].key \in Keys
    BY <2>3 DEF Outcome
  <2>5. intact' \in [Keys -> BOOLEAN] /\ \A k \in Keys : intact'[k] => intact[k]
    BY <1>1, <2>1, <2>4
  <2>6. /\ work' \in [Detectors -> {Idle} \cup Outcome]
        /\ \A e \in Detectors : work'[e].stage # "save"
    BY <1>1, <2>2
  <2> QED BY <1>1, <2>2, <2>5, <2>6, SpacedQuiet
<1>5. ASSUME NEW cfg \in Configs, ReloadConfig(d, cfg)
      PROVE  Spaced'
  <2>1. /\ UNCHANGED <<rows, work, last, intact>>
        /\ config' = [config EXCEPT ![d] = cfg]
    BY <1>5 DEF ReloadConfig
  <2> QED BY <1>1, <2>1, SpacedQuiet
<1>6. ASSUME NEW k \in Keys, CleanUp(k)
      PROVE  Spaced'
  BY <1>6, SpacedCleanUp
<1>7. CASE Crash(d)
  <2>1. /\ UNCHANGED <<config, rows, last>>
        /\ work' = [work EXCEPT ![d] = Idle]
        /\ intact' = [k \in Keys |->
                        intact[k] /\ ~(work[d].stage = "publish" /\ work[d].key = k)]
    BY <1>7 DEF Crash
  <2>2. intact' \in [Keys -> BOOLEAN] /\ \A k \in Keys : intact'[k] => intact[k]
    BY <1>1, <2>1
  <2>3. /\ work' \in [Detectors -> {Idle} \cup Outcome]
        /\ \A e \in Detectors : work'[e].stage # "save"
    BY <1>1, <2>1
  <2> QED BY <1>1, <2>1, <2>2, <2>3, SpacedQuiet
<1>8. CASE UNCHANGED vars
  <2>1. UNCHANGED <<config, rows, work, last, intact>>
    BY <1>8 DEF vars
  <2> QED BY <1>1, <2>1, SpacedQuiet
<1> QED BY <1>2, <1>3, <1>4, <1>5, <1>6, <1>7, <1>8 DEF Next

\* With one detector, and unless a call failed or the row was cleared since
\* the last alert, process_event raises two alerts of a market only a cooldown
\* of some configuration apart, however late its events are delivered.
THEOREM AlertsSpacedHolds ==
    ASSUME NEW d, Detectors = {d}
    PROVE  Spec => []AlertsSpaced
<1>1. Spaced => AlertsSpaced
  BY DEF Spaced, OutcomeRemembers, Covers, AlertsSpaced, Pending
<1>2. Spaced /\ [Next]_vars => Spaced'
  BY SpacedStep
<1> QED BY <1>1, <1>2, SpacedInit, PTL DEF Spec

-----------------------------------------------------------------------------
(***************************************************************************)
(* NewestQuoteUsed.  A history is sorted by time and ends with the newest  *)
(* quote of its source, or is empty and nothing is known of the source:    *)
(* Remembered.                                                             *)
(***************************************************************************)
Sorted(h) == \A i, j \in 1 .. Len(h) : i <= j => h[i].at <= h[j].at

Ends(h, q) == IF h = <<>> THEN q = NoQuote ELSE q = h[Len(h)]

Filed(h, q) == h \in Seq(Quote) /\ Sorted(h) /\ Ends(h, q)

Histories ==
    /\ cache \in [Detectors -> [Keys -> [Sources -> Seq(Quote)]]]
    /\ newest \in [Detectors -> [Keys -> [Sources -> Quote \cup {NoQuote}]]]

Remembered ==
    \A d \in Detectors, k \in Keys, s \in Sources : Filed(cache[d][k][s], newest[d][k][s])

\* In a sorted history the quotes up to a time are the first ones.
LEMMA CountUpTo ==
    ASSUME NEW h \in Seq(Quote), Sorted(h), NEW t \in Times
    PROVE  LET n == Cardinality({i \in DOMAIN h : h[i].at <= t})
           IN  n \in 0 .. Len(h) /\ \A i \in 1 .. Len(h) : h[i].at <= t <=> i <= n
<1> DEFINE A == {i \in DOMAIN h : h[i].at <= t}
           n == Cardinality(A)
           m == Len(h)
<1>1. m \in Nat /\ DOMAIN h = 1 .. m
  OBVIOUS
<1>2. t \in Int /\ \A i \in 1 .. m : h[i].at \in Int
  <2>1. \A i \in 1 .. m : h[i] \in Quote
    OBVIOUS
  <2> QED BY <2>1, DepegAssumption DEF Quote, Times
<1>3. A \subseteq 1 .. m
  BY <1>1
<1> HIDE DEF A, n, m
<1>0. \A j \in Nat : IsFiniteSet(1 .. j) /\ Cardinality(1 .. j) = j
  <2> SUFFICES ASSUME NEW j \in Nat PROVE IsFiniteSet(1 .. j) /\ Cardinality(1 .. j) = j
    OBVIOUS
  <2>1. IsFiniteSet(1 .. j) /\ Cardinality(1 .. j) = IF 1 > j THEN 0 ELSE j - 1 + 1
    BY FS_Interval
  <2> QED BY <2>1
<1>4. IsFiniteSet(A) /\ n \in Nat /\ n <= m
  <2>1. IsFiniteSet(1 .. m) /\ Cardinality(1 .. m) = m
    BY <1>0, <1>1
  <2>2. IsFiniteSet(A) /\ Cardinality(A) <= Cardinality(1 .. m)
    BY <1>3, <2>1, FS_Subset
  <2>3. Cardinality(A) \in Nat
    BY <2>2, FS_CardinalityType
  <2> QED BY <2>1, <2>2, <2>3 DEF n
<1>5. ASSUME NEW i \in 1 .. m, h[i].at <= t PROVE i <= n
  <2>1. 1 .. i \subseteq A
    BY <1>1, <1>2, <1>5 DEF Sorted, A, m
  <2>2. Cardinality(1 .. i) = i
    BY <1>0, <1>1
  <2>3. Cardinality(1 .. i) <= n
    BY <1>4, <2>1, FS_Subset DEF n
  <2> QED BY <2>2, <2>3
<1>6. ASSUME NEW i \in 1 .. m, ~(h[i].at <= t) PROVE ~(i <= n)
  <2>1. A \subseteq 1 .. i - 1
    BY <1>1, <1>2, <1>6 DEF Sorted, A, m
  <2>2. IsFiniteSet(1 .. i - 1) /\ Cardinality(1 .. i - 1) = i - 1
    BY <1>0, <1>1
  <2>3. n <= Cardinality(1 .. i - 1)
    BY <2>1, <2>2, FS_Subset DEF n
  <2> QED BY <1>1, <1>4, <2>2, <2>3
<1> QED BY <1>1, <1>4, <1>5, <1>6 DEF n, A, m

\* The greater of zero and an integer.
LEMMA MaxZero ==
    ASSUME NEW x \in Int
    PROVE  Max({0, x}) = IF x > 0 THEN x ELSE 0
<1> DEFINE m == IF x > 0 THEN x ELSE 0
<1>1. m \in {0, x} /\ \A y \in {0, x} : m >= y
  OBVIOUS
<1>2. \A z \in {0, x} : (\A y \in {0, x} : z >= y) => z = m
  OBVIOUS
<1> QED BY <1>1, <1>2 DEF Max

\* A quote put behind the ones that are not newer keeps the history sorted.
LEMMA InsertFacts ==
    ASSUME NEW h \in Seq(Quote), Sorted(h), NEW q \in Quote, NEW n \in 0 .. Len(h),
           \A i \in 1 .. Len(h) : h[i].at <= q.at <=> i <= n
    PROVE  LET g == SubSeq(h, 1, n) \o <<q>> \o SubSeq(h, n + 1, Len(h))
           IN  /\ g \in Seq(Quote) /\ Sorted(g) /\ Len(g) = Len(h) + 1
               /\ g[Len(g)] = IF n = Len(h) THEN q ELSE h[Len(h)]
<1> DEFINE m == Len(h)
           a == SubSeq(h, 1, n)
           b == SubSeq(h, n + 1, m)
           aq == a \o <<q>>
           g == aq \o b
<1>1. m \in Nat /\ n \in Nat /\ n <= m /\ (\A i \in 1 .. m : h[i] \in Quote)
  OBVIOUS
<1>2. a \in Seq(Quote) /\ Len(a) = n /\ \A i \in 1 .. n : a[i] = h[i]
  <2>1. \A i \in 1 .. n : h[i] \in Quote
    BY <1>1
  <2>2. /\ a \in Seq(Quote)
        /\ Len(a) = IF 1 <= n THEN n - 1 + 1 ELSE 0
        /\ \A i \in 1 .. n - 1 + 1 : a[i] = h[1 + i - 1]
    BY <1>1, <2>1, SubSeqProperties
  <2> HIDE DEF a
  <2> QED BY <1>1, <2>2
<1>3. b \in Seq(Quote) /\ Len(b) = m - n /\ \A i \in 1 .. m - n : b[i] = h[n + i]
  <2>1. \A i \in n + 1 .. m : h[i] \in Quote
    BY <1>1
  <2>2. /\ b \in Seq(Quote)
        /\ Len(b) = IF n + 1 <= m THEN m - (n + 1) + 1 ELSE 0
        /\ \A i \in 1 .. m - (n + 1) + 1 : b[i] = h[n + 1 + i - 1]
    BY <1>1, <2>1, SubSeqProperties
  <2> HIDE DEF b, m
  <2> QED BY <1>1, <2>2
<1> HIDE DEF a, b, m
<1>4. /\ aq \in Seq(Quote) /\ Len(aq) = n + 1 /\ aq[n + 1] = q
      /\ \A i \in 1 .. n : aq[i] = h[i]
  BY <1>1, <1>2
<1> HIDE DEF aq
<1>5. /\ g \in Seq(Quote) /\ Len(g) = m + 1
      /\ \A i \in 1 .. m + 1 : g[i] = IF i <= n + 1 THEN aq[i] ELSE b[i - (n + 1)]
  BY <1>1, <1>3, <1>4, ConcatProperties
<1> HIDE DEF g
<1>6. \A i \in 1 .. m + 1 :
        g[i] = IF i <= n THEN h[i] ELSE IF i = n + 1 THEN q ELSE h[i - 1]
  <2> SUFFICES ASSUME NEW i \in 1 .. m + 1
               PROVE  g[i] = IF i <= n THEN h[i] ELSE IF i = n + 1 THEN q ELSE h[i - 1]
    OBVIOUS
  <2>1. CASE i <= n + 1
    BY <1>1, <1>4, <1>5, <2>1
  <2>2. CASE i > n + 1
    <3>1. i - (n + 1) \in 1 .. m - n /\ n + (i - (n + 1)) = i - 1
      BY <1>1, <2>2
    <3>2. g[i] = b[i - (n + 1)]
      BY <1>1, <1>5, <2>2
    <3>3. b[i - (n + 1)] = h[i - 1]
      BY <1>3, <3>1
    <3> QED BY <1>1, <2>2, <3>2, <3>3
  <2> QED BY <1>1, <2>1, <2>2
<1>7. g[m + 1] = IF n = m THEN q ELSE h[m]
  BY <1>1, <1>6
<1>8. q.at \in Int /\ \A i \in 1 .. m : h[i].at \in Int
  BY <1>1, DepegAssumption DEF Quote, Times
<1>9. Sorted(g)
  <2> SUFFICES ASSUME NEW i \in 1 .. m + 1, NEW j \in 1 .. m + 1, i < j
               PROVE  g[i].at <= g[j].at
    <3>1. \A i \in 1 .. m + 1 : g[i].at \in Int
      <4>1. \A i \in 1 .. m + 1 : g[i] \in Quote
        BY <1>5
      <4> QED BY <4>1, DepegAssumption DEF Quote, Times
    <3> QED BY <1>1, <1>5, <3>1 DEF Sorted
  <2>1. CASE j <= n
    BY <1>1, <1>6, <2>1 DEF Sorted, m
  <2>2. CASE j = n + 1
    BY <1>1, <1>6, <2>2 DEF m
  <2>3. CASE i = n + 1
    <3>1. g[i] = q /\ g[j] = h[j - 1] /\ j - 1 \in 1 .. m /\ ~(j - 1 <= n)
      BY <1>1, <1>6, <2>3
    <3> QED BY <1>8, <3>1 DEF m
  <2>4. CASE i <= n /\ j > n + 1
    <3>1. g[i] = h[i] /\ g[j] = h[j - 1] /\ i \in 1 .. m /\ j - 1 \in 1 .. m /\ i <= j - 1
      BY <1>1, <1>6, <2>4
    <3> QED BY <3>1 DEF Sorted, m
  <2>5. CASE i > n + 1
    <3>1. g[i] = h[i - 1] /\ g[j] = h[j - 1] /\ i - 1 \in 1 .. m /\ j - 1 \in 1 .. m /\ i - 1 <= j - 1
      BY <1>1, <1>6, <2>5
    <3> QED BY <3>1 DEF Sorted, m
  <2> QED BY <1>1, <2>1, <2>2, <2>3, <2>4, <2>5
<1> QED BY <1>5, <1>7, <1>9 DEF g, aq, a, b, m

\* remember_quote keeps a history sorted, never loses the newest quote, and
\* prefers the later arrival among quotes of one time.
LEMMA RememberFacts ==
    ASSUME NEW h \in Seq(Quote), Sorted(h), NEW q \in Quote
    PROVE  LET g == RememberQuote(h, q)
           IN  /\ g \in Seq(Quote) /\ Sorted(g) /\ g # <<>>
               /\ g[Len(g)] = IF h = <<>> \/ q.at >= h[Len(h)].at THEN q ELSE h[Len(h)]
<1> DEFINE n == Cardinality({i \in DOMAIN h : h[i].at <= q.at})
           grown == IF n > 0 /\ h[n] = q
                    THEN h
                    ELSE SubSeq(h, 1, n) \o <<q>> \o SubSeq(h, n + 1, Len(h))
           drop == Max({0, Len(grown) - MaxHistory})
           g == SubSeq(grown, drop + 1, Len(grown))
           final == IF h = <<>> \/ q.at >= h[Len(h)].at THEN q ELSE h[Len(h)]
<1>1. RememberQuote(h, q) = g
  BY DEF RememberQuote
<1>2. q.at \in Times
  BY DEF Quote
<1>3. n \in 0 .. Len(h) /\ \A i \in 1 .. Len(h) : h[i].at <= q.at <=> i <= n
  BY <1>2, CountUpTo
<1>4. h # <<>> => Len(h) \in Nat \ {0} /\ h[Len(h)].at \in Int /\ q.at \in Int
  <2>1. h # <<>> => Len(h) \in Nat \ {0} /\ h[Len(h)] \in Quote
    OBVIOUS
  <2> QED BY <1>2, <2>1, DepegAssumption DEF Quote, Times
<1>5. h = <<>> => n = 0 /\ Len(h) = 0
  BY <1>3
<1> HIDE DEF n
<1>6. n = Len(h) <=> h = <<>> \/ q.at >= h[Len(h)].at
  BY <1>3, <1>4, <1>5
<1>7. /\ grown \in Seq(Quote) /\ Sorted(grown) /\ Len(grown) \in Nat \ {0}
      /\ grown[Len(grown)] = final
  <2>1. CASE n > 0 /\ h[n] = q
    <3>1. h # <<>> /\ grown = h
      BY <1>3, <1>5, <2>1
    <3>2. h[Len(h)] = final
      BY <1>6, <2>1, <3>1
    <3> QED BY <1>4, <3>1, <3>2
  <2>2. CASE ~(n > 0 /\ h[n] = q)
    <3> DEFINE w == SubSeq(h, 1, n) \o <<q>> \o SubSeq(h, n + 1, Len(h))
    <3>1. grown = w
      BY <2>2
    <3>2. /\ w \in Seq(Quote) /\ Sorted(w) /\ Len(w) = Len(h) + 1
          /\ w[Len(w)] = IF n = Len(h) THEN q ELSE h[Len(h)]
      BY <1>3, InsertFacts
    <3>3. Len(h) \in Nat
      OBVIOUS
    <3> HIDE DEF w, grown
    <3>4. w[Len(w)] = final
      BY <1>6, <3>2
    <3> QED BY <3>1, <3>2, <3>3, <3>4
  <2> QED BY <2>1, <2>2
<1> HIDE DEF grown, final
<1> DEFINE z == Len(grown)
<1>8. drop \in 0 .. z - 1
  <2>1. z - MaxHistory \in Int /\ MaxHistory \in Nat \ {0} /\ z \in Nat \ {0}
    BY <1>7, DepegAssumption
  <2> HIDE DEF z
  <2>2. Max({0, z - MaxHistory}) = IF z - MaxHistory > 0 THEN z - MaxHistory ELSE 0
    BY <2>1, MaxZero
  <2>3. Max({0, z - MaxHistory}) \in 0 .. z - 1
    BY <2>1, <2>2
  <2> QED BY <2>3 DEF z
<1>9. z \in Nat \ {0} /\ \A i \in 1 .. z : grown[i] \in Quote
  BY <1>7
<1> HIDE DEF drop, z
<1>10. /\ SubSeq(grown, drop + 1, z) \in Seq(Quote)
       /\ Len(SubSeq(grown, drop + 1, z)) = IF drop + 1 <= z THEN z - (drop + 1) + 1 ELSE 0
       /\ \A i \in 1 .. z - (drop + 1) + 1 :
             SubSeq(grown, drop + 1, z)[i] = grown[drop + 1 + i - 1]
  <2>1. drop + 1 \in Int /\ z \in Int /\ \A i \in drop + 1 .. z : grown[i] \in Quote
    BY <1>8, <1>9
  <2> QED BY <2>1, SubSeqProperties
<1>11. g = SubSeq(grown, drop + 1, z)
  BY DEF z
<1> HIDE DEF g
<1>12. /\ g \in Seq(Quote) /\ Len(g) = z - drop /\ Len(g) \in Nat \ {0}
       /\ \A i \in 1 .. z - drop : g[i] = grown[drop + i]
  BY <1>8, <1>9, <1>10, <1>11
<1>13. Sorted(g)
  <2> SUFFICES ASSUME NEW i \in 1 .. z - drop, NEW j \in 1 .. z - drop, i <= j
               PROVE  g[i].at <= g[j].at
    BY <1>12 DEF Sorted
  <2>1. drop + i \in 1 .. z /\ drop + j \in 1 .. z /\ drop + i <= drop + j
    BY <1>8, <1>9
  <2>2. grown[drop + i].at <= grown[drop + j].at
    BY <1>7, <2>1 DEF Sorted, z
  <2> QED BY <1>12, <2>2
<1>14. g[Len(g)] = final
  <2>1. z - drop \in 1 .. z - drop /\ drop + (z - drop) = z
    BY <1>8, <1>9
  <2>2. g[z - drop] = grown[z]
    BY <1>12, <2>1
  <2> QED BY <1>7, <1>12, <2>2 DEF z
<1>15. g # <<>>
  BY <1>12
<1> QED BY <1>1, <1>12, <1>13, <1>14, <1>15 DEF final

\* A cache c1 in which each market has lost its quotes, has kept them, or, in
\* the market k, has remembered one more.
Follows(c1, c, k, s, q) ==
    /\ DOMAIN c1 = Keys
    /\ \A j \in Keys : \/ c1[j] = NoQuotes
                       \/ j # k /\ c1[j] = c[j]
                       \/ j = k /\ c1[j] = [c[j] EXCEPT ![s] = RememberQuote(c[k][s], q)]

\* An event leaves every market's quotes alone, forgets them all, or, in its
\* own market, remembers its quote.
LEMMA CachesAfterFacts ==
    ASSUME NEW c \in [Keys -> [Sources -> Seq(Quote)]], NEW k \in Keys, NEW s \in Sources,
           NEW q, NEW c1 \in CachesAfter(c, k, s, q)
    PROVE  Follows(c1, c, k, s, q)
<1> DEFINE ended == EndOtherRuns(c, k)
           c0 == [ended EXCEPT ![k] = [ended[k] EXCEPT ![s] = RememberQuote(ended[k][s], q)]]
<1>1. /\ DOMAIN ended = Keys /\ ended[k] = c[k]
      /\ \A j \in Keys : ended[j] \in {NoQuotes, c[j]}
  BY DEF EndOtherRuns, Forget
<1> HIDE DEF ended
<1>2. /\ DOMAIN c0 = Keys
      /\ c0[k] = [c[k] EXCEPT ![s] = RememberQuote(c[k][s], q)]
      /\ \A j \in Keys : j # k => c0[j] = ended[j]
  BY <1>1
<1>3. c1 \in PruneQuoteCache(c0, k, q.at)
  BY DEF CachesAfter, ended
<1> HIDE DEF c0
<1>4. PICK K : c1 = Forget(c0, K)
  BY <1>3 DEF PruneQuoteCache
<1>5. DOMAIN c1 = Keys /\ \A j \in Keys : c1[j] \in {NoQuotes, c0[j]}
  BY <1>4 DEF Forget
<1> QED BY <1>1, <1>2, <1>5 DEF Follows

\* Caching a quote keeps every history filed, in whatever order quotes come.
LEMMA CacheQuoteFiles ==
    ASSUME Histories, Remembered, NEW d \in Detectors, NEW k \in Keys, NEW s \in Sources,
           NEW q \in Quote, NEW c \in CachesAfter(cache[d], k, s, q), CacheQuote(d, k, s, q, c)
    PROVE  Histories' /\ Remembered'
<1>1. cache[d] \in [Keys -> [Sources -> Seq(Quote)]]
  BY DEF Histories
<1>2. newest[d] \in [Keys -> [Sources -> Quote \cup {NoQuote}]]
  BY DEF Histories
<1>3. /\ DOMAIN c = Keys
      /\ \A j \in Keys : \/ c[j] = NoQuotes
                         \/ j # k /\ c[j] = cache[d][j]
                         \/ j = k /\ c[j] = [cache[d][j] EXCEPT ![s] = RememberQuote(cache[d][k][s], q)]
  <2>1. Follows(c, cache[d], k, s, q)
    BY <1>1, CachesAfterFacts
  <2> QED BY <2>1 DEF Follows
<1> DEFINE new == [j \in Keys |-> [r \in Sources |->
              IF c[j] = NoQuotes THEN NoQuote
              ELSE IF <<j, r>> = <<k, s>> /\ q.at >= newest[d][j][r].at THEN q
              ELSE newest[d][j][r]]]
<1>4. /\ cache' = [cache EXCEPT ![d] = c]
      /\ newest' = [newest EXCEPT ![d] = new]
  BY Zenon DEF CacheQuote
<1>5. ASSUME NEW j \in Keys, NEW r \in Sources PROVE Filed(c[j][r], new[j][r])
  <2>1. Filed(cache[d][j][r], newest[d][j][r])
    BY DEF Remembered
  <2>2. CASE c[j] = NoQuotes
    <3>1. c[j][r] = <<>> /\ new[j][r] = NoQuote
      BY <2>2 DEF NoQuotes
    <3> QED BY <3>1 DEF Filed, Sorted, Ends
  <2>3. CASE c[j] # NoQuotes /\ <<j, r>> # <<k, s>>
    <3>1. c[j][r] = cache[d][j][r]
      BY <1>1, <1>3, <2>3
    <3>2. new[j][r] = newest[d][j][r]
      BY <2>3
    <3> QED BY <2>1, <3>1, <3>2
  <2>4. CASE c[j] # NoQuotes /\ <<j, r>> = <<k, s>>
    <3> DEFINE h == cache[d][k][s]
               g == RememberQuote(h, q)
               p == newest[d][k][s]
    <3>1. j = k /\ r = s
      BY <2>4
    <3>2. c[j][r] = g /\ new[j][r] = IF q.at >= p.at THEN q ELSE p
      BY <1>1, <1>3, <2>4, <3>1
    <3>3. h \in Seq(Quote) /\ Sorted(h) /\ Ends(h, p)
      BY <2>1, <3>1 DEF Filed
    <3>4. /\ g \in Seq(Quote) /\ Sorted(g) /\ g # <<>>
          /\ g[Len(g)] = IF h = <<>> \/ q.at >= h[Len(h)].at THEN q ELSE h[Len(h)]
      BY <3>3, RememberFacts
    <3>5. h = <<>> => p = NoQuote /\ q.at >= p.at
      BY <3>3, DepegAssumption DEF Ends, NoQuote, None, Quote, Times
    <3>6. h # <<>> => p = h[Len(h)]
      BY <3>3 DEF Ends
    <3> HIDE DEF g, h, p, new
    <3>7. g[Len(g)] = new[j][r]
      BY <3>2, <3>4, <3>5, <3>6
    <3> QED BY <3>2, <3>4, <3>7 DEF Filed, Ends
  <2> QED BY <2>2, <2>3, <2>4
<1>6. new \in [Keys -> [Sources -> Quote \cup {NoQuote}]]
  BY <1>2
<1> HIDE DEF new
<1>7. c \in [Keys -> [Sources -> Seq(Quote)]]
  <2>1. \A j \in Keys : c[j] \in [Sources -> Seq(Quote)]
    <3> SUFFICES ASSUME NEW j \in Keys PROVE c[j] \in [Sources -> Seq(Quote)]
      OBVIOUS
    <3>1. DOMAIN c[j] = Sources
      BY <1>1, <1>3 DEF NoQuotes
    <3>2. c[j] = [r \in Sources |-> c[j][r]]
      <4>1. CASE c[j] = NoQuotes
        BY <4>1 DEF NoQuotes
      <4>2. CASE c[j] = cache[d][j]
        BY <1>1, <4>2
      <4>3. CASE c[j] = [cache[d][j] EXCEPT ![s] = RememberQuote(cache[d][k][s], q)]
        BY <1>1, <4>3
      <4> QED BY <1>3, <4>1, <4>2, <4>3
    <3>3. \A r \in Sources : c[j][r] \in Seq(Quote)
      BY <1>5 DEF Filed
    <3> QED BY <3>2, <3>3
  <2>2. c = [j \in Keys |-> c[j]]
    <3>1. PICK K, c0 : c = Forget(c0, K)
      BY DEF CachesAfter, PruneQuoteCache
    <3> QED BY <3>1 DEF Forget
  <2> QED BY <2>1, <2>2
<1>8. Histories'
  BY <1>4, <1>6, <1>7 DEF Histories
<1>9. Remembered'
  <2> SUFFICES ASSUME NEW e \in Detectors, NEW j \in Keys, NEW r \in Sources
               PROVE  Filed(cache'[e][j][r], newest'[e][j][r])
    BY DEF Remembered
  <2>1. CASE e = d
    BY <1>4, <1>5, <2>1 DEF Histories
  <2>2. CASE e # d
    <3>1. cache'[e] = cache[e] /\ newest'[e] = newest[e]
      BY <1>4, <2>2 DEF Histories
    <3> QED BY <3>1 DEF Remembered
  <2> QED BY <2>1, <2>2
<1> QED BY <1>8, <1>9

\* The steps: an event files its quote, a crash forgets all, the rest leave
\* the quotes alone.
LEMMA RememberedStep ==
    ASSUME Histories, Remembered, [Next]_vars
    PROVE  Histories' /\ Remembered'
<1>1. ASSUME UNCHANGED <<cache, newest>> PROVE Histories' /\ Remembered'
  BY <1>1 DEF Histories, Remembered
<1>2. ASSUME NEW d \in Detectors, NEW e \in Feed, NEW scope \in Scopes, NEW t \in Times,
             \/ ProcessEvent(d, <<e[1], scope>>, e[2], [at |-> t, price |-> e[3]])
             \/ LoadFails(d, <<e[1], scope>>, e[2], [at |-> t, price |-> e[3]])
      PROVE  Histories' /\ Remembered'
  <2> DEFINE k == <<e[1], scope>>
             q == [at |-> t, price |-> e[3]]
  <2>1. k \in Keys /\ e[2] \in Sources /\ q \in Quote
    BY DepegAssumption DEF Keys, Quote, Prices
  <2>2. \E c \in CachesAfter(cache[d], k, e[2], q) : CacheQuote(d, k, e[2], q, c)
    BY <1>2 DEF ProcessEvent, LoadFails
  <2> HIDE DEF k, q
  <2> QED BY <2>1, <2>2, CacheQuoteFiles
<1>3. ASSUME NEW d \in Detectors, Crash(d) PROVE Histories' /\ Remembered'
  <2> DEFINE none == [k \in Keys |-> NoQuotes]
             nil == [k \in Keys |-> [s \in Sources |-> NoQuote]]
  <2>1. cache' = [cache EXCEPT ![d] = none] /\ newest' = [newest EXCEPT ![d] = nil]
    BY <1>3 DEF Crash
  <2>2. NoQuotes \in [Sources -> Seq(Quote)] /\ \A s \in Sources : NoQuotes[s] = <<>>
    BY DEF NoQuotes
  <2>3. /\ none \in [Keys -> [Sources -> Seq(Quote)]]
        /\ nil \in [Keys -> [Sources -> Quote \cup {NoQuote}]]
    BY <2>2
  <2>4. \A k \in Keys, s \in Sources : none[k][s] = <<>> /\ nil[k][s] = NoQuote
    BY <2>2
  <2>5. Filed(<<>>, NoQuote)
    BY DEF Filed, Sorted, Ends
  <2> HIDE DEF none, nil
  <2>6. Histories'
    BY <2>1, <2>3 DEF Histories
  <2>7. Remembered'
    <3> SUFFICES ASSUME NEW e \in Detectors, NEW j \in Keys, NEW r \in Sources
                 PROVE  Filed(cache'[e][j][r], newest'[e][j][r])
      BY DEF Remembered
    <3>1. CASE e = d
      BY <2>1, <2>4, <2>5, <3>1 DEF Histories
    <3>2. CASE e # d
      <4>1. cache'[e] = cache[e] /\ newest'[e] = newest[e]
        BY <2>1, <3>2 DEF Histories
      <4> QED BY <4>1 DEF Remembered
    <3> QED BY <3>1, <3>2
  <2> QED BY <2>6, <2>7
<1>4. ASSUME NEW d \in Detectors,
             \/ Save(d) \/ Publish(d) \/ (\E cfg \in Configs : ReloadConfig(d, cfg))
             \/ (\E k \in Keys : CleanUp(k))
      PROVE  Histories' /\ Remembered'
  <2>1. UNCHANGED <<cache, newest>>
    BY <1>4 DEF Save, Publish, ReloadConfig, CleanUp
  <2> QED BY <1>1, <2>1
<1>5. CASE UNCHANGED vars
  BY <1>1, <1>5 DEF vars
<1> QED BY <1>2, <1>3, <1>4, <1>5 DEF Next

\* The initial state is well-formed and remembers no quote.
LEMMA TypeInit == Init => TypeOK /\ Remembered
<1> SUFFICES ASSUME Init PROVE TypeOK /\ Remembered
  OBVIOUS
<1>1. NoQuotes \in [Sources -> Seq(Quote)] /\ \A s \in Sources : NoQuotes[s] = <<>>
  BY DEF NoQuotes
<1>2. FreshRow \in Row /\ NoAlert \in Alert
  BY DEF FreshRow, Row, Ranks, None, NoAlert, Alert
<1>3. TypeOK
  BY <1>1, <1>2, DepegAssumption DEF Init, TypeOK
<1>4. Filed(<<>>, NoQuote)
  BY DEF Filed, Sorted, Ends
<1>5. \A d \in Detectors, k \in Keys, s \in Sources :
         cache[d][k][s] = <<>> /\ newest[d][k][s] = NoQuote
  BY <1>1 DEF Init
<1> QED BY <1>3, <1>4, <1>5 DEF Remembered

\* In whatever order the quotes of a source arrive, and for any bound on the
\* history and the cache, latest_quotes_for_time returns the newest quote of
\* the source at its time or later: for any number of detectors, and with any
\* failures and crashes.
THEOREM NewestQuoteUsedHolds == Spec => []NewestQuoteUsed
<1>1. Init => Histories /\ Remembered
  BY TypeInit DEF TypeOK, Histories
<1>2. Histories /\ Remembered /\ [Next]_vars => Histories' /\ Remembered'
  BY RememberedStep
<1>3. Histories /\ Remembered => NewestQuoteUsed
  <2> SUFFICES ASSUME Histories, Remembered, NEW d \in Detectors, NEW k \in Keys,
                      NEW s \in Sources, NEW t \in Times, t >= newest[d][k][s].at
               PROVE  LatestQuotesForTime(cache[d][k], t)[s] = newest[d][k][s]
    BY DEF NewestQuoteUsed
  <2> DEFINE h == cache[d][k][s]
             past == {i \in DOMAIN h : h[i].at <= t}
  <2>1. Filed(h, newest[d][k][s])
    BY DEF Remembered
  <2>2. LatestQuotesForTime(cache[d][k], t)[s] = IF past = {} THEN NoQuote ELSE h[Max(past)]
    BY DEF LatestQuotesForTime
  <2> HIDE DEF h
  <2>3. h \in Seq(Quote) /\ Sorted(h) /\ Ends(h, newest[d][k][s])
    BY <2>1 DEF Filed
  <2>4. CASE h = <<>>
    BY <2>2, <2>3, <2>4 DEF Ends
  <2>5. CASE h # <<>>
    <3>1. Len(h) \in Nat \ {0} /\ DOMAIN h = 1 .. Len(h) /\ newest[d][k][s] = h[Len(h)]
      BY <2>3, <2>5 DEF Ends
    <3>2. t \in Int /\ \A i \in 1 .. Len(h) : h[i].at \in Int
      <4>1. \A i \in 1 .. Len(h) : h[i] \in Quote
        BY <2>3
      <4> QED BY <4>1, DepegAssumption DEF Quote, Times
    <3>3. \A i \in 1 .. Len(h) : h[i].at <= h[Len(h)].at
      BY <2>3, <3>1 DEF Sorted
    <3>4. past = 1 .. Len(h)
      BY <3>1, <3>2, <3>3
    <3>5. Max(1 .. Len(h)) = Len(h)
      <4> DEFINE m == Len(h)
      <4>1. m \in Nat \ {0}
        BY <3>1
      <4> HIDE DEF m
      <4>2. m \in 1 .. m /\ \A y \in 1 .. m : m >= y
        BY <4>1
      <4>3. \A x \in 1 .. m : (\A y \in 1 .. m : x >= y) => x = m
        BY <4>1, <4>2
      <4>4. Max(1 .. m) = m
        BY <4>2, <4>3 DEF Max
      <4> QED BY <4>4 DEF m
    <3>6. past # {}
      BY <3>1, <3>4
    <3> HIDE DEF past
    <3> QED BY <2>2, <3>1, <3>4, <3>5, <3>6
  <2> QED BY <2>4, <2>5
<1> QED BY <1>1, <1>2, <1>3, PTL DEF Spec

-----------------------------------------------------------------------------
(* Types. *)

\* An event: the histories stay filed and the outcome is well-formed.
LEMMA TypeEvent ==
    ASSUME TypeOK, Histories', NEW d \in Detectors, NEW k \in Keys, NEW s, NEW q, q.at \in Times,
           ProcessEvent(d, k, s, q)
    PROVE  TypeOK'
<1>1. UNCHANGED <<config, rows, faults, announced, last, intact, streak, lulled>>
  BY DEF ProcessEvent
<1>2. work' \in [Detectors -> {Idle} \cup Outcome]
  <2>1. CASE UNCHANGED work
    BY <2>1 DEF TypeOK
  <2>2. ASSUME NEW c, work' = [work EXCEPT ![d] = Evaluate(Settings[config[d]], c, k, rows[k], q.at)]
        PROVE  work' \in [Detectors -> {Idle} \cup Outcome]
    <3> DEFINE out == Evaluate(Settings[config[d]], c, k, rows[k], q.at)
    <3>1. rows[k] \in Row /\ Settings[config[d]] \in Config
      BY DepegAssumption DEF TypeOK
    <3>2. out \in Outcome
      BY <3>1, EvaluateFacts
    <3> HIDE DEF out
    <3>3. work' = [work EXCEPT ![d] = out]
      BY <2>2 DEF out
    <3> QED BY <3>2, <3>3 DEF TypeOK
  <2> QED BY <2>1, <2>2 DEF ProcessEvent
<1> QED BY <1>1, <1>2 DEF TypeOK, Histories

\* What Save records of an outcome is well-formed.
LEMMA TypeSave ==
    ASSUME TypeOK, NEW d \in Detectors, Save(d), faults' \in 0 .. MaxFaults
    PROVE  TypeOK'
<1> DEFINE w == work[d]
           k == w.key
<1>1. w \in Outcome
  BY DEF TypeOK, Save, Idle
<1>2. /\ k \in Keys /\ w.next \in Row /\ w.at \in Times /\ w.seen \in Ranks
      /\ w.fresh \in BOOLEAN /\ w.alert \in BOOLEAN
  BY <1>1 DEF Outcome
<1>3. UNCHANGED <<config, cache, announced, newest>>
  BY DEF Save
<1>4. PICK saved \in BOOLEAN :
        /\ rows' = IF saved THEN [rows EXCEPT ![k] = w.next] ELSE rows
        /\ Record(w, saved)
  BY DEF Save
<1>5. work' \in [Detectors -> {Idle} \cup Outcome]
  <2>1. [w EXCEPT !.stage = "publish"] \in Outcome
    BY <1>1 DEF Outcome
  <2>2. work' = [work EXCEPT ![d] = IF w.alert THEN [w EXCEPT !.stage = "publish"] ELSE Idle]
    BY DEF Save
  <2> QED BY <2>1, <2>2 DEF TypeOK
<1>6. rows' \in [Keys -> Row]
  BY <1>2, <1>4 DEF TypeOK
<1>7. last' \in [Keys -> Alert]
  <2>1. [at |-> w.at, sev |-> w.seen] \in Alert
    BY <1>2 DEF Alert
  <2>2. last' = IF w.alert THEN [last EXCEPT ![k] = [at |-> w.at, sev |-> w.seen]] ELSE last
    BY <1>4 DEF Record, Newest
  <2> QED BY <1>2, <2>1, <2>2 DEF TypeOK
<1>8. intact' \in [Keys -> BOOLEAN]
  <2>1. intact' = [intact EXCEPT ![k] = saved /\ w.fresh /\ (w.alert \/ intact[k])]
    BY <1>4 DEF Record
  <2> QED BY <1>2, <2>1 DEF TypeOK
<1> DEFINE run == IF w.seen >= last[k].sev THEN 0
                  ELSE IF streak[k] < MaxBelow THEN streak[k] + 1 ELSE streak[k]
<1>9. streak' \in [Keys -> Nat]
  <2>1. streak' = [streak EXCEPT ![k] = IF w.alert THEN 0 ELSE run]
    BY <1>4 DEF Record
  <2>2. run \in Nat
    BY <1>2 DEF TypeOK
  <2> QED BY <2>1, <2>2 DEF TypeOK
<1>10. lulled' \in [Keys -> BOOLEAN]
  <2>1. lulled' = [lulled EXCEPT ![k] = ~w.alert /\ (lulled[k] \/ LongEnough(k[1], run))]
    BY <1>4 DEF Record
  <2> QED BY <1>2, <2>1 DEF TypeOK
<1> QED BY <1>3, <1>5, <1>6, <1>7, <1>8, <1>9, <1>10 DEF TypeOK

\* Every step keeps the types; the histories stay filed by RememberedStep.
LEMMA TypeStep ==
    ASSUME TypeOK, Remembered, [Next]_vars
    PROVE  TypeOK' /\ Remembered'
<1>1. Histories
  BY DEF TypeOK, Histories
<1>2. Histories' /\ Remembered'
  BY <1>1, RememberedStep
<1>3. Idle.stage = "idle" /\ FreshRow \in Row
  BY DEF Idle, FreshRow, Row, Ranks, None
<1>4. Disturbed => faults' \in 0 .. MaxFaults
  BY DepegAssumption DEF TypeOK, Disturbed
<1>5. ASSUME NEW ok \in BOOLEAN, Succeeds(ok) PROVE faults' \in 0 .. MaxFaults
  BY <1>4, <1>5 DEF Succeeds, TypeOK
<1>6. ASSUME NEW d \in Detectors, NEW e \in Feed, NEW scope \in Scopes, NEW t \in Times,
             \/ ProcessEvent(d, <<e[1], scope>>, e[2], [at |-> t, price |-> e[3]])
             \/ LoadFails(d, <<e[1], scope>>, e[2], [at |-> t, price |-> e[3]])
      PROVE  TypeOK'
  <2> DEFINE k == <<e[1], scope>>
             q == [at |-> t, price |-> e[3]]
  <2>1. k \in Keys /\ q.at \in Times
    BY DepegAssumption DEF Keys
  <2>2. CASE ProcessEvent(d, k, e[2], q)
    BY <1>2, <2>1, <2>2, TypeEvent
  <2>3. CASE LoadFails(d, k, e[2], q)
    <3>1. UNCHANGED <<config, rows, work, announced, last, intact, streak, lulled>> /\ Disturbed
      BY <2>3 DEF LoadFails
    <3> QED BY <1>2, <1>4, <3>1 DEF TypeOK, Histories
  <2> QED BY <1>6, <2>2, <2>3
<1>7. ASSUME NEW d \in Detectors, Save(d) PROVE TypeOK'
  BY <1>5, <1>7, TypeSave DEF Save
<1>8. ASSUME NEW d \in Detectors, Publish(d) PROVE TypeOK'
  <2> DEFINE w == work[d]
  <2>1. w \in Outcome
    BY <1>3, <1>8 DEF TypeOK, Publish
  <2>2. w.key \in Keys /\ [at |-> w.at, sev |-> w.seen] \in Alert
    BY <2>1 DEF Outcome, Alert
  <2>3. PICK sent \in BOOLEAN :
          /\ Succeeds(sent)
          /\ announced' = IF sent THEN [announced EXCEPT ![w.key] = [at |-> w.at, sev |-> w.seen]]
                          ELSE announced
          /\ intact' = [intact EXCEPT ![w.key] = intact[w.key] /\ sent]
    BY <1>8 DEF Publish, Newest
  <2>4. /\ UNCHANGED <<config, cache, rows, last, streak, lulled, newest>>
        /\ work' = [work EXCEPT ![d] = Idle]
    BY <1>8 DEF Publish
  <2>5. announced' \in [Keys -> Alert]
    BY <2>2, <2>3 DEF TypeOK
  <2>6. intact' \in [Keys -> BOOLEAN]
    BY <2>2, <2>3 DEF TypeOK
  <2>7. faults' \in 0 .. MaxFaults
    BY <1>5, <2>3
  <2> QED BY <2>4, <2>5, <2>6, <2>7 DEF TypeOK
<1>9. ASSUME NEW d \in Detectors, NEW cfg \in Configs, ReloadConfig(d, cfg) PROVE TypeOK'
  BY <1>9 DEF ReloadConfig, TypeOK
<1>10. ASSUME NEW k \in Keys, CleanUp(k) PROVE TypeOK'
  <2>1. /\ UNCHANGED <<config, cache, work, announced, last, streak, lulled, newest>> /\ Disturbed
        /\ rows' = [rows EXCEPT ![k] = FreshRow]
        /\ intact' = [intact EXCEPT ![k] = FALSE]
    BY <1>10 DEF CleanUp
  <2> QED BY <1>3, <1>4, <2>1 DEF TypeOK
<1>11. ASSUME NEW d \in Detectors, Crash(d) PROVE TypeOK'
  <2>1. /\ UNCHANGED <<config, rows, announced, last, streak, lulled>> /\ Disturbed
        /\ work' = [work EXCEPT ![d] = Idle]
        /\ intact' = [k \in Keys |->
                        intact[k] /\ ~(work[d].stage = "publish" /\ work[d].key = k)]
    BY <1>11 DEF Crash
  <2>2. intact' \in [Keys -> BOOLEAN]
    BY <2>1 DEF TypeOK
  <2>3. work' \in [Detectors -> {Idle} \cup Outcome]
    BY <2>1 DEF TypeOK
  <2> QED BY <1>2, <1>4, <2>1, <2>2, <2>3 DEF TypeOK, Histories
<1>12. CASE UNCHANGED vars
  <2>1. /\ config' = config /\ rows' = rows /\ work' = work /\ faults' = faults
        /\ announced' = announced /\ last' = last /\ intact' = intact
        /\ streak' = streak /\ lulled' = lulled
    BY <1>12 DEF vars
  <2> QED BY <1>2, <2>1 DEF TypeOK, Histories
<1> QED BY <1>2, <1>6, <1>7, <1>8, <1>9, <1>10, <1>11, <1>12 DEF Next

\* The pattern's state stays well-formed: rows, cached histories, outcomes in
\* hand and what was announced, for any number of detectors.
THEOREM TypeCorrect == Spec => []TypeOK
<1>1. TypeOK /\ Remembered /\ [Next]_vars => TypeOK' /\ Remembered'
  BY TypeStep
<1> QED BY <1>1, TypeInit, PTL DEF Spec

-----------------------------------------------------------------------------
(***************************************************************************)
(* The incident.  SeverityAnnounced and NoFlapping relate the row to the   *)
(* last alert: the row's severity is never above it (RowTold) and, unless  *)
(* enough evaluations in a row have seen less, is still equal to it, with  *)
(* counts that are backed by that streak (RowCounts).  Both need what the  *)
(* outcome in hand is about to write.                                      *)
(***************************************************************************)

\* What an evaluation that raises no alert makes of an open incident: it sees
\* the incident's severity and counts nothing, or sees less and has a reason
\* to lower or end the incident, or counts one more.
Settled(pol, row, n, seen) ==
    \/ seen >= row.sev /\ n.sev = row.sev /\ n.belowSeverity = 0 /\ n.belowTrigger = 0
    \/ /\ seen < row.sev
       /\ row.belowSeverity + 1 >= pol.deescalation \/ row.belowTrigger + 1 >= pol.resolution
    \/ /\ seen < row.sev /\ n.sev = row.sev
       /\ n.belowSeverity <= row.belowSeverity + 1
       /\ n.belowTrigger <= row.belowTrigger + 1 /\ n.belowTrigger <= pol.resolution

\* An alert raises the row to the severity it announces; without one the row
\* is not raised, and an open incident is settled.
LEMMA NextRowIncident ==
    ASSUME NEW pol \in Policy, NEW row \in Row, NEW snap, Decisive(snap), NEW t \in Times
    PROVE  LET n == NextRow(pol, row, snap, t)
               seen == IF snap.breach THEN snap.rank ELSE 0
           IN  /\ Alerts(row, snap, t) =>
                     n.sev = seen /\ seen > row.sev /\ n.belowSeverity = 0 /\ n.belowTrigger = 0
               /\ snap.fresh /\ ~Alerts(row, snap, t) =>
                     n.sev <= row.sev /\ (row.sev > 0 => Settled(pol, row, n, seen))
<1> DEFINE N == NextRow(pol, row, snap, t)
           seen == IF snap.breach THEN snap.rank ELSE 0
<1>1. /\ row.sev \in Ranks /\ row.sev \in Nat /\ row.floor \in Nat
      /\ row.belowSeverity \in Nat /\ row.belowTrigger \in Nat
      /\ snap.rank \in Nat /\ pol.deescalation \in Nat \ {0} /\ pol.resolution \in Nat \ {0}
  BY DEF Row, Ranks, Decisive, Policy
<1>2. ASSUME NEW sev \in Ranks, NEW floor \in Nat, NEW u
      PROVE  LET r == [Move(row, sev, floor, u) EXCEPT !.highWater = t]
             IN  r.sev = sev /\ r.belowSeverity = 0 /\ r.belowTrigger = 0
  BY DEF Move, Row
<1>3. ASSUME NEW x \in Nat, NEW y \in Nat
      PROVE  LET r == [Count(row, x, y) EXCEPT !.highWater = t]
             IN  r.sev = row.sev /\ r.belowTrigger = x /\ r.belowSeverity = y
  BY DEF Count, Row
<1>4. CASE ~snap.fresh
  BY <1>4 DEF Decisive, Alerts
<1>5. CASE snap.breach /\ snap.rank > row.sev /\ ~Cooling(row, t)
  <2>1. Alerts(row, snap, t) /\ seen = snap.rank
    BY <1>5 DEF Alerts
  <2>2. PICK floor \in Nat : N = [Move(row, snap.rank, floor, t + pol.cooldown) EXCEPT !.highWater = t]
    <3>1. CASE row.sev = 0
      BY <1>1, <1>5, <3>1 DEF NextRow, BreachRow, Raise, Trigger, Decisive
    <3>2. CASE row.sev # 0
      BY <1>1, <1>5, <3>2 DEF NextRow, BreachRow, Raise, Escalate, Decisive
    <3> QED BY <3>1, <3>2
  <2>3. snap.rank \in Ranks
    BY DEF Decisive
  <2>4. N.sev = snap.rank /\ N.belowSeverity = 0 /\ N.belowTrigger = 0
    BY <1>2, <2>2, <2>3
  <2> QED BY <1>5, <2>1, <2>4
<1>6. CASE snap.breach /\ snap.rank > row.sev /\ Cooling(row, t)
  <2>1. ~Alerts(row, snap, t) /\ seen >= row.sev
    BY <1>1, <1>6 DEF Alerts
  <2> DEFINE y == IF row.sev = 0 THEN row.belowSeverity ELSE 0
  <2>2. N = [Count(row, 0, y) EXCEPT !.highWater = t]
    BY <1>6 DEF NextRow, BreachRow, Raise, Decisive
  <2>3. y \in Nat /\ (row.sev > 0 => y = 0)
    BY <1>1
  <2> HIDE DEF y, N
  <2>4. N.sev = row.sev /\ N.belowTrigger = 0 /\ N.belowSeverity = y
    BY <1>3, <2>2, <2>3
  <2>5. row.sev > 0 => N.belowSeverity = 0
    BY <2>3, <2>4
  <2> QED BY <1>1, <2>1, <2>4, <2>5 DEF Settled, N
<1>7. CASE snap.breach /\ snap.rank < row.sev
  <2>1. ~Alerts(row, snap, t) /\ seen < row.sev /\ snap.fresh
    BY <1>1, <1>7 DEF Alerts, Decisive
  <2>2. N = [Lower(pol, row, snap, t) EXCEPT !.highWater = t]
    BY <1>1, <1>7, <2>1 DEF NextRow, BreachRow
  <2>3. CASE DeescalationDue(pol, row, t)
    <3>1. N = [Move(row, snap.rank, row.floor, t + pol.cooldown) EXCEPT !.highWater = t]
      BY <2>2, <2>3 DEF Lower, Deescalate
    <3>2. N.sev = snap.rank
      BY <1>1, <1>2, <3>1 DEF Decisive
    <3>3. row.belowSeverity + 1 >= pol.deescalation
      BY <2>3 DEF DeescalationDue
    <3> QED BY <1>1, <1>7, <2>1, <3>2, <3>3 DEF Settled
  <2>4. CASE ~DeescalationDue(pol, row, t)
    <3>1. N = [Count(row, 0, row.belowSeverity + 1) EXCEPT !.highWater = t]
      BY <2>2, <2>4 DEF Lower
    <3> DEFINE y == row.belowSeverity + 1
    <3>2. y \in Nat /\ N = [Count(row, 0, y) EXCEPT !.highWater = t]
      BY <1>1, <3>1
    <3> HIDE DEF y, N
    <3>3. N.sev = row.sev /\ N.belowTrigger = 0 /\ N.belowSeverity = y
      BY <1>3, <3>2
    <3> QED BY <1>1, <2>1, <3>3 DEF Settled, N, y
  <2> QED BY <2>3, <2>4
<1>8. CASE snap.breach /\ snap.rank = row.sev
  <2>1. ~Alerts(row, snap, t) /\ seen >= row.sev
    BY <1>1, <1>8 DEF Alerts
  <2>2. N = [Count(row, 0, 0) EXCEPT !.highWater = t]
    BY <1>1, <1>8 DEF NextRow, BreachRow, Decisive
  <2>3. N.sev = row.sev /\ N.belowTrigger = 0 /\ N.belowSeverity = 0
    BY <1>3, <2>2
  <2> QED BY <1>1, <2>1, <2>3 DEF Settled
<1>9. CASE snap.fresh /\ ~snap.breach
  <2>1. ~Alerts(row, snap, t) /\ seen = 0
    BY <1>9 DEF Alerts
  <2>2. N = [QuietRow(pol, row, snap, t) EXCEPT !.highWater = t]
    BY <1>9 DEF NextRow
  <2>3. CASE row.sev = 0
    <3>1. N = [Count(row, row.belowTrigger, 0) EXCEPT !.highWater = t]
      BY <2>2, <2>3 DEF QuietRow
    <3>2. N.sev = row.sev
      BY <1>1, <1>3, <3>1
    <3> QED BY <1>1, <2>1, <2>3, <3>2
  <2>4. CASE row.sev # 0 /\ ~ResolutionReady(row, snap)
    <3>1. N = [Count(row, 0, 0) EXCEPT !.highWater = t]
      BY <2>2, <2>4 DEF QuietRow
    <3>2. N.sev = row.sev /\ N.belowTrigger = 0 /\ N.belowSeverity = 0
      BY <1>3, <3>1
    <3> QED BY <1>1, <2>1, <2>4, <3>2 DEF Settled
  <2>5. CASE row.sev # 0 /\ ResolutionReady(row, snap) /\ row.belowTrigger + 1 >= pol.resolution
    <3>1. N = [Move(row, 0, 0, t + pol.cooldown) EXCEPT !.highWater = t]
      BY <2>2, <2>5 DEF QuietRow, Resolve
    <3>2. N.sev = 0
      BY <1>2, <3>1 DEF Ranks
    <3> QED BY <1>1, <2>1, <2>5, <3>2 DEF Settled
  <2>6. CASE row.sev # 0 /\ ResolutionReady(row, snap) /\ ~(row.belowTrigger + 1 >= pol.resolution)
    <3>1. N = [Count(row, row.belowTrigger + 1, 0) EXCEPT !.highWater = t]
      BY <2>2, <2>6 DEF QuietRow
    <3> DEFINE x == row.belowTrigger + 1
    <3>2. x \in Nat /\ N = [Count(row, x, 0) EXCEPT !.highWater = t]
      BY <1>1, <3>1
    <3> HIDE DEF x, N
    <3>3. N.sev = row.sev /\ N.belowTrigger = x /\ N.belowSeverity = 0
      BY <1>3, <3>2
    <3> QED BY <1>1, <2>1, <2>6, <3>3 DEF Settled, N, x
  <2> QED BY <2>3, <2>4, <2>5, <2>6
<1> HIDE DEF N, seen
<1>10. snap.breach => \/ snap.rank > row.sev \/ snap.rank < row.sev \/ snap.rank = row.sev
  BY <1>1
<1> QED BY <1>4, <1>5, <1>6, <1>7, <1>8, <1>9, <1>10 DEF Decisive, N, seen

\* The same of the outcome an evaluation hands over.
LEMMA EvaluateIncident ==
    ASSUME NEW cfg \in Config, NEW c, NEW k \in Keys, NEW row \in Row, NEW t \in Times
    PROVE  LET out == Evaluate(cfg, c, k, row, t)
           IN  /\ out.alert =>
                     /\ out.next.sev = out.seen /\ out.seen > row.sev
                     /\ out.next.belowSeverity = 0 /\ out.next.belowTrigger = 0
               /\ out.fresh /\ ~out.alert =>
                     /\ out.next.sev <= row.sev
                     /\ row.sev > 0 => Settled(cfg.policies[k[1]], row, out.next, out.seen)
<1> DEFINE pol == cfg.policies[k[1]]
           snap == Snapshot(pol, LatestQuotesForTime(c[k], t), t,
                            AssessContext(pol, cfg, c, k[2], t))
           out == Evaluate(cfg, c, k, row, t)
<1>1. pol \in Policy
  BY DEF Config, Keys
<1>2. Decisive(snap)
  BY <1>1, SnapshotDecisive
<1>3. out = [stage |-> "save", key |-> k, at |-> t, next |-> NextRow(pol, row, snap, t),
             fresh |-> snap.fresh, alert |-> Alerts(row, snap, t),
             seen |-> IF snap.breach THEN snap.rank ELSE 0]
  BY DEF Evaluate
<1> HIDE DEF snap, out
<1>4. /\ out.next = NextRow(pol, row, snap, t) /\ out.fresh = snap.fresh
      /\ out.alert = Alerts(row, snap, t) /\ out.seen = IF snap.breach THEN snap.rank ELSE 0
  BY <1>3
<1>5. LET n == NextRow(pol, row, snap, t)
          seen == IF snap.breach THEN snap.rank ELSE 0
      IN  /\ Alerts(row, snap, t) =>
                n.sev = seen /\ seen > row.sev /\ n.belowSeverity = 0 /\ n.belowTrigger = 0
          /\ snap.fresh /\ ~Alerts(row, snap, t) =>
                n.sev <= row.sev /\ (row.sev > 0 => Settled(pol, row, n, seen))
  BY <1>1, <1>2, NextRowIncident
<1>6. Alerts(row, snap, t) \in BOOLEAN /\ snap.fresh \in BOOLEAN
  BY <1>2 DEF Alerts, Decisive
<1> HIDE DEF pol
<1> QED BY <1>4, <1>5, <1>6 DEF out, pol

\* A detector that has an alert of k to publish.
Holds(k, w) == w.stage = "publish" /\ w.key = k

RowTold ==
    \A k \in Keys : intact[k] =>
        /\ rows[k].sev <= last[k].sev
        /\ \A d \in Detectors : IF Holds(k, work[d]) THEN Newest(work[d]) = last[k]
                                ELSE announced[k] = last[k]

OutcomeTold ==
    \A d \in Detectors : work[d].stage = "save" =>
        LET w == work[d] IN
        /\ w.alert => w.next.sev = w.seen
        /\ w.fresh /\ ~w.alert /\ intact[w.key] => w.next.sev <= last[w.key].sev

\* The streak n after an evaluation that saw seen, and the last alert sev.
RunAfter(seen, sev, n) == IF seen >= sev THEN 0 ELSE IF n < MaxBelow THEN n + 1 ELSE n

RowCounts ==
    \A k \in Keys : intact[k] /\ ~lulled[k] =>
        /\ rows[k].sev = last[k].sev /\ rows[k].sev > 0
        /\ rows[k].belowSeverity <= streak[k] /\ rows[k].belowTrigger <= streak[k]

OutcomeCounts ==
    \A d \in Detectors : work[d].stage = "save" =>
        LET w == work[d] IN
        /\ w.alert => /\ w.next.sev = w.seen /\ w.seen > 0
                      /\ w.next.belowSeverity = 0 /\ w.next.belowTrigger = 0
        /\ intact[w.key] /\ ~lulled[w.key] =>
              /\ w.alert => w.seen > last[w.key].sev
              /\ w.fresh /\ ~w.alert =>
                    LET run == RunAfter(w.seen, last[w.key].sev, streak[w.key]) IN
                    \/ LongEnough(w.key[1], run)
                    \/ /\ w.next.sev = last[w.key].sev
                       /\ w.next.belowSeverity <= run /\ w.next.belowTrigger <= run

\* Nothing is decided, saved or announced; a detector may drop what it holds,
\* and a row that is cleared or not told of is no longer intact.
Quiet ==
    /\ UNCHANGED <<last, streak, lulled, announced>>
    /\ \A k \in Keys : intact'[k] => intact[k] /\ rows'[k] = rows[k]
    /\ \A d \in Detectors :
          \/ work'[d] = work[d]
          \/ work'[d] = Idle /\ \A k \in Keys : intact'[k] => ~Holds(k, work[d])

\* The steps that change neither an outcome nor what was told of it.
LEMMA QuietSteps ==
    ASSUME TypeOK, NEW d, Detectors = {d},
           \/ \E k \in Keys : \E s, q : LoadFails(d, k, s, q)
           \/ \E cfg \in Configs : ReloadConfig(d, cfg)
           \/ \E k \in Keys : CleanUp(k)
           \/ Crash(d)
           \/ UNCHANGED vars
    PROVE  Quiet
<1>1. CASE (\E k \in Keys : \E s, q : LoadFails(d, k, s, q)) \/ (\E cfg \in Configs : ReloadConfig(d, cfg))
           \/ UNCHANGED vars
  <2>1. UNCHANGED <<last, streak, lulled, announced, intact, rows, work>>
    BY <1>1 DEF LoadFails, ReloadConfig, vars
  <2> QED BY <2>1 DEF Quiet
<1>2. ASSUME NEW k \in Keys, CleanUp(k) PROVE Quiet
  <2>1. /\ UNCHANGED <<work, announced, last, streak, lulled>>
        /\ rows' = [rows EXCEPT ![k] = FreshRow]
        /\ intact' = [intact EXCEPT ![k] = FALSE]
    BY <1>2 DEF CleanUp
  <2> QED BY <2>1 DEF Quiet, TypeOK
<1>3. CASE Crash(d)
  <2>1. /\ UNCHANGED <<rows, announced, last, streak, lulled>>
        /\ work' = [work EXCEPT ![d] = Idle]
        /\ intact' = [k \in Keys |->
                        intact[k] /\ ~(work[d].stage = "publish" /\ work[d].key = k)]
    BY <1>3 DEF Crash
  <2>2. work'[d] = Idle
    BY <2>1 DEF TypeOK
  <2>3. \A k \in Keys : intact'[k] => intact[k] /\ ~Holds(k, work[d])
    BY <2>1 DEF Holds
  <2> QED BY <2>1, <2>2, <2>3 DEF Quiet
<1> QED BY <1>1, <1>2, <1>3

\* They keep both invariants.
LEMMA QuietKeeps ==
    ASSUME TypeOK, Quiet
    PROVE  /\ RowTold /\ OutcomeTold => RowTold' /\ OutcomeTold'
           /\ RowCounts /\ OutcomeCounts => RowCounts' /\ OutcomeCounts'
<1>1. Idle.stage = "idle"
  BY DEF Idle
<1>2. ASSUME NEW d \in Detectors, work'[d].stage = "save"
      PROVE  work'[d] = work[d] /\ work[d].key \in Keys
  <2>1. work'[d] = work[d]
    BY <1>1, <1>2 DEF Quiet
  <2>2. work[d] \in Outcome
    BY <1>1, <1>2, <2>1 DEF TypeOK
  <2> QED BY <2>1, <2>2 DEF Outcome
<1>3. ASSUME RowTold, OutcomeTold PROVE RowTold'
  <2> SUFFICES ASSUME NEW k \in Keys, intact'[k], NEW d \in Detectors
               PROVE  /\ rows'[k].sev <= last'[k].sev
                      /\ IF Holds(k, work'[d]) THEN Newest(work'[d]) = last'[k]
                         ELSE announced'[k] = last'[k]
    BY DepegAssumption DEF RowTold, Holds, Newest
  <2>1. intact[k] /\ rows'[k] = rows[k] /\ last'[k] = last[k] /\ announced'[k] = announced[k]
    BY DEF Quiet
  <2>2. /\ rows[k].sev <= last[k].sev
        /\ IF Holds(k, work[d]) THEN Newest(work[d]) = last[k] ELSE announced[k] = last[k]
    BY <1>3, <2>1 DEF RowTold
  <2>3. CASE work'[d] = work[d]
    BY <2>1, <2>2, <2>3
  <2>4. CASE work'[d] = Idle /\ ~Holds(k, work[d])
    <3>1. ~Holds(k, work'[d])
      BY <1>1, <2>4 DEF Holds
    <3> QED BY <2>1, <2>2, <2>4, <3>1
  <2> QED BY <2>3, <2>4 DEF Quiet
<1>4. ASSUME RowTold, OutcomeTold PROVE OutcomeTold'
  <2> SUFFICES ASSUME NEW d \in Detectors, work'[d].stage = "save"
               PROVE  LET w == work'[d] IN
                      /\ w.alert => w.next.sev = w.seen
                      /\ w.fresh /\ ~w.alert /\ intact'[w.key] => w.next.sev <= last'[w.key].sev
    BY DEF OutcomeTold
  <2>1. work'[d] = work[d] /\ work[d].key \in Keys
    BY <1>2
  <2>2. intact'[work[d].key] => intact[work[d].key]
    BY <2>1 DEF Quiet
  <2>3. last' = last
    BY DEF Quiet
  <2> QED BY <1>4, <2>1, <2>2, <2>3 DEF OutcomeTold
<1>5. ASSUME RowCounts, OutcomeCounts PROVE RowCounts'
  BY <1>5 DEF RowCounts, Quiet
<1>6. ASSUME RowCounts, OutcomeCounts PROVE OutcomeCounts'
  <2> SUFFICES ASSUME NEW d \in Detectors, work'[d].stage = "save"
               PROVE  LET w == work'[d] IN
                      /\ w.alert => /\ w.next.sev = w.seen /\ w.seen > 0
                                    /\ w.next.belowSeverity = 0 /\ w.next.belowTrigger = 0
                      /\ intact'[w.key] /\ ~lulled'[w.key] =>
                            /\ w.alert => w.seen > last'[w.key].sev
                            /\ w.fresh /\ ~w.alert =>
                                  LET run == RunAfter(w.seen, last'[w.key].sev, streak'[w.key]) IN
                                  \/ LongEnough(w.key[1], run)
                                  \/ /\ w.next.sev = last'[w.key].sev
                                     /\ w.next.belowSeverity <= run /\ w.next.belowTrigger <= run
    BY Zenon DEF OutcomeCounts
  <2>1. work'[d] = work[d] /\ work[d].key \in Keys
    BY <1>2
  <2>2. intact'[work[d].key] => intact[work[d].key]
    BY <2>1 DEF Quiet
  <2>3. last' = last /\ lulled' = lulled /\ streak' = streak
    BY DEF Quiet
  <2> QED BY <1>6, <2>1, <2>2, <2>3 DEF OutcomeCounts
<1> QED BY <1>3, <1>4, <1>5, <1>6

\* What a save writes: the row of the outcome's key, if the call succeeds, and
\* the histories of that key.
LEMMA SaveEffect ==
    ASSUME TypeOK, NEW d \in Detectors, Save(d)
    PROVE  LET w == work[d]
               k == w.key
               run == RunAfter(w.seen, last[k].sev, streak[k])
           IN  /\ w \in Outcome /\ k \in Keys /\ announced' = announced
               /\ \A j \in Keys : j # k =>
                     /\ rows'[j] = rows[j] /\ last'[j] = last[j] /\ intact'[j] = intact[j]
                     /\ streak'[j] = streak[j] /\ lulled'[j] = lulled[j]
               /\ intact'[k] => w.fresh /\ rows'[k] = w.next /\ (w.alert \/ intact[k])
               /\ w.alert => /\ last'[k] = Newest(w) /\ streak'[k] = 0
                             /\ work'[d] = [w EXCEPT !.stage = "publish"]
               /\ ~w.alert => /\ last'[k] = last[k] /\ streak'[k] = run /\ work'[d] = Idle
                              /\ ~lulled'[k] => ~lulled[k] /\ ~LongEnough(k[1], run)
<1> DEFINE w == work[d]
           k == w.key
           run == RunAfter(w.seen, last[k].sev, streak[k])
<1>1. w \in Outcome
  BY DEF TypeOK, Save, Idle
<1>2. k \in Keys /\ w.alert \in BOOLEAN /\ w.fresh \in BOOLEAN
  BY <1>1 DEF Outcome
<1>3. PICK saved \in BOOLEAN :
        /\ rows' = IF saved THEN [rows EXCEPT ![k] = w.next] ELSE rows
        /\ Record(w, saved)
  BY DEF Save
<1>4. /\ last' = IF w.alert THEN [last EXCEPT ![k] = Newest(w)] ELSE last
      /\ intact' = [intact EXCEPT ![k] = saved /\ w.fresh /\ (w.alert \/ intact[k])]
      /\ streak' = [streak EXCEPT ![k] = IF w.alert THEN 0 ELSE run]
      /\ lulled' = [lulled EXCEPT ![k] = ~w.alert /\ (lulled[k] \/ LongEnough(k[1], run))]
  BY <1>3 DEF Record, RunAfter
<1>5. /\ announced' = announced
      /\ work' = [work EXCEPT ![d] = IF w.alert THEN [w EXCEPT !.stage = "publish"] ELSE Idle]
  BY DEF Save
<1> HIDE DEF run
<1>6. \A j \in Keys : j # k =>
         /\ rows'[j] = rows[j] /\ last'[j] = last[j] /\ intact'[j] = intact[j]
         /\ streak'[j] = streak[j] /\ lulled'[j] = lulled[j]
  BY <1>2, <1>3, <1>4 DEF TypeOK
<1>7. intact'[k] => w.fresh /\ rows'[k] = w.next /\ (w.alert \/ intact[k])
  BY <1>2, <1>3, <1>4 DEF TypeOK
<1>8. /\ w.alert => last'[k] = Newest(w) /\ streak'[k] = 0
      /\ ~w.alert => last'[k] = last[k] /\ streak'[k] = run
  BY <1>2, <1>4 DEF TypeOK
<1>9. ~w.alert => (~lulled'[k] => ~lulled[k] /\ ~LongEnough(k[1], run))
  BY <1>2, <1>4 DEF TypeOK
<1>10. /\ w.alert => work'[d] = [w EXCEPT !.stage = "publish"]
       /\ ~w.alert => work'[d] = Idle
  BY <1>5 DEF TypeOK
<1> QED BY <1>1, <1>2, <1>5, <1>6, <1>7, <1>8, <1>9, <1>10 DEF run

\* A publication: who is told of the alert is told of the last one.
LEMMA PublishEffect ==
    ASSUME TypeOK, NEW d \in Detectors, Publish(d)
    PROVE  LET w == work[d]
           IN  /\ w \in Outcome /\ w.key \in Keys /\ w.stage = "publish" /\ work'[d] = Idle
               /\ UNCHANGED <<rows, last, streak, lulled>>
               /\ \A j \in Keys :
                     /\ intact'[j] => intact[j]
                     /\ intact'[j] /\ j = w.key => announced'[j] = Newest(w)
                     /\ j # w.key => announced'[j] = announced[j]
<1> DEFINE w == work[d]
<1>1. w \in Outcome /\ w.stage = "publish"
  BY DEF TypeOK, Publish, Idle
<1>2. w.key \in Keys
  BY <1>1 DEF Outcome
<1>3. PICK sent \in BOOLEAN :
        /\ announced' = IF sent THEN [announced EXCEPT ![w.key] = Newest(w)] ELSE announced
        /\ intact' = [intact EXCEPT ![w.key] = intact[w.key] /\ sent]
  BY DEF Publish
<1>4. UNCHANGED <<rows, last, streak, lulled>> /\ work' = [work EXCEPT ![d] = Idle]
  BY DEF Publish
<1>5. \A j \in Keys :
         /\ intact'[j] => intact[j]
         /\ intact'[j] /\ j = w.key => announced'[j] = Newest(w)
         /\ j # w.key => announced'[j] = announced[j]
  BY <1>2, <1>3 DEF TypeOK
<1>6. work'[d] = Idle
  BY <1>4 DEF TypeOK
<1> QED BY <1>1, <1>2, <1>4, <1>5, <1>6

\* An event that is evaluated leaves an outcome; any other leaves all alone.
LEMMA EventEffect ==
    ASSUME TypeOK, NEW d \in Detectors, NEW k \in Keys, NEW s, NEW q, q.at \in Times,
           ProcessEvent(d, k, s, q)
    PROVE  /\ UNCHANGED <<rows, announced, last, intact, streak, lulled>>
           /\ work[d] = Idle /\ config[d] \in Configs /\ k[1] \in Settings[config[d]].markets
           /\ \/ UNCHANGED work
              \/ LET w == work'[d]
                 IN  /\ w.stage = "save" /\ w.key = k /\ w \in Outcome
                     /\ w.next.belowSeverity <= MaxBelow
                     /\ w.alert => /\ w.next.sev = w.seen /\ w.seen > rows[k].sev
                                   /\ w.next.belowSeverity = 0 /\ w.next.belowTrigger = 0
                     /\ w.fresh /\ ~w.alert =>
                           /\ w.next.sev <= rows[k].sev
                           /\ rows[k].sev > 0 =>
                                 Settled(Settings[config[d]].policies[k[1]], rows[k], w.next, w.seen)
<1>1. /\ UNCHANGED <<rows, announced, last, intact, streak, lulled>>
      /\ work[d] = Idle /\ k[1] \in Settings[config[d]].markets
  BY DEF ProcessEvent, Accepts
<1>2. rows[k] \in Row /\ config[d] \in Configs /\ Settings[config[d]] \in Config
  BY DepegAssumption DEF TypeOK
<1>3. ASSUME NEW c,
             LET out == Evaluate(Settings[config[d]], c, k, rows[k], q.at)
             IN  out.next.belowSeverity <= MaxBelow /\ work' = [work EXCEPT ![d] = out]
      PROVE  LET w == work'[d]
             IN  /\ w.stage = "save" /\ w.key = k /\ w \in Outcome
                 /\ w.next.belowSeverity <= MaxBelow
                 /\ w.alert => /\ w.next.sev = w.seen /\ w.seen > rows[k].sev
                               /\ w.next.belowSeverity = 0 /\ w.next.belowTrigger = 0
                 /\ w.fresh /\ ~w.alert =>
                       /\ w.next.sev <= rows[k].sev
                       /\ rows[k].sev > 0 =>
                             Settled(Settings[config[d]].policies[k[1]], rows[k], w.next, w.seen)
  <2> DEFINE out == Evaluate(Settings[config[d]], c, k, rows[k], q.at)
  <2>1. out.stage = "save" /\ out.key = k /\ out \in Outcome
    BY <1>2, EvaluateFacts
  <2>2. /\ out.alert =>
              /\ out.next.sev = out.seen /\ out.seen > rows[k].sev
              /\ out.next.belowSeverity = 0 /\ out.next.belowTrigger = 0
        /\ out.fresh /\ ~out.alert =>
              /\ out.next.sev <= rows[k].sev
              /\ rows[k].sev > 0 =>
                    Settled(Settings[config[d]].policies[k[1]], rows[k], out.next, out.seen)
    BY <1>2, EvaluateIncident
  <2> HIDE DEF out
  <2>3. out.next.belowSeverity <= MaxBelow /\ work' = [work EXCEPT ![d] = out]
    BY <1>3 DEF out
  <2>4. work'[d] = out
    BY <2>3 DEF TypeOK
  <2> QED BY <2>1, <2>2, <2>3, <2>4
<1>4. UNCHANGED work \/ \E c : LET out == Evaluate(Settings[config[d]], c, k, rows[k], q.at)
                               IN  out.next.belowSeverity <= MaxBelow /\ work' = [work EXCEPT ![d] = out]
  BY DEF ProcessEvent
<1> QED BY <1>1, <1>2, <1>3, <1>4

\* A step of a single detector is quiet, an event, a save or a publication.
LEMMA SingleSteps ==
    ASSUME TypeOK, NEW d, Detectors = {d}, [Next]_vars
    PROVE  \/ Quiet
           \/ \E k \in Keys : \E s, q : q.at \in Times /\ ProcessEvent(d, k, s, q)
           \/ Save(d) \/ Publish(d)
<1>1. ASSUME NEW e \in Feed, NEW scope \in Scopes, NEW t \in Times,
             \/ ProcessEvent(d, <<e[1], scope>>, e[2], [at |-> t, price |-> e[3]])
             \/ LoadFails(d, <<e[1], scope>>, e[2], [at |-> t, price |-> e[3]])
      PROVE  Quiet \/ \E k \in Keys : \E s, q : q.at \in Times /\ ProcessEvent(d, k, s, q)
  <2> DEFINE k == <<e[1], scope>>
             q == [at |-> t, price |-> e[3]]
  <2>1. k \in Keys /\ q.at \in Times
    BY DepegAssumption DEF Keys
  <2> HIDE DEF k, q
  <2>2. CASE ProcessEvent(d, k, e[2], q)
    BY <2>1, <2>2
  <2>3. CASE LoadFails(d, k, e[2], q)
    BY <2>1, <2>3, QuietSteps
  <2> QED BY <1>1, <2>2, <2>3 DEF k, q
<1>2. CASE UNCHANGED vars
  BY <1>2, QuietSteps
<1>3. ASSUME NEW cfg \in Configs, ReloadConfig(d, cfg) PROVE Quiet
  BY <1>3, QuietSteps
<1>4. ASSUME NEW k \in Keys, CleanUp(k) PROVE Quiet
  BY <1>4, QuietSteps
<1>5. CASE Crash(d)
  BY <1>5, QuietSteps
<1> QED BY <1>1, <1>2, <1>3, <1>4, <1>5 DEF Next

\* Every step of a single detector keeps RowTold and OutcomeTold.
LEMMA ToldStep ==
    ASSUME TypeOK, TypeOK', RowTold, OutcomeTold, NEW d, Detectors = {d}, [Next]_vars
    PROVE  RowTold' /\ OutcomeTold'
<1>1. CASE Quiet
  BY <1>1, QuietKeeps
<1> USE DEF Holds
<1>2. Idle.stage = "idle"
  BY DEF Idle
<1>3. \A k \in Keys : intact[k] =>
         /\ rows[k].sev <= last[k].sev
         /\ IF Holds(k, work[d]) THEN Newest(work[d]) = last[k] ELSE announced[k] = last[k]
  BY DEF RowTold
<1>4. (\A k \in Keys : intact'[k] =>
         /\ rows'[k].sev <= last'[k].sev
         /\ IF Holds(k, work'[d]) THEN Newest(work'[d]) = last'[k] ELSE announced'[k] = last'[k])
      => RowTold'
  BY Zenon DEF RowTold
<1>5. work[d].stage = "save" =>
         LET w == work[d] IN
         /\ w.alert => w.next.sev = w.seen
         /\ w.fresh /\ ~w.alert /\ intact[w.key] => w.next.sev <= last[w.key].sev
  BY DEF OutcomeTold
<1>6. (work'[d].stage = "save" =>
         LET w == work'[d] IN
         /\ w.alert => w.next.sev = w.seen
         /\ w.fresh /\ ~w.alert /\ intact'[w.key] => w.next.sev <= last'[w.key].sev)
      => OutcomeTold'
  BY DEF OutcomeTold
<1>7. \A k \in Keys : rows[k].sev \in Nat /\ last[k].sev \in Nat
  <2>1. \A k \in Keys : rows[k] \in Row /\ last[k] \in Alert
    BY DEF TypeOK
  <2>2. (\A r \in Row : r.sev \in Nat) /\ (\A a \in Alert : a.sev \in Nat)
    BY DEF Row, Alert, Ranks
  <2> QED BY <2>1, <2>2
<1>8. ASSUME NEW k \in Keys, NEW s, NEW q, q.at \in Times, ProcessEvent(d, k, s, q)
      PROVE  RowTold' /\ OutcomeTold'
  <2>1. UNCHANGED <<rows, announced, last, intact, streak, lulled>> /\ work[d] = Idle
    BY <1>8, EventEffect
  <2>2. CASE UNCHANGED work
    BY <1>2, <1>3, <1>4, <1>6, <2>1, <2>2
  <2>3. CASE LET w == work'[d]
             IN  /\ w.stage = "save" /\ w.key = k /\ w \in Outcome
                 /\ w.alert => w.next.sev = w.seen
                 /\ w.fresh /\ ~w.alert => w.next.sev <= rows[k].sev
    <3>1. RowTold'
      BY <1>2, <1>3, <1>4, <2>1, <2>3
    <3>2. work'[d].next.sev \in Nat
      <4>1. work'[d].next \in Row
        BY <2>3 DEF Outcome
      <4> QED BY <4>1 DEF Row, Ranks
    <3>3. OutcomeTold'
      BY <1>3, <1>6, <1>7, <2>1, <2>3, <3>2
    <3> QED BY <3>1, <3>3
  <2> QED BY <1>8, <2>2, <2>3, EventEffect
<1>9. CASE Save(d)
  <2> DEFINE w == work[d]
             k == w.key
  <2>1. w.stage = "save"
    BY <1>9 DEF Save
  <2>2. /\ w \in Outcome /\ k \in Keys /\ announced' = announced
        /\ \A j \in Keys : j # k => rows'[j] = rows[j] /\ last'[j] = last[j] /\ intact'[j] = intact[j]
        /\ intact'[k] => w.fresh /\ rows'[k] = w.next /\ (w.alert \/ intact[k])
        /\ w.alert => last'[k] = Newest(w) /\ work'[d] = [w EXCEPT !.stage = "publish"]
        /\ ~w.alert => last'[k] = last[k] /\ work'[d] = Idle
    BY <1>9, SaveEffect
  <2>3. w.alert => /\ work'[d].stage = "publish" /\ work'[d].key = k
                   /\ Newest(work'[d]) = Newest(w) /\ Newest(w).sev = w.seen
    BY <2>2 DEF Outcome, Newest
  <2>4. w.next.sev \in Nat /\ w.seen \in Nat
    BY <2>2 DEF Outcome, Row, Ranks
  <2>5. OutcomeTold'
    BY <1>2, <1>6, <2>2, <2>3
  <2>6. ASSUME NEW j \in Keys, intact'[j]
        PROVE  /\ rows'[j].sev <= last'[j].sev
               /\ IF Holds(j, work'[d]) THEN Newest(work'[d]) = last'[j]
                  ELSE announced'[j] = last'[j]
    <3>1. CASE j # k
      <4>1. ~Holds(j, work'[d]) /\ ~Holds(j, work[d])
        BY <1>2, <2>1, <2>2, <2>3, <3>1
      <4> QED BY <1>3, <2>2, <2>6, <3>1, <4>1
    <3>2. CASE j = k /\ w.alert
      BY <1>5, <2>1, <2>2, <2>3, <2>4, <2>6, <3>2
    <3>3. CASE j = k /\ ~w.alert
      <4>1. /\ w.fresh /\ rows'[k] = w.next /\ intact[k] /\ work'[d] = Idle
            /\ last'[k] = last[k] /\ announced'[k] = announced[k]
        BY <2>2, <2>6, <3>3
      <4>2. ~Holds(k, work'[d]) /\ ~Holds(k, work[d])
        BY <1>2, <2>1, <4>1
      <4>3. w.next.sev <= last[k].sev
        BY <1>5, <2>1, <3>3, <4>1
      <4> QED BY <1>3, <2>2, <3>3, <4>1, <4>2, <4>3
    <3> QED BY <3>1, <3>2, <3>3
  <2>7. RowTold'
    BY <1>4, <2>6
  <2> QED BY <2>5, <2>7
<1>10. CASE Publish(d)
  <2> DEFINE w == work[d]
  <2>1. /\ w.key \in Keys /\ w.stage = "publish" /\ work'[d] = Idle
        /\ rows' = rows /\ last' = last
        /\ \A j \in Keys :
              /\ intact'[j] => intact[j]
              /\ intact'[j] /\ j = w.key => announced'[j] = Newest(w)
              /\ j # w.key => announced'[j] = announced[j]
    BY <1>10, PublishEffect
  <2>2. OutcomeTold'
    BY <1>2, <1>6, <2>1
  <2>3. ASSUME NEW j \in Keys, intact'[j]
        PROVE  /\ rows'[j].sev <= last'[j].sev
               /\ IF Holds(j, work'[d]) THEN Newest(work'[d]) = last'[j]
                  ELSE announced'[j] = last'[j]
    <3>1. ~Holds(j, work'[d]) /\ intact[j] /\ (Holds(j, w) <=> j = w.key)
      BY <1>2, <2>1, <2>3
    <3> HIDE DEF Holds
    <3> QED BY <1>3, <2>1, <2>3, <3>1
  <2> QED BY <1>4, <2>2, <2>3
<1> QED BY <1>1, <1>8, <1>9, <1>10, SingleSteps

\* With one detector, and unless a call failed or the row was cleared since
\* the last alert, the row's severity is one that was published, or a lower
\* one: the row is never raised without a detection.
THEOREM SeverityAnnouncedHolds ==
    ASSUME NEW d, Detectors = {d}
    PROVE  Spec => []SeverityAnnounced
<1> DEFINE Inv == TypeOK /\ Remembered /\ RowTold /\ OutcomeTold
<1>1. Init => Inv
  <2> SUFFICES ASSUME Init PROVE RowTold /\ OutcomeTold
    BY TypeInit
  <2> QED BY DEF Init, RowTold, OutcomeTold, Idle
<1>2. Inv /\ [Next]_vars => Inv'
  <2> SUFFICES ASSUME Inv, [Next]_vars PROVE Inv'
    OBVIOUS
  <2>1. TypeOK' /\ Remembered'
    BY TypeStep
  <2> QED BY <2>1, ToldStep
<1>3. Inv => SeverityAnnounced
  <2> SUFFICES ASSUME Inv, NEW k \in Keys, intact[k], work[d].stage = "idle"
               PROVE  rows[k].sev <= announced[k].sev
    BY DEF SeverityAnnounced
  <2> QED BY DEF RowTold, Holds
<1> HIDE DEF Inv
<1> QED BY <1>1, <1>2, <1>3, PTL DEF Spec

\* The bound on counts is above what any policy asks for.
BoundAmple ==
    \A c \in Configs, m \in Markets :
        /\ Settings[c].policies[m].deescalation <= MaxBelow
        /\ Settings[c].policies[m].resolution <= MaxBelow

\* An open incident that is settled: a reason to lower or end it is a long
\* enough streak, and new counts are backed by the streak.
LEMMA SettledCounts ==
    ASSUME BoundAmple, NEW c \in Configs, NEW m \in Settings[c].markets,
           NEW row \in Row, NEW n \in Row, NEW seen \in Ranks, NEW x \in Nat,
           row.belowSeverity <= x, row.belowTrigger <= x, n.belowSeverity <= MaxBelow,
           Settled(Settings[c].policies[m], row, n, seen)
    PROVE  LET run == RunAfter(seen, row.sev, x)
           IN  \/ LongEnough(m, run)
               \/ n.sev = row.sev /\ n.belowSeverity <= run /\ n.belowTrigger <= run
<1> DEFINE pol == Settings[c].policies[m]
           run == RunAfter(seen, row.sev, x)
<1>1. m \in Markets /\ pol \in Policy
  BY DepegAssumption DEF Config
<1>2. /\ pol.deescalation \in Nat /\ pol.resolution \in Nat /\ MaxBelow \in Nat
      /\ pol.deescalation <= MaxBelow /\ pol.resolution <= MaxBelow
  BY <1>1, DepegAssumption DEF Policy, BoundAmple
<1>3. /\ row.sev \in Nat /\ row.belowSeverity \in Nat /\ row.belowTrigger \in Nat
      /\ n.belowSeverity \in Nat /\ n.belowTrigger \in Nat /\ seen \in Nat
  BY DEF Row, Ranks
<1> HIDE DEF pol
<1>4. CASE seen >= row.sev
  BY <1>3, <1>4 DEF Settled, RunAfter, pol
<1>5. CASE seen < row.sev
  <2>1. run = IF x < MaxBelow THEN x + 1 ELSE x
    BY <1>3, <1>5 DEF RunAfter
  <2>2. run \in Nat
    BY <2>1
  <2>3. CASE row.belowSeverity + 1 >= pol.deescalation \/ row.belowTrigger + 1 >= pol.resolution
    <3> HIDE DEF run
    <3>1. run >= pol.deescalation \/ run >= pol.resolution
      BY <1>2, <1>3, <2>1, <2>3
    <3>2. LongEnough(m, run)
      BY <3>1 DEF LongEnough, pol
    <3> QED BY <3>2 DEF run
  <2>4. CASE /\ n.sev = row.sev
             /\ n.belowSeverity <= row.belowSeverity + 1
             /\ n.belowTrigger <= row.belowTrigger + 1 /\ n.belowTrigger <= pol.resolution
    <3> HIDE DEF run
    <3>1. n.belowSeverity <= run /\ n.belowTrigger <= run
      BY <1>2, <1>3, <2>1, <2>4
    <3> QED BY <2>4, <3>1 DEF run
  <2>5. /\ \/ row.belowSeverity + 1 >= pol.deescalation \/ row.belowTrigger + 1 >= pol.resolution
           \/ /\ n.sev = row.sev
              /\ n.belowSeverity <= row.belowSeverity + 1
              /\ n.belowTrigger <= row.belowTrigger + 1 /\ n.belowTrigger <= pol.resolution
    BY <1>3, <1>5 DEF Settled, pol
  <2> QED BY <2>3, <2>4, <2>5
<1> QED BY <1>3, <1>4, <1>5

\* Every step of a single detector keeps RowCounts and OutcomeCounts.
LEMMA CountsStep ==
    ASSUME TypeOK, TypeOK', RowCounts, OutcomeCounts, BoundAmple,
           NEW d, Detectors = {d}, [Next]_vars
    PROVE  RowCounts' /\ OutcomeCounts'
<1>1. CASE Quiet
  BY <1>1, QuietKeeps
<1>2. Idle.stage = "idle"
  BY DEF Idle
<1>3. \A k \in Keys : intact[k] /\ ~lulled[k] =>
         /\ rows[k].sev = last[k].sev /\ rows[k].sev > 0
         /\ rows[k].belowSeverity <= streak[k] /\ rows[k].belowTrigger <= streak[k]
  BY DEF RowCounts
<1>4. work'[d].stage # "save" => OutcomeCounts'
  BY DEF OutcomeCounts
<1>5. ASSUME NEW k \in Keys, NEW s, NEW q, q.at \in Times, ProcessEvent(d, k, s, q)
      PROVE  RowCounts' /\ OutcomeCounts'
  <2>1. /\ UNCHANGED <<rows, announced, last, intact, streak, lulled>> /\ work[d] = Idle
        /\ config[d] \in Configs /\ k[1] \in Settings[config[d]].markets
    BY <1>5, EventEffect
  <2>2. RowCounts'
    BY <2>1 DEF RowCounts
  <2>3. CASE UNCHANGED work
    BY <1>2, <1>4, <2>1, <2>2, <2>3
  <2> DEFINE w == work'[d]
             run == RunAfter(w.seen, last[k].sev, streak[k])
  <2>4. CASE /\ w.stage = "save" /\ w.key = k /\ w \in Outcome
             /\ w.next.belowSeverity <= MaxBelow
             /\ w.alert => /\ w.next.sev = w.seen /\ w.seen > rows[k].sev
                           /\ w.next.belowSeverity = 0 /\ w.next.belowTrigger = 0
             /\ w.fresh /\ ~w.alert /\ rows[k].sev > 0 =>
                   Settled(Settings[config[d]].policies[k[1]], rows[k], w.next, w.seen)
    <3>1. w.next \in Row /\ w.seen \in Ranks /\ rows[k] \in Row /\ streak[k] \in Nat
      BY <2>4 DEF Outcome, TypeOK
    <3>2. rows[k].sev \in Nat /\ w.seen \in Nat
      BY <3>1 DEF Row, Ranks
    <3>3. w.alert => w.seen > 0
      BY <2>4, <3>2
    <3>4. ASSUME intact[k], ~lulled[k]
          PROVE  /\ w.alert => w.seen > last[k].sev
                 /\ w.fresh /\ ~w.alert =>
                       \/ LongEnough(k[1], run)
                       \/ /\ w.next.sev = last[k].sev
                          /\ w.next.belowSeverity <= run /\ w.next.belowTrigger <= run
      <4>1. /\ rows[k].sev = last[k].sev /\ rows[k].sev > 0
            /\ rows[k].belowSeverity <= streak[k] /\ rows[k].belowTrigger <= streak[k]
        BY <1>3, <3>4
      <4>2. w.alert => w.seen > last[k].sev
        BY <2>4, <4>1
      <4>3. ASSUME w.fresh, ~w.alert
            PROVE  \/ LongEnough(k[1], run)
                   \/ /\ w.next.sev = last[k].sev
                      /\ w.next.belowSeverity <= run /\ w.next.belowTrigger <= run
        <5>1. Settled(Settings[config[d]].policies[k[1]], rows[k], w.next, w.seen)
          BY <2>4, <4>1, <4>3
        <5>2. run = RunAfter(w.seen, rows[k].sev, streak[k])
          BY <4>1
        <5> HIDE DEF w, run
        <5> QED BY <2>1, <2>4, <3>1, <4>1, <5>1, <5>2, SettledCounts
      <4> QED BY <4>2, <4>3
    <3>5. OutcomeCounts'
      BY <2>1, <2>4, <3>3, <3>4 DEF OutcomeCounts
    <3> QED BY <2>2, <3>5
  <2> QED BY <1>5, <2>3, <2>4, EventEffect
<1>6. CASE Save(d)
  <2> DEFINE w == work[d]
             k == w.key
             run == RunAfter(w.seen, last[k].sev, streak[k])
  <2>1. w.stage = "save"
    BY <1>6 DEF Save
  <2>2. /\ w \in Outcome /\ k \in Keys
        /\ \A j \in Keys : j # k =>
              /\ rows'[j] = rows[j] /\ last'[j] = last[j] /\ intact'[j] = intact[j]
              /\ streak'[j] = streak[j] /\ lulled'[j] = lulled[j]
        /\ intact'[k] => w.fresh /\ rows'[k] = w.next /\ (w.alert \/ intact[k])
        /\ w.alert => /\ last'[k] = Newest(w) /\ streak'[k] = 0
                      /\ work'[d] = [w EXCEPT !.stage = "publish"]
        /\ ~w.alert => /\ last'[k] = last[k] /\ streak'[k] = run /\ work'[d] = Idle
                       /\ ~lulled'[k] => ~lulled[k] /\ ~LongEnough(k[1], run)
    BY <1>6, SaveEffect
  <2>3. work'[d].stage # "save"
    BY <1>2, <2>2 DEF Outcome
  <2>4. /\ w.alert => /\ w.next.sev = w.seen /\ w.seen > 0
                      /\ w.next.belowSeverity = 0 /\ w.next.belowTrigger = 0
        /\ intact[k] /\ ~lulled[k] =>
              (w.fresh /\ ~w.alert =>
                    \/ LongEnough(k[1], run)
                    \/ /\ w.next.sev = last[k].sev
                       /\ w.next.belowSeverity <= run /\ w.next.belowTrigger <= run)
    BY <2>1 DEF OutcomeCounts
  <2>5. Newest(w).sev = w.seen
    BY DEF Newest
  <2> HIDE DEF run
  <2>6. ASSUME NEW j \in Keys, intact'[j], ~lulled'[j]
        PROVE  /\ rows'[j].sev = last'[j].sev /\ rows'[j].sev > 0
               /\ rows'[j].belowSeverity <= streak'[j] /\ rows'[j].belowTrigger <= streak'[j]
    <3>1. CASE j # k
      BY <1>3, <2>2, <2>6, <3>1
    <3>2. CASE j = k /\ w.alert
      BY <2>2, <2>4, <2>5, <2>6, <3>2
    <3>3. CASE j = k /\ ~w.alert
      <4>1. /\ w.fresh /\ rows'[k] = w.next /\ intact[k] /\ ~lulled[k] /\ ~LongEnough(k[1], run)
            /\ last'[k] = last[k] /\ streak'[k] = run
        BY <2>2, <2>6, <3>3
      <4>2. rows[k].sev = last[k].sev /\ rows[k].sev > 0
        BY <1>3, <2>2, <4>1
      <4> QED BY <2>4, <3>3, <4>1, <4>2
    <3> QED BY <3>1, <3>2, <3>3
  <2>7. RowCounts'
    BY <2>6 DEF RowCounts
  <2> QED BY <1>4, <2>3, <2>7
<1>7. CASE Publish(d)
  <2>1. /\ work'[d] = Idle /\ UNCHANGED <<rows, last, streak, lulled>>
        /\ \A j \in Keys : intact'[j] => intact[j]
    BY <1>7, PublishEffect
  <2>2. RowCounts'
    BY <2>1 DEF RowCounts
  <2> QED BY <1>2, <1>4, <2>1, <2>2
<1> QED BY <1>1, <1>5, <1>6, <1>7, SingleSteps

\* With one detector, and unless a call failed or the row was cleared since
\* the last alert, an alert no worse than the one before it follows a streak
\* of evaluations long enough for some policy, however the policies change.
\* BoundAmple only says that the model's bound on counts does not bind.
THEOREM NoFlappingHolds ==
    ASSUME NEW d, Detectors = {d}, BoundAmple
    PROVE  Spec => []NoFlapping
<1> DEFINE Inv == TypeOK /\ Remembered /\ RowCounts /\ OutcomeCounts
<1>1. Init => Inv
  <2> SUFFICES ASSUME Init PROVE RowCounts /\ OutcomeCounts
    BY TypeInit
  <2> QED BY DEF Init, RowCounts, OutcomeCounts, Idle
<1>2. Inv /\ [Next]_vars => Inv'
  <2> SUFFICES ASSUME Inv, [Next]_vars PROVE Inv'
    OBVIOUS
  <2>1. TypeOK' /\ Remembered'
    BY TypeStep
  <2> QED BY <2>1, CountsStep
<1>3. Inv => NoFlapping
  BY DEF OutcomeCounts, NoFlapping, Pending
<1> HIDE DEF Inv
<1> QED BY <1>1, <1>2, <1>3, PTL DEF Spec
=============================================================================
