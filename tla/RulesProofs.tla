----------------------------- MODULE RulesProofs -----------------------------
(***************************************************************************)
(* Theorems about the rule patterns, for any configurations, events and    *)
(* faults, and any sizes of their caches.                                  *)
(***************************************************************************)
EXTENDS Rules, SequenceTheorems, WellFoundedInduction, TLAPS

\* A set of numbers that is not empty has a least one.
LEMMA LeastNumber ==
    ASSUME NEW S \in SUBSET Nat, S # {}
    PROVE  \E x \in S : \A y \in S : x <= y
<1>1. IsWellFoundedOn(OpToRel(<, Nat), Nat)
  BY NatLessThanWellFounded
<1>2. PICK x \in S : \A y \in S : ~(<<y, x>> \in OpToRel(<, Nat))
  BY <1>1, WFMin
<1>3. \A y \in S : ~(y < x)
  BY <1>2 DEF OpToRel
<1> QED BY <1>3

-----------------------------------------------------------------------------
(* Runtime rules. *)

RuntimeInv == DOMAIN rows = G!RuleKeys /\ G!StateWasReturned

LEMMA RuntimeInit == G!Init => RuntimeInv
  BY DEF G!Init, RuntimeInv, G!StateWasReturned

LEMMA RuntimeStep == RuntimeInv /\ [G!Next]_G!vars => RuntimeInv'
<1> SUFFICES ASSUME RuntimeInv, [G!Next]_G!vars PROVE RuntimeInv'
  OBVIOUS
<1>1. ASSUME NEW report \in G!Reports, G!Execute(report) PROVE RuntimeInv'
  <2>1. rows' = rows \/ (report.ok /\ \E r : rows' = [rows EXCEPT ![r] = report.state])
    BY <1>1 DEF G!Execute, G!StateAfter
  <2>2. report.ok => report.state = "returned"
    BY DEF G!Reports
  <2> QED BY <2>1, <2>2 DEF RuntimeInv, G!StateWasReturned
<1>2. CASE rows' = rows
  BY <1>2 DEF RuntimeInv, G!StateWasReturned
<1> QED BY <1>1, <1>2 DEF G!Next, G!vars, G!ProcessEvent, G!ExecuteFails, G!Publish,
                          G!ReloadConfig, G!Crash

-----------------------------------------------------------------------------
(***************************************************************************)
(* Flash loans.  CooldownHolds looks at the moment before the save; what   *)
(* holds throughout is that the cooldown of the newest alert of a key is   *)
(* in the cache or, while nothing is loaded, in the row, unless it is over *)
(* or was lost with a process.                                             *)
(***************************************************************************)
Until == {F!None} \cup Nat

FlashShape ==
    /\ config \in [Detectors -> DOMAIN ForFlash.settings]
    /\ \A d \in Detectors : cache[d] = F!NotLoaded \/ cache[d] \in [F!Keys -> Until]
    /\ DOMAIN cache = Detectors
    /\ stored \in [F!Keys -> Until]
    /\ DOMAIN work = Detectors
    /\ \A d \in Detectors :
        /\ DOMAIN work[d] = IF work[d].stage = "idle" THEN {"stage"} ELSE {"stage", "key", "at"}
        /\ work[d].stage \in {"idle", "save", "publish"}
        /\ work[d].stage # "idle" => work[d].key \in F!Keys /\ work[d].at \in F!Times
        /\ work[d].stage = "save" => cache[d] # F!NotLoaded
    /\ last \in [F!Keys -> Until] /\ high \in [F!Keys -> Until]
    /\ intact \in [F!Keys -> BOOLEAN]

Over(k) == high[k] >= last[k]

InCooldown(d, k) ==
    /\ cache[d] = F!NotLoaded => stored[k] >= last[k]
    /\ cache[d] # F!NotLoaded /\ ~(work[d].stage = "save" /\ work[d].key = k) =>
          cache[d][k] >= last[k]

Cooldowns ==
    \A d \in Detectors, k \in F!Keys :
        intact[k] =>
            /\ Over(k) \/ InCooldown(d, k)
            /\ work[d].stage = "save" /\ work[d].key = k => work[d].at >= last[k] \/ Over(k)

FlashInv == FlashShape /\ (F!Alone => Cooldowns)

LEMMA FlashInit == F!Init => FlashInv
  BY DEF F!Init, FlashInv, FlashShape, Cooldowns, Over, InCooldown, F!NoCooldowns, F!Idle, F!None,
         F!NotLoaded, Until

LEMMA FlashMax ==
    ASSUME NEW a \in Int, NEW b \in Int
    PROVE  F!Max({a, b}) \in {a, b} /\ F!Max({a, b}) >= a /\ F!Max({a, b}) >= b
<1>1. \E x \in {a, b} : \A y \in {a, b} : x >= y
  OBVIOUS
<1> QED BY <1>1 DEF F!Max

LEMMA FlashFirst ==
    ASSUME NEW S \in SUBSET Nat, S # {}
    PROVE  F!Min(S) \in S
BY LeastNumber DEF F!Min

\* What an event leaves of the cooldowns, and the rule that alerts, if one does.
LEMMA FlashEventStep ==
    ASSUME FlashInv, NEW d \in Detectors, NEW e \in ForFlash.feed, NEW t \in F!Times,
           F!ProcessEvent(d, e, t)
    PROVE  FlashInv'
<1> DEFINE rules == F!ParseFlashLoanRules(config[d])
           c     == F!Retain(F!LoadState(d), t)
           key(i) == <<rules[i].id, e.attacker>>
           due   == {i \in DOMAIN rules : F!Satisfies(e, rules[i]) /\ c[key(i)] <= t}
           first == F!Min(due)
           starting == F!ApplyCooldown(c, key(first), t + rules[first].cooldown)
<1>1. /\ t \in Nat
      /\ config[d] \in DOMAIN ForFlash.settings /\ e.attacker \in ForFlash.attackers
  BY FlashAssumption DEF F!Times, FlashInv, FlashShape
<1>2. /\ DOMAIN rules \in SUBSET Nat
      /\ \A i \in DOMAIN rules : rules[i].id \in ForFlash.ruleIds /\ rules[i].cooldown \in Nat
  BY <1>1, FlashAssumption
<1>3. F!LoadState(d) \in [F!Keys -> Until]
  BY DEF F!LoadState, FlashInv, FlashShape
<1>4. /\ c \in [F!Keys -> Until]
      /\ \A k \in F!Keys : c[k] = IF F!LoadState(d)[k] > t THEN F!LoadState(d)[k] ELSE F!None
  BY <1>3 DEF F!Retain, Until
<1>5. /\ high' \in [F!Keys -> Until]
      /\ \A k \in F!Keys : high'[k] >= high[k] /\ high'[k] >= t
  <2>1. high' = [k \in F!Keys |-> F!Max({high[k], t})]
    BY DEF F!ProcessEvent
  <2>2. \A k \in F!Keys : high[k] \in Until /\ high[k] \in Int
    BY DEF FlashInv, FlashShape, Until, F!None
  <2>3. \A k \in F!Keys : /\ F!Max({high[k], t}) \in Until
                          /\ F!Max({high[k], t}) >= high[k] /\ F!Max({high[k], t}) >= t
    <3> TAKE k \in F!Keys
    <3>1. high[k] \in Int /\ t \in Int /\ high[k] \in Until /\ t \in Until
      BY <1>1, <2>2 DEF Until
    <3> QED BY <3>1, FlashMax
  <2> QED BY <2>1, <2>3
<1>6. /\ UNCHANGED <<config, stored, last, intact>>
      /\ work[d] = F!Idle
      /\ due = {} => cache' = [cache EXCEPT ![d] = c] /\ UNCHANGED work
      /\ due # {} => /\ cache' = [cache EXCEPT ![d] = starting]
                     /\ work' = [work EXCEPT ![d] =
                                   [stage |-> "save", key |-> key(first), at |-> t]]
  BY DEF F!ProcessEvent
<1>7. due # {} => first \in due
  BY <1>2, FlashFirst
<1>8. due # {} => /\ key(first) \in F!Keys /\ c[key(first)] <= t
                  /\ starting \in [F!Keys -> Until]
                  /\ \A k \in F!Keys \ {key(first)} : starting[k] = c[k]
  <2> SUFFICES ASSUME due # {}
               PROVE  /\ key(first) \in F!Keys /\ c[key(first)] <= t
                      /\ starting \in [F!Keys -> Until]
                      /\ \A k \in F!Keys \ {key(first)} : starting[k] = c[k]
    OBVIOUS
  <2> HIDE DEF c
  <2>1. first \in DOMAIN rules /\ c[key(first)] <= t
    BY <1>7
  <2> HIDE DEF first
  <2>2. rules[first].id \in ForFlash.ruleIds /\ rules[first].cooldown \in Nat
    BY <1>2, <2>1
  <2> HIDE DEF rules
  <2>3. key(first) \in F!Keys
    BY <1>1, <2>2 DEF F!Keys
  <2>4. t + rules[first].cooldown \in Until
    BY <1>1, <2>2 DEF Until
  <2> HIDE DEF key
  <2> QED BY <1>4, <2>1, <2>3, <2>4 DEF F!ApplyCooldown
<1> HIDE DEF rules, c, key, due, first, starting
<1>9. FlashShape'
  <2>1. CASE due = {}
    BY <2>1, <1>4, <1>5, <1>6 DEF FlashInv, FlashShape, F!Idle, F!NotLoaded
  <2>2. CASE due # {}
    <3>1. /\ cache'[d] \in [F!Keys -> Until] /\ DOMAIN cache' = Detectors
          /\ \A o \in Detectors \ {d} : cache'[o] = cache[o]
      BY <2>2, <1>6, <1>8 DEF FlashInv, FlashShape
    <3>2. /\ work'[d] = [stage |-> "save", key |-> key(first), at |-> t]
          /\ DOMAIN work' = Detectors
          /\ \A o \in Detectors \ {d} : work'[o] = work[o]
      BY <2>2, <1>6 DEF FlashInv, FlashShape
    <3>3. cache'[d] # F!NotLoaded
      <4>1. DOMAIN cache'[d] = F!Keys /\ DOMAIN F!NotLoaded = {}
        BY <3>1 DEF F!NotLoaded
      <4> QED BY <2>2, <4>1, <1>8
    <3> QED BY <2>2, <3>1, <3>2, <3>3, <1>1, <1>5, <1>6, <1>8 DEF FlashInv, FlashShape
  <2> QED BY <2>1, <2>2
<1>10. ASSUME F!Alone PROVE Cooldowns'
  <2>1. Detectors = {d} /\ Cooldowns /\ FlashShape
    BY <1>10 DEF F!Alone, FlashInv
  <2> SUFFICES ASSUME NEW k \in F!Keys, intact[k]
               PROVE  /\ Over(k)' \/ InCooldown(d, k)'
                      /\ work'[d].stage = "save" /\ work'[d].key = k =>
                            work'[d].at >= last[k] \/ Over(k)'
    BY <2>1, <1>6 DEF Cooldowns
  <2>2. /\ last[k] \in Int /\ high[k] \in Int /\ high'[k] \in Int
        /\ F!LoadState(d)[k] \in Int /\ stored[k] \in Int /\ last[k] >= -1
        /\ c[k] \in Int /\ t \in Int
    BY <2>1, <1>1, <1>3, <1>4, <1>5 DEF FlashShape, Until, F!None
  <2>3. Over(k) \/ F!LoadState(d)[k] >= last[k]
    <3>1. work[d].stage # "save"
      BY <1>6 DEF F!Idle
    <3>2. Over(k) \/ InCooldown(d, k)
      BY <2>1 DEF Cooldowns
    <3>3. CASE cache[d] = F!NotLoaded
      BY <3>2, <3>3 DEF InCooldown, F!LoadState
    <3>4. CASE cache[d] # F!NotLoaded
      <4>1. F!LoadState(d) = cache[d]
        BY <3>4 DEF F!LoadState
      <4> QED BY <3>1, <3>2, <3>4, <4>1 DEF InCooldown
    <3> QED BY <3>3, <3>4
  <2>4. Over(k)' \/ c[k] >= last[k]
    BY <2>2, <2>3, <1>1, <1>4, <1>5, <1>6 DEF Over, F!None
  <2>7. \A m \in [F!Keys -> Until] : m # F!NotLoaded
    BY DEF F!NotLoaded
  <2>5. CASE due = {}
    <3>1. cache'[d] = c /\ cache'[d] # F!NotLoaded /\ work'[d] = F!Idle
      BY <2>1, <2>5, <1>4, <1>6, <2>7 DEF FlashShape
    <3> QED BY <2>4, <3>1, <1>6 DEF InCooldown, F!Idle
  <2>6. CASE due # {}
    <3>1. /\ work'[d] = [stage |-> "save", key |-> key(first), at |-> t] /\ cache'[d] = starting
          /\ cache'[d] # F!NotLoaded
      BY <2>1, <2>6, <2>7, <1>6, <1>8 DEF FlashShape
    <3>2. CASE k = key(first)
      <4>1. last[k] <= t \/ Over(k)'
        BY <2>2, <2>6, <3>2, <2>4, <1>1, <1>8
      <4> QED BY <2>4, <3>1, <3>2, <4>1, <1>6 DEF InCooldown
    <3>3. CASE k # key(first)
      BY <2>4, <2>6, <3>1, <3>3, <1>6, <1>8 DEF InCooldown
    <3> QED BY <3>2, <3>3
  <2> QED BY <2>5, <2>6
<1> QED BY <1>9, <1>10 DEF FlashInv

LEMMA FlashSaveStep ==
    ASSUME FlashInv, NEW d \in Detectors, F!Save(d)
    PROVE  FlashInv'
<1> DEFINE k == work[d].key
<1>1. /\ work[d].stage = "save"
      /\ work' = [work EXCEPT ![d].stage = "publish"]
      /\ last' = [last EXCEPT ![k] = cache[d][k]]
      /\ high' = [high EXCEPT ![k] = work[d].at]
      /\ UNCHANGED <<config, cache>>
  BY DEF F!Save
<1>2. PICK saved \in BOOLEAN : /\ stored' = IF saved THEN cache[d] ELSE stored
                               /\ intact' = [intact EXCEPT ![k] = TRUE]
  BY DEF F!Save
<1>3. /\ k \in F!Keys /\ work[d].at \in F!Times /\ cache[d] \in [F!Keys -> Until]
      /\ DOMAIN work[d] = {"stage", "key", "at"}
  BY <1>1 DEF FlashInv, FlashShape
<1>4. /\ DOMAIN work' = Detectors /\ DOMAIN work'[d] = DOMAIN work[d]
      /\ work'[d].stage = "publish" /\ work'[d].key = k /\ work'[d].at = work[d].at
      /\ \A o \in Detectors \ {d} : work'[o] = work[o]
  BY <1>1, <1>3 DEF FlashInv, FlashShape
<1>5. F!Times \subseteq Nat
  BY FlashAssumption DEF F!Times
<1>6. /\ last' \in [F!Keys -> Until] /\ high' \in [F!Keys -> Until]
      /\ stored' \in [F!Keys -> Until] /\ intact' \in [F!Keys -> BOOLEAN]
      /\ last'[k] = cache[d][k] /\ intact'[k] = TRUE
      /\ \A j \in F!Keys \ {k} : last'[j] = last[j] /\ high'[j] = high[j] /\ intact'[j] = intact[j]
  BY <1>1, <1>2, <1>3, <1>5 DEF FlashInv, FlashShape, Until
<1>7. FlashShape'
  BY <1>1, <1>3, <1>4, <1>6 DEF FlashInv, FlashShape
<1>8. ASSUME F!Alone PROVE Cooldowns'
  <2>1. Detectors = {d} /\ Cooldowns
    BY <1>8 DEF F!Alone, FlashInv
  <2> SUFFICES ASSUME NEW j \in F!Keys, intact'[j]
               PROVE  Over(j)' \/ InCooldown(d, j)'
    BY <2>1, <1>4 DEF Cooldowns
  <2>2. CASE j = k
    <3>1. cache[d] # F!NotLoaded /\ cache'[d] = cache[d]
      BY <1>1 DEF FlashInv, FlashShape
    <3>2. cache[d][k] \in Int
      <4>1. cache[d][k] \in Until
        BY <1>3
      <4> QED
        BY <4>1 DEF Until, F!None
    <3> QED BY <2>2, <3>1, <3>2, <1>6 DEF InCooldown
  <2>3. CASE j # k
    BY <2>1, <2>3, <1>1, <1>2, <1>6, <1>7 DEF Cooldowns, Over, InCooldown, FlashInv, FlashShape
  <2> QED BY <2>2, <2>3
<1> QED BY <1>7, <1>8 DEF FlashInv

LEMMA FlashStep == FlashInv /\ [F!Next]_F!vars => FlashInv'
<1> SUFFICES ASSUME FlashInv, [F!Next]_F!vars PROVE FlashInv'
  OBVIOUS
<1>1. ASSUME NEW d \in Detectors, F!Publish(d) PROVE FlashInv'
  BY <1>1 DEF F!Publish, F!Idle, FlashInv, FlashShape, Cooldowns, Over, InCooldown
<1>2. ASSUME NEW d \in Detectors, F!Crash(d) PROVE FlashInv'
  BY <1>2 DEF F!Crash, F!Idle, FlashInv, FlashShape, Cooldowns, Over, InCooldown
<1>3. ASSUME NEW d \in Detectors, NEW c \in DOMAIN ForFlash.settings, F!ReloadConfig(d, c)
      PROVE  FlashInv'
  BY <1>3 DEF F!ReloadConfig, FlashInv, FlashShape, Cooldowns, Over, InCooldown
<1>4. CASE UNCHANGED <<config, cache, stored, work, last, high, intact>>
  BY <1>4 DEF FlashInv, FlashShape, Cooldowns, Over, InCooldown
<1> QED BY <1>1, <1>2, <1>3, <1>4, FlashEventStep, FlashSaveStep
        DEF F!Next, F!vars, F!LoadFails

LEMMA FlashInvariant == FlashInv => F!CooldownHolds
BY DEF FlashInv, FlashShape, Cooldowns, Over, F!CooldownHolds

-----------------------------------------------------------------------------
(***************************************************************************)
(* High utilization.  With one detector nothing moves the row of a rule    *)
(* between its evaluation and the save, so that what is about to be saved  *)
(* is the evaluation of the row that is still there (Evaluated); the other *)
(* parts relate the rows to the histories, to the cache, and to what the   *)
(* event in hand has emitted and raised so far.                            *)
(***************************************************************************)
RowOf(d) == U!StateKey(U!NextRule(d))

\* The evaluation that LoadAndEvaluate makes of a row.
Evaluation(r, row, e, t) ==
    IF e.kind = "reading" THEN U!EvaluateUtilizationState(r, row, e, t)
    ELSE U!EvaluatePause(r, row, e, t)

Counted(row) == row.escalations <= IF row.sev = 0 THEN 0 ELSE row.sev - 2

Detection(det) ==
    /\ det.transition \in {"trigger", "escalate", "resolve", "update"}
    /\ det.key \in U!Keys /\ det.sev \in {2, 3, 4} /\ det.paused \in BOOLEAN

InHand(w, c) ==
    /\ DOMAIN w = {"stage", "event", "at", "rules", "emitted", "raised", "next", "det"}
    /\ w.stage \in {"load", "save"} /\ w.event \in ForUtilization.feed /\ w.at \in U!Times
    /\ w.rules \subseteq U!ParseUtilizationRules(c)
    /\ w.raised \subseteq U!Keys
    /\ w.emitted = U!NoDetection \/ Detection(w.emitted)
    /\ w.emitted = U!NoDetection => w.raised = {}
    /\ w.emitted # U!NoDetection => w.emitted.key \in w.raised
    /\ w.event.kind = "pause" => w.raised = {} \/ (w.raised = {w.emitted.key} /\ w.rules = {})
    /\ w.stage = "save" =>
          /\ w.rules # {} /\ w.next \in U!Row /\ Counted(w.next)
          /\ \/ w.det = U!NoDetection
             \/ Detection(w.det)
                /\ w.det.key = U!StateKey(ForUtilization.settings[c][U!Min(w.rules)])

UtilizationShape ==
    /\ config \in [Detectors -> DOMAIN ForUtilization.settings]
    /\ rows \in [U!Keys -> U!Row] /\ \A k \in U!Keys : Counted(rows[k])
    /\ DOMAIN cache = Detectors /\ \A d \in Detectors : DOMAIN cache[d] = U!Keys
    /\ DOMAIN work = Detectors
    /\ \A d \in Detectors : work[d] = U!Idle \/ InHand(work[d], config[d])
    /\ announced \in [U!Keys -> U!Ranks] /\ masked \in [U!Keys -> U!Ranks]
    /\ calm \in [U!Keys -> 0 .. ForUtilization.maxCalm]
    /\ suspended \in [U!Keys -> BOOLEAN] /\ intact \in [U!Keys -> BOOLEAN]

Evaluated ==
    \A d \in Detectors : work[d].stage = "save" =>
        LET w   == work[d]
            out == Evaluation(U!NextRule(d), rows[RowOf(d)], w.event, w.at)
        IN  /\ ~U!PassesOver(U!NextRule(d), rows[RowOf(d)], w.event)
            /\ w.next = out.next /\ w.det = out.det

\* The confirmations that a row counts were quiet readings.
CountedCalm == \A k \in U!Keys : intact[k] => rows[k].counter <= calm[k]

\* A pause that was told is in the row, or its end has been saved and is about
\* to be told; so is a pause that is about to be told.
PauseKept ==
    \A d \in Detectors, k \in U!Keys : intact[k] =>
        /\ suspended[k] => rows[k].paused
                           \/ (work[d] # U!Idle /\ work[d].event.kind = "pause" /\ k \in work[d].raised)
        /\ work[d] # U!Idle /\ work[d].emitted # U!NoDetection /\ work[d].emitted.key = k =>
              (work[d].emitted.paused => rows[k].paused)

\* What no event in hand has raised was told, or masked.  What one has raised
\* is no worse than the detection it will publish, and no rule that it still has
\* to visit has raised its row before.
Told ==
    \A d \in Detectors :
        LET w == work[d]
        IN  /\ \A k \in U!Keys : intact[k] /\ k \notin U!RaisedKeys(d) =>
                  rows[k].sev <= announced[k] \/ rows[k].sev <= masked[k]
            /\ w # U!Idle =>
                  /\ \A i \in w.rules :
                        U!StateKey(ForUtilization.settings[config[d]][i]) \notin w.raised
                  /\ \A k \in w.raised : intact[k] =>
                        /\ rows[k].sev <= w.emitted.sev
                        /\ k = w.emitted.key /\ w.emitted.transition = "resolve" =>
                              rows[k].sev = 0

UtilizationInv ==
    /\ UtilizationShape
    /\ U!Alone => Evaluated /\ U!ConcurrentAlertsActive /\ CountedCalm /\ PauseKept
    /\ U!Alone /\ U!KeysDistinct => Told

LEMMA UtilizationMax ==
    ASSUME NEW a \in Int, NEW b \in Int
    PROVE  U!Max({a, b}) \in {a, b} /\ U!Max({a, b}) >= a /\ U!Max({a, b}) >= b
<1>1. \E x \in {a, b} : \A y \in {a, b} : x >= y
  OBVIOUS
<1> QED BY <1>1 DEF U!Max

LEMMA UtilizationMin ==
    ASSUME NEW a \in Int, NEW b \in Int
    PROVE  U!Min({a, b}) = IF a <= b THEN a ELSE b
<1>1. \E x \in {a, b} : \A y \in {a, b} : x <= y
  OBVIOUS
<1>2. U!Min({a, b}) \in {a, b} /\ U!Min({a, b}) <= a /\ U!Min({a, b}) <= b
  BY <1>1 DEF U!Min
<1> QED BY <1>2

LEMMA UtilizationFirst ==
    ASSUME NEW S \in SUBSET Nat, S # {}
    PROVE  U!Min(S) \in S
BY LeastNumber DEF U!Min

LEMMA UtilizationInit == U!Init => UtilizationInv
<1> SUFFICES ASSUME U!Init PROVE UtilizationInv
  OBVIOUS
<1>1. \A d \in Detectors : work[d] = U!Idle /\ work[d].stage = "idle"
  BY DEF U!Init, U!Idle
<1>2. \A k \in U!Keys : /\ rows[k] = U!FreshRow /\ announced[k] = 0 /\ masked[k] = 0
                        /\ calm[k] = 0 /\ intact[k] = TRUE /\ suspended[k] = FALSE
  BY DEF U!Init
<1>3. /\ U!FreshRow \in U!Row /\ U!FreshRow.sev = 0 /\ U!FreshRow.counter = 0
      /\ Counted(U!FreshRow)
  BY DEF U!FreshRow, U!Row, U!Ranks, U!None, Counted
<1>4. UtilizationShape
  BY <1>1, <1>2, <1>3, UtilizationAssumption DEF U!Init, UtilizationShape, U!Ranks
<1>5. /\ Evaluated /\ CountedCalm /\ PauseKept /\ Told
  BY <1>1, <1>2, <1>3 DEF Evaluated, CountedCalm, PauseKept, Told
<1>6. U!ConcurrentAlertsActive
  BY DEF U!Init, U!ConcurrentAlertsActive, U!Cached
<1> QED BY <1>4, <1>5, <1>6 DEF UtilizationInv

\* What evaluating a rule makes of its row, whatever the event.
Moved(k, row, out) ==
    /\ out.next \in U!Row
    /\ Counted(row) => Counted(out.next)
    /\ out.next.sev >= row.sev \/ out.next.sev = 0
    /\ out.det = U!NoDetection => out.next.sev = row.sev
    /\ out.det # U!NoDetection =>
          /\ Detection(out.det) /\ out.det.key = k
          /\ out.next.sev = IF out.det.transition = "resolve" THEN 0 ELSE out.det.sev

\* What a reading makes of it, that is a breach of severity s.
Read(r, row, s, out) ==
    /\ out.next.paused = row.paused
    /\ out.det # U!NoDetection => (out.det.paused => row.paused)
    /\ s > 0 => out.next.counter = 0
    /\ \/ out.next.counter <= row.counter
       \/ out.next.counter = row.counter + 1 /\ row.counter + 1 < r.blocks
    /\ out.det.transition = "resolve" =>
          s = 0 /\ ~row.paused /\ row.counter + 1 >= r.blocks

LEMMA BreachMoves ==
    ASSUME NEW k \in U!Keys, NEW r \in U!Rule, NEW row \in U!Row, NEW s \in {2, 3, 4},
           NEW t \in U!Times
    PROVE  Moved(k, row, U!Breach(k, row, s, t)) /\ Read(r, row, s, U!Breach(k, row, s, t))
<1> DEFINE next == [row EXCEPT !.sev = s, !.counter = 0, !.moved = t,
                               !.escalations = IF row.sev = 0 THEN 0 ELSE @ + 1]
           det  == U!BuildUtilizationDetection(
                       k, IF row.sev = 0 THEN "trigger" ELSE "escalate", next)
           still == [row EXCEPT !.counter = 0]
<1>1. /\ row.sev \in {0, 2, 3, 4} /\ row.counter \in Nat /\ row.escalations \in Nat
      /\ row.paused \in BOOLEAN
  BY DEF U!Row, U!Ranks
<1>2. CASE s > row.sev
  <2>1. U!Breach(k, row, s, t).next = next /\ U!Breach(k, row, s, t).det = det
    BY <1>2 DEF U!Breach, U!Outcome
  <2>2. next \in U!Row
    <3>1. s \in U!Ranks /\ t \in {U!None} \cup U!Times
      BY DEF U!Ranks
    <3>2. CASE row.sev = 0
      BY <3>1, <3>2 DEF U!Row
    <3>3. CASE row.sev # 0
      <4>1. row.escalations + 1 \in Nat
        BY <1>1
      <4> QED BY <3>1, <3>3, <4>1 DEF U!Row
    <3> QED BY <3>2, <3>3
  <2>3. /\ next.sev = s /\ next.counter = 0
        /\ next.escalations = IF row.sev = 0 THEN 0 ELSE row.escalations + 1
    BY DEF U!Row
  <2>4. next.paused = row.paused
    BY DEF U!Row
  <2> HIDE DEF next
  <2>5. /\ det.key = k /\ det.sev = s
        /\ det.transition \in {"trigger", "escalate"} /\ det # U!NoDetection
    BY <2>3 DEF U!BuildUtilizationDetection, U!NoDetection
  <2>6. det.paused = row.paused
    BY <2>4 DEF U!BuildUtilizationDetection
  <2> HIDE DEF det
  <2>7. Counted(row) => Counted(next)
    BY <1>1, <1>2, <2>3 DEF Counted
  <2>8. Detection(det)
    BY <1>1, <2>5, <2>6 DEF Detection
  <2>9. Moved(k, row, U!Breach(k, row, s, t))
    BY <1>1, <1>2, <2>1, <2>2, <2>3, <2>5, <2>7, <2>8 DEF Moved
  <2>10. Read(r, row, s, U!Breach(k, row, s, t))
    BY <1>1, <2>1, <2>3, <2>4, <2>5, <2>6 DEF Read
  <2> QED BY <2>9, <2>10
<1>3. CASE ~(s > row.sev)
  <2>1. U!Breach(k, row, s, t).next = still /\ U!Breach(k, row, s, t).det = U!NoDetection
    BY <1>3 DEF U!Breach, U!Outcome
  <2>2. /\ still \in U!Row /\ still.sev = row.sev /\ still.counter = 0
        /\ still.escalations = row.escalations
    BY DEF U!Row
  <2>3. still.paused = row.paused
    BY DEF U!Row
  <2> HIDE DEF still
  <2>4. Moved(k, row, U!Breach(k, row, s, t))
    BY <1>1, <2>1, <2>2 DEF Moved, Counted
  <2>5. U!NoDetection.transition # "resolve"
    BY DEF U!NoDetection
  <2>6. Read(r, row, s, U!Breach(k, row, s, t))
    BY <1>1, <2>1, <2>2, <2>3, <2>5 DEF Read
  <2> QED BY <2>4, <2>6
<1> QED BY <1>2, <1>3

LEMMA QuietMoves ==
    ASSUME NEW k \in U!Keys, NEW r \in U!Rule, NEW row \in U!Row, NEW pct, NEW t \in U!Times
    PROVE  Moved(k, row, U!Quiet(k, r, row, pct, t)) /\ Read(r, row, 0, U!Quiet(k, r, row, pct, t))
<1> DEFINE out == U!Quiet(k, r, row, pct, t)
           still == [row EXCEPT !.counter = 0]
           counts == [row EXCEPT !.counter = @ + 1]
           ended == [row EXCEPT !.sev = 0, !.moved = t, !.counter = 0, !.escalations = 0]
           det  == U!BuildResolveDetection(k, row)
<1>1. /\ row.sev \in {0, 2, 3, 4} /\ row.counter \in Nat /\ row.escalations \in Nat
      /\ row.paused \in BOOLEAN /\ r.blocks \in Nat
  BY DEF U!Row, U!Ranks, U!Rule
<1> SUFFICES Moved(k, row, out) /\ Read(r, row, 0, out)
  OBVIOUS
<1>2. U!NoDetection.transition # "resolve"
  BY DEF U!NoDetection
<1>3. CASE out = U!Outcome(row, U!NoDetection)
  <2>1. out.next = row /\ out.det = U!NoDetection
    BY <1>3 DEF U!Outcome
  <2> HIDE DEF out
  <2> QED BY <1>1, <1>2, <2>1 DEF Moved, Read
<1>4. CASE out = U!Outcome(still, U!NoDetection)
  <2>1. out.next = still /\ out.det = U!NoDetection
    BY <1>4 DEF U!Outcome
  <2>2. /\ still \in U!Row /\ still.sev = row.sev /\ still.counter = 0
        /\ still.escalations = row.escalations
    BY DEF U!Row
  <2>3. still.paused = row.paused
    BY DEF U!Row
  <2> HIDE DEF out, still
  <2> QED BY <1>1, <1>2, <2>1, <2>2, <2>3 DEF Moved, Read, Counted
<1>5. CASE out = U!Outcome(counts, U!NoDetection) /\ ~(row.counter + 1 >= r.blocks)
  <2>1. out.next = counts /\ out.det = U!NoDetection
    BY <1>5 DEF U!Outcome
  <2>2. /\ counts \in U!Row /\ counts.sev = row.sev /\ counts.counter = row.counter + 1
        /\ counts.escalations = row.escalations
    BY <1>1 DEF U!Row
  <2>3. counts.paused = row.paused
    BY DEF U!Row
  <2>4. row.counter + 1 < r.blocks
    BY <1>1, <1>5
  <2> HIDE DEF out, counts
  <2> QED BY <1>1, <1>2, <2>1, <2>2, <2>3, <2>4 DEF Moved, Read, Counted
<1>6. CASE out = U!Outcome(ended, det) /\ row.sev # 0 /\ ~row.paused /\ row.counter + 1 >= r.blocks
  <2>1. out.next = ended /\ out.det = det
    BY <1>6 DEF U!Outcome
  <2>2. /\ ended \in U!Row /\ ended.sev = 0 /\ ended.counter = 0 /\ ended.escalations = 0
    BY <1>1 DEF U!Row, U!Ranks
  <2>3. ended.paused = row.paused
    BY DEF U!Row
  <2>4. /\ det.transition = "resolve" /\ det.key = k /\ det.sev = row.sev
        /\ det # U!NoDetection
    BY DEF U!BuildResolveDetection, U!NoDetection
  <2>5. det.paused = FALSE
    BY DEF U!BuildResolveDetection
  <2> HIDE DEF out, ended, det
  <2>6. Detection(det)
    BY <1>1, <1>6, <2>4, <2>5 DEF Detection
  <2>7. Moved(k, row, out)
    BY <1>1, <2>1, <2>2, <2>4, <2>6 DEF Moved, Counted
  <2>8. Read(r, row, 0, out)
    BY <1>1, <1>6, <2>1, <2>2, <2>3, <2>4, <2>5 DEF Read
  <2> QED BY <2>7, <2>8
<1> QED
  <2>1. \/ out = U!Outcome(row, U!NoDetection)
        \/ out = U!Outcome(still, U!NoDetection)
        \/ out = U!Outcome(counts, U!NoDetection) /\ ~(row.counter + 1 >= r.blocks)
        \/ out = U!Outcome(ended, det) /\ row.sev # 0 /\ ~row.paused /\ row.counter + 1 >= r.blocks
    <3>1. CASE row.sev = 0
      BY <3>1 DEF U!Quiet
    <3>2. CASE row.sev # 0 /\ pct >= r.resolution[row.sev]
      BY <3>2 DEF U!Quiet
    <3>3. CASE row.sev # 0 /\ ~(pct >= r.resolution[row.sev]) /\ row.paused
      BY <3>3 DEF U!Quiet
    <3>4. CASE /\ row.sev # 0 /\ ~(pct >= r.resolution[row.sev]) /\ ~row.paused
               /\ row.counter + 1 >= r.blocks
      BY <3>4 DEF U!Quiet, U!Resolve
    <3>5. CASE /\ row.sev # 0 /\ ~(pct >= r.resolution[row.sev]) /\ ~row.paused
               /\ ~(row.counter + 1 >= r.blocks)
      BY <3>5 DEF U!Quiet
    <3> QED BY <3>1, <3>2, <3>3, <3>4, <3>5
  <2> QED BY <1>3, <1>4, <1>5, <1>6, <2>1

LEMMA Classified ==
    ASSUME NEW pct, NEW r
    PROVE  U!ClassifySeverity(pct, r) \in {0, 2, 3, 4}
<1> DEFINE S == {0} \cup {s \in {2, 3, 4} : pct >= r.threshold[s]}
<1>1. \E x \in S : \A y \in S : x >= y
  <2>1. 0 \in S /\ S \subseteq {0, 2, 3, 4}
    OBVIOUS
  <2> HIDE DEF S
  <2>2. CASE 4 \in S
    BY <2>1, <2>2
  <2>3. CASE 4 \notin S /\ 3 \in S
    BY <2>1, <2>3
  <2>4. CASE 4 \notin S /\ 3 \notin S /\ 2 \in S
    BY <2>1, <2>4
  <2>5. CASE 4 \notin S /\ 3 \notin S /\ 2 \notin S
    BY <2>1, <2>5
  <2> QED BY <2>2, <2>3, <2>4, <2>5
<1>2. U!Max(S) \in S
  BY <1>1 DEF U!Max
<1> QED BY <1>2 DEF U!ClassifySeverity

LEMMA ReadingMoves ==
    ASSUME NEW r \in U!Rule, U!StateKey(r) \in U!Keys, NEW row \in U!Row, NEW e,
           NEW t \in U!Times
    PROVE  LET out == U!EvaluateUtilizationState(r, row, e, t)
               s   == U!ClassifySeverity(U!UtilizationPct(e.raw), r)
           IN  Moved(U!StateKey(r), row, out) /\ Read(r, row, s, out)
<1> DEFINE k == U!StateKey(r)
           out == U!EvaluateUtilizationState(r, row, e, t)
           pct == U!UtilizationPct(e.raw)
           s   == U!ClassifySeverity(pct, r)
           newest == U!Max({row.sampled, t})
           sampled == [row EXCEPT !.sampled = newest]
<1> SUFFICES Moved(k, row, out) /\ Read(r, row, s, out)
  OBVIOUS
<1>1. s \in {0, 2, 3, 4}
  BY Classified
<1>2. newest \in {U!None} \cup U!Times
  <2>1. row.sampled \in {U!None} \cup U!Times /\ t \in {U!None} \cup U!Times
    BY DEF U!Row
  <2>2. {U!None} \cup U!Times \subseteq Int
    BY DEF U!None, U!Times
  <2>3. newest \in {row.sampled, t}
    BY <2>1, <2>2, UtilizationMax
  <2> QED BY <2>1, <2>3
<1> HIDE DEF newest
<1>3. /\ sampled \in U!Row /\ sampled.sev = row.sev /\ sampled.counter = row.counter
      /\ sampled.escalations = row.escalations
  BY <1>2 DEF U!Row
<1>4. sampled.paused = row.paused
  BY DEF U!Row
<1>5. out = IF s > 0 THEN U!Breach(k, sampled, s, t) ELSE U!Quiet(k, r, sampled, pct, t)
  BY DEF U!EvaluateUtilizationState, newest
<1> HIDE DEF out, sampled, s, k
<1>6. Moved(k, sampled, out) /\ Read(r, sampled, s, out)
  <2>0. k \in U!Keys
    BY DEF k
  <2>1. CASE s = 0
    BY <2>0, <2>1, <1>3, <1>5, QuietMoves
  <2>2. CASE s \in {2, 3, 4}
    BY <2>0, <2>2, <1>3, <1>5, BreachMoves
  <2> QED BY <1>1, <2>1, <2>2
<1>7. Moved(k, row, out)
  BY <1>3, <1>6 DEF Moved, Counted
<1>8. Read(r, row, s, out)
  BY <1>3, <1>4, <1>6 DEF Read
<1> QED BY <1>7, <1>8

\* What a pause event makes of an incident.
Paused(row, e, out) ==
    /\ out.next.paused = e.paused /\ out.det.paused = e.paused
    /\ out.next.counter = row.counter
    /\ out.det # U!NoDetection /\ out.det.transition = "update"

LEMMA PauseMoves ==
    ASSUME NEW r \in U!Rule, U!StateKey(r) \in U!Keys, NEW row \in U!Row, NEW e \in U!Event,
           NEW t \in U!Times, row.sev # 0
    PROVE  LET out == U!EvaluatePause(r, row, e, t)
           IN  Moved(U!StateKey(r), row, out) /\ Paused(row, e, out)
<1> DEFINE k == U!StateKey(r)
           out == U!EvaluatePause(r, row, e, t)
           next == [row EXCEPT !.paused = e.paused, !.moved = t]
           det == U!BuildPauseDetection(k, next)
<1> SUFFICES Moved(k, row, out) /\ Paused(row, e, out)
  OBVIOUS
<1>1. /\ row.sev \in {2, 3, 4} /\ row.escalations \in Nat /\ e.paused \in BOOLEAN
      /\ k \in U!Keys
  BY DEF U!Row, U!Ranks, U!Event
<1>2. out.next = next /\ out.det = det
  BY DEF U!EvaluatePause, U!Outcome
<1>3. /\ next \in U!Row /\ next.sev = row.sev /\ next.counter = row.counter
      /\ next.escalations = row.escalations
  BY <1>1 DEF U!Row
<1>4. next.paused = e.paused
  BY DEF U!Row
<1>5. /\ det.key = k /\ det.sev = row.sev /\ det.transition = "update" /\ det # U!NoDetection
  BY <1>3 DEF U!BuildPauseDetection, U!NoDetection
<1>6. det.paused = e.paused
  BY <1>4 DEF U!BuildPauseDetection
<1> HIDE DEF out, next, det, k
<1>7. Detection(det)
  BY <1>1, <1>5, <1>6 DEF Detection
<1>8. Moved(k, row, out)
  BY <1>1, <1>2, <1>3, <1>5, <1>7 DEF Moved, Counted
<1>9. Paused(row, e, out)
  BY <1>2, <1>3, <1>4, <1>5, <1>6 DEF Paused
<1> QED BY <1>8, <1>9

LEMMA RuleTaken ==
    ASSUME UtilizationShape, NEW d \in Detectors, work[d] # U!Idle, work[d].rules # {}
    PROVE  /\ U!Min(work[d].rules) \in work[d].rules
           /\ U!NextRule(d) = ForUtilization.settings[config[d]][U!Min(work[d].rules)]
           /\ U!NextRule(d) \in U!Rule /\ U!NextRule(d) \in U!AllRules
           /\ U!Valid(U!NextRule(d)) /\ U!NextRule(d).blocks <= ForUtilization.maxCalm + 1
           /\ RowOf(d) \in U!Keys
<1> DEFINE list == ForUtilization.settings[config[d]]
           i    == U!Min(work[d].rules)
<1>1. /\ config[d] \in DOMAIN ForUtilization.settings
      /\ work[d].rules \subseteq U!ParseUtilizationRules(config[d])
  BY DEF UtilizationShape, InHand
<1>2. list \in Seq(U!Rule) /\ \A j \in DOMAIN list : list[j].blocks <= ForUtilization.maxCalm + 1
  BY <1>1, UtilizationAssumption
<1>3. \A j \in work[d].rules : j \in DOMAIN list /\ U!Valid(list[j])
  BY <1>1 DEF U!ParseUtilizationRules
<1>4. DOMAIN list \subseteq Nat
  BY <1>2
<1>5. i \in work[d].rules
  <2>1. work[d].rules \in SUBSET Nat
    BY <1>3, <1>4
  <2> QED BY <2>1, UtilizationFirst
<1>6. U!NextRule(d) = list[i]
  BY DEF U!NextRule
<1> HIDE DEF i
<1>7. list[i] \in U!Rule
  BY <1>2, <1>3, <1>5
<1>8. list[i] \in U!AllRules
  BY <1>1, <1>3, <1>5 DEF U!AllRules
<1>9. RowOf(d) \in U!Keys
  BY <1>6, <1>7 DEF RowOf, U!StateKey, U!SubjectForEvent, U!Keys, U!Rule
<1> QED BY <1>2, <1>3, <1>5, <1>6, <1>7, <1>8, <1>9 DEF i

\* The event in hand is given up, with what it had raised.
LEMMA DropStep ==
    ASSUME UtilizationInv, NEW d \in Detectors, work' = [work EXCEPT ![d] = U!Idle],
           U!Losing(d, U!RaisedKeys(d)),
           \/ cache' = cache
           \/ cache' = [cache EXCEPT ![d] = [k \in U!Keys |-> U!NotCached]],
           UNCHANGED <<config, rows, announced, suspended, masked, calm>>
    PROVE  UtilizationInv'
<1>1. /\ intact' \in [U!Keys -> BOOLEAN]
      /\ \A k \in U!Keys : intact'[k] => intact[k] /\ k \notin U!RaisedKeys(d)
  BY DEF U!Losing, UtilizationInv, UtilizationShape
<1>2. /\ DOMAIN work' = Detectors /\ work'[d] = U!Idle
      /\ \A o \in Detectors \ {d} : work'[o] = work[o]
  BY DEF UtilizationInv, UtilizationShape
<1>3. U!Idle.stage = "idle"
  BY DEF U!Idle
<1>4. UtilizationShape'
  <2>1. DOMAIN cache' = Detectors /\ \A o \in Detectors : DOMAIN cache'[o] = U!Keys
    BY DEF UtilizationInv, UtilizationShape
  <2>2. \A o \in Detectors : work'[o] = U!Idle \/ InHand(work'[o], config'[o])
    BY <1>2 DEF UtilizationInv, UtilizationShape
  <2> QED BY <1>1, <1>2, <2>1, <2>2 DEF UtilizationInv, UtilizationShape
<1>5. ASSUME U!Alone PROVE (Evaluated /\ U!ConcurrentAlertsActive /\ CountedCalm /\ PauseKept)'
  <2>1. /\ Detectors = {d}
        /\ Evaluated /\ U!ConcurrentAlertsActive /\ CountedCalm /\ PauseKept
    BY <1>5 DEF U!Alone, UtilizationInv
  <2>2. Evaluated'
    BY <1>2, <1>3, <2>1 DEF Evaluated
  <2>3. U!ConcurrentAlertsActive'
    <3>1. CASE cache' = cache
      BY <1>1, <2>1, <3>1 DEF U!ConcurrentAlertsActive, U!Cached
    <3>2. CASE cache' = [cache EXCEPT ![d] = [k \in U!Keys |-> U!NotCached]]
      <4>1. \A k \in U!Keys : cache'[d][k] = U!NotCached
        BY <3>2 DEF UtilizationInv, UtilizationShape
      <4> QED BY <2>1, <4>1 DEF U!ConcurrentAlertsActive, U!Cached
    <3> QED BY <3>1, <3>2
  <2>4. CountedCalm'
    BY <1>1, <2>1 DEF CountedCalm
  <2>5. PauseKept'
    BY <1>1, <1>2, <2>1 DEF PauseKept, U!RaisedKeys
  <2> QED BY <2>2, <2>3, <2>4, <2>5
<1>6. ASSUME U!Alone, U!KeysDistinct PROVE Told'
  <2>1. Detectors = {d} /\ Told
    BY <1>6 DEF U!Alone, UtilizationInv
  <2> QED BY <1>1, <1>2, <2>1 DEF Told, U!RaisedKeys
<1> QED BY <1>4, <1>5, <1>6 DEF UtilizationInv, U!Alone, U!KeysDistinct

LEMMA UtilizationEventStep ==
    ASSUME UtilizationInv, NEW d \in Detectors, NEW e \in ForUtilization.feed, NEW t \in U!Times,
           U!ProcessEvent(d, e, t)
    PROVE  UtilizationInv'
<1> DEFINE list == ForUtilization.settings[config[d]]
           places == {i \in U!ParseUtilizationRules(config[d]) :
                         list[i].enabled /\ U!Matches(list[i], e.market)}
           w == [stage |-> "load", event |-> e, at |-> t, rules |-> places,
                 emitted |-> U!NoDetection, raised |-> {}, next |-> U!FreshRow,
                 det |-> U!NoDetection]
<1>1. /\ work[d] = U!Idle /\ work' = [work EXCEPT ![d] = w]
      /\ UNCHANGED <<config, cache, rows, faults, announced, suspended, masked, calm, intact>>
  BY DEF U!ProcessEvent
<1>2. places \subseteq U!ParseUtilizationRules(config[d])
  OBVIOUS
<1> HIDE DEF places
<1>3. /\ DOMAIN w = {"stage", "event", "at", "rules", "emitted", "raised", "next", "det"}
      /\ w.stage = "load" /\ w.event = e /\ w.at = t /\ w.rules = places
      /\ w.emitted = U!NoDetection /\ w.raised = {}
  OBVIOUS
<1> HIDE DEF w
<1>4. InHand(w, config[d])
  BY <1>2, <1>3 DEF InHand
<1>5. /\ DOMAIN work' = Detectors /\ work'[d] = w
      /\ \A o \in Detectors \ {d} : work'[o] = work[o]
  BY <1>1 DEF UtilizationInv, UtilizationShape
<1>6. UtilizationShape'
  BY <1>1, <1>4, <1>5 DEF UtilizationInv, UtilizationShape
<1>7. ASSUME U!Alone PROVE (Evaluated /\ U!ConcurrentAlertsActive /\ CountedCalm /\ PauseKept)'
  <2>1. /\ Detectors = {d}
        /\ Evaluated /\ U!ConcurrentAlertsActive /\ CountedCalm /\ PauseKept
    BY <1>7 DEF U!Alone, UtilizationInv
  <2>2. Evaluated'
    BY <1>3, <1>5, <2>1 DEF Evaluated
  <2>3. U!ConcurrentAlertsActive' /\ CountedCalm'
    BY <1>1, <2>1 DEF U!ConcurrentAlertsActive, U!Cached, CountedCalm
  <2>4. PauseKept'
    BY <1>1, <1>3, <1>5, <2>1 DEF PauseKept
  <2> QED BY <2>2, <2>3, <2>4
<1>8. ASSUME U!Alone, U!KeysDistinct PROVE Told'
  <2>1. Detectors = {d} /\ Told
    BY <1>8 DEF U!Alone, UtilizationInv
  <2> QED BY <1>1, <1>3, <1>5, <2>1 DEF Told, U!RaisedKeys
<1> QED BY <1>6, <1>7, <1>8 DEF UtilizationInv, U!Alone, U!KeysDistinct

LEMMA EvaluationMoves ==
    ASSUME NEW r \in U!Rule, U!StateKey(r) \in U!Keys, NEW row \in U!Row, NEW e \in U!Event,
           NEW t \in U!Times, ~U!PassesOver(r, row, e)
    PROVE  LET out == Evaluation(r, row, e, t)
               s   == U!ClassifySeverity(U!UtilizationPct(e.raw), r)
           IN  /\ Moved(U!StateKey(r), row, out)
               /\ e.kind = "reading" => Read(r, row, s, out)
               /\ e.kind = "pause" => Paused(row, e, out)
<1>1. CASE e.kind = "reading"
  BY <1>1, ReadingMoves DEF Evaluation
<1>2. CASE e.kind # "reading"
  <2>1. row.sev # 0
    BY <1>2 DEF U!PassesOver
  <2> QED BY <1>2, <2>1, PauseMoves DEF Evaluation
<1> QED BY <1>1, <1>2

LEMMA UtilizationLoadStep ==
    ASSUME UtilizationInv, NEW d \in Detectors, U!LoadAndEvaluate(d)
    PROVE  UtilizationInv'
<1> DEFINE w   == work[d]
           r   == U!NextRule(d)
           row == rows[U!StateKey(r)]
           out == Evaluation(r, row, w.event, w.at)
           passed == [w EXCEPT !.rules = U!RulesAfter(@)]
           taken == [w EXCEPT !.stage = "save", !.next = out.next, !.det = out.det]
<1>1. /\ w.stage = "load" /\ w.rules # {}
      /\ U!PassesOver(r, row, w.event) => work' = [work EXCEPT ![d] = passed]
      /\ ~U!PassesOver(r, row, w.event) => work' = [work EXCEPT ![d] = taken]
      /\ UNCHANGED <<config, cache, rows, faults, announced, suspended, masked, calm, intact>>
  BY DEF U!LoadAndEvaluate, U!Visiting, Evaluation, U!LoadPatternState
<1>2. w # U!Idle
  BY <1>1 DEF U!Idle
<1>3. InHand(w, config[d])
  BY <1>2 DEF UtilizationInv, UtilizationShape
<1>4. /\ r \in U!Rule /\ U!StateKey(r) \in U!Keys
      /\ r = ForUtilization.settings[config[d]][U!Min(w.rules)]
  BY <1>1, <1>2, RuleTaken DEF UtilizationInv, RowOf
<1>5. DOMAIN work = Detectors /\ row \in U!Row /\ Counted(row)
  BY <1>4 DEF UtilizationInv, UtilizationShape
<1>6. /\ DOMAIN work' = Detectors
      /\ \A o \in Detectors \ {d} : work'[o] = work[o]
      /\ work'[d] = IF U!PassesOver(r, row, w.event) THEN passed ELSE taken
  BY <1>1, <1>5
<1>7. CASE U!PassesOver(r, row, w.event)
  <2>1. /\ DOMAIN passed = DOMAIN w
        /\ passed.stage = "load" /\ passed.event = w.event /\ passed.at = w.at
        /\ passed.rules \subseteq w.rules /\ passed.emitted = w.emitted
        /\ passed.raised = w.raised
    BY <1>1, <1>3 DEF InHand, U!RulesAfter
  <2>2. work'[d] = passed /\ passed # U!Idle
    BY <1>6, <1>7, <2>1 DEF U!Idle
  <2> HIDE DEF passed
  <2>3. InHand(passed, config[d])
    BY <1>3, <2>1 DEF InHand
  <2>4. UtilizationShape'
    BY <1>1, <1>6, <2>2, <2>3 DEF UtilizationInv, UtilizationShape
  <2>5. ASSUME U!Alone PROVE (Evaluated /\ U!ConcurrentAlertsActive /\ CountedCalm /\ PauseKept)'
    <3>1. /\ Detectors = {d}
          /\ Evaluated /\ U!ConcurrentAlertsActive /\ CountedCalm /\ PauseKept
      BY <2>5 DEF U!Alone, UtilizationInv
    <3>2. Evaluated'
      BY <2>1, <2>2, <3>1 DEF Evaluated
    <3>3. U!ConcurrentAlertsActive' /\ CountedCalm'
      BY <1>1, <3>1 DEF U!ConcurrentAlertsActive, U!Cached, CountedCalm
    <3>4. PauseKept'
      BY <1>1, <1>2, <2>1, <2>2, <3>1 DEF PauseKept
    <3> QED BY <3>2, <3>3, <3>4
  <2>6. ASSUME U!Alone, U!KeysDistinct PROVE Told'
    <3>1. Detectors = {d} /\ Told
      BY <2>6 DEF U!Alone, UtilizationInv
    <3> QED BY <1>1, <1>2, <2>1, <2>2, <3>1 DEF Told, U!RaisedKeys
  <2> QED BY <2>4, <2>5, <2>6 DEF UtilizationInv, U!Alone, U!KeysDistinct
<1>8. CASE ~U!PassesOver(r, row, w.event)
  <2>1. /\ DOMAIN taken = DOMAIN w
        /\ taken.stage = "save" /\ taken.event = w.event /\ taken.at = w.at
        /\ taken.rules = w.rules /\ taken.emitted = w.emitted
        /\ taken.raised = w.raised /\ taken.next = out.next /\ taken.det = out.det
    BY <1>3 DEF InHand
  <2>2. work'[d] = taken /\ taken # U!Idle
    BY <1>6, <1>8, <2>1 DEF U!Idle
  <2>3. Moved(U!StateKey(r), row, out)
    <3>1. w.event \in U!Event /\ w.at \in U!Times
      BY <1>3, UtilizationAssumption DEF InHand
    <3> QED BY <1>4, <1>5, <1>8, <3>1, EvaluationMoves
  <2> HIDE DEF taken, out
  <2>4. /\ out.next \in U!Row /\ Counted(out.next)
        /\ out.det = U!NoDetection \/ (Detection(out.det) /\ out.det.key = U!StateKey(r))
    BY <1>5, <2>3 DEF Moved
  <2>5. InHand(taken, config[d])
    BY <1>1, <1>3, <1>4, <2>1, <2>4 DEF InHand
  <2>6. UtilizationShape'
    BY <1>1, <1>6, <2>2, <2>5 DEF UtilizationInv, UtilizationShape
  <2>7. ASSUME U!Alone PROVE (Evaluated /\ U!ConcurrentAlertsActive /\ CountedCalm /\ PauseKept)'
    <3>1. /\ Detectors = {d}
          /\ Evaluated /\ U!ConcurrentAlertsActive /\ CountedCalm /\ PauseKept
      BY <2>7 DEF U!Alone, UtilizationInv
    <3>2. Evaluated'
      <4>1. U!NextRule(d)' = r /\ RowOf(d)' = U!StateKey(r)
        BY <1>1, <2>1, <2>2 DEF U!NextRule, RowOf
      <4> QED BY <1>1, <1>8, <2>1, <2>2, <3>1, <4>1 DEF Evaluated, out
    <3>3. U!ConcurrentAlertsActive' /\ CountedCalm'
      BY <1>1, <3>1 DEF U!ConcurrentAlertsActive, U!Cached, CountedCalm
    <3>4. PauseKept'
      BY <1>1, <1>2, <2>1, <2>2, <3>1 DEF PauseKept
    <3> QED BY <3>2, <3>3, <3>4
  <2>8. ASSUME U!Alone, U!KeysDistinct PROVE Told'
    <3>1. Detectors = {d} /\ Told
      BY <2>8 DEF U!Alone, UtilizationInv
    <3> QED BY <1>1, <1>2, <2>1, <2>2, <3>1 DEF Told, U!RaisedKeys
  <2> QED BY <2>6, <2>7, <2>8 DEF UtilizationInv, U!Alone, U!KeysDistinct
<1> QED BY <1>7, <1>8

LEMMA Pruned ==
    ASSUME NEW c, NEW k, NEW t, NEW p \in U!PruneStateCache(c, k, t)
    PROVE  DOMAIN p = U!Keys /\ \A j \in U!Keys : p[j] = c[j] \/ p[j] = U!NotCached
BY DEF U!PruneStateCache

LEMMA UtilizationSaveStep ==
    ASSUME UtilizationInv, NEW d \in Detectors, U!Save(d)
    PROVE  UtilizationInv'
<1> DEFINE w == work[d]
           r == U!NextRule(d)
           k == RowOf(d)
           s == U!ClassifySeverity(U!UtilizationPct(w.event.raw), r)
           loaded == [cache[d] EXCEPT ![k] = U!CacheEntry(rows[k], w.next)]
           after == [w EXCEPT !.stage = "load",
                              !.rules = IF w.event.kind = "pause" THEN {} ELSE U!RulesAfter(@),
                              !.emitted = U!PickHigher(@, w.det),
                              !.raised = IF w.det = U!NoDetection THEN @ ELSE @ \cup {k},
                              !.next = U!FreshRow, !.det = U!NoDetection]
<1>1. /\ w.stage = "save" /\ w.rules # {}
      /\ work' = [work EXCEPT ![d] = after]
      /\ UNCHANGED <<config, announced, suspended, masked>>
  BY DEF U!Save, U!Visiting, RowOf
<1>2. PICK saved \in BOOLEAN : /\ rows' = IF saved THEN [rows EXCEPT ![k] = w.next] ELSE rows
                               /\ U!Record(k, r, w, saved)
  BY DEF U!Save, RowOf, U!UpsertPatternState
<1>3. PICK c \in U!PruneStateCache(loaded, k, w.at) : cache' = [cache EXCEPT ![d] = c]
  BY DEF U!Save, RowOf
<1>4. w # U!Idle /\ InHand(w, config[d])
  BY <1>1 DEF U!Idle, UtilizationInv, UtilizationShape
<1>5. /\ r \in U!Rule /\ r \in U!AllRules /\ U!Valid(r)
      /\ r.blocks \in Nat /\ r.blocks <= ForUtilization.maxCalm + 1
      /\ k \in U!Keys /\ k = U!StateKey(r)
      /\ r = ForUtilization.settings[config[d]][U!Min(w.rules)] /\ U!Min(w.rules) \in w.rules
  BY <1>1, <1>4, RuleTaken DEF UtilizationInv, RowOf, U!Rule
<1>6. /\ rows' \in [U!Keys -> U!Row] /\ \A j \in U!Keys : Counted(rows'[j])
      /\ \A j \in U!Keys \ {k} : rows'[j] = rows[j]
      /\ saved => rows'[k] = w.next
      /\ ~saved => rows'[k] = rows[k]
  BY <1>1, <1>2, <1>4, <1>5 DEF UtilizationInv, UtilizationShape, InHand
<1>7. /\ intact' \in [U!Keys -> BOOLEAN]
      /\ \A j \in U!Keys : intact'[j] => intact[j] /\ (j = k => saved)
  <2>1. intact' = [intact EXCEPT ![k] = @ /\ saved] /\ intact \in [U!Keys -> BOOLEAN]
    BY <1>2 DEF U!Record, UtilizationInv, UtilizationShape
  <2> QED BY <1>5, <2>1
<1>8. /\ w.event \in U!Event /\ w.event.kind \in {"reading", "pause"}
      /\ ForUtilization.maxCalm \in Nat
  BY <1>4, UtilizationAssumption DEF InHand, U!Event
<1>9. /\ calm' \in [U!Keys -> 0 .. ForUtilization.maxCalm]
      /\ \A j \in U!Keys \ {k} : calm'[j] = calm[j]
      /\ w.event.kind = "pause" => calm'[k] = calm[k]
      /\ w.event.kind = "reading" =>
            calm'[k] = IF s > 0 THEN 0
                       ELSE IF ForUtilization.maxCalm <= calm[k] + 1 THEN ForUtilization.maxCalm
                       ELSE calm[k] + 1
  <2>1. calm \in [U!Keys -> 0 .. ForUtilization.maxCalm] /\ calm[k] \in 0 .. ForUtilization.maxCalm
    BY <1>5 DEF UtilizationInv, UtilizationShape
  <2>2. CASE w.event.kind = "pause"
    BY <1>2, <2>1, <2>2 DEF U!Record
  <2>3. CASE w.event.kind = "reading"
    <3> DEFINE quiet == IF ForUtilization.maxCalm <= calm[k] + 1 THEN ForUtilization.maxCalm
                        ELSE calm[k] + 1
    <3>1. calm' = [calm EXCEPT ![k] = IF s > 0 THEN 0
                                      ELSE U!Min({ForUtilization.maxCalm, @ + 1})]
      BY <1>2, <2>3 DEF U!Record
    <3>2. U!Min({ForUtilization.maxCalm, calm[k] + 1}) = quiet
      BY <1>8, <2>1, UtilizationMin
    <3>3. quiet \in 0 .. ForUtilization.maxCalm
      BY <1>8, <2>1
    <3> DEFINE counted == IF s > 0 THEN 0 ELSE quiet
    <3>4. calm' = [calm EXCEPT ![k] = counted]
      BY <3>1, <3>2
    <3>5. counted \in 0 .. ForUtilization.maxCalm
      BY <1>8, <3>3
    <3> HIDE DEF counted
    <3>6. /\ calm' \in [U!Keys -> 0 .. ForUtilization.maxCalm] /\ calm'[k] = counted
          /\ \A j \in U!Keys \ {k} : calm'[j] = calm[j]
      BY <1>5, <2>1, <3>4, <3>5
    <3> QED BY <2>3, <3>6 DEF counted
  <2> QED BY <1>8, <2>2, <2>3
<1>10. /\ DOMAIN cache' = Detectors /\ \A o \in Detectors : DOMAIN cache'[o] = U!Keys
       /\ \A j \in U!Keys : cache'[d][j] = U!NotCached \/ cache'[d][j] = loaded[j]
       /\ loaded[k] = U!CacheEntry(rows[k], w.next)
       /\ \A j \in U!Keys \ {k} : loaded[j] = cache[d][j]
  <2>1. /\ DOMAIN cache = Detectors /\ \A o \in Detectors : DOMAIN cache[o] = U!Keys
    BY DEF UtilizationInv, UtilizationShape
  <2>2. DOMAIN c = U!Keys /\ \A j \in U!Keys : c[j] = loaded[j] \/ c[j] = U!NotCached
    BY <1>3, Pruned
  <2>3. loaded[k] = U!CacheEntry(rows[k], w.next) /\ \A j \in U!Keys \ {k} : loaded[j] = cache[d][j]
    BY <1>5, <2>1
  <2> HIDE DEF loaded
  <2> QED BY <1>3, <2>1, <2>2, <2>3
<1>11. /\ DOMAIN after = DOMAIN w /\ after.stage = "load"
       /\ after.event = w.event /\ after.at = w.at
       /\ after.rules = IF w.event.kind = "pause" THEN {} ELSE U!RulesAfter(w.rules)
       /\ after.emitted = U!PickHigher(w.emitted, w.det)
       /\ after.raised = IF w.det = U!NoDetection THEN w.raised ELSE w.raised \cup {k}
  BY <1>4 DEF InHand
<1> HIDE DEF after
<1>12. after # U!Idle
  BY <1>11 DEF U!Idle
<1>13. /\ DOMAIN work' = Detectors /\ work'[d] = after
       /\ \A o \in Detectors \ {d} : work'[o] = work[o]
  BY <1>1 DEF UtilizationInv, UtilizationShape
<1>14. w.det # U!NoDetection => Detection(w.det) /\ w.det.key = k
  BY <1>1, <1>4, <1>5 DEF InHand
<1>15. U!NoDetection.sev = 0
  BY DEF U!NoDetection
<1>16. after.emitted = w.emitted \/ (after.emitted = w.det /\ w.det # U!NoDetection)
  BY <1>11 DEF U!PickHigher
<1>17. w.det # U!NoDetection /\ w.emitted = U!NoDetection => after.emitted = w.det
  BY <1>11, <1>14, <1>15 DEF U!PickHigher, Detection
<1>18. /\ after.rules \subseteq w.rules /\ U!Min(w.rules) \notin after.rules
  BY <1>11 DEF U!RulesAfter
<1>19. w.event.kind = "pause" => w.raised = {} /\ w.emitted = U!NoDetection
  BY <1>1, <1>4 DEF InHand
<1>20. InHand(after, config[d])
  <2>1. after.raised \subseteq U!Keys /\ after.rules \subseteq U!ParseUtilizationRules(config[d])
    BY <1>4, <1>5, <1>11, <1>18 DEF InHand
  <2>2. after.emitted = U!NoDetection \/ Detection(after.emitted)
    BY <1>4, <1>14, <1>16 DEF InHand
  <2>3. after.emitted = U!NoDetection => after.raised = {}
    BY <1>4, <1>11, <1>16, <1>17 DEF InHand
  <2>4. after.emitted # U!NoDetection => after.emitted.key \in after.raised
    BY <1>4, <1>11, <1>14, <1>16, <1>17 DEF InHand
  <2>5. after.event.kind = "pause" =>
            after.raised = {} \/ (after.raised = {after.emitted.key} /\ after.rules = {})
    BY <1>11, <1>14, <1>17, <1>19
  <2> QED BY <1>4, <1>11, <2>1, <2>2, <2>3, <2>4, <2>5 DEF InHand
<1>21. UtilizationShape'
  BY <1>1, <1>6, <1>7, <1>9, <1>10, <1>13, <1>20 DEF UtilizationInv, UtilizationShape
<1>22. ASSUME U!Alone
       PROVE  /\ Detectors = {d}
              /\ Evaluated /\ U!ConcurrentAlertsActive /\ CountedCalm /\ PauseKept
              /\ Moved(k, rows[k], [next |-> w.next, det |-> w.det])
              /\ w.event.kind = "reading" => Read(r, rows[k], s, [next |-> w.next, det |-> w.det])
              /\ w.event.kind = "pause" => Paused(rows[k], w.event, [next |-> w.next, det |-> w.det])
  <2> DEFINE out == Evaluation(r, rows[k], w.event, w.at)
  <2>1. /\ Detectors = {d}
        /\ Evaluated /\ U!ConcurrentAlertsActive /\ CountedCalm /\ PauseKept
    BY <1>22 DEF U!Alone, UtilizationInv
  <2>2. ~U!PassesOver(r, rows[k], w.event) /\ w.next = out.next /\ w.det = out.det
    BY <1>1, <2>1 DEF Evaluated
  <2>3. /\ Moved(k, rows[k], out)
        /\ w.event.kind = "reading" => Read(r, rows[k], s, out)
        /\ w.event.kind = "pause" => Paused(rows[k], w.event, out)
    <3>1. rows[k] \in U!Row /\ w.at \in U!Times
      BY <1>4, <1>5 DEF InHand, UtilizationInv, UtilizationShape
    <3> QED BY <1>5, <1>8, <2>2, <3>1, EvaluationMoves
  <2> HIDE DEF out
  <2> QED BY <2>1, <2>2, <2>3 DEF Moved, Read, Paused
<1> HIDE DEF w, r, k, s, loaded
<1>23. ASSUME U!Alone PROVE Evaluated'
  BY <1>11, <1>13, <1>22, <1>23 DEF Evaluated
<1>24. ASSUME U!Alone PROVE U!ConcurrentAlertsActive'
  <2>1. ASSUME NEW j \in U!Keys, cache'[d][j] # U!NotCached, intact'[j]
        PROVE  cache'[d][j].sev = rows'[j].sev
    <3>1. CASE j = k
      BY <1>6, <1>7, <1>10, <2>1, <3>1 DEF U!CacheEntry
    <3>2. CASE j # k
      <4>1. cache[d][j] # U!NotCached /\ intact[j]
        BY <1>7, <1>10, <2>1, <3>2
      <4> QED BY <1>6, <1>10, <1>22, <1>24, <2>1, <3>2, <4>1 DEF U!ConcurrentAlertsActive, U!Cached
    <3> QED BY <3>1, <3>2
  <2> QED BY <1>22, <1>24, <2>1 DEF U!ConcurrentAlertsActive, U!Cached
<1>25. ASSUME U!Alone PROVE CountedCalm'
  <2> SUFFICES ASSUME NEW j \in U!Keys, intact'[j] PROVE rows'[j].counter <= calm'[j]
    BY DEF CountedCalm
  <2>1. intact[j] /\ rows[j].counter <= calm[j]
    BY <1>7, <1>22, <1>25 DEF CountedCalm
  <2>2. CASE j # k
    BY <1>6, <1>9, <2>1, <2>2
  <2>3. CASE j = k
    <3>1. /\ rows[k].counter \in Nat /\ calm[k] \in 0 .. ForUtilization.maxCalm
          /\ w.next.counter \in Nat
      BY <1>1, <1>4, <1>5 DEF UtilizationInv, UtilizationShape, U!Row, InHand
    <3>2. rows'[j].counter = w.next.counter
      BY <1>6, <1>7, <2>3
    <3>3. CASE w.event.kind = "pause"
      BY <1>9, <1>22, <1>25, <2>1, <2>3, <3>2, <3>3 DEF Paused
    <3>4. CASE w.event.kind = "reading"
      <4>1. s > 0 => w.next.counter = 0
        BY <1>22, <1>25, <3>4 DEF Read
      <4>2. \/ w.next.counter <= rows[k].counter
            \/ w.next.counter = rows[k].counter + 1 /\ rows[k].counter + 1 < r.blocks
        BY <1>22, <1>25, <3>4 DEF Read
      <4>3. CASE s > 0
        BY <1>9, <2>3, <3>2, <3>4, <4>1, <4>3
      <4>4. CASE ~(s > 0)
        <5>1. \/ calm'[k] = ForUtilization.maxCalm
              \/ calm'[k] = calm[k] + 1
          BY <1>9, <3>4, <4>4
        <5>2. w.next.counter <= ForUtilization.maxCalm /\ w.next.counter <= calm[k] + 1
          BY <1>5, <1>8, <2>1, <2>3, <3>1, <4>2
        <5> QED BY <2>3, <3>2, <5>1, <5>2
      <4> QED BY <4>3, <4>4
    <3> QED BY <1>8, <3>3, <3>4
  <2> QED BY <2>2, <2>3
<1>26. ASSUME U!Alone PROVE PauseKept'
  <2> SUFFICES ASSUME NEW j \in U!Keys, intact'[j]
               PROVE  /\ suspended[j] => \/ rows'[j].paused
                                         \/ after.event.kind = "pause" /\ j \in after.raised
                      /\ after.emitted # U!NoDetection /\ after.emitted.key = j =>
                            (after.emitted.paused => rows'[j].paused)
    BY <1>1, <1>12, <1>13, <1>22, <1>26 DEF PauseKept
  <2>1. /\ intact[j]
        /\ suspended[j] => rows[j].paused \/ (w.event.kind = "pause" /\ j \in w.raised)
        /\ w.emitted # U!NoDetection /\ w.emitted.key = j => (w.emitted.paused => rows[j].paused)
    BY <1>4, <1>7, <1>22, <1>26 DEF PauseKept, w
  <2>2. CASE j # k
    BY <1>6, <1>11, <1>14, <1>16, <2>1, <2>2
  <2>3. CASE j = k /\ w.event.kind = "reading"
    <3>1. /\ w.next.paused = rows[k].paused
          /\ w.det # U!NoDetection => (w.det.paused => rows[k].paused)
      BY <1>22, <1>26, <2>3 DEF Read
    <3>2. rows'[j].paused = rows[j].paused
      BY <1>6, <1>7, <2>3, <3>1
    <3>3. suspended[j] => rows'[j].paused
      BY <2>1, <2>3, <3>2
    <3>4. after.emitted # U!NoDetection /\ after.emitted.key = j =>
            (after.emitted.paused => rows'[j].paused)
      BY <1>16, <2>1, <2>3, <3>1, <3>2
    <3> QED BY <3>3, <3>4
  <2>4. CASE j = k /\ w.event.kind = "pause"
    <3>1. /\ w.next.paused = w.event.paused /\ w.det.paused = w.event.paused
          /\ w.det # U!NoDetection
      BY <1>22, <1>26, <2>4 DEF Paused
    <3>2. rows'[j] = w.next /\ j \in after.raised /\ after.emitted = w.det
      BY <1>6, <1>7, <1>11, <1>17, <1>19, <2>4, <3>1
    <3> QED BY <1>11, <2>4, <3>1, <3>2
  <2> QED BY <1>8, <2>2, <2>3, <2>4
<1>27. ASSUME U!Alone, U!KeysDistinct PROVE Told'
  <2>1. /\ Told /\ Detectors = {d} /\ U!RaisedKeys(d) = w.raised /\ U!RaisedKeys(d)' = after.raised
    BY <1>4, <1>12, <1>13, <1>22, <1>27 DEF UtilizationInv, U!RaisedKeys, w
  <2>2. /\ \A j \in U!Keys : intact[j] /\ j \notin w.raised =>
              rows[j].sev <= announced[j] \/ rows[j].sev <= masked[j]
        /\ \A i \in w.rules :
              U!StateKey(ForUtilization.settings[config[d]][i]) \notin w.raised
        /\ \A j \in w.raised : intact[j] =>
              /\ rows[j].sev <= w.emitted.sev
              /\ j = w.emitted.key /\ w.emitted.transition = "resolve" => rows[j].sev = 0
    BY <1>4, <2>1 DEF Told, w
  <2>3. k \notin w.raised
    BY <1>5, <2>2
  <2>4. /\ w.det = U!NoDetection => w.next.sev = rows[k].sev
        /\ w.det # U!NoDetection =>
              w.next.sev = IF w.det.transition = "resolve" THEN 0 ELSE w.det.sev
    BY <1>22, <1>27 DEF Moved
  <2>5. \A i \in after.rules :
            U!StateKey(ForUtilization.settings[config[d]][i]) \notin after.raised
    <3> TAKE i \in after.rules
    <3>1. /\ i \in w.rules /\ i # U!Min(w.rules)
          /\ i \in U!ParseUtilizationRules(config[d])
          /\ U!Min(w.rules) \in U!ParseUtilizationRules(config[d])
          /\ config[d] \in DOMAIN ForUtilization.settings
      BY <1>4, <1>5, <1>18 DEF InHand, UtilizationInv, UtilizationShape
    <3>2. U!StateKey(ForUtilization.settings[config[d]][i]) # k
      BY <1>5, <1>27, <3>1 DEF U!KeysDistinct
    <3> QED BY <1>11, <2>2, <3>1, <3>2
  <2>6. ASSUME NEW j \in U!Keys, intact'[j], j \notin after.raised
        PROVE  rows'[j].sev <= announced[j] \/ rows'[j].sev <= masked[j]
    <3>1. CASE j # k
      BY <1>6, <1>7, <1>11, <2>2, <2>6, <3>1
    <3>2. CASE j = k
      <4>1. w.det = U!NoDetection
        BY <1>11, <2>6, <3>2
      <4>2. rows'[j].sev = rows[j].sev
        BY <1>6, <1>7, <2>4, <2>6, <3>2, <4>1
      <4> QED BY <1>7, <2>2, <2>3, <2>6, <3>2, <4>2
    <3> QED BY <3>1, <3>2
  <2>7. ASSUME NEW j \in after.raised, intact'[j]
        PROVE  /\ rows'[j].sev <= after.emitted.sev
               /\ j = after.emitted.key /\ after.emitted.transition = "resolve" => rows'[j].sev = 0
    <3>1. /\ j \in U!Keys /\ rows[j].sev \in Int /\ rows[k].sev \in Int
          /\ w.emitted # U!NoDetection =>
                w.emitted.sev \in {2, 3, 4} /\ w.emitted.key \in w.raised
      BY <1>4, <1>5, <1>20, <2>7 DEF InHand, Detection, UtilizationInv, UtilizationShape, U!Row,
                                     U!Ranks
    <3>2. CASE w.det = U!NoDetection
      <4>1. after.emitted = w.emitted /\ after.raised = w.raised
        BY <1>11, <1>16, <3>2
      <4> QED BY <1>6, <1>7, <2>2, <2>3, <2>7, <3>1, <4>1
    <3>3. CASE w.det # U!NoDetection
      <4>1. w.det.sev \in {2, 3, 4} /\ w.det.key = k
        BY <1>14, <3>3 DEF Detection
      <4>2. /\ w.det.sev >= w.emitted.sev => after.emitted = w.det
            /\ ~(w.det.sev >= w.emitted.sev) => after.emitted = w.emitted
        BY <1>11, <3>3 DEF U!PickHigher
      <4>3. w.emitted.sev \in {0, 2, 3, 4}
        BY <1>15, <3>1
      <4>4. CASE j = k
        <5>1. rows'[j].sev = w.next.sev
          BY <1>6, <1>7, <2>7, <3>1, <4>4
        <5>2. after.emitted = w.emitted => w.emitted # U!NoDetection \/ w.det.sev >= w.emitted.sev
          BY <1>15, <4>1
        <5>3. CASE w.det.sev >= w.emitted.sev
          BY <2>4, <3>3, <4>1, <4>2, <5>1, <5>3
        <5>4. CASE ~(w.det.sev >= w.emitted.sev)
          <6>1. w.emitted # U!NoDetection /\ w.emitted.key # k
            BY <1>15, <2>3, <3>1, <4>1, <5>4
          <6> QED BY <2>4, <3>3, <4>1, <4>2, <4>3, <4>4, <5>1, <5>4, <6>1
        <5> QED BY <5>3, <5>4
      <4>5. CASE j # k
        <5>1. j \in w.raised /\ rows'[j] = rows[j] /\ intact[j]
          BY <1>6, <1>7, <1>11, <2>7, <3>1, <4>5
        <5> QED BY <2>2, <3>1, <4>1, <4>2, <4>3, <4>5, <5>1
      <4> QED BY <4>4, <4>5
    <3> QED BY <3>2, <3>3
  <2> QED BY <1>1, <1>13, <2>1, <2>5, <2>6, <2>7 DEF Told
<1> QED BY <1>21, <1>22, <1>23, <1>24, <1>25, <1>26, <1>27
        DEF UtilizationInv, U!Alone, U!KeysDistinct

LEMMA UtilizationFinishStep ==
    ASSUME UtilizationInv, NEW d \in Detectors, U!Finish(d)
    PROVE  UtilizationInv'
<1> DEFINE w == work[d]
           found == w.emitted # U!NoDetection
           level == IF w.emitted.transition = "resolve" THEN 0 ELSE w.emitted.sev
<1>1. /\ w.stage = "load"
      /\ work' = [work EXCEPT ![d] = U!Idle]
      /\ UNCHANGED <<config, cache, rows, calm>>
  BY DEF U!Finish
<1>2. PICK sent \in BOOLEAN :
          /\ sent /\ found => announced' = [announced EXCEPT ![w.emitted.key] = level]
          /\ sent /\ found => suspended' = [suspended EXCEPT ![w.emitted.key] = w.emitted.paused]
          /\ ~(sent /\ found) => UNCHANGED <<announced, suspended>>
          /\ ~sent => found
          /\ U!Losing(d, IF sent THEN {} ELSE U!RaisedKeys(d))
          /\ masked' = [k \in U!Keys |->
                IF k \notin U!RaisedKeys(d) THEN masked[k]
                ELSE IF k = w.emitted.key THEN 0 ELSE w.emitted.sev]
  BY DEF U!Finish
<1>3. w # U!Idle /\ InHand(w, config[d])
  BY <1>1 DEF U!Idle, UtilizationInv, UtilizationShape
<1>4. U!RaisedKeys(d) = w.raised
  BY <1>3 DEF U!RaisedKeys
<1>5. /\ found => /\ w.emitted.key \in w.raised /\ w.emitted.key \in U!Keys
                  /\ w.emitted.sev \in {2, 3, 4} /\ w.emitted.paused \in BOOLEAN
      /\ ~found => w.raised = {}
  BY <1>3 DEF InHand, Detection
<1>6. /\ DOMAIN work' = Detectors /\ work'[d] = U!Idle
      /\ \A o \in Detectors \ {d} : work'[o] = work[o]
  BY <1>1 DEF UtilizationInv, UtilizationShape
<1>7. /\ intact' \in [U!Keys -> BOOLEAN]
      /\ \A k \in U!Keys : intact'[k] => intact[k] /\ (sent \/ k \notin w.raised)
  BY <1>2, <1>4 DEF U!Losing, UtilizationInv, UtilizationShape
<1>8. /\ masked' \in [U!Keys -> U!Ranks]
      /\ \A k \in U!Keys : /\ k \notin w.raised => masked'[k] = masked[k]
                           /\ k \in w.raised /\ k # w.emitted.key => masked'[k] = w.emitted.sev
  BY <1>2, <1>4, <1>5 DEF U!Ranks, UtilizationInv, UtilizationShape
<1>9. /\ announced' \in [U!Keys -> U!Ranks]
      /\ sent /\ found => announced'[w.emitted.key] = level
      /\ \A k \in U!Keys : ~(sent /\ found /\ k = w.emitted.key) => announced'[k] = announced[k]
  <2>1. found => level \in U!Ranks
    BY <1>5 DEF U!Ranks
  <2>2. announced \in [U!Keys -> U!Ranks]
    BY DEF UtilizationInv, UtilizationShape
  <2> HIDE DEF level
  <2> QED BY <1>2, <1>5, <2>1, <2>2
<1>10. /\ suspended' \in [U!Keys -> BOOLEAN]
       /\ sent /\ found => suspended'[w.emitted.key] = w.emitted.paused
       /\ \A k \in U!Keys : ~(sent /\ found /\ k = w.emitted.key) => suspended'[k] = suspended[k]
  BY <1>2, <1>5 DEF UtilizationInv, UtilizationShape
<1>11. UtilizationShape'
  BY <1>1, <1>6, <1>7, <1>8, <1>9, <1>10 DEF UtilizationInv, UtilizationShape
<1>12. ASSUME U!Alone PROVE (Evaluated /\ U!ConcurrentAlertsActive /\ CountedCalm /\ PauseKept)'
  <2>1. /\ Detectors = {d}
        /\ Evaluated /\ U!ConcurrentAlertsActive /\ CountedCalm /\ PauseKept
    BY <1>12 DEF U!Alone, UtilizationInv
  <2>2. Evaluated'
    BY <1>6, <2>1 DEF Evaluated, U!Idle
  <2>3. U!ConcurrentAlertsActive' /\ CountedCalm'
    BY <1>1, <1>7, <2>1 DEF U!ConcurrentAlertsActive, U!Cached, CountedCalm
  <2>4. PauseKept'
    <3> SUFFICES ASSUME NEW k \in U!Keys, intact'[k], suspended'[k] PROVE rows[k].paused
      BY <1>1, <1>6, <2>1 DEF PauseKept
    <3>1. /\ intact[k] /\ (sent \/ k \notin w.raised)
          /\ suspended[k] => rows[k].paused \/ (w.event.kind = "pause" /\ k \in w.raised)
          /\ found /\ w.emitted.key = k => (w.emitted.paused => rows[k].paused)
      BY <1>3, <1>7, <2>1 DEF PauseKept
    <3>2. CASE sent /\ found /\ k = w.emitted.key
      BY <1>10, <3>1, <3>2
    <3>3. CASE ~(sent /\ found /\ k = w.emitted.key)
      <4>1. suspended[k]
        BY <1>10, <3>3
      <4>2. ~(w.event.kind = "pause" /\ k \in w.raised)
        BY <1>3, <1>5, <3>1, <3>3 DEF InHand
      <4> QED BY <3>1, <4>1, <4>2
    <3> QED BY <3>2, <3>3
  <2> QED BY <2>2, <2>3, <2>4
<1>13. ASSUME U!Alone, U!KeysDistinct PROVE Told'
  <2>1. Detectors = {d} /\ Told /\ U!RaisedKeys(d)' = {}
    BY <1>6, <1>13 DEF U!Alone, UtilizationInv, U!RaisedKeys
  <2> SUFFICES ASSUME NEW k \in U!Keys, intact'[k]
               PROVE  rows[k].sev <= announced'[k] \/ rows[k].sev <= masked'[k]
    BY <1>1, <1>6, <2>1 DEF Told
  <2>2. /\ intact[k] /\ (sent \/ k \notin w.raised) /\ rows[k].sev \in Int
    BY <1>7 DEF UtilizationInv, UtilizationShape, U!Row, U!Ranks
  <2>3. CASE k \notin w.raised
    <3>1. rows[k].sev <= announced[k] \/ rows[k].sev <= masked[k]
      BY <1>4, <2>1, <2>2, <2>3 DEF Told
    <3>2. announced'[k] = announced[k] /\ masked'[k] = masked[k]
      <4>1. ~(sent /\ found /\ k = w.emitted.key)
        BY <1>5, <2>3
      <4>2. masked'[k] = masked[k]
        BY <1>8, <2>3
      <4>3. announced'[k] = announced[k]
        BY <1>9, <4>1
      <4> QED BY <4>2, <4>3
    <3> QED BY <3>1, <3>2
  <2>4. CASE k \in w.raised
    <3>1. /\ rows[k].sev <= w.emitted.sev /\ sent /\ found
          /\ k = w.emitted.key /\ w.emitted.transition = "resolve" => rows[k].sev = 0
      BY <1>3, <1>5, <2>1, <2>2, <2>4 DEF Told
    <3> QED BY <1>8, <1>9, <2>4, <3>1
  <2> QED BY <2>3, <2>4
<1> QED BY <1>11, <1>12, <1>13 DEF UtilizationInv, U!Alone, U!KeysDistinct

LEMMA UtilizationReloadStep ==
    ASSUME UtilizationInv, NEW d \in Detectors, NEW c \in DOMAIN ForUtilization.settings,
           U!ReloadConfig(d, c)
    PROVE  UtilizationInv'
<1>1. /\ work[d] = U!Idle /\ config' = [config EXCEPT ![d] = c]
      /\ UNCHANGED <<cache, rows, work, faults, announced, suspended, masked, calm, intact>>
  BY DEF U!ReloadConfig
<1>2. /\ config' \in [Detectors -> DOMAIN ForUtilization.settings]
      /\ \A o \in Detectors \ {d} : config'[o] = config[o]
  BY <1>1 DEF UtilizationInv, UtilizationShape
<1>3. UtilizationShape'
  BY <1>1, <1>2 DEF UtilizationInv, UtilizationShape
<1>4. ASSUME U!Alone PROVE (Evaluated /\ U!ConcurrentAlertsActive /\ CountedCalm /\ PauseKept)'
  <2>1. /\ Detectors = {d}
        /\ Evaluated /\ U!ConcurrentAlertsActive /\ CountedCalm /\ PauseKept
    BY <1>4 DEF U!Alone, UtilizationInv
  <2>2. Evaluated'
    BY <1>1, <2>1 DEF Evaluated, U!Idle
  <2> QED BY <1>1, <2>1, <2>2 DEF U!ConcurrentAlertsActive, U!Cached, CountedCalm, PauseKept
<1>5. ASSUME U!Alone, U!KeysDistinct PROVE Told'
  BY <1>1, <1>5 DEF Told, UtilizationInv, U!Alone, U!RaisedKeys
<1> QED BY <1>3, <1>4, <1>5 DEF UtilizationInv, U!Alone, U!KeysDistinct

LEMMA UtilizationStep == UtilizationInv /\ [U!Next]_U!vars => UtilizationInv'
<1> SUFFICES ASSUME UtilizationInv, [U!Next]_U!vars PROVE UtilizationInv'
  OBVIOUS
<1>1. ASSUME NEW d \in Detectors, U!LoadFails(d) PROVE UtilizationInv'
  <2>1. /\ work' = [work EXCEPT ![d] = U!Idle] /\ U!Losing(d, U!RaisedKeys(d))
        /\ cache' = cache
        /\ UNCHANGED <<config, rows, announced, suspended, masked, calm>>
    BY <1>1 DEF U!LoadFails
  <2> QED BY <2>1, DropStep
<1>2. ASSUME NEW d \in Detectors, U!Crash(d) PROVE UtilizationInv'
  <2>1. /\ work' = [work EXCEPT ![d] = U!Idle] /\ U!Losing(d, U!RaisedKeys(d))
        /\ cache' = [cache EXCEPT ![d] = [k \in U!Keys |-> U!NotCached]]
        /\ UNCHANGED <<config, rows, announced, suspended, masked, calm>>
    BY <1>2 DEF U!Crash
  <2> QED BY <2>1, DropStep
<1>3. CASE UNCHANGED U!vars
  BY <1>3 DEF U!vars, UtilizationInv, UtilizationShape, Evaluated, RowOf, U!NextRule,
              U!ConcurrentAlertsActive, U!Cached, CountedCalm, PauseKept, Told, U!RaisedKeys,
              U!Alone, U!KeysDistinct
<1> QED BY <1>1, <1>2, <1>3, UtilizationEventStep, UtilizationLoadStep, UtilizationSaveStep,
           UtilizationFinishStep, UtilizationReloadStep DEF U!Next

\* What the properties say of a state, and of a step, follows.
LEMMA UtilizationProperties ==
    ASSUME UtilizationInv
    PROVE  /\ U!EscalationsCounted /\ U!ResolutionConfirmed /\ U!NoResolutionWhileSuspended
           /\ U!RaiseToldOrMasked /\ U!ConcurrentAlertsActive
<1>1. U!EscalationsCounted
  <2> SUFFICES ASSUME NEW k \in U!Keys
               PROVE  rows[k].escalations <= U!Max({0, rows[k].sev - 2})
    BY DEF U!EscalationsCounted
  <2>1. /\ rows[k].sev \in {0, 2, 3, 4} /\ rows[k].escalations \in Nat
        /\ rows[k].escalations <= IF rows[k].sev = 0 THEN 0 ELSE rows[k].sev - 2
    BY DEF UtilizationInv, UtilizationShape, Counted, U!Row, U!Ranks
  <2>2. /\ U!Max({0, rows[k].sev - 2}) \in {0, rows[k].sev - 2}
        /\ U!Max({0, rows[k].sev - 2}) >= 0
        /\ U!Max({0, rows[k].sev - 2}) >= rows[k].sev - 2
    <3>1. 0 \in Int /\ rows[k].sev - 2 \in Int
      BY <2>1
    <3> QED BY <3>1, UtilizationMax
  <2> QED BY <2>1, <2>2
<1>2. ASSUME U!Alone, NEW d \in Detectors, NEW k \in U!Keys, U!Resolving(d, k), intact[k]
      PROVE  /\ \E r \in U!AllRules :
                    U!StateKey(r) = k /\ U!Valid(r) /\ calm[k] + 1 >= r.blocks
             /\ ~suspended[k]
  <2> DEFINE w == work[d]
             r == U!NextRule(d)
             out == Evaluation(r, rows[RowOf(d)], w.event, w.at)
             s   == U!ClassifySeverity(U!UtilizationPct(w.event.raw), r)
  <2>1. w.stage = "save" /\ w.rules # {} /\ w.det.transition = "resolve" /\ w.det.key = k
    BY <1>2 DEF U!Resolving, U!Visiting
  <2>2. w # U!Idle /\ InHand(w, config[d]) /\ Detectors = {d}
    BY <1>2, <2>1 DEF U!Idle, UtilizationInv, UtilizationShape, U!Alone
  <2>3. /\ r \in U!Rule /\ r \in U!AllRules /\ U!Valid(r) /\ RowOf(d) = U!StateKey(r)
        /\ RowOf(d) \in U!Keys
        /\ r = ForUtilization.settings[config[d]][U!Min(w.rules)]
    BY <2>1, <2>2, RuleTaken DEF UtilizationInv, RowOf
  <2>4. w.det # U!NoDetection
    BY <2>1 DEF U!NoDetection
  <2>5. RowOf(d) = k
    BY <2>1, <2>2, <2>3, <2>4 DEF InHand
  <2>6. /\ ~U!PassesOver(r, rows[k], w.event) /\ w.det = out.det
        /\ rows[k] \in U!Row /\ w.event \in U!Event /\ w.at \in U!Times
    BY <1>2, <2>1, <2>2, <2>5, UtilizationAssumption
       DEF UtilizationInv, UtilizationShape, Evaluated, InHand
  <2>7. /\ w.event.kind = "reading" => Read(r, rows[k], s, out)
        /\ w.event.kind = "pause" => Paused(rows[k], w.event, out)
    BY <2>3, <2>5, <2>6, EvaluationMoves
  <2> HIDE DEF out
  <2>8. w.event.kind = "reading"
    BY <2>1, <2>6, <2>7 DEF Paused, U!Event
  <2>9. ~rows[k].paused /\ rows[k].counter + 1 >= r.blocks
    BY <2>1, <2>6, <2>7, <2>8 DEF Read
  <2>10. calm[k] + 1 >= r.blocks
    <3>1. /\ rows[k].counter <= calm[k] /\ rows[k].counter \in Nat /\ r.blocks \in Nat
          /\ calm[k] \in 0 .. ForUtilization.maxCalm
      BY <1>2, <2>3, <2>6 DEF UtilizationInv, UtilizationShape, CountedCalm, U!Row, U!Rule
    <3> QED BY <2>9, <3>1
  <2>11. ~suspended[k]
    BY <1>2, <2>2, <2>8, <2>9 DEF UtilizationInv, PauseKept
  <2> QED BY <2>3, <2>5, <2>10, <2>11
<1>3. U!RaiseToldOrMasked
  <2> SUFFICES ASSUME U!Alone, U!KeysDistinct, NEW k \in U!Keys, intact[k],
                      \A d \in Detectors : k \notin U!RaisedKeys(d)
               PROVE  rows[k].sev <= U!Max({announced[k], masked[k]})
    BY DEF U!RaiseToldOrMasked
  <2>1. /\ rows[k].sev \in Int /\ announced[k] \in Int /\ masked[k] \in Int
    BY DEF UtilizationInv, UtilizationShape, U!Row, U!Ranks
  <2>2. rows[k].sev <= announced[k] \/ rows[k].sev <= masked[k]
    BY DEF UtilizationInv, Told, U!Alone
  <2>3. /\ U!Max({announced[k], masked[k]}) \in {announced[k], masked[k]}
        /\ U!Max({announced[k], masked[k]}) >= announced[k]
        /\ U!Max({announced[k], masked[k]}) >= masked[k]
    BY <2>1, UtilizationMax
  <2> QED BY <2>1, <2>2, <2>3
<1>4. U!ConcurrentAlertsActive
  BY DEF UtilizationInv, U!ConcurrentAlertsActive
<1> QED BY <1>1, <1>2, <1>3, <1>4 DEF U!ResolutionConfirmed, U!NoResolutionWhileSuspended

LEMMA UtilizationNotLowered == UtilizationInv /\ [U!Next]_U!vars => U!NotLowered
<1> SUFFICES ASSUME UtilizationInv, [U!Next]_U!vars, U!Alone, NEW k \in U!Keys
             PROVE  rows'[k].sev >= rows[k].sev \/ rows'[k].sev = 0
  BY DEF U!NotLowered
<1>1. rows[k].sev \in Int
  BY DEF UtilizationInv, UtilizationShape, U!Row, U!Ranks
<1>2. CASE rows' = rows
  BY <1>1, <1>2
<1>3. ASSUME NEW d \in Detectors, U!Save(d)
      PROVE  rows'[k].sev >= rows[k].sev \/ rows'[k].sev = 0
  <2> DEFINE w == work[d]
             r == U!NextRule(d)
             out == Evaluation(r, rows[RowOf(d)], w.event, w.at)
  <2>1. /\ w.stage = "save" /\ w.rules # {}
        /\ rows' = rows \/ rows' = [rows EXCEPT ![RowOf(d)] = w.next]
    BY <1>3 DEF U!Save, U!Visiting, U!UpsertPatternState, RowOf
  <2>2. w # U!Idle /\ InHand(w, config[d])
    BY <2>1 DEF U!Idle, UtilizationInv, UtilizationShape
  <2>3. /\ r \in U!Rule /\ RowOf(d) \in U!Keys /\ RowOf(d) = U!StateKey(r)
    BY <2>1, <2>2, RuleTaken DEF UtilizationInv, RowOf
  <2>4. ~U!PassesOver(r, rows[RowOf(d)], w.event) /\ w.next = out.next
    BY <2>1 DEF UtilizationInv, Evaluated
  <2>5. w.event \in U!Event /\ w.at \in U!Times /\ rows[RowOf(d)] \in U!Row
    BY <2>2, <2>3, UtilizationAssumption DEF InHand, UtilizationInv, UtilizationShape
  <2>6. Moved(RowOf(d), rows[RowOf(d)], out)
    BY <2>3, <2>4, <2>5, EvaluationMoves
  <2> HIDE DEF out
  <2>7. w.next.sev >= rows[RowOf(d)].sev \/ w.next.sev = 0
    BY <2>4, <2>6 DEF Moved
  <2> QED BY <1>1, <1>2, <2>1, <2>3, <2>7 DEF UtilizationInv, UtilizationShape
<1> QED BY <1>2, <1>3 DEF U!Next, U!vars, U!ProcessEvent, U!LoadAndEvaluate, U!LoadFails,
                          U!Finish, U!ReloadConfig, U!Crash

-----------------------------------------------------------------------------
(***************************************************************************)
(* TVL drops.  The samples of a row are sorted by time whatever order they *)
(* came in, and a detection rests on two of those about to be saved.  With *)
(* one detector, what is about to be saved also relates to the row that is *)
(* still there, and the cache to the rows that it was filled from.         *)
(***************************************************************************)
TvlRow(d) == T!StateKey(T!NextRule(d))

Ordered(p) ==
    /\ p \in Seq([at : T!Times, tvl : Nat])
    /\ \A i, j \in DOMAIN p : i <= j => p[i].at <= p[j].at

RowOfSamples(row) ==
    /\ DOMAIN row = {"samples", "sev", "drop", "breachAt", "moved", "context", "deposit", "stale"}
    /\ Ordered(row.samples) /\ row.sev \in {0, 4, 5}

\* Two samples in the order of their time, the earlier within the window and
\* above the later by so much.
Dropped(p, t, window, pct) ==
    \E i, j \in DOMAIN p : /\ t - window <= p[i].at /\ p[i].at <= p[j].at
                           /\ T!DropPct(p[i].tvl, p[j].tvl) >= pct

Founded(r, t, p) ==
    \/ Dropped(p, t, r.fastWindow, T!Min({r.fast, r.velocity}))
    \/ Dropped(p, t, r.slowWindow, r.slow)

DropInHand(w, c) ==
    LET r == T!RuleList(c)[T!Min(w.rules)]
    IN  /\ DOMAIN w = {"stage", "event", "at", "rules", "emitted", "raised", "next", "det"}
        /\ w.stage \in {"load", "save"} /\ w.event \in ForTvl.feed /\ w.at \in T!Times
        /\ w.rules \subseteq T!ParseTvlDropRules(c)
        /\ w.raised \subseteq ForTvl.keys
        /\ \/ w.emitted = T!NoDetection /\ w.raised = {}
           \/ w.emitted.sev \in {4, 5} /\ w.emitted.key \in w.raised
        /\ w.stage = "save" =>
              /\ w.rules # {} /\ RowOfSamples(w.next)
              /\ w.det = T!NoDetection \/ (w.det.sev \in {4, 5} /\ w.det.key = T!StateKey(r))
              /\ w.event.kind = "sample" /\ w.det # T!NoDetection => Founded(r, w.at, w.next.samples)

TvlShape ==
    /\ config \in [Detectors -> DOMAIN ForTvl.settings]
    /\ DOMAIN rows = ForTvl.keys /\ \A k \in ForTvl.keys : RowOfSamples(rows[k])
    /\ DOMAIN cache = Detectors /\ \A d \in Detectors : DOMAIN cache[d] = ForTvl.keys
    /\ DOMAIN work = Detectors
    /\ \A d \in Detectors : work[d] = T!Idle \/ DropInHand(work[d], config[d])
    /\ announced \in [ForTvl.keys -> Nat] /\ masked \in [ForTvl.keys -> Nat]
    /\ intact \in [ForTvl.keys -> BOOLEAN]

\* What is about to be saved raises the row, by no more than is told; a context
\* is systemic because of the cache.
Raises ==
    \A d \in Detectors : work[d].stage = "save" =>
        LET w == work[d]
            k == TvlRow(d)
        IN  /\ w.next.sev >= rows[k].sev
            /\ w.det = T!NoDetection => w.next.sev = rows[k].sev
            /\ w.det # T!NoDetection => w.next.sev <= w.det.sev
            /\ w.event.kind = "sample" /\ w.det # T!NoDetection /\ w.det.context = "systemic" =>
                  T!HasConcurrentActiveDrop(cache[d], k, w.at, T!NextRule(d).concurrentWindow)

CachedAsSaved ==
    \A d \in Detectors : \A k \in T!Cached(cache[d]) :
        intact[k] => cache[d][k].sev = rows[k].sev /\ cache[d][k].breachAt = rows[k].breachAt

\* What no event in hand has raised was told, or masked; what one has raised is
\* no worse than the detection it will publish.
ToldOfDrop ==
    \A d \in Detectors, k \in ForTvl.keys : intact[k] =>
        IF k \in T!RaisedKeys(d) THEN rows[k].sev <= work[d].emitted.sev
        ELSE rows[k].sev <= announced[k] \/ rows[k].sev <= masked[k]

TvlInv == TvlShape /\ (T!Alone => Raises /\ CachedAsSaved /\ ToldOfDrop)

\* A bounded set of numbers that is not empty has a greatest one.
LEMMA GreatestNumber ==
    ASSUME NEW S \in SUBSET Nat, S # {}, NEW n \in Nat, \A x \in S : x <= n
    PROVE  \E x \in S : \A y \in S : x >= y
<1> DEFINE D == {n - x : x \in S}
<1>1. D \in SUBSET Nat /\ D # {}
  <2>1. \A x \in S : n - x \in Nat
    OBVIOUS
  <2> QED BY <2>1
<1>2. PICK z \in D : \A y \in D : z <= y
  <2> HIDE DEF D
  <2> QED BY <1>1, LeastNumber
<1>3. PICK x \in S : z = n - x
  BY <1>2
<1>4. \A y \in S : n - x <= n - y
  BY <1>2, <1>3
<1> QED BY <1>4

LEMMA TvlLast ==
    ASSUME NEW S \in SUBSET Nat, S # {}, NEW n \in Nat, \A x \in S : x <= n
    PROVE  T!Max(S) \in S /\ \A x \in S : x <= T!Max(S)
<1>1. \E x \in S : \A y \in S : x >= y
  BY GreatestNumber
<1>2. T!Max(S) \in S /\ \A y \in S : T!Max(S) >= y
  BY <1>1 DEF T!Max
<1> QED BY <1>2

LEMMA TvlFirst ==
    ASSUME NEW S \in SUBSET Nat, S # {}
    PROVE  T!Min(S) \in S /\ \A x \in S : T!Min(S) <= x
BY LeastNumber DEF T!Min

LEMMA TvlMax ==
    ASSUME NEW a \in Int, NEW b \in Int
    PROVE  T!Max({a, b}) \in {a, b} /\ T!Max({a, b}) >= a /\ T!Max({a, b}) >= b
<1>1. \E x \in {a, b} : \A y \in {a, b} : x >= y
  OBVIOUS
<1> QED BY <1>1 DEF T!Max

\* A sample is put behind those that are not younger, and old ones go.
LEMMA RememberedInOrder ==
    ASSUME NEW p, Ordered(p), NEW x \in [at : T!Times, tvl : Nat], NEW window \in Nat
    PROVE  /\ Ordered(T!RememberSample(p, x, window))
           /\ \E i \in DOMAIN T!RememberSample(p, x, window) :
                 T!RememberSample(p, x, window)[i] = x
<1> DEFINE Sample == [at : T!Times, tvl : Nat]
           older == {0} \cup {i \in DOMAIN p : p[i].at <= x.at}
           n     == T!Max(older)
           grown == SubSeq(p, 1, n) \o <<x>> \o SubSeq(p, n + 1, Len(p))
           young == {i \in DOMAIN grown : grown[i].at >= x.at - window}
           first == T!Min(young)
           kept  == SubSeq(grown, first, Len(grown))
<1>1. /\ p \in Seq(Sample) /\ Len(p) \in Nat /\ DOMAIN p = 1 .. Len(p)
      /\ \A i \in 1 .. Len(p) : p[i] \in Sample
      /\ \A i, j \in 1 .. Len(p) : i <= j => p[i].at <= p[j].at
  <2>1. p \in Seq(Sample)
    BY DEF Ordered
  <2>2. Len(p) \in Nat /\ DOMAIN p = 1 .. Len(p)
    BY <2>1, LenProperties
  <2> QED BY <2>1, <2>2, ElementOfSeq DEF Ordered
<1>2. \A y \in Sample : y.at \in Int
  BY TvlAssumption DEF T!Times
<1>3. n \in older /\ \A i \in older : i <= n
  <2>1. older \in SUBSET Nat /\ older # {} /\ \A i \in older : i <= Len(p)
    BY <1>1
  <2> HIDE DEF older
  <2> QED BY <1>1, <2>1, TvlLast
<1>4. /\ n \in 0 .. Len(p)
      /\ \A i \in 1 .. n : p[i].at <= x.at
      /\ \A i \in n + 1 .. Len(p) : x.at <= p[i].at
  <2>1. n \in 0 .. Len(p)
    BY <1>1, <1>3
  <2> HIDE DEF n
  <2>2. n > 0 => p[n].at <= x.at
    BY <1>1, <1>3
  <2>3. ASSUME NEW i \in 1 .. n PROVE p[i].at <= x.at
    <3>1. /\ i \in 1 .. Len(p) /\ n \in 1 .. Len(p) /\ i <= n
      BY <1>1, <2>1
    <3>2. p[i].at <= p[n].at /\ p[n].at <= x.at
      BY <1>1, <2>2, <3>1
    <3>3. p[i].at \in Int /\ p[n].at \in Int /\ x.at \in Int
      BY <1>1, <1>2, <3>1
    <3> QED BY <3>2, <3>3
  <2>4. ASSUME NEW i \in n + 1 .. Len(p) PROVE x.at <= p[i].at
    <3>1. i \in 1 .. Len(p) /\ i > n
      BY <1>1, <2>1
    <3>2. ~(p[i].at <= x.at)
      BY <1>1, <1>3, <2>1, <3>1
    <3>3. p[i].at \in Int /\ x.at \in Int
      BY <1>1, <1>2, <3>1
    <3> QED BY <3>2, <3>3
  <2> QED BY <2>1, <2>3, <2>4
<1> HIDE DEF n, older
<1>5. /\ grown \in Seq(Sample) /\ Len(grown) = Len(p) + 1
      /\ \A i \in 1 .. n : grown[i] = p[i]
      /\ grown[n + 1] = x
      /\ \A i \in n + 2 .. Len(p) + 1 : grown[i] = p[i - 1]
  <2> DEFINE front == SubSeq(p, 1, n)
             back == SubSeq(p, n + 1, Len(p))
  <2>1. /\ front \in Seq(Sample) /\ Len(front) = n
        /\ \A i \in 1 .. n : front[i] = p[i]
    BY <1>1, <1>4
  <2>2. /\ back \in Seq(Sample) /\ Len(back) = Len(p) - n
        /\ \A i \in 1 .. Len(p) - n : back[i] = p[n + i]
    <3>1. \A i \in n + 1 .. Len(p) : p[i] \in Sample
      BY <1>1, <1>4
    <3>2. n + 1 \in Int /\ Len(p) \in Int
      BY <1>1, <1>4
    <3>3. /\ back \in Seq(Sample)
          /\ Len(back) = IF n + 1 <= Len(p) THEN Len(p) - (n + 1) + 1 ELSE 0
          /\ \A i \in 1 .. Len(p) - (n + 1) + 1 : back[i] = p[n + 1 + i - 1]
      BY <3>1, <3>2, SubSeqProperties
    <3> HIDE DEF back
    <3>4. Len(back) = Len(p) - n
      <4>1. n \in Int /\ Len(p) \in Int /\ n <= Len(p)
        BY <1>1, <1>4
      <4>2. Len(back) = IF n + 1 <= Len(p) THEN Len(p) - (n + 1) + 1 ELSE 0
        BY <3>3
      <4> QED BY <4>1, <4>2
    <3>5. ASSUME NEW i \in 1 .. Len(p) - n PROVE back[i] = p[n + i]
      <4>1. i \in 1 .. Len(p) - (n + 1) + 1 /\ n + 1 + i - 1 = n + i
        BY <1>1, <1>4
      <4> QED BY <3>3, <4>1
    <3> QED BY <3>3, <3>4, <3>5
  <2> HIDE DEF front, back
  <2> DEFINE upTo == front \o <<x>>
  <2>3. /\ upTo \in Seq(Sample) /\ Len(upTo) = n + 1
        /\ \A i \in 1 .. n : upTo[i] = p[i]
        /\ upTo[n + 1] = x
    BY <1>1, <1>4, <2>1
  <2> HIDE DEF upTo
  <2> DEFINE whole == upTo \o back
  <2>4. /\ whole \in Seq(Sample) /\ Len(whole) = Len(p) + 1
        /\ \A i \in 1 .. Len(p) + 1 : whole[i] = IF i <= n + 1 THEN upTo[i] ELSE back[i - (n + 1)]
    <3>1. /\ whole \in Seq(Sample) /\ Len(whole) = Len(upTo) + Len(back)
          /\ \A i \in 1 .. Len(upTo) + Len(back) :
                whole[i] = IF i <= Len(upTo) THEN upTo[i] ELSE back[i - Len(upTo)]
      BY <2>2, <2>3, ConcatProperties
    <3>2. Len(upTo) + Len(back) = Len(p) + 1
      BY <1>1, <1>4, <2>2, <2>3
    <3> QED BY <2>3, <3>1, <3>2
  <2> HIDE DEF whole
  <2>5. \A i \in n + 2 .. Len(p) + 1 : whole[i] = p[i - 1]
    <3> TAKE i \in n + 2 .. Len(p) + 1
    <3>1. i - (n + 1) \in 1 .. Len(p) - n /\ i \in 1 .. Len(p) + 1 /\ ~(i <= n + 1)
      BY <1>1, <1>4
    <3>2. whole[i] = back[i - (n + 1)]
      BY <2>4, <3>1
    <3>3. back[i - (n + 1)] = p[n + (i - (n + 1))]
      BY <2>2, <3>1
    <3>4. n + (i - (n + 1)) = i - 1
      BY <1>4
    <3> QED BY <3>2, <3>3, <3>4
  <2>6. grown = whole
    BY DEF whole, upTo, front, back
  <2>7. \A i \in 1 .. n + 1 : i \in 1 .. Len(p) + 1 /\ i <= n + 1
    BY <1>1, <1>4
  <2>8. /\ \A i \in 1 .. n : whole[i] = p[i]
        /\ whole[n + 1] = x
    BY <1>4, <2>3, <2>4, <2>7
  <2> HIDE DEF grown
  <2> QED BY <2>4, <2>5, <2>6, <2>8
<1> HIDE DEF grown
<1>6. DOMAIN grown = 1 .. Len(p) + 1 /\ \A i \in 1 .. Len(p) + 1 : grown[i] \in Sample
  BY <1>5, LenProperties, ElementOfSeq
<1>7. ASSUME NEW i \in 1 .. Len(p) + 1, NEW j \in 1 .. Len(p) + 1, i <= j
      PROVE  grown[i].at <= grown[j].at
  <2>1. grown[i].at \in Int /\ grown[j].at \in Int
    BY <1>2, <1>6
  <2>2. CASE i <= n /\ j <= n
    <3>1. i \in 1 .. n /\ j \in 1 .. n /\ i \in 1 .. Len(p) /\ j \in 1 .. Len(p)
      BY <1>1, <1>4, <2>2
    <3> QED BY <1>1, <1>5, <1>7, <3>1
  <2>3. CASE i <= n /\ j = n + 1
    BY <1>1, <1>4, <1>5, <2>3
  <2>4. CASE i <= n /\ j > n + 1
    <3>1. /\ i \in 1 .. n /\ j - 1 \in n + 1 .. Len(p) /\ i \in 1 .. Len(p)
          /\ j - 1 \in 1 .. Len(p) /\ i <= j - 1 /\ j \in n + 2 .. Len(p) + 1
      BY <1>1, <1>4, <2>4
    <3> QED BY <1>1, <1>5, <3>1
  <2>5. CASE i = n + 1 /\ j = n + 1
    BY <2>1, <2>5
  <2>6. CASE i = n + 1 /\ j > n + 1
    <3>1. j - 1 \in n + 1 .. Len(p) /\ j \in n + 2 .. Len(p) + 1
      BY <1>1, <1>4, <2>6
    <3> QED BY <1>4, <1>5, <2>6, <3>1
  <2>7. CASE i > n + 1
    <3>1. /\ i - 1 \in 1 .. Len(p) /\ j - 1 \in 1 .. Len(p) /\ i - 1 <= j - 1
          /\ i \in n + 2 .. Len(p) + 1 /\ j \in n + 2 .. Len(p) + 1
      BY <1>1, <1>4, <1>7, <2>7
    <3> QED BY <1>1, <1>5, <3>1
  <2> QED BY <1>1, <1>4, <1>7, <2>2, <2>3, <2>4, <2>5, <2>6, <2>7
<1>8. first \in young /\ \A i \in young : first <= i
  <2>1. n + 1 \in young
    <3>1. x.at \in Int /\ n + 1 \in 1 .. Len(p) + 1
      BY <1>1, <1>2, <1>4
    <3>2. x.at >= x.at - window
      BY <3>1
    <3> QED BY <1>5, <1>6, <3>1, <3>2
  <2>2. young \in SUBSET Nat
    BY <1>1, <1>6
  <2> HIDE DEF young
  <2> QED BY <2>1, <2>2, TvlFirst
<1>9. first \in 1 .. n + 1
  <2>1. n + 1 \in young
    <3>1. x.at \in Int /\ n + 1 \in 1 .. Len(p) + 1
      BY <1>1, <1>2, <1>4
    <3>2. x.at >= x.at - window
      BY <3>1
    <3> QED BY <1>5, <1>6, <3>1, <3>2
  <2>2. first \in 1 .. Len(p) + 1 /\ first <= n + 1
    BY <1>6, <1>8, <2>1
  <2> HIDE DEF first
  <2> QED BY <1>1, <1>4, <2>2
<1> HIDE DEF first, young
<1>10. /\ kept \in Seq(Sample) /\ Len(kept) = Len(p) + 2 - first
       /\ \A i \in 1 .. Len(p) + 2 - first : kept[i] = grown[i + first - 1]
  <2>1. \A i \in first .. Len(grown) : grown[i] \in Sample
    BY <1>1, <1>4, <1>5, <1>6, <1>9
  <2>2. first \in Int /\ Len(grown) \in Int /\ first <= Len(grown)
    BY <1>1, <1>4, <1>5, <1>9
  <2>3. /\ kept \in Seq(Sample) /\ Len(kept) = Len(grown) - first + 1
        /\ \A i \in 1 .. Len(grown) - first + 1 : kept[i] = grown[first + i - 1]
    BY <2>1, <2>2, SubSeqProperties
  <2> HIDE DEF kept
  <2>4. Len(grown) - first + 1 = Len(p) + 2 - first
    BY <1>1, <1>5, <2>2
  <2>5. ASSUME NEW i \in 1 .. Len(p) + 2 - first PROVE kept[i] = grown[i + first - 1]
    <3>1. first + i - 1 = i + first - 1
      BY <2>2
    <3> QED BY <2>3, <2>4, <3>1
  <2> QED BY <2>3, <2>4, <2>5
<1> HIDE DEF kept
<1>11. Ordered(kept)
  <2>1. DOMAIN kept = 1 .. Len(p) + 2 - first
    BY <1>10, LenProperties
  <2>2. ASSUME NEW i \in DOMAIN kept, NEW j \in DOMAIN kept, i <= j
        PROVE  kept[i].at <= kept[j].at
    <3>1. /\ i + first - 1 \in 1 .. Len(p) + 1 /\ j + first - 1 \in 1 .. Len(p) + 1
          /\ i + first - 1 <= j + first - 1
      BY <1>1, <1>4, <1>9, <2>1, <2>2
    <3>2. grown[i + first - 1].at <= grown[j + first - 1].at
      BY <1>7, <3>1
    <3> QED BY <1>10, <2>1, <3>2
  <2> QED BY <1>10, <2>2 DEF Ordered
<1>12. n + 2 - first \in DOMAIN kept /\ kept[n + 2 - first] = x
  <2>1. n + 2 - first \in 1 .. Len(p) + 2 - first /\ (n + 2 - first) + first - 1 = n + 1
    BY <1>1, <1>4, <1>9
  <2>2. DOMAIN kept = 1 .. Len(p) + 2 - first
    BY <1>10, LenProperties
  <2> QED BY <1>5, <1>10, <2>1, <2>2
<1>13. T!RememberSample(p, x, window) = kept
  BY DEF T!RememberSample, kept, first, young, grown, n, older
<1> QED BY <1>11, <1>12, <1>13

\* The drop of a window is between two of its samples, in their order.
LEMMA WindowDrop ==
    ASSUME NEW p, Ordered(p), NEW t \in T!Times, NEW window \in Nat,
           \E i \in DOMAIN p : p[i].at = t
    PROVE  \E i, j \in DOMAIN p :
              /\ t - window <= p[i].at /\ p[i].at <= p[j].at
              /\ T!AnalyzeWindow(p, t, window).drop = T!DropPct(p[i].tvl, p[j].tvl)
<1> DEFINE pts == T!WindowPoints(p, t, window)
           i == T!Min(pts)
           j == T!Max(pts)
<1>1. /\ Len(p) \in Nat /\ DOMAIN p = 1 .. Len(p)
      /\ \A a \in 1 .. Len(p) : p[a] \in [at : T!Times, tvl : Nat]
      /\ \A a, b \in 1 .. Len(p) : a <= b => p[a].at <= p[b].at
  <2>1. p \in Seq([at : T!Times, tvl : Nat])
    BY DEF Ordered
  <2>2. Len(p) \in Nat /\ DOMAIN p = 1 .. Len(p)
    BY <2>1, LenProperties
  <2> QED BY <2>1, <2>2, ElementOfSeq DEF Ordered
<1>2. T!Times \subseteq Int
  BY TvlAssumption DEF T!Times
<1>3. pts \in SUBSET (1 .. Len(p)) /\ pts # {}
  <2>1. PICK a \in DOMAIN p : p[a].at = t
    OBVIOUS
  <2>2. p[a].at >= t - window
    BY <1>2, <2>1
  <2> QED BY <1>1, <2>1, <2>2 DEF T!WindowPoints
<1>4. i \in pts /\ (\A a \in pts : i <= a) /\ j \in pts
  <2>1. pts \in SUBSET Nat /\ \A a \in pts : a <= Len(p)
    BY <1>1, <1>3
  <2> HIDE DEF pts
  <2> QED BY <1>1, <1>3, <2>1, TvlFirst, TvlLast
<1>5. T!AnalyzeWindow(p, t, window).drop = T!DropPct(p[i].tvl, p[j].tvl)
  BY DEF T!AnalyzeWindow
<1>6. i \in DOMAIN p /\ j \in DOMAIN p /\ i <= j /\ p[i].at >= t - window
  BY <1>1, <1>3, <1>4 DEF T!WindowPoints
<1> HIDE DEF i, j, pts
<1>7. p[i].at \in Int /\ p[i].at <= p[j].at
  BY <1>1, <1>2, <1>6
<1>8. t - window <= p[i].at
  BY <1>2, <1>6, <1>7
<1> QED BY <1>5, <1>6, <1>7, <1>8

\* Of the numbers of a rule, what the proofs need.
DropRule(r) ==
    /\ {r.fast, r.slow, r.velocity, r.fastWindow, r.slowWindow, r.velocityWindow,
        r.concurrentWindow, r.floor} \subseteq Nat
    /\ T!StateKey(r) \in ForTvl.keys

\* What evaluating a rule makes of its row, whatever the event.
DropMoved(k, row, out) ==
    /\ RowOfSamples(out.next)
    /\ out.next.sev >= row.sev
    /\ out.det = T!NoDetection => out.next.sev = row.sev
    /\ out.det # T!NoDetection =>
          /\ out.det.sev \in {4, 5} /\ out.det.key = k /\ out.next.sev <= out.det.sev

LEMMA DropIsNumber ==
    ASSUME NEW from \in Nat, NEW to \in Nat
    PROVE  T!DropPct(from, to) \in Int
<1>1. CASE to >= from
  BY <1>1 DEF T!DropPct
<1>2. CASE ~(to >= from)
  <2>1. 100 * (from - to) \in Int /\ from > 0
    BY <1>2
  <2>2. (100 * (from - to)) \div from \in Int
    BY <2>1
  <2> QED BY <1>2, <2>2 DEF T!DropPct
<1> QED BY <1>1, <1>2

LEMMA LongestWindow ==
    ASSUME NEW r, DropRule(r)
    PROVE  T!MaxWindow(r) \in Nat
<1> DEFINE S == {r.fastWindow, r.slowWindow, r.velocityWindow, r.concurrentWindow}
           n == r.fastWindow + r.slowWindow + r.velocityWindow + r.concurrentWindow
<1>1. /\ r.fastWindow \in Nat /\ r.slowWindow \in Nat /\ r.velocityWindow \in Nat
      /\ r.concurrentWindow \in Nat
  BY DEF DropRule
<1>2. S \in SUBSET Nat /\ S # {} /\ n \in Nat /\ \A x \in S : x <= n
  BY <1>1
<1>3. T!Max(S) \in S
  <2> HIDE DEF S, n
  <2> QED BY <1>2, TvlLast
<1> QED BY <1>2, <1>3 DEF T!MaxWindow

LEMMA BreachIsDrop ==
    ASSUME NEW r, DropRule(r), NEW row, Ordered(row.samples), NEW t \in T!Times,
           \E i \in DOMAIN row.samples : row.samples[i].at = t
    PROVE  /\ T!ProcessStateSample(r, row, t).base \in {0, 4, 5}
           /\ T!ProcessStateSample(r, row, t).base # 0 => Founded(r, t, row.samples)
<1> DEFINE p    == row.samples
           fast == T!AnalyzeWindow(p, t, r.fastWindow)
           slow == T!AnalyzeWindow(p, t, r.slowWindow)
           least == T!Min({r.fast, r.velocity})
           base == T!ProcessStateSample(r, row, t).base
<1>1. /\ base \in {0, 4, 5}
      /\ base # 0 => fast.drop >= r.velocity \/ fast.drop >= r.fast \/ slow.drop >= r.slow
  <2> DEFINE severity ==
                IF T!DepositGateSkipped(row) \/ fast.ref < r.floor THEN 0
                ELSE IF fast.drop >= r.velocity /\ fast.reach < r.velocityWindow THEN 5
                ELSE IF fast.drop >= r.fast
                     THEN IF fast.reach < ForTvl.fastCritical THEN 5 ELSE 4
                ELSE IF slow.drop >= r.slow THEN 4 ELSE 0
  <2>1. base = severity
    BY DEF T!ProcessStateSample
  <2> HIDE DEF base, fast, slow
  <2> QED BY <2>1
<1>2. /\ r.fastWindow \in Nat /\ r.slowWindow \in Nat /\ r.fast \in Nat /\ r.velocity \in Nat
  BY DEF DropRule
<1>3. PICK i \in DOMAIN p, j \in DOMAIN p :
          /\ t - r.fastWindow <= p[i].at /\ p[i].at <= p[j].at
          /\ fast.drop = T!DropPct(p[i].tvl, p[j].tvl)
  BY <1>2, WindowDrop
<1>4. PICK a \in DOMAIN p, b \in DOMAIN p :
          /\ t - r.slowWindow <= p[a].at /\ p[a].at <= p[b].at
          /\ slow.drop = T!DropPct(p[a].tvl, p[b].tvl)
  BY <1>2, WindowDrop
<1>5. fast.drop \in Int
  <2>1. p \in Seq([at : T!Times, tvl : Nat])
    BY DEF Ordered
  <2>2. p[i] \in [at : T!Times, tvl : Nat] /\ p[j] \in [at : T!Times, tvl : Nat]
    BY <2>1, LenProperties, ElementOfSeq
  <2>3. p[i].tvl \in Nat /\ p[j].tvl \in Nat
    BY <2>2
  <2> QED BY <1>3, <2>3, DropIsNumber
<1>6. least \in Int /\ least <= r.fast /\ least <= r.velocity
  <2>1. {r.fast, r.velocity} \in SUBSET Nat
    BY <1>2
  <2> QED BY <2>1, TvlFirst
<1> HIDE DEF fast, slow, least, base
<1>7. CASE fast.drop >= r.velocity \/ fast.drop >= r.fast
  <2>1. fast.drop >= least
    BY <1>2, <1>5, <1>6, <1>7
  <2> QED BY <1>1, <1>3, <2>1 DEF Founded, Dropped, base, least
<1>8. CASE slow.drop >= r.slow
  BY <1>1, <1>4, <1>8 DEF Founded, Dropped, base
<1>9. CASE base = 0
  BY <1>1, <1>9 DEF base
<1> QED BY <1>1, <1>7, <1>8, <1>9

LEMMA SampleMoves ==
    ASSUME NEW r, DropRule(r), NEW old, RowOfSamples(old), NEW e \in ForTvl.feed,
           NEW t \in T!Times, NEW c, NEW cfg
    PROVE  LET out == T!EvaluateSample(c, cfg, r, old, e, t)
           IN  /\ DropMoved(T!StateKey(r), old, out)
               /\ out.det # T!NoDetection =>
                     /\ Founded(r, t, out.next.samples)
                     /\ out.det.context = "systemic" =>
                           T!HasConcurrentActiveDrop(c, T!StateKey(r), t, r.concurrentWindow)
<1> DEFINE out      == T!EvaluateSample(c, cfg, r, old, e, t)
           k        == T!StateKey(r)
           row      == T!WithSample(r, old, e, t)
           seen     == T!ProcessStateSample(r, row, t)
           concurrent == T!HasConcurrentActiveDrop(c, k, t, r.concurrentWindow)
           systemic == r.contagion /\ concurrent
           context  == IF systemic THEN "systemic" ELSE "isolated"
           sev      == T!ClampSeverity(IF systemic THEN 5 ELSE seen.base, row.sev)
           move     == T!Transition(row, seen, sev, context)
           atRisk   == T!FindAtRiskMarkets(cfg, e)
           untold   == [row EXCEPT !.drop = seen.drop]
           raised   == [row EXCEPT !.sev = sev, !.drop = seen.drop, !.context = context,
                                   !.breachAt = t, !.moved = IF move = "none" THEN @ ELSE t]
           det      == T!BuildTvlDetection(k, move, sev, context, seen.pattern, atRisk)
<1> SUFFICES /\ DropMoved(k, old, out)
             /\ out.det # T!NoDetection =>
                   Founded(r, t, out.next.samples) /\ (out.det.context = "systemic" => concurrent)
  OBVIOUS
<1>1. /\ DOMAIN row = DOMAIN old /\ row.sev = old.sev /\ Ordered(row.samples)
      /\ \E i \in DOMAIN row.samples : row.samples[i].at = t
  <2> DEFINE x == [at |-> t, tvl |-> e.tvl]
             kept == T!RememberSample(old.samples, x, T!MaxWindow(r))
  <2>1. /\ DOMAIN row = DOMAIN old /\ row.sev = old.sev /\ row.samples = kept
    BY DEF RowOfSamples, T!WithSample
  <2>2. x \in [at : T!Times, tvl : Nat]
    BY TvlAssumption
  <2> HIDE DEF x
  <2>3. Ordered(kept) /\ \E i \in DOMAIN kept : kept[i] = x
    BY <2>2, LongestWindow, RememberedInOrder DEF RowOfSamples
  <2>4. x.at = t
    BY DEF x
  <2> HIDE DEF kept, row
  <2> QED BY <2>1, <2>3, <2>4
<1> HIDE DEF row
<1>2. seen.base \in {0, 4, 5} /\ (seen.base # 0 => Founded(r, t, row.samples))
  BY <1>1, BreachIsDrop
<1>3. /\ row.sev \in {0, 4, 5}
      /\ DOMAIN row = {"samples", "sev", "drop", "breachAt", "moved", "context", "deposit", "stale"}
  BY <1>1 DEF RowOfSamples
<1>4. /\ seen.base = 0 => out.next = untold /\ out.det = T!NoDetection
      /\ seen.base # 0 => /\ out.next = raised
                          /\ out.det = IF move = "none" THEN T!NoDetection ELSE det
  BY DEF T!EvaluateSample, row
<1> HIDE DEF out, seen, concurrent, atRisk, k
<1>5. seen.base # 0 => sev \in {4, 5} /\ sev >= row.sev
  <2> DEFINE given == IF systemic THEN 5 ELSE seen.base
  <2>1. seen.base # 0 => given \in {4, 5}
    BY <1>2
  <2> HIDE DEF given
  <2>2. sev = IF given < row.sev THEN row.sev ELSE given
    BY DEF T!ClampSeverity, given
  <2> QED BY <1>3, <2>1, <2>2
<1>6. context = "systemic" => concurrent
  OBVIOUS
<1> HIDE DEF sev, context
<1>7. move = "none" => row.sev # 0 /\ ~(sev > row.sev)
  BY DEF T!Transition
<1> HIDE DEF move
<1>8. CASE seen.base = 0
  <2>1. /\ DOMAIN untold = DOMAIN row /\ untold.sev = row.sev /\ untold.samples = row.samples
    BY <1>3
  <2> HIDE DEF untold
  <2> QED BY <1>1, <1>3, <1>4, <1>8, <2>1 DEF DropMoved, RowOfSamples
<1>9. CASE seen.base # 0
  <2>1. /\ DOMAIN raised = DOMAIN row /\ raised.sev = sev /\ raised.samples = row.samples
    BY <1>3
  <2>2. det.sev = sev /\ det.key = k /\ det.context = context
    BY DEF T!BuildTvlDetection
  <2>3. det # T!NoDetection
    BY <1>5, <1>9, <2>2 DEF T!NoDetection
  <2> HIDE DEF raised, det
  <2>4. RowOfSamples(raised)
    BY <1>1, <1>3, <1>5, <1>9, <2>1 DEF RowOfSamples
  <2>5. CASE move = "none"
    <3>1. sev = row.sev
      BY <1>3, <1>5, <1>7, <1>9, <2>5
    <3> QED BY <1>1, <1>3, <1>4, <1>9, <2>1, <2>4, <2>5, <3>1 DEF DropMoved
  <2>6. CASE move # "none"
    <3>1. DropMoved(k, old, out)
      BY <1>1, <1>3, <1>4, <1>5, <1>9, <2>1, <2>2, <2>3, <2>4, <2>6 DEF DropMoved
    <3> QED BY <1>2, <1>4, <1>6, <1>9, <2>1, <2>2, <2>6, <3>1
  <2> QED BY <2>5, <2>6
<1> QED BY <1>8, <1>9

LEMMA TvlPauseMoves ==
    ASSUME NEW r, DropRule(r), NEW row, RowOfSamples(row), NEW t \in T!Times
    PROVE  DropMoved(T!StateKey(r), row, T!EvaluatePause(r, row, t))
<1> DEFINE out == T!EvaluatePause(r, row, t)
           k == T!StateKey(r)
           next == [row EXCEPT !.moved = t]
<1>1. out.next = next
  BY DEF T!EvaluatePause
<1>2. /\ out.det.key = k /\ out.det.sev = IF row.sev > 0 THEN row.sev ELSE 4
  BY DEF T!EvaluatePause, T!BuildPauseDetection
<1>3. DOMAIN next = DOMAIN row /\ next.sev = row.sev /\ next.samples = row.samples
  BY DEF RowOfSamples
<1> HIDE DEF out, next
<1>4. row.sev \in {0, 4, 5}
  BY DEF RowOfSamples
<1>5. out.det # T!NoDetection
  BY <1>2, <1>4 DEF T!NoDetection
<1>6. DropMoved(k, row, out)
  BY <1>1, <1>2, <1>3, <1>4, <1>5 DEF DropMoved, RowOfSamples
<1> QED BY <1>6 DEF out

LEMMA TvlRuleTaken ==
    ASSUME TvlShape, NEW d \in Detectors, work[d] # T!Idle, work[d].rules # {}
    PROVE  /\ T!Min(work[d].rules) \in work[d].rules
           /\ T!NextRule(d) = T!RuleList(config[d])[T!Min(work[d].rules)]
           /\ DropRule(T!NextRule(d)) /\ TvlRow(d) \in ForTvl.keys
<1> DEFINE c    == config[d]
           list == T!RuleList(c)
           i    == T!Min(work[d].rules)
<1>1. c \in DOMAIN ForTvl.settings /\ work[d].rules \subseteq T!ParseTvlDropRules(c)
  BY DEF TvlShape, DropInHand
<1>2. DOMAIN list \subseteq Nat
  <2>1. DOMAIN ForTvl.settings[c] \subseteq Nat
    BY <1>1, TvlAssumption
  <2>2. DOMAIN <<ForTvl.defaultRule>> \subseteq Nat
    OBVIOUS
  <2> QED BY <2>1, <2>2 DEF T!RuleList
<1>3. T!ParseTvlDropRules(c) \subseteq DOMAIN list
  BY DEF T!ParseTvlDropRules
<1>4. i \in work[d].rules
  <2>1. work[d].rules \in SUBSET Nat
    BY <1>1, <1>2, <1>3
  <2> QED BY <2>1, TvlFirst
<1>5. T!NextRule(d) = list[i]
  BY DEF T!NextRule
<1> HIDE DEF i
<1>6. list[i] \in T!RulesOf(c)
  BY <1>1, <1>4 DEF T!RulesOf
<1> HIDE DEF list
<1>7. DropRule(list[i])
  BY <1>1, <1>6, TvlAssumption DEF DropRule
<1> QED BY <1>4, <1>5, <1>7 DEF i, list, TvlRow, DropRule

LEMMA TvlInit == T!Init => TvlInv
<1> SUFFICES ASSUME T!Init PROVE TvlInv
  OBVIOUS
<1>1. \A d \in Detectors : work[d] = T!Idle /\ work[d].stage = "idle"
  BY DEF T!Init, T!Idle
<1>2. T!FreshRow.samples = << >> /\ T!FreshRow.sev = 0
  BY DEF T!FreshRow
<1>3. RowOfSamples(T!FreshRow)
  <2>1. << >> \in Seq([at : T!Times, tvl : Nat]) /\ DOMAIN << >> = {}
    OBVIOUS
  <2>2. Ordered(<< >>)
    BY <2>1 DEF Ordered
  <2> QED BY <1>2, <2>2 DEF RowOfSamples, T!FreshRow
<1>4. TvlShape
  BY <1>1, <1>3 DEF T!Init, TvlShape
<1>5. Raises /\ CachedAsSaved
  BY <1>1 DEF T!Init, Raises, CachedAsSaved, T!Cached
<1>6. ToldOfDrop
  <2>1. \A d \in Detectors : T!RaisedKeys(d) = {}
    BY <1>1 DEF T!RaisedKeys
  <2>2. \A k \in ForTvl.keys : rows[k].sev = 0 /\ announced[k] = 0
    BY <1>2 DEF T!Init
  <2> QED BY <2>1, <2>2 DEF ToldOfDrop
<1> QED BY <1>4, <1>5, <1>6 DEF TvlInv

\* The event in hand is given up, with what it had raised.
LEMMA TvlDropStep ==
    ASSUME TvlInv, NEW d \in Detectors, work' = [work EXCEPT ![d] = T!Idle],
           T!Losing(T!RaisedKeys(d)),
           \/ cache' = cache
           \/ cache' = [cache EXCEPT ![d] = [k \in ForTvl.keys |-> T!NotCached]],
           UNCHANGED <<config, rows, announced, masked>>
    PROVE  TvlInv'
<1>1. /\ intact' \in [ForTvl.keys -> BOOLEAN]
      /\ \A k \in ForTvl.keys : intact'[k] => intact[k] /\ k \notin T!RaisedKeys(d)
  BY DEF T!Losing, TvlInv, TvlShape
<1>2. /\ DOMAIN work' = Detectors /\ work'[d] = T!Idle
      /\ \A o \in Detectors \ {d} : work'[o] = work[o]
  BY DEF TvlInv, TvlShape
<1>3. T!Idle.stage = "idle"
  BY DEF T!Idle
<1>4. TvlShape'
  <2>1. DOMAIN cache' = Detectors /\ \A o \in Detectors : DOMAIN cache'[o] = ForTvl.keys
    BY DEF TvlInv, TvlShape
  <2>2. \A o \in Detectors : work'[o] = T!Idle \/ DropInHand(work'[o], config'[o])
    BY <1>2 DEF TvlInv, TvlShape
  <2> QED BY <1>1, <1>2, <2>1, <2>2 DEF TvlInv, TvlShape
<1>5. ASSUME T!Alone PROVE (Raises /\ CachedAsSaved /\ ToldOfDrop)'
  <2>1. /\ Detectors = {d} /\ Raises /\ CachedAsSaved /\ ToldOfDrop
    BY <1>5 DEF T!Alone, TvlInv
  <2>2. Raises'
    BY <1>2, <1>3, <2>1 DEF Raises
  <2>3. CachedAsSaved'
    <3>1. CASE cache' = cache
      BY <1>1, <2>1, <3>1 DEF CachedAsSaved, T!Cached
    <3>2. CASE cache' = [cache EXCEPT ![d] = [k \in ForTvl.keys |-> T!NotCached]]
      <4>1. \A k \in ForTvl.keys : cache'[d][k] = T!NotCached
        BY <3>2 DEF TvlInv, TvlShape
      <4> QED BY <2>1, <4>1 DEF CachedAsSaved, T!Cached
    <3> QED BY <3>1, <3>2
  <2>4. ToldOfDrop'
    BY <1>1, <1>2, <2>1 DEF ToldOfDrop, T!RaisedKeys
  <2> QED BY <2>2, <2>3, <2>4
<1> QED BY <1>4, <1>5 DEF TvlInv, T!Alone

LEMMA TvlEventStep ==
    ASSUME TvlInv, NEW d \in Detectors, NEW e \in ForTvl.feed, T!ProcessEvent(d, e, e.at)
    PROVE  TvlInv'
<1> DEFINE list == T!RuleList(config[d])
           places == {i \in T!ParseTvlDropRules(config[d]) :
                         list[i].enabled /\ T!Matches(list[i], e)}
           w == [stage |-> "load", event |-> e, at |-> e.at, rules |-> places,
                 emitted |-> T!NoDetection, raised |-> {}, next |-> T!FreshRow,
                 det |-> T!NoDetection]
<1>1. /\ work[d] = T!Idle /\ work' = [work EXCEPT ![d] = w]
      /\ UNCHANGED <<config, cache, rows, announced, masked, intact>>
  BY DEF T!ProcessEvent
<1>2. places \subseteq T!ParseTvlDropRules(config[d]) /\ e.at \in T!Times
  BY TvlAssumption DEF T!Times
<1> HIDE DEF places
<1>3. /\ DOMAIN w = {"stage", "event", "at", "rules", "emitted", "raised", "next", "det"}
      /\ w.stage = "load" /\ w.event = e /\ w.at = e.at /\ w.rules = places
      /\ w.emitted = T!NoDetection /\ w.raised = {}
  OBVIOUS
<1> HIDE DEF w
<1>4. DropInHand(w, config[d])
  BY <1>2, <1>3 DEF DropInHand
<1>5. /\ DOMAIN work' = Detectors /\ work'[d] = w
      /\ \A o \in Detectors \ {d} : work'[o] = work[o]
  BY <1>1 DEF TvlInv, TvlShape
<1>6. TvlShape'
  BY <1>1, <1>4, <1>5 DEF TvlInv, TvlShape
<1>7. ASSUME T!Alone PROVE (Raises /\ CachedAsSaved /\ ToldOfDrop)'
  <2>1. /\ Detectors = {d} /\ Raises /\ CachedAsSaved /\ ToldOfDrop
    BY <1>7 DEF T!Alone, TvlInv
  <2>2. Raises'
    BY <1>3, <1>5, <2>1 DEF Raises
  <2>3. CachedAsSaved'
    BY <1>1, <2>1 DEF CachedAsSaved, T!Cached
  <2>4. ToldOfDrop'
    <3>1. T!RaisedKeys(d) = {} /\ T!RaisedKeys(d)' = {}
      BY <1>1, <1>3, <1>5 DEF T!RaisedKeys
    <3> QED BY <1>1, <2>1, <3>1 DEF ToldOfDrop
  <2> QED BY <2>2, <2>3, <2>4
<1> QED BY <1>6, <1>7 DEF TvlInv, T!Alone

LEMMA TvlPruned ==
    ASSUME NEW c, NEW k, NEW t, NEW p \in T!PruneStateCache(c, k, t)
    PROVE  /\ DOMAIN p = ForTvl.keys
           /\ \A j \in ForTvl.keys : p[j] = c[j] \/ p[j] = T!NotCached
BY DEF T!PruneStateCache

LEMMA TvlLoadStep ==
    ASSUME TvlInv, NEW d \in Detectors, T!LoadAndEvaluate(d)
    PROVE  TvlInv'
<1> DEFINE w   == work[d]
           r   == T!NextRule(d)
           k   == TvlRow(d)
           row == rows[k]
           loaded == [cache[d] EXCEPT ![k] = T!CacheEntry(row)]
<1>1. w.stage = "load" /\ w.rules # {} /\ UNCHANGED <<config, rows, announced, masked, intact>>
  BY DEF T!LoadAndEvaluate, T!Visiting
<1>2. PICK c \in T!PruneStateCache(loaded, k, w.at) :
          LET out == IF w.event.kind = "sample"
                     THEN T!EvaluateSample(c, config[d], r, row, w.event, w.at)
                     ELSE T!EvaluatePause(r, row, w.at)
          IN  /\ cache' = [cache EXCEPT ![d] = c]
              /\ work' = [work EXCEPT ![d] =
                    IF T!PassesOver(row, w.event) THEN [w EXCEPT !.rules = T!RulesAfter(@)]
                    ELSE [w EXCEPT !.stage = "save", !.next = out.next, !.det = out.det]]
  BY DEF T!LoadAndEvaluate, TvlRow
<1> DEFINE out == IF w.event.kind = "sample"
                  THEN T!EvaluateSample(c, config[d], r, row, w.event, w.at)
                  ELSE T!EvaluatePause(r, row, w.at)
           passed == [w EXCEPT !.rules = T!RulesAfter(@)]
           taken == [w EXCEPT !.stage = "save", !.next = out.next, !.det = out.det]
           after == IF T!PassesOver(row, w.event) THEN passed ELSE taken
<1>3. w # T!Idle /\ DropInHand(w, config[d])
  BY <1>1 DEF T!Idle, TvlInv, TvlShape
<1>4. /\ T!Min(w.rules) \in w.rules /\ r = T!RuleList(config[d])[T!Min(w.rules)]
      /\ DropRule(r) /\ k \in ForTvl.keys /\ k = T!StateKey(r)
  BY <1>1, <1>3, TvlRuleTaken DEF TvlInv, TvlRow
<1>5. RowOfSamples(row)
  BY <1>4 DEF TvlInv, TvlShape
<1>6. /\ DropMoved(k, row, out)
      /\ w.event.kind = "sample" /\ out.det # T!NoDetection =>
            /\ Founded(r, w.at, out.next.samples)
            /\ out.det.context = "systemic" =>
                  T!HasConcurrentActiveDrop(c, k, w.at, r.concurrentWindow)
  <2>1. w.event \in ForTvl.feed /\ w.at \in T!Times
    BY <1>3 DEF DropInHand
  <2>2. CASE w.event.kind = "sample"
    BY <1>4, <1>5, <2>1, <2>2, SampleMoves
  <2>3. CASE w.event.kind # "sample"
    BY <1>4, <1>5, <2>1, <2>3, TvlPauseMoves
  <2> QED BY <2>2, <2>3
<1>7. /\ DOMAIN passed = DOMAIN w
      /\ passed.stage = "load" /\ passed.event = w.event /\ passed.at = w.at
      /\ passed.rules \subseteq w.rules /\ passed.emitted = w.emitted
      /\ passed.raised = w.raised
  BY <1>1, <1>3 DEF DropInHand, T!RulesAfter
<1>8. /\ DOMAIN taken = DOMAIN w
      /\ taken.stage = "save" /\ taken.event = w.event /\ taken.at = w.at
      /\ taken.rules = w.rules /\ taken.emitted = w.emitted
      /\ taken.raised = w.raised /\ taken.next = out.next /\ taken.det = out.det
  BY <1>3 DEF DropInHand
<1>9. /\ DOMAIN work' = Detectors /\ work'[d] = after
      /\ \A o \in Detectors \ {d} : work'[o] = work[o]
  <2>1. work' = [work EXCEPT ![d] = after]
    BY <1>2
  <2> HIDE DEF after
  <2> QED BY <2>1 DEF TvlInv, TvlShape
<1>10. /\ DOMAIN cache' = Detectors /\ \A o \in Detectors : DOMAIN cache'[o] = ForTvl.keys
       /\ cache'[d] = c
       /\ \A j \in ForTvl.keys : cache'[d][j] = T!NotCached \/ cache'[d][j] = loaded[j]
       /\ loaded[k] = T!CacheEntry(row)
       /\ \A j \in ForTvl.keys \ {k} : loaded[j] = cache[d][j]
  <2>1. /\ DOMAIN cache = Detectors /\ \A o \in Detectors : DOMAIN cache[o] = ForTvl.keys
    BY DEF TvlInv, TvlShape
  <2>2. DOMAIN c = ForTvl.keys /\ \A j \in ForTvl.keys : c[j] = loaded[j] \/ c[j] = T!NotCached
    <3>1. c \in T!PruneStateCache(loaded, k, w.at)
      BY <1>2
    <3> HIDE DEF loaded, k, w
    <3> QED BY <3>1, TvlPruned
  <2>3. /\ loaded[k] = T!CacheEntry(row)
        /\ \A j \in ForTvl.keys \ {k} : loaded[j] = cache[d][j]
    BY <1>4, <2>1
  <2>4. cache' = [cache EXCEPT ![d] = c]
    BY <1>2
  <2> HIDE DEF loaded
  <2> QED BY <2>1, <2>2, <2>3, <2>4
<1> HIDE DEF out, passed, taken, loaded, r, k
<1>11. DropInHand(passed, config[d])
  BY <1>3, <1>7 DEF DropInHand
<1>12. DropInHand(taken, config[d])
  <2>1. /\ RowOfSamples(out.next)
        /\ out.det = T!NoDetection \/ (out.det.sev \in {4, 5} /\ out.det.key = T!StateKey(r))
    BY <1>4, <1>6 DEF DropMoved
  <2>2. w.event.kind = "sample" /\ out.det # T!NoDetection => Founded(r, w.at, out.next.samples)
    BY <1>6
  <2> QED BY <1>1, <1>3, <1>4, <1>8, <2>1, <2>2 DEF DropInHand
<1>13. /\ after.emitted = w.emitted /\ after.raised = w.raised
       /\ DropInHand(after, config[d]) /\ after # T!Idle
  <2>1. passed # T!Idle /\ taken # T!Idle
    BY <1>7, <1>8 DEF T!Idle
  <2> QED BY <1>7, <1>8, <1>11, <1>12, <2>1
<1>14. TvlShape'
  <2> HIDE DEF after
  <2> QED BY <1>1, <1>9, <1>10, <1>13 DEF TvlInv, TvlShape
<1>15. ASSUME T!Alone PROVE (Raises /\ CachedAsSaved /\ ToldOfDrop)'
  <2>1. /\ Detectors = {d} /\ Raises /\ CachedAsSaved /\ ToldOfDrop
    BY <1>15 DEF T!Alone, TvlInv
  <2>2. Raises'
    <3>1. CASE T!PassesOver(row, w.event)
      BY <1>7, <1>9, <2>1, <3>1 DEF Raises
    <3>2. CASE ~T!PassesOver(row, w.event)
      <4>1. work'[d] = taken
        BY <1>9, <3>2
      <4>2. T!NextRule(d)' = r /\ TvlRow(d)' = k
        BY <1>1, <1>8, <4>1 DEF T!NextRule, TvlRow, r, k
      <4> QED BY <1>1, <1>6, <1>8, <1>10, <2>1, <4>1, <4>2 DEF Raises, DropMoved
    <3> QED BY <3>1, <3>2
  <2>3. CachedAsSaved'
    <3> SUFFICES ASSUME NEW j \in ForTvl.keys, cache'[d][j] # T!NotCached, intact[j]
                 PROVE  cache'[d][j].sev = rows[j].sev /\ cache'[d][j].breachAt = rows[j].breachAt
      BY <1>1, <2>1 DEF CachedAsSaved, T!Cached
    <3>1. CASE j = k
      BY <1>10, <3>1 DEF T!CacheEntry
    <3>2. CASE j # k
      <4>1. cache'[d][j] = cache[d][j]
        BY <1>10, <3>2
      <4> QED BY <2>1, <4>1 DEF CachedAsSaved, T!Cached
    <3> QED BY <3>1, <3>2
  <2>4. ToldOfDrop'
    <3> HIDE DEF after
    <3>1. T!RaisedKeys(d) = w.raised /\ T!RaisedKeys(d)' = w.raised
      BY <1>3, <1>9, <1>13 DEF T!RaisedKeys
    <3> QED BY <1>1, <1>9, <1>13, <2>1, <3>1 DEF ToldOfDrop
  <2> QED BY <2>2, <2>3, <2>4
<1> QED BY <1>14, <1>15 DEF TvlInv, T!Alone

LEMMA TvlSaveStep ==
    ASSUME TvlInv, NEW d \in Detectors, T!Save(d)
    PROVE  TvlInv'
<1> DEFINE w == work[d]
           k == TvlRow(d)
           loaded == [cache[d] EXCEPT ![k] = T!CacheEntry(w.next)]
           after == [w EXCEPT !.stage = "load", !.rules = T!RulesAfter(@),
                              !.emitted = T!PickHigherSeverity(@, w.det),
                              !.raised = IF w.det = T!NoDetection THEN @ ELSE @ \cup {k},
                              !.next = T!FreshRow, !.det = T!NoDetection]
<1>1. /\ w.stage = "save" /\ w.rules # {}
      /\ work' = [work EXCEPT ![d] = after]
      /\ UNCHANGED <<config, announced, masked>>
  BY DEF T!Save, T!Visiting, TvlRow
<1>2. PICK saved \in BOOLEAN : /\ rows' = IF saved THEN [rows EXCEPT ![k] = w.next] ELSE rows
                               /\ T!Losing(IF saved THEN {} ELSE {k})
  BY DEF T!Save, TvlRow
<1>3. PICK c \in T!PruneStateCache(loaded, k, w.at) : cache' = [cache EXCEPT ![d] = c]
  BY DEF T!Save, TvlRow
<1>4. w # T!Idle /\ DropInHand(w, config[d])
  BY <1>1 DEF T!Idle, TvlInv, TvlShape
<1>5. /\ T!NextRule(d) = T!RuleList(config[d])[T!Min(w.rules)]
      /\ k \in ForTvl.keys /\ k = T!StateKey(T!NextRule(d))
  BY <1>1, <1>4, TvlRuleTaken DEF TvlInv, TvlRow
<1>6. /\ DOMAIN rows' = ForTvl.keys /\ \A j \in ForTvl.keys : RowOfSamples(rows'[j])
      /\ \A j \in ForTvl.keys \ {k} : rows'[j] = rows[j]
      /\ saved => rows'[k] = w.next
  BY <1>1, <1>2, <1>4, <1>5 DEF TvlInv, TvlShape, DropInHand
<1>7. /\ intact' \in [ForTvl.keys -> BOOLEAN]
      /\ \A j \in ForTvl.keys : intact'[j] => intact[j] /\ (j = k => saved)
  BY <1>2 DEF T!Losing, TvlInv, TvlShape
<1>8. /\ DOMAIN cache' = Detectors /\ \A o \in Detectors : DOMAIN cache'[o] = ForTvl.keys
      /\ \A j \in ForTvl.keys : cache'[d][j] = T!NotCached \/ cache'[d][j] = loaded[j]
      /\ loaded[k] = T!CacheEntry(w.next)
      /\ \A j \in ForTvl.keys \ {k} : loaded[j] = cache[d][j]
  <2>1. /\ DOMAIN cache = Detectors /\ \A o \in Detectors : DOMAIN cache[o] = ForTvl.keys
    BY DEF TvlInv, TvlShape
  <2>2. DOMAIN c = ForTvl.keys /\ \A j \in ForTvl.keys : c[j] = loaded[j] \/ c[j] = T!NotCached
    <3>1. c \in T!PruneStateCache(loaded, k, w.at)
      BY <1>3
    <3> HIDE DEF loaded, k, w
    <3> QED BY <3>1, TvlPruned
  <2>3. /\ loaded[k] = T!CacheEntry(w.next)
        /\ \A j \in ForTvl.keys \ {k} : loaded[j] = cache[d][j]
    BY <1>5, <2>1
  <2> HIDE DEF loaded
  <2> QED BY <1>3, <2>1, <2>2, <2>3
<1>9. /\ DOMAIN after = DOMAIN w /\ after.stage = "load"
      /\ after.event = w.event /\ after.at = w.at
      /\ after.rules \subseteq w.rules
      /\ after.emitted = T!PickHigherSeverity(w.emitted, w.det)
      /\ after.raised = IF w.det = T!NoDetection THEN w.raised ELSE w.raised \cup {k}
  BY <1>4 DEF DropInHand, T!RulesAfter
<1> HIDE DEF after
<1>10. after # T!Idle
  BY <1>9 DEF T!Idle
<1>11. /\ DOMAIN work' = Detectors /\ work'[d] = after
       /\ \A o \in Detectors \ {d} : work'[o] = work[o]
  BY <1>1 DEF TvlInv, TvlShape
<1>12. /\ w.det # T!NoDetection => w.det.sev \in {4, 5} /\ w.det.key = k
       /\ w.emitted.sev \in {0, 4, 5}
       /\ T!NoDetection.sev = 0
       /\ w.emitted.sev = 0 => w.emitted = T!NoDetection /\ w.raised = {}
       /\ w.emitted.sev # 0 => w.emitted.key \in w.raised
  BY <1>1, <1>4, <1>5 DEF DropInHand, T!NoDetection
<1>13. /\ w.det = T!NoDetection => after.emitted = w.emitted
       /\ w.det # T!NoDetection =>
             after.emitted = IF w.det.sev > w.emitted.sev THEN w.det ELSE w.emitted
  BY <1>9, <1>12 DEF T!PickHigherSeverity
<1>14. /\ after.emitted.sev \in {0, 4, 5} /\ after.emitted.sev >= w.emitted.sev
       /\ w.det # T!NoDetection => after.emitted.sev >= w.det.sev
  BY <1>12, <1>13
<1>15. DropInHand(after, config[d])
  <2>1. after.raised \subseteq ForTvl.keys /\ after.rules \subseteq T!ParseTvlDropRules(config[d])
    BY <1>4, <1>5, <1>9 DEF DropInHand
  <2>2. \/ after.emitted = T!NoDetection /\ after.raised = {}
        \/ after.emitted.sev \in {4, 5} /\ after.emitted.key \in after.raised
    <3>1. CASE w.det = T!NoDetection
      BY <1>4, <1>9, <1>13, <3>1 DEF DropInHand
    <3>2. CASE w.det # T!NoDetection
      BY <1>9, <1>12, <1>13, <3>2
    <3> QED BY <3>1, <3>2
  <2> QED BY <1>4, <1>9, <2>1, <2>2 DEF DropInHand
<1>16. TvlShape'
  BY <1>1, <1>6, <1>7, <1>8, <1>11, <1>15 DEF TvlInv, TvlShape
<1>17. ASSUME T!Alone PROVE (Raises /\ CachedAsSaved /\ ToldOfDrop)'
  <2>1. /\ Detectors = {d} /\ Raises /\ CachedAsSaved /\ ToldOfDrop
    BY <1>17 DEF T!Alone, TvlInv
  <2> HIDE DEF loaded
  <2>2. Raises'
    BY <1>9, <1>11, <2>1 DEF Raises
  <2>3. CachedAsSaved'
    <3> SUFFICES ASSUME NEW j \in ForTvl.keys, cache'[d][j] # T!NotCached, intact'[j]
                 PROVE  cache'[d][j].sev = rows'[j].sev /\ cache'[d][j].breachAt = rows'[j].breachAt
      BY <2>1 DEF CachedAsSaved, T!Cached
    <3>1. CASE j = k
      BY <1>6, <1>7, <1>8, <3>1 DEF T!CacheEntry
    <3>2. CASE j # k
      <4>1. cache'[d][j] = cache[d][j] /\ intact[j] /\ rows'[j] = rows[j]
        BY <1>6, <1>7, <1>8, <3>2
      <4> QED BY <2>1, <4>1 DEF CachedAsSaved, T!Cached
    <3> QED BY <3>1, <3>2
  <2>4. ToldOfDrop'
    <3>1. T!RaisedKeys(d) = w.raised /\ T!RaisedKeys(d)' = after.raised
      BY <1>4, <1>10, <1>11 DEF T!RaisedKeys
    <3> SUFFICES ASSUME NEW j \in ForTvl.keys, intact'[j]
                 PROVE  IF j \in after.raised THEN rows'[j].sev <= after.emitted.sev
                        ELSE rows'[j].sev <= announced[j] \/ rows'[j].sev <= masked[j]
      BY <1>1, <1>11, <2>1, <3>1 DEF ToldOfDrop
    <3>2. /\ intact[j] /\ rows[j].sev \in Int /\ rows'[j].sev \in Int
          /\ IF j \in w.raised THEN rows[j].sev <= w.emitted.sev
             ELSE rows[j].sev <= announced[j] \/ rows[j].sev <= masked[j]
      BY <1>6, <1>7, <2>1, <3>1 DEF ToldOfDrop, TvlInv, TvlShape, RowOfSamples
    <3>3. CASE j # k
      <4>1. rows'[j] = rows[j] /\ (j \in after.raised <=> j \in w.raised)
        BY <1>6, <1>9, <3>3
      <4> QED BY <1>12, <1>14, <3>2, <4>1
    <3>4. CASE j = k
      <4>1. rows'[j] = w.next
        BY <1>6, <1>7, <3>4
      <4>2. CASE w.det = T!NoDetection
        <5>1. rows'[j].sev = rows[j].sev
          BY <1>1, <2>1, <3>4, <4>1, <4>2 DEF Raises
        <5> QED BY <1>9, <1>13, <3>2, <4>2, <5>1
      <4>3. CASE w.det # T!NoDetection
        <5>1. w.next.sev <= w.det.sev /\ j \in after.raised
          BY <1>1, <1>9, <2>1, <3>4, <4>3 DEF Raises
        <5> QED BY <1>12, <1>14, <3>2, <4>1, <4>3, <5>1
      <4> QED BY <4>2, <4>3
    <3> QED BY <3>3, <3>4
  <2> QED BY <2>2, <2>3, <2>4
<1> QED BY <1>16, <1>17 DEF TvlInv, T!Alone

LEMMA TvlFinishStep ==
    ASSUME TvlInv, NEW d \in Detectors, T!Finish(d)
    PROVE  TvlInv'
<1> DEFINE w == work[d]
           found == w.emitted # T!NoDetection
<1>1. /\ w.stage = "load"
      /\ work' = [work EXCEPT ![d] = T!Idle]
      /\ UNCHANGED <<config, cache, rows>>
  BY DEF T!Finish
<1>2. PICK sent \in BOOLEAN :
          /\ announced' = IF sent /\ found
                          THEN [announced EXCEPT ![w.emitted.key] = w.emitted.sev] ELSE announced
          /\ ~sent => found
          /\ masked' = [k \in ForTvl.keys |->
                IF k \in T!RaisedKeys(d) /\ k # w.emitted.key THEN w.emitted.sev ELSE masked[k]]
          /\ T!Losing(IF sent THEN {} ELSE T!RaisedKeys(d))
  BY DEF T!Finish
<1>3. w # T!Idle /\ DropInHand(w, config[d])
  BY <1>1 DEF T!Idle, TvlInv, TvlShape
<1>4. T!RaisedKeys(d) = w.raised
  BY <1>3 DEF T!RaisedKeys
<1>5. /\ w.raised # {} => found /\ w.emitted.sev \in {4, 5} /\ w.emitted.key \in w.raised
      /\ found => w.raised # {}
      /\ w.raised \subseteq ForTvl.keys
  BY <1>3 DEF DropInHand, T!NoDetection
<1>6. /\ DOMAIN work' = Detectors /\ work'[d] = T!Idle
      /\ \A o \in Detectors \ {d} : work'[o] = work[o]
  BY <1>1 DEF TvlInv, TvlShape
<1>7. /\ intact' \in [ForTvl.keys -> BOOLEAN]
      /\ \A k \in ForTvl.keys : intact'[k] => intact[k] /\ (sent \/ k \notin w.raised)
  BY <1>2, <1>4 DEF T!Losing, TvlInv, TvlShape
<1>8. /\ masked' \in [ForTvl.keys -> Nat]
      /\ \A k \in ForTvl.keys :
            masked'[k] = IF k \in w.raised /\ k # w.emitted.key THEN w.emitted.sev ELSE masked[k]
  BY <1>2, <1>4, <1>5 DEF TvlInv, TvlShape
<1>9. /\ announced' \in [ForTvl.keys -> Nat]
      /\ sent /\ found => announced'[w.emitted.key] = w.emitted.sev
      /\ \A k \in ForTvl.keys : ~(found /\ k = w.emitted.key) => announced'[k] = announced[k]
  BY <1>2, <1>5 DEF TvlInv, TvlShape
<1>10. TvlShape'
  BY <1>1, <1>6, <1>7, <1>8, <1>9 DEF TvlInv, TvlShape
<1>11. ASSUME T!Alone PROVE (Raises /\ CachedAsSaved /\ ToldOfDrop)'
  <2>1. /\ Detectors = {d} /\ Raises /\ CachedAsSaved /\ ToldOfDrop
    BY <1>11 DEF T!Alone, TvlInv
  <2>2. Raises'
    BY <1>6, <2>1 DEF Raises, T!Idle
  <2>3. CachedAsSaved'
    BY <1>1, <1>7, <2>1 DEF CachedAsSaved, T!Cached
  <2>4. ToldOfDrop'
    <3> SUFFICES ASSUME NEW k \in ForTvl.keys, intact'[k]
                 PROVE  rows[k].sev <= announced'[k] \/ rows[k].sev <= masked'[k]
      BY <1>1, <1>6, <2>1 DEF ToldOfDrop, T!RaisedKeys
    <3>1. /\ intact[k] /\ (sent \/ k \notin w.raised)
          /\ IF k \in w.raised THEN rows[k].sev <= w.emitted.sev
             ELSE rows[k].sev <= announced[k] \/ rows[k].sev <= masked[k]
      BY <1>4, <1>7, <2>1 DEF ToldOfDrop
    <3>2. CASE k \notin w.raised
      <4>1. ~(found /\ k = w.emitted.key)
        BY <1>5, <3>2
      <4>2. announced'[k] = announced[k]
        BY <1>9, <4>1
      <4>3. masked'[k] = masked[k]
        BY <1>8, <3>2
      <4> QED BY <3>1, <3>2, <4>2, <4>3
    <3>3. CASE k \in w.raised
      <4>1. sent /\ found /\ rows[k].sev <= w.emitted.sev
        BY <1>5, <3>1, <3>3
      <4>2. CASE k = w.emitted.key
        BY <1>9, <4>1, <4>2
      <4>3. CASE k # w.emitted.key
        BY <1>8, <3>3, <4>1, <4>3
      <4> QED BY <4>2, <4>3
    <3> QED BY <3>2, <3>3
  <2> QED BY <2>2, <2>3, <2>4
<1> QED BY <1>10, <1>11 DEF TvlInv, T!Alone

LEMMA TvlReloadStep ==
    ASSUME TvlInv, NEW d \in Detectors, NEW c \in DOMAIN ForTvl.settings, T!ReloadConfig(d, c)
    PROVE  TvlInv'
<1>1. /\ work[d] = T!Idle /\ config' = [config EXCEPT ![d] = c]
      /\ UNCHANGED <<cache, rows, work, announced, masked, intact>>
  BY DEF T!ReloadConfig
<1>2. /\ config' \in [Detectors -> DOMAIN ForTvl.settings]
      /\ \A o \in Detectors \ {d} : config'[o] = config[o]
  BY <1>1 DEF TvlInv, TvlShape
<1>3. TvlShape'
  BY <1>1, <1>2 DEF TvlInv, TvlShape
<1>4. ASSUME T!Alone PROVE (Raises /\ CachedAsSaved /\ ToldOfDrop)'
  <2>1. /\ Detectors = {d} /\ Raises /\ CachedAsSaved /\ ToldOfDrop
    BY <1>4 DEF T!Alone, TvlInv
  <2>2. Raises'
    BY <1>1, <2>1 DEF Raises, T!Idle
  <2> QED BY <1>1, <2>1, <2>2 DEF CachedAsSaved, T!Cached, ToldOfDrop, T!RaisedKeys
<1> QED BY <1>3, <1>4 DEF TvlInv, T!Alone

LEMMA TvlStep == TvlInv /\ [T!Next]_T!vars => TvlInv'
<1> SUFFICES ASSUME TvlInv, [T!Next]_T!vars PROVE TvlInv'
  OBVIOUS
<1>1. ASSUME NEW d \in Detectors, T!LoadFails(d) PROVE TvlInv'
  <2>1. /\ work' = [work EXCEPT ![d] = T!Idle] /\ T!Losing(T!RaisedKeys(d))
        /\ cache' = cache /\ UNCHANGED <<config, rows, announced, masked>>
    BY <1>1 DEF T!LoadFails
  <2> QED BY <2>1, TvlDropStep
<1>2. ASSUME NEW d \in Detectors, T!Crash(d) PROVE TvlInv'
  <2>1. /\ work' = [work EXCEPT ![d] = T!Idle] /\ T!Losing(T!RaisedKeys(d))
        /\ cache' = [cache EXCEPT ![d] = [k \in ForTvl.keys |-> T!NotCached]]
        /\ UNCHANGED <<config, rows, announced, masked>>
    BY <1>2 DEF T!Crash
  <2> QED BY <2>1, TvlDropStep
<1>3. CASE UNCHANGED T!vars
  BY <1>3 DEF T!vars, TvlInv, TvlShape, Raises, TvlRow, T!NextRule, CachedAsSaved, T!Cached,
              ToldOfDrop, T!RaisedKeys, T!Alone
<1> QED BY <1>1, <1>2, <1>3, TvlEventStep, TvlLoadStep, TvlSaveStep, TvlFinishStep,
           TvlReloadStep DEF T!Next

LEMMA TvlProperties ==
    ASSUME TvlInv
    PROVE  T!RaiseToldOrMasked /\ T!DropIsFounded /\ T!SystemicIsFounded
<1>1. T!RaiseToldOrMasked
  <2> SUFFICES ASSUME T!Alone, NEW k \in ForTvl.keys, intact[k],
                      \A d \in Detectors : k \notin T!RaisedKeys(d)
               PROVE  rows[k].sev <= T!Max({announced[k], masked[k]})
    BY DEF T!RaiseToldOrMasked
  <2>1. /\ rows[k].sev \in Int /\ announced[k] \in Int /\ masked[k] \in Int
    BY DEF TvlInv, TvlShape, RowOfSamples
  <2>2. rows[k].sev <= announced[k] \/ rows[k].sev <= masked[k]
    BY DEF TvlInv, ToldOfDrop, T!Alone
  <2>3. /\ T!Max({announced[k], masked[k]}) \in {announced[k], masked[k]}
        /\ T!Max({announced[k], masked[k]}) >= announced[k]
        /\ T!Max({announced[k], masked[k]}) >= masked[k]
    BY <2>1, TvlMax
  <2> QED BY <2>1, <2>2, <2>3
<1>2. ASSUME NEW d \in Detectors, NEW k \in ForTvl.keys, T!Alerting(d, k),
             work[d].event.kind = "sample"
      PROVE  /\ Founded(T!NextRule(d), work[d].at, work[d].next.samples)
             /\ work[d].stage = "save" /\ work[d].at \in Int /\ work[d].det # T!NoDetection
             /\ TvlRow(d) = k /\ T!NextRule(d).concurrentWindow \in Nat
  <2>1. /\ work[d].stage = "save" /\ work[d].rules # {} /\ work[d].det # T!NoDetection
        /\ work[d].det.key = k
    BY <1>2 DEF T!Alerting, T!Visiting
  <2>2. work[d] # T!Idle /\ DropInHand(work[d], config[d])
    BY <2>1 DEF T!Idle, TvlInv, TvlShape
  <2>3. /\ T!NextRule(d) = T!RuleList(config[d])[T!Min(work[d].rules)]
        /\ DropRule(T!NextRule(d))
    BY <2>1, <2>2, TvlRuleTaken DEF TvlInv
  <2>4. /\ Founded(T!NextRule(d), work[d].at, work[d].next.samples)
        /\ work[d].det.key = T!StateKey(T!NextRule(d))
    BY <1>2, <2>1, <2>2, <2>3 DEF DropInHand
  <2>5. work[d].at \in Int
    BY <2>2, TvlAssumption DEF DropInHand, T!Times
  <2> QED BY <2>1, <2>3, <2>4, <2>5 DEF DropRule, TvlRow
<1>3. T!DropIsFounded
  BY <1>2 DEF T!DropIsFounded, Founded, Dropped
<1>4. ASSUME T!Alone, NEW d \in Detectors, NEW k \in ForTvl.keys, T!Alerting(d, k),
             work[d].event.kind = "sample", work[d].det.context = "systemic"
      PROVE  \E j \in ForTvl.keys :
                /\ j.protocol # k.protocol
                /\ \/ ~intact[j]
                   \/ /\ rows[j].sev > 0
                      /\ rows[j].breachAt >= work[d].at - T!NextRule(d).concurrentWindow
  <2>1. work[d].stage = "save" /\ work[d].det # T!NoDetection /\ TvlRow(d) = k
    BY <1>2, <1>4
  <2>2. T!HasConcurrentActiveDrop(cache[d], k, work[d].at, T!NextRule(d).concurrentWindow)
    BY <1>4, <2>1 DEF TvlInv, Raises
  <2>3. PICK j \in T!Cached(cache[d]) \ {k} :
           /\ j.protocol # k.protocol /\ cache[d][j].sev > 0
           /\ cache[d][j].breachAt >= work[d].at - T!NextRule(d).concurrentWindow
    BY <2>2 DEF T!HasConcurrentActiveDrop
  <2>4. j \in ForTvl.keys
    BY DEF T!Cached
  <2>5. intact[j] => cache[d][j].sev = rows[j].sev /\ cache[d][j].breachAt = rows[j].breachAt
    BY <1>4, <2>3 DEF TvlInv, CachedAsSaved
  <2> QED BY <2>3, <2>4, <2>5
<1>5. T!SystemicIsFounded
  BY <1>4 DEF T!SystemicIsFounded
<1> QED BY <1>1, <1>3, <1>5

LEMMA TvlNotLowered == TvlInv /\ [T!Next]_T!vars => T!NotLowered
<1> SUFFICES ASSUME TvlInv, [T!Next]_T!vars, T!Alone, NEW k \in ForTvl.keys
             PROVE  rows'[k].sev >= rows[k].sev
  BY DEF T!NotLowered
<1>1. rows[k].sev \in Int
  BY DEF TvlInv, TvlShape, RowOfSamples
<1>2. CASE rows' = rows
  BY <1>1, <1>2
<1>3. ASSUME NEW d \in Detectors, T!Save(d) PROVE rows'[k].sev >= rows[k].sev
  <2>1. /\ work[d].stage = "save"
        /\ rows' = rows \/ rows' = [rows EXCEPT ![TvlRow(d)] = work[d].next]
    BY <1>3 DEF T!Save, T!Visiting, TvlRow
  <2>2. work[d].next.sev >= rows[TvlRow(d)].sev
    BY <2>1 DEF TvlInv, Raises
  <2> QED BY <1>1, <1>2, <2>1, <2>2 DEF TvlInv, TvlShape
<1> QED BY <1>2, <1>3 DEF T!Next, T!vars, T!ProcessEvent, T!LoadAndEvaluate, T!LoadFails,
                          T!Finish, T!ReloadConfig, T!Crash

-----------------------------------------------------------------------------
(***************************************************************************)
(* The four together: a behaviour stays with its pattern, whose invariant  *)
(* holds from then on.                                                     *)
(***************************************************************************)
RulesInv ==
    /\ pattern = "utilization" => UtilizationInv
    /\ pattern = "tvl" => TvlInv
    /\ pattern = "flash" => FlashInv
    /\ pattern = "runtime" => RuntimeInv

LEMMA RulesInit == Init => RulesInv
BY UtilizationInit, TvlInit, FlashInit, RuntimeInit DEF Init, RulesInv

\* Each step is one of the pattern's own, or none.
LEMMA OwnStep ==
    ASSUME [Next]_vars
    PROVE  /\ pattern' = pattern
           /\ pattern = "utilization" => [U!Next]_U!vars
           /\ pattern = "tvl" => [T!Next]_T!vars
           /\ pattern = "flash" => [F!Next]_F!vars
           /\ pattern = "runtime" => [G!Next]_G!vars
<1>1. CASE UNCHANGED vars
  BY <1>1 DEF vars, U!vars, T!vars, F!vars, G!vars
<1>2. CASE Next
  BY <1>2 DEF Next
<1> QED BY <1>1, <1>2

LEMMA RulesStep == RulesInv /\ [Next]_vars => RulesInv'
BY OwnStep, UtilizationStep, TvlStep, FlashStep, RuntimeStep DEF RulesInv

LEMMA RulesInvariant == Spec => []RulesInv
BY RulesInit, RulesStep, PTL DEF Spec

\* Of the rules that one event moves, pick_higher and pick_higher_severity
\* publish the worst: with one detector, and no two rules of one row, a severity
\* that no subscriber was told of was hidden behind a detection at least as
\* severe.
THEOREM RaiseToldOrMaskedHolds == Spec => []RaiseToldOrMasked
<1>1. RulesInv => RaiseToldOrMasked
  BY UtilizationProperties, TvlProperties DEF RulesInv, RaiseToldOrMasked, Utilization, Tvl
<1> QED BY <1>1, RulesInvariant, PTL

\* The concurrent alerts of a utilization detection are active; a detection of
\* a sample rests on two samples of the row within a window of the rule,
\* whatever order process_state_sample pushed them in, for any number of
\* detectors; with one, has_concurrent_active_drop makes no drop of another
\* protocol up.
THEOREM AlertIsFoundedHolds == Spec => []AlertIsFounded
<1>1. RulesInv => AlertIsFounded
  BY UtilizationProperties, TvlProperties DEF RulesInv, AlertIsFounded, Utilization, Tvl
<1> QED BY <1>1, RulesInvariant, PTL

\* A flash loan rule of one detector does not alert on an address before its
\* cooldown is over, though saves fail, nor after a restart if a save wrote the
\* cooldown; a late event may, when one from after the cooldown came before it.  The
\* state of a runtime rule is one that its runtime returned.
THEOREM KeptStateEndures == Spec => []KeptStateHolds
<1>1. RulesInv => KeptStateHolds
  BY FlashInvariant DEF RulesInv, KeptStateHolds, RuntimeInv
<1> QED BY <1>1, RulesInvariant, PTL

\* With one detector only the end of an incident lowers the severity of a row,
\* and that of a TVL incident nothing lowers; a utilization incident
\* counts no more escalations than its severity is above the first, and resolves
\* only after as many quiet readings as its rule confirms with, and not while
\* subscribers take it for suspended by a pause.
THEOREM IncidentRunsItsCourseHolds == Spec => IncidentRunsItsCourse
<1> DEFINE Kept  == (Utilization => U!NotLowered) /\ (Tvl => T!NotLowered)
           Sound == Utilization => /\ U!EscalationsCounted /\ U!ResolutionConfirmed
                                   /\ U!NoResolutionWhileSuspended
<1>1. RulesInv /\ [Next]_vars => [Kept]_rows
  BY OwnStep, UtilizationNotLowered, TvlNotLowered DEF RulesInv, Utilization, Tvl
<1>2. RulesInv => Sound
  BY UtilizationProperties DEF RulesInv, Utilization
<1>3. Spec => [][Kept]_rows
  <2> HIDE DEF Kept
  <2> QED BY <1>1, RulesInvariant, PTL DEF Spec
<1>4. Spec => []Sound
  <2> HIDE DEF Sound
  <2> QED BY <1>2, RulesInvariant, PTL
<1> QED BY <1>3, <1>4, PTL DEF IncidentRunsItsCourse

=============================================================================
