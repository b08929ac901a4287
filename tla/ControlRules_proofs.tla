------------------------- MODULE ControlRules_proofs -------------------------
(***************************************************************************)
(* What holds of the settings and the rules for every network, every set   *)
(* of models and rules, any ramp and any number of runs and calls: their   *)
(* types, that no link looks longer open or closed than it is, that the    *)
(* stored rules act, that a time premise fires once, that a routing event  *)
(* loses one step at most, and that evaluations keep their interval.       *)
(***************************************************************************)
EXTENDS ControlRules, SequenceTheorems, FiniteSetTheorems, TLAPS

Settings == [Links -> Nat]

-----------------------------------------------------------------------------
(* What a step makes of the settings.                                        *)

\* Forcings keep settings and targets natural numbers.
LEMMA ForcedType ==
    ASSUME setting \in Settings, target \in Settings, forcing \in [Links -> Forcing]
    PROVE  Forced \in Settings /\ ForcedTarget \in Settings
<1>1. ASSUME NEW l \in Links
      PROVE  /\ setting[l] \in Nat /\ forcing[l].value \in Nat
             /\ forcing[l].mode \in {"NONE", "OVERRIDE", "ADD"}
  BY <1>1, ControlAssumption DEF Settings, Forcing
<1>2. ASSUME NEW l \in Links
      PROVE  (CASE forcing[l].mode = "OVERRIDE" -> forcing[l].value
                [] forcing[l].mode = "ADD" -> setting[l] + forcing[l].value
                [] OTHER -> setting[l]) \in Nat
  <2>1. CASE forcing[l].mode = "OVERRIDE"
    BY <1>1, <1>2, <2>1
  <2>2. CASE forcing[l].mode = "ADD"
    BY <1>1, <1>2, <2>2
  <2>3. CASE forcing[l].mode = "NONE"
    BY <1>1, <1>2, <2>3
  <2> QED
    BY <1>1, <1>2, <2>1, <2>2, <2>3
<1>3. Forced \in Settings
  BY <1>2 DEF Forced, Settings
<1>4. ForcedTarget \in Settings
  BY <1>3 DEF ForcedTarget, Settings
<1> QED
  BY <1>3, <1>4

\* A link no forcing acts on is set to what it was.
LEMMA NotForced ==
    ASSUME NEW l \in Links, forcing[l].mode = "NONE"
    PROVE  Forced[l] = setting[l]
  BY DEF Forced

\* The depth switches of the pumps keep targets natural numbers.
LEMMA SwitchedType ==
    ASSUME NEW s \in Settings, NEW t \in Settings, NEW depth
    PROVE  Switched(s, t, depth) \in Settings
  BY ControlAssumption DEF Switched, Settings

\* So do the actions of the rules.
LEMMA RuledType ==
    ASSUME NEW t \in Settings, NEW s, NEW dt, NEW depth, rules \in Seq(Rule)
    PROVE  Ruled(t, Pending(s, dt, depth)) \in Settings
<1> DEFINE pending == Pending(s, dt, depth)
<1>1. ASSUME NEW a \in pending
      PROVE  a.action.value \in Nat
  <2>1. PICK r \in DOMAIN rules : \E i :
          \/ i \in DOMAIN rules[r].then_actions /\ a.action = rules[r].then_actions[i]
          \/ i \in DOMAIN rules[r].else_actions /\ a.action = rules[r].else_actions[i]
    BY <1>1 DEF Pending
  <2>2. rules[r] \in Rule
    BY <2>1, LenProperties, ElementOfSeq
  <2>3. /\ rules[r].then_actions \in Seq(Action)
        /\ rules[r].else_actions \in Seq(Action)
    BY <2>2 DEF Rule
  <2>4. a.action \in Action
    BY <2>1, <2>3
  <2> QED
    BY <2>4, ControlAssumption DEF Action
<1> HIDE DEF pending
<1>2. ASSUME NEW l \in Links, Best(pending, l) # {}
      PROVE  (CHOOSE a \in Best(pending, l) : TRUE) \in pending
  BY <1>2 DEF Best
<1>3. Ruled(t, pending) \in Settings
  BY <1>1, <1>2 DEF Ruled, Settings
<1> QED
  BY <1>3 DEF pending

\* A setting does not pass its target: it is not below closed, and opens and
\* closes only by a target that is open or closed.
LEMMA MovedBetween ==
    ASSUME NEW l \in Links, NEW s \in Nat, NEW t \in Nat, NEW dt \in Nat
    PROVE  /\ Moved(l, s, t, dt) \in Nat
           /\ (Moved(l, s, t, dt) = 0 /\ s # 0) => t = 0
           /\ (s = 0 /\ t = 0) => Moved(l, s, t, dt) = 0
           /\ Ramp[l] = 0 => Moved(l, s, t, dt) = t
<1> DEFINE step == dt * Ramp[l]
<1>1. Ramp[l] \in Nat
  BY ControlAssumption
<1>2. step \in Nat
  BY <1>1
<1>3. Moved(l, s, t, dt) =
        IF Ramp[l] = 0 THEN t
        ELSE IF t > s THEN (IF t - s <= step THEN t ELSE s + step)
                      ELSE (IF s - t <= step THEN t ELSE s - step)
  BY DEF Moved
<1> HIDE DEF step
<1> QED
  BY <1>2, <1>3

\* The settings after the rules, and the two dates of each link.
LEMMA SettleStep ==
    ASSUME NEW s \in Settings, NEW t \in Settings, NEW dt \in Nat,
           ControlTypeOK, Settle(s, t, dt)
    PROVE  /\ setting' \in Settings /\ target' \in Settings
           /\ time_last_set' \in Settings
           /\ crossed' \in [Links -> Nat \cup {Never}]
<1>1. \A l \in Links : s[l] \in Nat /\ t[l] \in Nat
  BY DEF Settings
<1>2. \A l \in Links : Moved(l, s[l], t[l], dt) \in Nat
  BY <1>1, MovedBetween
<1>3. setting' \in Settings
  BY <1>2 DEF Settle, Settings
<1>4. time_last_set' \in Settings
  BY DEF Settle, Settings, ControlTypeOK
<1>5. crossed' \in [Links -> Nat \cup {Never}]
  BY DEF Settle, Noted, ControlTypeOK
<1> QED
  BY <1>3, <1>4, <1>5 DEF Settle

\* Links that nothing but rules, switches and targets moved are dated when they
\* open or close.
LEMMA SettleDates ==
    ASSUME NEW s \in Settings, NEW t \in Settings, NEW dt \in Nat,
           ControlTypeOK, Settle(s, t, dt), NEW l \in Links, s[l] = setting[l]
    PROVE  \/ crossed'[l] = current_date /\ time_last_set'[l] = current_date
           \/ crossed'[l] = crossed[l] /\ time_last_set'[l] = time_last_set[l]
           \/ /\ crossed'[l] = crossed[l] /\ time_last_set'[l] = current_date
              /\ Ramp[l] # 0
<1> DEFINE moved == Moved(l, s[l], t[l], dt)
<1>1. s[l] \in Nat /\ t[l] \in Nat
  BY DEF Settings
<1>2. /\ setting'[l] = moved
      /\ time_last_set'[l] = IF t[l] # s[l] /\ (t[l] = 0 \/ s[l] = 0)
                             THEN current_date ELSE time_last_set[l]
      /\ crossed'[l] = IF moved = 0 <=> s[l] = 0 THEN crossed[l] ELSE current_date
  BY DEF Settle, Noted
<1>3. (moved = 0 /\ s[l] # 0) => t[l] = 0
  BY <1>1, MovedBetween
<1>4. (s[l] = 0 /\ t[l] = 0) => moved = 0
  BY <1>1, MovedBetween
<1>5. Ramp[l] = 0 => moved = t[l]
  BY DEF Moved
<1> HIDE DEF moved
<1> QED
  BY <1>1, <1>2, <1>3, <1>4, <1>5

-----------------------------------------------------------------------------
(* The invariant: a link of which the client forced nothing is not forced,   *)
(* so the dates of AgeSinceCrossing are those of the rules.                  *)
Unwritten ==
    state \in {"INITIALIZED", "RUNNING"} =>
        \A l \in Links \ written : forcing[l].mode = "NONE"
\* Links open and close in a run, at the time it has come to.
CrossedInRun ==
    \A l \in Links : crossed[l] # Never => state = "RUNNING" /\ crossed[l] <= current_date
ControlInv == ControlTypeOK /\ Unwritten /\ CrossedInRun /\ AgeSinceCrossing

LEMMA ControlInitInv == Init => ControlInv
<1> SUFFICES ASSUME Init PROVE ControlInv
  OBVIOUS
<1>1. NoForcing \in Forcing
  BY ControlAssumption DEF NoForcing, Forcing
<1>2. NoModel \in Model
  BY DEF NoModel, Model
<1>3. ControlTypeOK
  <2>1. texts \in Seq(Rule) /\ rules \in Seq(Rule)
    BY EmptySeq DEF Init
  <2>2. /\ setting \in [Links -> Nat] /\ target \in [Links -> Nat]
        /\ time_last_set \in [Links -> Nat]
        /\ crossed \in [Links -> Nat \cup {Never}]
    BY ControlAssumption DEF Init
  <2>3. forcing \in [Links -> Forcing] /\ opt \in Model
    BY <1>1, <1>2 DEF Init
  <2>4. /\ next_event \in Nat \ {0} /\ action_count \in Nat /\ current_date \in Nat
        /\ runs \in 0 .. MaxRuns /\ calls \in 0 .. MaxCalls
    BY ControlAssumption DEF Init
  <2> QED
    BY <2>1, <2>2, <2>3, <2>4 DEF Init, ControlTypeOK, States
<1>4. Unwritten /\ CrossedInRun /\ AgeSinceCrossing
  BY <1>1 DEF Init, Unwritten, CrossedInRun, AgeSinceCrossing, NoForcing
<1> QED
  BY <1>3, <1>4 DEF ControlInv

\* A step takes as long as the model allows, and not past its end.
LEMMA TakenType ==
    ASSUME ControlTypeOK, NEW step \in opt.steps, Elapsed < opt.total
    PROVE  Taken(step) \in Nat
<1>1. step \in Nat /\ opt.total \in Nat /\ current_date \in Nat /\ StartDate \in Nat
  BY ControlAssumption DEF ControlTypeOK, Model
<1>2. Elapsed \in Int
  BY <1>1 DEF Elapsed
<1> QED
  BY <1>1, <1>2 DEF Taken

\* What is around the routing keeps its types and the forcings their modes.
LEMMA AroundStep ==
    ASSUME ControlTypeOK, NEW dt \in Nat, Around(dt)
    PROVE  /\ forcing' \in [Links -> Forcing]
           /\ \A l \in Links : forcing[l].mode = "NONE" => forcing'[l].mode = "NONE"
           /\ current_date' \in Nat /\ before' \in Nat
<1>1. ASSUME NEW l \in Links
      PROVE  /\ forcing[l] \in Forcing
             /\ [forcing[l] EXCEPT !.mode = "NONE"] \in Forcing
             /\ [forcing[l] EXCEPT !.mode = "NONE"].mode = "NONE"
  BY <1>1 DEF ControlTypeOK, Forcing
<1>2. forcing' = [l \in Links |-> IF forcing[l].persist THEN forcing[l]
                                  ELSE [forcing[l] EXCEPT !.mode = "NONE"]]
  BY DEF Around
<1>3. /\ forcing' \in [Links -> Forcing]
      /\ \A l \in Links : forcing[l].mode = "NONE" => forcing'[l].mode = "NONE"
  BY <1>1, <1>2
<1> QED
  BY <1>3 DEF Around, ControlTypeOK

\* One step keeps the invariant, whichever way it goes through the routing.
LEMMA StepInv ==
    ASSUME ControlInv, NEW step \in opt.steps, NEW depth \in Depths, NEW calm \in BOOLEAN,
           Step(step, depth, calm)
    PROVE  ControlInv'
<1> DEFINE dt == Taken(step)
<1>1. ControlTypeOK /\ Unwritten /\ CrossedInRun /\ AgeSinceCrossing /\ state = "RUNNING" /\ Elapsed < opt.total
  BY DEF ControlInv, Step
<1>2. dt \in Nat
  BY <1>1, TakenType
<1> HIDE DEF dt
<1>3. Around(dt)
  BY DEF Step, dt, StepBetweenEvents, StepWithoutRules, StepWithRules
<1>4. /\ forcing' \in [Links -> Forcing]
      /\ \A l \in Links : forcing[l].mode = "NONE" => forcing'[l].mode = "NONE"
      /\ current_date' \in Nat /\ before' \in Nat
  BY <1>1, <1>2, <1>3, AroundStep
<1>5. Unwritten'
  BY <1>1, <1>3, <1>4 DEF Unwritten, Around
<1>6. Forced \in Settings /\ ForcedTarget \in Settings
  BY <1>1, ForcedType DEF ControlTypeOK, Settings
<1>7. Switched(Forced, ForcedTarget, depth) \in Settings
  BY <1>6, SwitchedType
<1>8. \A l \in Links \ written : Forced[l] = setting[l]
  BY <1>1, NotForced DEF Unwritten
<1>9. CASE StepBetweenEvents(dt)
  <2>1. next_event' \in Nat \ {0}
    BY <1>1, <1>9 DEF StepBetweenEvents, ControlTypeOK
  <2>2. crossed' \in [Links -> Nat \cup {Never}]
    BY <1>1, <1>9 DEF StepBetweenEvents, Noted, ControlTypeOK
  <2>3. ControlTypeOK'
    BY <1>1, <1>4, <1>6, <1>9, <2>1, <2>2
    DEF StepBetweenEvents, Around, ControlTypeOK, Settings, store
  <2>4. AgeSinceCrossing'
    BY <1>1, <1>6, <1>8, <1>9
    DEF StepBetweenEvents, Around, Noted, AgeSinceCrossing, ControlTypeOK, Settings
  <2>5. CrossedInRun'
    BY <1>1, <1>2, <1>3, <1>9
    DEF StepBetweenEvents, Around, Noted, CrossedInRun, ControlTypeOK
  <2> QED
    BY <1>5, <2>3, <2>4, <2>5 DEF ControlInv
<1>10. ASSUME NEW t \in Settings, Settle(Forced, t, dt)
       PROVE  /\ setting' \in Settings /\ target' \in Settings
              /\ time_last_set' \in Settings
              /\ crossed' \in [Links -> Nat \cup {Never}]
              /\ CrossedInRun' /\ AgeSinceCrossing'
  <2>1. /\ setting' \in Settings /\ target' \in Settings
        /\ time_last_set' \in Settings
        /\ crossed' \in [Links -> Nat \cup {Never}]
    BY <1>1, <1>2, <1>6, <1>10, SettleStep
  <2>2. ASSUME NEW l \in Links \ written
        PROVE  crossed'[l] # Never => /\ crossed'[l] <= time_last_set'[l]
                                      /\ Ramp[l] = 0 => crossed'[l] = time_last_set'[l]
    <3>1. \/ crossed'[l] = current_date /\ time_last_set'[l] = current_date
          \/ crossed'[l] = crossed[l] /\ time_last_set'[l] = time_last_set[l]
          \/ /\ crossed'[l] = crossed[l] /\ time_last_set'[l] = current_date
             /\ Ramp[l] # 0
      BY <1>1, <1>2, <1>6, <1>8, <1>10, <2>2, SettleDates
    <3>2. crossed[l] # Never => crossed[l] <= current_date
      BY <1>1, <2>2 DEF CrossedInRun
    <3> QED
      BY <1>1, <2>2, <3>1, <3>2 DEF AgeSinceCrossing, ControlTypeOK
  <2>3. CrossedInRun'
    BY <1>1, <1>2, <1>3, <1>10 DEF Settle, Noted, CrossedInRun, Around, ControlTypeOK
  <2> QED
    BY <1>3, <2>1, <2>2, <2>3 DEF AgeSinceCrossing, Around
<1>11. CASE StepWithoutRules(dt, depth, calm)
  <2>1. /\ setting' \in Settings /\ target' \in Settings
        /\ time_last_set' \in Settings
        /\ crossed' \in [Links -> Nat \cup {Never}]
        /\ CrossedInRun' /\ AgeSinceCrossing'
    BY <1>7, <1>10, <1>11 DEF StepWithoutRules
  <2>2. /\ next_rule_eval' \in Nat \cup {Never} /\ action_count' \in Nat
        /\ routed' \in BOOLEAN
    BY <1>1, <1>11 DEF StepWithoutRules, RuleTime, ControlTypeOK
  <2>3. ControlTypeOK'
    BY <1>1, <1>4, <1>11, <2>1, <2>2
    DEF StepWithoutRules, Around, ControlTypeOK, Settings, store
  <2> QED
    BY <1>5, <2>1, <2>3 DEF ControlInv
<1>12. CASE StepWithRules(dt, depth, calm)
  <2> DEFINE switched == Switched(Forced, ForcedTarget, depth)
             ruled == Ruled(switched, Pending(Forced, dt, depth))
             changed == {l \in Links : ruled[l] # switched[l]}
  <2>1. ruled \in Settings /\ Settle(Forced, ruled, dt)
    BY <1>1, <1>7, <1>12, RuledType DEF StepWithRules, ControlTypeOK
  <2>2. /\ setting' \in Settings /\ target' \in Settings
        /\ time_last_set' \in Settings
        /\ crossed' \in [Links -> Nat \cup {Never}]
        /\ CrossedInRun' /\ AgeSinceCrossing'
    BY <1>10, <2>1
  <2>3. Cardinality(changed) \in Nat
    BY ControlAssumption, FS_Subset, FS_CardinalityType
  <2>4. action_count' = Cardinality(changed)
    BY <1>12 DEF StepWithRules
  <2>5. /\ next_rule_eval' \in Nat \cup {Never}
        /\ evaluated' \in Nat \cup {Never} /\ routed' \in BOOLEAN
    BY <1>1, <1>12 DEF StepWithRules, ControlTypeOK, Model
  <2> HIDE DEF changed, ruled, switched
  <2>6. ControlTypeOK'
    BY <1>1, <1>4, <1>12, <2>2, <2>3, <2>4, <2>5
    DEF StepWithRules, Around, ControlTypeOK, Settings, store
  <2> QED
    BY <1>5, <2>2, <2>6 DEF ControlInv
<1> QED
  BY <1>9, <1>11, <1>12 DEF Step, dt

-----------------------------------------------------------------------------
(* The calls of the life cycle and of the client.                            *)

\* The history of a run starts and ends empty.
LEMMA ForgottenType ==
    ASSUME Forgotten
    PROVE  /\ routed' = FALSE /\ before' = Never /\ evaluated' = Never
           /\ crossed' \in [Links -> Nat \cup {Never}]
           /\ \A l \in Links : crossed'[l] = Never
           /\ written' = {}
  BY DEF Forgotten

\* Disjoint events are events.
LEMMA DisjointType ==
    ASSUME NEW events \in Seq(Event)
    PROVE  Disjoint(events) \in Seq(Event)
<1>1. ASSUME NEW i \in 1 .. Len(events)
      PROVE  (IF i < Len(events) /\ events[i].end > events[i + 1].start
              THEN [events[i] EXCEPT !.end = events[i + 1].start] ELSE events[i]) \in Event
  <2>1. events[i] \in Event /\ (i < Len(events) => events[i + 1] \in Event)
    BY <1>1
  <2> QED
    BY <2>1 DEF Event
<1>2. DOMAIN events = 1 .. Len(events) /\ Len(events) \in Nat
  OBVIOUS
<1>3. Disjoint(events) \in [1 .. Len(events) -> Event]
  BY <1>1, <1>2 DEF Disjoint
<1> QED
  BY <1>2, <1>3

\* Opening, initializing, starting, ending and closing keep the invariant.
LEMMA LifeCycleInv ==
    ASSUME ControlInv, LifeCycle
    PROVE  ControlInv'
<1> DEFINE noForcings == [l \in Links |-> NoForcing]
<1>1. ControlTypeOK /\ Unwritten /\ CrossedInRun /\ AgeSinceCrossing
  BY DEF ControlInv
<1>2. /\ noForcings \in [Links -> Forcing]
      /\ \A l \in Links : noForcings[l].mode = "NONE"
  BY ControlAssumption DEF NoForcing, Forcing
<1>3. CASE \E m \in Models : Open(m)
  <2>1. PICK m \in Models : Open(m)
    BY <1>3
  <2>2. m \in Model /\ m.rules \in Seq(Rule)
    BY ControlAssumption DEF Model
  <2>3. texts' \in Seq(Rule) /\ opt' \in Model
    BY <1>1, <2>1, <2>2, ConcatProperties DEF Open, ControlTypeOK
  <2>4. /\ setting' \in [Links -> Nat] /\ target' \in [Links -> Nat]
        /\ time_last_set' \in [Links -> Nat]
    BY <2>1, ControlAssumption DEF Open, NewLinks
  <2>5. forcing' \in [Links -> Forcing]
    BY <1>2, <2>1 DEF Open
  <2>6. runs' \in 0 .. MaxRuns /\ current_date' \in Nat
    BY <1>1, <2>1, ControlAssumption DEF Open, ControlTypeOK
  <2>7. ControlTypeOK'
    BY <1>1, <2>1, <2>3, <2>4, <2>5, <2>6 DEF Open, ControlTypeOK, States, history
  <2>8. (Unwritten /\ CrossedInRun /\ AgeSinceCrossing)'
    BY <1>1, <2>1 DEF Open, Unwritten, CrossedInRun, AgeSinceCrossing, history
  <2> QED
    BY <2>7, <2>8 DEF ControlInv
<1>4. ASSUME Prepare, state' \in {"INITIALIZED", "ERROR_STATE"}, rules' \in Seq(Rule)
      PROVE  ControlInv'
  <2>1. opt' \in Model
    <3>1. opt.events \in Seq(Event) /\ opt \in Model
      BY <1>1 DEF ControlTypeOK, Model
    <3>2. Disjoint(opt.events) \in Seq(Event)
      BY <3>1, DisjointType
    <3> QED
      BY <1>4, <3>1, <3>2 DEF Prepare, Model
  <2>2. forcing' = noForcings
    BY <1>4 DEF Prepare
  <2>3. /\ next_event' \in Nat \ {0} /\ current_date' \in Nat /\ calls' \in 0 .. MaxCalls
    BY <1>1, <1>4, ControlAssumption DEF Prepare, ControlTypeOK
  <2>4. Forgotten
    BY <1>4 DEF Prepare
  <2>5. ControlTypeOK'
    BY <1>1, <1>2, <1>4, <2>1, <2>2, <2>3, <2>4, ForgottenType
    DEF Prepare, ControlTypeOK, States, links
  <2>6. (Unwritten /\ CrossedInRun /\ AgeSinceCrossing)'
    BY <1>2, <2>2, <2>4, ForgottenType DEF Unwritten, CrossedInRun, AgeSinceCrossing
  <2> QED
    BY <2>5, <2>6 DEF ControlInv
<1>5. CASE Initialize
  <2>1. rules' \in Seq(Rule)
    BY <1>1, <1>5 DEF Initialize, ControlTypeOK
  <2> QED
    BY <1>4, <1>5, <2>1 DEF Initialize
<1>6. CASE \E n \in DOMAIN texts : InitializeFails(n)
  <2>1. PICK n \in DOMAIN texts : InitializeFails(n)
    BY <1>6
  <2>2. texts \in Seq(Rule) /\ n \in 1 .. Len(texts)
    BY <1>1 DEF ControlTypeOK
  <2>3. \A i \in 1 .. n - 1 : texts[i] \in Rule
    BY <2>2
  <2>4. SubSeq(texts, 1, n - 1) \in Seq(Rule)
    BY <2>2, <2>3, SubSeqProperties
  <2> QED
    BY <1>4, <2>1, <2>4 DEF InitializeFails
<1>7. CASE Start
  <2>1. ControlTypeOK'
    BY <1>1, <1>7
    DEF Start, ControlTypeOK, States, store, clock, links, history
  <2>2. (Unwritten /\ CrossedInRun /\ AgeSinceCrossing)'
    BY <1>1, <1>7
    DEF Start, Unwritten, CrossedInRun, AgeSinceCrossing, clock, links, history
  <2> QED
    BY <2>1, <2>2 DEF ControlInv
<1>8. CASE End \/ Close
  <2>1. Forgotten /\ state' \in {"ENDED", "CLOSED"}
        /\ UNCHANGED <<opt, store, clock, links, forcing, runs, calls>>
    BY <1>8 DEF End, Close
  <2>2. ControlTypeOK'
    BY <1>1, <2>1, ForgottenType DEF ControlTypeOK, States, store, clock, links
  <2>3. (Unwritten /\ CrossedInRun /\ AgeSinceCrossing)'
    BY <2>1, ForgottenType DEF Unwritten, CrossedInRun, AgeSinceCrossing
  <2> QED
    BY <2>2, <2>3 DEF ControlInv
<1> QED
  BY <1>3, <1>5, <1>6, <1>7, <1>8 DEF LifeCycle

\* So do the client's calls; a forced link is one the client has written.
LEMMA CallsInv ==
    ASSUME ControlInv, Calls
    PROVE  ControlInv'
<1>1. ControlTypeOK /\ Unwritten /\ CrossedInRun /\ AgeSinceCrossing
  BY DEF ControlInv
<1>2. ASSUME calls < MaxCalls, calls' = calls + 1, texts' \in Seq(Rule), rules' \in Seq(Rule),
             UNCHANGED <<state, opt, clock, links, forcing, runs, history>>
      PROVE  ControlInv'
  <2>1. calls' \in 0 .. MaxCalls
    BY <1>1, <1>2, ControlAssumption DEF ControlTypeOK
  <2>2. ControlTypeOK'
    BY <1>1, <1>2, <2>1 DEF ControlTypeOK, clock, links, history
  <2>3. (Unwritten /\ CrossedInRun /\ AgeSinceCrossing)'
    BY <1>1, <1>2 DEF Unwritten, CrossedInRun, AgeSinceCrossing, clock, links, history
  <2> QED
    BY <2>2, <2>3 DEF ControlInv
<1>3. CASE \E r \in Texts : AddRule(r)
  <2>1. PICK r \in Texts : AddRule(r)
    BY <1>3
  <2>2. Append(texts, r) \in Seq(Rule) /\ Append(rules, r) \in Seq(Rule)
    BY <1>1, ControlAssumption DEF ControlTypeOK
  <2>3. texts' \in Seq(Rule) /\ rules' \in Seq(Rule)
    BY <1>1, <2>1, <2>2 DEF AddRule, ControlTypeOK
  <2> QED
    BY <1>2, <2>1, <2>3 DEF AddRule
<1>4. CASE ClearRules
  <2>1. texts' \in Seq(Rule) /\ rules' \in Seq(Rule)
    BY <1>1, <1>4, EmptySeq DEF ClearRules, ControlTypeOK
  <2> QED
    BY <1>2, <1>4, <2>1 DEF ClearRules
<1>5. CASE \E i \in DOMAIN texts : RemoveRule(i)
  <2>1. PICK i \in DOMAIN texts : RemoveRule(i)
    BY <1>5
  <2>2. texts \in Seq(Rule) /\ i \in 1 .. Len(texts) /\ Len(texts) \in Nat
    BY <1>1 DEF ControlTypeOK
  <2>3. /\ \A k \in 1 .. i - 1 : texts[k] \in Rule
        /\ \A k \in i + 1 .. Len(texts) : texts[k] \in Rule
    BY <2>2
  <2>4. SubSeq(texts, 1, i - 1) \in Seq(Rule) /\ SubSeq(texts, i + 1, Len(texts)) \in Seq(Rule)
    BY <2>2, <2>3, SubSeqProperties
  <2>5. texts' \in Seq(Rule) /\ rules' \in Seq(Rule)
    BY <1>1, <2>1, <2>4, ConcatProperties DEF RemoveRule, RemoveAt, ControlTypeOK
  <2> QED
    BY <1>2, <2>1, <2>5 DEF RemoveRule
<1>6. ASSUME NEW l \in Links, NEW f \in Forcings, SetForcing(l, f)
      PROVE  ControlInv'
  <2>1. calls' \in 0 .. MaxCalls /\ forcing' \in [Links -> Forcing] /\ written' \subseteq Links
    BY <1>1, <1>6, ControlAssumption DEF SetForcing, ControlTypeOK
  <2>2. ControlTypeOK'
    BY <1>1, <1>6, <2>1 DEF SetForcing, ControlTypeOK, store, clock, links
  <2>3. (Unwritten /\ CrossedInRun /\ AgeSinceCrossing)'
    BY <1>1, <1>6
    DEF SetForcing, Unwritten, CrossedInRun, AgeSinceCrossing, ControlTypeOK, clock, links
  <2> QED
    BY <2>2, <2>3 DEF ControlInv
<1>7. ASSUME NEW l \in Links, NEW v \in 0 .. Full, SetControlSetting(l, v)
      PROVE  ControlInv'
  <2>1. calls' \in 0 .. MaxCalls /\ setting' \in [Links -> Nat] /\ written' \subseteq Links
    BY <1>1, <1>7, ControlAssumption DEF SetControlSetting, ControlTypeOK
  <2>2. ControlTypeOK'
    BY <1>1, <1>7, <2>1 DEF SetControlSetting, ControlTypeOK, store, clock
  <2>3. (Unwritten /\ CrossedInRun /\ AgeSinceCrossing)'
    BY <1>1, <1>7
    DEF SetControlSetting, Unwritten, CrossedInRun, AgeSinceCrossing, ControlTypeOK, clock
  <2> QED
    BY <2>2, <2>3 DEF ControlInv
<1>8. ASSUME NEW l \in Links, NEW v \in 0 .. Full, SetTargetSetting(l, v)
      PROVE  ControlInv'
  <2>1. calls' \in 0 .. MaxCalls /\ target' \in [Links -> Nat]
    BY <1>1, <1>8, ControlAssumption DEF SetTargetSetting, ControlTypeOK
  <2>2. ControlTypeOK'
    BY <1>1, <1>8, <2>1 DEF SetTargetSetting, ControlTypeOK, store, clock, history
  <2>3. (Unwritten /\ CrossedInRun /\ AgeSinceCrossing)'
    BY <1>1, <1>8
    DEF SetTargetSetting, Unwritten, CrossedInRun, AgeSinceCrossing, clock, history
  <2> QED
    BY <2>2, <2>3 DEF ControlInv
<1> QED
  BY <1>3, <1>4, <1>5, <1>6, <1>7, <1>8 DEF Calls

LEMMA ControlStepInv == ControlInv /\ [Next]_vars => ControlInv'
<1> SUFFICES ASSUME ControlInv, [Next]_vars PROVE ControlInv'
  OBVIOUS
<1>1. CASE LifeCycle
  BY <1>1, LifeCycleInv
<1>2. CASE \E dt \in opt.steps, depth \in Depths, calm \in BOOLEAN : Step(dt, depth, calm)
  BY <1>2, StepInv
<1>3. CASE Calls
  BY <1>3, CallsInv
<1>4. CASE UNCHANGED vars
  BY <1>4
  DEF vars, store, clock, links, history, ControlInv, ControlTypeOK, Unwritten,
      CrossedInRun, AgeSinceCrossing
<1> QED
  BY <1>1, <1>2, <1>3, <1>4 DEF Next

LEMMA ControlInvariant == Spec => []ControlInv
<1> QED
  BY ControlInitInv, ControlStepInv, PTL DEF Spec

\* Types: no setting is ever below closed, whatever the ramps, forcings and calls.
THEOREM ControlTypeCorrect == Spec => []ControlTypeOK
<1>1. ControlInv => ControlTypeOK
  BY DEF ControlInv
<1> QED
  BY <1>1, ControlInvariant, PTL

\* TIMEOPEN and TIMECLOSED never exceed the time a link has been in its state
\* since it first opened or closed in the run.
THEOREM AgeCorrect == Spec => []AgeSinceCrossing
<1>1. ControlInv => AgeSinceCrossing
  BY DEF ControlInv
<1> QED
  BY <1>1, ControlInvariant, PTL
-----------------------------------------------------------------------------
(* The two stores                                                            *)

\* From initialize() to the end of the run a rule the client can read back acts:
\* a rule that comes too late for initialize() is compiled by the call itself.
THEOREM StoredCorrect == Spec => []StoredRulesAct
<1> DEFINE Act(n) == texts = SubSeq(rules, n + 1, Len(rules))
<1>1. Init => StoredRulesAct
  BY DEF Init, StoredRulesAct
<1>2. ASSUME ControlTypeOK, texts' = <<>>
      PROVE  \E n \in 0 .. Len(rules) : texts' = SubSeq(rules, n + 1, Len(rules))
  <2>1. Len(rules) \in Nat
    BY <1>2 DEF ControlTypeOK
  <2>2. SubSeq(rules, Len(rules) + 1, Len(rules)) = <<>>
    BY <1>2, <2>1, SubSeqEmpty DEF ControlTypeOK
  <2> QED
    BY <1>2, <2>1, <2>2
<1>3. ASSUME ControlTypeOK, StoredRulesAct, Next PROVE StoredRulesAct'
  <2> SUFFICES ASSUME state' \in {"INITIALIZED", "RUNNING"}
               PROVE  \E n \in 0 .. Len(rules') : texts' = SubSeq(rules', n + 1, Len(rules'))
    BY DEF StoredRulesAct
  <2>1. CASE UNCHANGED store /\ state \in {"INITIALIZED", "RUNNING"}
    BY <1>3, <2>1 DEF StoredRulesAct, store
  <2>2. CASE Initialize
    <3>1. CASE texts = <<>>
      BY <1>2, <1>3, <2>2, <3>1 DEF Initialize, Prepare
    <3>2. CASE texts # <<>>
      <4>1. texts \in Seq(Rule) /\ Len(texts) \in Nat
        BY <1>3 DEF ControlTypeOK
      <4>2. texts = SubSeq(texts, 0 + 1, Len(texts))
        BY <4>1, SubSeqFull
      <4>3. rules' = texts /\ texts' = texts
        BY <2>2, <3>2 DEF Initialize, Prepare
      <4> QED
        BY <4>1, <4>2, <4>3
    <3> QED
      BY <3>1, <3>2
  <2>3. ASSUME NEW r \in Texts, AddRule(r)
        PROVE  \E n \in 0 .. Len(rules') : texts' = SubSeq(rules', n + 1, Len(rules'))
    <3>1. state \in {"INITIALIZED", "RUNNING"}
      BY <2>3 DEF AddRule
    <3>2. PICK n \in 0 .. Len(rules) : texts = SubSeq(rules, n + 1, Len(rules))
      BY <1>3, <3>1 DEF StoredRulesAct
    <3>3. CASE ~r.parses
      BY <2>3, <3>1, <3>2, <3>3 DEF AddRule
    <3>4. CASE r.parses
      <4>1. /\ texts' = Append(texts, r) /\ rules' = Append(rules, r)
            /\ rules \in Seq(Rule) /\ r \in Rule
        BY <1>3, <2>3, <3>1, <3>4, ControlAssumption DEF AddRule, ControlTypeOK
      <4> DEFINE m == Len(rules)
                 q == SubSeq(rules', n + 1, m + 1)
      <4>2. m \in Nat /\ n \in Nat /\ n <= m
        BY <3>2, <4>1
      <4>3. /\ rules' \in Seq(Rule) /\ Len(rules') = m + 1
            /\ \A i \in 1 .. m : rules'[i] = rules[i]
            /\ rules'[m + 1] = r
        BY <4>1, AppendProperties
      <4>4. \A i \in n + 1 .. m : rules[i] \in Rule
        BY <4>1, <4>2
      <4>5. \A i \in n + 1 .. m + 1 : rules'[i] \in Rule
        BY <4>2, <4>3
      <4> HIDE DEF m, q
      <4>6. /\ texts \in Seq(Rule) /\ Len(texts) = m - n
            /\ \A i \in 1 .. m - n : texts[i] = rules[n + i]
        BY <3>2, <4>2, <4>4, SubSeqProperties DEF m
      <4>7. /\ q \in Seq(Rule) /\ Len(q) = m - n + 1
            /\ \A i \in 1 .. m - n + 1 : q[i] = rules'[n + i]
        BY <4>2, <4>5, SubSeqProperties DEF q
      <4>8. /\ texts' \in Seq(Rule) /\ Len(texts') = m - n + 1
            /\ \A i \in 1 .. m - n : texts'[i] = texts[i]
            /\ texts'[m - n + 1] = r
        <5> DEFINE k == Len(texts)
        <5>1. /\ Append(texts, r) \in Seq(Rule) /\ Len(Append(texts, r)) = k + 1
              /\ \A i \in 1 .. k : Append(texts, r)[i] = texts[i]
              /\ Append(texts, r)[k + 1] = r
          BY <4>1, <4>6, AppendProperties
        <5>2. k = m - n
          BY <4>6
        <5> HIDE DEF k
        <5> QED
          BY <4>1, <5>1, <5>2
      <4>9. ASSUME NEW i \in 1 .. m - n + 1 PROVE texts'[i] = q[i]
        <5>1. CASE i \in 1 .. m - n
          <6>1. n + i \in 1 .. m
            BY <4>2, <5>1
          <6>2. rules'[n + i] = rules[n + i]
            BY <4>3, <6>1
          <6> QED
            BY <4>2, <4>6, <4>7, <4>8, <5>1, <6>2
        <5>2. CASE i = m - n + 1
          BY <4>2, <4>3, <4>7, <4>8, <5>2
        <5> QED
          BY <4>2, <5>1, <5>2
      <4>10. texts' = q
        BY <4>2, <4>7, <4>8, <4>9, SeqEqual
      <4> QED
        BY <4>2, <4>3, <4>10 DEF q
    <3> QED
      BY <3>3, <3>4
  <2>4. CASE ClearRules
    BY <1>2, <1>3, <2>4 DEF ClearRules
  <2>5. CASE LifeCycle
    <3>1. Initialize \/ Start
      BY <2>5 DEF LifeCycle, Open, InitializeFails, End, Close
    <3> QED
      BY <2>1, <2>2, <3>1 DEF Start
  <2>6. CASE \E dt \in opt.steps, depth \in Depths, calm \in BOOLEAN : Step(dt, depth, calm)
    BY <2>1, <2>6 DEF Step, StepBetweenEvents, StepWithoutRules, StepWithRules, Around
  <2>7. CASE Calls
    <3>1. CASE \E r \in Texts : AddRule(r)
      BY <2>3, <3>1
    <3>2. ~(\E i \in DOMAIN texts : RemoveRule(i))
      BY DEF RemoveRule
    <3>3. CASE \E l \in Links : \/ \E f \in Forcings : SetForcing(l, f)
                                \/ \E v \in 0 .. Full : SetControlSetting(l, v) \/ SetTargetSetting(l, v)
      BY <2>1, <3>3 DEF SetForcing, SetControlSetting, SetTargetSetting
    <3> QED
      BY <2>4, <2>7, <3>1, <3>2, <3>3 DEF Calls
  <2> QED
    BY <1>3, <2>5, <2>6, <2>7 DEF Next
<1>4. ASSUME StoredRulesAct, UNCHANGED vars PROVE StoredRulesAct'
  BY <1>4 DEF vars, store, StoredRulesAct
<1> QED
  BY <1>1, <1>3, <1>4, ControlTypeCorrect, PTL DEF Spec

-----------------------------------------------------------------------------
(* A run: its dates, its events, its rule timer                              *)

\* Before its first step a run is at its start; every step is later than the
\* one before, and the rules were last evaluated in one of them.
Dates ==
  /\ StartDate <= current_date
  /\ state # "RUNNING" => before = Never /\ evaluated = Never /\ hits = {}
  /\ (state \in {"INITIALIZED", "RUNNING"} /\ before = Never) => current_date = StartDate
  /\ before # Never => StartDate <= before /\ before < current_date
  /\ evaluated # Never => before # Never /\ evaluated <= before

\* The events are in order and, once initialized, do not overlap.
EventsInOrder ==
  \A i, j \in DOMAIN opt.events : i < j => opt.events[i].start <= opt.events[j].start
EventsApart ==
  state \in {"INITIALIZED", "RUNNING"} =>
    \A i, j \in DOMAIN opt.events : i < j => opt.events[i].end <= opt.events[j].start

\* The events before the next one were over at the last step, the next was not.
EventsPassed ==
  (state \in {"INITIALIZED", "RUNNING"} /\ opt.events # <<>>) =>
    /\ before = Never => next_event = 1
    /\ before # Never => \A i \in DOMAIN opt.events :
         /\ i < next_event => opt.events[i].end < before
         /\ i = next_event => before <= opt.events[i].end

\* The timer is a rule step past the last evaluation, and no step without an
\* evaluation reached it by half its length.
RuleTimer ==
  evaluated # Never =>
    /\ opt.rule_step # 0 => next_rule_eval = evaluated + opt.rule_step
    /\ (opt.events = <<>> /\ before > evaluated) =>
         before + current_date < 2 * (evaluated + opt.rule_step)

RunInv == Dates /\ EventsInOrder /\ EventsApart /\ EventsPassed /\ RuleTimer

\* Lining up the events keeps their starts and moves each end up to the start of
\* the next.
LEMMA DisjointApart ==
    ASSUME NEW events \in Seq(Event),
           \A i, j \in DOMAIN events : i < j => events[i].start <= events[j].start
    PROVE  /\ DOMAIN Disjoint(events) = DOMAIN events
           /\ \A i, j \in DOMAIN events : i < j =>
                /\ Disjoint(events)[i].start <= Disjoint(events)[j].start
                /\ Disjoint(events)[i].end <= Disjoint(events)[j].start
<1>1. /\ DOMAIN events = 1 .. Len(events) /\ Len(events) \in Nat
      /\ DOMAIN Disjoint(events) = DOMAIN events
  BY DEF Disjoint
<1>2. ASSUME NEW i \in DOMAIN events
      PROVE  /\ events[i].start \in Nat /\ events[i].end \in Nat
             /\ Disjoint(events)[i].start = events[i].start
             /\ Disjoint(events)[i].end \in Nat
             /\ i < Len(events) => Disjoint(events)[i].end <= events[i + 1].start
  <2>1. events[i] \in Event /\ (i < Len(events) => events[i + 1] \in Event)
    BY <1>1, <1>2
  <2>2. Disjoint(events)[i] = IF i < Len(events) /\ events[i].end > events[i + 1].start
                              THEN [events[i] EXCEPT !.end = events[i + 1].start] ELSE events[i]
    BY DEF Disjoint
  <2> QED
    BY <2>1, <2>2 DEF Event
<1>3. ASSUME NEW i \in DOMAIN events, NEW j \in DOMAIN events, i < j
      PROVE  /\ Disjoint(events)[i].start <= Disjoint(events)[j].start
             /\ Disjoint(events)[i].end <= Disjoint(events)[j].start
  <2>1. i \in Nat /\ j \in Nat /\ i < Len(events) /\ i + 1 \in DOMAIN events
    BY <1>1, <1>3
  <2>2. events[i + 1].start <= events[j].start
    <3>1. CASE i + 1 = j
      BY <1>2, <3>1
    <3>2. CASE i + 1 < j
      BY <2>1, <3>2
    <3> QED
      BY <1>3, <2>1, <3>1, <3>2
  <2> QED
    BY <1>2, <1>3, <2>1, <2>2
<1> QED
  BY <1>1, <1>3

\* A step goes forward.
LEMMA TakenPositive ==
    ASSUME ControlTypeOK, NEW step \in opt.steps, Elapsed < opt.total
    PROVE  /\ Taken(step) \in Nat \ {0}
           /\ Taken(step) = IF Elapsed + step > opt.total THEN opt.total - Elapsed ELSE step
<1>1. step \in Nat \ {0} /\ opt.total \in Nat /\ current_date \in Nat /\ StartDate \in Nat
  BY ControlAssumption DEF ControlTypeOK, Model
<1>2. Elapsed \in Int
  BY <1>1 DEF Elapsed
<1> QED
  BY <1>1, <1>2 DEF Taken

\* One step keeps the invariant and the two promises of a step.
LEMMA StepRun ==
    ASSUME ControlTypeOK, RunInv,
           NEW step \in opt.steps, NEW depth \in Depths, NEW calm \in BOOLEAN,
           Step(step, depth, calm)
    PROVE  /\ RunInv'
           /\ ~opt.skip_steady =>
                \A k \in DOMAIN opt.events :
                  (before > opt.events[k].start /\ current_date <= opt.events[k].end) => routed'
           /\ (evaluated # Never /\ evaluated' # evaluated) =>
                LET gap == evaluated' - evaluated
                    dt == current_date' - current_date
                IN  /\ 2 * gap >= 2 * opt.rule_step - dt
                    /\ (opt.events = <<>> /\ before > evaluated) =>
                         2 * gap < 2 * opt.rule_step + (current_date - before)
<1> DEFINE dt == Taken(step)
           steps == \/ StepBetweenEvents(dt)
                    \/ StepWithoutRules(dt, depth, calm)
                    \/ StepWithRules(dt, depth, calm)
<1>1. /\ Dates /\ EventsInOrder /\ EventsApart /\ EventsPassed /\ RuleTimer
      /\ state = "RUNNING" /\ Elapsed < opt.total
      /\ steps
  BY DEF RunInv, Step
<1>2. dt \in Nat \ {0}
  BY <1>1, TakenPositive
<1>3. Around(dt)
  BY <1>1 DEF StepBetweenEvents, StepWithoutRules, StepWithRules
<1>4. /\ state' = "RUNNING" /\ opt' = opt /\ before' = current_date
      /\ current_date' = current_date + dt
  BY <1>1, <1>3 DEF Around
<1>5. /\ StartDate \in Nat /\ current_date \in Nat /\ opt.rule_step \in Nat
      /\ opt.events \in Seq(Event) /\ opt.skip_steady \in BOOLEAN
      /\ before \in Nat \cup {Never} /\ evaluated \in Nat \cup {Never}
      /\ next_rule_eval \in Nat \cup {Never} /\ next_event \in Nat \ {0}
  BY ControlAssumption DEF ControlTypeOK, Model
<1>6. \A k \in DOMAIN opt.events : /\ opt.events[k].start \in Nat /\ opt.events[k].end \in Nat
                                   /\ k \in 1 .. Len(opt.events)
  <2>1. ASSUME NEW k \in DOMAIN opt.events
        PROVE  opt.events[k] \in Event /\ k \in 1 .. Len(opt.events)
    BY <1>5
  <2> QED
    BY <2>1 DEF Event
<1>7. Never \notin Nat /\ current_date # Never
  BY <1>5 DEF Never
<1> HIDE DEF dt
<1>8. (evaluated' = evaluated /\ next_rule_eval' \in {next_rule_eval, RuleTime}) \/ StepWithRules(dt, depth, calm)
  BY <1>1 DEF StepBetweenEvents, StepWithoutRules
<1>9. Dates'
  <2>1. evaluated' \in {evaluated, current_date}
    BY <1>1 DEF StepBetweenEvents, StepWithoutRules, StepWithRules
  <2> QED
    BY <1>1, <1>2, <1>4, <1>5, <1>7, <2>1 DEF Dates
<1>10. EventsInOrder' /\ EventsApart'
  BY <1>1, <1>4 DEF EventsInOrder, EventsApart
\* In events that do not overlap the one that goes on is the next one.
<1>11. ASSUME NEW k \in DOMAIN opt.events, before > opt.events[k].start,
              current_date <= opt.events[k].end
       PROVE  ~BetweenEvents
  <2>1. before # Never /\ before \in Nat /\ before < current_date
    BY <1>1, <1>5, <1>6, <1>11 DEF Dates, Never
  <2>2. ~(k < next_event)
    BY <1>1, <1>5, <1>6, <1>11, <2>1 DEF EventsPassed
  <2>3. ~(next_event < k)
    <3>1. SUFFICES ASSUME next_event < k PROVE FALSE
      OBVIOUS
    <3>2. next_event \in DOMAIN opt.events
      BY <1>5, <1>6, <3>1
    <3>3. before <= opt.events[next_event].end
      BY <1>1, <2>1, <3>2 DEF EventsPassed
    <3>4. opt.events[next_event].end <= opt.events[k].start
      BY <1>1, <3>1, <3>2 DEF EventsApart
    <3> QED
      BY <1>6, <1>11, <2>1, <3>2, <3>3, <3>4
  <2>4. k = next_event
    BY <1>5, <1>6, <2>2, <2>3
  <2> QED
    BY <1>5, <1>6, <1>11, <2>1, <2>4 DEF BetweenEvents
<1>12. ~opt.skip_steady =>
         \A k \in DOMAIN opt.events :
           (before > opt.events[k].start /\ current_date <= opt.events[k].end) => routed'
  BY <1>1, <1>11 DEF StepBetweenEvents, StepWithoutRules, StepWithRules
<1>13. EventsPassed'
  <2> SUFFICES ASSUME opt.events # <<>>, NEW i \in DOMAIN opt.events
               PROVE  /\ i < next_event' => opt.events[i].end < current_date
                      /\ i = next_event' => current_date <= opt.events[i].end
    BY <1>4, <1>5, <1>7 DEF EventsPassed
  <2>1. i < next_event => opt.events[i].end < current_date
    <3>1. CASE before = Never
      BY <1>1, <1>6, <3>1 DEF EventsPassed
    <3>2. CASE before # Never
      BY <1>1, <1>5, <1>6, <3>2 DEF EventsPassed, Dates
    <3> QED
      BY <3>1, <3>2
  <2>2. CASE StepBetweenEvents(dt)
    <3>1. /\ next_event' \in next_event .. Len(opt.events) + 1
          /\ \A n \in next_event .. next_event' - 1 : current_date > opt.events[n].end
          /\ next_event' <= Len(opt.events) => current_date <= opt.events[next_event'].end
      BY <2>2 DEF StepBetweenEvents
    <3>2. /\ i \in Nat /\ next_event' \in Nat /\ next_event <= next_event'
          /\ opt.events[i].end \in Nat
      BY <1>5, <1>6, <3>1
    <3>3. ASSUME i < next_event' PROVE opt.events[i].end < current_date
      <4>1. CASE i < next_event
        BY <2>1, <4>1
      <4>2. CASE next_event <= i
        <5>1. i \in next_event .. next_event' - 1
          BY <1>5, <3>2, <3>3, <4>2
        <5> QED
          BY <1>5, <3>1, <3>2, <5>1
      <4> QED
        BY <1>5, <3>2, <4>1, <4>2
    <3>4. ASSUME i = next_event' PROVE current_date <= opt.events[i].end
      BY <1>6, <3>1, <3>4
    <3> QED
      BY <3>3, <3>4
  <2>3. CASE ~BetweenEvents /\ next_event' = next_event
    BY <1>5, <1>6, <2>1, <2>3 DEF BetweenEvents
  <2> QED
    BY <1>1, <2>2, <2>3 DEF StepWithoutRules, StepWithRules
<1>14. ASSUME evaluated # Never, opt.rule_step # 0
       PROVE  RuleTime = evaluated + opt.rule_step
  BY <1>1, <1>5, <1>14 DEF RuleTime, RuleTimer, Never
<1>15. CASE StepWithRules(dt, depth, calm)
  <2>1. /\ Due(dt) /\ evaluated' = current_date
        /\ opt.rule_step # 0 => next_rule_eval' = current_date + opt.rule_step
    BY <1>15 DEF StepWithRules
  <2>2. RuleTimer'
    BY <1>4, <1>5, <2>1 DEF RuleTimer
  <2>3. ASSUME evaluated # Never
        PROVE  /\ 2 * (current_date - evaluated) >= 2 * opt.rule_step - dt
               /\ (opt.events = <<>> /\ before > evaluated) =>
                    2 * (current_date - evaluated) < 2 * opt.rule_step + (current_date - before)
    <3>1. /\ evaluated \in Nat /\ before \in Nat
          /\ evaluated <= before /\ before < current_date
      BY <1>1, <1>5, <2>3 DEF Dates
    <3>2. opt.rule_step # 0 => 2 * current_date + dt >= 2 * (evaluated + opt.rule_step)
      BY <1>14, <2>1, <2>3 DEF Due
    <3>3. 2 * (current_date - evaluated) >= 2 * opt.rule_step - dt
      BY <1>2, <1>5, <3>1, <3>2
    <3>4. (opt.events = <<>> /\ before > evaluated) =>
            before + current_date < 2 * (evaluated + opt.rule_step)
      BY <1>1, <2>3 DEF RuleTimer
    <3>5. ASSUME before + current_date < 2 * (evaluated + opt.rule_step)
          PROVE  2 * (current_date - evaluated) < 2 * opt.rule_step + (current_date - before)
      BY <1>5, <3>1, <3>5
    <3> QED
      BY <3>3, <3>4, <3>5
  <2> QED
    BY <1>2, <1>4, <1>5, <1>9, <1>10, <1>12, <1>13, <2>1, <2>2, <2>3 DEF RunInv
<1>16. CASE ~StepWithRules(dt, depth, calm)
  <2>1. evaluated' = evaluated
    BY <1>8, <1>16
  <2>2. ASSUME evaluated # Never, opt.rule_step # 0
        PROVE  next_rule_eval' = evaluated + opt.rule_step
    BY <1>1, <1>8, <1>14, <1>16, <2>2 DEF RuleTimer
  <2>3. ASSUME evaluated # Never, opt.events = <<>>
        PROVE  current_date + (current_date + dt) < 2 * (evaluated + opt.rule_step)
    <3>1. ~BetweenEvents
      BY <2>3 DEF BetweenEvents
    <3>2. ~Due(dt)
      BY <1>1, <1>16, <3>1 DEF StepBetweenEvents, StepWithoutRules
    <3>3. opt.rule_step # 0 /\ ~(2 * current_date + dt >= 2 * RuleTime)
      BY <3>2 DEF Due
    <3>4. RuleTime = evaluated + opt.rule_step
      BY <1>14, <2>3, <3>3
    <3>5. evaluated \in Nat
      BY <1>5, <2>3
    <3> QED
      BY <1>2, <1>5, <3>3, <3>4, <3>5
  <2>4. RuleTimer'
    BY <1>4, <2>1, <2>2, <2>3 DEF RuleTimer
  <2> QED
    BY <1>9, <1>10, <1>12, <1>13, <2>1, <2>4 DEF RunInv
<1> QED
  BY <1>15, <1>16

\* Everything else leaves the clock where it is or takes it back to the start.
LEMMA OtherRun ==
    ASSUME ControlTypeOK, RunInv, LifeCycle \/ Calls \/ UNCHANGED vars
    PROVE  /\ RunInv'
           /\ ~(current_date' > current_date)
           /\ evaluated' \in {evaluated, Never}
<1>1. /\ Dates /\ EventsInOrder /\ EventsApart /\ EventsPassed /\ RuleTimer
      /\ StartDate \in Nat /\ current_date \in Nat /\ Never \notin Nat
  BY ControlAssumption DEF RunInv, ControlTypeOK, Never
<1>2. CASE \E m \in Models : Open(m)
  <2>1. PICK m \in Models : Open(m)
    BY <1>2
  <2>2. /\ state \in {"CREATED", "CLOSED"} /\ state' = "OPENED" /\ opt' = m
        /\ current_date' = StartDate
        /\ UNCHANGED <<before, evaluated, hits>>
    BY <2>1 DEF Open, history
  <2>3. EventsInOrder'
    BY <2>2, ControlAssumption DEF EventsInOrder
  <2>4. (Dates /\ EventsApart /\ EventsPassed /\ RuleTimer)'
    BY <1>1, <2>2 DEF Dates, EventsApart, EventsPassed, RuleTimer
  <2> QED
    BY <1>1, <2>2, <2>3, <2>4 DEF RunInv, Dates
<1>3. ASSUME Prepare, state' \in {"INITIALIZED", "ERROR_STATE"}
      PROVE  RunInv' /\ ~(current_date' > current_date) /\ evaluated' \in {evaluated, Never}
  <2>1. /\ current_date' = StartDate /\ before' = Never /\ evaluated' = Never /\ hits' = {}
        /\ next_event' = IF opt.events = <<>> THEN next_event ELSE 1
    BY <1>3 DEF Prepare, Forgotten
  <2>2. opt \in Model /\ opt.events \in Seq(Event)
    BY DEF ControlTypeOK, Model
  <2>3. opt'.events = Disjoint(opt.events)
    BY <1>3, <2>2 DEF Prepare, Model
  <2>4. /\ DOMAIN opt'.events = DOMAIN opt.events
        /\ \A i, j \in DOMAIN opt'.events : i < j =>
             /\ opt'.events[i].start <= opt'.events[j].start
             /\ opt'.events[i].end <= opt'.events[j].start
    BY <1>1, <2>2, <2>3, DisjointApart DEF EventsInOrder
  <2>5. opt.events = <<>> => opt'.events = <<>>
    BY <2>3 DEF Disjoint
  <2>6. (EventsInOrder /\ EventsApart)'
    BY <2>4 DEF EventsInOrder, EventsApart
  <2>7. (Dates /\ EventsPassed /\ RuleTimer)'
    BY <1>1, <1>3, <2>1, <2>5 DEF Dates, EventsPassed, RuleTimer
  <2> QED
    BY <1>1, <2>1, <2>6, <2>7 DEF RunInv, Dates
<1>4. CASE Initialize \/ \E n \in DOMAIN texts : InitializeFails(n)
  BY <1>3, <1>4 DEF Initialize, InitializeFails
<1>5. ASSUME UNCHANGED <<opt, clock, history>>,
             state' = state \/ (state = "INITIALIZED" /\ state' = "RUNNING")
      PROVE  RunInv' /\ ~(current_date' > current_date) /\ evaluated' \in {evaluated, Never}
  <2>1. UNCHANGED <<opt, current_date, next_event, next_rule_eval, before, evaluated, hits>>
    BY <1>5 DEF clock, history
  <2>2. (Dates /\ EventsInOrder /\ EventsApart /\ EventsPassed /\ RuleTimer)'
    BY <1>1, <1>5, <2>1
    DEF Dates, EventsInOrder, EventsApart, EventsPassed, RuleTimer
  <2> QED
    BY <1>1, <2>1, <2>2 DEF RunInv
<1>6. CASE End \/ Close
  <2>1. /\ state' \in {"ENDED", "CLOSED"} /\ before' = Never /\ evaluated' = Never /\ hits' = {}
        /\ UNCHANGED <<opt, current_date>>
    BY <1>6 DEF End, Close, Forgotten, clock
  <2>2. (Dates /\ EventsInOrder /\ EventsApart /\ EventsPassed /\ RuleTimer)'
    BY <1>1, <2>1 DEF Dates, EventsInOrder, EventsApart, EventsPassed, RuleTimer
  <2> QED
    BY <1>1, <2>1, <2>2 DEF RunInv
\* What a client writes into the settings is noted, nothing else of the history.
<1>7. ASSUME UNCHANGED <<state, opt, clock, before, evaluated, hits>>
      PROVE  RunInv' /\ ~(current_date' > current_date) /\ evaluated' \in {evaluated, Never}
  <2>1. UNCHANGED <<opt, current_date, next_event, next_rule_eval, before, evaluated, hits>>
    BY <1>7 DEF clock
  <2>2. (Dates /\ EventsInOrder /\ EventsApart /\ EventsPassed /\ RuleTimer)'
    BY <1>1, <1>7, <2>1
    DEF Dates, EventsInOrder, EventsApart, EventsPassed, RuleTimer
  <2> QED
    BY <1>1, <2>1, <2>2 DEF RunInv
<1>8. CASE Start
  BY <1>5, <1>8 DEF Start
<1>9. CASE Calls
  BY <1>7, <1>9
  DEF Calls, AddRule, ClearRules, RemoveRule, SetForcing, SetControlSetting,
      SetTargetSetting, history
<1>10. CASE UNCHANGED vars
  BY <1>7, <1>10 DEF vars, history
<1> QED
  BY <1>2, <1>4, <1>6, <1>8, <1>9, <1>10 DEF LifeCycle

LEMMA RunInit == Init => RunInv
<1> SUFFICES ASSUME Init PROVE RunInv
  OBVIOUS
<1>1. /\ state = "CREATED" /\ current_date = StartDate /\ before = Never
      /\ evaluated = Never /\ hits = {} /\ opt.events = <<>> /\ StartDate \in Nat
  BY ControlAssumption DEF Init, NoModel
<1> QED
  BY <1>1 DEF RunInv, Dates, EventsInOrder, EventsApart, EventsPassed, RuleTimer

LEMMA RunStep == ControlTypeOK /\ RunInv /\ [Next]_vars => RunInv'
<1> SUFFICES ASSUME ControlTypeOK, RunInv, [Next]_vars PROVE RunInv'
  OBVIOUS
<1>1. CASE \E dt \in opt.steps, depth \in Depths, calm \in BOOLEAN : Step(dt, depth, calm)
  BY <1>1, StepRun
<1>2. CASE LifeCycle \/ Calls \/ UNCHANGED vars
  BY <1>2, OtherRun
<1> QED
  BY <1>1, <1>2 DEF Next

LEMMA RunInvariant == Spec => []RunInv
<1> QED
  BY RunInit, RunStep, ControlTypeCorrect, PTL DEF Spec

\* isBetweenEvents(): of an event at most the first step is lost, however the
\* events of the model overlap.
THEOREM EventsCorrect == Spec => EventLosesAtMostOneStep
<1>1. ASSUME ControlTypeOK, RunInv, Next, current_date' > current_date, ~opt.skip_steady,
             NEW k \in DOMAIN opt.events,
             before > opt.events[k].start, current_date <= opt.events[k].end
      PROVE  routed'
  <2>1. PICK dt \in opt.steps, depth \in Depths, calm \in BOOLEAN : Step(dt, depth, calm)
    BY <1>1, OtherRun DEF Next
  <2> QED
    BY <1>1, <2>1, StepRun
<1>2. ControlTypeOK /\ RunInv /\ [Next]_vars =>
        [(current_date' > current_date /\ ~opt.skip_steady) =>
           \A k \in DOMAIN opt.events :
             (before > opt.events[k].start /\ current_date <= opt.events[k].end) => routed']_vars
  BY <1>1
<1> QED
  BY <1>2, RunInvariant, ControlTypeCorrect, PTL DEF Spec, EventLosesAtMostOneStep

\* evaluate(): evaluations in a run are a rule step apart, to half a step.
THEOREM RuleStepCorrect == Spec => RuleStepKept
<1> DEFINE Apart == LET gap == evaluated' - evaluated
                        dt == current_date' - current_date
                    IN  /\ 2 * gap >= 2 * opt.rule_step - dt
                        /\ (opt.events = <<>> /\ before > evaluated) =>
                             2 * gap < 2 * opt.rule_step + (current_date - before)
<1>1. ASSUME ControlTypeOK, RunInv, Next, evaluated # Never, evaluated' \notin {evaluated, Never}
      PROVE  Apart
  <2>1. PICK dt \in opt.steps, depth \in Depths, calm \in BOOLEAN : Step(dt, depth, calm)
    BY <1>1, OtherRun DEF Next
  <2> QED
    BY <1>1, <2>1, StepRun
<1>2. ControlTypeOK /\ RunInv /\ [Next]_vars =>
        [(evaluated # Never /\ evaluated' \notin {evaluated, Never}) => Apart]_vars
  BY <1>1
<1> QED
  BY <1>2, RunInvariant, ControlTypeCorrect, PTL DEF Spec, RuleStepKept

-----------------------------------------------------------------------------
(* Premises on a simulation time                                             *)

Steady(step) ==
  /\ state = "RUNNING" /\ opt.rule_step = 0 /\ opt.events = <<>>
  /\ opt.steps = {step} /\ calls = 0
IsTimed(r) == rules[r].premises # <<>> /\ rules[r].premises[1].var = "SIM_TIME"
TimeOf(r) == rules[r].premises[1].value
Fired(r) == {h \in hits : h[1] = r}

\* A hit is within half a step of its time and there is no other; the next step
\* is a step later, and the time is not passed without a hit.
OneHit(r, step) ==
  /\ \A h \in Fired(r) :
       /\ h = <<r, h[2]>> /\ h[2] \in Nat
       /\ 2 * (h[2] - StartDate) >= 2 * TimeOf(r) - step
       /\ h[2] + step <= current_date \/ Elapsed >= opt.total
  /\ \A h, k \in Fired(r) : h = k
  /\ (2 * TimeOf(r) + 3 * step <= 2 * opt.total /\ 2 * Elapsed >= 2 * TimeOf(r) + step)
       => Fired(r) # {}

TimesHit ==
  \A step \in opt.steps : Steady(step) =>
    \A r \in DOMAIN rules : IsTimed(r) => OneHit(r, step)

LEMMA TimeType ==
    ASSUME ControlTypeOK, NEW r \in DOMAIN rules, IsTimed(r)
    PROVE  TimeOf(r) \in Nat
<1>1. rules[r] \in Rule
  BY LenProperties, ElementOfSeq DEF ControlTypeOK
<1>2. rules[r].premises \in Seq(Premise) /\ rules[r].premises # <<>>
  BY <1>1 DEF Rule, IsTimed
<1>3. rules[r].premises[1] \in Premise
  BY <1>2
<1> QED
  BY <1>3 DEF TimeOf, Premise

LEMMA StepTimes ==
    ASSUME ControlTypeOK, TimesHit,
           NEW step \in opt.steps, NEW depth \in Depths, NEW calm \in BOOLEAN,
           Step(step, depth, calm)
    PROVE  TimesHit'
<1> DEFINE dt == Taken(step)
<1>1. /\ state = "RUNNING" /\ Elapsed < opt.total
      /\ \/ StepBetweenEvents(dt)
         \/ StepWithoutRules(dt, depth, calm)
         \/ StepWithRules(dt, depth, calm)
  BY DEF Step
<1>2. /\ dt \in Nat \ {0}
      /\ dt = IF Elapsed + step > opt.total THEN opt.total - Elapsed ELSE step
  BY <1>1, TakenPositive
<1> HIDE DEF dt
<1>3. Around(dt)
  BY <1>1 DEF StepBetweenEvents, StepWithoutRules, StepWithRules
<1>4. /\ state' = state /\ opt' = opt /\ rules' = rules /\ calls' = calls
      /\ current_date' = current_date + dt
  BY <1>3 DEF Around, store
<1> SUFFICES ASSUME Steady(step), NEW r \in DOMAIN rules, IsTimed(r)
             PROVE  OneHit(r, step)'
  <2>1. \A other \in opt.steps : Steady(other)' => other = step /\ Steady(step)
    BY <1>4 DEF Steady
  <2>2. \A q \in DOMAIN rules : IsTimed(q)' <=> IsTimed(q)
    BY <1>4 DEF IsTimed
  <2> QED
    BY <1>4, <2>1, <2>2 DEF TimesHit
<1> DEFINE v == TimeOf(r)
           p == rules[r].premises[1]
           E == Elapsed
<1>5. /\ p.var = "SIM_TIME" /\ p.value = v /\ v \in Nat
  BY TimeType DEF IsTimed, TimeOf
<1>6. /\ step \in Nat \ {0} /\ StartDate \in Nat /\ current_date \in Nat
      /\ E \in Int /\ E = current_date - StartDate /\ opt.total \in Nat
  BY ControlAssumption DEF ControlTypeOK, Model, Elapsed
<1>7. StepWithRules(dt, depth, calm)
  BY <1>1 DEF Steady, StepBetweenEvents, StepWithoutRules, BetweenEvents, Due
<1>8. TimeOf(r)' = v /\ Elapsed' = E + dt
  BY <1>4, <1>6, <1>2 DEF TimeOf, Elapsed
<1> DEFINE holds == 2 * E >= 2 * v - dt /\ 2 * E < 2 * v + dt
<1>9. Fired(r)' = Fired(r) \cup (IF holds THEN {<<r, current_date>>} ELSE {})
  <2>1. hits' = hits \cup
           {<<q, current_date>> : q \in {q \in DOMAIN rules :
                /\ rules[q].premises # <<>>
                /\ Holds(rules[q].premises[1], Forced, dt, depth)}}
    BY <1>7 DEF StepWithRules
  <2>2. Holds(p, Forced, dt, depth) <=> holds
    BY <1>5 DEF Holds
  <2> HIDE DEF holds, E, v
  <2> QED
    BY <2>1, <2>2 DEF Fired, IsTimed
<1>10. OneHit(r, step)
  BY DEF TimesHit
<1> HIDE DEF v, p, E
\* The step of a hit before this one was a step earlier, so this one is none.
<1>11. ASSUME NEW h \in Fired(r) PROVE ~holds
  <2>1. /\ h[2] \in Nat /\ 2 * (h[2] - StartDate) >= 2 * v - step
        /\ h[2] + step <= current_date
    BY <1>1, <1>6, <1>10, <1>11 DEF OneHit, v, E
  <2>2. 2 * E >= 2 * v + step
    BY <1>5, <1>6, <2>1
  <2>3. dt <= step
    BY <1>2, <1>6 DEF E
  <2> QED
    BY <1>2, <1>5, <1>6, <2>2, <2>3
<1>12. ASSUME NEW h \in Fired(r)'
       PROVE  /\ h = <<r, h[2]>> /\ h[2] \in Nat
              /\ 2 * (h[2] - StartDate) >= 2 * v - step
              /\ h[2] + step <= current_date' \/ E + dt >= opt.total
  <2>1. CASE h \in Fired(r)
    <3>1. /\ h = <<r, h[2]>> /\ h[2] \in Nat
          /\ 2 * (h[2] - StartDate) >= 2 * v - step
          /\ h[2] + step <= current_date
      BY <1>1, <1>6, <1>10, <2>1 DEF OneHit, v, E
    <3> QED
      BY <1>2, <1>4, <1>6, <3>1
  <2>2. CASE h = <<r, current_date>> /\ holds
    <3>1. dt <= step /\ (E + dt < opt.total => dt = step)
      BY <1>2, <1>6 DEF E
    <3>2. 2 * E >= 2 * v - step
      BY <1>2, <1>5, <1>6, <2>2, <3>1
    <3> QED
      BY <1>2, <1>4, <1>6, <2>2, <3>1, <3>2
  <2> QED
    BY <1>9, <1>12, <2>1, <2>2
<1>13. \A h, k \in Fired(r)' : h = k
  <2> HIDE DEF holds
  <2> QED
    BY <1>9, <1>10, <1>11 DEF OneHit
<1>14. ASSUME 2 * v + 3 * step <= 2 * opt.total, 2 * (E + dt) >= 2 * v + step
       PROVE  Fired(r)' # {}
  <2>1. CASE 2 * E >= 2 * v + step
    BY <1>9, <1>10, <1>14, <2>1 DEF OneHit, v, E
  <2>2. CASE 2 * E < 2 * v + step
    <3>1. E + step <= opt.total
      BY <1>5, <1>6, <1>14, <2>2
    <3>2. dt = step
      BY <1>2, <1>6, <3>1 DEF E
    <3>3. holds
      BY <1>5, <1>6, <1>14, <2>2, <3>2
    <3> QED
      BY <1>9, <3>3
  <2> QED
    BY <1>5, <1>6, <2>1, <2>2
<1> QED
  BY <1>4, <1>8, <1>12, <1>13, <1>14 DEF OneHit

\* No run starts with a hit, and a call of the client ends the promise.
LEMMA OtherTimes ==
    ASSUME ControlTypeOK, RunInv, TimesHit, LifeCycle \/ Calls \/ UNCHANGED vars
    PROVE  TimesHit'
<1>1. CASE LifeCycle
  <2> SUFFICES ASSUME NEW step \in opt'.steps, Steady(step)', NEW r \in DOMAIN rules'
               PROVE  IsTimed(r)' => OneHit(r, step)'
    BY DEF TimesHit
  <2>1. Start
    BY <1>1 DEF LifeCycle, Open, Initialize, InitializeFails, End, Close, Steady
  <2>2. /\ hits = {} /\ current_date = StartDate
        /\ UNCHANGED <<opt, rules, hits, current_date>>
    BY <2>1 DEF Start, RunInv, Dates, history, clock, store
  <2>3. /\ StartDate \in Nat /\ step \in Nat \ {0} /\ Elapsed' = 0
    BY <2>2, ControlAssumption DEF ControlTypeOK, Model, Elapsed
  <2>4. Fired(r)' = {}
    BY <2>2 DEF Fired
  <2>5. CASE IsTimed(r)'
    <3>1. TimeOf(r)' \in Nat
      BY <2>2, <2>5, TimeType DEF TimeOf, IsTimed
    <3> QED
      BY <2>3, <2>4, <3>1 DEF OneHit
  <2> QED
    BY <2>5
<1>2. CASE Calls
  <2>1. calls' # 0
    BY <1>2
    DEF Calls, AddRule, ClearRules, RemoveRule, SetForcing, SetControlSetting,
        SetTargetSetting, ControlTypeOK
  <2> QED
    BY <2>1 DEF TimesHit, Steady
<1>3. CASE UNCHANGED vars
  BY <1>3
  DEF vars, store, clock, history, TimesHit, Steady, IsTimed, TimeOf, Fired, OneHit, Elapsed
<1> QED
  BY <1>1, <1>2, <1>3

\* compareTimes(): with a fixed step and rules evaluated at every step, a premise
\* on a simulation time holds in one step of a run and in no second one.
THEOREM EqualTimeCorrect == Spec => []EqualTimeFiresOnce
<1>1. Init => TimesHit
  BY DEF Init, TimesHit, Steady
<1>2. ControlTypeOK /\ RunInv /\ TimesHit /\ [Next]_vars => TimesHit'
  <2> SUFFICES ASSUME ControlTypeOK, RunInv, TimesHit, [Next]_vars PROVE TimesHit'
    OBVIOUS
  <2>1. CASE \E dt \in opt.steps, depth \in Depths, calm \in BOOLEAN : Step(dt, depth, calm)
    BY <2>1, StepTimes
  <2>2. CASE LifeCycle \/ Calls \/ UNCHANGED vars
    BY <2>2, OtherTimes
  <2> QED
    BY <2>1, <2>2 DEF Next
<1>3. ControlTypeOK /\ TimesHit => EqualTimeFiresOnce
  <2> SUFFICES ASSUME ControlTypeOK, TimesHit, NEW step \in opt.steps, Steady(step),
                      NEW r \in DOMAIN rules, IsTimed(r)
               PROVE  /\ Cardinality(Fired(r)) <= 1
                      /\ (Elapsed >= opt.total /\ 2 * TimeOf(r) + 3 * step <= 2 * opt.total)
                           => Fired(r) # {}
    BY DEF EqualTimeFiresOnce, Steady, IsTimed, TimeOf, Fired
  <2>1. OneHit(r, step)
    BY DEF TimesHit
  <2>2. Cardinality(Fired(r)) <= 1
    <3>1. CASE Fired(r) = {}
      BY <3>1, FS_EmptySet
    <3>2. CASE Fired(r) # {}
      <4>1. PICK h : Fired(r) = {h}
        BY <2>1, <3>2 DEF OneHit
      <4>2. Cardinality({h}) = 1
        BY FS_Singleton
      <4> QED
        BY <4>1, <4>2
    <3> QED
      BY <3>1, <3>2
  <2>3. ASSUME Elapsed >= opt.total, 2 * TimeOf(r) + 3 * step <= 2 * opt.total
        PROVE  Fired(r) # {}
    <3>1. TimeOf(r) \in Nat
      BY TimeType
    <3>2. step \in Nat /\ opt.total \in Nat /\ Elapsed \in Int
      BY ControlAssumption DEF ControlTypeOK, Model, Elapsed
    <3>3. 2 * Elapsed >= 2 * TimeOf(r) + step
      BY <2>3, <3>1, <3>2
    <3> QED
      BY <2>1, <2>3, <3>3 DEF OneHit
  <2> QED
    BY <2>2, <2>3
<1> QED
  BY <1>1, <1>2, <1>3, RunInvariant, ControlTypeCorrect, PTL DEF Spec
=============================================================================
