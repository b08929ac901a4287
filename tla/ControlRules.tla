---------------------------- MODULE ControlRules ----------------------------
(***************************************************************************)
(* How the settings of pumps, orifices and weirs come about in a run:      *)
(* control rules, the depth switches of pumps, forcings and direct calls   *)
(* of the client all write the same two columns, setting and target, and   *)
(* stepRouting() moves the one towards the other.  The rules live twice,   *)
(* as text in the context and compiled in the control engine, and outlive  *)
(* the model they came with.                                               *)
(*                                                                         *)
(* Time is in ticks; dates are absolute, a run starts at StartDate.  A     *)
(* setting is a number of Full'ths.  Of the hydraulics there is the depth  *)
(* of one wet well, which may be anything at every step.                   *)
(***************************************************************************)
EXTENDS Integers, FiniteSets, SequencesExt

CONSTANTS
  Links,      \* the controlled links
  Pumps,      \* those that are pumps
  Ramp,       \* link -> Full'ths it moves in a tick, 0 if it moves at once
  Full,       \* setting of a fully open link
  Depths,     \* depths of the wet well
  OnDepth,    \* startup and shutoff depth of the pumps, 0 for none
  OffDepth,
  StartDate,
  Models,     \* the models there are to open
  Texts,      \* rules a client may add
  Forcings,   \* forcings a client may set
  MaxTexts,   \* bound on the stored rules
  MaxRuns,    \* bound on the runs on one handle
  MaxCalls    \* bound on the client's calls

\* A premise compares one variable: the depth is >= value, the simulation time
\* is = value, a link has been open or closed for > value.
Premise == [logic : {"IF", "AND", "OR"}, var : {"DEPTH", "SIM_TIME", "TIMEOPEN", "TIMECLOSED"},
            link : Links, value : Nat]
Action == [link : Links, value : 0 .. Full]
Rule == [premises : Seq(Premise), then_actions : Seq(Action), else_actions : Seq(Action),
         priority : Nat, parses : BOOLEAN]
Event == [start : Nat, end : Nat]
Model == [rules : Seq(Rule), off : SUBSET Links, rule_step : Nat, events : Seq(Event), skip_steady : BOOLEAN,
          steps : SUBSET (Nat \ {0}), total : Nat]
Forcing == [mode : {"NONE", "OVERRIDE", "ADD"}, value : 0 .. Full, persist : BOOLEAN]

ASSUME ControlAssumption ==
  /\ Pumps \subseteq Links
  /\ IsFiniteSet(Links)
  /\ Ramp \in [Links -> Nat] /\ \A l \in Pumps : Ramp[l] = 0
  /\ Full \in Nat \ {0}
  /\ Depths \subseteq Nat
  /\ OnDepth \in Nat /\ OffDepth \in Nat /\ StartDate \in Nat
  /\ Models \subseteq Model
  /\ \A m \in Models : \A i, j \in DOMAIN m.events :
        i < j => m.events[i].start <= m.events[j].start
  /\ Texts \subseteq Rule /\ Forcings \subseteq Forcing
  /\ MaxTexts \in Nat /\ MaxRuns \in Nat /\ MaxCalls \in Nat

VARIABLES
  state,          \* life-cycle state of the engine
  opt,            \* the model in hand
  texts,          \* ctx.control_rules: the stored rules
  rules,          \* rules_: the compiled rules
  next_rule_eval, \* next_rule_eval_time_, Never when not primed
  action_count,   \* last_action_count_
  next_event,     \* index of the routing event to come or going on
  current_date,
  setting, target, time_last_set,
  forcing,        \* link -> mode, value and persistence of its setting's forcing
  runs, calls,    \* bounds
  routed,         \* history: the last step reached the hydraulics
  before,         \* history: date of the step before, Never for the first
  evaluated,      \* history: date of the last evaluation in this run, Never for none
  crossed,        \* history: when each link last opened or closed in this run
  written,        \* history: links set by forcings or calls in this run
  hits            \* history: the dates at which each rule's first premise held in this run

store == <<texts, rules>>
clock == <<next_rule_eval, action_count, next_event, current_date>>
links == <<setting, target, time_last_set>>
history == <<routed, before, evaluated, crossed, written, hits>>
vars == <<state, opt, store, clock, links, forcing, runs, calls, history>>

Never == -1
NoForcing == [mode |-> "NONE", value |-> 0, persist |-> FALSE]
NoModel == [rules |-> <<>>, off |-> {}, rule_step |-> 0, events |-> <<>>, skip_steady |-> FALSE,
            steps |-> {}, total |-> 0]
States == {"CREATED", "OPENED", "INITIALIZED", "RUNNING", "ENDED", "CLOSED", "ERROR_STATE"}

Elapsed == current_date - StartDate

\* The columns of links that were just made: open, but for the pumps the model
\* starts OFF.
NewLinks(m) ==
  /\ setting' = [l \in Links |-> IF l \in m.off THEN 0 ELSE Full]
  /\ target' = setting'
  /\ time_last_set' = [l \in Links |-> 0]

\* The history is that of a run.
Forgotten ==
  /\ routed' = FALSE
  /\ before' = Never
  /\ evaluated' = Never
  /\ crossed' = [l \in Links |-> Never]
  /\ written' = {}
  /\ hits' = {}
-----------------------------------------------------------------------------
\* open(): reset() makes new links and drops the events, but leaves the stored
\* rules of the model before, to which those of this one are appended.
Open(m) ==
  /\ state \in {"CREATED", "CLOSED"}
  /\ Len(texts) + Len(m.rules) <= MaxTexts
  /\ runs < MaxRuns
  /\ state' = "OPENED"
  /\ opt' = m
  /\ texts' = texts \o m.rules
  /\ current_date' = StartDate
  /\ NewLinks(m)
  /\ forcing' = [l \in Links |-> NoForcing]
  /\ runs' = runs + 1
  /\ UNCHANGED <<rules, next_rule_eval, action_count, next_event, calls, history>>

\* Mutant: overlapping events are left as they are.
Disjoint_Overlapping(events) == events

\* An event ends where the next one starts.
Disjoint(events) ==
  [i \in DOMAIN events |->
     IF i < Len(events) /\ events[i].end > events[i + 1].start
     THEN [events[i] EXCEPT !.end = events[i + 1].start] ELSE events[i]]

\* initialize(), of which initHydraulics() lines up the routing events, if there
\* are any, and compiles the stored rules, if there are any.  Nothing primes
\* the rule timer.
Prepare ==
  /\ state \in {"OPENED", "INITIALIZED"}
  /\ opt' = [opt EXCEPT !.events = Disjoint(opt.events)]
  /\ next_event' = IF opt.events = <<>> THEN next_event ELSE 1
  /\ current_date' = StartDate
  /\ forcing' = [l \in Links |-> NoForcing]
  /\ Forgotten
  /\ UNCHANGED <<texts, next_rule_eval, action_count, links, runs, calls>>

Initialize ==
  /\ Prepare
  /\ \A i \in DOMAIN texts : texts[i].parses
  /\ rules' = IF texts = <<>> THEN rules ELSE texts
  /\ state' = "INITIALIZED"

\* Rule n is the first the parser rejects: those before it stay compiled.
InitializeFails(n) ==
  /\ Prepare
  /\ ~texts[n].parses
  /\ \A i \in 1 .. n - 1 : texts[i].parses
  /\ rules' = SubSeq(texts, 1, n - 1)
  /\ state' = "ERROR_STATE"

Start ==
  /\ state = "INITIALIZED"
  /\ state' = "RUNNING"
  /\ UNCHANGED <<opt, store, clock, links, forcing, runs, calls, history>>

\* step() at the end of the simulation, or end().
End ==
  /\ state = "RUNNING"
  /\ state' = "ENDED"
  /\ Forgotten
  /\ UNCHANGED <<opt, store, clock, links, forcing, runs, calls>>

Close ==
  /\ state \notin {"CREATED", "CLOSED"}
  /\ state' = "CLOSED"
  /\ Forgotten
  /\ UNCHANGED <<opt, store, clock, links, forcing, runs, calls>>
-----------------------------------------------------------------------------
(* One step.  s and t are the settings and targets after the forcings.       *)

\* applyForcings(): an OVERRIDE replaces both columns, an ADD adds to what the
\* link is set to now and makes that the target.
Forced == [l \in Links |-> CASE forcing[l].mode = "OVERRIDE" -> forcing[l].value
                             [] forcing[l].mode = "ADD" -> setting[l] + forcing[l].value
                             [] OTHER -> setting[l]]
ForcedTarget == [l \in Links |-> IF forcing[l].mode = "NONE" THEN target[l] ELSE Forced[l]]

\* updatePumpTargetSettings(): a pump stays as it is set unless the depth
\* switches it on or off.
Switched(s, t, depth) ==
  [l \in Links |->
     IF l \notin Pumps THEN t[l]
     ELSE IF OffDepth > 0 /\ s[l] > 0 /\ depth < OffDepth THEN 0
     ELSE IF OnDepth > 0 /\ s[l] = 0 /\ depth > OnDepth THEN Full
     ELSE s[l]]

\* evaluate() runs when the rule timer is due within half a step.
RuleTime == IF next_rule_eval = Never THEN current_date ELSE next_rule_eval
\* Mutant: due only when the time is reached.
Due_NotEarly(dt) == opt.rule_step = 0 \/ current_date >= RuleTime
Due(dt) == opt.rule_step = 0 \/ 2 * current_date + dt >= 2 * RuleTime

\* Mutant: both ends of the window belong to it.
Holds_ClosedWindow(p, s, dt, depth) ==
  p.var = "SIM_TIME" /\ 2 * Elapsed >= 2 * p.value - dt /\ 2 * Elapsed <= 2 * p.value + dt

\* A variable that does not exist for the state of the link holds of nothing;
\* equal times are equal within half a step.
Holds(p, s, dt, depth) ==
  \/ p.var = "DEPTH" /\ depth >= p.value
  \/ p.var = "TIMEOPEN" /\ s[p.link] > 0 /\ current_date - time_last_set[p.link] > p.value
  \/ p.var = "TIMECLOSED" /\ s[p.link] <= 0 /\ current_date - time_last_set[p.link] > p.value
  \/ p.var = "SIM_TIME" /\ 2 * Elapsed >= 2 * p.value - dt /\ 2 * Elapsed < 2 * p.value + dt

\* The premises from the first to the last.
Fires(rule, s, dt, depth) ==
  FoldLeft(LAMBDA result, p :
             IF p.logic = "AND" THEN result /\ Holds(p, s, dt, depth)
                                ELSE result \/ Holds(p, s, dt, depth),
           FALSE, rule.premises)

\* The actions of the rules that fired and the else actions of the others, each
\* by its rule and its place in it.
Pending(s, dt, depth) ==
  LET taken(r) == IF Fires(rules[r], s, dt, depth) THEN rules[r].then_actions
                                                    ELSE rules[r].else_actions
  IN  UNION {{[rule |-> r, place |-> i, action |-> taken(r)[i]] : i \in DOMAIN taken(r)} :
             r \in DOMAIN rules}

\* applyPendingActions(): a later action takes the place of an earlier one for
\* the same link only by a higher priority.
Outranks(a, b) ==
  \/ rules[a.rule].priority > rules[b.rule].priority
  \/ /\ rules[a.rule].priority = rules[b.rule].priority
     /\ a.rule < b.rule \/ (a.rule = b.rule /\ a.place < b.place)
Best(pending, l) ==
  {a \in pending : /\ a.action.link = l
                   /\ \A b \in pending : b.action.link = l => ~Outranks(b, a)}
Ruled(t, pending) ==
  [l \in Links |-> IF Best(pending, l) = {} THEN t[l]
                   ELSE (CHOOSE a \in Best(pending, l) : TRUE).action.value]

\* Mutant: a closing ramp is not stopped when it is closed.
Moved_PastClosed(l, s, t, dt) ==
  LET step == dt * Ramp[l]
  IN  IF Ramp[l] = 0 THEN t
      ELSE IF t > s THEN (IF t - s <= step THEN t ELSE s + step)
                    ELSE (IF t > 0 /\ s - t <= step THEN t ELSE s - step)

\* A link moves from s to t at once, or by its ramp's length of the step.
Moved(l, s, t, dt) ==
  LET step == dt * Ramp[l]
  IN  IF Ramp[l] = 0 THEN t
      ELSE IF t > s THEN (IF t - s <= step THEN t ELSE s + step)
                    ELSE (IF s - t <= step THEN t ELSE s - step)

\* The history of the links that opened or closed.
Noted == crossed' = [l \in Links |-> IF setting'[l] = 0 <=> setting[l] = 0
                                     THEN crossed[l] ELSE current_date]

\* Mutant: only a move to closed is dated.
Settle_OpeningNotDated(s, t, dt) ==
  /\ target' = t
  /\ setting' = [l \in Links |-> Moved(l, s[l], t[l], dt)]
  /\ time_last_set' = [l \in Links |->
       IF t[l] # s[l] /\ t[l] = 0 THEN current_date ELSE time_last_set[l]]
  /\ Noted

\* stepRouting() from the end of the rules on: the settings move, and a move
\* from or to closed is dated.
Settle(s, t, dt) ==
  /\ target' = t
  /\ setting' = [l \in Links |-> Moved(l, s[l], t[l], dt)]
  /\ time_last_set' = [l \in Links |->
       IF t[l] # s[l] /\ (t[l] = 0 \/ s[l] = 0) THEN current_date ELSE time_last_set[l]]
  /\ Noted

\* isBetweenEvents().
BetweenEvents ==
  /\ opt.events # <<>>
  /\ \/ next_event > Len(opt.events)
     \/ current_date > opt.events[next_event].end
     \/ current_date < opt.events[next_event].start
\* What every step of step() does around the routing: the last step is cut off
\* at the end of the simulation, RESET forcings are over after it.
Taken(dt) == IF Elapsed + dt > opt.total THEN opt.total - Elapsed ELSE dt
Around(dt) ==
  /\ forcing' = [l \in Links |-> IF forcing[l].persist THEN forcing[l]
                                 ELSE [forcing[l] EXCEPT !.mode = "NONE"]]
  /\ current_date' = current_date + dt
  /\ before' = current_date
  /\ UNCHANGED <<state, opt, store, runs, calls, written>>

\* The routing is left out; what is over of the events is passed.
StepBetweenEvents(dt) ==
  /\ BetweenEvents
  /\ next_event' \in next_event .. Len(opt.events) + 1
  /\ \A i \in next_event .. next_event' - 1 : current_date > opt.events[i].end
  /\ next_event' <= Len(opt.events) => current_date <= opt.events[next_event'].end
  /\ setting' = Forced
  /\ target' = ForcedTarget
  /\ Noted
  /\ routed' = FALSE
  /\ Around(dt)
  /\ UNCHANGED <<time_last_set, next_rule_eval, action_count, evaluated, hits>>

\* The rules are not due: only the pumps' switches set targets.
StepWithoutRules(dt, depth, calm) ==
  /\ ~BetweenEvents
  /\ ~Due(dt)
  /\ next_rule_eval' = RuleTime
  /\ action_count' = 0
  /\ Settle(Forced, Switched(Forced, ForcedTarget, depth), dt)
  /\ routed' = ~(opt.skip_steady /\ Elapsed # 0 /\ calm)
  /\ Around(dt)
  /\ UNCHANGED <<next_event, evaluated, hits>>

\* The rules are evaluated; a step without an action may be found steady and
\* end before the hydraulics.
StepWithRules(dt, depth, calm) ==
  LET switched == Switched(Forced, ForcedTarget, depth)
      ruled == Ruled(switched, Pending(Forced, dt, depth))
  IN  /\ ~BetweenEvents
      /\ Due(dt)
      /\ next_rule_eval' = IF opt.rule_step = 0 THEN next_rule_eval
                                                ELSE current_date + opt.rule_step
      /\ action_count' = Cardinality({l \in Links : ruled[l] # switched[l]})
      /\ Settle(Forced, ruled, dt)
      /\ routed' = ~(opt.skip_steady /\ Elapsed # 0 /\ action_count' = 0 /\ calm)
      /\ evaluated' = current_date
      /\ hits' = hits \cup
           {<<r, current_date>> : r \in {r \in DOMAIN rules :
                /\ rules[r].premises # <<>>
                /\ Holds(rules[r].premises[1], Forced, dt, depth)}}
      /\ Around(dt)
      /\ UNCHANGED next_event

Step(step, depth, calm) ==
  /\ state = "RUNNING"
  /\ Elapsed < opt.total
  /\ LET dt == Taken(step)
     IN  \/ StepBetweenEvents(dt)
         \/ StepWithoutRules(dt, depth, calm)
         \/ StepWithRules(dt, depth, calm)
-----------------------------------------------------------------------------
(* The client's calls.                                                       *)

\* Mutant: the text is stored in every state and waits for an initialize().
AddRule_NotCompiled(r) ==
  /\ Len(texts) < MaxTexts
  /\ calls < MaxCalls
  /\ calls' = calls + 1
  /\ texts' = Append(texts, r)
  /\ UNCHANGED <<state, opt, rules, clock, links, forcing, runs, history>>

\* swmm_control_add_rule(): before initialize() the text is only stored.
AddRule(r) ==
  /\ Len(texts) < MaxTexts
  /\ calls < MaxCalls
  /\ calls' = calls + 1
  /\ texts' = IF r.parses \/ state \in {"CREATED", "OPENED"} THEN Append(texts, r) ELSE texts
  /\ rules' = IF r.parses /\ state \notin {"CREATED", "OPENED"} THEN Append(rules, r) ELSE rules
  /\ UNCHANGED <<state, opt, clock, links, forcing, runs, history>>

\* swmm_control_clear_rules(), in any state: the stored text only.
ClearRules ==
  /\ calls < MaxCalls
  /\ calls' = calls + 1
  /\ texts' = <<>>
  /\ UNCHANGED <<state, opt, rules, clock, links, forcing, runs, history>>

\* swmm_control_remove_rule().
RemoveRule(i) ==
  /\ state = "OPENED"
  /\ calls < MaxCalls
  /\ calls' = calls + 1
  /\ texts' = RemoveAt(texts, i)
  /\ UNCHANGED <<state, opt, rules, clock, links, forcing, runs, history>>

\* swmm_forcing_link_setting() and, with mode NONE, swmm_forcing_clear().
SetForcing(l, f) ==
  /\ state = "RUNNING"
  /\ calls < MaxCalls
  /\ calls' = calls + 1
  /\ forcing' = [forcing EXCEPT ![l] = f]
  /\ written' = written \cup {l}
  /\ UNCHANGED <<state, opt, store, clock, links, runs, routed, before, evaluated, crossed, hits>>

\* swmm_link_set_control_setting() and swmm_link_set_target_setting().
SetControlSetting(l, v) ==
  /\ state = "RUNNING"
  /\ calls < MaxCalls
  /\ calls' = calls + 1
  /\ setting' = [setting EXCEPT ![l] = v]
  /\ written' = written \cup {l}
  /\ UNCHANGED <<state, opt, store, clock, target, time_last_set, forcing, runs,
                 routed, before, evaluated, crossed, hits>>

SetTargetSetting(l, v) ==
  /\ state = "RUNNING"
  /\ calls < MaxCalls
  /\ calls' = calls + 1
  /\ target' = [target EXCEPT ![l] = v]
  /\ UNCHANGED <<state, opt, store, clock, setting, time_last_set, forcing, runs, history>>
-----------------------------------------------------------------------------
Init ==
  /\ state = "CREATED"
  /\ opt = NoModel
  /\ texts = <<>>
  /\ rules = <<>>
  /\ next_rule_eval = Never
  /\ action_count = 0
  /\ next_event = 1
  /\ current_date = StartDate
  /\ setting = [l \in Links |-> Full]
  /\ target = [l \in Links |-> Full]
  /\ time_last_set = [l \in Links |-> 0]
  /\ forcing = [l \in Links |-> NoForcing]
  /\ runs = 0 /\ calls = 0
  /\ routed = FALSE /\ before = Never /\ evaluated = Never
  /\ crossed = [l \in Links |-> Never]
  /\ written = {} /\ hits = {}

LifeCycle ==
  \/ \E m \in Models : Open(m)
  \/ Initialize
  \/ \E n \in DOMAIN texts : InitializeFails(n)
  \/ Start \/ End \/ Close

Calls ==
  \/ \E r \in Texts : AddRule(r)
  \/ ClearRules
  \/ \E i \in DOMAIN texts : RemoveRule(i)
  \/ \E l \in Links : \/ \E f \in Forcings : SetForcing(l, f)
                      \/ \E v \in 0 .. Full : SetControlSetting(l, v) \/ SetTargetSetting(l, v)

Next ==
  \/ LifeCycle
  \/ \E dt \in opt.steps, depth \in Depths, calm \in BOOLEAN : Step(dt, depth, calm)
  \/ Calls

Spec == Init /\ [][Next]_vars
-----------------------------------------------------------------------------
\* The types of the variables.  A setting moves towards its target without
\* passing it, however short the ramp and long the step, so it is never below
\* closed (stepRouting()).
ControlTypeOK ==
  /\ state \in States
  /\ opt \in Model
  /\ texts \in Seq(Rule) /\ rules \in Seq(Rule)
  /\ next_rule_eval \in Nat \cup {Never}
  /\ action_count \in Nat /\ next_event \in Nat \ {0}
  /\ current_date \in Nat
  /\ setting \in [Links -> Nat] /\ target \in [Links -> Nat]
  /\ time_last_set \in [Links -> Nat]
  /\ forcing \in [Links -> Forcing]
  /\ runs \in 0 .. MaxRuns /\ calls \in 0 .. MaxCalls
  /\ routed \in BOOLEAN
  /\ before \in Nat \cup {Never} /\ evaluated \in Nat \cup {Never}
  /\ crossed \in [Links -> Nat \cup {Never}]
  /\ written \subseteq Links

\* A rule the client can read back acts: from initialize() to the end of the
\* run the stored rules are the last of the compiled ones, in the same order,
\* whenever they came and whatever was removed (swmm_control_add_rule()
\* compiles what comes too late for initialize()).
StoredRulesAct ==
  state \in {"INITIALIZED", "RUNNING"} =>
    \E n \in 0 .. Len(rules) : texts = SubSeq(rules, n + 1, Len(rules))

\* Once a link has really opened or closed in a run, TIMEOPEN and TIMECLOSED
\* premises never see it longer in its state than since then: time_last_set is
\* not behind that date, and is that date if the link has no ramp.  A link the
\* client sets behind the back of the rules is excepted, and so is a link that
\* has not moved yet in the run: its time_last_set is zero and not the start
\* date, so that it looks as old as the calendar (stepRouting()).
AgeSinceCrossing ==
  \A l \in Links \ written :
    crossed[l] # Never => /\ crossed[l] <= time_last_set[l]
                          /\ Ramp[l] = 0 => crossed[l] = time_last_set[l]

\* With a fixed step and rules evaluated at every step, a premise on a
\* simulation time holds in one step of the run: never in two, and by the end
\* in one if it is not close to the end (compareTimes()).
EqualTimeFiresOnce ==
  \A step \in opt.steps :
    (/\ state = "RUNNING" /\ opt.rule_step = 0 /\ opt.events = <<>>
     /\ opt.steps = {step} /\ calls = 0) =>
      \A r \in DOMAIN rules :
        (rules[r].premises # <<>> /\ rules[r].premises[1].var = "SIM_TIME") =>
          LET fired == {h \in hits : h[1] = r}
          IN  /\ Cardinality(fired) <= 1
              /\ (Elapsed >= opt.total /\ 2 * rules[r].premises[1].value + 3 * step <= 2 * opt.total)
                   => fired # {}

\* An event loses at most its first step: the step after one that lay in the
\* same event, past its start, reaches the hydraulics, whatever events were
\* passed over before, if no step may be skipped as steady (isBetweenEvents(),
\* next_event_).
EventLosesAtMostOneStep ==
  [][(current_date' > current_date /\ ~opt.skip_steady) =>
       \A k \in DOMAIN opt.events :
         (before > opt.events[k].start /\ current_date <= opt.events[k].end) => routed']_vars

\* Two evaluations in a run are the rule step apart, up to half of the step
\* they are made with; without events no more than half of the step before is
\* lost. When the first one comes is not said: the timer of an earlier run may
\* delay it (evaluate()).
RuleStepKept ==
  [][(evaluated # Never /\ evaluated' \notin {evaluated, Never}) =>
       LET gap == evaluated' - evaluated
           dt == current_date' - current_date
       IN  /\ 2 * gap >= 2 * opt.rule_step - dt
           /\ (opt.events = <<>> /\ before > evaluated) =>
                2 * gap < 2 * opt.rule_step + (current_date - before)]_vars
=============================================================================
