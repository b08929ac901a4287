------------------------------ MODULE StepClock ------------------------------
(***************************************************************************)
(* The clocks of a run: the routing clock and the report grid of            *)
(* TimestepController (src/engine/hydraulics/TimestepController.cpp), the   *)
(* runoff clock of SWMMEngine::stepRunoff(), and the steps that move them   *)
(* (SWMMEngine::step(), postOutputSnapshot()).                              *)
(*                                                                         *)
(* Time is counted in ticks, a fraction of a millisecond. A call of step()  *)
(* is BeginStep, any number of turns of the runoff loop, and EndStep. What  *)
(* the solvers compute enters only through the step they ask for (cfl) and  *)
(* the weather that selects the runoff step. One handle may run several     *)
(* models one after the other.                                              *)
(***************************************************************************)
EXTENDS Integers, Sequences

CONSTANTS
    Ms,            \* ticks in a millisecond, the floor of a clipped step
    Second,        \* ticks in a second, the unit of a runoff step
    Options,       \* the [OPTIONS] of the models that may be opened
    MaxSessions    \* bound: runs on one handle

\* routing_model: IGNORE_ROUTING, a fixed step, or the step suggested by the
\* dynamic wave or the finite volume solver; gage_interval: the smallest
\* recording interval of a rain gage, 0 without one.
OptionRecord ==
    [routing_model : {"none", "fixed", "dynwave", "fv"}, use_runoff : BOOLEAN,
     wet_step : Nat \ {0}, dry_step : Nat \ {0}, routing_step : Nat \ {0},
     min_routing_step : Nat \ {0}, report_step : Nat \ {0}, report_start : Nat,
     total : Nat \ {0}, gage_interval : Nat]

ASSUME ClockAssumption ==
    /\ Ms \in Nat \ {0}
    /\ Second \in Nat \ {0}
    /\ Options \subseteq OptionRecord
    /\ Options # {}
    /\ MaxSessions \in Nat

VARIABLES
    state,         \* "RUNNING" or "ENDED"
    pc,            \* in a call of step(): "runoff", between calls: "idle"
    opt,           \* ctx_.options
    elapsed,       \* ctx_.elapsed_ms (and current_time)
    old_elapsed,   \* ctx_.old_elapsed_ms
    next_report,   \* ctx_.next_report_ms
    old_runoff,    \* old_runoff_time_ (and old_runoff_ms_)
    new_runoff,    \* new_runoff_time_ (and new_runoff_ms_)
    dt,            \* dt_next of the step in progress, 0 between steps
    reports,       \* the instants reported in this run, in their order
    sessions       \* runs started on this handle

runoffClock == <<old_runoff, new_runoff>>
routingClock == <<elapsed, old_elapsed, next_report>>
clockVars == <<state, pc, opt, routingClock, runoffClock, dt, reports, sessions>>

Least(a, b) == IF a < b THEN a ELSE b
Greatest(a, b) == IF a < b THEN b ELSE a

-----------------------------------------------------------------------------
\* validate_project(): the step options are reconciled when a model is opened,
\* first the wet step, then the others with it.
Reconciled_RoutingBeforeGage(o) ==
    LET wet == IF o.gage_interval > 0 THEN Least(o.wet_step, o.gage_interval)
                                      ELSE o.wet_step
    IN  [o EXCEPT !.wet_step = wet,
                  !.dry_step = Greatest(@, wet),
                  !.routing_step = Least(@, o.wet_step)]
Reconciled(o) ==
    LET wet == IF o.gage_interval > 0 THEN Least(o.wet_step, o.gage_interval)
                                      ELSE o.wet_step
    IN  [o EXCEPT !.wet_step = wet,
                  !.dry_step = Greatest(@, wet),
                  !.routing_step = Least(@, wet)]

\* open() + initialize() + start(). The runoff clock belongs to the engine
\* object: only stepRunoff() assigns it.
StartRun(o) ==
    /\ state' = "RUNNING"
    /\ pc' = "idle"
    /\ opt' = Reconciled(o)
    /\ elapsed' = 0
    /\ old_elapsed' = 0
    /\ next_report' = opt'.report_step
    /\ dt' = 0
    /\ reports' = <<>>

ClockInit ==
    \E o \in Options :
        /\ state = "RUNNING"
        /\ pc = "idle"
        /\ opt = Reconciled(o)
        /\ elapsed = 0
        /\ old_elapsed = 0
        /\ next_report = opt.report_step
        /\ old_runoff = 0
        /\ new_runoff = 0
        /\ dt = 0
        /\ reports = <<>>
        /\ sessions = 1

\* close(), then another run on the same handle.
Reopen ==
    /\ state = "ENDED"
    /\ sessions < MaxSessions
    /\ sessions' = sessions + 1
    /\ \E o \in Options : StartRun(o)
    /\ UNCHANGED runoffClock

\* end() before the simulation is complete.
EndEarly ==
    /\ state = "RUNNING" /\ pc = "idle"
    /\ elapsed < opt.total
    /\ state' = "ENDED"
    /\ UNCHANGED <<pc, opt, routingClock, runoffClock, dt, reports, sessions>>

-----------------------------------------------------------------------------
\* The floor of DWSolver::getRoutingStep().
MinRouteStep == Greatest(Least(opt.min_routing_step, opt.routing_step), Ms)

\* Router::getAdaptiveStep(): the dynamic wave solver starts with its floor and
\* then suggests whole milliseconds; the finite volume solver suggests anything
\* up to the routing step.
SuggestedSteps ==
    CASE opt.routing_model = "dynwave" /\ opt.routing_step >= Ms ->
             {MinRouteStep} \cup
             {s \in 1..opt.routing_step : s % Ms = 0 /\ s + Ms > MinRouteStep}
      [] opt.routing_model = "fv" -> 1..opt.routing_step
      [] OTHER -> {opt.routing_step}

\* A step is clipped at the end of the run, down to a millisecond.
ClipToEnd_Missing(step) == step
ClipToEnd(step) ==
    IF elapsed + step > opt.total THEN Greatest(opt.total - elapsed, Ms) ELSE step

\* The step of a call: TimestepController::compute_next(), or without routing
\* the wet or report step.
NextStep(cfl) ==
    IF opt.routing_model = "none"
    THEN ClipToEnd(Least(opt.wet_step, opt.report_step))
    ELSE LET step == ClipToEnd(Least(opt.routing_step, cfl))
         IN  IF step <= 0 THEN opt.min_routing_step ELSE step

BeginStep ==
    /\ state = "RUNNING" /\ pc = "idle"
    /\ elapsed < opt.total
    /\ \E cfl \in SuggestedSteps : dt' = NextStep(cfl)
    /\ pc' = "runoff"
    /\ UNCHANGED <<state, opt, routingClock, runoffClock, reports, sessions>>

-----------------------------------------------------------------------------
\* Where the runoff clock must get in this step.
NextRoutingTime_Unclamped == elapsed + dt
NextRoutingTime == Least(elapsed + dt, opt.total)

RunoffDue_AtStepStart == new_runoff < elapsed
RunoffDue == new_runoff < NextRoutingTime

WholeSeconds(t) == (t \div Second) * Second

\* computeRunoffTimestep(): the wet or the dry step in whole seconds, shortened
\* to the next change of a rain gage; a step of no length becomes a second.
RunoffStepLengths ==
    LET dry == WholeSeconds(opt.dry_step)
        Changes == {dry} \cup
                   IF opt.gage_interval > 0
                   THEN {s \in 1..dry : s % Second = 0} ELSE {}
        Lengths == {Least(step, change) : step \in {WholeSeconds(opt.wet_step), dry},
                                          change \in Changes}
    IN  {IF s = 0 THEN Second ELSE s : s \in Lengths}

InRunoffLoop == pc = "runoff" /\ RunoffDue

MoveRunoffClock(step) == new_runoff' = Least(new_runoff + step, opt.total)

\* One turn of the loop of stepRunoff().
RunoffStep ==
    /\ InRunoffLoop
    /\ ~opt.use_runoff
    /\ old_runoff' = new_runoff
    /\ \E step \in RunoffStepLengths : MoveRunoffClock(step)
    /\ UNCHANGED <<state, pc, opt, routingClock, dt, reports, sessions>>

\* USE RUNOFF: the next record of the interface file, with its own step.
RunoffRecord ==
    /\ InRunoffLoop
    /\ opt.use_runoff
    /\ old_runoff' = new_runoff
    /\ \E step \in 1..opt.total : MoveRunoffClock(step)
    /\ UNCHANGED <<state, pc, opt, routingClock, dt, reports, sessions>>

\* The interface file has no more record: the clock is frozen at the end.
RunoffFileEnds ==
    /\ InRunoffLoop
    /\ opt.use_runoff
    /\ old_runoff' = new_runoff
    /\ new_runoff' = opt.total
    /\ UNCHANGED <<state, pc, opt, routingClock, dt, reports, sessions>>

-----------------------------------------------------------------------------
OutputDue == elapsed' >= next_report

\* The date of a report is a millisecond past its instant.
BeforeReportStart == next_report + Ms < opt.report_start

NextReport_KeptWhenSkipped ==
    IF BeforeReportStart THEN next_report ELSE next_report + opt.report_step
NextReport == next_report + opt.report_step

\* The rest of step(): advance(), then postOutputSnapshot().
EndStep ==
    /\ pc = "runoff"
    /\ ~RunoffDue
    /\ old_elapsed' = elapsed
    /\ elapsed' = elapsed + dt
    /\ next_report' = IF OutputDue THEN NextReport ELSE next_report
    /\ reports' = IF OutputDue /\ ~BeforeReportStart
                  THEN Append(reports, next_report) ELSE reports
    /\ pc' = "idle"
    /\ dt' = 0
    /\ UNCHANGED <<state, opt, runoffClock, sessions>>

\* step() when the run is complete.
Complete ==
    /\ state = "RUNNING" /\ pc = "idle"
    /\ elapsed >= opt.total
    /\ state' = "ENDED"
    /\ UNCHANGED <<pc, opt, routingClock, runoffClock, dt, reports, sessions>>

StepCall == BeginStep \/ RunoffStep \/ RunoffRecord \/ RunoffFileEnds \/ EndStep \/ Complete

ClockNext == StepCall \/ EndEarly \/ Reopen

\* The client calls step() until the run is complete (the loop of
\* openswmm_engine.h), and a call is not interrupted.
ClockSpec == ClockInit /\ [][ClockNext]_clockVars /\ WF_clockVars(StepCall)

-----------------------------------------------------------------------------
\* The types of the clocks; the step options of an open model are reconciled, a
\* step has a length exactly while it is in progress, and the runoff window
\* never runs backwards.
ClockTypeOK ==
    /\ state \in {"RUNNING", "ENDED"}
    /\ pc \in {"idle", "runoff"}
    /\ opt \in OptionRecord
    /\ opt.routing_step <= opt.wet_step /\ opt.wet_step <= opt.dry_step
    /\ elapsed \in Nat /\ old_elapsed \in Nat /\ next_report \in Nat
    /\ old_runoff \in Nat /\ new_runoff \in Nat
    /\ dt \in Nat
    /\ reports \in Seq(Nat)
    /\ sessions \in Nat
    /\ pc = "runoff" <=> dt > 0
    /\ old_runoff <= new_runoff

\* The routing clock passes the end of the run by less than a millisecond, the
\* length below which step() does not clip (compute_next(), step 2).
OvershootBelowFloor == elapsed < opt.total + Ms

\* Between two calls of step(), runoff is known up to the routing clock, so that
\* lateral inflows are interpolated and never extrapolated, and in the first run
\* of a handle the window is the one the clock is in (stepRunoff()).
RunoffCoversClock ==
    pc = "idle" =>
        /\ Least(elapsed, opt.total) <= new_runoff
        /\ sessions = 1 /\ elapsed > 0 =>
              /\ old_runoff < Least(elapsed, opt.total)
              /\ new_runoff <= opt.total

\* No report step is shorter than a step of the routing clock.
ReportStepsLongEnough ==
    opt.report_step >= Ms /\ (opt.routing_model # "none" => opt.report_step >= opt.routing_step)
\* The instants of the report grid that have passed, from REPORT_START on.
Due == {t \in 1..elapsed : t % opt.report_step = 0 /\ t + Ms >= opt.report_start}
\* If no report step is shorter than a routing step, every instant of the
\* report grid that the clock has passed was reported in its turn, once, unless
\* it lies before REPORT_START (postOutputSnapshot()).
EveryPeriodReported ==
    pc = "idle" /\ ReportStepsLongEnough =>
        /\ {reports[i] : i \in DOMAIN reports} = Due
        /\ \A i, j \in DOMAIN reports : i < j => reports[i] < reports[j]

\* A client that keeps calling step() reaches the end of the run: the clipped
\* last steps do not stop the clock, and the runoff loop does not spin.
EveryRunEnds == state = "RUNNING" ~> state = "ENDED"

-----------------------------------------------------------------------------
\* "Reset context for a fresh run" (SWMMEngine.cpp, open()): in every run of a
\* handle the runoff window follows the routing clock.
FreshRunoffClock ==
    pc = "idle" /\ elapsed > 0 => old_runoff < Least(elapsed, opt.total)

=============================================================================
