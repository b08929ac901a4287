--------------------------- MODULE StepClock_proofs ---------------------------
(***************************************************************************)
(* What holds of the clocks for every scale, every set of options and any  *)
(* number of runs: their types, the bound on the last step, that runoff is *)
(* known up to the routing clock, and that every period is reported.       *)
(***************************************************************************)
EXTENDS StepClock, TLAPS

-----------------------------------------------------------------------------
\* The steps the clocks are moved by are natural numbers, and a routing step
\* is never empty.
LEMMA ReconciledType ==
    ASSUME NEW o \in OptionRecord
    PROVE  /\ Reconciled(o) \in OptionRecord
           /\ Reconciled(o).routing_step <= Reconciled(o).wet_step
           /\ Reconciled(o).wet_step <= Reconciled(o).dry_step
<1> DEFINE wet == IF o.gage_interval > 0 THEN Least(o.wet_step, o.gage_interval)
                                         ELSE o.wet_step
<1>1. wet \in Nat \ {0}
  BY DEF OptionRecord, Least
<1>2. /\ Greatest(o.dry_step, wet) \in Nat \ {0}
      /\ wet <= Greatest(o.dry_step, wet)
      /\ Least(o.routing_step, wet) \in Nat \ {0}
      /\ Least(o.routing_step, wet) <= wet
  BY <1>1 DEF OptionRecord, Greatest, Least
<1> DEFINE o1 == [o EXCEPT !.wet_step = wet]
           o2 == [o1 EXCEPT !.dry_step = Greatest(o.dry_step, wet)]
           o3 == [o2 EXCEPT !.routing_step = Least(o.routing_step, wet)]
<1>3. Reconciled(o) = o3
  BY DEF Reconciled, OptionRecord
<1> HIDE DEF wet
<1>4. o1 \in OptionRecord /\ o1.wet_step = wet
  BY <1>1 DEF OptionRecord
<1> HIDE DEF o1
<1>5. /\ o2 \in OptionRecord /\ o2.wet_step = wet
      /\ o2.dry_step = Greatest(o.dry_step, wet)
  BY <1>2, <1>4 DEF OptionRecord
<1> HIDE DEF o2
<1>6. /\ o3 \in OptionRecord /\ o3.wet_step = wet
      /\ o3.dry_step = Greatest(o.dry_step, wet)
      /\ o3.routing_step = Least(o.routing_step, wet)
  BY <1>2, <1>5 DEF OptionRecord
<1> HIDE DEF o3
<1> QED
  BY <1>2, <1>3, <1>6

LEMMA SuggestedStepsPositive ==
    ASSUME ClockTypeOK
    PROVE  SuggestedSteps \subseteq Nat \ {0}
<1>1. opt.routing_step \in Nat \ {0} /\ opt.min_routing_step \in Nat \ {0}
  BY DEF ClockTypeOK, OptionRecord
<1>2. MinRouteStep \in Nat \ {0}
  BY <1>1, ClockAssumption DEF MinRouteStep, Greatest, Least
<1>3. CASE opt.routing_model = "dynwave" /\ opt.routing_step >= Ms
  BY <1>1, <1>2, <1>3 DEF SuggestedSteps
<1>4. CASE opt.routing_model = "fv"
  BY <1>1, <1>4 DEF SuggestedSteps
<1>5. CASE /\ ~(opt.routing_model = "dynwave" /\ opt.routing_step >= Ms)
           /\ opt.routing_model # "fv"
  BY <1>1, <1>5 DEF SuggestedSteps
<1> QED
  BY <1>3, <1>4, <1>5

\* A step is not empty and ends less than a millisecond past the end.
LEMMA NextStepBounds ==
    ASSUME ClockTypeOK, elapsed < opt.total, NEW cfl \in Nat \ {0}
    PROVE  /\ NextStep(cfl) \in Nat \ {0}
           /\ elapsed + NextStep(cfl) < opt.total + Ms
<1>1. /\ opt.routing_step \in Nat \ {0} /\ opt.wet_step \in Nat \ {0}
      /\ opt.report_step \in Nat \ {0} /\ opt.total \in Nat /\ elapsed \in Nat
  BY DEF ClockTypeOK, OptionRecord
<1>2. ASSUME NEW step \in Nat \ {0}
      PROVE  /\ ClipToEnd(step) \in Nat \ {0}
             /\ elapsed + ClipToEnd(step) < opt.total + Ms
  BY <1>1, ClockAssumption DEF ClipToEnd, Greatest
<1>3. /\ Least(opt.wet_step, opt.report_step) \in Nat \ {0}
      /\ Least(opt.routing_step, cfl) \in Nat \ {0}
  BY <1>1 DEF Least
<1> QED
  BY <1>2, <1>3 DEF NextStep

LEMMA RunoffStepLengthsNat ==
    ASSUME ClockTypeOK
    PROVE  RunoffStepLengths \subseteq Nat
<1>1. \A t \in Nat : WholeSeconds(t) \in Nat
  <2> SUFFICES ASSUME NEW t \in Nat PROVE WholeSeconds(t) \in Nat
    OBVIOUS
  <2>1. t \div Second \in Nat
    BY ClockAssumption
  <2>2. ASSUME NEW n \in Nat PROVE n * Second \in Nat
    BY ClockAssumption
  <2> QED
    BY <2>1, <2>2 DEF WholeSeconds
<1>2. WholeSeconds(opt.dry_step) \in Nat /\ WholeSeconds(opt.wet_step) \in Nat
  BY <1>1 DEF ClockTypeOK, OptionRecord
<1>3. \A a, b \in Nat : Least(a, b) \in Nat
  BY DEF Least
<1>4. Second \in Nat
  BY ClockAssumption
<1> SUFFICES ASSUME NEW length \in RunoffStepLengths PROVE length \in Nat
  OBVIOUS
<1> DEFINE Changes == {WholeSeconds(opt.dry_step)} \cup
                      IF opt.gage_interval > 0
                      THEN {s \in 1..WholeSeconds(opt.dry_step) : s % Second = 0}
                      ELSE {}
<1>5. Changes \subseteq Nat
  BY <1>2
<1>6. PICK step \in {WholeSeconds(opt.wet_step), WholeSeconds(opt.dry_step)},
           change \in Changes :
              length = IF Least(step, change) = 0 THEN Second ELSE Least(step, change)
  BY DEF RunoffStepLengths
<1> HIDE DEF Changes
<1>7. step \in Nat /\ change \in Nat
  BY <1>2, <1>5, <1>6
<1> QED
  BY <1>3, <1>4, <1>6, <1>7

-----------------------------------------------------------------------------
\* The inductive invariant. A step in progress began before the end of the run
\* and its end is already bounded. While the loop of stepRunoff() runs, the
\* start of the runoff window lies before the time the loop must reach; after
\* the loop the window's end lies at or after it. Only in the first run of a
\* handle does the window start with the routing clock.
StepBounded ==
    /\ elapsed < opt.total + Ms
    /\ pc = "runoff" => elapsed < opt.total /\ elapsed + dt < opt.total + Ms

WindowCovers == Least(elapsed, opt.total) <= new_runoff

FirstWindow ==
    sessions = 1 =>
        /\ new_runoff <= opt.total
        /\ pc = "idle" => \/ old_runoff < Least(elapsed, opt.total)
                          \/ elapsed = 0 /\ old_runoff = 0
        /\ pc = "runoff" => old_runoff < NextRoutingTime

ClockInv ==
    /\ ClockTypeOK
    /\ sessions # 0
    /\ StepBounded
    /\ WindowCovers
    /\ FirstWindow

LEMMA ClockInitInv == ClockInit => ClockInv
<1> SUFFICES ASSUME ClockInit PROVE ClockInv
  OBVIOUS
<1>1. PICK o \in Options : opt = Reconciled(o)
  BY DEF ClockInit
<1>2. /\ opt \in OptionRecord
      /\ opt.routing_step <= opt.wet_step /\ opt.wet_step <= opt.dry_step
  BY <1>1, ReconciledType, ClockAssumption
<1>3. opt.report_step \in Nat \ {0} /\ opt.total \in Nat \ {0}
  BY <1>2 DEF OptionRecord
<1>4. ClockTypeOK
  BY <1>2, <1>3 DEF ClockInit, ClockTypeOK
<1>5. StepBounded /\ WindowCovers /\ FirstWindow /\ sessions # 0
  BY <1>3, ClockAssumption
  DEF ClockInit, StepBounded, WindowCovers, FirstWindow, Least
<1> QED
  BY <1>4, <1>5 DEF ClockInv

LEMMA ClockStepInv == ClockInv /\ [ClockNext]_clockVars => ClockInv'
<1> SUFFICES ASSUME ClockInv, [ClockNext]_clockVars PROVE ClockInv'
  OBVIOUS
<1>0. /\ ClockTypeOK /\ StepBounded /\ WindowCovers /\ FirstWindow /\ sessions # 0
      /\ opt.total \in Nat \ {0} /\ opt.report_step \in Nat \ {0}
      /\ elapsed \in Nat /\ old_runoff \in Nat /\ new_runoff \in Nat /\ dt \in Nat
      /\ sessions \in Nat /\ old_runoff <= new_runoff
      /\ Ms \in Nat \ {0}
  BY ClockAssumption DEF ClockInv, ClockTypeOK, OptionRecord
<1>1. CASE BeginStep
  <2>1. PICK cfl \in SuggestedSteps : dt' = NextStep(cfl)
    BY <1>1 DEF BeginStep
  <2>2. cfl \in Nat \ {0}
    BY <1>0, <2>1, SuggestedStepsPositive
  <2>3. dt' \in Nat \ {0} /\ elapsed + dt' < opt.total + Ms
    BY <1>0, <1>1, <2>1, <2>2, NextStepBounds DEF BeginStep
  <2>4. ClockTypeOK'
    BY <1>0, <1>1, <2>3 DEF BeginStep, ClockTypeOK, routingClock, runoffClock
  <2>5. (StepBounded /\ WindowCovers /\ sessions # 0)'
    BY <1>0, <1>1, <2>3
    DEF BeginStep, StepBounded, WindowCovers, routingClock, runoffClock, Least
  <2>6. FirstWindow'
    BY <1>0, <1>1, <2>3
    DEF BeginStep, FirstWindow, NextRoutingTime, routingClock, runoffClock, Least
  <2> QED
    BY <2>4, <2>5, <2>6 DEF ClockInv
\* The three turns of the loop differ in the length of the step only.
<1>2. ASSUME InRunoffLoop, old_runoff' = new_runoff,
             new_runoff' \in Nat, new_runoff <= new_runoff', new_runoff' <= opt.total,
             UNCHANGED <<state, pc, opt, routingClock, dt, reports, sessions>>
      PROVE  ClockInv'
  <2>1. ClockTypeOK'
    BY <1>0, <1>2 DEF ClockTypeOK, routingClock
  <2>2. (StepBounded /\ WindowCovers /\ sessions # 0)'
    BY <1>0, <1>2 DEF StepBounded, WindowCovers, routingClock, Least
  <2>3. FirstWindow'
    BY <1>0, <1>2
    DEF InRunoffLoop, RunoffDue, FirstWindow, NextRoutingTime, routingClock, Least
  <2> QED
    BY <2>1, <2>2, <2>3 DEF ClockInv
<1>3. ASSUME NEW step \in Nat, InRunoffLoop, MoveRunoffClock(step)
      PROVE  /\ new_runoff' \in Nat
             /\ new_runoff <= new_runoff' /\ new_runoff' <= opt.total
  BY <1>0, <1>3 DEF InRunoffLoop, RunoffDue, NextRoutingTime, MoveRunoffClock, Least
<1>4. CASE RunoffStep
  <2>1. PICK step \in RunoffStepLengths : MoveRunoffClock(step)
    BY <1>4 DEF RunoffStep
  <2>2. step \in Nat
    BY <1>0, <2>1, RunoffStepLengthsNat
  <2> QED
    BY <1>2, <1>3, <1>4, <2>1, <2>2 DEF RunoffStep
<1>5. CASE RunoffRecord
  <2>1. PICK step \in 1..opt.total : MoveRunoffClock(step)
    BY <1>5 DEF RunoffRecord
  <2>2. step \in Nat
    BY <1>0, <2>1
  <2> QED
    BY <1>2, <1>3, <1>5, <2>1, <2>2 DEF RunoffRecord
<1>6. CASE RunoffFileEnds
  <2>1. new_runoff <= opt.total
    BY <1>0, <1>6 DEF RunoffFileEnds, InRunoffLoop, RunoffDue, NextRoutingTime, Least
  <2> QED
    BY <1>0, <1>2, <1>6, <2>1 DEF RunoffFileEnds
<1>7. CASE EndStep
  <2>1. /\ elapsed' = elapsed + dt /\ elapsed' \in Nat /\ pc' = "idle" /\ dt' = 0
        /\ old_elapsed' = elapsed
        /\ UNCHANGED <<state, opt, old_runoff, new_runoff, sessions>>
        /\ pc = "runoff" /\ ~(new_runoff < NextRoutingTime)
    BY <1>0, <1>7 DEF EndStep, runoffClock, RunoffDue
  <2>2. next_report' \in Nat
    BY <1>0, <1>7 DEF EndStep, NextReport, ClockTypeOK
  <2>3. reports' \in Seq(Nat)
    <3>1. next_report \in Nat
      BY <1>0 DEF ClockTypeOK
    <3> QED
      BY <1>0, <1>7, <3>1 DEF EndStep, ClockTypeOK
  <2>4. ClockTypeOK'
    BY <1>0, <2>1, <2>2, <2>3 DEF ClockTypeOK
  <2>5. (StepBounded /\ WindowCovers /\ sessions # 0)'
    BY <1>0, <2>1 DEF StepBounded, WindowCovers, NextRoutingTime, Least
  <2>6. FirstWindow'
    BY <1>0, <2>1 DEF FirstWindow, NextRoutingTime, Least
  <2> QED
    BY <2>4, <2>5, <2>6 DEF ClockInv
<1>8. CASE Complete \/ EndEarly
  <2>1. state' = "ENDED"
        /\ UNCHANGED <<pc, opt, routingClock, runoffClock, dt, reports, sessions>>
    BY <1>8 DEF Complete, EndEarly
  <2>2. ClockTypeOK'
    BY <1>0, <2>1 DEF ClockTypeOK, routingClock, runoffClock
  <2>3. (StepBounded /\ WindowCovers /\ sessions # 0 /\ FirstWindow)'
    BY <1>0, <2>1
    DEF StepBounded, WindowCovers, FirstWindow, NextRoutingTime, routingClock, runoffClock
  <2> QED
    BY <2>2, <2>3 DEF ClockInv
<1>9. CASE Reopen
  <2>1. PICK o \in Options : StartRun(o)
    BY <1>9 DEF Reopen
  <2>2. /\ opt' \in OptionRecord
        /\ opt'.routing_step <= opt'.wet_step /\ opt'.wet_step <= opt'.dry_step
    BY <2>1, ReconciledType, ClockAssumption DEF StartRun
  <2>3. opt'.report_step \in Nat \ {0} /\ opt'.total \in Nat \ {0}
    BY <2>2 DEF OptionRecord
  <2>4. ClockTypeOK'
    BY <1>0, <1>9, <2>1, <2>2, <2>3
    DEF Reopen, StartRun, ClockTypeOK, runoffClock
  <2>5. (StepBounded /\ WindowCovers)'
    BY <1>0, <1>9, <2>1, <2>3
    DEF Reopen, StartRun, StepBounded, WindowCovers, runoffClock, Least
  <2>6. sessions' # 0 /\ sessions' # 1
    BY <1>0, <1>9 DEF Reopen
  <2> QED
    BY <2>4, <2>5, <2>6 DEF ClockInv, FirstWindow
<1>10. CASE UNCHANGED clockVars
  BY <1>0, <1>10
  DEF clockVars, routingClock, runoffClock, ClockInv, ClockTypeOK, StepBounded,
      WindowCovers, FirstWindow, NextRoutingTime
<1> QED
  BY <1>1, <1>4, <1>5, <1>6, <1>7, <1>8, <1>9, <1>10 DEF ClockNext, StepCall

LEMMA ClockInvariant == ClockSpec => []ClockInv
<1> QED
  BY ClockInitInv, ClockStepInv, PTL DEF ClockSpec

\* Types: in every run of a handle the options are reconciled, a step has a
\* length while it is in progress and the runoff window does not run backwards.
THEOREM ClockTypeCorrect == ClockSpec => []ClockTypeOK
<1>1. ClockInv => ClockTypeOK
  BY DEF ClockInv
<1> QED
  BY <1>1, ClockInvariant, PTL

\* compute_next() and the IGNORE_ROUTING step pass the end of a run by less than
\* a millisecond, whatever the solvers suggest.
THEOREM OvershootCorrect == ClockSpec => []OvershootBelowFloor
<1>1. ClockInv => OvershootBelowFloor
  BY DEF ClockInv, StepBounded, OvershootBelowFloor
<1> QED
  BY <1>1, ClockInvariant, PTL

\* After every call of step() the runoff window reaches the routing clock; in
\* the first run of a handle the clock is inside it.
THEOREM RunoffCoversCorrect == ClockSpec => []RunoffCoversClock
<1>1. ClockInv => RunoffCoversClock
  BY DEF ClockInv, WindowCovers, FirstWindow, RunoffCoversClock, ClockTypeOK
<1> QED
  BY <1>1, ClockInvariant, PTL
-----------------------------------------------------------------------------
(* The report grid                                                           *)

\* A multiple of r is at least r past the multiple before it.
LEMMA MultiplesApart ==
    ASSUME NEW r \in Nat \ {0}, NEW a \in Nat, NEW b \in Nat,
           a % r = 0, b % r = 0, a < b
    PROVE  a + r <= b
<1> DEFINE p == a \div r
           q == b \div r
<1>1. p \in Nat /\ q \in Nat /\ a = p * r /\ b = q * r
  OBVIOUS
<1> HIDE DEF p, q
<1>2. p < q
  <2>1. SUFFICES ASSUME q <= p PROVE FALSE
    BY <1>1
  <2>2. q * r <= p * r
    BY <1>1, <2>1
  <2> QED
    BY <1>1, <2>2
<1>3. (p + 1) * r <= q * r
  BY <1>1, <1>2
<1>4. (p + 1) * r = p * r + r
  BY <1>1
<1> QED
  BY <1>1, <1>3, <1>4

LEMMA NextMultiple ==
    ASSUME NEW r \in Nat \ {0}, NEW a \in Nat, a % r = 0
    PROVE  (a + r) % r = 0
<1> DEFINE p == a \div r
<1>1. p \in Nat /\ a = p * r
  OBVIOUS
<1> HIDE DEF p
<1>2. a + r = (p + 1) * r
  BY <1>1
<1>3. ((p + 1) * r) % r = 0
  BY <1>1
<1> QED
  BY <1>2, <1>3

\* A routing step is not longer than the report step, if no routing step of the
\* options and no millisecond is.
LEMMA StepWithinReportStep ==
    ASSUME ClockTypeOK, elapsed < opt.total, ReportStepsLongEnough, NEW cfl \in Nat \ {0}
    PROVE  NextStep(cfl) <= opt.report_step
<1>1. /\ opt.routing_step \in Nat \ {0} /\ opt.wet_step \in Nat \ {0}
      /\ opt.report_step \in Nat \ {0} /\ opt.total \in Nat /\ elapsed \in Nat
      /\ Ms \in Nat \ {0}
  BY ClockAssumption DEF ClockTypeOK, OptionRecord
<1>2. ASSUME NEW step \in Nat \ {0}, step <= opt.report_step
      PROVE  ClipToEnd(step) \in Nat \ {0} /\ ClipToEnd(step) <= opt.report_step
  BY <1>1, <1>2 DEF ClipToEnd, Greatest, ReportStepsLongEnough
<1>3. CASE opt.routing_model = "none"
  <2>1. /\ Least(opt.wet_step, opt.report_step) \in Nat \ {0}
        /\ Least(opt.wet_step, opt.report_step) <= opt.report_step
    BY <1>1 DEF Least
  <2> QED
    BY <1>2, <1>3, <2>1 DEF NextStep
<1>4. CASE opt.routing_model # "none"
  <2>1. /\ Least(opt.routing_step, cfl) \in Nat \ {0}
        /\ Least(opt.routing_step, cfl) <= opt.report_step
    BY <1>1, <1>4 DEF Least, ReportStepsLongEnough
  <2>2. ClipToEnd(Least(opt.routing_step, cfl)) \in Nat \ {0}
        /\ ClipToEnd(Least(opt.routing_step, cfl)) <= opt.report_step
    BY <1>2, <2>1
  <2> QED
    BY <1>1, <1>4, <2>2 DEF NextStep
<1> QED
  BY <1>3, <1>4

\* The next report is the first instant of the grid past the clock, and no step
\* in progress reaches past the one after it; what was reported is what was due.
ReportGrid ==
    ReportStepsLongEnough =>
        /\ next_report % opt.report_step = 0
        /\ elapsed < next_report /\ next_report <= elapsed + opt.report_step
        /\ pc = "runoff" => dt <= opt.report_step
        /\ {reports[i] : i \in DOMAIN reports} = Due
        /\ \A i, j \in DOMAIN reports : i < j => reports[i] < reports[j]

\* Nothing is due, and nothing reported, when a run starts.
LEMMA FreshGrid ==
    ASSUME opt \in OptionRecord, elapsed = 0, reports = <<>>, pc = "idle",
           next_report = opt.report_step
    PROVE  ReportGrid
<1>1. opt.report_step \in Nat \ {0} /\ opt.report_step % opt.report_step = 0
  BY DEF OptionRecord
<1>2. Due = {} /\ {reports[i] : i \in DOMAIN reports} = {}
  BY DEF Due
<1> QED
  BY <1>1, <1>2 DEF ReportGrid
\* advance() and postOutputSnapshot(): the clock passes at most one instant.
LEMMA EndStepGrid == ClockInv /\ ReportGrid /\ EndStep => ReportGrid'
<1> SUFFICES ASSUME ClockInv, ReportGrid, EndStep, ReportStepsLongEnough
             PROVE  ReportGrid'
  BY DEF EndStep, ReportGrid, ReportStepsLongEnough
<1> DEFINE r == opt.report_step
<1>1. /\ r \in Nat \ {0} /\ elapsed \in Nat /\ next_report \in Nat /\ dt \in Nat
      /\ opt.report_start \in Nat /\ Ms \in Nat /\ reports \in Seq(Nat)
      /\ pc = "runoff" /\ dt > 0
  BY ClockAssumption DEF ClockInv, ClockTypeOK, OptionRecord, EndStep
<1>2. /\ next_report % r = 0 /\ elapsed < next_report /\ next_report <= elapsed + r
      /\ dt <= r
      /\ {reports[i] : i \in DOMAIN reports} = Due
      /\ \A i, j \in DOMAIN reports : i < j => reports[i] < reports[j]
  BY <1>1 DEF ReportGrid
<1>3. /\ elapsed' = elapsed + dt /\ elapsed' \in Nat /\ opt' = opt /\ pc' = "idle"
      /\ next_report' = IF elapsed' >= next_report THEN next_report + r ELSE next_report
      /\ reports' = IF elapsed' >= next_report /\ ~BeforeReportStart
                    THEN Append(reports, next_report) ELSE reports
  BY <1>1 DEF EndStep, OutputDue, NextReport
<1>4. (next_report + r) % r = 0
  BY <1>1, <1>2, NextMultiple
<1>5. /\ next_report' % r = 0
      /\ elapsed' < next_report' /\ next_report' <= elapsed' + r
  BY <1>1, <1>2, <1>3, <1>4
<1>6. Due' = {t \in 1..elapsed' : t % r = 0 /\ t + Ms >= opt.report_start}
  BY <1>3 DEF Due
\* The only multiple of the report step that is passed is next_report.
<1>7. ASSUME NEW t \in 1..elapsed', t % r = 0, t > elapsed
      PROVE  t = next_report
  <2>1. t \in Nat /\ t < next_report + r
    BY <1>1, <1>2, <1>3, <1>7
  <2>2. ~(next_report < t)
    BY <1>1, <1>2, <1>7, <2>1, MultiplesApart
  <2>3. ~(t < next_report)
    <3>1. SUFFICES ASSUME t < next_report PROVE FALSE
      OBVIOUS
    <3>2. t + r <= next_report
      BY <1>1, <1>2, <1>7, <2>1, <3>1, MultiplesApart
    <3> QED
      BY <1>1, <1>2, <1>7, <2>1, <3>2
  <2> QED
    BY <1>1, <2>1, <2>2, <2>3
<1> HIDE DEF r
<1>8. CASE elapsed' >= next_report /\ ~BeforeReportStart
  <2>1. reports' = Append(reports, next_report) /\ next_report + Ms >= opt.report_start
    BY <1>1, <1>3, <1>8 DEF BeforeReportStart
  <2>2. Due' = Due \cup {next_report}
    BY <1>1, <1>2, <1>3, <1>6, <1>7, <1>8, <2>1 DEF Due, r
  <2> DEFINE n == Len(reports)
  <2>a. /\ n \in Nat /\ DOMAIN reports = 1..n /\ DOMAIN reports' = 1..(n + 1)
        /\ reports'[n + 1] = next_report
        /\ \A i \in 1..n : reports'[i] = reports[i] /\ reports[i] \in Nat
    BY <1>1, <2>1
  <2> HIDE DEF n
  <2>3. {reports'[i] : i \in DOMAIN reports'} =
          {reports[i] : i \in DOMAIN reports} \cup {next_report}
    <3>1. ASSUME NEW i \in DOMAIN reports'
          PROVE  reports'[i] \in {reports[k] : k \in DOMAIN reports} \cup {next_report}
      <4>1. i \in 1..n \/ i = n + 1
        BY <2>a
      <4> QED
        BY <2>a, <4>1
    <3>2. ASSUME NEW i \in DOMAIN reports
          PROVE  reports[i] \in {reports'[k] : k \in DOMAIN reports'}
      <4>1. i \in 1..(n + 1) /\ reports'[i] = reports[i]
        BY <2>a
      <4> QED
        BY <2>a, <4>1
    <3>3. next_report \in {reports'[k] : k \in DOMAIN reports'}
      <4>1. n + 1 \in 1..(n + 1)
        BY <2>a
      <4> QED
        BY <2>a, <4>1
    <3> QED
      BY <3>1, <3>2, <3>3
  <2>4. \A i \in DOMAIN reports : reports[i] <= elapsed
    BY <1>1, <1>2 DEF Due
  <2>5. \A i, j \in DOMAIN reports' : i < j => reports'[i] < reports'[j]
    <3> SUFFICES ASSUME NEW i \in DOMAIN reports', NEW j \in DOMAIN reports', i < j
                 PROVE  reports'[i] < reports'[j]
      OBVIOUS
    <3>1. i \in 1..n /\ reports'[i] = reports[i] /\ reports[i] \in Nat
      BY <2>a
    <3>2. CASE j = n + 1
      BY <1>1, <1>2, <2>a, <2>4, <3>1, <3>2
    <3>3. CASE j \in 1..n
      BY <1>2, <2>a, <3>1, <3>3
    <3> QED
      BY <2>a, <3>2, <3>3
  <2> QED
    BY <1>2, <1>3, <1>5, <2>2, <2>3, <2>5 DEF ReportGrid, r
<1>9. CASE ~(elapsed' >= next_report /\ ~BeforeReportStart)
  <2>1. reports' = reports
    BY <1>3, <1>9
  <2>2. Due' = Due
    BY <1>1, <1>2, <1>3, <1>6, <1>7, <1>9 DEF Due, r, BeforeReportStart
  <2> QED
    BY <1>2, <1>3, <1>5, <2>1, <2>2 DEF ReportGrid, r
<1> QED
  BY <1>8, <1>9

LEMMA StepGrid == ClockInv /\ ReportGrid /\ [ClockNext]_clockVars => ReportGrid'
<1> SUFFICES ASSUME ClockInv, ReportGrid, [ClockNext]_clockVars PROVE ReportGrid'
  OBVIOUS
<1>0. ClockTypeOK
  BY DEF ClockInv
<1>1. CASE BeginStep
  <2>1. PICK cfl \in SuggestedSteps : dt' = NextStep(cfl)
    BY <1>1 DEF BeginStep
  <2>2. cfl \in Nat \ {0}
    BY <1>0, <2>1, SuggestedStepsPositive
  <2>3. ReportStepsLongEnough => dt' <= opt.report_step
    BY <1>0, <1>1, <2>1, <2>2, StepWithinReportStep DEF BeginStep
  <2> QED
    BY <1>1, <2>3 DEF BeginStep, ReportGrid, ReportStepsLongEnough, Due, routingClock
<1>2. CASE RunoffStep \/ RunoffRecord \/ RunoffFileEnds
  BY <1>2 DEF RunoffStep, RunoffRecord, RunoffFileEnds, InRunoffLoop, ReportGrid,
              ReportStepsLongEnough, Due, routingClock
<1>3. CASE EndStep
  BY <1>3, EndStepGrid
<1>4. CASE Complete \/ EndEarly
  BY <1>4 DEF Complete, EndEarly, ReportGrid, ReportStepsLongEnough, Due, routingClock
<1>5. CASE Reopen
  <2>1. PICK o \in Options : StartRun(o)
    BY <1>5 DEF Reopen
  <2>2. opt' \in OptionRecord
    BY <2>1, ReconciledType, ClockAssumption DEF StartRun
  <2>3. opt'.report_step \in Nat \ {0} /\ opt'.report_step % opt'.report_step = 0
    BY <2>2 DEF OptionRecord
  <2>4. elapsed' = 0 /\ reports' = <<>> /\ pc' = "idle" /\ next_report' = opt'.report_step
    BY <2>1 DEF StartRun
  <2>5. Due' = {} /\ {reports'[i] : i \in DOMAIN reports'} = {}
    BY <2>4 DEF Due
  <2> QED
    BY <2>3, <2>4, <2>5 DEF ReportGrid
<1>6. CASE UNCHANGED clockVars
  BY <1>6 DEF clockVars, routingClock, ReportGrid, ReportStepsLongEnough, Due
<1> QED
  BY <1>1, <1>2, <1>3, <1>4, <1>5, <1>6 DEF ClockNext, StepCall

\* postOutputSnapshot(): if no report step is shorter than a routing step, every
\* instant of the report grid from REPORT_START on is reported when the clock has
\* passed it, once and in its turn, in every run of a handle.
THEOREM EveryPeriodCorrect == ClockSpec => []EveryPeriodReported
<1>1. ClockInit => ReportGrid
  <2> SUFFICES ASSUME ClockInit PROVE ReportGrid
    OBVIOUS
  <2>1. PICK o \in Options : opt = Reconciled(o)
    BY DEF ClockInit
  <2>2. opt \in OptionRecord
    BY <2>1, ReconciledType, ClockAssumption
  <2> QED
    BY <2>2, FreshGrid DEF ClockInit
<1>2. ReportGrid => EveryPeriodReported
  BY DEF ReportGrid, EveryPeriodReported
<1> QED
  BY <1>1, <1>2, StepGrid, ClockInvariant, PTL DEF ClockSpec
=============================================================================
