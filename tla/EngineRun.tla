------------------------------ MODULE EngineRun ------------------------------
(***************************************************************************)
(* swmm_engine_run() (src/engine/core/openswmm_engine_impl.cpp): a whole    *)
(* simulation on a handle of its own, as the command line and most clients  *)
(* run it. It composes a client of fixed order with EngineSession, and says *)
(* what the files look like once it has returned.                           *)
(***************************************************************************)
EXTENDS EngineSession

VARIABLES
    next_call,  \* the next call swmm_engine_run() makes
    result      \* "none" until a call fails or the step loop ends

runVars == <<vars, next_call, result>>

RunInit ==
    /\ Init
    /\ state = "CREATED"
    /\ next_call = "open"
    /\ result = "none"

\* After open() failed the handle is only destroyed, after initialize() or
\* start() failed it is closed first.
RunOpen ==
    /\ next_call = "open"
    /\ Open
    /\ IF state' = "OPENED"
       THEN next_call' = "initialize" /\ UNCHANGED result
       ELSE next_call' = "destroy" /\ result' = "error"

RunInitialize ==
    /\ next_call = "initialize"
    /\ \/ Initialize /\ next_call' = "start" /\ UNCHANGED result
       \/ InitializeFails /\ next_call' = "close" /\ result' = "error"

RunStart ==
    /\ next_call = "start"
    /\ \/ /\ \E fo \in OutputSets, fr \in ReportSets : StartRun(TRUE, fo, fr)
          /\ next_call' = "step"
          /\ UNCHANGED result
       \/ /\ \/ StartNoFile(TRUE)
             \/ \E fo \in OutputSets, fr \in ReportSets : StartNotPrepared(TRUE, fo, fr)
          /\ next_call' = "close"
          /\ result' = "error"

\* The loop ends with the call of step() that finds the simulation complete.
RunStep ==
    /\ next_call = "step"
    /\ \/ StepReport /\ UNCHANGED <<next_call, result>>
       \/ StepComplete /\ next_call' = "end" /\ result' = "ok"

RunEnd     == next_call = "end" /\ EndCall /\ next_call' = "report" /\ UNCHANGED result
RunReport(fr) == next_call = "report" /\ Report(fr) /\ next_call' = "close" /\ UNCHANGED result
RunClose   == next_call = "close" /\ CloseCall /\ next_call' = "destroy" /\ UNCHANGED result
RunDestroy == next_call = "destroy" /\ DestroyCall /\ next_call' = "return" /\ UNCHANGED result

Returned == next_call = "return" /\ Gone /\ UNCHANGED <<next_call, result>>

Client ==
    \/ RunOpen \/ RunInitialize \/ RunStart \/ RunStep
    \/ RunEnd \/ (\E fr \in ReportSets : RunReport(fr)) \/ RunClose \/ RunDestroy

Background == (InCall \/ Finish \/ Writer \/ Wakeup) /\ UNCHANGED <<next_call, result>>

RunNext == Client \/ Background \/ Returned

\* The client does not wait for anybody between its calls; the step loop ends
\* because the clock reaches the end of the run (StepClock, EveryRunEnds).
RunFairness ==
    /\ WF_runVars(Client)
    /\ WF_runVars((InCall \/ Finish) /\ UNCHANGED <<next_call, result>>)
    /\ WF_runVars(Writer /\ UNCHANGED <<next_call, result>>)

RunSpec == RunInit /\ [][RunNext]_runVars /\ RunFairness
-----------------------------------------------------------------------------
HasReturned == state = "DESTROYED"

\* When swmm_engine_run() reports success, the .out it was asked for holds every
\* snapshot of the simulation in order and is sealed with their number, and no
\* report it was asked for is left as if the run had been interrupted.
SuccessMeansCompleteFiles ==
    HasReturned /\ result = "ok" =>
        /\ deck.out => /\ out_file.header
                       /\ out_file.periods = [i \in 1..posts[Controller] |-> <<Controller, i>>]
                       /\ out_file.footers = <<posts[Controller]>>
        /\ rpt_file \in {<<>>, <<"preamble", "results">>}

\* Whether it succeeds or fails, and at whichever call, swmm_engine_run() leaves
\* no interface file, no plugin and no thread behind. It leaves a stream of the
\* .out behind only if start() failed with the .out open, for the file of the
\* 2D surface could not be created.
NothingLeftBehind ==
    HasReturned =>
        /\ iface = {} /\ worker = "none" /\ output_plugins = <<>>
        /\ leaked # 0 => leaked = 1 /\ result = "error" /\ deck.out /\ deck.h5

\* swmm_engine_run() returns.
RunReturns == <>HasReturned
=============================================================================
