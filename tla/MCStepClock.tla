----------------------------- MODULE MCStepClock -----------------------------
(* A millisecond of two ticks and a second of four: the smallest scale with  *)
(* steps below a millisecond, and runoff steps that are no whole number of   *)
(* routing steps.                                                            *)
EXTENDS StepClock

Opt(model, wet, dry, routing, minimum, report, start, total, gage, file) ==
    [routing_model |-> model, use_runoff |-> file, wet_step |-> wet,
     dry_step |-> dry, routing_step |-> routing, min_routing_step |-> minimum,
     report_step |-> report, report_start |-> start, total |-> total,
     gage_interval |-> gage]

RoutingModels == {"none", "fixed", "dynwave", "fv"}

\* Every clamp of validate_project(), wet steps below and above a second,
\* report grids that do and do not meet the steps, a report start.
RunOptions ==
    {Opt(model, wet, 8, routing, 2, report, start, 12, gage, file) :
        model \in RoutingModels, wet \in {2, 6},
        routing \in {1, 6}, report \in {5}, start \in {0, 8},
        gage \in {0, 4}, file \in BOOLEAN}

\* Two models of different length on one handle.
TwoRuns ==
    {Opt(model, wet, 8, 3, 2, 4, 0, total, 5, file) :
        model \in RoutingModels, wet \in {2, 10}, total \in {4, 8}, file \in BOOLEAN}

AllOptions == RunOptions \cup TwoRuns
==============================================================================
