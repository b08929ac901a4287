----------------------------- MODULE PluginCalls -----------------------------
(***************************************************************************)
(* The plugin layer under any client: plugins are loaded and added, then    *)
(* initialized and validated, and from then on prepare_all, update_all,     *)
(* finalize_all and write_summary_all are called in any order and any       *)
(* number of times until unload_all, after which all of it may begin again. *)
(* PluginFactory.hpp asks its callers for an order ("call in order"); what  *)
(* holds here holds without their help.                                     *)
(***************************************************************************)
EXTENDS Plugins

CONSTANTS
    MaxRows,     \* bound: [PLUGINS] rows
    MaxPeriods,  \* bound: updates between two prepares
    MaxLoads     \* bound: rounds of load ... unload

VARIABLES
    phase,  \* "empty", "loaded", "initialized" or "validated"
    loads   \* rounds begun

callVars == <<pluginVars, phase, loads>>

CallInit ==
    /\ PluginInit
    /\ phase = "empty"
    /\ loads = 0

\* load_plugins() and add_*_plugin(). The surface plugin (FALSE) is to the factory
\* one more plugin that may fail: the rows stand for it here.
Load(rows, out, rpt) ==
    /\ phase = "empty"
    /\ loads < MaxLoads
    /\ AddPlugins(rows, out, rpt, FALSE)
    /\ phase' = "loaded"
    /\ loads' = loads + 1
    /\ UNCHANGED <<input_plugins, out_file, rpt_file, leaked>>

Initialize(fo, fr) ==
    /\ phase = "loaded"
    /\ InitializeAll(fo, fr)
    /\ phase' = "initialized"
    /\ UNCHANGED loads

Validate(fo, fr) ==
    /\ phase = "initialized"
    /\ ValidateAll(fo, fr)
    /\ phase' = "validated"
    /\ UNCHANGED loads

Prepare(fo, fr) ==
    /\ phase = "validated"
    /\ PrepareAll(fo, fr)
    /\ UNCHANGED <<phase, loads>>

Update(snapshot, fo, fr) ==
    /\ phase = "validated"
    /\ Len(out_file.periods) < MaxPeriods
    /\ \A i \in DOMAIN output_plugins : output_plugins[i].n_periods < MaxPeriods
    /\ UpdateAll(snapshot, fo, fr)
    /\ UNCHANGED <<phase, loads>>

Finalize(fo, fr) ==
    /\ phase = "validated"
    /\ FinalizeAll(fo, fr)
    /\ UNCHANGED <<phase, loads>>

WriteSummary(fr) ==
    /\ phase = "validated"
    /\ WriteSummaryAll(fr)
    /\ UNCHANGED <<phase, loads>>

Unload ==
    /\ phase # "empty"
    /\ UnloadAll
    /\ phase' = "empty"
    /\ UNCHANGED loads

\* A call of the factory, in which any of the plugins may fail.
CallAll(fo, fr) ==
    \/ Initialize(fo, fr)
    \/ Validate(fo, fr)
    \/ Prepare(fo, fr)
    \/ \E snapshot \in PeriodData : Update(snapshot, fo, fr)
    \/ Finalize(fo, fr)
    \/ WriteSummary(fr)

CallNext ==
    \/ \E rows \in 0..MaxRows, out, rpt \in BOOLEAN : Load(rows, out, rpt)
    \/ \E fo \in SUBSET DOMAIN output_plugins, fr \in SUBSET DOMAIN report_plugins :
          CallAll(fo, fr)
    \/ Unload

CallSpec == CallInit /\ [][CallNext]_callVars
=============================================================================
