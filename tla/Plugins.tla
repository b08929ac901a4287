------------------------------- MODULE Plugins -------------------------------
(***************************************************************************)
(* The plugin layer: PluginFactory (src/engine/plugins/PluginFactory.cpp)   *)
(* and the two built-in plugins it drives, DefaultOutputPlugin (the binary  *)
(* .out file) and DefaultReportPlugin (the .rpt file).                      *)
(*                                                                         *)
(* This module gives the state and one operator per PluginFactory call; who *)
(* calls them, and when, is PluginCalls (any order) or EngineSession (the   *)
(* engine). Plugins of other libraries are known by what the interface      *)
(* headers let them do: each call of each of them succeeds or returns        *)
(* non-zero, whatever the others do. Every [PLUGINS] library modelled       *)
(* provides an output and a report plugin. Files are abstracted to what is  *)
(* written to them: the .out to its header, its periods and its footers,    *)
(* the .rpt to its sections.                                                *)
(***************************************************************************)
EXTENDS Naturals, Sequences

CONSTANT PeriodData   \* the snapshots update_all may be called with

VARIABLES
    input_plugins,   \* number of input plugins
    output_plugins,  \* output_plugins_, in dispatch order
    report_plugins,  \* report_plugins_
    out_file,        \* what is in the .out file
    rpt_file,        \* the sections of the .rpt file
    leaked           \* FILE* streams of .out dropped without fclose

pluginVars == <<input_plugins, output_plugins, report_plugins, out_file,
                rpt_file, leaked>>

PluginStates == {"LOADED", "INITIALIZED", "VALIDATED", "PREPARED", "UPDATING",
                 "FINALIZED", "ERROR"}

\* builtin: the plugin is the one that writes the .out (the .rpt); open: it holds
\* a FILE*; n_periods: the updates a plugin took since its last prepare().
OutputPlugin == [builtin : BOOLEAN, state : PluginStates, open : BOOLEAN,
                 n_periods : Nat]
ReportPlugin == [builtin : BOOLEAN, state : PluginStates, open : BOOLEAN]

NoFile == [header |-> FALSE, periods |-> <<>>, footers |-> <<>>]

PluginInit ==
    /\ input_plugins = 0
    /\ output_plugins = <<>>
    /\ report_plugins = <<>>
    /\ out_file = NoFile
    /\ rpt_file = <<>>
    /\ leaked = 0

\* A call made of each plugin of a list in turn; failing: the places of those
\* that return non-zero.
Each(f(_, _), plugins, failing) ==
    [i \in DOMAIN plugins |-> f(plugins[i], i \in failing)]
Copies(e, n) == [i \in 1..n |-> e]

\* The built-in output plugin has the .out open.
OutOpen == \E i \in DOMAIN output_plugins : output_plugins[i].open
RptOpen == \E i \in DOMAIN report_plugins : report_plugins[i].open

-----------------------------------------------------------------------------
\* load_plugins(): n resolved [PLUGINS] rows. No lifecycle method is called.
Loaded(n) == Copies([builtin |-> FALSE, state |-> "LOADED", open |-> FALSE,
                     n_periods |-> 0], n)
LoadedReports(n) == Copies([builtin |-> FALSE, state |-> "LOADED",
                            open |-> FALSE], n)

\* add_output_plugin() / add_report_plugin() of the built-in plugins, which
\* open() has initialized and validated.
BuiltinOutput == [builtin |-> TRUE, state |-> "VALIDATED", open |-> FALSE,
                  n_periods |-> 0]
BuiltinReport == [builtin |-> TRUE, state |-> "VALIDATED", open |-> FALSE]

If(b, s) == IF b THEN s ELSE <<>>

\* Default2DOutputPlugin, which open() adds last, validated. The file it writes
\* is its own and left out; like a plugin of a library it may fail.
SurfaceOutput == [builtin |-> FALSE, state |-> "VALIDATED", open |-> FALSE,
                  n_periods |-> 0]

\* The plugins an open() adds: the [PLUGINS] rows, then the built-in ones for
\* the paths it was given, then the one for the OUTPUT_FILE of [2D_OPTIONS] (h5).
AddPlugins(rows, out, rpt, h5) ==
    /\ output_plugins' = output_plugins \o Loaded(rows) \o If(out, <<BuiltinOutput>>)
                                        \o If(h5, <<SurfaceOutput>>)
    /\ report_plugins' = report_plugins \o LoadedReports(rows) \o If(rpt, <<BuiltinReport>>)

-----------------------------------------------------------------------------
\* A non-zero return. The factory only remembers the code; a built-in plugin
\* stays in its state, a plugin written to its interface goes to ERROR.
Failed(p) == IF p.builtin THEN p ELSE [p EXCEPT !.state = "ERROR"]

\* In each call below, fo and fr are the output and the report plugins that fail
\* in it. Every plugin is called, also after one has failed.

\* initialize() of the built-in plugins does not fail.
InitializeOutput(p, fails) ==
    IF fails /\ ~p.builtin THEN Failed(p)
    ELSE [p EXCEPT !.state = "INITIALIZED", !.n_periods = 0]

InitializeReport(p, fails) ==
    IF fails /\ ~p.builtin THEN Failed(p) ELSE [p EXCEPT !.state = "INITIALIZED"]

\* initialize_all(): every plugin, whatever its state.
InitializeAll(fo, fr) ==
    /\ output_plugins' = Each(InitializeOutput, output_plugins, fo)
    /\ report_plugins' = Each(InitializeReport, report_plugins, fr)
    /\ UNCHANGED <<input_plugins, out_file, rpt_file, leaked>>

\* validate() of an initialized plugin; that of the built-in ones does not fail.
ValidatePlugin(p, fails) ==
    IF p.state # "INITIALIZED" THEN p
    ELSE IF fails /\ ~p.builtin THEN Failed(p)
    ELSE [p EXCEPT !.state = "VALIDATED"]

\* validate_all(): the initialized ones.
ValidateAll(fo, fr) ==
    /\ output_plugins' = Each(ValidatePlugin, output_plugins, fo)
    /\ report_plugins' = Each(ValidatePlugin, report_plugins, fr)
    /\ UNCHANGED <<input_plugins, out_file, rpt_file, leaked>>

\* DefaultOutputPlugin::prepare() truncates the file and writes the header;
\* if fopen fails the plugin stays validated.
PrepareOutput(p, fails) ==
    IF p.state # "VALIDATED" THEN p
    ELSE IF fails THEN Failed(p)
    ELSE [p EXCEPT !.state = "PREPARED", !.open = p.builtin, !.n_periods = 0]

\* DefaultReportPlugin::prepare() goes on without a file if fopen fails.
PrepareReport(p, fails) ==
    IF p.state # "VALIDATED" THEN p
    ELSE IF fails /\ ~p.builtin THEN Failed(p)
    ELSE [p EXCEPT !.state = "PREPARED", !.open = p.builtin /\ ~fails]

\* The .out file is truncated and gets its header ("wb").
PreparedFile_Appending == [out_file EXCEPT !.header = TRUE]
PreparedFile == [NoFile EXCEPT !.header = TRUE]

\* The built-in plugin of a list is prepared and its fopen succeeds.
FileStarted(plugins, failing) ==
    \E i \in DOMAIN plugins :
        plugins[i].builtin /\ plugins[i].state = "VALIDATED" /\ i \notin failing

\* prepare_all(): every validated plugin.
PrepareAll(fo, fr) ==
    /\ output_plugins' = Each(PrepareOutput, output_plugins, fo)
    /\ report_plugins' = Each(PrepareReport, report_plugins, fr)
    /\ out_file' = IF FileStarted(output_plugins, fo) THEN PreparedFile ELSE out_file
    /\ rpt_file' = IF FileStarted(report_plugins, fr) THEN <<"preamble">> ELSE rpt_file
    /\ UNCHANGED <<input_plugins, leaked>>

\* prepare_all() returns non-zero.
PrepareFails(fo, fr) ==
    \/ \E i \in DOMAIN output_plugins :
          output_plugins[i].state = "VALIDATED" /\ i \in fo
    \/ \E i \in DOMAIN report_plugins :
          report_plugins[i].state = "VALIDATED" /\ ~report_plugins[i].builtin /\ i \in fr

-----------------------------------------------------------------------------
TakesUpdates_AlsoFinalized(p) == p.state \in {"PREPARED", "UPDATING", "FINALIZED"}
TakesUpdates(p) == p.state \in {"PREPARED", "UPDATING"}

\* update() of the .out's plugin writes nothing without a FILE*.
UpdateOutput(p, fails) ==
    IF ~TakesUpdates(p) \/ (p.builtin /\ ~p.open) THEN p
    ELSE IF fails /\ ~p.builtin THEN Failed(p)
    ELSE [p EXCEPT !.state = "UPDATING", !.n_periods = @ + 1]

UpdateReport(p, fails) ==
    IF ~TakesUpdates(p) THEN p
    ELSE IF fails /\ ~p.builtin THEN Failed(p)
    ELSE [p EXCEPT !.state = "UPDATING"]

\* update_all(snapshot), on the writer thread.
UpdateAll(snapshot, fo, fr) ==
    LET OutUpdated == \E i \in DOMAIN output_plugins :
                         output_plugins[i].open /\ TakesUpdates(output_plugins[i])
    IN  /\ output_plugins' = Each(UpdateOutput, output_plugins, fo)
        /\ report_plugins' = Each(UpdateReport, report_plugins, fr)
        /\ out_file' = IF OutUpdated
                       THEN [out_file EXCEPT !.periods = Append(@, snapshot)]
                       ELSE out_file
        /\ UNCHANGED <<input_plugins, rpt_file, leaked>>

\* update_all() returns non-zero.
UpdateFails(fo, fr) ==
    \/ \E i \in DOMAIN output_plugins :
          LET p == output_plugins[i]
          IN  TakesUpdates(p) /\ IF p.builtin THEN ~p.open ELSE i \in fo
    \/ \E i \in DOMAIN report_plugins :
          TakesUpdates(report_plugins[i]) /\ ~report_plugins[i].builtin /\ i \in fr

-----------------------------------------------------------------------------
\* finalize() of an output plugin; the built-in one writes its footer and
\* closes the file, and does not fail.
FinalizeOutput_KeepsStream(p, fails) == [p EXCEPT !.state = "FINALIZED"]
FinalizeOutput(p, fails) ==
    IF fails /\ ~p.builtin THEN Failed(p)
    ELSE [p EXCEPT !.state = "FINALIZED", !.open = FALSE]

\* The report plugin only flushes: its file stays open for write_summary().
FinalizeReport(p, fails) ==
    IF fails /\ ~p.builtin THEN Failed(p) ELSE [p EXCEPT !.state = "FINALIZED"]

\* finalize_all(): every plugin, whatever its state.
FinalizeAll(fo, fr) ==
    LET Periods == {output_plugins[i].n_periods :
                        i \in {j \in DOMAIN output_plugins : output_plugins[j].open}}
    IN  /\ output_plugins' = Each(FinalizeOutput, output_plugins, fo)
        /\ report_plugins' = Each(FinalizeReport, report_plugins, fr)
        /\ out_file' = IF OutOpen
                       THEN [out_file EXCEPT !.footers =
                                Append(@, CHOOSE n \in Periods : TRUE)]
                       ELSE out_file
        /\ UNCHANGED <<input_plugins, rpt_file, leaked>>

\* write_summary() closes the report file.
SummarizeReport_KeepsStream(p, fails) == p
SummarizeReport(p, fails) ==
    IF fails /\ ~p.builtin THEN Failed(p) ELSE [p EXCEPT !.open = FALSE]

\* write_summary_all(). Without an open file the built-in plugin writes the
\* whole report anew, unless it cannot open it.
WriteSummaryAll(fr) ==
    LET Reopened == \E i \in DOMAIN report_plugins :
                       report_plugins[i].builtin /\ i \notin fr
    IN  /\ report_plugins' = Each(SummarizeReport, report_plugins, fr)
        /\ rpt_file' = IF RptOpen THEN Append(rpt_file, "results")
                       ELSE IF Reopened THEN <<"preamble", "results">>
                       ELSE rpt_file
        /\ UNCHANGED <<input_plugins, output_plugins, out_file, leaked>>

\* unload_all() deletes the plugins. The destructor of the report plugin ends
\* an open report; that of the output plugin is defaulted and drops its FILE*.
ReportDestructor == IF RptOpen THEN Append(rpt_file, "interrupted") ELSE rpt_file

RemainingOutputs == <<>>

UnloadAll ==
    /\ input_plugins' = 0
    /\ output_plugins' = RemainingOutputs
    /\ report_plugins' = <<>>
    /\ rpt_file' = ReportDestructor
    /\ leaked' = IF OutOpen THEN leaked + 1 ELSE leaked
    /\ UNCHANGED out_file

-----------------------------------------------------------------------------
AtMostOneBuiltin(plugins) ==
    /\ \A i, j \in DOMAIN plugins :
          plugins[i].builtin /\ plugins[j].builtin => i = j
    /\ \A i \in DOMAIN plugins : plugins[i].open => plugins[i].builtin

\* The types of the plugin lists and of the two files; a FILE* is held only by
\* a built-in plugin, and each file has at most one plugin that writes it.
PluginTypeOK ==
    /\ input_plugins \in Nat
    /\ output_plugins \in Seq(OutputPlugin)
    /\ report_plugins \in Seq(ReportPlugin)
    /\ out_file \in [header : BOOLEAN, periods : Seq(PeriodData), footers : Seq(Nat)]
    /\ rpt_file \in Seq({"preamble", "results", "interrupted"})
    /\ leaked \in Nat
    /\ AtMostOneBuiltin(output_plugins)
    /\ AtMostOneBuiltin(report_plugins)

\* The .out file is sealed once: it has at most one footer, the footer counts
\* the periods that precede it, and the running count of the plugin that still
\* writes the file is the number of periods in it (DefaultOutputPlugin.cpp,
\* n_periods_).
FooterCountsPeriods ==
    /\ out_file.footers \in {<<>>, <<Len(out_file.periods)>>}
    /\ \A i \in DOMAIN output_plugins :
          output_plugins[i].open =>
              /\ out_file.header
              /\ out_file.footers = <<>>
              /\ output_plugins[i].n_periods = Len(out_file.periods)

\* A report has one preamble and at most one ending, and it has none exactly
\* while a report plugin still holds it open: no completed report is marked as
\* interrupted, and no interrupted one is left unmarked.
ReportEndsOnce ==
    rpt_file \in IF RptOpen THEN {<<"preamble">>}
                 ELSE {<<>>, <<"preamble", "results">>, <<"preamble", "interrupted">>}

\* An output plugin that was finalized stays as it is until it is unloaded,
\* whatever is called: no late update reaches it, no second prepare reopens its
\* file. All a second finalize can do is fail.
FinalizedIsFinal ==
    [][\A i \in DOMAIN output_plugins \cap DOMAIN output_plugins' :
          output_plugins[i].state = "FINALIZED" =>
              output_plugins'[i] \in {output_plugins[i], Failed(output_plugins[i])}]_pluginVars
=============================================================================
