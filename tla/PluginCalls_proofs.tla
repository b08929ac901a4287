-------------------------- MODULE PluginCalls_proofs --------------------------
(***************************************************************************)
(* What holds of the plugin layer for every number of [PLUGINS] rows, of    *)
(* rounds and of snapshots, in whatever order the factory is called: the    *)
(* footer of the .out, the ending of the .rpt, and that a finalized plugin  *)
(* stays as it is.                                                          *)
(***************************************************************************)
EXTENDS PluginCalls, Plugins_proofs

\* Before the plugins are validated none was finalized or holds a stream.
PhasesFollowStates ==
    /\ phase \in {"empty", "loaded", "initialized", "validated"}
    /\ loads \in Nat
    /\ phase = "empty" => output_plugins = <<>> /\ report_plugins = <<>>
    /\ phase \in {"loaded", "initialized"} =>
          /\ \A i \in DOMAIN output_plugins :
                ~output_plugins[i].open /\ output_plugins[i].state # "FINALIZED"
          /\ \A i \in DOMAIN report_plugins : ~report_plugins[i].open

PluginInv ==
    /\ FilesInv
    /\ PhasesFollowStates

-----------------------------------------------------------------------------
\* Nothing is loaded and nothing written at first.
LEMMA InitInv == CallInit => PluginInv
  BY DEF CallInit, PluginInit, PluginInv, FilesInv, PluginTypeOK, StreamsFollowStates,
         PhasesFollowStates, FooterCountsPeriods, ReportEndsOnce, RptOpen,
         AtMostOneBuiltin, NoFile

\* load_plugins() and add_*_plugin(), of an empty factory.
LEMMA LoadStep ==
    ASSUME PluginInv, NEW rows \in Nat, NEW out \in BOOLEAN, NEW rpt \in BOOLEAN,
           Load(rows, out, rpt)
    PROVE  PluginInv'
<1>1. /\ output_plugins = <<>> /\ report_plugins = <<>> /\ FilesInv
      /\ input_plugins \in Nat /\ loads \in Nat
  BY DEF PluginInv, PhasesFollowStates, Load, FilesInv, PluginTypeOK
<1> DEFINE h5 == FALSE
<1>2. /\ AddPlugins(rows, out, rpt, h5) /\ phase' = "loaded" /\ loads' = loads + 1
      /\ UNCHANGED <<input_plugins, out_file, rpt_file, leaked>>
      /\ h5 \in BOOLEAN
  BY DEF Load
<1> HIDE DEF h5
<1>3. /\ FilesInv'
      /\ \A i \in DOMAIN output_plugins' :
            ~output_plugins'[i].open /\ output_plugins'[i].state # "FINALIZED"
      /\ \A i \in DOMAIN report_plugins' : ~report_plugins'[i].open
  BY <1>1, <1>2, AddKeeps
<1> QED
  BY <1>1, <1>2, <1>3 DEF PluginInv, PhasesFollowStates

\* initialize_all(): the counts start at zero, no stream is open.
LEMMA InitializeStep ==
    ASSUME PluginInv, NEW fo, NEW fr, Initialize(fo, fr)
    PROVE  PluginInv'
<1>1. /\ output_plugins' = [i \in DOMAIN output_plugins |-> output_plugins'[i]]
      /\ report_plugins' = [i \in DOMAIN report_plugins |-> report_plugins'[i]]
      /\ \A i \in DOMAIN output_plugins :
            output_plugins'[i] = InitializeOutput(output_plugins[i], i \in fo)
      /\ \A i \in DOMAIN report_plugins :
            report_plugins'[i] = InitializeReport(report_plugins[i], i \in fr)
  BY DEF Initialize, InitializeAll, Each
<1>2. /\ \A i \in DOMAIN output_plugins : output_plugins[i] \in OutputPlugin
      /\ \A i \in DOMAIN report_plugins : report_plugins[i] \in ReportPlugin
      /\ "INITIALIZED" \in PluginStates /\ "VALIDATED" \in PluginStates
      /\ "ERROR" \in PluginStates
  BY DEF PluginInv, FilesInv, PluginTypeOK, PluginStates
<1>3. /\ \A i \in DOMAIN output_plugins :
            /\ output_plugins'[i] \in OutputPlugin
            /\ output_plugins'[i].builtin = output_plugins[i].builtin
            /\ output_plugins'[i].open = output_plugins[i].open
            /\ output_plugins'[i].state # "FINALIZED"
      /\ \A i \in DOMAIN report_plugins :
            /\ report_plugins'[i] \in ReportPlugin
            /\ report_plugins'[i].builtin = report_plugins[i].builtin
            /\ report_plugins'[i].open = report_plugins[i].open
  <2>1. ASSUME NEW i \in DOMAIN output_plugins
        PROVE  /\ output_plugins'[i] \in OutputPlugin
               /\ output_plugins'[i].builtin = output_plugins[i].builtin
               /\ output_plugins'[i].open = output_plugins[i].open
               /\ output_plugins'[i].state # "FINALIZED"
    <3>1. CASE output_plugins'[i] = [output_plugins[i] EXCEPT !.state = "INITIALIZED",
                                                             !.n_periods = 0]
      <4>1. 0 \in Nat
        OBVIOUS
      <4> QED
        BY <1>2, <2>1, <3>1, <4>1 DEF OutputPlugin
    <3>2. CASE output_plugins'[i] = [output_plugins[i] EXCEPT !.state = "ERROR"]
      BY <1>2, <2>1, <3>2 DEF OutputPlugin
    <3> QED
      BY <1>1, <2>1, <3>1, <3>2 DEF InitializeOutput, Failed
  <2>2. ASSUME NEW i \in DOMAIN report_plugins
        PROVE  /\ report_plugins'[i] \in ReportPlugin
               /\ report_plugins'[i].builtin = report_plugins[i].builtin
               /\ report_plugins'[i].open = report_plugins[i].open
    <3>1. CASE report_plugins'[i] = report_plugins[i]
      BY <1>2, <2>2, <3>1
    <3>2. CASE report_plugins'[i] = [report_plugins[i] EXCEPT !.state = "INITIALIZED"]
      BY <1>2, <2>2, <3>2 DEF ReportPlugin
    <3>3. CASE report_plugins'[i] = [report_plugins[i] EXCEPT !.state = "ERROR"]
      BY <1>2, <2>2, <3>3 DEF ReportPlugin
    <3> QED
      BY <1>1, <2>2, <3>1, <3>2, <3>3 DEF InitializeReport, Failed
  <2> QED
    BY <2>1, <2>2
<1>4. /\ output_plugins' \in Seq(OutputPlugin) /\ DOMAIN output_plugins' = DOMAIN output_plugins
      /\ report_plugins' \in Seq(ReportPlugin) /\ DOMAIN report_plugins' = DOMAIN report_plugins
  BY <1>1, <1>3, MappedList DEF PluginInv, FilesInv, PluginTypeOK
<1>5. /\ phase = "loaded" /\ phase' = "initialized" /\ UNCHANGED loads
      /\ UNCHANGED <<input_plugins, out_file, rpt_file, leaked>>
  BY DEF Initialize, InitializeAll
<1>6. PluginTypeOK'
  BY <1>3, <1>4, <1>5 DEF PluginInv, FilesInv, PluginTypeOK, AtMostOneBuiltin
<1>7. StreamsFollowStates' /\ PhasesFollowStates'
  BY <1>3, <1>4, <1>5 DEF PluginInv, FilesInv, StreamsFollowStates, PhasesFollowStates
<1>8. FooterCountsPeriods' /\ ReportEndsOnce'
  BY <1>3, <1>4, <1>5
  DEF PluginInv, FilesInv, PhasesFollowStates, FooterCountsPeriods, ReportEndsOnce, RptOpen
<1> QED
  BY <1>6, <1>7, <1>8 DEF PluginInv, FilesInv

\* validate_all() changes states only.
LEMMA ValidateStep ==
    ASSUME PluginInv, NEW fo, NEW fr, Validate(fo, fr)
    PROVE  PluginInv'
<1>1. /\ output_plugins' = [i \in DOMAIN output_plugins |-> output_plugins'[i]]
      /\ report_plugins' = [i \in DOMAIN report_plugins |-> report_plugins'[i]]
      /\ \A i \in DOMAIN output_plugins :
            output_plugins'[i] = ValidatePlugin(output_plugins[i], i \in fo)
      /\ \A i \in DOMAIN report_plugins :
            report_plugins'[i] = ValidatePlugin(report_plugins[i], i \in fr)
  BY DEF Validate, ValidateAll, Each
<1>2. /\ \A i \in DOMAIN output_plugins : output_plugins[i] \in OutputPlugin
      /\ \A i \in DOMAIN report_plugins : report_plugins[i] \in ReportPlugin
      /\ "INITIALIZED" \in PluginStates /\ "VALIDATED" \in PluginStates
      /\ "ERROR" \in PluginStates
  BY DEF PluginInv, FilesInv, PluginTypeOK, PluginStates
<1>3. /\ \A i \in DOMAIN output_plugins :
            /\ output_plugins'[i] \in OutputPlugin
            /\ output_plugins'[i].builtin = output_plugins[i].builtin
            /\ output_plugins'[i].open = output_plugins[i].open
      /\ \A i \in DOMAIN report_plugins :
            /\ report_plugins'[i] \in ReportPlugin
            /\ report_plugins'[i].builtin = report_plugins[i].builtin
            /\ report_plugins'[i].open = report_plugins[i].open
  <2>1. ASSUME NEW i \in DOMAIN output_plugins
        PROVE  /\ output_plugins'[i] \in OutputPlugin
               /\ output_plugins'[i].builtin = output_plugins[i].builtin
               /\ output_plugins'[i].open = output_plugins[i].open
    <3>1. CASE output_plugins'[i] = output_plugins[i]
      BY <1>2, <2>1, <3>1
    <3>2. CASE output_plugins'[i] = [output_plugins[i] EXCEPT !.state = "VALIDATED"]
      BY <1>2, <2>1, <3>2 DEF OutputPlugin
    <3>3. CASE output_plugins'[i] = [output_plugins[i] EXCEPT !.state = "ERROR"]
      BY <1>2, <2>1, <3>3 DEF OutputPlugin
    <3> QED
      BY <1>1, <2>1, <3>1, <3>2, <3>3 DEF ValidatePlugin, Failed
  <2>2. ASSUME NEW i \in DOMAIN report_plugins
        PROVE  /\ report_plugins'[i] \in ReportPlugin
               /\ report_plugins'[i].builtin = report_plugins[i].builtin
               /\ report_plugins'[i].open = report_plugins[i].open
    <3>1. CASE report_plugins'[i] = report_plugins[i]
      BY <1>2, <2>2, <3>1
    <3>2. CASE report_plugins'[i] = [report_plugins[i] EXCEPT !.state = "VALIDATED"]
      BY <1>2, <2>2, <3>2 DEF ReportPlugin
    <3>3. CASE report_plugins'[i] = [report_plugins[i] EXCEPT !.state = "ERROR"]
      BY <1>2, <2>2, <3>3 DEF ReportPlugin
    <3> QED
      BY <1>1, <2>2, <3>1, <3>2, <3>3 DEF ValidatePlugin, Failed
  <2> QED
    BY <2>1, <2>2
<1>4. /\ output_plugins' \in Seq(OutputPlugin) /\ DOMAIN output_plugins' = DOMAIN output_plugins
      /\ report_plugins' \in Seq(ReportPlugin) /\ DOMAIN report_plugins' = DOMAIN report_plugins
  BY <1>1, <1>3, MappedList DEF PluginInv, FilesInv, PluginTypeOK
<1>5. /\ phase = "initialized" /\ phase' = "validated" /\ UNCHANGED loads
      /\ UNCHANGED <<input_plugins, out_file, rpt_file, leaked>>
  BY DEF Validate, ValidateAll
<1>6. PluginTypeOK'
  BY <1>3, <1>4, <1>5 DEF PluginInv, FilesInv, PluginTypeOK, AtMostOneBuiltin
<1>7. StreamsFollowStates' /\ PhasesFollowStates'
  BY <1>3, <1>4, <1>5 DEF PluginInv, FilesInv, StreamsFollowStates, PhasesFollowStates
<1>8. FooterCountsPeriods' /\ ReportEndsOnce'
  BY <1>3, <1>4, <1>5
  DEF PluginInv, FilesInv, PhasesFollowStates, FooterCountsPeriods, ReportEndsOnce, RptOpen
<1> QED
  BY <1>6, <1>7, <1>8 DEF PluginInv, FilesInv

\* prepare_all(), of validated plugins.
LEMMA PrepareStep ==
    ASSUME PluginInv, NEW fo, NEW fr, Prepare(fo, fr)
    PROVE  PluginInv'
<1>1. PrepareAll(fo, fr) /\ phase = "validated" /\ UNCHANGED <<phase, loads>>
  BY DEF Prepare
<1>2. FilesInv'
  BY <1>1, PrepareKeeps DEF PluginInv
<1> QED
  BY <1>1, <1>2 DEF PluginInv, PhasesFollowStates

\* update_all().
LEMMA UpdateStep ==
    ASSUME PluginInv, NEW snapshot \in PeriodData, NEW fo, NEW fr, Update(snapshot, fo, fr)
    PROVE  PluginInv'
<1>1. UpdateAll(snapshot, fo, fr) /\ phase = "validated" /\ UNCHANGED <<phase, loads>>
  BY DEF Update
<1>2. FilesInv'
  BY <1>1, UpdateKeeps DEF PluginInv
<1> QED
  BY <1>1, <1>2 DEF PluginInv, PhasesFollowStates

\* finalize_all().
LEMMA FinalizeStep ==
    ASSUME PluginInv, NEW fo, NEW fr, Finalize(fo, fr)
    PROVE  PluginInv'
<1>1. FinalizeAll(fo, fr) /\ phase = "validated" /\ UNCHANGED <<phase, loads>>
  BY DEF Finalize
<1>2. FilesInv'
  BY <1>1, FinalizeKeeps DEF PluginInv
<1> QED
  BY <1>1, <1>2 DEF PluginInv, PhasesFollowStates

\* write_summary_all().
LEMMA WriteSummaryStep ==
    ASSUME PluginInv, NEW fr, WriteSummary(fr)
    PROVE  PluginInv'
<1>1. WriteSummaryAll(fr) /\ phase = "validated" /\ UNCHANGED <<phase, loads>>
  BY DEF WriteSummary
<1>2. FilesInv'
  BY <1>1, WriteSummaryKeeps DEF PluginInv
<1> QED
  BY <1>1, <1>2 DEF PluginInv, PhasesFollowStates

\* unload_all(): the factory is empty again.
LEMMA UnloadStep ==
    ASSUME PluginInv, Unload
    PROVE  PluginInv'
<1>1. UnloadAll /\ phase' = "empty" /\ UNCHANGED loads
  BY DEF Unload
<1>2. FilesInv'
  BY <1>1, UnloadKeeps DEF PluginInv
<1>3. output_plugins' = <<>> /\ report_plugins' = <<>>
  BY <1>1 DEF UnloadAll, RemainingOutputs
<1> QED
  BY <1>1, <1>2, <1>3 DEF PluginInv, PhasesFollowStates

-----------------------------------------------------------------------------
\* Every call of the factory keeps the invariant.
LEMMA StepInv == PluginInv /\ [CallNext]_callVars => PluginInv'
<1> SUFFICES ASSUME PluginInv, [CallNext]_callVars
             PROVE  PluginInv'
  OBVIOUS
<1>1. ASSUME NEW rows \in 0..MaxRows, NEW out \in BOOLEAN, NEW rpt \in BOOLEAN,
             Load(rows, out, rpt)
      PROVE  PluginInv'
  BY <1>1, LoadStep
<1>2. ASSUME NEW fo, NEW fr, CallAll(fo, fr)
      PROVE  PluginInv'
  BY <1>2, InitializeStep, ValidateStep, PrepareStep, UpdateStep, FinalizeStep,
     WriteSummaryStep DEF CallAll
<1>3. CASE Unload
  BY <1>3, UnloadStep
<1>4. CASE UNCHANGED callVars
  BY <1>4
  DEF callVars, pluginVars, PluginInv, FilesInv, PluginTypeOK, StreamsFollowStates,
      PhasesFollowStates, FooterCountsPeriods, ReportEndsOnce, RptOpen
<1> QED
  BY <1>1, <1>2, <1>3, <1>4 DEF CallNext

\* A plugin that was finalized is changed by no call: prepare_all and
\* update_all pass it over, and a second finalize_all finds no stream to close;
\* all that can happen is that this one fails.
LEMMA StepKeepsFinalized ==
    ASSUME PluginInv, CallNext, NEW i \in DOMAIN output_plugins \cap DOMAIN output_plugins',
           output_plugins[i].state = "FINALIZED"
    PROVE  output_plugins'[i] \in {output_plugins[i], Failed(output_plugins[i])}
<1>1. output_plugins[i] \in OutputPlugin
  BY DEF PluginInv, FilesInv, PluginTypeOK
<1>2. phase \notin {"empty", "loaded", "initialized"}
  BY DEF PluginInv, FilesInv, PhasesFollowStates
<1>3. output_plugins[i].open = FALSE
  BY <1>1 DEF PluginInv, FilesInv, StreamsFollowStates, OutputPlugin
<1>4. ASSUME NEW fo, NEW fr, Prepare(fo, fr)
      PROVE  output_plugins'[i] = output_plugins[i]
  BY <1>4 DEF Prepare, PrepareAll, Each, PrepareOutput
<1>5. ASSUME NEW snapshot \in PeriodData, NEW fo, NEW fr, Update(snapshot, fo, fr)
      PROVE  output_plugins'[i] = output_plugins[i]
  BY <1>5 DEF Update, UpdateAll, Each, UpdateOutput, TakesUpdates
<1>6. ASSUME NEW fo, NEW fr, Finalize(fo, fr)
      PROVE  output_plugins'[i] \in {output_plugins[i], Failed(output_plugins[i])}
  <2>1. CASE output_plugins'[i] = [output_plugins[i] EXCEPT !.state = "FINALIZED", !.open = FALSE]
    BY <1>1, <1>3, <2>1 DEF OutputPlugin
  <2>2. CASE output_plugins'[i] = Failed(output_plugins[i])
    BY <2>2
  <2> QED
    BY <1>6, <2>1, <2>2 DEF Finalize, FinalizeAll, FinalizeOutput, Each
<1>7. ASSUME NEW fr, WriteSummary(fr)
      PROVE  output_plugins'[i] = output_plugins[i]
  BY <1>7 DEF WriteSummary, WriteSummaryAll
<1>8. CASE Unload
  <2>1. output_plugins' = <<>>
    BY <1>8 DEF Unload, UnloadAll, RemainingOutputs
  <2> QED
    BY <2>1
<1> QED
  BY <1>2, <1>4, <1>5, <1>6, <1>7, <1>8 DEF CallNext, CallAll, Load, Initialize, Validate

-----------------------------------------------------------------------------
\* The inductive invariant of the plugin layer, whatever the order of calls.
THEOREM PluginsCorrect == CallSpec => []PluginInv
<1>1. CallInit => PluginInv
  BY InitInv
<1>2. PluginInv /\ [CallNext]_callVars => PluginInv'
  BY StepInv
<1> QED
  BY <1>1, <1>2, PTL DEF CallSpec

\* PluginFactory's lists keep their types, and each file has at most one
\* plugin that writes it.
THEOREM PluginTypeCorrect == CallSpec => []PluginTypeOK
<1>1. PluginInv => PluginTypeOK
  BY DEF PluginInv, FilesInv
<1> QED
  BY <1>1, PluginsCorrect, PTL

\* The footer of DefaultOutputPlugin's file counts the periods before it, in
\* whatever order the factory is called.
THEOREM FooterCorrect == CallSpec => []FooterCountsPeriods
<1>1. PluginInv => FooterCountsPeriods
  BY DEF PluginInv, FilesInv
<1> QED
  BY <1>1, PluginsCorrect, PTL

\* DefaultReportPlugin's file is ended exactly once, by its results or by the
\* notice of the destructor.
THEOREM ReportEndCorrect == CallSpec => []ReportEndsOnce
<1>1. PluginInv => ReportEndsOnce
  BY DEF PluginInv, FilesInv
<1> QED
  BY <1>1, PluginsCorrect, PTL

\* PluginFactory's later calls leave a finalized output plugin as it is, or
\* failed in a second finalize.
THEOREM FinalizedCorrect == CallSpec => FinalizedIsFinal
<1>1. PluginInv /\ [CallNext]_callVars =>
        [\A i \in DOMAIN output_plugins \cap DOMAIN output_plugins' :
            output_plugins[i].state = "FINALIZED" =>
                output_plugins'[i] \in {output_plugins[i],
                                        Failed(output_plugins[i])}]_pluginVars
  <2> SUFFICES ASSUME PluginInv, [CallNext]_callVars,
                      NEW i \in DOMAIN output_plugins \cap DOMAIN output_plugins',
                      output_plugins[i].state = "FINALIZED"
               PROVE  \/ output_plugins'[i] \in {output_plugins[i], Failed(output_plugins[i])}
                      \/ UNCHANGED pluginVars
    BY DEF pluginVars
  <2>1. CASE CallNext
    BY <2>1, StepKeepsFinalized
  <2>2. CASE UNCHANGED callVars
    BY <2>2 DEF callVars, pluginVars
  <2> QED
    BY <2>1, <2>2
<1> QED
  BY <1>1, PluginsCorrect, PTL DEF CallSpec, FinalizedIsFinal
=============================================================================
