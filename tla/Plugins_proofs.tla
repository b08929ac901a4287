---------------------------- MODULE Plugins_proofs ----------------------------
(***************************************************************************)
(* What each call of PluginFactory keeps of the plugin lists and of the two *)
(* built-in plugins' files, for every number of plugins and of periods.     *)
(* Nothing is assumed of the order of the calls: PluginCalls_proofs uses    *)
(* these lemmas for any client, EngineSession_proofs for the engine.        *)
(***************************************************************************)
EXTENDS Plugins, SequenceTheorems, TLAPS

\* A stream is held only in the states in which the plugin may still write
\* its file.
StreamsFollowStates ==
    /\ \A i \in DOMAIN output_plugins :
          output_plugins[i].open => output_plugins[i].state \in {"PREPARED", "UPDATING"}
    /\ \A i \in DOMAIN report_plugins :
          report_plugins[i].open =>
              report_plugins[i].state \in {"PREPARED", "UPDATING", "FINALIZED"}

\* What every call keeps: the types, which streams are open, and what is in the
\* two files.
FilesInv ==
    /\ PluginTypeOK
    /\ StreamsFollowStates
    /\ FooterCountsPeriods
    /\ ReportEndsOnce

-----------------------------------------------------------------------------
\* A list made from another one plugin by plugin keeps its length.
LEMMA MappedList ==
    ASSUME NEW S, NEW T, NEW s \in Seq(S), NEW t,
           t = [i \in DOMAIN s |-> t[i]],
           \A i \in DOMAIN s : t[i] \in T
    PROVE  t \in Seq(T) /\ DOMAIN t = DOMAIN s /\ Len(t) = Len(s)
<1>1. DOMAIN s = 1..Len(s) /\ Len(s) \in Nat
  OBVIOUS
<1>2. t \in [1..Len(s) -> T]
  BY <1>1
<1>3. t \in Seq(T)
  BY <1>1, <1>2
<1> QED
  BY <1>1, <1>2, <1>3

\* A list whose elements are all e, but for a last one behind n others.
RowsThen(list, T, e, last, n) ==
    /\ list \in Seq(T)
    /\ \A i \in DOMAIN list : list[i] = e \/ (i = n + 1 /\ list[i] = last)

\* The list of an open(): rows that are no built-in plugins, and at most one
\* behind them that is.
LEMMA AddedList ==
    ASSUME NEW T, NEW row \in T, NEW builtin \in T, NEW n \in Nat,
           NEW last \in {<<>>, <<builtin>>}
    PROVE  RowsThen(Copies(row, n) \o last, T, row, builtin, n)
<1> DEFINE copies == Copies(row, n)
           added == copies \o last
<1>1. copies \in Seq(T) /\ Len(copies) = n /\ \A i \in 1..n : copies[i] = row
  BY DEF Copies
<1>2. last \in Seq(T)
  <2>1. <<>> \in Seq(T) /\ <<builtin>> \in Seq(T)
    OBVIOUS
  <2> QED
    BY <2>1
<1>3. added = copies \o last
  OBVIOUS
<1> HIDE DEF copies, added
<1>4. Len(last) \in {0, 1} /\ \A i \in 1..Len(last) : i = 1 /\ last[i] = builtin
  <2>1. CASE last = <<>>
    BY <2>1
  <2>2. CASE last = <<builtin>>
    <3>1. Len(last) = 1 /\ last[1] = builtin
      BY <2>2
    <3> QED
      BY <3>1
  <2> QED
    BY <2>1, <2>2
<1>5. /\ added \in Seq(T) /\ Len(added) = n + Len(last)
      /\ \A i \in 1..Len(added) :
            added[i] = IF i <= n THEN copies[i] ELSE last[i - n]
  <2>1. /\ copies \o last \in Seq(T)
        /\ Len(copies \o last) = Len(copies) + Len(last)
        /\ \A i \in 1..Len(copies) + Len(last) :
              (copies \o last)[i] = IF i <= Len(copies) THEN copies[i]
                                    ELSE last[i - Len(copies)]
    BY <1>1, <1>2, ConcatProperties
  <2> QED
    BY <1>1, <1>3, <2>1
<1>6. DOMAIN added = 1..Len(added)
  BY <1>5
<1>7. ASSUME NEW i \in DOMAIN added
      PROVE  added[i] = row \/ (i = n + 1 /\ added[i] = builtin)
  <2>1. CASE i <= n
    <3>1. i \in 1..n /\ added[i] = copies[i]
      BY <1>4, <1>5, <1>6, <1>7, <2>1
    <3> QED
      BY <1>1, <3>1
  <2>2. CASE ~(i <= n)
    <3>1. i - n \in 1..Len(last) /\ added[i] = last[i - n]
      BY <1>4, <1>5, <1>6, <1>7, <2>2
    <3>2. i - n = 1 /\ last[i - n] = builtin
      BY <1>4, <3>1
    <3> QED
      BY <1>6, <3>1, <3>2
  <2> QED
    BY <2>1, <2>2
<1> QED
  BY <1>5, <1>7 DEF added, copies, RowsThen

\* A list with e behind it, or nothing.
ThenPerhaps(list, longer, T, e, there) ==
    /\ longer \in Seq(T)
    /\ \A i \in DOMAIN list : i \in DOMAIN longer /\ longer[i] = list[i]
    /\ \A i \in DOMAIN longer : i \in DOMAIN list \/ (there /\ longer[i] = e)

LEMMA ExtendedList ==
    ASSUME NEW T, NEW list \in Seq(T), NEW e \in T, NEW there \in BOOLEAN
    PROVE  ThenPerhaps(list, list \o If(there, <<e>>), T, e, there)
<1> DEFINE end == If(there, <<e>>)
           longer == list \o end
<1>1. end \in Seq(T) /\ Len(end) \in {0, 1} /\ (Len(end) = 1 => there /\ end[1] = e)
  <2>1. CASE there
    <3> DEFINE u == <<e>>
    <3>1. end = u
      BY <2>1 DEF If
    <3>2. u \in Seq(T) /\ Len(u) = 1 /\ u[1] = e
      OBVIOUS
    <3> HIDE DEF u, end
    <3> QED
      BY <2>1, <3>1, <3>2
  <2>2. CASE ~there
    <3>1. end = <<>>
      BY <2>2 DEF If
    <3>2. end \in Seq(T)
      BY <3>1
    <3>3. Len(end) = 0
      BY <3>1
    <3> HIDE DEF end
    <3> QED
      BY <3>2, <3>3
  <2> QED
    BY <2>1, <2>2
<1> HIDE DEF end
<1>2. /\ longer \in Seq(T) /\ Len(longer) = Len(list) + Len(end)
      /\ \A i \in 1..Len(list) + Len(end) :
            longer[i] = IF i <= Len(list) THEN list[i] ELSE end[i - Len(list)]
  BY <1>1, ConcatProperties
<1> HIDE DEF longer
<1>3. DOMAIN list = 1..Len(list) /\ Len(list) \in Nat /\ DOMAIN longer = 1..Len(longer)
  BY <1>2
<1>4. ASSUME NEW i \in DOMAIN list
      PROVE  i \in DOMAIN longer /\ longer[i] = list[i]
  BY <1>1, <1>2, <1>3, <1>4
<1>5. ASSUME NEW i \in DOMAIN longer
      PROVE  i \in DOMAIN list \/ (there /\ longer[i] = e)
  <2>1. CASE i <= Len(list)
    BY <1>1, <1>2, <1>3, <1>5, <2>1
  <2>2. CASE ~(i <= Len(list))
    <3>1. i - Len(list) = 1 /\ Len(end) = 1 /\ longer[i] = end[i - Len(list)]
      BY <1>1, <1>2, <1>3, <1>5, <2>2
    <3> QED
      BY <1>1, <3>1
  <2> QED
    BY <2>1, <2>2
<1>6. ThenPerhaps(list, longer, T, e, there)
  BY <1>2, <1>4, <1>5 DEF ThenPerhaps
<1> QED
  BY <1>6 DEF longer, end

\* Appending to a list of one gives the list of two.
LEMMA AppendedPair ==
    ASSUME NEW a, NEW b
    PROVE  Append(<<a>>, b) = <<a, b>>
<1> DEFINE s == Append(<<a>>, b)
           t == <<a, b>>
<1>1. <<a>> \in Seq({a, b}) /\ Len(<<a>>) = 1 /\ <<a>>[1] = a
  OBVIOUS
<1>2. s \in Seq({a, b}) /\ Len(s) = 2 /\ s[1] = a /\ s[2] = b
  <2> DEFINE u == <<a>>
  <2>1. u \in Seq({a, b}) /\ Len(u) = 1 /\ u[1] = a
    BY <1>1
  <2>2. s = Append(u, b)
    OBVIOUS
  <2> HIDE DEF u
  <2> QED
    BY <2>1, <2>2, AppendProperties
<1>3. t \in Seq({a, b}) /\ Len(t) = 2 /\ t[1] = a /\ t[2] = b
  OBVIOUS
<1> HIDE DEF s, t
<1>4. s = t
  BY <1>2, <1>3, SeqEqual
<1> QED
  BY <1>4 DEF s, t

-----------------------------------------------------------------------------
\* load_plugins() and add_*_plugin(): only the built-in plugin behind the rows may
\* write a file, and it has none open yet.
LEMMA AddKeeps ==
    ASSUME FilesInv, NEW rows \in Nat, NEW out \in BOOLEAN, NEW rpt \in BOOLEAN,
           NEW h5 \in BOOLEAN, output_plugins = <<>>, report_plugins = <<>>,
           AddPlugins(rows, out, rpt, h5), input_plugins' \in Nat,
           rpt_file' \in {rpt_file, <<"preamble", "interrupted">>},
           UNCHANGED <<out_file, leaked>>
    PROVE  /\ FilesInv'
           /\ \A i \in DOMAIN output_plugins' :
                 /\ ~output_plugins'[i].open /\ output_plugins'[i].state # "FINALIZED"
                 /\ output_plugins'[i].builtin => out
                 /\ output_plugins'[i].state = "VALIDATED" => output_plugins'[i].builtin \/ h5
           /\ \A i \in DOMAIN report_plugins' :
                 /\ ~report_plugins'[i].open
                 /\ report_plugins'[i].state = "VALIDATED" => report_plugins'[i].builtin
<1> DEFINE row == [builtin |-> FALSE, state |-> "LOADED", open |-> FALSE, n_periods |-> 0]
           reportRow == [builtin |-> FALSE, state |-> "LOADED", open |-> FALSE]
           outputs == Copies(row, rows) \o If(out, <<BuiltinOutput>>)
<1>1. /\ row \in OutputPlugin /\ BuiltinOutput \in OutputPlugin /\ SurfaceOutput \in OutputPlugin
      /\ reportRow \in ReportPlugin /\ BuiltinReport \in ReportPlugin
  BY DEF OutputPlugin, ReportPlugin, PluginStates, BuiltinOutput, BuiltinReport, SurfaceOutput
<1>3. /\ output_plugins' = outputs \o If(h5, <<SurfaceOutput>>)
      /\ report_plugins' = Copies(reportRow, rows) \o If(rpt, <<BuiltinReport>>)
  BY DEF AddPlugins, Loaded, LoadedReports, Copies, If
<1> HIDE DEF row, reportRow, outputs
<1>2. /\ If(out, <<BuiltinOutput>>) \in {<<>>, <<BuiltinOutput>>}
      /\ If(rpt, <<BuiltinReport>>) \in {<<>>, <<BuiltinReport>>}
  BY DEF If
<1>14. /\ outputs \in Seq(OutputPlugin)
       /\ \A i \in DOMAIN outputs :
             outputs[i] = row \/ (i = rows + 1 /\ outputs[i] = BuiltinOutput)
  <2> DEFINE last == If(out, <<BuiltinOutput>>)
  <2>1. last \in {<<>>, <<BuiltinOutput>>} /\ outputs = Copies(row, rows) \o last
    BY <1>2 DEF outputs
  <2> HIDE DEF last
  <2>2. RowsThen(Copies(row, rows) \o last, OutputPlugin, row, BuiltinOutput, rows)
    BY <1>1, <2>1, AddedList, Zenon
  <2> QED
    BY <2>1, <2>2 DEF RowsThen
<1>4. /\ output_plugins' \in Seq(OutputPlugin)
      /\ \A i \in DOMAIN output_plugins' :
            \/ output_plugins'[i] = row
            \/ i = rows + 1 /\ i \in DOMAIN outputs /\ output_plugins'[i] = BuiltinOutput
            \/ h5 /\ output_plugins'[i] = SurfaceOutput
  <2>1. ThenPerhaps(outputs, outputs \o If(h5, <<SurfaceOutput>>), OutputPlugin,
                    SurfaceOutput, h5)
    BY <1>1, <1>14, ExtendedList, Zenon
  <2>2. ThenPerhaps(outputs, output_plugins', OutputPlugin, SurfaceOutput, h5)
    BY <1>3, <2>1
  <2> QED
    BY <1>14, <2>2 DEF ThenPerhaps
<1>5. /\ report_plugins' \in Seq(ReportPlugin)
      /\ \A i \in DOMAIN report_plugins' :
            report_plugins'[i] = reportRow \/ (i = rows + 1 /\ report_plugins'[i] = BuiltinReport)
  <2> DEFINE last == If(rpt, <<BuiltinReport>>)
  <2>1. last \in {<<>>, <<BuiltinReport>>} /\ report_plugins' = Copies(reportRow, rows) \o last
    BY <1>2, <1>3
  <2> HIDE DEF last
  <2>2. RowsThen(Copies(reportRow, rows) \o last, ReportPlugin, reportRow, BuiltinReport, rows)
    BY <1>1, <2>1, AddedList, Zenon
  <2> QED
    BY <2>1, <2>2 DEF RowsThen
<1>6. /\ \A i \in DOMAIN output_plugins' :
            /\ ~output_plugins'[i].open /\ output_plugins'[i].state # "FINALIZED"
            /\ output_plugins'[i].builtin => i = rows + 1
            /\ output_plugins'[i].state = "VALIDATED" => output_plugins'[i].builtin \/ h5
      /\ \A i \in DOMAIN report_plugins' :
            /\ ~report_plugins'[i].open
            /\ report_plugins'[i].builtin => i = rows + 1
            /\ report_plugins'[i].state = "VALIDATED" => report_plugins'[i].builtin
  BY <1>4, <1>5 DEF row, reportRow, BuiltinOutput, BuiltinReport, SurfaceOutput
<1>7. AtMostOneBuiltin(output_plugins') /\ AtMostOneBuiltin(report_plugins')
  BY <1>6 DEF AtMostOneBuiltin
<1>8. ASSUME ~out PROVE \A i \in DOMAIN output_plugins' : ~output_plugins'[i].builtin
  <2>1. If(out, <<BuiltinOutput>>) = <<>>
    BY <1>8 DEF If
  <2>2. RowsThen(Copies(row, rows) \o <<>>, OutputPlugin, row, row, rows)
    BY <1>1, AddedList, Zenon
  <2>3. \A i \in DOMAIN outputs : outputs[i] = row
    BY <2>1, <2>2 DEF RowsThen, outputs
  <2>4. ASSUME NEW i \in DOMAIN output_plugins'
        PROVE  output_plugins'[i] \in {row, SurfaceOutput}
    <3>1. ThenPerhaps(outputs, outputs \o If(h5, <<SurfaceOutput>>), OutputPlugin,
                      SurfaceOutput, h5)
      BY <1>1, <1>14, ExtendedList, Zenon
    <3>2. ThenPerhaps(outputs, output_plugins', OutputPlugin, SurfaceOutput, h5)
      BY <1>3, <3>1
    <3> QED
      BY <2>3, <2>4, <3>2 DEF ThenPerhaps
  <2> QED
    BY <2>4 DEF row, SurfaceOutput
<1>9. ~RptOpen /\ ~RptOpen'
  BY <1>6 DEF RptOpen
<1>10. rpt_file' \in Seq({"preamble", "results", "interrupted"})
  <2>1. <<"preamble", "interrupted">> \in Seq({"preamble", "results", "interrupted"})
    OBVIOUS
  <2> QED
    BY <2>1 DEF FilesInv, PluginTypeOK
<1>11. PluginTypeOK'
  BY <1>4, <1>5, <1>7, <1>10 DEF FilesInv, PluginTypeOK, AtMostOneBuiltin
<1>12. StreamsFollowStates' /\ FooterCountsPeriods'
  BY <1>6 DEF FilesInv, StreamsFollowStates, FooterCountsPeriods
<1>13. ReportEndsOnce'
  BY <1>9 DEF FilesInv, ReportEndsOnce
<1> QED
  BY <1>6, <1>8, <1>11, <1>12, <1>13 DEF FilesInv

\* prepare_all(): the plugin that opens the .out starts it and its count anew,
\* and no other plugin has it open.
LEMMA PrepareKeeps ==
    ASSUME FilesInv, NEW fo, NEW fr, PrepareAll(fo, fr)
    PROVE  FilesInv'
<1>1. /\ output_plugins' = [i \in DOMAIN output_plugins |-> output_plugins'[i]]
      /\ report_plugins' = [i \in DOMAIN report_plugins |-> report_plugins'[i]]
      /\ \A i \in DOMAIN output_plugins :
            output_plugins'[i] = PrepareOutput(output_plugins[i], i \in fo)
      /\ \A i \in DOMAIN report_plugins :
            report_plugins'[i] = PrepareReport(report_plugins[i], i \in fr)
  BY DEF PrepareAll, Each
<1>2. ASSUME NEW i \in DOMAIN output_plugins
      PROVE  LET p == output_plugins[i]
                 q == output_plugins'[i]
             IN  /\ p \in OutputPlugin /\ q \in OutputPlugin
                 /\ q.builtin = p.builtin
                 /\ p.state # "VALIDATED" => q = p
                 /\ (p.state = "VALIDATED" /\ q.open) =>
                       /\ p.builtin /\ i \notin fo
                       /\ q.n_periods = 0 /\ q.state = "PREPARED"
  <2>1. output_plugins[i] \in OutputPlugin
    BY DEF FilesInv, PluginTypeOK
  <2>2. output_plugins[i].open => output_plugins[i].state \in {"PREPARED", "UPDATING"}
    BY DEF FilesInv, StreamsFollowStates
  <2>3. "PREPARED" \in PluginStates /\ "ERROR" \in PluginStates
    BY DEF PluginStates
  <2>4. CASE output_plugins[i].state # "VALIDATED"
    BY <1>1, <2>1, <2>4 DEF PrepareOutput
  <2>5. CASE output_plugins[i].state = "VALIDATED" /\ i \notin fo
    <3>1. output_plugins'[i] = [output_plugins[i] EXCEPT !.state = "PREPARED",
                                   !.open = output_plugins[i].builtin, !.n_periods = 0]
      BY <1>1, <2>5 DEF PrepareOutput
    <3>2. output_plugins'[i] = [builtin |-> output_plugins[i].builtin, state |-> "PREPARED",
                                open |-> output_plugins[i].builtin, n_periods |-> 0]
      BY <2>1, <3>1 DEF OutputPlugin
    <3> QED
      BY <2>1, <2>3, <2>5, <3>2 DEF OutputPlugin
  <2>6. CASE output_plugins[i].state = "VALIDATED" /\ i \in fo
    <3>1. output_plugins'[i] = Failed(output_plugins[i])
      BY <1>1, <2>6 DEF PrepareOutput
    <3> QED
      BY <2>1, <2>2, <2>3, <2>6, <3>1 DEF OutputPlugin, Failed
  <2> QED
    BY <2>4, <2>5, <2>6
<1>3. ASSUME NEW i \in DOMAIN report_plugins
      PROVE  LET p == report_plugins[i]
                 q == report_plugins'[i]
             IN  /\ q \in ReportPlugin
                 /\ q.builtin = p.builtin
                 /\ p.state # "VALIDATED" => q = p
                 /\ p.state = "VALIDATED" =>
                       ~p.open /\ (q.open <=> p.builtin /\ i \notin fr)
                 /\ q.open => q.state \in {"PREPARED", "UPDATING", "FINALIZED"}
  <2>1. report_plugins[i] \in ReportPlugin
    BY DEF FilesInv, PluginTypeOK
  <2>2. report_plugins[i].open =>
            report_plugins[i].state \in {"PREPARED", "UPDATING", "FINALIZED"}
    BY DEF FilesInv, StreamsFollowStates
  <2>3. "PREPARED" \in PluginStates /\ "ERROR" \in PluginStates
    BY DEF PluginStates
  <2>4. CASE report_plugins[i].state # "VALIDATED"
    BY <1>1, <2>1, <2>2, <2>4 DEF PrepareReport
  <2>5. CASE /\ report_plugins[i].state = "VALIDATED"
             /\ i \in fr /\ ~report_plugins[i].builtin
    <3>1. report_plugins'[i] = [report_plugins[i] EXCEPT !.state = "ERROR"]
      BY <1>1, <2>5 DEF PrepareReport, Failed
    <3> QED
      BY <2>1, <2>2, <2>3, <2>5, <3>1 DEF ReportPlugin
  <2>6. CASE /\ report_plugins[i].state = "VALIDATED"
             /\ ~(i \in fr /\ ~report_plugins[i].builtin)
    <3> DEFINE opened == report_plugins[i].builtin /\ ~(i \in fr)
    <3>1. report_plugins'[i] = [report_plugins[i] EXCEPT !.state = "PREPARED",
                                   !.open = opened]
      BY <1>1, <2>6 DEF PrepareReport
    <3>2. opened \in BOOLEAN
      OBVIOUS
    <3>3. opened <=> report_plugins[i].builtin /\ i \notin fr
      OBVIOUS
    <3> HIDE DEF opened
    <3> QED
      BY <2>1, <2>2, <2>3, <2>6, <3>1, <3>2, <3>3 DEF ReportPlugin
  <2> QED
    BY <2>4, <2>5, <2>6
<1>4. /\ output_plugins' \in Seq(OutputPlugin) /\ DOMAIN output_plugins' = DOMAIN output_plugins
      /\ report_plugins' \in Seq(ReportPlugin) /\ DOMAIN report_plugins' = DOMAIN report_plugins
  BY <1>1, <1>2, <1>3, MappedList DEF FilesInv, PluginTypeOK
<1>5. /\ UNCHANGED <<input_plugins, leaked>>
      /\ out_file' = IF \E i \in DOMAIN output_plugins :
                           /\ output_plugins[i].builtin
                           /\ output_plugins[i].state = "VALIDATED" /\ i \notin fo
                     THEN PreparedFile ELSE out_file
      /\ rpt_file' = IF \E i \in DOMAIN report_plugins :
                           /\ report_plugins[i].builtin
                           /\ report_plugins[i].state = "VALIDATED" /\ i \notin fr
                     THEN <<"preamble">> ELSE rpt_file
  BY DEF PrepareAll, FileStarted
<1>6. /\ PreparedFile \in [header : BOOLEAN, periods : Seq(PeriodData), footers : Seq(Nat)]
      /\ PreparedFile.header /\ PreparedFile.periods = <<>> /\ PreparedFile.footers = <<>>
  <2>1. NoFile \in [header : BOOLEAN, periods : Seq(PeriodData), footers : Seq(Nat)]
    <3>1. <<>> \in Seq(PeriodData) /\ <<>> \in Seq(Nat)
      OBVIOUS
    <3> QED
      BY <3>1 DEF NoFile
  <2>2. NoFile.periods = <<>> /\ NoFile.footers = <<>>
    BY DEF NoFile
  <2>3. PreparedFile = [NoFile EXCEPT !.header = TRUE]
    BY DEF PreparedFile
  <2> QED
    BY <2>1, <2>2, <2>3
<1>7. AtMostOneBuiltin(output_plugins)' /\ AtMostOneBuiltin(report_plugins)'
  <2>1. AtMostOneBuiltin(output_plugins) /\ AtMostOneBuiltin(report_plugins)
    BY DEF FilesInv, PluginTypeOK
  <2> QED
    BY <1>2, <1>3, <1>4, <2>1 DEF AtMostOneBuiltin
<1>8. PluginTypeOK'
  <2>1. out_file' \in [header : BOOLEAN, periods : Seq(PeriodData), footers : Seq(Nat)]
    BY <1>5, <1>6 DEF FilesInv, PluginTypeOK
  <2>2. rpt_file' \in Seq({"preamble", "results", "interrupted"})
    <3>1. <<"preamble">> \in Seq({"preamble", "results", "interrupted"})
      OBVIOUS
    <3> QED
      BY <1>5, <3>1 DEF FilesInv, PluginTypeOK
  <2> QED
    BY <1>4, <1>5, <1>7, <2>1, <2>2 DEF FilesInv, PluginTypeOK
<1>9. StreamsFollowStates'
  BY <1>2, <1>3, <1>4 DEF FilesInv, StreamsFollowStates
<1>11. FooterCountsPeriods'
  <2>1. CASE out_file' = PreparedFile
    <3>1. ASSUME NEW i \in DOMAIN output_plugins', output_plugins'[i].open
          PROVE  output_plugins'[i].n_periods = 0
      <4>1. CASE output_plugins[i].state = "VALIDATED"
        BY <1>2, <1>4, <3>1, <4>1
      <4>2. CASE output_plugins[i].state # "VALIDATED"
        <5>1. output_plugins'[i] = output_plugins[i] /\ output_plugins[i].open
              /\ output_plugins[i].builtin
          BY <1>2, <1>4, <3>1, <4>2 DEF FilesInv, PluginTypeOK, AtMostOneBuiltin
        <5>2. CASE \E j \in DOMAIN output_plugins :
                      output_plugins[j].builtin /\ output_plugins[j].state = "VALIDATED"
          BY <1>4, <3>1, <4>2, <5>1, <5>2 DEF FilesInv, PluginTypeOK, AtMostOneBuiltin
        <5>3. CASE out_file' = out_file
          BY <1>4, <1>6, <2>1, <3>1, <5>1, <5>3 DEF FilesInv, FooterCountsPeriods
        <5> QED
          BY <1>5, <5>2, <5>3
      <4> QED
        BY <4>1, <4>2
    <3> QED
      BY <1>6, <2>1, <3>1 DEF FooterCountsPeriods
  <2>2. CASE out_file' # PreparedFile
    <3>1. out_file' = out_file
      BY <1>5, <2>2
    <3>2. ASSUME NEW i \in DOMAIN output_plugins', output_plugins'[i].open
          PROVE  output_plugins[i].open /\ output_plugins'[i] = output_plugins[i]
      <4>1. output_plugins[i].state # "VALIDATED"
        BY <1>2, <1>4, <1>5, <2>2, <3>2
      <4> QED
        BY <1>2, <1>4, <3>2, <4>1
    <3> QED
      BY <1>4, <3>1, <3>2 DEF FilesInv, FooterCountsPeriods
  <2> QED
    BY <2>1, <2>2
<1>12. ReportEndsOnce'
  <2>1. CASE \E i \in DOMAIN report_plugins :
                   /\ report_plugins[i].builtin
                   /\ report_plugins[i].state = "VALIDATED" /\ i \notin fr
    <3>1. RptOpen'
      BY <1>3, <1>4, <2>1 DEF RptOpen
    <3> QED
      BY <1>5, <2>1, <3>1 DEF ReportEndsOnce
  <2>2. CASE ~\E i \in DOMAIN report_plugins :
                   /\ report_plugins[i].builtin
                   /\ report_plugins[i].state = "VALIDATED" /\ i \notin fr
    <3>1. rpt_file' = rpt_file
      BY <1>5, <2>2
    <3>2. \A i \in DOMAIN report_plugins : report_plugins'[i].open = report_plugins[i].open
      <4>1. ASSUME NEW i \in DOMAIN report_plugins, report_plugins[i].state = "VALIDATED"
            PROVE  ~report_plugins'[i].open /\ ~report_plugins[i].open
        BY <1>3, <2>2, <4>1
      <4>2. ASSUME NEW i \in DOMAIN report_plugins, report_plugins[i].state = "VALIDATED"
            PROVE  report_plugins'[i].open = FALSE /\ report_plugins[i].open = FALSE
        BY <1>3, <4>1, <4>2 DEF FilesInv, PluginTypeOK, ReportPlugin
      <4> QED
        BY <1>3, <4>2
    <3>3. RptOpen' = RptOpen
      BY <1>4, <3>2 DEF RptOpen
    <3> QED
      BY <3>1, <3>3 DEF FilesInv, ReportEndsOnce
  <2> QED
    BY <2>1, <2>2
<1> QED
  BY <1>8, <1>9, <1>11, <1>12 DEF FilesInv

\* update_all(): the period written and the count of the plugin that writes it
\* go together.
LEMMA UpdateKeeps ==
    ASSUME FilesInv, NEW snapshot \in PeriodData, NEW fo, NEW fr,
           UpdateAll(snapshot, fo, fr)
    PROVE  FilesInv'
<1>1. /\ output_plugins' = [i \in DOMAIN output_plugins |-> output_plugins'[i]]
      /\ report_plugins' = [i \in DOMAIN report_plugins |-> report_plugins'[i]]
      /\ \A i \in DOMAIN output_plugins :
            output_plugins'[i] = UpdateOutput(output_plugins[i], i \in fo)
      /\ \A i \in DOMAIN report_plugins :
            report_plugins'[i] = UpdateReport(report_plugins[i], i \in fr)
  BY DEF UpdateAll, Each
<1>2. ASSUME NEW i \in DOMAIN output_plugins
      PROVE  LET p == output_plugins[i]
                 q == output_plugins'[i]
             IN  /\ p \in OutputPlugin /\ q \in OutputPlugin
                 /\ q.builtin = p.builtin /\ q.open = p.open
                 /\ p.open => /\ p.state \in {"PREPARED", "UPDATING"}
                              /\ q.state = "UPDATING" /\ q.n_periods = p.n_periods + 1
  <2>1. output_plugins[i] \in OutputPlugin
    BY DEF FilesInv, PluginTypeOK
  <2>2. /\ output_plugins[i].open => output_plugins[i].state \in {"PREPARED", "UPDATING"}
        /\ output_plugins[i].open => output_plugins[i].builtin
    BY DEF FilesInv, StreamsFollowStates, PluginTypeOK, AtMostOneBuiltin
  <2>3. "UPDATING" \in PluginStates /\ "ERROR" \in PluginStates
    BY DEF PluginStates
  <2>4. CASE output_plugins'[i] = output_plugins[i] /\ ~output_plugins[i].open
    BY <2>1, <2>4
  <2>5. CASE output_plugins'[i] = [output_plugins[i] EXCEPT !.state = "UPDATING",
                                      !.n_periods = output_plugins[i].n_periods + 1]
    <3>1. output_plugins[i].n_periods + 1 \in Nat
      BY <2>1 DEF OutputPlugin
    <3>2. output_plugins'[i] = [builtin |-> output_plugins[i].builtin, state |-> "UPDATING",
                                open |-> output_plugins[i].open,
                                n_periods |-> output_plugins[i].n_periods + 1]
      BY <2>1, <2>5 DEF OutputPlugin
    <3> QED
      BY <2>1, <2>2, <2>3, <3>1, <3>2 DEF OutputPlugin
  <2>6. CASE output_plugins'[i] = Failed(output_plugins[i]) /\ ~output_plugins[i].open
    BY <2>1, <2>3, <2>6 DEF OutputPlugin, Failed
  <2> QED
    BY <1>1, <2>2, <2>4, <2>5, <2>6 DEF UpdateOutput, TakesUpdates
<1>3. ASSUME NEW i \in DOMAIN report_plugins
      PROVE  LET p == report_plugins[i]
                 q == report_plugins'[i]
             IN  /\ q \in ReportPlugin
                 /\ q.builtin = p.builtin /\ q.open = p.open
                 /\ q.open => q.state \in {"PREPARED", "UPDATING", "FINALIZED"}
  <2>1. report_plugins[i] \in ReportPlugin
    BY DEF FilesInv, PluginTypeOK
  <2>2. report_plugins[i].open =>
            report_plugins[i].state \in {"PREPARED", "UPDATING", "FINALIZED"}
    BY DEF FilesInv, StreamsFollowStates
  <2>3. "UPDATING" \in PluginStates /\ "ERROR" \in PluginStates
    BY DEF PluginStates
  <2>4. report_plugins[i].open => report_plugins[i].builtin
    BY DEF FilesInv, PluginTypeOK, AtMostOneBuiltin
  <2>5. CASE report_plugins'[i] = report_plugins[i]
    BY <2>1, <2>2, <2>5
  <2>6. CASE report_plugins'[i] = [report_plugins[i] EXCEPT !.state = "UPDATING"]
    BY <2>1, <2>3, <2>6 DEF ReportPlugin
  <2>7. CASE /\ report_plugins'[i] = [report_plugins[i] EXCEPT !.state = "ERROR"]
             /\ ~report_plugins[i].builtin
    BY <2>1, <2>3, <2>4, <2>7 DEF ReportPlugin
  <2> QED
    BY <1>1, <2>5, <2>6, <2>7 DEF UpdateReport, Failed
<1>4. /\ output_plugins' \in Seq(OutputPlugin) /\ DOMAIN output_plugins' = DOMAIN output_plugins
      /\ report_plugins' \in Seq(ReportPlugin) /\ DOMAIN report_plugins' = DOMAIN report_plugins
  BY <1>1, <1>2, <1>3, MappedList DEF FilesInv, PluginTypeOK
<1>5. /\ UNCHANGED <<input_plugins, rpt_file, leaked>>
      /\ out_file' = IF \E i \in DOMAIN output_plugins :
                           /\ output_plugins[i].open
                           /\ output_plugins[i].state \in {"PREPARED", "UPDATING"}
                     THEN [out_file EXCEPT !.periods = Append(@, snapshot)]
                     ELSE out_file
  BY DEF UpdateAll, TakesUpdates
<1>6. out_file \in [header : BOOLEAN, periods : Seq(PeriodData), footers : Seq(Nat)]
  BY DEF FilesInv, PluginTypeOK
<1>7. /\ FooterCountsPeriods'
      /\ out_file' \in [header : BOOLEAN, periods : Seq(PeriodData), footers : Seq(Nat)]
  <2>1. CASE \E i \in DOMAIN output_plugins : output_plugins[i].open
    <3>1. out_file' = [out_file EXCEPT !.periods = Append(out_file.periods, snapshot)]
      BY <1>2, <1>5, <2>1
    <3>2. Append(out_file.periods, snapshot) \in Seq(PeriodData)
          /\ Len(Append(out_file.periods, snapshot)) = Len(out_file.periods) + 1
      BY <1>6
    <3> DEFINE periods == Append(out_file.periods, snapshot)
    <3> HIDE DEF periods
    <3>3. /\ out_file'.header = out_file.header /\ out_file'.footers = out_file.footers
          /\ out_file'.periods = periods
          /\ out_file' \in [header : BOOLEAN, periods : Seq(PeriodData), footers : Seq(Nat)]
      BY <1>6, <3>1, <3>2 DEF periods
    <3>4. Len(out_file'.periods) = Len(out_file.periods) + 1
      BY <3>2, <3>3 DEF periods
    <3>5. out_file.footers = <<>> /\ out_file.header
      BY <2>1 DEF FilesInv, FooterCountsPeriods
    <3>6. \A i \in DOMAIN output_plugins' :
             output_plugins'[i].open => output_plugins'[i].n_periods = Len(out_file'.periods)
      BY <1>2, <1>4, <3>4 DEF FilesInv, FooterCountsPeriods
    <3> QED
      BY <3>3, <3>5, <3>6 DEF FooterCountsPeriods
  <2>2. CASE ~\E i \in DOMAIN output_plugins : output_plugins[i].open
    <3>1. out_file' = out_file
      BY <1>5, <2>2
    <3> QED
      BY <1>2, <1>4, <1>6, <2>2, <3>1 DEF FilesInv, FooterCountsPeriods
  <2> QED
    BY <2>1, <2>2
<1>8. PluginTypeOK'
  <2>1. AtMostOneBuiltin(output_plugins)' /\ AtMostOneBuiltin(report_plugins)'
    BY <1>2, <1>3, <1>4 DEF FilesInv, PluginTypeOK, AtMostOneBuiltin
  <2> QED
    BY <1>4, <1>5, <1>7, <2>1 DEF FilesInv, PluginTypeOK
<1>9. StreamsFollowStates'
  BY <1>2, <1>3, <1>4, <1>5 DEF FilesInv, StreamsFollowStates
<1>10. ReportEndsOnce'
  <2>1. RptOpen' = RptOpen
    BY <1>3, <1>4 DEF RptOpen
  <2> QED
    BY <1>5, <2>1 DEF FilesInv, ReportEndsOnce
<1> QED
  BY <1>7, <1>8, <1>9, <1>10 DEF FilesInv

\* finalize_all(): the footer is the count of the plugin that held the .out,
\* which is the number of its periods.
LEMMA FinalizeKeeps ==
    ASSUME FilesInv, NEW fo, NEW fr, FinalizeAll(fo, fr)
    PROVE  FilesInv'
<1>1. /\ output_plugins' = [i \in DOMAIN output_plugins |-> output_plugins'[i]]
      /\ report_plugins' = [i \in DOMAIN report_plugins |-> report_plugins'[i]]
      /\ \A i \in DOMAIN output_plugins :
            output_plugins'[i] = FinalizeOutput(output_plugins[i], i \in fo)
      /\ \A i \in DOMAIN report_plugins :
            report_plugins'[i] = FinalizeReport(report_plugins[i], i \in fr)
  BY DEF FinalizeAll, Each
<1>2. ASSUME NEW i \in DOMAIN output_plugins
      PROVE  /\ output_plugins[i] \in OutputPlugin /\ output_plugins'[i] \in OutputPlugin
             /\ output_plugins'[i].builtin = output_plugins[i].builtin
             /\ ~output_plugins'[i].open
  <2>1. output_plugins[i] \in OutputPlugin
    BY DEF FilesInv, PluginTypeOK
  <2>2. "FINALIZED" \in PluginStates /\ "ERROR" \in PluginStates
    BY DEF PluginStates
  <2>3. output_plugins[i].open => output_plugins[i].builtin
    BY DEF FilesInv, PluginTypeOK, AtMostOneBuiltin
  <2>4. CASE output_plugins'[i] = [output_plugins[i] EXCEPT !.state = "FINALIZED",
                                                            !.open = FALSE]
    <3>1. output_plugins'[i] = [builtin |-> output_plugins[i].builtin, state |-> "FINALIZED",
                                open |-> FALSE, n_periods |-> output_plugins[i].n_periods]
      BY <2>1, <2>4 DEF OutputPlugin
    <3> QED
      BY <2>1, <2>2, <3>1 DEF OutputPlugin
  <2>5. CASE /\ output_plugins'[i] = [output_plugins[i] EXCEPT !.state = "ERROR"]
             /\ ~output_plugins[i].builtin
    BY <2>1, <2>2, <2>3, <2>5 DEF OutputPlugin
  <2> QED
    BY <1>1, <2>4, <2>5 DEF FinalizeOutput, Failed
<1>3. ASSUME NEW i \in DOMAIN report_plugins
      PROVE  /\ report_plugins'[i] \in ReportPlugin
             /\ report_plugins'[i].builtin = report_plugins[i].builtin
             /\ report_plugins'[i].open = report_plugins[i].open
             /\ report_plugins'[i].open => report_plugins'[i].state = "FINALIZED"
  <2>1. report_plugins[i] \in ReportPlugin
    BY DEF FilesInv, PluginTypeOK
  <2>2. "FINALIZED" \in PluginStates /\ "ERROR" \in PluginStates
    BY DEF PluginStates
  <2>3. report_plugins[i].open => report_plugins[i].builtin
    BY DEF FilesInv, PluginTypeOK, AtMostOneBuiltin
  <2>4. CASE report_plugins'[i] = [report_plugins[i] EXCEPT !.state = "FINALIZED"]
    BY <2>1, <2>2, <2>4 DEF ReportPlugin
  <2>5. CASE /\ report_plugins'[i] = [report_plugins[i] EXCEPT !.state = "ERROR"]
             /\ ~report_plugins[i].builtin
    BY <2>1, <2>2, <2>3, <2>5 DEF ReportPlugin
  <2> QED
    BY <1>1, <2>4, <2>5 DEF FinalizeReport, Failed
<1>4. /\ output_plugins' \in Seq(OutputPlugin) /\ DOMAIN output_plugins' = DOMAIN output_plugins
      /\ report_plugins' \in Seq(ReportPlugin) /\ DOMAIN report_plugins' = DOMAIN report_plugins
  BY <1>1, <1>2, <1>3, MappedList DEF FilesInv, PluginTypeOK
<1> DEFINE Periods == {output_plugins[i].n_periods :
                          i \in {j \in DOMAIN output_plugins : output_plugins[j].open}}
           footer == CHOOSE n \in Periods : TRUE
<1>5. /\ UNCHANGED <<input_plugins, rpt_file, leaked>>
      /\ out_file' = IF OutOpen THEN [out_file EXCEPT !.footers = Append(out_file.footers, footer)]
                     ELSE out_file
  BY DEF FinalizeAll
<1>6. out_file \in [header : BOOLEAN, periods : Seq(PeriodData), footers : Seq(Nat)]
  BY DEF FilesInv, PluginTypeOK
<1>7. /\ out_file' \in [header : BOOLEAN, periods : Seq(PeriodData), footers : Seq(Nat)]
      /\ out_file'.footers \in {<<>>, <<Len(out_file'.periods)>>}
  <2>1. CASE OutOpen
    <3>1. PICK i \in DOMAIN output_plugins : output_plugins[i].open
      BY <2>1 DEF OutOpen
    <3>2. out_file.footers = <<>> /\ \A n \in Periods : n = Len(out_file.periods)
      BY <3>1 DEF FilesInv, FooterCountsPeriods
    <3>3. output_plugins[i].n_periods \in Periods
      BY <3>1
    <3>4. footer = Len(out_file.periods)
      BY <3>2, <3>3
    <3> HIDE DEF footer
    <3>5. Append(out_file.footers, footer) = <<Len(out_file.periods)>>
          /\ Append(out_file.footers, footer) \in Seq(Nat)
      <4>1. Append(<<>>, footer) = <<footer>> /\ footer \in Nat
        BY <1>6, <3>4
      <4> QED
        BY <3>2, <3>4, <4>1
    <3> DEFINE footers == Append(out_file.footers, footer)
    <3>6. out_file' = [out_file EXCEPT !.footers = footers]
      BY <1>5, <2>1
    <3> HIDE DEF footers
    <3>7. /\ out_file'.periods = out_file.periods /\ out_file'.footers = footers
          /\ (footers \in Seq(Nat)) =>
                out_file' \in [header : BOOLEAN, periods : Seq(PeriodData), footers : Seq(Nat)]
      BY <1>6, <3>6
    <3> QED
      BY <3>5, <3>7 DEF footers
  <2>2. CASE ~OutOpen
    <3>1. out_file' = out_file
      BY <1>5, <2>2
    <3> QED
      BY <1>6, <3>1 DEF FilesInv, FooterCountsPeriods
  <2> QED
    BY <2>1, <2>2
<1>8. FooterCountsPeriods'
  BY <1>2, <1>4, <1>7 DEF FooterCountsPeriods
<1>9. PluginTypeOK'
  <2>1. AtMostOneBuiltin(output_plugins)' /\ AtMostOneBuiltin(report_plugins)'
    BY <1>2, <1>3, <1>4 DEF FilesInv, PluginTypeOK, AtMostOneBuiltin
  <2> QED
    BY <1>4, <1>5, <1>7, <2>1 DEF FilesInv, PluginTypeOK
<1>10. StreamsFollowStates'
  BY <1>2, <1>3, <1>4, <1>5 DEF FilesInv, StreamsFollowStates
<1>11. ReportEndsOnce'
  <2>1. RptOpen' = RptOpen
    BY <1>3, <1>4 DEF RptOpen
  <2> QED
    BY <1>5, <2>1 DEF FilesInv, ReportEndsOnce
<1> QED
  BY <1>8, <1>9, <1>10, <1>11 DEF FilesInv

\* write_summary_all(): an open report gets its results and is closed; with
\* none open the report is written anew as a whole.
LEMMA WriteSummaryKeeps ==
    ASSUME FilesInv, NEW fr, WriteSummaryAll(fr)
    PROVE  FilesInv'
<1>1. /\ report_plugins' = [i \in DOMAIN report_plugins |-> report_plugins'[i]]
      /\ \A i \in DOMAIN report_plugins :
            report_plugins'[i] = SummarizeReport(report_plugins[i], i \in fr)
  BY DEF WriteSummaryAll, Each
<1>2. ASSUME NEW i \in DOMAIN report_plugins
      PROVE  /\ report_plugins'[i] \in ReportPlugin
             /\ report_plugins'[i].builtin = report_plugins[i].builtin
             /\ ~report_plugins'[i].open
  <2>1. report_plugins[i] \in ReportPlugin
    BY DEF FilesInv, PluginTypeOK
  <2>2. report_plugins[i].open => report_plugins[i].builtin
    BY DEF FilesInv, PluginTypeOK, AtMostOneBuiltin
  <2>3. CASE report_plugins'[i] = [report_plugins[i] EXCEPT !.open = FALSE]
    BY <2>1, <2>3 DEF ReportPlugin
  <2>4. CASE /\ report_plugins'[i] = [report_plugins[i] EXCEPT !.state = "ERROR"]
             /\ ~report_plugins[i].builtin
    <3>1. "ERROR" \in PluginStates
      BY DEF PluginStates
    <3> QED
      BY <2>1, <2>2, <2>4, <3>1 DEF ReportPlugin
  <2> QED
    BY <1>1, <2>3, <2>4 DEF SummarizeReport, Failed
<1>3. report_plugins' \in Seq(ReportPlugin) /\ DOMAIN report_plugins' = DOMAIN report_plugins
  BY <1>1, <1>2, MappedList DEF FilesInv, PluginTypeOK
<1>4. /\ UNCHANGED <<input_plugins, output_plugins, out_file, leaked>>
      /\ rpt_file' \in {Append(rpt_file, "results"), <<"preamble", "results">>, rpt_file}
      /\ RptOpen => rpt_file' = Append(rpt_file, "results")
      /\ ~RptOpen => rpt_file' \in {<<"preamble", "results">>, rpt_file}
  BY DEF WriteSummaryAll
<1>5. rpt_file' \in {<<>>, <<"preamble", "results">>, <<"preamble", "interrupted">>}
  <2>1. CASE RptOpen
    <3>1. rpt_file = <<"preamble">>
      BY <2>1 DEF FilesInv, ReportEndsOnce
    <3>2. Append(<<"preamble">>, "results") = <<"preamble", "results">>
      BY AppendedPair
    <3> QED
      BY <1>4, <2>1, <3>1, <3>2
  <2>2. CASE ~RptOpen
    BY <1>4, <2>2 DEF FilesInv, ReportEndsOnce
  <2> QED
    BY <2>1, <2>2
<1>6. ReportEndsOnce'
  BY <1>2, <1>3, <1>5 DEF ReportEndsOnce, RptOpen
<1>7. PluginTypeOK'
  <2>1. AtMostOneBuiltin(report_plugins)'
    BY <1>2, <1>3 DEF FilesInv, PluginTypeOK, AtMostOneBuiltin
  <2>2. rpt_file' \in Seq({"preamble", "results", "interrupted"})
    <3>1. /\ <<>> \in Seq({"preamble", "results", "interrupted"})
          /\ <<"preamble", "results">> \in Seq({"preamble", "results", "interrupted"})
          /\ <<"preamble", "interrupted">> \in Seq({"preamble", "results", "interrupted"})
      OBVIOUS
    <3> QED
      BY <1>5, <3>1
  <2> QED
    BY <1>3, <1>4, <2>1, <2>2 DEF FilesInv, PluginTypeOK, AtMostOneBuiltin
<1>8. StreamsFollowStates' /\ FooterCountsPeriods'
  BY <1>2, <1>3, <1>4
  DEF FilesInv, StreamsFollowStates, FooterCountsPeriods
<1> QED
  BY <1>6, <1>7, <1>8 DEF FilesInv

\* unload_all(): the destructor ends a report that is still open.
LEMMA UnloadKeeps ==
    ASSUME FilesInv, UnloadAll
    PROVE  FilesInv'
<1>1. /\ output_plugins' = <<>> /\ report_plugins' = <<>> /\ input_plugins' = 0
      /\ UNCHANGED out_file
      /\ leaked' = IF OutOpen THEN leaked + 1 ELSE leaked
      /\ rpt_file' = IF RptOpen THEN Append(rpt_file, "interrupted") ELSE rpt_file
  BY DEF UnloadAll, RemainingOutputs, ReportDestructor
<1>2. leaked' \in Nat
  BY <1>1 DEF FilesInv, PluginTypeOK
<1>3. rpt_file' \in {<<>>, <<"preamble", "results">>, <<"preamble", "interrupted">>}
  <2>1. CASE RptOpen
    <3>1. rpt_file = <<"preamble">>
      BY <2>1 DEF FilesInv, ReportEndsOnce
    <3>2. Append(<<"preamble">>, "interrupted") = <<"preamble", "interrupted">>
      BY AppendedPair
    <3> QED
      BY <1>1, <2>1, <3>1, <3>2
  <2>2. CASE ~RptOpen
    BY <1>1, <2>2 DEF FilesInv, ReportEndsOnce
  <2> QED
    BY <2>1, <2>2
<1>4. rpt_file' \in Seq({"preamble", "results", "interrupted"})
  <2>1. /\ <<>> \in Seq({"preamble", "results", "interrupted"})
        /\ <<"preamble", "results">> \in Seq({"preamble", "results", "interrupted"})
        /\ <<"preamble", "interrupted">> \in Seq({"preamble", "results", "interrupted"})
    OBVIOUS
  <2> QED
    BY <1>3, <2>1
<1>5. /\ <<>> \in Seq(OutputPlugin) /\ <<>> \in Seq(ReportPlugin)
      /\ DOMAIN output_plugins' = {} /\ DOMAIN report_plugins' = {}
  BY <1>1
<1>6. PluginTypeOK'
  BY <1>1, <1>2, <1>4, <1>5 DEF FilesInv, PluginTypeOK, AtMostOneBuiltin
<1>7. ReportEndsOnce'
  BY <1>3, <1>5 DEF ReportEndsOnce, RptOpen
<1>8. StreamsFollowStates' /\ FooterCountsPeriods'
  BY <1>1, <1>5
  DEF FilesInv, StreamsFollowStates, FooterCountsPeriods
<1> QED
  BY <1>6, <1>7, <1>8 DEF FilesInv
=============================================================================
