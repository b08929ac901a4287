---------------------------- MODULE EngineSession ----------------------------
(***************************************************************************)
(* One engine handle: SWMMEngine (src/engine/core/SWMMEngine.cpp) with its  *)
(* writer thread (IOThread) and its plugins (Plugins), driven by one caller *)
(* through the C API: open, initialize, start, step, end, report, close and *)
(* destroy, in any order, over several models in turn.                      *)
(*                                                                         *)
(* Grain: a call that does not touch the writer thread is one step. A call  *)
(* that does (start, step with a report due, end, close, destroy) is split  *)
(* where the writer thread can be seen: the steps of post() and stop() are  *)
(* IOThread's, and what the call does after stop() returns is a step of its *)
(* own. The physics of a step, and steps in which no report is due, change  *)
(* nothing seen here (StepClock has the clock that decides).                *)
(***************************************************************************)
EXTENDS IOThread, Plugins

CONSTANTS
    Decks,            \* what an input file and the paths given to open() ask for
    MaxOpens,         \* bound: calls of open()
    ReportsAfterEnd   \* the caller calls report() only after end(), as documented

\* [FILES] interface files, in the order in which start() opens them.
IfaceOrder == <<"routing", "runoff", "rdii">>
IfaceFiles == {"routing", "runoff", "rdii"}

\* out, rpt: open() was given an .out and a .rpt path; h5: [2D_OPTIONS] names an
\* OUTPUT_FILE; rows: [PLUGINS] rows; files: the interface files [FILES] names.
Deck == [out : BOOLEAN, rpt : BOOLEAN, h5 : BOOLEAN, rows : Nat,
         files : SUBSET IfaceFiles]

\* The handle has one caller, which is the controller of the writer thread, and
\* the plugins are given the snapshots of that thread.
ASSUME SessionAssumption ==
    /\ Threads = {Controller}
    /\ PeriodData = Snapshots
    /\ Decks \subseteq Deck
    /\ MaxOpens \in Nat
    /\ ReportsAfterEnd \in BOOLEAN

VARIABLES
    state,         \* ctx_.state, and "DESTROYED" once the handle is deleted
    call,          \* the call that waits for stop(): "none", "end", "close", "destroy"
    deck,          \* the model of the last open(), see Read
    plugin_specs,  \* number of rows in ctx_.plugin_specs
    errors,        \* ctx_.errors is not empty
    iface,         \* interface files that are open
    save_results,  \* save_results_
    end_called,    \* history: end() returned since the last start()
    base,          \* history: snapshots accepted before the .out was created
    opens          \* calls of open() so far

sessionVars == <<state, call, deck, plugin_specs, errors, iface, save_results,
                 end_called, base, opens>>
vars == <<ioVars, pluginVars, sessionVars>>

EngineStates == {"CREATED", "BUILDING", "OPENED", "INITIALIZED", "RUNNING",
                 "ENDED", "REPORTED", "CLOSED", "ERROR_STATE", "DESTROYED"}

NoDeck == [out |-> FALSE, rpt |-> FALSE, h5 |-> FALSE, rows |-> 0, files |-> {}]

\* swmm_engine_create() or swmm_engine_new().
Init ==
    /\ IOInit
    /\ PluginInit
    /\ state \in {"CREATED", "BUILDING"}
    /\ call = "none"
    /\ deck = NoDeck
    /\ plugin_specs = 0
    /\ errors = FALSE
    /\ iface = {}
    /\ save_results = FALSE
    /\ end_called = FALSE
    /\ base = 0
    /\ opens = 0

\* The caller is not inside a call.
Idle == pc[Controller] = "idle" /\ call = "none" /\ state # "DESTROYED"

\* The states in which each call is accepted.
OpenStates_AlsoOpened == {"CREATED", "CLOSED", "OPENED"}
OpenStates == {"CREATED", "CLOSED"}
InitializeStates == {"OPENED", "INITIALIZED"}
StartStates == {"INITIALIZED"}
StepStates == {"RUNNING"}
EndStates == {"RUNNING", "ENDED"}
ReportStates == {"ENDED"}

\* Any other call with a state check: set_error(SWMM_ERR_WRONG_STATE). The
\* writer thread, the plugins and the files stay as they are.
WrongState ==
    /\ Idle
    /\ \E accepting \in {OpenStates, InitializeStates, StartStates, StepStates,
                         EndStates, ReportStates} : state \notin accepting
    /\ state' = "ERROR_STATE"
    /\ UNCHANGED <<ioVars, pluginVars, call, deck, plugin_specs, errors, iface,
                   save_results, end_called, base, opens>>

-----------------------------------------------------------------------------
\* open(): what every outcome has in common. ctx_.reset() forgets the errors
\* of an earlier open and an input plugin is made if there is none. [PLUGINS]
\* rows are appended to ctx_.plugin_specs, which reset() does not clear.
OpenBegin(d) ==
    /\ Idle
    /\ state \in OpenStates
    /\ opens < MaxOpens
    /\ opens' = opens + 1
    /\ deck' = d
    /\ input_plugins' = 1
    /\ UNCHANGED <<ioVars, call, iface, save_results, end_called, base,
                   out_file, leaked>>

SpecsAfter(d) == plugin_specs + d.rows

\* The model the handle has after reading d: ctx_.reset() does not reach the
\* options of surface_router_, so an OUTPUT_FILE once read stays.
Read(d) == [d EXCEPT !.h5 = @ \/ deck.h5]

\* write_open_failure_report(): a report plugin of its own, prepared,
\* finalized and destroyed.
OpenFailureReport(d, ok) ==
    rpt_file' = IF d.rpt /\ ok THEN <<"preamble", "interrupted">> ELSE rpt_file

\* The input file cannot be read.
OpenUnreadable(d) ==
    /\ OpenBegin([d EXCEPT !.h5 = deck.h5])
    /\ state' = "ERROR_STATE"
    /\ errors' = FALSE
    /\ UNCHANGED <<plugin_specs, output_plugins, report_plugins, rpt_file>>

\* A section handler reports an error: open() returns its code and leaves the
\* state ctx_.reset() has set.
OpenUnparsable(d) ==
    /\ OpenBegin(Read(d))
    /\ state' = "CREATED"
    /\ errors' = FALSE
    /\ plugin_specs' = SpecsAfter(d)
    /\ UNCHANGED <<output_plugins, report_plugins, rpt_file>>

\* The external 2D mesh is missing and the open is strict: the error is recorded
\* and reported, and the state left as ctx_.reset() has set it.
OpenMeshMissing(d, ok) ==
    /\ OpenBegin(Read(d))
    /\ state' = "CREATED"
    /\ errors' = TRUE
    /\ plugin_specs' = SpecsAfter(d)
    /\ OpenFailureReport(d, ok)
    /\ UNCHANGED <<output_plugins, report_plugins>>

\* Cross-references do not resolve and the open is strict.
OpenInvalid(d, ok) ==
    /\ OpenBegin(Read(d))
    /\ state' = "ERROR_STATE"
    /\ errors' = TRUE
    /\ plugin_specs' = SpecsAfter(d)
    /\ OpenFailureReport(d, ok)
    /\ UNCHANGED <<output_plugins, report_plugins>>

\* The model opens; after a lenient open it may have errors.
OpenModel(d, invalid, ok) ==
    /\ OpenBegin(Read(d))
    /\ state' = "OPENED"
    /\ errors' = invalid
    /\ plugin_specs' = SpecsAfter(d)
    /\ AddPlugins(SpecsAfter(d), d.out, d.rpt, Read(d).h5)
    /\ IF invalid THEN OpenFailureReport(d, ok) ELSE UNCHANGED rpt_file

Open ==
    \E d \in Decks :
        \/ OpenUnreadable(d)
        \/ OpenUnparsable(d)
        \/ \E ok \in BOOLEAN : OpenMeshMissing(d, ok) \/ OpenInvalid(d, ok)
        \/ \E invalid, ok \in BOOLEAN : OpenModel(d, invalid, ok)

-----------------------------------------------------------------------------
\* The gate of initialize() on ctx_.errors.
ErrorsAreFatal == errors

Initialize ==
    /\ Idle
    /\ state \in InitializeStates
    /\ ~ErrorsAreFatal
    /\ state' = "INITIALIZED"
    /\ UNCHANGED <<ioVars, pluginVars, call, deck, plugin_specs, errors, iface,
                   save_results, end_called, base, opens>>

\* The model had errors, a module adds one, or the hot-start file is unusable.
InitializeFails ==
    /\ Idle
    /\ state \in InitializeStates
    /\ state' = "ERROR_STATE"
    /\ errors' \in {errors, TRUE}
    /\ UNCHANGED <<ioVars, pluginVars, call, deck, plugin_specs, iface,
                   save_results, end_called, base, opens>>

\* swmm_finalize_model() of a model built through the API: OPENED for the time
\* of initialize(). There is no plugin and no file.
FinalizeModel ==
    /\ Idle
    /\ state = "BUILDING"
    /\ state' \in {"INITIALIZED", "ERROR_STATE"}
    /\ errors' \in IF state' = "ERROR_STATE" THEN BOOLEAN ELSE {FALSE}
    /\ UNCHANGED <<ioVars, pluginVars, call, deck, plugin_specs, iface,
                   save_results, end_called, base, opens>>

-----------------------------------------------------------------------------
\* start(): the interface files are opened in order; the first that cannot be
\* opened or read stops it, the earlier ones stay open.
OpenedBefore(f) ==
    LET Place(g) == CHOOSE i \in DOMAIN IfaceOrder : IfaceOrder[i] = g
    IN  {g \in deck.files : Place(g) < Place(f)}

StartNoFile(save) ==
    /\ Idle
    /\ state \in StartStates
    /\ \E f \in deck.files : iface' = OpenedBefore(f)
    /\ errors' = TRUE
    /\ save_results' = save
    /\ state' = "ERROR_STATE"
    /\ UNCHANGED <<ioVars, pluginVars, call, deck, plugin_specs, end_called,
                   base, opens>>

\* The files are open; prepare_all() fails. Plugins it has prepared by then,
\* that of the .out among them, keep their files open.
StartNotPrepared(save, fo, fr) ==
    /\ Idle
    /\ state \in StartStates
    /\ PrepareFails(fo, fr)
    /\ PrepareAll(fo, fr)
    /\ iface' = deck.files
    /\ save_results' = save
    /\ state' = "ERROR_STATE"
    /\ base' = IF deck.out THEN Len(accepted) ELSE base
    /\ UNCHANGED <<ioVars, call, deck, plugin_specs, errors, end_called, opens>>

\* prepare_all() succeeds and the writer thread is started.
StartRun(save, fo, fr) ==
    /\ Idle
    /\ state \in StartStates
    /\ ~PrepareFails(fo, fr)
    /\ PrepareAll(fo, fr)
    /\ iface' = deck.files
    /\ save_results' = save
    /\ Start
    /\ state' = "RUNNING"
    /\ end_called' = FALSE
    /\ base' = IF deck.out THEN Len(accepted) ELSE base
    /\ UNCHANGED <<call, deck, plugin_specs, errors, opens>>

\* The plugins that may fail in a call, by their places. The libraries of
\* [PLUGINS] come first in both lists; of the built-in plugins those of the .out
\* and of the surface fail in prepare() alone, that of the .rpt where it opens
\* its file.
OutputSets  == SUBSET DOMAIN output_plugins
ReportSets  == SUBSET DOMAIN report_plugins
LibrarySets == SUBSET (1..plugin_specs)

StartCall ==
    \E save \in BOOLEAN :
        \/ StartNoFile(save)
        \/ \E fo \in OutputSets, fr \in ReportSets :
              StartNotPrepared(save, fo, fr) \/ StartRun(save, fo, fr)

-----------------------------------------------------------------------------
\* step() with a report due: postOutputSnapshot() enters post() if results are
\* saved and there is any plugin.
StepReport ==
    /\ Idle
    /\ state \in StepStates
    /\ save_results
    /\ input_plugins + Len(output_plugins) + Len(report_plugins) > 0
    /\ PostCall(Controller)
    /\ UNCHANGED <<pluginVars, sessionVars>>

\* step() at the end of the simulation. The writer thread is left running.
StepComplete ==
    /\ Idle
    /\ state \in StepStates
    /\ state' = "ENDED"
    /\ UNCHANGED <<ioVars, pluginVars, call, deck, plugin_specs, errors, iface,
                   save_results, end_called, base, opens>>

\* end(), close() and destroy() first stop the writer thread.
StopFor(c) ==
    /\ Idle
    /\ StopSet
    /\ call' = c
    /\ UNCHANGED <<pluginVars, state, deck, plugin_specs, errors, iface,
                   save_results, end_called, base, opens>>

EndCall     == state \in EndStates /\ StopFor("end")
CloseCall   == StopFor("close")
DestroyCall == StopFor("destroy")

\* stop() has returned.
Stopped_BeforeJoin(c) == call = c
Stopped(c) == call = c /\ pc[Controller] = "idle"

EndFinish ==
    /\ Stopped("end")
    /\ \E fo \in LibrarySets, fr \in LibrarySets : FinalizeAll(fo, fr)
    /\ state' = "ENDED"
    /\ call' = "none"
    /\ end_called' = TRUE
    /\ UNCHANGED <<ioVars, deck, plugin_specs, errors, iface, save_results,
                   base, opens>>

Report(fr) ==
    /\ Idle
    /\ state \in ReportStates
    /\ ReportsAfterEnd => end_called
    /\ WriteSummaryAll(fr)
    /\ state' = "REPORTED"
    /\ UNCHANGED <<ioVars, call, deck, plugin_specs, errors, iface,
                   save_results, end_called, base, opens>>

\* What close() leaves open of the interface files.
IfaceAfterClose_KeepsRdii == iface \cap {"rdii"}
IfaceAfterClose == {}

CloseFinish ==
    /\ Stopped("close")
    /\ iface' = IfaceAfterClose
    /\ UnloadAll
    /\ state' = "CLOSED"
    /\ call' = "none"
    /\ UNCHANGED <<ioVars, deck, plugin_specs, errors, save_results,
                   end_called, base, opens>>

\* The destructor closes a running or ended engine; otherwise the members are
\* destroyed one by one, and InterfaceManager has no destructor.
DestroyFinish ==
    /\ Stopped("destroy")
    /\ iface' = IF state \in {"RUNNING", "ENDED"} THEN IfaceAfterClose
                ELSE iface \cap {"routing"}
    /\ UnloadAll
    /\ state' = "DESTROYED"
    /\ call' = "none"
    /\ UNCHANGED <<ioVars, deck, plugin_specs, errors, save_results,
                   end_called, base, opens>>

\* Nothing is left to happen once the handle is deleted.
Gone == state = "DESTROYED" /\ UNCHANGED vars

-----------------------------------------------------------------------------
\* The writer thread hands a snapshot to the plugins. The libraries of [PLUGINS]
\* take no part: nothing in the engine calls initialize_all(), they stay loaded.
WriterUpdate ==
    /\ worker = "update"
    /\ WorkerUpdate(UpdateFails({}, {}))
    /\ UpdateAll(task[1].snapshot, {}, {})
    /\ UNCHANGED sessionVars

Writer == WriterUpdate \/ (QueueSteps /\ UNCHANGED <<pluginVars, sessionVars>>)

\* The caller inside post() or stop().
InCall ==
    /\ PostSteps(Controller) \/ StopSteps
    /\ UNCHANGED <<pluginVars, sessionVars>>

Wakeup == SpuriousWakeup /\ UNCHANGED <<pluginVars, sessionVars>>

Finish == EndFinish \/ CloseFinish \/ DestroyFinish

Next ==
    \/ WrongState
    \/ Open \/ Initialize \/ InitializeFails \/ FinalizeModel \/ StartCall
    \/ StepReport \/ StepComplete
    \/ EndCall \/ (\E fr \in ReportSets : Report(fr)) \/ CloseCall \/ DestroyCall
    \/ InCall \/ Finish
    \/ Writer \/ Wakeup
    \/ Gone

\* Both threads are scheduled and update_all returns; the caller need not call.
Fairness == WF_vars(InCall) /\ WF_vars(Finish) /\ WF_vars(Writer)

Spec == Init /\ [][Next]_vars /\ Fairness
-----------------------------------------------------------------------------
\* The types of the handle's state, and with it of the plugin layer: however
\* models are opened and closed, each file has at most one plugin writing it.
SessionTypeOK ==
    /\ PluginTypeOK
    /\ state \in EngineStates
    /\ call \in {"none", "end", "close", "destroy"}
    /\ deck \in Deck
    /\ plugin_specs \in Nat
    /\ errors \in BOOLEAN
    /\ iface \subseteq IfaceFiles
    /\ save_results \in BOOLEAN
    /\ end_called \in BOOLEAN
    /\ base \in 0..Len(accepted)
    /\ opens \in 0..MaxOpens

\* While the .out file is being written, it holds exactly the snapshots this
\* session has delivered, in the order of the steps that made them: nothing of
\* an earlier session, nothing twice, nothing out of order.
OutFileIsThisSession ==
    OutOpen => out_file.periods = SnapshotsOf(SubSeq(delivered, base + 1, Len(delivered)))

\* A footer is only ever put on a complete file: when end() seals the .out, all
\* the snapshots the steps of the session handed over are in it.
SealedFileIsComplete ==
    [][Len(out_file'.footers) > Len(out_file.footers) =>
          out_file'.periods =
              SnapshotsOf(SubSeq(accepted, base + 1, Len(accepted)))]_vars

\* post() discards a snapshot when the writer is stopped; a running simulation
\* never loses one that way, in its first session or a later one: each call of
\* post() that returned has put its snapshot into the queue.
NoSnapshotDiscarded ==
    Len(accepted) = posts[Controller]
                    - (IF pc[Controller] \in {"locking", "waiting_not_full"} THEN 1 ELSE 0)

\* The caller's thread changes the plugins and their files only while there is
\* no writer thread that might be calling update_all (IOutputPlugin.hpp,
\* threading model).
PluginsHaveOneOwner ==
    [][\/ UNCHANGED pluginVars
       \/ delivered' # delivered   \* the writer thread's own call of update_all
       \/ worker = "none"]_vars

\* A session begins with nothing of the one before: initialize() and start() find
\* no writer thread (the precondition of IOThread.hpp: initialize() rebuilds what
\* it reads) and no interface file that an earlier run or failed start left open.
NothingFromBefore ==
    /\ state \in {"CREATED", "BUILDING", "OPENED", "INITIALIZED", "CLOSED", "DESTROYED"} =>
           worker = "none" /\ ~running
    /\ state \in {"CREATED", "OPENED", "INITIALIZED", "CLOSED"} => iface = {}

\* Every call returns: no post() waits for space for ever, no stop() for a
\* writer thread that will not end.
EveryCallReturns ==
    (pc[Controller] # "idle" \/ call # "none") ~>
        (pc[Controller] = "idle" /\ call = "none")
-----------------------------------------------------------------------------
\* Documented, and not so.

\* SimulationContext.hpp, reset(): "Fully reset the context to a CREATED
\* state." A freshly opened model has the plugins its own file asks for.
PluginsAreThisModels ==
    state = "OPENED" =>
        Len(SelectSeq(output_plugins, LAMBDA p : p.state = "LOADED")) = deck.rows

=============================================================================
