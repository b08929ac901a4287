# A TLA+ model of the OpenSWMM engine

This directory holds TLA+ specifications of the control structure of the
refactored engine (`src/src/engine`), the TLC configurations that check them on
small instances, and proofs that TLAPS checks for every instance. Paths below
are relative to `src/src/engine` unless they start with `include/` or `src/`.

The engine is a numerical program with a small, delicate frame around it: a
handle with a life cycle, plugins that write the results, a thread that feeds
them, and three clocks that decide what is computed and reported when. The
numerics are out of reach of a model checker; the frame is where a unit test
hardly gets, and it is what is modelled here: the session with its threads and
files, the clocks, the way control rules and rain reach a step, and the editing
of a model by calls that renumber every reference in it.

## 1. The system

| part | state | operations | interacts with |
|---|---|---|---|
| Engine session, `core/SWMMEngine.*`, `core/openswmm_engine_impl.cpp`, `core/openswmm_model_impl.cpp` | life-cycle state, error list, open interface files, `save_results_` | create/new, open, initialize, start, step, end, report, close, destroy, finalize_model | calls every other part |
| IO writer thread, `output/IOThread.*` | bounded queue, stop flag, thread, error, sequence number | start, post, stop, the worker's loop | calls `PluginFactory::update_all`; shares its queue with the simulation thread |
| Plugin layer, `plugins/PluginFactory.*`, `DefaultOutputPlugin.*`, `DefaultReportPlugin.*` | plugin lists, the state of each plugin, the `.out` and `.rpt` streams | load, add, initialize/validate/prepare/update/finalize/write_summary `_all`, unload | called by the session on the simulation thread, and by the writer thread for updates |
| Step clock, `hydraulics/TimestepController.*`, `step()`, `stepRunoff()`, `postOutputSnapshot()` | routing clock, report grid, runoff clock, step options | compute_next, advance, output_due, the runoff loop | decides when the session posts a snapshot |
| Simulation context, `core/SimulationContext.hpp`, `data/*` | object tables, name indices, options, `[FILES]`, `plugin_specs` | reset, reset_state | owned by the session |
| Interface files, `core/InterfaceFile.*`, `hydrology/RunoffInterface.*`, `hydrology/RdiiInterface.*` | open files, a bracket of two records | open, read/write a period, close | start, step and close of the session |
| Control rules, `controls/*`, `core/openswmm_controls_impl.cpp`, the settings of links in `core/SWMMEngine.cpp` | rule texts and compiled rules, next evaluation time, settings, targets, the dates at which links opened or closed | parse, add, clear, evaluate, apply, ramp towards a target, skip a step between events or as steady | initialize and every routing step; C API |
| Rain gages, `hydrology/Gage.cpp`, `data/TableData.hpp`, `data/GageData.hpp` | a cursor per series, accumulated rain, rain per gage, co-gages | update all gages, next change of rain, rain for a report, lookups | the runoff loop, reports, C API |
| Forcings, `data/ForcingData.hpp`, `core/openswmm_forcing_impl.cpp` | mode, value and persistence per object | set, clear, apply, clear at the end of a step | C API and step |
| Hot start, `core/HotStartManager.*` | saved states | save, apply | initialize and end |
| Editing, `edit/*`, `data/*.hpp`, `core/openswmm_edit_impl.cpp`, `core/openswmm_quality_impl.cpp` | every column, index and name of the model | delete, convert, split, fuse, add, analyse the impact of a deletion | gated by the life-cycle state |
| Input, `input/*` | section registry, deferred rows | read, resolve references | open |
| 1D hydraulics, `hydraulics/*`, `hydraulics/fv/*` | depths, flows | solve a step, suggest a step | step |
| Hydrology and quality, `hydrology/*`, `quality/*` | runoff, groundwater, loads | a runoff step | the runoff loop |
| 2D surface, `2d/*` (optional at build time) | mesh state, pending window | advance a window, flush | step and end |
| Readers, command lines, legacy engine, Python bindings | – | – | outside the engine |

What makes them correct: the result files hold what the run computed, complete
and in order, whoever is faster; the two threads never use a plugin at the same
time; every call returns; a handle behaves the same in its second run as in its
first; an invalid model never runs; the clock reaches the end of the run, runoff
is known wherever routing asks for it, and every report period is reported once;
the rules a client can read back are rules that act; the rain of a runoff step is
the rain of its series; and whatever is deleted from a model, every other object
still refers to what it referred to.

What is hard: two condition variables with single notifications; stopping with
work queued; calls in any order, also wrong ones, while the writer runs; partial
failure of `start()`; the reuse of a handle; boundaries of three clocks that do
not divide each other; cursors of series that reports, queries and the runoff
loop move in turn; several writers of one column within a step; and a model kept
in some hundred parallel columns, of which a deletion may forget one.
`PROJECT.json` lists each hazard at its line with the
properties that cover it, and says why where none does yet.

## 2. Modules

```
SnapshotLog <--implements-- IOThread --+
                                       +--> EngineSession --> EngineRun
                         Plugins ------+
                            |
                         PluginCalls

StepClock        ControlRules        RainGages

ModelTables --> ModelEdit --implements--> ModelGraph
```

Proofs are in modules of their own, named after what they are about. They compose
as the modules do: `EngineSession_proofs`, which is about `EngineSession` and
`EngineRun`, extends `IOThread_proofs` and `Plugins_proofs`; `PluginCalls_proofs`
extends `Plugins_proofs`; `StepClock_proofs`, `ControlRules_proofs`, `RainGages_proofs`
and `ModelEdit_proofs` stand alone. `MCIOThread`, `MCStepClock` and so on hold the small instances.

**SnapshotLog** is what a client of the writer thread may rely on: snapshots are
added to a log while it is open, written in log order, at most `Capacity` behind,
and the log closes only when everything in it is written.

**IOThread** is `IOThread.cpp`, statement by statement where another thread can
look: the critical section of `post()`, its wait, its notification after the
unlock; the three steps of `stop()` and its join; the worker's wait, pop,
notification, `update_all`, error record and exit. `pc` says where each calling
thread is, `worker` where the worker is; the other variables are the members of
the class. A condition variable is the set of threads at its wait, `notify_one`
wakes any one of them, and spurious wakeups are allowed. `stop_flag_` is read
and written under the mutex or before the thread exists. History variables
`accepted` and `delivered` record what was queued and what was handed to the
plugins. The controller is the one thread that starts and stops, as
`IOThread.hpp` demands; any thread may post.

**Plugins** has the state of the plugin layer and one operator per
`PluginFactory` call, each with what it makes the built-in plugins do. The
built-in plugins keep a stream (`open`) and write to an abstract file: the `.out`
is a header, the sequence of its periods and its footers, the `.rpt` a sequence
of sections (preamble, results, or the notice of interruption that the
destructor writes). `leaked` counts `.out` streams dropped without `fclose`.
A call is made of every plugin of a list, whichever of them return non-zero: `fo`
and `fr` are the places of those that do. A plugin of `[PLUGINS]` may fail in
`initialize`, `validate`, `prepare`, `update`, `finalize` and `write_summary`; the
built-in ones where their code can, in `prepare` and `update`. The output plugin of
the 2D surface is in the list as well, with a failure but without its file.
**PluginCalls** lets any client call these in any order, round after round.

**EngineSession** composes both with the handle. A call that does not meet the
writer thread is one action, with every outcome the code has (unreadable,
unparsable, invalid and lenient opens; a missing mesh file, after which the handle is
still `CREATED`; a missing interface file; a `prepare` that fails for some of the
plugins, the others being prepared). A call that does is split there: `StepReport` enters `post()`,
`EndCall`, `CloseCall` and `DestroyCall` enter `stop()`, and `EndFinish`,
`CloseFinish` and `DestroyFinish` are what the code does after the join. The
writer's `update_all` runs the plugins between any two steps of the caller. The
caller may call anything in any state; a call in a wrong state puts the engine
into `ERROR_STATE`.

**EngineRun** is `swmm_engine_run_with_callback()`: a client with a fixed order
of calls, early exits and a result.

**StepClock** has the three clocks in integer ticks, several to a millisecond,
so that the one-millisecond floor, the one-millisecond shift of the report date
and the whole seconds of a runoff step are all visible. `BeginStep` chooses the
step, the three `Runoff*` actions are one turn of the loop in `stepRunoff()`,
`EndStep` is `advance()` with `postOutputSnapshot()`. What the solvers ask for
and what the weather does is nondeterministic within the code's limits
(`SuggestedSteps`, `RunoffStepLengths`). `Reconciled` is `validate_project()`.
`Reopen` starts another model on the same handle and keeps what the code keeps.

**ModelTables** is the model as the editing calls see it, one record: per kind
the sequence of object names (an object's index is its position), reference
columns that hold indices, name columns that hold names, plain data columns, the
row of every node and link in its type-specific side table, and the flat
matrices of the quality data. `Refs`, `NameRefs`, `DataCols` and `Join` list the
columns, `NotErased` those that the code's `erase_at` leaves out. `EraseAll`,
`GrowRows`, `renumber_refs` and `set_type` are what `data/*.hpp` does to all
columns of a table at once.

**ModelEdit** has one action per editing call of the C API: the deletions of
fifteen kinds of objects with their cascades and renumberings, additions, pops,
the setters that make and break references, conversions, the split of a conduit
and the fusion of a junction, land uses and pollutants with their matrices.
`Impact` is the report `analyze_*_impact` gives before a deletion. The calls are
gated to the states before `initialize()`, with no writer thread about, so they do
not interleave with anything. `WellFormed` is what a model that was read in
satisfies; the proofs show that every edit keeps it.

**ModelGraph** is what these calls promise: objects that point to objects, no
indices and no columns. Deleting an object takes with it the objects that cannot
be without it and clears the other pointers to it; everything else stays. The
mapping turns each followed index or name into the object it stands for.

**ControlRules** has the settings and targets of the links and everything that
writes them. Rules are kept twice, as the texts a client can read back and as
compiled rules, and both outlive `close()`: `Open`, `Initialize`, `InitializeFails`,
`Start`, `End` and `Close` do to them what the session does. A step is one of
three actions: it lies between routing events or is skipped as steady, or it is
taken without rules, or with them; forcings, pump switches, rules and ramps are
applied in the order of `stepRouting()`. A client adds and removes rules, sets
links and forces them between steps. The depth of the wet well is any of `Depths`
in every step.

**RainGages** has gages on shared series and on rain files, with the cursors the
lookups leave behind. `BeginStep`, the turns of the runoff loop and `EndStep` are
one call of `step()`; in a turn the runoff step ends where some gage's rain
changes, and `updateAllGages()` moves cursors, copies co-gages and accumulates.
A report reads the series through the same cursors. A client may set or force
rain, give a gage another series, or look up a series at any date.

Definitions whose name ends in a suffix after an underscore
(`MayExit_WithoutDraining`, `ClipToEnd_Missing`, ...) stand before the definition
they vary. No specification uses them: each is a plausible mistake in that piece
of code, and putting it in its place makes a property fail.

## 3. What is checked

Every bound is a constant of the module or of its `MC` module.

| run | instance | what it shows |
|---|---|---|
| `io_threads` | two threads, queue of 2, three posts each, two sessions (187 000 states) | the queue stays within its capacity (`IOTypeOK`); nothing is lost, duplicated or overtaken (`FifoNoLoss`); a worker that is gone left nothing unwritten; no one sleeps beside work or space; every call returns; `SnapshotLog` is implemented, with its fairness |
| `plugins_anyorder` | a `[PLUGINS]` library or none, built-in plugins or not, two periods, two rounds, any set of plugins failing in any call (8 600 states) | whatever the order of calls: a footer counts the periods before it and is the only one, a report is ended once, a finalized plugin stays final |
| `engine_files` | two kinds of model (all files; a plugin and no `.out`), two opens, two starts, three snapshots, queue of 1 (222 000 states) | the `.out` holds exactly this session's snapshots and is sealed only when complete; no snapshot is discarded, also after a restart; the plugins have one owner; no writer and no interface file of an earlier session is there when one begins; every call returns |
| `engine_run` | every combination of `.out`, `.rpt`, a plugin, a 2D surface file and interface files; four snapshots, queue of 1 (21 600 states) | success means complete files; no interface file, plugin or thread is left behind on any path, and no stream but an `.out` opened by a `start()` in which the 2D surface file fails; the call returns |
| `clock_run` | four routing models, wet steps below and above a second, report grids that do and do not fit, report start, gage intervals, `USE RUNOFF` or not; two runs on one handle (520 000 states) | a run overshoots by less than a millisecond, runoff covers the clock, every period is reported once and in order, the options stay reconciled, and every run ends, also with the runoff clock of an earlier one |
| `edit_references` | a network, a hydrology and a quality model with two objects of most kinds, the network with a node between its conduits, any two edits (6 200 states) | every followed reference points to the object it pointed to or is cleared with it (`ImplementsModelGraph`); a deletion was foretold by its report; side tables match types; matrices stay aligned; fusing a split conduit gives the model back |
| `controls` | a pump with depth switches and an orifice with a ramp, four models, overlapping events, two runs on one handle, one call of the client (324 000 states) | stored rules act; a link that has opened or closed in the run is not taken to be in its state for longer than since then; a time premise fires once; an event loses one step at most; evaluations within a run are a rule step apart |
| `rain_gages` | two gages on one series, a gage on a file beside one on the pool, a cumulative gage; an hour of twelve seconds, a run of thirteen, steps of one and four, any calls between steps (1 473 000 states) | the rain of a runoff step is that of its series at each of its seconds; a report shows the rain of its date or of the step that writes it |

The bounds are small because the mechanisms are: two posters and a queue of two
fill the queue, wait and are woken in every order, and two sessions show what a
restart inherits; a queue of one makes the writer fall behind after two
snapshots, and the third waits. Two models are needed to see what one leaves to
the next; a third adds nothing, since the second starts from the same residue.
Twelve ticks (three "seconds") contain every relative position of two clocks
with the steps chosen. Two edits are enough for a reference to be made, moved or left
behind by the first and missed by the second, and two objects of a kind for one to
be renumbered when the other goes. The four models of `controls` have overlapping
and adjacent events, premises on even and odd halves of a step and a ramp longer
than a step; the two runs leave rules and a rule timer behind. The records of the
rain series lie side by side and apart, before and after the start of the run, and
the routing steps are shorter and longer than an interval.
`CHECK_DEADLOCK FALSE` appears where a system may stop: after the last allowed
round of plugin calls, edit, run or step.

### Where the code disagrees with what is said of it

Each of these runs checks one statement of the documentation or of a comment and
finds a behaviour of the code against it.

| run | statement | what happens |
|---|---|---|
| `engine_reopen` | reset() leaves a context as created (`core/SimulationContext.hpp:1264`) | `plugin_specs` survives; the next model loads the last one's plugins too |
| `clock_fresh` | open() resets for a fresh run (`core/SWMMEngine.cpp:127`) | the runoff clock keeps the time of the last run; no runoff is computed until routing has caught up with it |
| `edit_columns` | erase_at() removes the element from every vector (`data/LinkData.hpp:665`) | cross-section dimensions, gage names and station ids stay behind, so later objects get their neighbour's |
| `rain_forcing` | a forced gage affects all linked subcatchments (`include/openswmm/engine/openswmm_forcing.h:384`) | the runoff loop computes the gage's rain anew before any subcatchment reads it |

More disagreements were met while modelling. The models follow the code in each;
no run is spent on them.

*Session.* `report()` wants `ENDED`, which the last `step()` already sets, so a
client that omits `end()` gets summaries before finalize
(`plugin_sdk/IReportPlugin.hpp:94`); `close()` drops the
`.out` stream unclosed (`openswmm_engine.h:219`) if the engine was running, or if
`start()` failed because the file of the 2D surface could not be created after the
`.out` was opened (`NothingLeftBehind` excepts that); plugins of `[PLUGINS]` are finalized
but never initialized (`plugin_sdk/IOutputPlugin.hpp:17`); a report step below
the routing step falls behind (`SWMMEngine.cpp:3620`).

*Controls.* An override of a link setting is overwritten by pump switches and
rules in the same step (`openswmm_forcing.h:76`); `time_last_set` starts at 0.0
(`data/LinkData.hpp:572`, `634`) and not at the start date as in the legacy engine that
`controls/Controls.cpp:520` says it matches (`src/src/legacy/engine/link.c:529`), so that
until a link first opens or closes its `TIMEOPEN` or `TIMECLOSED` is the date itself and
such premises hold from the first evaluation on; nothing calls `resetRuleStep()`, so that
a second run evaluates no rule until its clock has reached the timer of the first
(`controls/Controls.hpp:227`); compiled rules of an earlier model
survive if there is no text to compile (`SWMMEngine.cpp:4889`);
`swmm_control_clear_rules` clears the texts only (`openswmm_controls.h:92`); AND
does not bind tighter than OR (`controls/Controls.cpp:235`); the steady-state skip
ignores changes of pumps, ramps and forcings; adjacent events lose a step each.
`StoredRulesAct` is therefore stated in the direction that holds: what is stored
acts, though what acts may no longer be stored. `AgeSinceCrossing` speaks only of
links that have opened or closed in the run, and `RuleStepKept` only of two
evaluations in one run: neither covers what is before these, which is wrong.

*Rain.* A file gage of type INTENSITY takes the depths of its file for intensities
(`input/PostParseResolver.cpp:285`); a CUMULATIVE gage rains for one runoff step
per record (`hydrology/Gage.cpp:213`); `Faithful` excepts both. The rain set by
`swmm_gage_set_rainfall` is overwritten before use; co-gages are not found anew
when a gage gets another series; before the first record a report shows that
record's rain; a lookup by the client moves the cursor a report reads. `swmm_gage_set_scale_factor`
and the `swmm_table_*` calls work during a run too; the series of the model are fixed,
so these are left out.

*Editing.* The deletion of a node clears the `route_to` of an outfall that holds
its index, though the column holds subcatchments (`edit/ObjectDeleter.cpp:455`);
`co_gage` is renumbered by no deletion; a split keeps no section name; adding a
land use after an edit may wipe the coverage (`core/openswmm_quality_impl.cpp:66`);
the report on a node leaves out what goes with its links, which
`DeletionForetold` allows for. `swmm_link_set_nodes` and `swmm_subcatch_set_outlet`
store any integer (`core/openswmm_links_impl.cpp:171-180`,
`core/openswmm_subcatchments_impl.cpp:75-82`); the model has them store the index of
a node there is, or none. The refinement is about the columns in
`MCFollowed`, which are all but these, the cross-section columns and the joins.

### Fairness

`IOSpec` is fair to the worker and, per caller, to the steps inside `post()` and
`stop()`: threads are scheduled, a mutex is eventually obtained, and
`update_all` returns. No fairness is given to the caller's decision to call, to
spurious wakeups or to failures. `EngineSession` has the same, for its one
caller; `EngineRun` is also fair to the client, since
`swmm_engine_run_with_callback()` waits for nobody between its calls, and it
relies on `EveryRunEnds` for the end of its step loop: there the number of
snapshots is bounded but the choice between another report and completion is
the clock's. `ClockSpec` is fair to the steps of `step()`; it is the client's loop
(`include/openswmm/engine/openswmm_engine.h`) that keeps calling it. The other
modules state no fairness: a client need not edit, call or step again, and what is
checked of them is safety.

## 4. What is proved

The theorems hold for every value of the constants that satisfies the module's
assumption: `ConstantsAssumption` (a set of threads with a controller, a positive
capacity, natural bounds), `ClockAssumption` (positive ticks, non-negative options
with positive steps), `ControlAssumption` (finitely many links, pumps without a
ramp, the events of a model sorted by start, as `initHydraulics()` sorts them) and
`GagesAssumption` (intervals not longer than the time between two records, which
the engine does not check), `SessionAssumption` (the handle has one caller, the
plugins take the snapshots of its writer thread), and `ModelsAssumption` with
`NewNamesAssumption` (the models to start from are well formed, and the empty name is
nobody's). `PluginCalls` needs none.

*Writer thread.* `TypeCorrect` proves `IOTypeOK`, which is inductive. The other
results need `IOInv`, the conjunction of `IOTypeOK`, `FifoNoLoss` and
`StopProtocol`. `FifoNoLoss` is what every step of the queue preserves by itself.
`StopProtocol` ties the flag, the callers' positions and the life of the worker
together: the next sequence number is the number of tasks queued; there are
posters inside `post()`, and a worker, only after a start; the flag is up while a
stop is in progress; with the flag down after a start the worker is alive and in
its loop; and a worker that is not there, or on its way out, leaves the queue
empty. Without it the step by which the worker exits could be taken from a state
in which a poster is about to enqueue.
From `IOInv` follow `FifoCorrect`, `DrainCorrect` (nothing unwritten once the
worker is gone) and `RefinesSnapshotLog` (each step is a step or a stutter of
the abstract log). `WorkerAwake` proves `WorkerNotStranded`, inductive relative
to `IOInv`. `PostersAwakeCorrect` proves `PostersNotStranded` for finitely many
threads by counting: a slot that is freed comes with a notification, a slot that is
taken takes one poster off those going for one, and a poster goes to sleep only
when there is no slot at all.

*Plugins.* `FilesInv` adds to `PluginTypeOK`, `FooterCountsPeriods` and
`ReportEndsOnce` that a stream is held only in the states in which the plugin may
write (`StreamsFollowStates`). `Plugins_proofs` shows, call by call, what keeps it,
and under which condition on the caller; the two modules that use the plugin layer
have to show that they meet the conditions. For `PluginCalls` that is
`PluginInv`: in addition, before validation there is no stream and no finalized
plugin (`PhasesFollowStates`). `StreamsFollowStates` is why an update that reaches
the file reaches the count as well; that a file has one writer is why a second
prepare cannot start it anew under another plugin. `FooterCorrect`,
`ReportEndCorrect` and `FinalizedCorrect` follow, for any number of libraries,
rounds and snapshots, any order of calls and any failures. A plugin of a library that
fails leaves its state for `ERROR`, also in a second finalize, which `FinalizedCorrect`
allows; the built-in ones stay where they are.

*Session.* `SessionStepIsIO` shows that every call of a handle is, to the writer
thread, one of its own steps or none, so that `IOInv` carries over
(`SessionWriterCorrect`). `SessionInv` adds: `ControlInv`, which places the writer
thread and the interface files by what the caller is doing (a `stop()` that has
returned leaves no thread, the thread is there from `start()` to the end of the next
stop, in the states from which a session may start there is neither thread nor open
file); `PluginsKept`, that is `FilesInv` and which plugins there are in which state
of the handle; and `OutInv`, that an open `.out` holds what was delivered since
its session began. `ControlInv` does not need the other two, and gives
`FreshStartCorrect`, `DiscardCorrect` and `OneOwnerCorrect`; the last assumes
`ReportsAfterEnd`, without which it is false (section 3). `OutInv` needs all of them:
that `prepare()` finds everything delivered is the drained queue of `IOInv`, that a
snapshot is appended exactly when it is delivered is `FilesInv`. `OutFileCorrect`
and `SealedCorrect` follow.

*Whole run.* `RunInv` adds to `SessionInv` where `swmm_engine_run()` is and what it
knows then (`RunPositions`), that all snapshots of the handle are of this run
(`RunHistory`), that a stream is open only while the run is writing, but for the
`.out` that a start leaves when the file of the 2D surface fails (`RunSafe`,
`LeftByStart`), that an `.out` that was asked for has its plugin, is open while it is written and sealed
from then on (`OutPromised`), and that the report is closed before the plugins are
unloaded (`ReportKept`). `RunCompleteCorrect` and `RunCleanCorrect` follow.

*Step clock.* `ClockInv` consists of `ClockTypeOK`; `StepBounded`, that the clock,
and the clock at the end of the step in progress, pass the run by less than a
millisecond; `WindowCovers`, that the runoff clock has reached the routing
clock, or the end of the run; and `FirstWindow`, that in the first run of a
handle the runoff clock does not pass the end of the run and its last window
starts before the routing clock, or before the end of the step in progress. The
step in progress has to be bounded because the overshoot shows only when the
clock is advanced. From it follow `ClockTypeCorrect`,
`OvershootCorrect` and `RunoffCoversCorrect`. `EveryPeriodCorrect` rests on
`ReportGrid`: the next report is the first multiple of the report step past the
clock, no step in progress is longer than a report step, and what was reported is
what was due. That such a step passes at most one multiple is arithmetic
(`MultiplesApart`, `NextMultiple`).

*Controls.* `ControlInv` is `ControlTypeOK` and `AgeSinceCrossing` with two facts:
a link of which the client forced nothing is not forced (`Unwritten`), and a
crossing lies in the run (`CrossedInRun`). `AgeCorrect` needs them because a
forcing moves a link without dating it; it says nothing of a link before its first
crossing, whose age is wrong (section 3). `RunInv` describes a run: dates do not go
back, events do not overlap once initialized, those before the next one were over
at the last step, and the rule timer is a rule step past the last evaluation.
`EventsCorrect` and `RuleStepCorrect` follow. `TimesHit` says that a hit of a time
premise lies within half a step of its time, that there are not two, and that
there is one once the clock is past; `EqualTimeCorrect` follows. `StoredCorrect`
is inductive with the types: every action keeps the texts at the end of the
compiled rules.

*Rain.* `RainInv` is `RainTypeOK` and `RainIsTheSeries` with: the model is a
well-formed one; the engine's series have its dates, and its values where they
are not converted (`TablesKept`); and gages change only before the first runoff
step (`NotBegun`). The work is in the lookups: the seek from any cursor ends at
the record of its date (`SeekIs`, `StepIndexIs`), so that it does not matter who
moved the cursor before, and the next change of rain over all gages bounds the
step. `ReportInv` adds `SinceStep`, that a cursor not moved by a query is where
the last runoff step left it; `ReportCorrect` follows.

*Editing.* `WellFormed` is inductive, from any models that satisfy it
(`ModelsAssumption`; a parsed model does, since the reader sizes the columns of a
table together, resolves names only to objects there are, and rebuilds the side-table
indices at its end). Its parts:

- `Columns`: every column has an entry per object of its table, or more if it is one of
  `NotErased`.
- `Keyed`: the rows of the side tables belong one to one to the nodes and links whose
  type has a table, in the order of these.
- `Indexed`: `subtype_row` leads to the row.
- `InRange`: a reference is empty or an index of the table it points into. The columns
  `Unkept` are left out: the joins, of which `Keyed` says more, and three that some
  deletion forgets (section 3).
- `Matrices`: an entered cell of the buildup or treatment matrix stands in the row and
  column of the objects it was entered for. The treatment matrix may have more rows than
  there are nodes (without pollutants the deletion of a node leaves its stripe, which is
  empty then), so rows that hold nothing may be anywhere.

`Columns` alone is not inductive, since inserting at the key of an object presumes
that keys are indices, nor is `Keyed` without `Indexed`, since a conversion erases the
row to which the index leads. `InRange` is why a deletion that renumbers what
is behind a row, after clearing what points to the row itself, leaves no reference past
the end. That nothing is entered in the treatment row of a node the session added
(`Original`) is why the last node can be popped without its stripe: no call of the
module enters a treatment.

The proof goes through the calls in three layers. Lemmas on columns come first:
`Ascending` enumerates a set (`AscendingFacts`), an inserted row moves the ones
behind it, a selection keeps their order. Then come relations between two models that
compose: `Trimmed` (references cleared, rows that only refer erased), `Removed` (one row
gone, with its side-table row and index), `Without` (an object deleted, references
renumbered), `With` (one added), `Kept` (the same objects), and `Filed` for the
matrices, whose cells are followed through a change of stride by division
(`CellPlace`). Then there is one lemma per call. A node takes its links with it in a
recursion over the links; `LinksDeleted` proves it by induction over a set, for which
`SetInduction` derives the principle from a well-founded order. From `WellFormed` follow
`EditTypeCorrect`, `SubtypesCorrect` and `MatricesCorrect`.

`FuseUndoesSplitCorrect` follows the tables through the split and the two deletions of
the fusion. `Prolongs(m, u, E)` says that `u` is `m` with one row more at the end of every
table of `E`; the split, once its upstream half is rewired, prolongs the model by a node, a
link and a row of conduits (`SplitProlongs`), every clearing, cascade and renumbering of
the deletions keeps that, because what a well-formed model refers to comes before the new
rows, and the deletions take the rows one table after the other until nothing is left of
`E` (`LinkUndone`, `NodeUndone`). That the split may be fused at all, if nothing else flows
into the new node, is `SplitMayFuse`. The theorem assumes that `route_to` is not among the
followed columns, as in the runs: `delete_node` takes its values for indices of nodes
(section 3), so a fusion may clear or shift it.

Only model-checked: the refinement of `ModelGraph` and `DeletionForetold` (they follow
what every reference stands for through a deletion, which `WellFormed` does not speak
of), and everything about liveness
(`CallsReturn`, `EveryCallReturns`, `RunReturns`, `EveryRunEnds` and the fairness part
of `ImplementsSnapshotLog`): TLAPS does not handle `ENABLED`, on which weak fairness
rests. No module declares a recursive operator.

## 5. What is not modelled, and why

- What a step computes: hydraulics, hydrology, quality and 2D are floating-point
  numerics. They meet the model as the step they suggest and as the snapshot
  they produce. Clock arithmetic is exact in the model; the code computes in
  doubles, and the drift it guards against (`SWMMEngine.cpp:1099-1104`) is not.
- File contents and formats, messages, units, input text. Reading an input file
  is its outcome.
- Library discovery, the plugin registry and state-I/O plugins. Of the 2D surface (a
  build option) a missing mesh file and the failures of its output plugin are
  modelled, but not what that plugin writes and the snapshots made for it.
- Interface files opened through the C API instead of `[FILES]`, and the records
  in them.
- `dt_controls_remaining`: no code gives it a value other than 0, so the clamp in
  `compute_next()` is dead.
- `REPORT_STEP 0` with `IGNORE_ROUTING`, which gives steps of no length: the
  options of the model exclude it.
- Of controls: actions modulated by curves, series and PID; named expressions;
  premises on attributes other than depth, simulation time and the time a link
  has been open or closed.
- Of rain: snow, monthly adjustments, past rain for rules, the formats of rain
  files, gages whose interval is longer than the time between records; a client that
  changes series or scale factors.
- Of forcings: the channels other than a link's setting and a gage's rain, which
  no other code writes during a step.
- Of editing: spatial arrays, comments and statistics, which stand behind the
  data columns; the rules a report quotes; look-up of names without regard to
  case; three of the conditions on a virtual junction: one barrel
  (`edit/VirtualJunctionOps.cpp:89-92`), no offsets at it (`105-108`), no coupling to the
  2D mesh (`124-130`).
- Most accessors of the C API: one assignment behind a state check each.
- The legacy engine, the command lines, the result reader and the Python
  bindings, which are clients of, or references for, the parts above. With
  generated and ported code they are the larger part of the repository by lines.

## 6. What could follow

In the order in which it would add most:

1. the bracket of two records in `core/InterfaceFile.cpp:274`, against
   interpolation as a reference definition, and a record cut off in the middle;
2. `hydraulics/TopoSort.cpp` against the definition of a topological order;
3. hot start: what save followed by use restores;
4. the process-wide solver cache under concurrent engines;
5. the windows of the 2D coupling, the level schedule of the finite volume
   solver, the control of the Picard loop in the dynamic wave solver;
6. the deferred sections of the input reader; the legacy life cycle.

## 7. Running

```
tlc -config MCIOThread_threads.cfg MCIOThread
tlapm IOThread_proofs.tla
```

`PROJECT.json` names the module and configuration of each run, the source lines
each definition stands for, and the mistake each property is known to catch.
