------------------------------ MODULE RainGages ------------------------------
(***************************************************************************)
(* Rain on the way from a rain gage's series to the subcatchments and to    *)
(* the results: updateAllGages() and getReportRainfall()                    *)
(* (src/engine/hydrology/Gage.cpp) over the cursor tables of                *)
(* src/engine/data/TableData.hpp, the runoff steps that                     *)
(* computeRunoffTimestep() ends at changes of the rain, and what a client   *)
(* may do to gages in between (SWMMEngine.cpp, openswmm_gages_impl.cpp,     *)
(* openswmm_forcing_impl.cpp, openswmm_tables_impl.cpp).                    *)
(*                                                                         *)
(* Time is counted in seconds from the start of the simulation. A call of   *)
(* step() is BeginStep, the turns of its runoff loop, and EndStep; it is in *)
(* progress while next_time is ahead of current_time. There are no monthly  *)
(* adjustments, no IGNORE_RAINFALL, no change of units, and no snow.        *)
(***************************************************************************)
EXTENDS Integers, Sequences, FiniteSetsExt

CONSTANTS
    Hour,          \* seconds in the hour of an intensity
    Models,        \* the models that may be opened
    RoutingSteps,  \* lengths of routing steps the solvers may ask for
    Intensities,   \* rainfall a client may set or force
    Lookups        \* abscissas at which a client looks up a series

\* A series has dates x and values y. table is the series a gage reads: one of
\* the shared pool, tables 1..pool, or, with source FILE, its own rain_series,
\* which nothing else reaches.
Series == [x : Seq(Int), y : Seq(Nat)]
Gage == [source : {"TIMESERIES", "FILE"}, table : Nat \ {0},
         rain_type : {"INTENSITY", "VOLUME", "CUMULATIVE"},
         interval : Nat \ {0}, scale : Nat \ {0}]
Model == [tables : Seq(Series), pool : Nat, gages : Seq(Gage), wet_step : Nat \ {0},
          dry_step : Nat \ {0}, report_step : Nat \ {0}, duration : Nat \ {0}]

\* The recording interval of a gage is not longer than the time between records.
Fits(gage, s) ==
    /\ Len(s.x) > 1
    /\ \A i, j \in 1..Len(s.x) : i < j => s.x[i] + gage.interval <= s.x[j]

WellFormed(m) ==
    /\ m.pool <= Len(m.tables)
    /\ \A t \in DOMAIN m.tables : Len(m.tables[t].x) = Len(m.tables[t].y)
    /\ \A g \in DOMAIN m.gages :
          /\ m.gages[g].table \in DOMAIN m.tables
          /\ Fits(m.gages[g], m.tables[m.gages[g].table])
          /\ m.gages[g].source = "TIMESERIES" <=> m.gages[g].table <= m.pool
          /\ \A h \in DOMAIN m.gages \ {g} :
                m.gages[g].source = "FILE" => m.gages[h].table # m.gages[g].table

ASSUME GagesAssumption ==
    /\ Hour \in Nat \ {0}
    /\ Models \subseteq Model
    /\ \A m \in Models : WellFormed(m)
    /\ RoutingSteps \subseteq Nat \ {0}
    /\ Intensities \subseteq Nat
    /\ Lookups \subseteq Int

VARIABLES
    state,             \* ctx_.state
    model,             \* the open model, its rain files as they were written
    tables,            \* ctx_.tables and gages.rain_series
    co_gage_index,     \* per gage: the gage whose rainfall it copies, 0 for none
    cursor,            \* per series: cursor.index, 1 for the code's 0
    cumul_rain_accum,  \* per gage
    rainfall,          \* gages.rainfall
    subcatch_rain,     \* per gage: subcatches.rainfall of the areas it rains on
    forcing,           \* per gage: its rainfall forcing
    old_runoff_time,   \* the runoff step taken last is from here
    new_runoff_time,   \* to here
    current_time,      \* end of the last routing step
    next_time,         \* end of the routing step in progress
    next_report,       \* date of the next report
    reported,          \* per gage: the rainfall in the report written last
    moved              \* history: series looked up since the last runoff step

rainVars == <<tables, cursor, cumul_rain_accum, rainfall, subcatch_rain, moved>>
clock == <<old_runoff_time, new_runoff_time, current_time, next_time, next_report>>
vars == <<state, model, co_gage_index, rainVars, forcing, clock, reported>>

GagesOf(m) == DOMAIN m.gages
Gages == DOMAIN model.gages
NoForcing == [mode |-> "NONE", value |-> 0, persist |-> FALSE]
Forcing == [mode : {"NONE", "OVERRIDE", "ADD"}, value : Nat, persist : BOOLEAN]

\* Dates are compared with gages' records a second late.
OneSecond == 1

PerHour(depth, gage) == (depth * Hour) \div gage.interval
-----------------------------------------------------------------------------
\* The seek of a cursor lookup: forward over the records up to q, then backward
\* over those after it.
SeekForward(x, c, q) ==
    Min({i \in Min({c, Len(x) - 1})..Len(x) : i = Len(x) \/ x[i + 1] > q})
Seek(x, c, q) == Max({i \in 1..SeekForward(x, c, q) : i = 1 \/ x[i] <= q})

\* Where table_step_cursor() leaves the cursor: at the last record up to t.
StepIndex(x, c, t) ==
    CASE Len(x) < 2 -> c
      [] Len(x) >= 2 /\ t < x[1] -> 1
      [] Len(x) >= 2 /\ t >= x[Len(x)] -> Len(x)
      [] OTHER -> Seek(x, c, t)

\* Where table_lookup_cursor() leaves it: before a record that is met exactly.
LookupIndex_PastEnd(x, c, t) ==
    IF Len(x) >= 2 /\ t > x[Len(x)] THEN Len(x) + 1 ELSE c
LookupIndex(x, c, t) ==
    CASE Len(x) < 2 -> c
      [] Len(x) >= 2 /\ t <= x[1] -> 1
      [] Len(x) >= 2 /\ t > x[Len(x)] -> Len(x)
      [] OTHER -> Seek(x, c, t - 1)
-----------------------------------------------------------------------------
\* load_external_rain_files(): what a gage keeps of its file is depths, an
\* intensity times the interval, a cumulative value less the one before.
FileDepth(gage, y, i) ==
    CASE gage.rain_type = "INTENSITY" -> (y[i] * gage.interval) \div Hour
      [] gage.rain_type = "VOLUME" -> y[i]
      [] gage.rain_type = "CUMULATIVE" ->
            IF i = 1 \/ y[i] < y[i - 1] THEN y[i] ELSE y[i] - y[i - 1]
Loaded(m) ==
    LET FileOf(t) == {g \in GagesOf(m) : m.gages[g].source = "FILE" /\ m.gages[g].table = t}
    IN  [t \in DOMAIN m.tables |->
           IF FileOf(t) = {} THEN m.tables[t]
           ELSE LET gage == m.gages[CHOOSE g \in FileOf(t) : TRUE]
                IN  [m.tables[t] EXCEPT !.y = [i \in DOMAIN @ |-> FileDepth(gage, @, i)]]]

\* Co-gage detection: a gage copies from the first gage on the same series.
CoGage(gages, g) ==
    LET primaries == {i \in 1..(g - 1) : /\ gages[i].source = "TIMESERIES"
                                         /\ gages[i].table = gages[g].table}
    IN  IF gages[g].source = "TIMESERIES" /\ primaries # {} THEN Min(primaries) ELSE 0

\* open(): the model is parsed, its rain files are read and its references
\* resolved.
Init ==
    /\ state = "OPENED"
    /\ model \in Models
    /\ tables = Loaded(model)
    /\ co_gage_index = [g \in Gages |-> CoGage(model.gages, g)]
    /\ cursor = [t \in DOMAIN tables |-> 1]
    /\ cumul_rain_accum = [g \in Gages |-> 0]
    /\ rainfall = [g \in Gages |-> 0]
    /\ subcatch_rain = [g \in Gages |-> 0]
    /\ forcing = [g \in Gages |-> NoForcing]
    /\ old_runoff_time = 0 /\ new_runoff_time = 0
    /\ current_time = 0 /\ next_time = 0
    /\ next_report = model.report_step
    /\ reported = [g \in Gages |-> 0]
    /\ moved = {}

\* swmm_gage_set_timeseries(): the co-gage of the gage stays, also if the two no
\* longer share a series. The client gives the gage a series of the pool that
\* fits its own interval. It leaves the series themselves (swmm_table_add_point(),
\* swmm_table_clear()) and the scale factors of gages
\* (swmm_gage_set_scale_factor()) alone: the code takes both in any state.
SetTimeseries(g, t) ==
    /\ state = "OPENED"
    /\ t \in 1..model.pool
    /\ Fits(model.gages[g], model.tables[t])
    /\ model' = [model EXCEPT !.gages[g].table = t, !.gages[g].source = "TIMESERIES"]
    /\ UNCHANGED <<state, co_gage_index, rainVars, forcing, clock, reported>>

\* initialize() and start(): reset_state() resets cursors and gages.
StartRun ==
    /\ state = "OPENED"
    /\ state' = "RUNNING"
    /\ cursor' = [t \in DOMAIN tables |-> 1]
    /\ cumul_rain_accum' = [g \in Gages |-> 0]
    /\ rainfall' = [g \in Gages |-> 0]
    /\ moved' = {}
    /\ UNCHANGED <<model, co_gage_index, tables, subcatch_rain, forcing, clock, reported>>
-----------------------------------------------------------------------------
\* What the client may do between two steps of a run.
Between == state = "RUNNING" /\ next_time = current_time

\* swmm_gage_set_rainfall().
SetRainfall(g, value) ==
    /\ Between
    /\ rainfall' = [rainfall EXCEPT ![g] = value]
    /\ UNCHANGED <<state, model, co_gage_index, tables, cursor, cumul_rain_accum,
                   subcatch_rain, moved, forcing, clock, reported>>

\* swmm_forcing_gage_rainfall(), swmm_forcing_clear().
SetForcing(g, f) ==
    /\ Between
    /\ forcing' = [forcing EXCEPT ![g] = f]
    /\ UNCHANGED <<state, model, co_gage_index, rainVars, clock, reported>>

\* swmm_table_lookup(): a query that moves the cursor. It has no state check.
Lookup(t, at) ==
    /\ next_time = current_time
    /\ t \in 1..model.pool
    /\ cursor' = [cursor EXCEPT ![t] = LookupIndex(tables[t].x, @, at)]
    /\ moved' = moved \cup {t}
    /\ UNCHANGED <<state, model, co_gage_index, tables, cumul_rain_accum, rainfall,
                   subcatch_rain, forcing, clock, reported>>

Client ==
    \/ \E g \in Gages, t \in DOMAIN tables : SetTimeseries(g, t)
    \/ \E g \in Gages, v \in Intensities : SetRainfall(g, v)
    \/ \E g \in Gages, v \in Intensities, mode \in {"OVERRIDE", "ADD"}, persist \in BOOLEAN :
          SetForcing(g, [mode |-> mode, value |-> v, persist |-> persist])
    \/ \E g \in Gages : SetForcing(g, NoForcing)
    \/ \E t \in DOMAIN tables, at \in Lookups : Lookup(t, at)
-----------------------------------------------------------------------------
\* step(): applyForcings() writes the forced rainfall into the gages.
Forced(f, r) ==
    CASE f.mode = "NONE" -> r
      [] f.mode = "OVERRIDE" -> f.value
      [] f.mode = "ADD" -> r + f.value
BeginStep ==
    /\ Between
    /\ current_time < model.duration
    /\ \E dt \in RoutingSteps : next_time' = Min({current_time + dt, model.duration})
    /\ rainfall' = [g \in Gages |-> Forced(forcing[g], rainfall[g])]
    /\ UNCHANGED <<state, model, co_gage_index, tables, cursor, cumul_rain_accum,
                   subcatch_rain, moved, forcing, old_runoff_time, new_runoff_time,
                   current_time, next_report, reported>>

\* A gage that copies leaves series alone; the others put the cursor of theirs
\* on the record of the time. A second gage on a series finds it there.
Copies(g) == co_gage_index[g] # 0
TablesRead == {model.gages[g].table : g \in {h \in Gages : ~Copies(h)}}
Cursors(at) ==
    [t \in DOMAIN tables |->
        IF t \in TablesRead THEN StepIndex(tables[t].x, cursor[t], at + OneSecond)
        ELSE cursor[t]]

\* The value of the record at the cursor, until its interval is over; none before
\* the first record of two or more.
RawValue(gage, c, at) ==
    LET s == tables[gage.table]
        t == at + OneSecond
    IN  IF \/ t >= s.x[c] + gage.interval
           \/ t < s.x[1] /\ Len(s.x) > 1
        THEN 0 ELSE s.y[c]

OwnRainfall(g, c, at) ==
    LET gage == model.gages[g]
        raw == RawValue(gage, c, at)
        before == cumul_rain_accum[g]
    IN  gage.scale *
          (CASE gage.rain_type = "INTENSITY" -> raw
             [] gage.rain_type = "VOLUME" -> PerHour(raw, gage)
             [] gage.rain_type = "CUMULATIVE" ->
                  PerHour(IF raw < before THEN raw ELSE raw - before, gage))

\* updateAllGages(). The primary of a copying gage comes before it and is updated
\* first; api_rainfall, which no code sets, is left out.
NewRainfall(at) ==
    LET Own(g) == OwnRainfall(g, Cursors(at)[model.gages[g].table], at)
    IN  [g \in Gages |->
           IF Copies(g)
           THEN (Own(co_gage_index[g]) * model.gages[g].scale)
                  \div model.gages[co_gage_index[g]].scale
           ELSE Own(g)]

\* computeRunoffTimestep(): the next change of a gage's rain, as its cursor tells.
NextRainDate(gage, c, at) ==
    LET x == tables[gage.table].x
        t == at + OneSecond
    IN  CASE t < x[c] -> {x[c]}
          [] t >= x[c] /\ t < x[c] + gage.interval -> {x[c] + gage.interval}
          [] OTHER -> IF c < Len(x) THEN {x[c + 1]} ELSE {}
NextRainDates_PoolOnly(c, at) ==
    UNION {NextRainDate(model.gages[g], c[model.gages[g].table], at) :
              g \in {h \in Gages : model.gages[h].source = "TIMESERIES"}}
NextRainDates(c, at) ==
    UNION {NextRainDate(model.gages[g], c[model.gages[g].table], at) : g \in Gages}
RunoffTimestep(wet, c, at) ==
    Min({IF wet THEN model.wet_step ELSE model.dry_step, model.dry_step}
          \cup {d - at : d \in {e \in NextRainDates(c, at) : e > at}})

\* A turn of the runoff loop of stepRunoff(): gages, climate, step, runoff.
RunoffStep ==
    /\ state = "RUNNING"
    /\ new_runoff_time < next_time
    /\ old_runoff_time' = new_runoff_time
    /\ cursor' = Cursors(new_runoff_time)
    /\ rainfall' = NewRainfall(new_runoff_time)
    /\ cumul_rain_accum' =
          [g \in Gages |->
              IF model.gages[g].rain_type = "CUMULATIVE" /\ ~Copies(g)
              THEN RawValue(model.gages[g], cursor'[model.gages[g].table], new_runoff_time)
              ELSE cumul_rain_accum[g]]
    /\ \E has_runoff \in BOOLEAN :
          LET wet == has_runoff \/ \E g \in Gages : rainfall'[g] > 0
          IN  new_runoff_time' =
                Min({new_runoff_time + RunoffTimestep(wet, cursor', new_runoff_time),
                     model.duration})
    /\ subcatch_rain' = rainfall'
    /\ moved' = {}
    /\ UNCHANGED <<state, model, co_gage_index, tables, forcing, current_time,
                   next_time, next_report, reported>>
-----------------------------------------------------------------------------
\* getReportRainfall() of a gage that does not copy.
OwnReport_CurrentRecord(g, date) ==
    LET gage == model.gages[g]
        raw == tables[gage.table].y[cursor[gage.table]]
    IN  gage.scale * (IF gage.rain_type = "VOLUME" THEN PerHour(raw, gage) ELSE raw)
OwnReport(g, date) ==
    LET gage == model.gages[g]
        s == tables[gage.table]
        c == cursor[gage.table]
        t == date + OneSecond
        raw == CASE t < s.x[c] + gage.interval -> s.y[c]
                 [] OTHER -> IF c < Len(s.x) /\ t >= s.x[c + 1] THEN s.y[c + 1] ELSE 0
    IN  gage.scale * (IF gage.rain_type = "VOLUME" THEN PerHour(raw, gage) ELSE raw)
ReportRainfall(g, date) ==
    IF Copies(g)
    THEN (OwnReport(co_gage_index[g], date) * model.gages[g].scale)
           \div model.gages[co_gage_index[g]].scale
    ELSE OwnReport(g, date)

\* The end of step(): RESET forcings are cleared, the clock advances, and a
\* report that is due is written.
EndStep ==
    /\ state = "RUNNING"
    /\ current_time < next_time /\ next_time <= new_runoff_time
    /\ current_time' = next_time
    /\ forcing' = [g \in Gages |-> IF forcing[g].persist THEN forcing[g] ELSE NoForcing]
    /\ IF next_report <= next_time
       THEN /\ reported' = [g \in Gages |-> ReportRainfall(g, next_report)]
            /\ next_report' = next_report + model.report_step
       ELSE UNCHANGED <<reported, next_report>>
    /\ UNCHANGED <<state, model, co_gage_index, rainVars, old_runoff_time,
                   new_runoff_time, next_time>>

Next == Client \/ StartRun \/ BeginStep \/ RunoffStep \/ EndStep

Spec == Init /\ [][Next]_vars
-----------------------------------------------------------------------------
\* What the series says: the intensity of the record whose interval a time is in.
Intensity(g, i) ==
    LET gage == model.gages[g]
        y == model.tables[gage.table].y
    IN  CASE gage.rain_type = "INTENSITY" -> y[i]
          [] gage.rain_type = "VOLUME" -> PerHour(y[i], gage)
          [] gage.rain_type = "CUMULATIVE" ->
               PerHour(IF i = 1 \/ y[i] < y[i - 1] THEN y[i] ELSE y[i] - y[i - 1], gage)
RainAt(g, s) ==
    LET gage == model.gages[g]
        x == model.tables[gage.table].x
        now == {i \in DOMAIN x : x[i] <= s /\ s < x[i] + gage.interval}
    IN  gage.scale * (IF now = {} THEN 0 ELSE Intensity(g, Max(now)))

\* The gages whose rain is their series': not cumulative, not of a file other
\* than volumes, and, if they copy, from a gage that still reads the same.
Primary(g) == IF Copies(g) THEN co_gage_index[g] ELSE g
Faithful(g) ==
    LET gage == model.gages[g]
        from == model.gages[Primary(g)]
    IN  /\ \/ gage.rain_type = "VOLUME"
           \/ gage.rain_type = "INTENSITY" /\ gage.source = "TIMESERIES"
        /\ [from EXCEPT !.scale = gage.scale] = gage

\* The types of the gages' state: cursors stay inside their series, a gage copies
\* only from an earlier one that does not copy, and the runoff window and the
\* routing step advance together.
RainTypeOK ==
    /\ state \in {"OPENED", "RUNNING"}
    /\ DOMAIN cursor = DOMAIN tables
    /\ \A t \in DOMAIN tables : cursor[t] \in 1..Max({1, Len(tables[t].x)})
    /\ cumul_rain_accum \in [Gages -> Nat] /\ rainfall \in [Gages -> Nat]
    /\ subcatch_rain \in [Gages -> Nat] /\ reported \in [Gages -> Nat]
    /\ forcing \in [Gages -> Forcing]
    /\ co_gage_index \in [Gages -> Nat]
    /\ \A g \in Gages : co_gage_index[g] < g /\ (Copies(g) => ~Copies(co_gage_index[g]))
    /\ old_runoff_time \in 0..new_runoff_time /\ new_runoff_time \in 0..model.duration
    /\ current_time \in 0..next_time /\ next_time \in 0..model.duration
    /\ current_time <= new_runoff_time
    /\ next_report \in Nat
    /\ moved \subseteq DOMAIN tables

\* The rain of a runoff step is the rain of the series from its first second to
\* its last: no record starts or ends inside a step, none is passed over while
\* it is dry, and neither what a client sets nor where its queries leave the
\* cursor of a series changes that (computeRunoffTimestep, updateAllGages).
RainIsTheSeries ==
    old_runoff_time < new_runoff_time =>
        \A g \in Gages : Faithful(g) =>
            \A s \in (old_runoff_time + 1)..Max({old_runoff_time + 1, new_runoff_time - 1}) :
                subcatch_rain[g] = RainAt(g, s)

\* The rain in a report is the rain of the series at its date, or, where the
\* cursor has gone on in the routing step that writes it, at a later time of that
\* step; once the series has begun, unless a query moved its cursor, and if its
\* intervals are longer than the second dates are shifted by (getReportRainfall).
ReportedRainIsOfTheStep ==
    [][next_report' # next_report =>
          \A g \in Gages :
              /\ Faithful(g)
              /\ model.gages[g].table \notin moved
              /\ tables[model.gages[g].table].x[1] <= next_report + OneSecond
              /\ model.gages[g].interval > OneSecond
              => \E s \in next_report..next_time : reported'[g] = RainAt(g, s + OneSecond)]_vars
-----------------------------------------------------------------------------
\* openswmm_forcing.h, swmm_forcing_gage_rainfall: "Force rainfall on a rain gage
\* (affects all linked subcatchments)."
GageForcingReachesRunoff ==
    [][new_runoff_time' # new_runoff_time =>
          \A g \in Gages : forcing[g].mode = "OVERRIDE" => subcatch_rain'[g] = forcing[g].value]_vars
=============================================================================
