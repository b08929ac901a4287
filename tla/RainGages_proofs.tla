--------------------------- MODULE RainGages_proofs ---------------------------
(***************************************************************************)
(* What holds of the rain for every set of models, any routing steps and   *)
(* whatever a client sets, forces or looks up: the types of the gages'     *)
(* state, and that the rain of every runoff step is the rain of its series. *)
(***************************************************************************)
EXTENDS RainGages, WellFoundedInduction, TLAPS

-----------------------------------------------------------------------------
(* Arithmetic, and the least and the greatest element of a set.              *)

LEMMA DivNat ==
    ASSUME NEW a \in Nat, NEW b \in Nat \ {0}
    PROVE  a \div b \in Nat
  OBVIOUS

LEMMA TimesNat ==
    ASSUME NEW a \in Nat, NEW b \in Nat
    PROVE  a * b \in Nat
  OBVIOUS

\* A copying gage divides its primary's scale out again.
LEMMA Rescaled ==
    ASSUME NEW a \in Nat, NEW b \in Nat \ {0}, NEW c \in Nat
    PROVE  ((b * a) * c) \div b = c * a
<1>. DEFINE n == c * a
<1>1. n \in Nat
  BY TimesNat
<1>2. (b * a) * c = n * b
  OBVIOUS
<1>. HIDE DEF n
<1>3. (n * b) \div b = n
  BY <1>1
<1>. QED
  BY <1>2, <1>3 DEF n

LEMMA MinNat ==
    ASSUME NEW S \in SUBSET Nat, S # {}
    PROVE  \E x \in S : \A y \in S : x <= y
<1>. DEFINE Less == {pair \in Nat \X Nat : pair[1] < pair[2]}
<1>1. IsWellFoundedOn(Less, Nat)
  BY NatLessThanWellFounded DEF OpToRel
<1>2. PICK x \in S : \A y \in S : ~ (<<y, x>> \in Less)
  BY <1>1, WFMin
<1>3. ASSUME NEW y \in S
      PROVE  x <= y
  <2>1. ~ (y < x)
    BY <1>2
  <2>. QED
    BY <2>1
<1>. QED
  BY <1>3

LEMMA MinOf ==
    ASSUME NEW a \in Int, NEW S \in SUBSET Int, S # {}, \A x \in S : a <= x
    PROVE  Min(S) \in S /\ \A y \in S : Min(S) <= y
<1>. DEFINE T == {n \in Nat : \E x \in S : n = x - a}
<1>1. \A y \in S : y - a \in T
  OBVIOUS
<1>2. PICK t \in T : \A n \in T : t <= n
  BY <1>1, MinNat
<1>3. PICK x \in S : t = x - a
  OBVIOUS
<1>4. ASSUME NEW y \in S
      PROVE  x <= y
  <2>1. t <= y - a
    BY <1>1, <1>2
  <2>. QED
    BY <1>3, <2>1
<1>. QED
  BY <1>4 DEF Min

LEMMA MaxOf ==
    ASSUME NEW b \in Int, NEW S \in SUBSET Int, S # {}, \A x \in S : x <= b
    PROVE  Max(S) \in S /\ \A y \in S : Max(S) >= y
<1>. DEFINE T == {n \in Nat : \E x \in S : n = b - x}
<1>1. \A y \in S : b - y \in T
  OBVIOUS
<1>2. PICK t \in T : \A n \in T : t <= n
  BY <1>1, MinNat
<1>3. PICK x \in S : t = b - x
  OBVIOUS
<1>4. ASSUME NEW y \in S
      PROVE  x >= y
  <2>1. t <= b - y
    BY <1>1, <1>2
  <2>. QED
    BY <1>3, <2>1
<1>. QED
  BY <1>4 DEF Max

\* The lesser and the greater of two.
LEMMA MinMaxOfTwo ==
    ASSUME NEW a \in Int, NEW b \in Int
    PROVE  /\ Min({a, b}) \in {a, b} /\ Min({a, b}) <= a /\ Min({a, b}) <= b
           /\ Max({a, b}) \in {a, b} /\ Max({a, b}) >= a /\ Max({a, b}) >= b
<1>1. PICK lo \in {a, b} : \A y \in {a, b} : lo <= y
  <2>1. CASE a <= b
    BY <2>1
  <2>2. CASE b <= a
    BY <2>2
  <2>. QED
    BY <2>1, <2>2
<1>2. PICK hi \in {a, b} : \A y \in {a, b} : hi >= y
  <2>1. CASE a >= b
    BY <2>1
  <2>2. CASE b >= a
    BY <2>2
  <2>. QED
    BY <2>1, <2>2
<1>3. Min({a, b}) \in {a, b} /\ \A y \in {a, b} : Min({a, b}) <= y
  BY <1>1 DEF Min
<1>4. Max({a, b}) \in {a, b} /\ \A y \in {a, b} : Max({a, b}) >= y
  BY <1>2 DEF Max
<1>. QED
  BY <1>3, <1>4

-----------------------------------------------------------------------------
(* Where the lookups leave a cursor.                                         *)

\* The forward seek ends on the last record, or before one that is later than
\* what is sought.
LEMMA SeekForwardIs ==
    ASSUME NEW x \in Seq(Int), Len(x) > 1, NEW c \in 1..Len(x), NEW q \in Int
    PROVE  /\ SeekForward(x, c, q) \in 1..Len(x)
           /\ \/ SeekForward(x, c, q) = Len(x)
              \/ x[SeekForward(x, c, q) + 1] > q
<1>. DEFINE last == Len(x) - 1
            from == Min({c, last})
            S == {i \in from..Len(x) : i = Len(x) \/ x[i + 1] > q}
<1>1. from \in {c, last}
  <2>1. c \in Int /\ last \in Int
    OBVIOUS
  <2>. HIDE DEF last
  <2>. QED
    BY <2>1, MinMaxOfTwo
<1>2. from \in 1..Len(x)
  BY <1>1
<1>. HIDE DEF from
<1>3. S \in SUBSET Int /\ S # {} /\ 1 \in Int /\ \A i \in S : 1 <= i
  BY <1>2
<1>. HIDE DEF S
<1>4. Min(S) \in S
  BY <1>3, MinOf
<1>5. Min(S) \in 1..Len(x) /\ (Min(S) = Len(x) \/ x[Min(S) + 1] > q)
  BY <1>2, <1>4 DEF S
<1>. QED
  BY <1>5 DEF SeekForward, S, from

\* The seek ends inside the series, on the last record up to what is sought if
\* there are records on both sides.
LEMMA SeekIs ==
    ASSUME NEW x \in Seq(Int), Len(x) > 1, NEW c \in 1..Len(x), NEW q \in Int
    PROVE  /\ Seek(x, c, q) \in 1..Len(x)
           /\ x[1] <= q /\ q < x[Len(x)] =>
                 /\ Seek(x, c, q) < Len(x)
                 /\ x[Seek(x, c, q)] <= q /\ q < x[Seek(x, c, q) + 1]
<1>. DEFINE f == SeekForward(x, c, q)
            S == {i \in 1..f : i = 1 \/ x[i] <= q}
            k == Max(S)
<1>1. f \in 1..Len(x) /\ (f = Len(x) \/ x[f + 1] > q)
  BY SeekForwardIs
<1>. HIDE DEF f
<1>2. S \in SUBSET Int /\ S # {} /\ Len(x) \in Int /\ \A i \in S : i <= Len(x)
  <2>1. 1 \in S
    BY <1>1
  <2>2. f \in Nat /\ Len(x) \in Nat /\ f <= Len(x)
    BY <1>1
  <2>3. S \in SUBSET Int /\ \A i \in S : i <= Len(x)
    BY <2>2
  <2>. QED
    BY <2>1, <2>2, <2>3
<1>. HIDE DEF S
<1>3. k \in S /\ \A i \in S : k >= i
  BY <1>2, MaxOf
<1>. USE DEF S
<1>. HIDE DEF k
<1>4. k \in 1..Len(x) /\ k <= f /\ k \in Int /\ f \in Int
  BY <1>1, <1>3
<1>5. ASSUME x[1] <= q, q < x[Len(x)]
      PROVE  k < Len(x) /\ x[k] <= q /\ q < x[k + 1]
  <2>1. x[k] <= q
    BY <1>3, <1>5
  <2>2. k # Len(x)
    BY <2>1, <1>4, <1>5
  <2>3. q < x[k + 1]
    <3>1. CASE k = f
      BY <3>1, <1>1, <2>2
    <3>2. CASE k # f
      <4>1. k + 1 \in 1..f /\ k + 1 \notin S
        BY <3>2, <1>1, <1>3, <1>4
      <4>2. x[k + 1] \in Int
        BY <4>1, <1>1
      <4>. QED
        BY <4>1, <4>2
    <3>. QED
      BY <3>1, <3>2
  <2>. QED
    BY <2>1, <2>2, <2>3, <1>4
<1>. QED
  BY <1>4, <1>5 DEF Seek, k, f

\* The cursor of a gage's series is on the last record up to the time, or on the
\* first.
LEMMA StepIndexIs ==
    ASSUME NEW x \in Seq(Int), Len(x) > 1, x[1] <= x[Len(x)],
           NEW c \in 1..Len(x), NEW t \in Int, NEW k, k = StepIndex(x, c, t)
    PROVE  /\ k \in 1..Len(x)
           /\ t < x[1] => k = 1
           /\ t >= x[1] => x[k] <= t /\ (k < Len(x) => t < x[k + 1])
<1>1. x[1] \in Int /\ x[Len(x)] \in Int /\ Len(x) \in Nat
  OBVIOUS
<1>. DEFINE s == Seek(x, c, t)
<1>2. /\ s \in 1..Len(x)
      /\ x[1] <= t /\ t < x[Len(x)] => s < Len(x) /\ x[s] <= t /\ t < x[s + 1]
  BY SeekIs
<1>. HIDE DEF s
<1>3. CASE t < x[1]
  BY <1>1, <1>3 DEF StepIndex
<1>4. CASE t >= x[Len(x)] /\ t >= x[1]
  BY <1>1, <1>4 DEF StepIndex
<1>5. CASE t >= x[1] /\ t < x[Len(x)]
  <2>1. k = s
    BY <1>1, <1>5 DEF StepIndex, s
  <2>. QED
    BY <2>1, <1>1, <1>2, <1>5
<1>. QED
  BY <1>1, <1>3, <1>4, <1>5

\* A lookup leaves a cursor inside its series, or on the first of no records.
LEMMA CursorType ==
    ASSUME NEW x \in Seq(Int), NEW c \in 1..Max({1, Len(x)}), NEW t \in Int
    PROVE  /\ StepIndex(x, c, t) \in 1..Max({1, Len(x)})
           /\ LookupIndex(x, c, t) \in 1..Max({1, Len(x)})
<1>. DEFINE top == Max({1, Len(x)})
<1>1. top \in {1, Len(x)} /\ top >= 1 /\ top >= Len(x)
  <2>1. 1 \in Int /\ Len(x) \in Int
    OBVIOUS
  <2>. QED
    BY <2>1, MinMaxOfTwo
<1>. HIDE DEF top
<1>2. CASE Len(x) < 2
  BY <1>1, <1>2 DEF StepIndex, LookupIndex, top
<1>3. CASE Len(x) >= 2
  <2>1. top = Len(x)
    BY <1>1, <1>3
  <2>2. Seek(x, c, t) \in 1..Len(x) /\ Seek(x, c, t - 1) \in 1..Len(x)
    <3>1. c \in 1..Len(x) /\ Len(x) > 1 /\ t - 1 \in Int
      BY <2>1, <1>3 DEF top
    <3>. QED
      BY <3>1, SeekIs
  <2>3. x[1] \in Int /\ x[Len(x)] \in Int
    BY <1>3
  <2>4. StepIndex(x, c, t) \in 1..Len(x)
    BY <2>2, <2>3, <1>3 DEF StepIndex
  <2>5. LookupIndex(x, c, t) \in 1..Len(x)
    BY <2>2, <2>3, <1>3 DEF LookupIndex
  <2>. QED
    BY <2>1, <2>4, <2>5 DEF top
<1>. QED
  BY <1>2, <1>3
-----------------------------------------------------------------------------
(* The inductive invariant.                                                  *)

ModelOK == model \in Model /\ WellFormed(model)

\* The engine's series have the dates of the model's, and hold the model's values
\* unless they are a file's that is not of volumes.
TablesKept ==
    /\ DOMAIN tables = DOMAIN model.tables
    /\ \A t \in DOMAIN tables :
          /\ tables[t] \in Series
          /\ tables[t].x = model.tables[t].x
          /\ Len(tables[t].y) = Len(tables[t].x)
    /\ \A t \in 1..model.pool : tables[t].y = model.tables[t].y
    /\ \A g \in Gages :
          model.gages[g].source = "FILE" /\ model.gages[g].rain_type = "VOLUME"
          => tables[model.gages[g].table].y = model.tables[model.gages[g].table].y

\* Gages change only before the first runoff step.
NotBegun == state = "OPENED" => new_runoff_time = 0

RainInv == RainTypeOK /\ ModelOK /\ TablesKept /\ NotBegun /\ RainIsTheSeries

SeriesOf(g) == tables[model.gages[g].table]

\* A gage, its series, and its cursor.
LEMMA GageFacts ==
    ASSUME ModelOK, TablesKept, RainTypeOK, NEW g \in Gages
    PROVE  /\ model.gages[g] \in Gage
           /\ model.gages[g].table \in DOMAIN tables
           /\ model.gages[g].table \in Nat
           /\ SeriesOf(g).x \in Seq(Int) /\ SeriesOf(g).y \in Seq(Nat)
           /\ Len(SeriesOf(g).x) > 1 /\ Len(SeriesOf(g).y) = Len(SeriesOf(g).x)
           /\ \A i, j \in 1..Len(SeriesOf(g).x) :
                 i < j => SeriesOf(g).x[i] + model.gages[g].interval <= SeriesOf(g).x[j]
           /\ cursor[model.gages[g].table] \in 1..Len(SeriesOf(g).x)
           /\ model.gages[g].source = "TIMESERIES" => model.gages[g].table \in 1..model.pool
<1>1. model.gages[g] \in Gage
  BY DEF ModelOK, Model, Gages
<1>2. /\ model.gages[g].table \in DOMAIN model.tables
      /\ Fits(model.gages[g], model.tables[model.gages[g].table])
  BY DEF ModelOK, WellFormed, Gages
<1>3. model.gages[g].table \in DOMAIN tables
  BY <1>2 DEF TablesKept
<1>4. SeriesOf(g) \in Series /\ SeriesOf(g).x = model.tables[model.gages[g].table].x
      /\ Len(SeriesOf(g).y) = Len(SeriesOf(g).x)
  BY <1>3 DEF TablesKept, SeriesOf
<1>5. SeriesOf(g).x \in Seq(Int) /\ SeriesOf(g).y \in Seq(Nat)
  BY <1>4 DEF Series
<1>6. /\ Len(SeriesOf(g).x) > 1
      /\ \A i, j \in 1..Len(SeriesOf(g).x) :
            i < j => SeriesOf(g).x[i] + model.gages[g].interval <= SeriesOf(g).x[j]
  BY <1>2, <1>4 DEF Fits
<1>7. cursor[model.gages[g].table] \in 1..Len(SeriesOf(g).x)
  <2>1. cursor[model.gages[g].table] \in 1..Max({1, Len(SeriesOf(g).x)})
    BY <1>3 DEF RainTypeOK, SeriesOf
  <2>. DEFINE n == Len(SeriesOf(g).x)
  <2>2. n \in Int /\ n > 1 /\ 1 \in Int
    BY <1>5, <1>6
  <2>. HIDE DEF n
  <2>3. Max({1, n}) \in {1, n} /\ Max({1, n}) >= n
    BY <2>2, MinMaxOfTwo
  <2>4. Max({1, n}) = n
    BY <2>2, <2>3
  <2>. QED
    BY <2>1, <2>4 DEF n
<1>8. model.gages[g].table \in Nat
  BY <1>1 DEF Gage
<1>9. model.gages[g].source = "TIMESERIES" => model.gages[g].table \in 1..model.pool
  <2>1. model.pool \in Nat /\ model.gages[g].table \in Nat \ {0}
    BY <1>1 DEF ModelOK, Model, Gage, Gages
  <2>2. model.gages[g].source = "TIMESERIES" => model.gages[g].table <= model.pool
    BY DEF ModelOK, WellFormed, Gages
  <2>. QED
    BY <2>1, <2>2
<1>. QED
  BY <1>1, <1>3, <1>4, <1>5, <1>6, <1>7, <1>8, <1>9

-----------------------------------------------------------------------------
(* A runoff step.                                                            *)

\* The cursors of a runoff step are on the records of its first second.
LEMMA CursorsAre ==
    ASSUME ModelOK, TablesKept, RainTypeOK, NEW at \in Nat, NEW g \in Gages, ~Copies(g),
           NEW k, k = Cursors(at)[model.gages[g].table]
    PROVE  /\ k \in 1..Len(SeriesOf(g).x)
           /\ at + 1 < SeriesOf(g).x[1] => k = 1
           /\ at + 1 >= SeriesOf(g).x[1] =>
                 /\ SeriesOf(g).x[k] <= at + 1
                 /\ k < Len(SeriesOf(g).x) => at + 1 < SeriesOf(g).x[k + 1]
<1>. DEFINE tb == model.gages[g].table
            x == SeriesOf(g).x
<1>1. tb \in DOMAIN tables /\ tb \in TablesRead
  BY GageFacts DEF TablesRead
<1>2. k = StepIndex(x, cursor[tb], at + 1)
  BY <1>1 DEF Cursors, SeriesOf, OneSecond
<1>3. x \in Seq(Int) /\ Len(x) > 1 /\ cursor[tb] \in 1..Len(x) /\ at + 1 \in Int
  BY GageFacts
<1>4. x[1] <= x[Len(x)]
  <2>1. x[1] + model.gages[g].interval <= x[Len(x)]
    <3>1. 1 \in 1..Len(x) /\ Len(x) \in 1..Len(x) /\ 1 < Len(x)
      BY <1>3
    <3>. QED
      BY <3>1, GageFacts
  <2>2. model.gages[g].interval \in Nat /\ x[1] \in Int /\ x[Len(x)] \in Int
    BY <1>3, GageFacts DEF Gage
  <2>. QED
    BY <2>1, <2>2
<1>. HIDE DEF x, tb
<1>. DEFINE t == at + 1
<1>5. t \in Int /\ k = StepIndex(x, cursor[tb], t)
  BY <1>2, <1>3
<1>. HIDE DEF t
<1>6. /\ k \in 1..Len(x)
      /\ t < x[1] => k = 1
      /\ t >= x[1] => x[k] <= t /\ (k < Len(x) => t < x[k + 1])
  BY <1>3, <1>4, <1>5, StepIndexIs
<1>. QED
  BY <1>6 DEF x, tb, t

\* Values, rainfall and depths are natural numbers.
LEMMA PerHourNat ==
    ASSUME NEW depth \in Nat, NEW gage \in Gage
    PROVE  PerHour(depth, gage) \in Nat
<1>1. depth * Hour \in Nat
  BY TimesNat, GagesAssumption
<1>2. gage.interval \in Nat \ {0}
  BY DEF Gage
<1>. QED
  BY <1>1, <1>2, DivNat DEF PerHour

LEMMA NoDepth ==
    ASSUME NEW gage \in Gage
    PROVE  PerHour(0, gage) = 0
<1>1. 0 * Hour = 0
  BY GagesAssumption
<1>2. gage.interval \in Nat \ {0}
  BY DEF Gage
<1>3. \A n \in Nat \ {0} : 0 \div n = 0
  OBVIOUS
<1>. QED
  BY <1>1, <1>2, <1>3 DEF PerHour

LEMMA RawNat ==
    ASSUME ModelOK, TablesKept, RainTypeOK, NEW g \in Gages, NEW at \in Nat,
           NEW k \in 1..Len(SeriesOf(g).x)
    PROVE  RawValue(model.gages[g], k, at) \in Nat
<1>1. SeriesOf(g).y[k] \in Nat
  BY GageFacts
<1>. QED
  BY <1>1 DEF RawValue, SeriesOf

LEMMA OwnNat ==
    ASSUME ModelOK, TablesKept, RainTypeOK, NEW g \in Gages, NEW at \in Nat,
           NEW k \in 1..Len(SeriesOf(g).x)
    PROVE  OwnRainfall(g, k, at) \in Nat
<1>. DEFINE gage == model.gages[g]
            raw == RawValue(gage, k, at)
            before == cumul_rain_accum[g]
            delta == IF raw < before THEN raw ELSE raw - before
<1>1. gage \in Gage /\ gage.scale \in Nat
      /\ gage.rain_type \in {"INTENSITY", "VOLUME", "CUMULATIVE"}
  BY GageFacts DEF Gage
<1>2. raw \in Nat
  BY RawNat
<1>3. before \in Nat
  BY DEF RainTypeOK
<1>4. delta \in Nat
  BY <1>2, <1>3
<1>5. PerHour(raw, gage) \in Nat /\ PerHour(delta, gage) \in Nat
  BY <1>1, <1>2, <1>4, PerHourNat
<1>. DEFINE value == CASE gage.rain_type = "INTENSITY" -> raw
                       [] gage.rain_type = "VOLUME" -> PerHour(raw, gage)
                       [] gage.rain_type = "CUMULATIVE" -> PerHour(delta, gage)
<1>6. value \in Nat
  BY <1>1, <1>2, <1>5
<1>7. OwnRainfall(g, k, at) = gage.scale * value
  BY DEF OwnRainfall
<1>. HIDE DEF value, gage
<1>. QED
  BY <1>1, <1>6, <1>7, TimesNat

\* A copying gage's rain is its primary's, scaled.
LEMMA CopiedNat ==
    ASSUME NEW a \in Nat, NEW g \in Gages, NEW p \in Gages, ModelOK
    PROVE  (a * model.gages[g].scale) \div model.gages[p].scale \in Nat
<1>1. model.gages[g].scale \in Nat /\ model.gages[p].scale \in Nat \ {0}
  <2>1. model.gages[g] \in Gage /\ model.gages[p] \in Gage
    BY DEF ModelOK, Model, Gages
  <2>. QED
    BY <2>1 DEF Gage
<1>2. a * model.gages[g].scale \in Nat
  BY <1>1, TimesNat
<1>. QED
  BY <1>1, <1>2, DivNat

\* A gage that copies does so from a gage that does not.
LEMMA PrimaryIs ==
    ASSUME RainTypeOK, ModelOK, NEW g \in Gages
    PROVE  Primary(g) \in Gages /\ ~Copies(Primary(g))
<1>1. g \in Nat /\ co_gage_index[g] \in Nat /\ co_gage_index[g] < g
  <2>1. g \in Nat
    BY DEF ModelOK, Model, Gages
  <2>. QED
    BY <2>1 DEF RainTypeOK
<1>2. Copies(g) => co_gage_index[g] \in Gages
  BY <1>1 DEF Copies, ModelOK, Model, Gages
<1>3. Copies(g) => ~Copies(co_gage_index[g])
  BY DEF RainTypeOK
<1>. QED
  BY <1>2, <1>3 DEF Primary

LEMMA NewRainfallNat ==
    ASSUME ModelOK, TablesKept, RainTypeOK, NEW at \in Nat
    PROVE  NewRainfall(at) \in [Gages -> Nat]
<1>. DEFINE Own(g) == OwnRainfall(g, Cursors(at)[model.gages[g].table], at)
<1>1. ASSUME NEW g \in Gages, ~Copies(g)
      PROVE  Own(g) \in Nat
  BY <1>1, CursorsAre, OwnNat
<1>. HIDE DEF Own
<1>2. ASSUME NEW g \in Gages
      PROVE  (IF Copies(g)
              THEN (Own(co_gage_index[g]) * model.gages[g].scale)
                     \div model.gages[co_gage_index[g]].scale
              ELSE Own(g)) \in Nat
  <2>1. CASE Copies(g)
    <3>1. co_gage_index[g] \in Gages /\ Own(co_gage_index[g]) \in Nat
      BY <2>1, <1>1, PrimaryIs DEF Primary
    <3>. QED
      BY <2>1, <3>1, CopiedNat
  <2>2. CASE ~Copies(g)
    BY <2>2, <1>1
  <2>. QED
    BY <2>1, <2>2
<1>. QED
  BY <1>2 DEF NewRainfall, Own

\* The dates at which the rain of a gage may change.
LEMMA DatesAreInt ==
    ASSUME ModelOK, TablesKept, RainTypeOK, NEW at \in Nat, NEW g \in Gages,
           NEW k \in 1..Len(SeriesOf(g).x)
    PROVE  NextRainDate(model.gages[g], k, at) \subseteq Int
<1>. DEFINE x == SeriesOf(g).x
<1>1. x \in Seq(Int) /\ k \in 1..Len(x) /\ model.gages[g].interval \in Nat
  BY GageFacts DEF Gage
<1>2. x[k] \in Int /\ (k < Len(x) => x[k + 1] \in Int)
  BY <1>1
<1>3. NextRainDate(model.gages[g], k, at) \subseteq
        {x[k], x[k] + model.gages[g].interval} \cup (IF k < Len(x) THEN {x[k + 1]} ELSE {})
  <2>1. x[k] \in Int /\ at + OneSecond \in Int /\ x[k] + model.gages[g].interval \in Int
    BY <1>1, <1>2 DEF OneSecond
  <2>. QED
    BY <2>1 DEF NextRainDate, SeriesOf
<1>4. x[k] + model.gages[g].interval \in Int
  BY <1>1, <1>2
<1>. HIDE DEF x
<1>. QED
  BY <1>2, <1>3, <1>4

\* A runoff step takes time, and ends no later than the next change of the rain of
\* any gage.
LEMMA StepLength ==
    ASSUME ModelOK, TablesKept, RainTypeOK, NEW at \in Nat, NEW wet \in BOOLEAN,
           NEW c, \A g \in Gages : c[model.gages[g].table] \in 1..Len(SeriesOf(g).x)
    PROVE  /\ RunoffTimestep(wet, c, at) \in Nat \ {0}
           /\ \A g \in Gages : \A d \in NextRainDate(model.gages[g], c[model.gages[g].table], at) :
                 d > at => RunoffTimestep(wet, c, at) <= d - at
<1>. DEFINE ahead == {d - at : d \in {e \in NextRainDates(c, at) : e > at}}
            step == IF wet THEN model.wet_step ELSE model.dry_step
            S == {step, model.dry_step} \cup ahead
<1>1. step \in Nat \ {0} /\ model.dry_step \in Nat \ {0}
  BY DEF ModelOK, Model
<1>2. \A g \in Gages : NextRainDate(model.gages[g], c[model.gages[g].table], at) \subseteq Int
  BY DatesAreInt
<1>3. ASSUME NEW d \in NextRainDates(c, at)
      PROVE  d \in Int
  BY <1>2 DEF NextRainDates
<1>4. \A d \in ahead : d \in Int /\ d >= 1
  BY <1>3
<1>5. S \in SUBSET Int /\ S # {} /\ 1 \in Int /\ \A d \in S : 1 <= d
  <2>. HIDE DEF ahead, step
  <2>. QED
    BY <1>1, <1>4
<1>6. \A g \in Gages : \A d \in NextRainDate(model.gages[g], c[model.gages[g].table], at) :
        d > at => d - at \in S
  BY DEF NextRainDates
<1>7. RunoffTimestep(wet, c, at) = Min(S)
  BY DEF RunoffTimestep
<1>. HIDE DEF S
<1>8. Min(S) \in S /\ \A d \in S : Min(S) <= d
  BY <1>5, MinOf
<1>9. Min(S) \in Nat \ {0}
  <2>1. Min(S) \in Int /\ 1 <= Min(S)
    BY <1>5, <1>8
  <2>. QED
    BY <2>1
<1>. QED
  BY <1>6, <1>7, <1>8, <1>9

\* The record whose interval a time is in, for the times from the one at which the
\* series was looked up until its next change.
LEMMA RecordAt ==
    ASSUME NEW x \in Seq(Int), Len(x) > 1, NEW n \in Nat \ {0},
           \A i, j \in 1..Len(x) : i < j => x[i] + n <= x[j],
           NEW k \in 1..Len(x), NEW t \in Int, NEW s \in Int, t <= s,
           t < x[1] => k = 1,
           t >= x[1] => x[k] <= t /\ (k < Len(x) => t < x[k + 1]),
           t < x[k] => s < x[k],
           x[k] <= t /\ t < x[k] + n => s < x[k] + n,
           t >= x[k] + n /\ k < Len(x) => s < x[k + 1]
    PROVE  {i \in 1..Len(x) : x[i] <= s /\ s < x[i] + n}
             = IF t >= x[1] /\ t < x[k] + n THEN {k} ELSE {}
<1>. DEFINE now == {i \in 1..Len(x) : x[i] <= s /\ s < x[i] + n}
<1>1. \A i \in 1..Len(x) : x[i] \in Int
  OBVIOUS
<1>2. CASE t < x[1]
  <2>1. ASSUME NEW i \in 1..Len(x)
        PROVE  x[1] <= x[i]
    <3>1. 1 \in 1..Len(x) /\ (i = 1 \/ 1 < i)
      OBVIOUS
    <3>2. i = 1 \/ x[1] + n <= x[i]
      BY <3>1
    <3>. QED
      BY <3>1, <3>2, <1>1
  <2>2. s < x[1]
    BY <1>2
  <2>3. now = {}
    BY <2>1, <2>2, <1>1
  <2>. QED
    BY <2>3, <1>1, <1>2
<1>3. CASE t >= x[1] /\ t < x[k] + n
  <2>1. x[k] <= s /\ s < x[k] + n
    BY <1>1, <1>3
  <2>2. ASSUME NEW i \in 1..Len(x), i # k
        PROVE  i \notin now
    <3>1. CASE i < k
      <4>1. x[i] + n <= x[k]
        BY <3>1
      <4>. QED
        BY <4>1, <2>1, <1>1
    <3>2. CASE k < i
      <4>1. x[k] + n <= x[i]
        BY <3>2
      <4>. QED
        BY <4>1, <2>1, <1>1
    <3>. QED
      BY <3>1, <3>2, <2>2
  <2>3. now = {k}
    BY <2>1, <2>2
  <2>. QED
    BY <2>3, <1>3
<1>4. CASE t >= x[1] /\ t >= x[k] + n
  <2>1. ASSUME NEW i \in 1..Len(x)
        PROVE  i \notin now
    <3>1. CASE i <= k
      <4>1. x[i] + n <= x[k] + n
        <5>1. i = k \/ x[i] + n <= x[k]
          BY <3>1
        <5>. QED
          BY <5>1, <1>1
      <4>. QED
        BY <4>1, <1>1, <1>4
    <3>2. CASE k < i
      <4>1. k + 1 \in 1..Len(x) /\ k < Len(x)
        BY <3>2
      <4>2. x[k + 1] <= x[i]
        <5>1. i = k + 1 \/ x[k + 1] + n <= x[i]
          BY <3>2, <4>1
        <5>. QED
          BY <5>1, <4>1, <1>1
      <4>3. s < x[k + 1]
        BY <4>1, <1>4
      <4>. QED
        BY <4>1, <4>2, <4>3, <1>1
    <3>. QED
      BY <3>1, <3>2
  <2>2. now = {}
    BY <2>1
  <2>. QED
    BY <2>2, <1>1, <1>4
<1>. QED
  BY <1>1, <1>2, <1>3, <1>4

\* A recorded value as an intensity, of a gage of intensities or volumes.
Amount(g, v) ==
    IF model.gages[g].rain_type = "INTENSITY" THEN v ELSE PerHour(v, model.gages[g])

\* The values of a faithful gage are the model's, and its rain at a time is that of
\* the record whose interval the time is in.
LEMMA FaithfulValues ==
    ASSUME ModelOK, TablesKept, RainTypeOK, NEW g \in Gages, Faithful(g)
    PROVE  /\ SeriesOf(g).y = model.tables[model.gages[g].table].y
           /\ SeriesOf(g).x = model.tables[model.gages[g].table].x
           /\ model.gages[g].rain_type \in {"INTENSITY", "VOLUME"}
<1>. DEFINE gage == model.gages[g]
            x == SeriesOf(g).x
            y == SeriesOf(g).y
<1>1. gage \in Gage
  BY GageFacts
<1>2. /\ y = model.tables[gage.table].y /\ x = model.tables[gage.table].x
  <2>1. x = model.tables[gage.table].x
    BY GageFacts DEF TablesKept, SeriesOf
  <2>2. CASE gage.source = "TIMESERIES"
    BY <2>2, GageFacts DEF TablesKept, SeriesOf
  <2>3. CASE gage.source # "TIMESERIES"
    <3>1. gage.source = "FILE" /\ gage.rain_type = "VOLUME"
      <4>1. gage.source \in {"TIMESERIES", "FILE"}
        BY <1>1 DEF Gage
      <4>. QED
        BY <4>1, <2>3 DEF Faithful
    <3>2. \A h \in Gages :
             model.gages[h].source = "FILE" /\ model.gages[h].rain_type = "VOLUME"
             => tables[model.gages[h].table].y = model.tables[model.gages[h].table].y
      BY DEF TablesKept
    <3>. QED
      BY <2>1, <3>1, <3>2 DEF SeriesOf
  <2>. QED
    BY <2>1, <2>2, <2>3
<1>3. gage.rain_type \in {"INTENSITY", "VOLUME"}
  BY DEF Faithful
<1>. QED
  BY <1>2, <1>3

LEMMA RainAtIs ==
    ASSUME ModelOK, TablesKept, RainTypeOK, NEW g \in Gages, Faithful(g), NEW s \in Int,
           NEW now, now = {i \in 1..Len(SeriesOf(g).x) :
                             /\ SeriesOf(g).x[i] <= s
                             /\ s < SeriesOf(g).x[i] + model.gages[g].interval}
    PROVE  RainAt(g, s) =
             model.gages[g].scale * (IF now = {} THEN 0 ELSE Amount(g, SeriesOf(g).y[Max(now)]))
<1>. DEFINE x == SeriesOf(g).x
<1>1. SeriesOf(g).y = model.tables[model.gages[g].table].y
      /\ x = model.tables[model.gages[g].table].x
      /\ model.gages[g].rain_type \in {"INTENSITY", "VOLUME"}
  BY FaithfulValues
<1>2. DOMAIN x = 1..Len(x)
  <2>1. x \in Seq(Int)
    BY GageFacts
  <2>. HIDE DEF x
  <2>. QED
    BY <2>1
<1>3. \A i : Intensity(g, i) = Amount(g, SeriesOf(g).y[i])
  BY <1>1 DEF Intensity, Amount
<1>. QED
  BY <1>1, <1>2, <1>3 DEF RainAt

\* The rain a runoff step gives a gage is its series' rain at every second until
\* the next change of the gage's rain.
LEMMA RainOfStep ==
    ASSUME ModelOK, TablesKept, RainTypeOK, NEW at \in Nat, NEW g \in Gages, Faithful(g),
           NEW s \in Int, at + 1 <= s,
           \A d \in NextRainDate(model.gages[g], Cursors(at)[model.gages[g].table], at) :
             d > at => s = at + 1 \/ s < d
    PROVE  NewRainfall(at)[g] = RainAt(g, s)
<1>. DEFINE gage == model.gages[g]
            p == Primary(g)
            from == model.gages[p]
            x == SeriesOf(g).x
            y == SeriesOf(g).y
            k == Cursors(at)[gage.table]
            t == at + 1
            raw == RawValue(gage, k, at)
            amount == Amount(g, raw)
            now == {i \in 1..Len(x) : x[i] <= s /\ s < x[i] + gage.interval}
<1>1. p \in Gages /\ ~Copies(p)
  BY PrimaryIs
<1>2. gage \in Gage /\ from \in Gage
  BY <1>1, GageFacts
<1>3. /\ from.table = gage.table /\ from.interval = gage.interval
      /\ from.rain_type = gage.rain_type /\ from.source = gage.source
      /\ gage.rain_type \in {"INTENSITY", "VOLUME"}
  BY <1>2 DEF Faithful, Gage
<1>4. /\ x \in Seq(Int) /\ y \in Seq(Nat) /\ Len(x) > 1 /\ Len(y) = Len(x)
      /\ \A i, j \in 1..Len(x) : i < j => x[i] + gage.interval <= x[j]
      /\ gage.interval \in Nat \ {0} /\ gage.scale \in Nat \ {0} /\ from.scale \in Nat \ {0}
  BY <1>2, GageFacts DEF Gage
<1>5. /\ k \in 1..Len(x)
      /\ t < x[1] => k = 1
      /\ t >= x[1] => x[k] <= t /\ (k < Len(x) => t < x[k + 1])
  BY <1>1, <1>3, CursorsAre DEF SeriesOf
<1>6. /\ y = model.tables[gage.table].y /\ x = model.tables[gage.table].x
  BY FaithfulValues
<1>7. amount \in Nat
  BY <1>2, <1>5, RawNat, PerHourNat DEF Amount
<1>8. OwnRainfall(p, k, at) = from.scale * amount
  <2>1. RawValue(from, k, at) = raw
    BY <1>3 DEF RawValue
  <2>2. PerHour(raw, from) = PerHour(raw, gage)
    BY <1>3 DEF PerHour
  <2>. HIDE DEF raw, gage, from, k, p
  <2>3. CASE gage.rain_type = "INTENSITY"
    BY <2>1, <2>3, <1>3 DEF OwnRainfall, Amount, from, gage
  <2>4. CASE gage.rain_type = "VOLUME"
    BY <2>1, <2>2, <2>4, <1>3 DEF OwnRainfall, Amount, from, gage
  <2>. QED
    BY <2>3, <2>4, <1>3
<1>9. NewRainfall(at)[g] = gage.scale * amount
  <2>. HIDE DEF amount
  <2>1. CASE Copies(g)
    <3>1. p = co_gage_index[g]
      BY <2>1 DEF Primary
    <3>2. NewRainfall(at)[g] = (OwnRainfall(p, k, at) * gage.scale) \div from.scale
      BY <2>1, <3>1, <1>3 DEF NewRainfall
    <3>3. NewRainfall(at)[g] = ((from.scale * amount) * gage.scale) \div from.scale
      BY <3>2, <1>8
    <3>. HIDE DEF gage, from
    <3>. QED
      BY <3>3, <1>4, <1>7, Rescaled
  <2>2. CASE ~Copies(g)
    <3>1. p = g
      BY <2>2 DEF Primary
    <3>2. NewRainfall(at)[g] = OwnRainfall(g, k, at)
      BY <2>2 DEF NewRainfall
    <3>. QED
      BY <3>1, <3>2, <1>8
  <2>. QED
    BY <2>1, <2>2
<1>10. raw = IF t >= x[k] + gage.interval \/ (t < x[1] /\ Len(x) > 1) THEN 0 ELSE y[k]
  BY DEF RawValue, SeriesOf, OneSecond
<1>11. NextRainDate(gage, k, at)
         = CASE t < x[k] -> {x[k]}
             [] t >= x[k] /\ t < x[k] + gage.interval -> {x[k] + gage.interval}
             [] OTHER -> IF k < Len(x) THEN {x[k + 1]} ELSE {}
  BY DEF NextRainDate, SeriesOf, OneSecond
<1>12. \A d \in NextRainDate(gage, k, at) : d > at => s = t \/ s < d
  OBVIOUS
<1>13. t \in Int /\ t <= s /\ t = at + 1
  OBVIOUS
<1>14. RainAt(g, s) = gage.scale * (IF now = {} THEN 0 ELSE Amount(g, y[Max(now)]))
  BY RainAtIs
<1>. HIDE DEF x, y, k, t, gage
<1>16. /\ x[k] \in Int /\ x[1] \in Int /\ x[k] + gage.interval \in Int
       /\ k < Len(x) => x[k + 1] \in Int
       /\ k \in DOMAIN y
  BY <1>4, <1>5
<1>17. now = IF t >= x[1] /\ t < x[k] + gage.interval THEN {k} ELSE {}
  <2>1. t < x[k] => s < x[k]
    <3>1. t < x[k] => NextRainDate(gage, k, at) = {x[k]}
      BY <1>11, <1>13, <1>16
    <3>. QED
      BY <3>1, <1>12, <1>13, <1>16
  <2>2. x[k] <= t /\ t < x[k] + gage.interval => s < x[k] + gage.interval
    <3>1. x[k] <= t /\ t < x[k] + gage.interval
          => NextRainDate(gage, k, at) = {x[k] + gage.interval}
      BY <1>11, <1>13, <1>16, <1>4
    <3>2. t < x[k] + gage.interval => x[k] + gage.interval > at
      BY <1>13, <1>16
    <3>. QED
      BY <3>1, <3>2, <1>12, <1>13, <1>16
  <2>3. t >= x[k] + gage.interval /\ k < Len(x) => s < x[k + 1]
    <3>1. t >= x[k] + gage.interval /\ k < Len(x) => NextRainDate(gage, k, at) = {x[k + 1]}
      <4>1. t >= x[k] + gage.interval
            => ~ (t < x[k]) /\ ~ (t >= x[k] /\ t < x[k] + gage.interval)
        BY <1>13, <1>16, <1>4
      <4>. QED
        BY <4>1, <1>11
    <3>2. t >= x[k] + gage.interval => t >= x[1]
      BY <1>13, <1>16, <1>4, <1>5
    <3>3. t >= x[k] + gage.interval /\ k < Len(x) => t < x[k + 1]
      BY <3>2, <1>5, <1>13, <1>16
    <3>4. k < Len(x) /\ t < x[k + 1] => x[k + 1] > at
      BY <1>13, <1>16
    <3>. QED
      BY <3>1, <3>3, <3>4, <1>12, <1>13, <1>16
  <2>. QED
    BY <2>1, <2>2, <2>3, <1>4, <1>5, <1>13, RecordAt
<1>18. amount = IF now = {} THEN 0 ELSE Amount(g, y[Max(now)])
  <2>1. CASE t >= x[1] /\ t < x[k] + gage.interval
    <3>1. raw = y[k]
      BY <2>1, <1>10, <1>13, <1>16, <1>4
    <3>2. now = {k}
      BY <2>1, <1>17
    <3>3. k \in Int
      BY <1>5
    <3>4. Max(now) = k
      BY <3>2, <3>3 DEF Max
    <3>. QED
      BY <3>1, <3>2, <3>4
  <2>2. CASE ~ (t >= x[1] /\ t < x[k] + gage.interval)
    <3>1. raw = 0
      BY <2>2, <1>10, <1>13, <1>16, <1>4
    <3>2. now = {}
      BY <2>2, <1>17
    <3>3. PerHour(0, gage) = 0
      BY <1>2, NoDepth DEF gage
    <3>. QED
      BY <3>1, <3>2, <3>3 DEF Amount, gage
  <2>. QED
    BY <2>1, <2>2
<1>. QED
  BY <1>9, <1>14, <1>18
-----------------------------------------------------------------------------
(* The invariant holds.                                                      *)

LEMMA LoadedIs ==
    ASSUME model \in Model, WellFormed(model), tables = Loaded(model)
    PROVE  TablesKept
<1>. DEFINE FileOf(t) == {g \in GagesOf(model) : /\ model.gages[g].source = "FILE"
                                                 /\ model.gages[g].table = t}
            Gauge(t) == model.gages[CHOOSE g \in FileOf(t) : TRUE]
            Depths(t) == [i \in DOMAIN model.tables[t].y |->
                            FileDepth(Gauge(t), model.tables[t].y, i)]
<1>1. tables = [t \in DOMAIN model.tables |->
                  IF FileOf(t) = {} THEN model.tables[t]
                  ELSE [model.tables[t] EXCEPT !.y = Depths(t)]]
  BY DEF Loaded
<1>2. ASSUME NEW t \in DOMAIN model.tables
      PROVE  /\ model.tables[t] \in Series
             /\ model.tables[t].y \in Seq(Nat)
             /\ Len(model.tables[t].y) = Len(model.tables[t].x)
  <2>1. model.tables[t] \in Series
    BY DEF Model
  <2>2. Len(model.tables[t].x) = Len(model.tables[t].y)
    BY DEF WellFormed
  <2>. QED
    BY <2>1, <2>2 DEF Series
<1>3. ASSUME NEW t \in DOMAIN model.tables, FileOf(t) # {}
      PROVE  Depths(t) \in Seq(Nat) /\ Len(Depths(t)) = Len(model.tables[t].y)
  <2>. DEFINE y == model.tables[t].y
  <2>1. PICK g \in FileOf(t) : Gauge(t) = model.gages[g]
    BY <1>3
  <2>2. Gauge(t) \in Gage
    BY <2>1 DEF Model, GagesOf
  <2>3. y \in Seq(Nat)
    BY <1>2
  <2>4. ASSUME NEW i \in DOMAIN y
        PROVE  FileDepth(Gauge(t), y, i) \in Nat
    <3>. DEFINE gage == Gauge(t)
    <3>1. gage.interval \in Nat /\ gage.rain_type \in {"INTENSITY", "VOLUME", "CUMULATIVE"}
      BY <2>2 DEF Gage
    <3>. HIDE DEF gage
    <3>2. y[i] \in Nat /\ (i # 1 => y[i - 1] \in Nat)
      BY <2>3
    <3>. HIDE DEF y
    <3>3. y[i] * gage.interval \in Nat
      BY <3>1, <3>2, TimesNat
    <3>4. (y[i] * gage.interval) \div Hour \in Nat
      BY <3>3, DivNat, GagesAssumption
    <3>5. FileDepth(gage, y, i) \in Nat
      BY <3>1, <3>2, <3>4 DEF FileDepth
    <3>. QED
      BY <3>5 DEF gage
  <2>5. DOMAIN y = 1..Len(y) /\ Len(y) \in Nat
    BY <2>3
  <2>. HIDE DEF Gauge, FileOf
  <2>. QED
    BY <2>4, <2>5
<1>4. ASSUME NEW t \in DOMAIN model.tables
      PROVE  /\ tables[t] \in Series
             /\ tables[t].x = model.tables[t].x
             /\ Len(tables[t].y) = Len(tables[t].x)
  <2>1. CASE FileOf(t) = {}
    BY <1>1, <1>2, <2>1
  <2>2. CASE FileOf(t) # {}
    <3>1. tables[t] = [model.tables[t] EXCEPT !.y = Depths(t)]
      BY <1>1, <2>2
    <3>2. model.tables[t].x \in Seq(Int) /\ Depths(t) \in Seq(Nat)
          /\ Len(Depths(t)) = Len(model.tables[t].x)
      BY <1>2, <1>3, <2>2 DEF Series
    <3>3. model.tables[t] \in [x : Seq(Int), y : Seq(Nat)]
      BY <1>2 DEF Series
    <3>. HIDE DEF Depths
    <3>. QED
      BY <3>1, <3>2, <3>3 DEF Series
  <2>. QED
    BY <2>1, <2>2
<1>5. ASSUME NEW t \in 1..model.pool
      PROVE  tables[t].y = model.tables[t].y
  <2>1. t \in DOMAIN model.tables
    BY DEF Model, WellFormed
  <2>2. FileOf(t) = {}
    <3>1. ASSUME NEW g \in GagesOf(model), model.gages[g].source = "FILE"
          PROVE  model.gages[g].table # t
      <4>1. ~ (model.gages[g].table <= model.pool)
        BY <3>1 DEF WellFormed, GagesOf
      <4>. QED
        BY <4>1
    <3>. QED
      BY <3>1
  <2>. QED
    BY <2>1, <2>2, <1>1
<1>6. ASSUME NEW g \in Gages, model.gages[g].source = "FILE",
             model.gages[g].rain_type = "VOLUME"
      PROVE  tables[model.gages[g].table].y = model.tables[model.gages[g].table].y
  <2>. DEFINE t == model.gages[g].table
  <2>1. t \in DOMAIN model.tables
    BY DEF WellFormed, Gages
  <2>2. FileOf(t) = {g}
    BY <1>6 DEF WellFormed, Gages, GagesOf
  <2>3. Gauge(t) = model.gages[g]
    BY <2>2
  <2>4. Depths(t) = model.tables[t].y
    <3>1. \A i \in DOMAIN model.tables[t].y :
             FileDepth(Gauge(t), model.tables[t].y, i) = model.tables[t].y[i]
      BY <2>3, <1>6 DEF FileDepth
    <3>2. model.tables[t].y = [i \in DOMAIN model.tables[t].y |-> model.tables[t].y[i]]
      BY <2>1, <1>2
    <3>. QED
      BY <3>1, <3>2
  <2>5. tables[t] = [model.tables[t] EXCEPT !.y = Depths(t)]
    BY <2>1, <2>2, <1>1
  <2>6. model.tables[t] \in [x : Seq(Int), y : Seq(Nat)]
    BY <2>1, <1>2 DEF Series
  <2>. HIDE DEF Depths, t
  <2>7. tables[t].y = Depths(t)
    BY <2>5, <2>6
  <2>. QED
    BY <2>4, <2>7 DEF t
<1>7. DOMAIN tables = DOMAIN model.tables
  BY <1>1
<1>. QED
  BY <1>4, <1>5, <1>6, <1>7 DEF TablesKept

\* A gage copies from an earlier gage, which does not copy.
LEMMA CoGageIs ==
    ASSUME NEW gages \in Seq(Gage), NEW g \in DOMAIN gages
    PROVE  /\ CoGage(gages, g) \in Nat /\ CoGage(gages, g) < g
           /\ CoGage(gages, g) # 0 =>
                 CoGage(gages, g) \in DOMAIN gages /\ CoGage(gages, CoGage(gages, g)) = 0
<1>. DEFINE primaries(h) == {i \in 1..(h - 1) : /\ gages[i].source = "TIMESERIES"
                                               /\ gages[i].table = gages[h].table}
<1>1. CASE ~ (gages[g].source = "TIMESERIES" /\ primaries(g) # {})
  <2>1. CoGage(gages, g) = 0
    BY <1>1 DEF CoGage
  <2>. QED
    BY <2>1
<1>2. CASE gages[g].source = "TIMESERIES" /\ primaries(g) # {}
  <2>. DEFINE p == Min(primaries(g))
  <2>1. CoGage(gages, g) = p
    BY <1>2 DEF CoGage
  <2>2. p \in primaries(g) /\ \A i \in primaries(g) : p <= i
    <3>1. primaries(g) \in SUBSET Int /\ 1 \in Int /\ \A i \in primaries(g) : 1 <= i
      OBVIOUS
    <3>. HIDE DEF primaries
    <3>. QED
      BY <1>2, <3>1, MinOf
  <2>. HIDE DEF p
  <2>3. p \in 1..(g - 1) /\ gages[p].table = gages[g].table
    BY <2>2
  <2>4. primaries(p) = {}
    <3>1. ASSUME NEW i \in primaries(p)
          PROVE  FALSE
      <4>1. i \in primaries(g) /\ i < p
        BY <2>3
      <4>. QED
        BY <4>1, <2>2, <2>3
    <3>. QED
      BY <3>1
  <2>5. CoGage(gages, p) = 0
    BY <2>4 DEF CoGage
  <2>. QED
    BY <2>1, <2>3, <2>5
<1>. QED
  BY <1>1, <1>2

THEOREM InitRain == Init => RainInv
<1>. SUFFICES ASSUME Init
              PROVE  RainInv
  OBVIOUS
<1>. USE DEF Init
<1>1. ModelOK
  BY GagesAssumption DEF ModelOK
<1>2. TablesKept
  BY <1>1, LoadedIs DEF ModelOK
<1>3. RainTypeOK
  <2>1. \A t \in DOMAIN tables : cursor[t] \in 1..Max({1, Len(tables[t].x)})
    <3>. TAKE t \in DOMAIN tables
    <3>1. Len(tables[t].x) \in Int /\ 1 \in Int
      BY <1>2 DEF TablesKept, Series
    <3>2. Max({1, Len(tables[t].x)}) >= 1 /\ Max({1, Len(tables[t].x)}) \in {1, Len(tables[t].x)}
      BY <3>1, MinMaxOfTwo
    <3>. QED
      BY <3>1, <3>2
  <2>2. forcing \in [Gages -> Forcing]
    BY DEF NoForcing, Forcing
  <2>3. ASSUME NEW g \in Gages
        PROVE  /\ co_gage_index[g] \in Nat /\ co_gage_index[g] < g
               /\ Copies(g) => ~Copies(co_gage_index[g])
    <3>1. model.gages \in Seq(Gage) /\ g \in DOMAIN model.gages
      BY <1>1 DEF ModelOK, Model, Gages
    <3>. QED
      BY <3>1, CoGageIs DEF Copies, Gages
  <2>4. co_gage_index \in [Gages -> Nat]
    BY <2>3
  <2>5. /\ cumul_rain_accum \in [Gages -> Nat] /\ rainfall \in [Gages -> Nat]
        /\ subcatch_rain \in [Gages -> Nat] /\ reported \in [Gages -> Nat]
    OBVIOUS
  <2>6. next_report \in Nat /\ model.duration \in Nat
    BY <1>1 DEF ModelOK, Model
  <2>. QED
    BY <2>1, <2>2, <2>3, <2>4, <2>5, <2>6 DEF RainTypeOK
<1>4. NotBegun /\ RainIsTheSeries
  BY DEF NotBegun, RainIsTheSeries
<1>. QED
  BY <1>1, <1>2, <1>3, <1>4 DEF RainInv

\* What follows for the model, its series, and the rain of the last runoff step
\* from what a step leaves alone.
LEMMA Kept ==
    ASSUME RainInv, model' = model, tables' = tables
    PROVE  ModelOK' /\ TablesKept'
  BY DEF RainInv, ModelOK, TablesKept, Gages

LEMMA RainKept ==
    ASSUME RainInv, model' = model, co_gage_index' = co_gage_index,
           subcatch_rain' = subcatch_rain, old_runoff_time' = old_runoff_time,
           new_runoff_time' = new_runoff_time
    PROVE  RainIsTheSeries'
<1>1. Gages' = Gages
  BY DEF Gages
<1>2. \A g : Faithful(g)' = Faithful(g)
  BY DEF Faithful, Primary, Copies
<1>3. \A g, s : RainAt(g, s)' = RainAt(g, s)
  BY DEF RainAt, Intensity, PerHour
<1>. QED
  BY <1>1, <1>2, <1>3 DEF RainInv, RainIsTheSeries

\* The report of a gage is a natural number.
LEMMA ReportNat ==
    ASSUME RainInv, NEW date \in Nat, NEW g \in Gages
    PROVE  ReportRainfall(g, date) \in Nat
<1>. USE DEF RainInv
<1>1. ASSUME NEW h \in Gages
      PROVE  OwnReport(h, date) \in Nat
  <2>. DEFINE gage == model.gages[h]
              x == SeriesOf(h).x
              y == SeriesOf(h).y
              c == cursor[gage.table]
              raw == CASE date + OneSecond < x[c] + gage.interval -> y[c]
                       [] OTHER -> IF c < Len(x) /\ date + OneSecond >= x[c + 1]
                                   THEN y[c + 1] ELSE 0
              value == IF gage.rain_type = "VOLUME" THEN PerHour(raw, gage) ELSE raw
  <2>1. y \in Seq(Nat) /\ Len(y) = Len(x) /\ c \in 1..Len(x) /\ gage \in Gage
    BY GageFacts
  <2>2. y[c] \in Nat /\ (c < Len(x) => y[c + 1] \in Nat)
    <3>. HIDE DEF x, y, c, gage
    <3>1. c \in 1..Len(y) /\ (c < Len(x) => c + 1 \in 1..Len(y))
      BY <2>1
    <3>. QED
      BY <2>1, <3>1
  <2>3. raw \in Nat
    <3>. HIDE DEF x, y, c
    <3>. QED
      BY <2>2
  <2>4. PerHour(raw, gage) \in Nat
    BY <2>1, <2>3, PerHourNat
  <2>5. value \in Nat /\ gage.scale \in Nat
    BY <2>1, <2>3, <2>4 DEF Gage
  <2>6. OwnReport(h, date) = gage.scale * value
    BY DEF OwnReport, SeriesOf
  <2>. HIDE DEF value, gage
  <2>. QED
    BY <2>5, <2>6, TimesNat
<1>2. CASE Copies(g)
  <2>1. co_gage_index[g] \in Gages
    BY <1>2, PrimaryIs DEF Primary
  <2>. QED
    BY <1>1, <1>2, <2>1, CopiedNat DEF ReportRainfall
<1>3. CASE ~Copies(g)
  BY <1>1, <1>3 DEF ReportRainfall
<1>. QED
  BY <1>2, <1>3

\* A lookup leaves every cursor inside its series.
LEMMA CursorsStay ==
    ASSUME RainInv, NEW at \in Nat, NEW t \in DOMAIN tables
    PROVE  Cursors(at)[t] \in 1..Max({1, Len(tables[t].x)})
<1>1. tables[t].x \in Seq(Int) /\ cursor[t] \in 1..Max({1, Len(tables[t].x)})
  BY DEF RainInv, TablesKept, Series, RainTypeOK
<1>2. at + OneSecond \in Int
  BY DEF OneSecond
<1>3. StepIndex(tables[t].x, cursor[t], at + OneSecond) \in 1..Max({1, Len(tables[t].x)})
  BY <1>1, <1>2, CursorType
<1>. QED
  BY <1>1, <1>3 DEF Cursors

\* A turn of the runoff loop takes time, and ends no later than the next change of
\* the rain of any gage.
LEMMA RunoffStepEnds ==
    ASSUME RainInv, RunoffStep
    PROVE  /\ new_runoff_time' \in Nat /\ new_runoff_time < new_runoff_time'
           /\ new_runoff_time' <= model.duration
           /\ \A g \in Gages :
                 /\ cursor'[model.gages[g].table] \in 1..Len(SeriesOf(g).x)
                 /\ \A d \in NextRainDate(model.gages[g], cursor'[model.gages[g].table],
                                         new_runoff_time) :
                       d > new_runoff_time => new_runoff_time' <= d
<1>. DEFINE at == new_runoff_time
            k(g) == Cursors(at)[model.gages[g].table]
<1>1. ModelOK /\ TablesKept /\ RainTypeOK
  BY DEF RainInv
<1>2. at \in Nat /\ next_time \in Nat /\ model.duration \in Nat /\ next_time <= model.duration
      /\ at < next_time
  BY <1>1 DEF RainTypeOK, RunoffStep, ModelOK, Model
<1>3. cursor' = Cursors(at)
  BY DEF RunoffStep
<1>4. ASSUME NEW g \in Gages
      PROVE  cursor'[model.gages[g].table] \in 1..Len(SeriesOf(g).x)
  <2>1. model.gages[g].table \in DOMAIN tables /\ Len(SeriesOf(g).x) > 1
        /\ Len(SeriesOf(g).x) \in Nat
    BY <1>1, GageFacts
  <2>2. k(g) \in 1..Max({1, Len(SeriesOf(g).x)})
    BY <2>1, <1>2, CursorsStay DEF SeriesOf
  <2>. DEFINE n == Len(SeriesOf(g).x)
  <2>. HIDE DEF n
  <2>3. n \in Int /\ 1 \in Int /\ n > 1
    BY <2>1 DEF n
  <2>4. Max({1, n}) = n
    BY <2>3, MinMaxOfTwo
  <2>. QED
    BY <2>2, <2>4, <1>3 DEF n
<1>5. PICK wet \in BOOLEAN :
        new_runoff_time' = Min({at + RunoffTimestep(wet, cursor', at), model.duration})
  BY DEF RunoffStep
<1>. DEFINE dt == RunoffTimestep(wet, cursor', at)
<1>6. /\ dt \in Nat \ {0}
      /\ \A g \in Gages :
            \A d \in NextRainDate(model.gages[g], cursor'[model.gages[g].table], at) :
              d > at => dt <= d - at
  BY <1>1, <1>2, <1>4, StepLength
<1>. HIDE DEF dt
<1>7. new_runoff_time' \in Nat /\ at < new_runoff_time' /\ new_runoff_time' <= model.duration
      /\ new_runoff_time' <= at + dt
  <2>. DEFINE end == at + dt
  <2>1. end \in Int /\ model.duration \in Int /\ at < end /\ at < model.duration
    BY <1>2, <1>6
  <2>. HIDE DEF end
  <2>2. new_runoff_time' = Min({end, model.duration})
    BY <1>5 DEF dt, end
  <2>3. new_runoff_time' \in {end, model.duration} /\ new_runoff_time' <= end
        /\ new_runoff_time' <= model.duration
    BY <2>1, <2>2, MinMaxOfTwo
  <2>. QED
    BY <2>1, <2>3, <1>2 DEF end
<1>8. ASSUME NEW g \in Gages,
             NEW d \in NextRainDate(model.gages[g], cursor'[model.gages[g].table], at), d > at
      PROVE  new_runoff_time' <= d
  <2>1. d \in Int
    BY <1>1, <1>2, <1>4, <1>8, DatesAreInt
  <2>2. dt <= d - at
    BY <1>6, <1>8
  <2>. QED
    BY <2>1, <2>2, <1>2, <1>6, <1>7
<1>. QED
  BY <1>2, <1>4, <1>7, <1>8

\* A turn of the runoff loop: its rain is the series' from its first second on.
LEMMA RunoffStepKeeps ==
    ASSUME RainInv, RunoffStep
    PROVE  RainInv'
<1>. DEFINE at == new_runoff_time
<1>1. ModelOK /\ TablesKept /\ RainTypeOK
  BY DEF RainInv
<1>2. at \in Nat /\ next_time \in Nat /\ model.duration \in Nat /\ next_time <= model.duration
      /\ at < next_time
  BY <1>1 DEF RainTypeOK, RunoffStep, ModelOK, Model
<1>3. /\ cursor' = Cursors(at) /\ rainfall' = NewRainfall(at) /\ subcatch_rain' = NewRainfall(at)
      /\ old_runoff_time' = at /\ moved' = {}
      /\ UNCHANGED <<state, model, co_gage_index, tables, forcing, current_time,
                     next_time, next_report, reported>>
  BY DEF RunoffStep
<1>4. ASSUME NEW g \in Gages
      PROVE  cursor'[model.gages[g].table] \in 1..Len(SeriesOf(g).x)
  BY <1>4, RunoffStepEnds
<1>7. /\ new_runoff_time' \in Nat /\ at < new_runoff_time' /\ new_runoff_time' <= model.duration
      /\ \A g \in Gages :
            \A d \in NextRainDate(model.gages[g], cursor'[model.gages[g].table], at) :
              d > at => new_runoff_time' <= d
  BY RunoffStepEnds
<1>8. RainTypeOK'
  <2>1. NewRainfall(at) \in [Gages -> Nat]
    BY <1>1, <1>2, NewRainfallNat
  <2>2. cumul_rain_accum' \in [Gages -> Nat]
    <3>1. ASSUME NEW g \in Gages
          PROVE  /\ RawValue(model.gages[g], cursor'[model.gages[g].table], at) \in Nat
                 /\ cumul_rain_accum[g] \in Nat
      BY <1>1, <1>2, <1>4, RawNat DEF RainTypeOK
    <3>2. cumul_rain_accum' =
            [g \in Gages |->
                IF model.gages[g].rain_type = "CUMULATIVE" /\ ~Copies(g)
                THEN RawValue(model.gages[g], cursor'[model.gages[g].table], at)
                ELSE cumul_rain_accum[g]]
      BY DEF RunoffStep
    <3>. QED
      BY <3>1, <3>2
  <2>3. /\ DOMAIN cursor' = DOMAIN tables
        /\ \A t \in DOMAIN tables : cursor'[t] \in 1..Max({1, Len(tables[t].x)})
    BY <1>2, <1>3, CursorsStay DEF Cursors
  <2>4. old_runoff_time' \in 0..new_runoff_time' /\ new_runoff_time' \in 0..model.duration
        /\ current_time <= new_runoff_time'
    BY <1>1, <1>2, <1>3, <1>7 DEF RainTypeOK
  <2>5. /\ cumul_rain_accum' \in [Gages -> Nat] /\ rainfall' \in [Gages -> Nat]
        /\ subcatch_rain' \in [Gages -> Nat] /\ reported' \in [Gages -> Nat]
        /\ Gages' = Gages
    BY <1>1, <1>3, <2>1, <2>2 DEF RainTypeOK, Gages
  <2>6. \A g : Copies(g)' = Copies(g)
    BY <1>3 DEF Copies
  <2>. QED
    BY <1>1, <1>3, <2>3, <2>4, <2>5, <2>6 DEF RainTypeOK
<1>9. RainIsTheSeries'
  <2>1. ASSUME NEW g \in Gages, Faithful(g), NEW s \in Int, at + 1 <= s,
               s = at + 1 \/ s < new_runoff_time'
        PROVE  subcatch_rain'[g] = RainAt(g, s)
    <3>1. ASSUME NEW d \in NextRainDate(model.gages[g], Cursors(at)[model.gages[g].table], at),
                 d > at
          PROVE  s = at + 1 \/ s < d
      <4>1. new_runoff_time' <= d
        BY <3>1, <1>3, <1>7
      <4>2. d \in Int
        BY <1>1, <1>2, <1>3, <1>4, DatesAreInt
      <4>. QED
        BY <4>1, <4>2, <2>1, <1>7
    <3>2. NewRainfall(at)[g] = RainAt(g, s)
      BY <1>1, <1>2, <2>1, <3>1, RainOfStep
    <3>. QED
      BY <3>2, <1>3
  <2>2. ASSUME NEW s \in (at + 1)..Max({at + 1, new_runoff_time' - 1})
        PROVE  s \in Int /\ at + 1 <= s /\ (s = at + 1 \/ s < new_runoff_time')
    <3>. DEFINE lo == at + 1
                hi == new_runoff_time' - 1
    <3>1. lo \in Int /\ hi \in Int
      BY <1>2, <1>7
    <3>. HIDE DEF lo, hi
    <3>2. Max({lo, hi}) \in {lo, hi}
      BY <3>1, MinMaxOfTwo
    <3>3. s \in lo..Max({lo, hi})
      BY DEF lo, hi
    <3>4. s \in Int /\ lo <= s /\ (s = lo \/ s <= hi)
      <4>1. CASE Max({lo, hi}) = lo
        BY <3>1, <3>3, <4>1
      <4>2. CASE Max({lo, hi}) = hi
        BY <3>1, <3>3, <4>2
      <4>. QED
        BY <3>2, <4>1, <4>2
    <3>5. s <= hi => s < new_runoff_time'
      <4>1. \A i, j \in Int : i <= j - 1 => i < j
        OBVIOUS
      <4>2. s \in Int /\ new_runoff_time' \in Int
        BY <3>4, <1>7
      <4>. QED
        BY <4>1, <4>2 DEF hi
    <3>. QED
      BY <3>4, <3>5 DEF lo
  <2>3. /\ Gages' = Gages
        /\ \A g : Faithful(g)' = Faithful(g)
        /\ \A g, s : RainAt(g, s)' = RainAt(g, s)
    <3>1. Gages' = Gages
      BY <1>3 DEF Gages
    <3>2. \A g : Faithful(g)' = Faithful(g)
      BY <1>3 DEF Faithful, Primary, Copies
    <3>3. \A g, s : RainAt(g, s)' = RainAt(g, s)
      BY <1>3 DEF RainAt, Intensity, PerHour
    <3>. QED
      BY <3>1, <3>2, <3>3
  <2>. QED
    BY <2>1, <2>2, <2>3, <1>3 DEF RainIsTheSeries
<1>10. ModelOK' /\ TablesKept'
  BY <1>3, Kept
<1>11. NotBegun'
  BY <1>3 DEF NotBegun, RunoffStep
<1>. QED
  BY <1>8, <1>9, <1>10, <1>11 DEF RainInv

\* What a client does leaves the rain as it is.
LEMMA ClientKeeps ==
    ASSUME RainInv, Client
    PROVE  RainInv'
<1>. USE DEF RainInv
<1>1. ASSUME NEW g \in Gages, NEW t \in DOMAIN tables, SetTimeseries(g, t)
      PROVE  RainInv'
  <2>. USE <1>1 DEF SetTimeseries
  <2>1. /\ model \in Model /\ WellFormed(model)
        /\ model.gages \in Seq(Gage) /\ g \in DOMAIN model.gages
    BY DEF ModelOK, Model, Gages
  <2>2. /\ t \in Nat \ {0} /\ t <= model.pool /\ t \in DOMAIN model.tables
    BY <2>1 DEF Model, WellFormed
  <2>. DEFINE new == [model.gages[g] EXCEPT !.table = t, !.source = "TIMESERIES"]
              gages == [model.gages EXCEPT ![g] = new]
  <2>3. /\ new \in Gage /\ new.table = t /\ new.source = "TIMESERIES"
        /\ new.interval = model.gages[g].interval
    <3>1. model.gages[g] \in Gage
      BY <2>1
    <3>. QED
      BY <2>2, <3>1 DEF Gage
  <2>4. model' = [model EXCEPT !.gages = gages]
    BY <2>1 DEF Model, Gage
  <2>. HIDE DEF new
  <2>5. gages \in Seq(Gage) /\ DOMAIN gages = DOMAIN model.gages
        /\ \A h \in DOMAIN gages : gages[h] = IF h = g THEN new ELSE model.gages[h]
    BY <2>1, <2>3
  <2>. HIDE DEF gages
  <2>6. /\ model' \in Model /\ model'.gages = gages /\ model'.tables = model.tables
        /\ model'.pool = model.pool /\ model'.duration = model.duration
    BY <2>1, <2>4, <2>5 DEF Model
  <2>7. WellFormed(model')
    <3>1. ASSUME NEW h \in DOMAIN gages
          PROVE  /\ gages[h].table \in DOMAIN model.tables
                 /\ Fits(gages[h], model.tables[gages[h].table])
                 /\ gages[h].source = "TIMESERIES" <=> gages[h].table <= model.pool
                 /\ \A i \in DOMAIN gages \ {h} :
                       gages[h].source = "FILE" => gages[i].table # gages[h].table
      <4>1. CASE h = g
        <5>1. Fits(new, model.tables[t])
          BY <2>3 DEF Fits
        <5>. QED
          BY <4>1, <5>1, <2>2, <2>3, <2>5
      <4>2. CASE h # g
        <5>1. gages[h] = model.gages[h] /\ h \in DOMAIN model.gages
          BY <4>2, <2>5
        <5>2. gages[h].source = "FILE" => gages[h].table # t
          <6>1. gages[h].source = "TIMESERIES" <=> gages[h].table <= model.pool
            BY <5>1, <2>1 DEF WellFormed
          <6>. QED
            BY <6>1, <2>2
        <5>. QED
          BY <5>1, <5>2, <2>1, <2>3, <2>5 DEF WellFormed
      <4>. QED
        BY <4>1, <4>2
    <3>2. /\ model.pool <= Len(model.tables)
          /\ \A u \in DOMAIN model.tables : Len(model.tables[u].x) = Len(model.tables[u].y)
      BY <2>1 DEF WellFormed
    <3>. HIDE <1>1 DEF SetTimeseries, RainInv
    <3>. QED
      BY <3>1, <3>2, <2>6, Zenon DEF WellFormed
  <2>8. ModelOK'
    BY <2>6, <2>7 DEF ModelOK
  <2>9. Gages' = Gages
    BY <2>5, <2>6 DEF Gages
  <2>10. RainTypeOK'
    BY <2>6, <2>9 DEF RainTypeOK, rainVars, clock, Copies
  <2>11. TablesKept'
    <3>1. ASSUME NEW h \in Gages, gages[h].source = "FILE", gages[h].rain_type = "VOLUME"
          PROVE  tables[gages[h].table].y = model.tables[gages[h].table].y
      <4>1. h # g /\ gages[h] = model.gages[h]
        BY <3>1, <2>3, <2>5 DEF Gages
      <4>. QED
        BY <3>1, <4>1 DEF TablesKept
    <3>. QED
      BY <3>1, <2>6, <2>9 DEF TablesKept, rainVars
  <2>12. NotBegun' /\ RainIsTheSeries'
    BY DEF NotBegun, RainIsTheSeries, clock, RainTypeOK
  <2>. QED
    BY <2>8, <2>10, <2>11, <2>12
<1>2. ASSUME NEW g \in Gages, NEW v \in Intensities, SetRainfall(g, v)
      PROVE  RainInv'
  <2>. USE <1>2 DEF SetRainfall, clock
  <2>1. rainfall' \in [Gages -> Nat]
    BY GagesAssumption DEF RainTypeOK
  <2>2. RainTypeOK'
    BY <2>1 DEF RainTypeOK, Gages, Copies
  <2>. QED
    BY <2>2, Kept, RainKept DEF NotBegun
<1>3. ASSUME NEW g \in Gages, NEW f \in Forcing, SetForcing(g, f)
      PROVE  RainInv'
  <2>. USE <1>3 DEF SetForcing, rainVars, clock
  <2>1. forcing' \in [Gages -> Forcing]
    BY DEF RainTypeOK
  <2>2. RainTypeOK'
    BY <2>1 DEF RainTypeOK, Gages, Copies
  <2>. QED
    BY <2>2, Kept, RainKept DEF NotBegun
<1>4. ASSUME NEW t \in DOMAIN tables, NEW at \in Lookups, Lookup(t, at)
      PROVE  RainInv'
  <2>. USE <1>4 DEF Lookup, clock
  <2>1. tables[t].x \in Seq(Int) /\ cursor[t] \in 1..Max({1, Len(tables[t].x)}) /\ at \in Int
    BY GagesAssumption DEF TablesKept, Series, RainTypeOK
  <2>2. LookupIndex(tables[t].x, cursor[t], at) \in 1..Max({1, Len(tables[t].x)})
    BY <2>1, CursorType
  <2>3. DOMAIN cursor' = DOMAIN tables
        /\ \A u \in DOMAIN tables : cursor'[u] \in 1..Max({1, Len(tables[u].x)})
    BY <2>2 DEF RainTypeOK
  <2>4. moved' \subseteq DOMAIN tables
    BY DEF RainTypeOK
  <2>5. RainTypeOK'
    BY <2>3, <2>4 DEF RainTypeOK, Gages, Copies
  <2>. QED
    BY <2>5, Kept, RainKept DEF NotBegun
<1>5. NoForcing \in Forcing
  BY DEF NoForcing, Forcing
<1>6. ASSUME NEW v \in Intensities, NEW mode \in {"OVERRIDE", "ADD"}, NEW persist \in BOOLEAN
      PROVE  [mode |-> mode, value |-> v, persist |-> persist] \in Forcing
  BY GagesAssumption DEF Forcing
<1>. QED
  BY <1>1, <1>2, <1>3, <1>4, <1>5, <1>6 DEF Client

THEOREM StepRain == RainInv /\ [Next]_vars => RainInv'
<1>. SUFFICES ASSUME RainInv, [Next]_vars
              PROVE  RainInv'
  OBVIOUS
<1>. USE DEF RainInv
<1>1. CASE Client
  BY <1>1, ClientKeeps
<1>2. CASE StartRun
  <2>. USE <1>2 DEF StartRun, clock
  <2>1. ASSUME NEW t \in DOMAIN tables
        PROVE  1 \in 1..Max({1, Len(tables[t].x)})
    <3>1. Max({1, Len(tables[t].x)}) \in {1, Len(tables[t].x)}
          /\ Max({1, Len(tables[t].x)}) >= 1 /\ Len(tables[t].x) \in Int
      <4>1. Len(tables[t].x) \in Int /\ 1 \in Int
        BY DEF TablesKept, Series
      <4>. QED
        BY <4>1, MinMaxOfTwo
    <3>. QED
      BY <3>1
  <2>2. RainTypeOK'
    BY <2>1 DEF RainTypeOK, Gages, Copies
  <2>. QED
    BY <2>2, Kept, RainKept DEF NotBegun
<1>3. CASE BeginStep
  <2>. USE <1>3 DEF BeginStep
  <2>6. UNCHANGED <<state, model, co_gage_index, tables, cursor, cumul_rain_accum,
                    subcatch_rain, moved, forcing, old_runoff_time, new_runoff_time,
                    current_time, next_report, reported>>
    OBVIOUS
  <2>1. current_time \in Nat /\ model.duration \in Nat
    BY DEF RainTypeOK, ModelOK, Model, Between
  <2>2. PICK dt \in RoutingSteps : next_time' = Min({current_time + dt, model.duration})
    OBVIOUS
  <2>3. next_time' \in 0..model.duration /\ current_time <= next_time'
    <3>. DEFINE end == current_time + dt
    <3>1. end \in Int /\ model.duration \in Int /\ current_time <= end
      BY <2>1, <2>2, GagesAssumption
    <3>2. next_time' = Min({end, model.duration})
      BY <2>2
    <3>. HIDE DEF end
    <3>3. next_time' \in {end, model.duration} /\ next_time' <= model.duration
      BY <3>1, <3>2, MinMaxOfTwo
    <3>. QED
      BY <2>1, <3>1, <3>3
  <2>4. rainfall' \in [Gages -> Nat]
    <3>1. ASSUME NEW g \in Gages
          PROVE  Forced(forcing[g], rainfall[g]) \in Nat
      BY DEF RainTypeOK, Forcing, Forced
    <3>. QED
      BY <3>1
  <2>. HIDE <1>3 DEF BeginStep
  <2>5. RainTypeOK'
    <3>1. current_time' \in 0..next_time' /\ next_time' \in 0..model.duration
      BY <2>1, <2>3, <2>6
    <3>. QED
      BY <2>4, <2>6, <3>1 DEF RainTypeOK, Gages, Copies
  <2>. QED
    BY <2>5, <2>6, Kept, RainKept DEF NotBegun
<1>4. CASE RunoffStep
  BY <1>4, RunoffStepKeeps
<1>5. CASE EndStep
  <2>. USE <1>5 DEF EndStep, rainVars
  <2>1. forcing' \in [Gages -> Forcing]
    BY DEF RainTypeOK, NoForcing, Forcing
  <2>2. next_report' \in Nat /\ reported' \in [Gages -> Nat]
    <3>1. /\ next_report \in Nat /\ model.report_step \in Nat
          /\ reported \in [Gages -> Nat]
      BY DEF RainTypeOK, ModelOK, Model
    <3>2. [g \in Gages |-> ReportRainfall(g, next_report)] \in [Gages -> Nat]
      BY <3>1, ReportNat
    <3>3. next_report + model.report_step \in Nat
      BY <3>1
    <3>4. \/ /\ reported' = [g \in Gages |-> ReportRainfall(g, next_report)]
             /\ next_report' = next_report + model.report_step
          \/ UNCHANGED <<reported, next_report>>
      OBVIOUS
    <3>. QED
      BY <3>1, <3>2, <3>3, <3>4
  <2>3. current_time' = next_time /\ next_time \in Nat /\ next_time <= new_runoff_time
    BY DEF RainTypeOK, ModelOK, Model
  <2>4. RainTypeOK'
    BY <2>1, <2>2, <2>3 DEF RainTypeOK, Gages, Copies
  <2>. QED
    BY <2>4, Kept, RainKept DEF NotBegun
<1>6. CASE UNCHANGED vars
  <2>. USE <1>6 DEF vars, rainVars, clock
  <2>1. RainTypeOK'
    BY DEF RainTypeOK, Gages, Copies
  <2>. QED
    BY <2>1, Kept, RainKept DEF NotBegun
<1>. QED
  BY <1>1, <1>2, <1>3, <1>4, <1>5, <1>6 DEF Next

-----------------------------------------------------------------------------
(* The reports.                                                              *)

Interval(g) == model.gages[g].interval
CursorOf(g) == cursor[model.gages[g].table]

\* The cursor of a gage's series is where the runoff step taken last put it, and
\* that step ended no later than the next change of the gage's rain.
AtStep(g) ==
    LET x == SeriesOf(g).x
        k == CursorOf(g)
        t == old_runoff_time + 1
    IN  /\ t < x[1] => k = 1
        /\ t >= x[1] => x[k] <= t /\ (k < Len(x) => t < x[k + 1])
        /\ t < x[k] => new_runoff_time <= x[k]
        /\ x[k] <= t /\ t < x[k] + Interval(g) => new_runoff_time <= x[k] + Interval(g)
        /\ t >= x[k] + Interval(g) /\ k < Len(x) => new_runoff_time <= x[k + 1]

SinceStep ==
    /\ new_runoff_time > 0 => old_runoff_time < new_runoff_time
    /\ old_runoff_time < new_runoff_time =>
          /\ old_runoff_time < next_time
          /\ \A g \in Gages : ~Copies(g) /\ model.gages[g].table \notin moved => AtStep(g)

ReportInv == RainInv /\ SinceStep

\* The cursors stay until the next runoff step, but for those a query moves.
LEMMA SinceStepKept ==
    ASSUME RainInv, SinceStep, model' = model, tables' = tables,
           co_gage_index' = co_gage_index, old_runoff_time' = old_runoff_time,
           new_runoff_time' = new_runoff_time, next_time' \in Int, next_time <= next_time',
           moved \subseteq moved',
           \A t \in DOMAIN tables : t \notin moved' => cursor'[t] = cursor[t]
    PROVE  SinceStep'
<1>1. ASSUME NEW g \in Gages, model.gages[g].table \notin moved', AtStep(g)
      PROVE  AtStep(g)'
  <2>1. CursorOf(g)' = CursorOf(g)
    BY <1>1, GageFacts DEF CursorOf, RainInv
  <2>2. SeriesOf(g)' = SeriesOf(g) /\ Interval(g)' = Interval(g)
    BY DEF SeriesOf, Interval
  <2>. QED
    BY <1>1, <2>1, <2>2 DEF AtStep
<1>2. Gages' = Gages /\ \A g : Copies(g)' = Copies(g)
  BY DEF Gages, Copies
<1>3. old_runoff_time \in Int /\ next_time \in Int
  BY DEF RainInv, RainTypeOK, ModelOK, Model
<1>. QED
  BY <1>1, <1>2, <1>3 DEF SinceStep

\* A runoff step puts the cursors there and ends in time.
LEMMA SinceRunoffStep ==
    ASSUME RainInv, RunoffStep
    PROVE  SinceStep'
<1>. DEFINE at == new_runoff_time
<1>1. ModelOK /\ TablesKept /\ RainTypeOK
  BY DEF RainInv
<1>2. at \in Nat /\ next_time \in Nat /\ at < next_time
  BY <1>1 DEF RainTypeOK, RunoffStep, ModelOK, Model
<1>3. /\ cursor' = Cursors(at) /\ old_runoff_time' = at
      /\ UNCHANGED <<model, co_gage_index, tables, next_time>>
  BY DEF RunoffStep
<1>4. at < new_runoff_time' /\ new_runoff_time' \in Nat
      /\ \A g \in Gages :
            \A d \in NextRainDate(model.gages[g], cursor'[model.gages[g].table], at) :
              d > at => new_runoff_time' <= d
  BY RunoffStepEnds
<1>5. ASSUME NEW g \in Gages, ~Copies(g)
      PROVE  AtStep(g)'
  <2>. DEFINE x == SeriesOf(g).x
              k == Cursors(at)[model.gages[g].table]
              n == Interval(g)
              t == at + 1
              new == new_runoff_time'
  <2>1. /\ k \in 1..Len(x)
        /\ t < x[1] => k = 1
        /\ t >= x[1] => x[k] <= t /\ (k < Len(x) => t < x[k + 1])
    BY <1>1, <1>2, <1>5, CursorsAre
  <2>2. NextRainDate(model.gages[g], k, at)
          = CASE t < x[k] -> {x[k]}
              [] t >= x[k] /\ t < x[k] + n -> {x[k] + n}
              [] OTHER -> IF k < Len(x) THEN {x[k + 1]} ELSE {}
    BY DEF NextRainDate, SeriesOf, Interval, OneSecond
  <2>3. \A d \in NextRainDate(model.gages[g], k, at) : d > at => new <= d
    BY <1>3, <1>4
  <2>4. x \in Seq(Int) /\ n \in Nat \ {0} /\ t \in Int /\ t = at + 1 /\ new \in Int
    BY <1>1, <1>2, <1>4, GageFacts DEF Interval, Gage
  <2>5. SeriesOf(g)' = SeriesOf(g) /\ Interval(g)' = Interval(g) /\ CursorOf(g)' = k
        /\ old_runoff_time' + 1 = t
    BY <1>3 DEF SeriesOf, Interval, CursorOf
  <2>. HIDE DEF x, k, n, t, new
  <2>6. x[k] \in Int /\ x[1] \in Int /\ (k < Len(x) => x[k + 1] \in Int) /\ x[k] + n \in Int
    BY <2>1, <2>4
  <2>7. t < x[k] => new <= x[k]
    BY <2>2, <2>3, <2>4, <2>6, <1>2
  <2>8. x[k] <= t /\ t < x[k] + n => new <= x[k] + n
    <3>1. x[k] <= t /\ t < x[k] + n => x[k] + n \in NextRainDate(model.gages[g], k, at)
      BY <2>2, <2>4, <2>6
    <3>2. t < x[k] + n => x[k] + n > at
      BY <2>4, <2>6, <1>2
    <3>. QED
      BY <3>1, <3>2, <2>3
  <2>9. t >= x[k] + n /\ k < Len(x) => new <= x[k + 1]
    <3>1. t >= x[k] + n => ~ (t < x[k]) /\ ~ (t >= x[k] /\ t < x[k] + n) /\ t >= x[k]
      BY <2>4, <2>6
    <3>2. t >= x[k] + n /\ k < Len(x) => x[k + 1] \in NextRainDate(model.gages[g], k, at)
      BY <2>2, <3>1
    <3>3. t >= x[k] + n /\ k < Len(x) => t < x[k + 1]
      BY <2>1, <2>4, <2>6, <3>1
    <3>4. k < Len(x) /\ t < x[k + 1] => x[k + 1] > at
      BY <2>4, <2>6, <1>2
    <3>. QED
      BY <3>2, <3>3, <3>4, <2>3
  <2>. QED
    BY <2>1, <2>5, <2>7, <2>8, <2>9 DEF AtStep, x, n, new
<1>6. Gages' = Gages /\ \A g : Copies(g)' = Copies(g)
  BY <1>3 DEF Gages, Copies
<1>. QED
  BY <1>2, <1>3, <1>4, <1>5, <1>6 DEF SinceStep

THEOREM StepReport == ReportInv /\ [Next]_vars => ReportInv'
<1>. SUFFICES ASSUME ReportInv, [Next]_vars
              PROVE  ReportInv'
  OBVIOUS
<1>1. RainInv /\ SinceStep /\ RainInv'
  BY StepRain DEF ReportInv
<1>2. next_time \in Int /\ old_runoff_time \in Int /\ old_runoff_time >= 0
      /\ old_runoff_time <= new_runoff_time /\ new_runoff_time \in Int
  BY <1>1 DEF RainInv, RainTypeOK, ModelOK, Model
<1>3. CASE Client
  <2>1. ASSUME NEW g \in Gages, NEW t \in DOMAIN tables, SetTimeseries(g, t)
        PROVE  SinceStep'
    <3>1. new_runoff_time' = 0 /\ old_runoff_time' = 0
      BY <1>1, <1>2, <2>1 DEF SetTimeseries, RainInv, NotBegun, clock
    <3>. QED
      BY <3>1 DEF SinceStep
  <2>2. ASSUME NEW g \in Gages, NEW v \in Intensities, SetRainfall(g, v)
        PROVE  SinceStep'
    BY <1>1, <1>2, <2>2, SinceStepKept DEF SetRainfall, clock
  <2>3. ASSUME NEW g \in Gages, NEW f, SetForcing(g, f)
        PROVE  SinceStep'
    BY <1>1, <1>2, <2>3, SinceStepKept DEF SetForcing, rainVars, clock
  <2>4. ASSUME NEW t \in DOMAIN tables, NEW q \in Lookups, Lookup(t, q)
        PROVE  SinceStep'
    <3>1. /\ model' = model /\ tables' = tables /\ co_gage_index' = co_gage_index
          /\ old_runoff_time' = old_runoff_time /\ new_runoff_time' = new_runoff_time
          /\ next_time' = next_time /\ moved' = moved \cup {t}
      BY <2>4 DEF Lookup, clock
    <3>2. \A u \in DOMAIN tables : u # t => cursor'[u] = cursor[u]
      BY <1>1, <2>4 DEF Lookup, RainInv, RainTypeOK
    <3>. QED
      BY <1>1, <1>2, <3>1, <3>2, SinceStepKept
  <2>. QED
    BY <1>1, <1>3, <2>1, <2>2, <2>3, <2>4 DEF Client, ReportInv
<1>4. CASE StartRun
  <2>1. new_runoff_time' = 0 /\ old_runoff_time' = 0
    BY <1>1, <1>2, <1>4 DEF StartRun, RainInv, NotBegun, clock
  <2>. QED
    BY <1>1, <2>1 DEF SinceStep, ReportInv
<1>5. CASE BeginStep
  <2>1. next_time' \in Int /\ current_time' <= next_time' /\ current_time' = next_time
    BY <1>1, <1>5 DEF BeginStep, Between, RainInv, RainTypeOK, ModelOK, Model
  <2>2. /\ model' = model /\ tables' = tables /\ co_gage_index' = co_gage_index
        /\ old_runoff_time' = old_runoff_time /\ new_runoff_time' = new_runoff_time
        /\ moved' = moved /\ cursor' = cursor
    BY <1>5 DEF BeginStep
  <2>. QED
    BY <1>1, <2>1, <2>2, SinceStepKept DEF ReportInv
<1>6. CASE RunoffStep
  BY <1>1, <1>6, SinceRunoffStep DEF ReportInv
<1>7. CASE EndStep
  BY <1>1, <1>2, <1>7, SinceStepKept DEF EndStep, rainVars, ReportInv
<1>8. CASE UNCHANGED vars
  BY <1>1, <1>2, <1>8, SinceStepKept DEF vars, rainVars, clock, ReportInv
<1>. QED
  BY <1>3, <1>4, <1>5, <1>6, <1>7, <1>8 DEF Next
\* The record getReportRainfall() reads at a date, by the cursor of the series.
ReportedRecord(g, date) ==
    LET x == SeriesOf(g).x
        y == SeriesOf(g).y
        k == CursorOf(g)
        t == date + OneSecond
    IN  CASE t < x[k] + Interval(g) -> y[k]
          [] OTHER -> IF k < Len(x) /\ t >= x[k + 1] THEN y[k + 1] ELSE 0

\* A faithful gage reports the record as its intensity, whether it copies or not.
LEMMA ReportIs ==
    ASSUME RainInv, NEW g \in Gages, Faithful(g), NEW date \in Nat,
           ReportedRecord(g, date) \in Nat
    PROVE  ReportRainfall(g, date) = model.gages[g].scale * Amount(g, ReportedRecord(g, date))
<1>. DEFINE gage == model.gages[g]
            p == Primary(g)
            from == model.gages[p]
            raw == ReportedRecord(g, date)
            amount == Amount(g, raw)
<1>1. ModelOK /\ TablesKept /\ RainTypeOK
  BY DEF RainInv
<1>2. p \in Gages /\ ~Copies(p) /\ gage \in Gage /\ from \in Gage
  BY <1>1, PrimaryIs, GageFacts
<1>3. /\ from.table = gage.table /\ from.interval = gage.interval
      /\ from.rain_type = gage.rain_type /\ gage.rain_type \in {"INTENSITY", "VOLUME"}
  BY <1>2 DEF Faithful, Gage
<1>4. ReportedRecord(p, date) = raw
  BY <1>3 DEF ReportedRecord, SeriesOf, CursorOf, Interval
<1>5. amount \in Nat /\ gage.scale \in Nat \ {0} /\ from.scale \in Nat \ {0}
  BY <1>2, PerHourNat DEF Amount, Gage
<1>6. OwnReport(p, date) = from.scale * amount
  <2>1. OwnReport(p, date)
          = from.scale * (IF from.rain_type = "VOLUME" THEN PerHour(ReportedRecord(p, date), from)
                          ELSE ReportedRecord(p, date))
    BY DEF OwnReport, ReportedRecord, SeriesOf, CursorOf, Interval
  <2>2. PerHour(raw, from) = PerHour(raw, gage)
    BY <1>3 DEF PerHour
  <2>. HIDE DEF raw
  <2>. QED
    BY <2>1, <2>2, <1>3, <1>4 DEF Amount
<1>. HIDE DEF amount
<1>7. CASE Copies(g)
  <2>1. p = co_gage_index[g]
    BY <1>7 DEF Primary
  <2>2. ReportRainfall(g, date) = (OwnReport(p, date) * gage.scale) \div from.scale
    BY <1>7, <2>1 DEF ReportRainfall
  <2>3. ReportRainfall(g, date) = ((from.scale * amount) * gage.scale) \div from.scale
    BY <2>2, <1>6
  <2>. HIDE DEF gage, from
  <2>4. ReportRainfall(g, date) = gage.scale * amount
    BY <2>3, <1>5, Rescaled
  <2>. QED
    BY <2>4 DEF amount, gage
<1>8. CASE ~Copies(g)
  <2>1. p = g
    BY <1>8 DEF Primary
  <2>2. ReportRainfall(g, date) = OwnReport(g, date)
    BY <1>8 DEF ReportRainfall
  <2>. QED
    BY <2>1, <2>2, <1>6 DEF amount
<1>. QED
  BY <1>7, <1>8

\* The records of x, of n seconds each, as the runoff step from old to new finds and
\* leaves them with the cursor at k, and the record read with that cursor at a date.
Spaced(x, n) == \A i, j \in 1..Len(x) : i < j => x[i] + n <= x[j]
Found(x, n, k, old, new) ==
    /\ old + 1 < x[1] => k = 1
    /\ old + 1 >= x[1] => x[k] <= old + 1
    /\ old + 1 < x[k] => new <= x[k]
    /\ x[k] <= old + 1 /\ old + 1 < x[k] + n => new <= x[k] + n
    /\ old + 1 >= x[k] + n /\ k < Len(x) => new <= x[k + 1]
Read(x, n, k, date) ==
    IF date + 1 < x[k] + n THEN k
    ELSE IF k < Len(x) /\ date + 1 >= x[k + 1] THEN k + 1 ELSE 0
\* Record j, or no record for 0, is that of a time between two dates.
Shown(x, n, j, from, to) ==
    \E s \in from..to :
        \A i \in 1..Len(x) : x[i] <= s + 1 /\ s + 1 < x[i] + n <=> i = j

\* The records do not overlap.
LEMMA OneRecord ==
    ASSUME NEW x \in Seq(Int), NEW n \in Nat, Spaced(x, n), NEW i \in 1..Len(x),
           NEW q \in Int, x[i] <= q, q < x[i] + n
    PROVE  \A h \in 1..Len(x) : x[h] <= q /\ q < x[h] + n <=> h = i
<1>1. ASSUME NEW h \in 1..Len(x), h # i
      PROVE  ~ (x[h] <= q /\ q < x[h] + n)
  <2>1. x[h] \in Int /\ x[i] \in Int
    OBVIOUS
  <2>2. CASE h < i
    <3>1. x[h] + n <= x[i]
      BY <2>2 DEF Spaced
    <3>. QED
      BY <2>1, <3>1
  <2>3. CASE i < h
    <3>1. x[i] + n <= x[h]
      BY <2>3 DEF Spaced
    <3>. QED
      BY <2>1, <3>1
  <2>. QED
    BY <1>1, <2>2, <2>3
<1>. QED
  BY <1>1

\* The record read for a report is that of a time of the routing step.
LEMMA RecordOfStep ==
    ASSUME NEW x \in Seq(Int), Len(x) > 1, NEW n \in Nat \ {0, 1},
           Spaced(x, n), NEW k \in 1..Len(x), NEW old \in Int, NEW new \in Int,
           Found(x, n, k, old, new), NEW date \in Int, NEW next \in Int,
           date <= next, next <= new, old < next, x[1] <= date + 1,
           NEW j, j = Read(x, n, k, date)
    PROVE  Shown(x, n, j, date, next)
<1>1. \A i \in 1..Len(x) : x[i] \in Int
  OBVIOUS
<1>2. ASSUME NEW i \in 1..Len(x), NEW q \in Int, x[i] <= q, q < x[i] + n
      PROVE  \A h \in 1..Len(x) : x[h] <= q /\ q < x[h] + n <=> h = i
  BY <1>2, OneRecord
<1>. USE DEF Spaced, Found, Read, Shown
<1>3. CASE date + 1 < x[k] + n
  <2>1. j = k /\ j # 0
    BY <1>3
  <2>2. CASE x[k] <= date + 1
    <3>1. date \in date..next /\ date + 1 \in Int
      OBVIOUS
    <3>. QED
      BY <2>1, <2>2, <3>1, <1>2, <1>3
  <2>3. CASE date + 1 < x[k]
    <3>. DEFINE s == x[k] - 1
    <3>1. x[k] <= old + 1
      BY <2>3, <1>1
    <3>2. s \in date..next /\ s + 1 = x[k]
      BY <2>3, <3>1, <1>1
    <3>3. x[k] <= s + 1 /\ s + 1 < x[k] + n /\ s + 1 \in Int
      BY <3>2, <1>1
    <3>. HIDE DEF s
    <3>4. \A h \in 1..Len(x) : x[h] <= s + 1 /\ s + 1 < x[h] + n <=> h = k
      BY <3>3, <1>2
    <3>. QED
      BY <2>1, <3>2, <3>4
  <2>4. x[k] <= date + 1 \/ date + 1 < x[k]
    BY <1>1
  <2>. QED
    BY <2>2, <2>3, <2>4
<1>4. CASE date + 1 >= x[k] + n /\ k < Len(x) /\ date + 1 >= x[k + 1]
  <2>1. k + 1 \in 1..Len(x) /\ x[k] + n <= x[k + 1] /\ x[k + 1] \in Int /\ x[k] \in Int
    BY <1>4
  <2>2. j = k + 1 /\ j # 0
    BY <1>4, <2>1
  <2>3. new <= x[k + 1]
    BY <1>1, <1>4, <2>1
  <2>4. date + 1 < x[k + 1] + n /\ date + 1 \in Int
    BY <2>1, <2>3
  <2>5. date \in date..next
    OBVIOUS
  <2>6. \A h \in 1..Len(x) : x[h] <= date + 1 /\ date + 1 < x[h] + n <=> h = k + 1
    BY <2>1, <2>4, <1>2, <1>4
  <2>. QED
    BY <2>2, <2>5, <2>6
<1>5. CASE date + 1 >= x[k] + n /\ ~ (k < Len(x) /\ date + 1 >= x[k + 1])
  <2>1. j = 0
    BY <1>1, <1>5
  <2>2. date + 1 >= x[1]
    OBVIOUS
  <2>3. x[k] <= date + 1 /\ (k < Len(x) => date + 1 < x[k + 1])
    <3>1. k < Len(x) => k + 1 \in 1..Len(x)
      OBVIOUS
    <3>. QED
      BY <3>1, <1>1, <1>5
  <2>4. ASSUME NEW i \in 1..Len(x)
        PROVE  ~ (x[i] <= date + 1 /\ date + 1 < x[i] + n)
    <3>1. CASE i <= k
      <4>1. i = k \/ x[i] + n <= x[k]
        BY <3>1
      <4>. QED
        BY <4>1, <1>1, <1>5
    <3>2. CASE k < i
      <4>1. k + 1 \in 1..Len(x) /\ k < Len(x)
        BY <3>2
      <4>2. i = k + 1 \/ x[k + 1] + n <= x[i]
        BY <3>2, <4>1
      <4>. QED
        BY <4>1, <4>2, <2>3, <1>1
    <3>. QED
      BY <3>1, <3>2
  <2>5. date \in date..next
    OBVIOUS
  <2>. QED
    BY <2>1, <2>4, <2>5
<1>6. date + 1 < x[k] + n \/ date + 1 >= x[k] + n
  BY <1>1
<1>. QED
  BY <1>3, <1>4, <1>5, <1>6

\* A report that is written shows the rain of a time of its step.
LEMMA ReportStep ==
    ASSUME ReportInv, EndStep, next_report' # next_report, NEW g \in Gages, Faithful(g),
           model.gages[g].table \notin moved, SeriesOf(g).x[1] <= next_report + OneSecond,
           Interval(g) > OneSecond
    PROVE  \E s \in next_report..next_time : reported'[g] = RainAt(g, s + OneSecond)
<1>. DEFINE x == SeriesOf(g).x
            y == SeriesOf(g).y
            n == Interval(g)
            k == CursorOf(g)
            old == old_runoff_time
            new == new_runoff_time
            date == next_report
            next == next_time
            now(q) == {i \in 1..Len(x) : x[i] <= q /\ q < x[i] + n}
            j == Read(x, n, k, date)
            raw == ReportedRecord(g, date)
<1>1. RainInv /\ ModelOK /\ TablesKept /\ RainTypeOK /\ SinceStep
  BY DEF ReportInv, RainInv
<1>2. /\ date <= next /\ reported' = [h \in Gages |-> ReportRainfall(h, date)]
      /\ current_time < next /\ next <= new
  BY DEF EndStep
<1>3. date \in Nat /\ next \in Nat /\ old \in Nat /\ new \in Nat /\ current_time \in Nat
  BY <1>1 DEF RainTypeOK, ModelOK, Model
<1>4. old < new /\ old < next
  BY <1>1, <1>2, <1>3 DEF SinceStep
<1>5. /\ x \in Seq(Int) /\ y \in Seq(Nat) /\ Len(x) > 1 /\ Len(y) = Len(x)
      /\ Spaced(x, n) /\ k \in 1..Len(x) /\ n \in Nat \ {0}
  BY <1>1, GageFacts DEF Interval, CursorOf, Gage, Spaced
<1>6. n \in Nat \ {0, 1}
  BY <1>5 DEF OneSecond
<1>7. AtStep(g)
  <2>. DEFINE p == Primary(g)
  <2>1. p \in Gages /\ ~Copies(p) /\ model.gages[g] \in Gage /\ model.gages[p] \in Gage
    BY <1>1, PrimaryIs, GageFacts
  <2>2. model.gages[p].table = model.gages[g].table /\ Interval(p) = Interval(g)
    BY <2>1 DEF Faithful, Gage, Interval
  <2>3. AtStep(p)
    BY <1>1, <1>4, <2>1, <2>2 DEF SinceStep
  <2>. QED
    BY <2>2, <2>3 DEF AtStep, SeriesOf, CursorOf
<1>8. Found(x, n, k, old, new)
  BY <1>7 DEF AtStep, Found
<1>9. x[1] <= date + 1
  BY DEF OneSecond
<1>10. raw = IF j = 0 THEN 0 ELSE y[j]
  <2>1. raw = CASE date + 1 < x[k] + n -> y[k]
                [] OTHER -> IF k < Len(x) /\ date + 1 >= x[k + 1] THEN y[k + 1] ELSE 0
    BY DEF ReportedRecord, OneSecond
  <2>. HIDE DEF raw, x, y, k, n, date
  <2>. QED
    BY <1>5, <2>1 DEF Read
<1>11. \A s : s \in Int => RainAt(g, s) =
          model.gages[g].scale * (IF now(s) = {} THEN 0 ELSE Amount(g, y[Max(now(s))]))
  BY <1>1, RainAtIs DEF Interval
<1>12. raw \in Nat => reported'[g] = model.gages[g].scale * Amount(g, raw)
  BY <1>1, <1>2, <1>3, ReportIs
<1>13. PerHour(0, model.gages[g]) = 0
  BY <1>1, GageFacts, NoDepth
<1>. HIDE DEF x, y, n, k, old, new, date, next, raw
<1>14. j \in 0..Len(x)
  BY <1>5 DEF Read
<1>. HIDE DEF j
<1>15. PICK s \in date..next :
         \A i \in 1..Len(x) : x[i] <= s + 1 /\ s + 1 < x[i] + n <=> i = j
  <2>1. date \in Int /\ next \in Int /\ old \in Int /\ new \in Int
    BY <1>3
  <2>2. j = Read(x, n, k, date)
    BY DEF j
  <2>3. date <= next /\ next <= new
    BY <1>2
  <2>4. /\ x \in Seq(Int) /\ Len(x) > 1 /\ n \in Nat \ {0, 1} /\ Spaced(x, n)
        /\ k \in 1..Len(x) /\ x[1] <= date + 1
    BY <1>5, <1>6, <1>9
  <2>5. Shown(x, n, j, date, next)
    BY <2>1, <2>2, <2>3, <2>4, <1>4, <1>8, RecordOfStep
  <2>. QED
    BY <2>5 DEF Shown
<1>16. s + 1 \in Int
  BY <1>3
<1>17. now(s + 1) = IF j = 0 THEN {} ELSE {j}
  BY <1>14, <1>15
<1>. HIDE DEF now
<1>18. raw \in Nat /\ RainAt(g, s + 1) = model.gages[g].scale * Amount(g, raw)
  <2>1. CASE j = 0
    <3>1. Amount(g, 0) = 0
      BY <1>13 DEF Amount
    <3>. QED
      BY <2>1, <3>1, <1>10, <1>11, <1>16, <1>17
  <2>2. CASE j # 0
    <3>1. j \in Int /\ y[j] \in Nat
      BY <2>2, <1>5, <1>14
    <3>2. Max({j}) = j
      BY <3>1 DEF Max
    <3>. QED
      BY <2>2, <3>1, <3>2, <1>10, <1>11, <1>16, <1>17
  <2>. QED
    BY <2>1, <2>2
<1>. QED
  BY <1>12, <1>15, <1>18 DEF OneSecond, date, next

-----------------------------------------------------------------------------
(* The results.                                                              *)

\* The types of the gages' state.
THEOREM RainTypeCorrect == Spec => []RainTypeOK
<1>1. RainInv => RainTypeOK
  BY DEF RainInv
<1>. QED
  BY <1>1, InitRain, StepRain, PTL DEF Spec

\* The rain of every runoff step is the rain of its series.
THEOREM RainCorrect == Spec => []RainIsTheSeries
<1>1. RainInv => RainIsTheSeries
  BY DEF RainInv
<1>. QED
  BY <1>1, InitRain, StepRain, PTL DEF Spec

\* A report shows rain of the routing step that writes it.
THEOREM ReportCorrect == Spec => ReportedRainIsOfTheStep
<1>1. Init => ReportInv
  BY InitRain DEF ReportInv, SinceStep, Init
<1>2. ASSUME ReportInv, [Next]_vars, next_report' # next_report, NEW g \in Gages, Faithful(g),
             model.gages[g].table \notin moved,
             tables[model.gages[g].table].x[1] <= next_report + OneSecond,
             model.gages[g].interval > OneSecond
      PROVE  \E s \in next_report..next_time : reported'[g] = RainAt(g, s + OneSecond)
  <2>1. EndStep
    BY <1>2 DEF Next, Client, SetTimeseries, SetRainfall, SetForcing, Lookup, StartRun, BeginStep,
               RunoffStep, clock, vars
  <2>. QED
    BY <1>2, <2>1, ReportStep DEF SeriesOf, Interval
<1>3. ReportInv /\ [Next]_vars =>
        [next_report' # next_report =>
           \A g \in Gages :
              /\ Faithful(g)
              /\ model.gages[g].table \notin moved
              /\ tables[model.gages[g].table].x[1] <= next_report + OneSecond
              /\ model.gages[g].interval > OneSecond
              => \E s \in next_report..next_time :
                    reported'[g] = RainAt(g, s + OneSecond)]_vars
  BY <1>2
<1>. QED
  BY <1>1, <1>3, StepReport, PTL DEF Spec, ReportedRainIsOfTheStep
===============================================================================
