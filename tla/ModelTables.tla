---------------------------- MODULE ModelTables ----------------------------
(***************************************************************************)
(* The tables a SWMM model is kept in while it is edited.  The program     *)
(* stores every kind of object as parallel columns (SoA): the position of  *)
(* an object is its index, and one object refers to another by index, in a *)
(* reference column, or by name, in a name column.  The type-specific      *)
(* properties of nodes and links live in side tables that join back to     *)
(* their owner by index.                                                   *)
(*                                                                         *)
(* A model is one record m:                                                *)
(*   rows         kind -> sequence of the objects' names                   *)
(*   ref          reference column -> sequence of indices; 0 is the code's *)
(*                -1, the rest is one more than the code's index           *)
(*   name         name column -> sequence of names, NoName where unset     *)
(*   data         plain column -> sequence of values                       *)
(*   subtype_row  nodes and links -> row of each object in its side table  *)
(*   mat          flat row-major matrices of the water-quality data        *)
(***************************************************************************)
EXTENDS Integers, SequencesExt

NoName == ""

\* Reference columns: <<table that holds the column, table it points into>>.
\* infil_pattern stands for the three adjustment patterns of a subcatchment,
\* removals for the pollutant of a LID control's removal pair, outfall_param
\* for the table of a TIDAL or TIMESERIES outfall.
Refs ==
  [ node1 |-> <<"links", "nodes">>,            node2 |-> <<"links", "nodes">>,
    xsect_curve |-> <<"links", "transects">>,
    outlet_node |-> <<"subcatches", "nodes">>, gw_node |-> <<"subcatches", "nodes">>,
    outlet_subcatch |-> <<"subcatches", "subcatches">>,
    gage |-> <<"subcatches", "gages">>,        gw_aquifer |-> <<"subcatches", "aquifers">>,
    snowpack |-> <<"subcatches", "snowpacks">>,
    infil_pattern |-> <<"subcatches", "tables">>,
    ts_index |-> <<"gages", "tables">>,        co_gage |-> <<"gages", "gages">>,
    co_pollut |-> <<"pollutants", "pollutants">>,
    storage_curve |-> <<"storages", "tables">>, outfall_param |-> <<"outfalls", "tables">>,
    route_to |-> <<"outfalls", "subcatches">>, outfall_link |-> <<"outfalls", "links">>,
    divider_curve |-> <<"dividers", "tables">>, divider_link |-> <<"dividers", "links">>,
    pump_curve |-> <<"pumps", "tables">>,      outlet_curve |-> <<"outlets", "tables">>,
    storage_node |-> <<"storages", "nodes">>,  outfall_node |-> <<"outfalls", "nodes">>,
    divider_node |-> <<"dividers", "nodes">>,  conduit_link |-> <<"conduits", "links">>,
    pump_link |-> <<"pumps", "links">>,        orifice_link |-> <<"orifices", "links">>,
    weir_link |-> <<"weirs", "links">>,        outlet_link |-> <<"outlets", "links">>,
    ext_node |-> <<"ext_inflows", "nodes">>,   dwf_node |-> <<"dwf_inflows", "nodes">>,
    rdii_node |-> <<"rdii_assigns", "nodes">>,
    lid_subcatch |-> <<"lid_usage", "subcatches">>, lid_index |-> <<"lid_usage", "lid_controls">>,
    removals |-> <<"lid_controls", "pollutants">>,
    inlet_link |-> <<"inlet_usages", "links">>, inlet_node |-> <<"inlet_usages", "nodes">>,
    inlet_design |-> <<"inlet_usages", "inlets">>, inlet_street |-> <<"inlet_usages", "streets">> ]

\* Name columns.  xsect_name is the code's pump_curve_name, which holds the
\* name of the street, transect or curve of a conduit's cross-section.
NameRefs ==
  [ xsect_name |-> <<"links", "streets">>,
    ts_name |-> <<"gages", "tables">>,         ext_ts |-> <<"ext_inflows", "tables">>,
    ext_constituent |-> <<"ext_inflows", "pollutants">>,
    ext_pattern |-> <<"ext_inflows", "patterns">>,
    dwf_constituent |-> <<"dwf_inflows", "pollutants">>,
    dwf_pattern |-> <<"dwf_inflows", "patterns">>,
    evap_pattern |-> <<"aquifers", "patterns">>,
    drain_to |-> <<"lid_usage", "subcatches">>,
    removal_subcatch |-> <<"snowpacks", "subcatches">>,
    uh_name |-> <<"rdii_assigns", "unit_hyds">>, uh_gage |-> <<"unit_hyds", "gages">> ]

\* Plain columns: <<table, value of a new row>>.
DataCols ==
  [ node_type |-> <<"nodes", "JUNCTION">>,  is_virtual |-> <<"nodes", FALSE>>,
    link_type |-> <<"links", "CONDUIT">>,   xsect_shape |-> <<"links", "CIRCULAR">>,
    xsect_geom |-> <<"links", NoName>>,         gage_name |-> <<"subcatches", NoName>>,
    station_id |-> <<"gages", NoName>>,         length_factor |-> <<"transects", NoName>> ]

\* The columns that LinkData::erase_at, SubcatchData::erase_at,
\* GageData::erase_at and delete_transect do not erase.
NotErased == {"xsect_geom", "gage_name", "station_id", "length_factor"}

Kinds == {Refs[c][j] : c \in DOMAIN Refs, j \in 1 .. 2}
           \cup {NameRefs[c][j] : c \in DOMAIN NameRefs, j \in 1 .. 2} \cup {"landuses"}

NodeTypes == {"JUNCTION", "STORAGE", "OUTFALL", "DIVIDER"}
LinkTypes == {"CONDUIT", "PUMP", "ORIFICE", "WEIR", "OUTLET"}
TypeColumn == [nodes |-> "node_type", links |-> "link_type"]
\* The side table of each type and the column that joins it to its owner.
SideTable == [STORAGE |-> "storages", OUTFALL |-> "outfalls", DIVIDER |-> "dividers",
              CONDUIT |-> "conduits", PUMP |-> "pumps", ORIFICE |-> "orifices",
              WEIR |-> "weirs", OUTLET |-> "outlets"]
Join == [storages |-> "storage_node", outfalls |-> "outfall_node", dividers |-> "divider_node",
         conduits |-> "conduit_link", pumps |-> "pump_link", orifices |-> "orifice_link",
         weirs |-> "weir_link", outlets |-> "outlet_link"]
SideTables(k) == {t \in DOMAIN Join : Refs[Join[t]][2] = k}

TypesOf == [nodes |-> NodeTypes, links |-> LinkTypes]

Count(m, k) == Len(m.rows[k])
Positions(m, k) == 1 .. Count(m, k)

-----------------------------------------------------------------------------
(* Columns *)

\* Decrement every index behind a deleted row.
renumber_refs(s, i) == [j \in DOMAIN s |-> IF s[j] > i THEN s[j] - 1 ELSE s[j]]
Nullified(s, v, none) == [j \in DOMAIN s |-> IF s[j] = v THEN none ELSE s[j]]

Renumber(m, C, i) ==
  [m EXCEPT !.ref = [c \in DOMAIN @ |-> IF c \in C THEN renumber_refs(@[c], i) ELSE @[c]]]
Nullify(m, C, i) ==
  [m EXCEPT !.ref = [c \in DOMAIN @ |-> IF c \in C THEN Nullified(@[c], i, 0) ELSE @[c]]]
ClearName(m, C, n) ==
  [m EXCEPT !.name = [c \in DOMAIN @ |-> IF c \in C THEN Nullified(@[c], n, NoName) ELSE @[c]]]

RowsAt(m, c, i) == {r \in DOMAIN m.ref[c] : m.ref[c][r] = i}
RowsNamed(m, c, n) == {r \in DOMAIN m.name[c] : m.name[c][r] = n}

\* Apply F to every column of table k, F taking the column and its default.
MapTable(m, k, F(_, _)) ==
  [m EXCEPT
    !.rows[k] = F(@, NoName),
    !.ref = [c \in DOMAIN @ |-> IF Refs[c][1] = k THEN F(@[c], 0) ELSE @[c]],
    !.name = [c \in DOMAIN @ |-> IF NameRefs[c][1] = k THEN F(@[c], NoName) ELSE @[c]],
    !.data = [c \in DOMAIN @ |->
                IF DataCols[c][1] = k THEN F(@[c], DataCols[c][2]) ELSE @[c]]]

\* The indices K in ascending order: the j-th has j indices up to itself.
Ascending(K) ==
  [j \in 1 .. Cardinality(K) |-> CHOOSE i \in K : Cardinality({x \in K : x <= i}) = j]

\* Erase the rows gone[k] of every table k in the domain of gone.
EraseAll(m, gone) ==
  LET keep == [k \in DOMAIN gone |-> Ascending(Positions(m, k) \ gone[k])]
      Without(s, k) == IF k \in DOMAIN gone THEN [j \in DOMAIN keep[k] |-> s[keep[k][j]]] ELSE s
  IN [m EXCEPT
       !.rows = [k \in DOMAIN @ |-> Without(@[k], k)],
       !.ref = [c \in DOMAIN @ |-> Without(@[c], Refs[c][1])],
       !.name = [c \in DOMAIN @ |-> Without(@[c], NameRefs[c][1])],
       !.data = [c \in DOMAIN @ |->
                   IF c \in NotErased THEN @[c] ELSE Without(@[c], DataCols[c][1])]]
EraseRows(m, k, P) == EraseAll(m, [t \in {k} |-> P])

\* Mutant: the name columns are not resized.
GrowRows_NamesForgotten(m, k, id) ==
  LET n == Count(m, k) + 1
      Grown(s, default) == [j \in 1 .. n |-> IF j <= Len(s) THEN s[j] ELSE default]
  IN [MapTable(m, k, Grown) EXCEPT !.name = m.name, !.rows[k][n] = id]

\* A new last row: every column is resized to the new count.
GrowRows(m, k, id) ==
  LET n == Count(m, k) + 1
      Grown(s, default) == [j \in 1 .. n |-> IF j <= Len(s) THEN s[j] ELSE default]
  IN [MapTable(m, k, Grown) EXCEPT !.rows[k][n] = id]

\* Mutant: the row is appended.
AddDefault_AtEnd(m, t, i, id) ==
  LET p == Count(m, t) + 1
      Insert(s, default) == InsertAt(s, p, default)
  IN [MapTable(m, t, Insert) EXCEPT !.rows[t][p] = id, !.ref[Join[t]][p] = i]

\* add_default: a default row inserted so that the join column stays ascending.
AddDefault(m, t, i, id) ==
  LET p == 1 + Cardinality({r \in DOMAIN m.ref[Join[t]] : m.ref[Join[t]][r] < i})
      Insert(s, default) == InsertAt(s, p, default)
  IN [MapTable(m, t, Insert) EXCEPT !.rows[t][p] = id, !.ref[Join[t]][p] = i]

-----------------------------------------------------------------------------
(* Side tables of nodes and links *)

rebuild_index(m, k) ==
  LET RowOf(i) == UNION {RowsAt(m, Join[t], i) : t \in SideTables(k)}
  IN [m EXCEPT !.subtype_row[k] =
        [i \in 1 .. Count(m, k) |-> IF RowOf(i) = {} THEN 0 ELSE CHOOSE r \in RowOf(i) : TRUE]]

\* set_node_type and set_link_type: the object's row in the side table of its
\* old type goes, one in that of its new type comes, and the index is rebuilt
\* if a row was moved.
Sized(m, k, i) ==
  IF i <= Len(m.subtype_row[k]) THEN m ELSE [m EXCEPT !.subtype_row[k] = Append(@, 0)]
WithoutSubtype(m, old, row) ==
  IF row = 0 THEN m ELSE EraseRows(m, SideTable[old], {row})
WithSubtype(m, k, i, type) ==
  IF type = "JUNCTION" THEN m ELSE AddDefault(m, SideTable[type], i, m.rows[k][i])
Settled(m, k, i, type, erased) ==
  LET table == SideTable[type]
      row == IF type = "JUNCTION" THEN 0
             ELSE CHOOSE r \in Positions(m, table) : m.ref[Join[table]][r] = i
  IN IF erased \/ (row # 0 /\ row # Count(m, table)) THEN rebuild_index(m, k)
     ELSE [m EXCEPT !.subtype_row[k][i] = row]
Typed(m, k, i, type) ==
  LET old == m.data[TypeColumn[k]][i]
      existing == m.subtype_row[k][i]
  IN IF old = type /\ existing # 0 THEN m
     ELSE Settled(WithSubtype([WithoutSubtype(m, old, existing)
                                 EXCEPT !.data[TypeColumn[k]][i] = type], k, i, type),
                  k, i, type, existing # 0)
set_type(m, k, i, type) == Typed(Sized(m, k, i), k, i, type)

\* erase_node and erase_link: drop the side-table row of i, shift the join
\* keys behind it.
erase_subtype(m, k, i) ==
  LET dropped == EraseAll(m, [t \in SideTables(k) |-> RowsAt(m, Join[t], i)])
  IN rebuild_index(Renumber(dropped, {Join[t] : t \in SideTables(k)}, i), k)

\* The object's own row: its columns, its name, its side-table row.
EraseObject(m, k, i) ==
  LET erased == EraseRows(m, k, {i})
  IN IF k \in DOMAIN TypeColumn THEN erase_subtype(erased, k, i) ELSE erased

\* storage_row, outfall_row, divider_row, conduit_row ...: the side-table row
\* of object i in table t, 0 when it has none there.
RowIn(m, k, t, i) ==
  LET r == m.subtype_row[k][i]
  IN IF r \in Positions(m, t) /\ m.ref[Join[t]][r] = i THEN r ELSE 0

-----------------------------------------------------------------------------
(* Flat row-major matrices: cell [(r - 1) * cols + c] *)

Fits(cells, nr, nc) == Len(cells) = nr * nc
\* Mutant: the new stride is used to find the cells of the old matrix.
erase_matrix_column_NewStride(cells, nr, nc, c) ==
  IF nc = 0 \/ ~Fits(cells, nr, nc) THEN cells
  ELSE [j \in 1 .. nr * (nc - 1) |->
          LET r == (j - 1) \div (nc - 1)
              col == ((j - 1) % (nc - 1)) + 1
          IN cells[r * (nc - 1) + (IF col < c THEN col ELSE col + 1)]]

\* No-op unless the matrix has exactly nr * nc cells.
erase_matrix_column(cells, nr, nc, c) ==
  IF nc = 0 \/ ~Fits(cells, nr, nc) THEN cells
  ELSE [j \in 1 .. nr * (nc - 1) |->
          LET r == (j - 1) \div (nc - 1)
              col == ((j - 1) % (nc - 1)) + 1
          IN cells[r * nc + (IF col < c THEN col ELSE col + 1)]]
\* The n cells behind the first ones go.
EraseCells(cells, first, n) ==
  [j \in 1 .. Len(cells) - n |-> IF j <= first THEN cells[j] ELSE cells[j + n]]
erase_matrix_row(cells, nr, nc, r) ==
  IF ~Fits(cells, nr, nc) THEN cells ELSE EraseCells(cells, (r - 1) * nc, nc)
\* SubcatchData::erase_at: the stride of row r, if the matrix reaches that far
erase_stride(cells, nc, r) ==
  IF nc = 0 \/ r * nc > Len(cells) THEN cells ELSE EraseCells(cells, (r - 1) * nc, nc)

ZeroCell == <<>>   \* 0.0 or the empty expression
\* A zero column behind the old ones, if the matrix has the old size.
InsertColumn(cells, nr, nc) ==
  IF nr = 0 \/ ~Fits(cells, nr, nc) THEN cells
  ELSE [j \in 1 .. nr * (nc + 1) |->
          LET r == ((j - 1) \div (nc + 1)) + 1
              c == ((j - 1) % (nc + 1)) + 1
          IN IF c > nc THEN ZeroCell ELSE cells[(r - 1) * nc + c]]
Zeros(n) == [j \in 1 .. n |-> ZeroCell]
=============================================================================
