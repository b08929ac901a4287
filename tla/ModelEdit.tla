----------------------------- MODULE ModelEdit -----------------------------
(***************************************************************************)
(* Editing a model through the C API (swmm_*_delete, _add, _pop_last,      *)
(* _convert, swmm_conduit_split, swmm_virtual_junction_fuse ...).  Every   *)
(* mutator requires the engine to be BUILDING or OPENED, the only states   *)
(* in which the edits of this module happen, and a call it refuses changes *)
(* nothing, so a refusal is not an action.                                 *)
(*                                                                         *)
(* Deleting an object erases its row from every column, so each reference  *)
(* to an object behind it has to move, in every table of the model, and    *)
(* the references to the object itself are cleared or cascade.  What that  *)
(* must amount to is ModelGraph: a graph of named objects, where a         *)
(* deletion takes the object, its cascade and the references to them, and  *)
(* nothing else.                                                           *)
(***************************************************************************)
EXTENDS ModelTables

CONSTANTS
  Models,       \* the models an editing session may start from
  NewNames,     \* names the caller gives to the objects it adds
  MaxEdits,     \* bound on the number of successful edits
  Followed      \* reference columns compared with the graph

ASSUME NewNamesAssumption == NoName \notin NewNames
ASSUME MaxEditsAssumption == MaxEdits \in Nat
ASSUME FollowedAssumption == Followed \subseteq (DOMAIN Refs \cup DOMAIN NameRefs)

VARIABLES model, edits
vars == <<model, edits>>

-----------------------------------------------------------------------------
(* What a model that was read in satisfies, and every edit has to keep *)

IsColumn(s, n) == n \in Nat /\ s = [i \in 1 .. n |-> s[i]]

\* Every column of a table has one entry per row, or more if it is one of NotErased.
Columns(m) ==
  /\ DOMAIN m = {"rows", "ref", "name", "data", "subtype_row", "mat"}
  /\ DOMAIN m.rows = Kinds
  /\ \A k \in Kinds : IsColumn(m.rows[k], Count(m, k))
  /\ DOMAIN m.ref = DOMAIN Refs
  /\ \A c \in DOMAIN Refs : IsColumn(m.ref[c], Count(m, Refs[c][1]))
  /\ DOMAIN m.name = DOMAIN NameRefs
  /\ \A c \in DOMAIN NameRefs : IsColumn(m.name[c], Count(m, NameRefs[c][1]))
  /\ DOMAIN m.data = DOMAIN DataCols
  /\ \A c \in DOMAIN DataCols :
       LET n == Len(m.data[c])
       IN /\ IsColumn(m.data[c], n)
          /\ IF c \in NotErased THEN n >= Count(m, DataCols[c][1]) ELSE n = Count(m, DataCols[c][1])
  /\ DOMAIN m.subtype_row = DOMAIN TypeColumn

\* The rows of the side tables of k belong one to one to the objects of k whose
\* type has a side table, in the order of the objects.
TypeAt(m, k, i) == m.data[TypeColumn[k]][i]
Key(m, t, r) == m.ref[Join[t]][r]
Owned(m, k, t, i) == TypeAt(m, k, i) # "JUNCTION" /\ SideTable[TypeAt(m, k, i)] = t
Keyed(m, k) ==
  /\ \A i \in Positions(m, k) : TypeAt(m, k, i) \in TypesOf[k]
  /\ \A t \in SideTables(k) : \A r \in Positions(m, t) :
       /\ Key(m, t, r) \in Positions(m, k) /\ Owned(m, k, t, Key(m, t, r))
       /\ m.rows[t][r] = m.rows[k][Key(m, t, r)]
  /\ \A t \in SideTables(k) : \A r1, r2 \in Positions(m, t) :
       r1 < r2 => Key(m, t, r1) < Key(m, t, r2)
  /\ \A t \in SideTables(k), i \in Positions(m, k) :
       Owned(m, k, t, i) => \E r \in Positions(m, t) : Key(m, t, r) = i
\* subtype_row leads to the row.
Indexed(m, k) ==
  /\ IsColumn(m.subtype_row[k], Count(m, k))
  /\ \A i \in Positions(m, k) :
       IF TypeAt(m, k, i) = "JUNCTION" THEN m.subtype_row[k][i] = 0
       ELSE LET t == SideTable[TypeAt(m, k, i)]
            IN m.subtype_row[k][i] \in Positions(m, t) /\ Key(m, t, m.subtype_row[k][i]) = i

\* References by index stay within the table they point into (Keyed says so of
\* the join columns; some deletion does not look after the other Unkept ones).
Unkept == {Join[t] : t \in DOMAIN Join} \cup {"route_to", "co_gage", "xsect_curve"}
InRange(m) ==
  \A c \in DOMAIN Refs \ Unkept : \A r \in Positions(m, Refs[c][1]) :
    m.ref[c][r] \in 0 .. Count(m, Refs[c][2])

\* A matrix has a row for each of the first objects and a column for each
\* pollutant, and what was entered stands where it was entered.
At(M, r, c) == M.cells[(r - 1) * M.cols + c]
Filed(M, objects, pollutants) ==
  /\ DOMAIN M = {"rows", "cols", "cells"} /\ M.rows \in Nat /\ M.cols \in Nat
  /\ IsColumn(M.cells, M.rows * M.cols)
  /\ M.rows # 0 /\ M.cols # 0 => M.cols = Len(pollutants)
  /\ \A r \in 1 .. M.rows, c \in 1 .. M.cols : At(M, r, c) # ZeroCell =>
       r <= Len(objects) /\ At(M, r, c) = <<objects[r], pollutants[c]>>
\* No treatment is entered for the nodes an editing session adds.
Original(M) ==
  \A r \in 1 .. M.rows, c \in 1 .. M.cols :
    At(M, r, c) # ZeroCell => At(M, r, c)[1] \notin NewNames
Matrices(m) ==
  /\ DOMAIN m.mat = {"buildup", "treatment", "coverage", "conc"}
  /\ Filed(m.mat.buildup, m.rows.landuses, m.rows.pollutants)
  /\ Filed(m.mat.treatment, m.rows.nodes, m.rows.pollutants) /\ Original(m.mat.treatment)

WellFormed(m) ==
  /\ Columns(m)
  /\ \A k \in DOMAIN TypeColumn : Keyed(m, k) /\ Indexed(m, k)
  /\ InRange(m)
  /\ Matrices(m)

ASSUME ModelsAssumption == \A m \in Models : WellFormed(m)

-----------------------------------------------------------------------------
(* ObjectDeleter: one operator per delete_* function *)

\* Cascade: erase the rows of table t whose column c holds index i (name n).
CascadeRows(m, t, c, i) == EraseRows(m, t, RowsAt(m, c, i))
CascadeNamed(m, t, c, n) == EraseRows(m, t, RowsNamed(m, c, n))

delete_link(m, l) ==
  LET freed == Nullify(m, {"divider_link"}, l)
      alone == CascadeRows(freed, "inlet_usages", "inlet_link", l)
      gone == Nullify(EraseObject(alone, "links", l), {"outfall_link"}, l)
  IN Renumber(gone, {"divider_link", "inlet_link", "outfall_link"}, l)

\* treatment_stripe_valid, then the node's stripe of the treatment matrix
EraseTreatment(m, n) ==
  LET T == m.mat.treatment
  IN IF T.cols > 0 /\ n <= T.rows /\ Fits(T.cells, T.rows, T.cols)
     THEN [m EXCEPT !.mat.treatment.cells = erase_matrix_row(@, T.rows, T.cols, n),
                    !.mat.treatment.rows = @ - 1]
     ELSE m

\* The links T, the one of the highest index first
delete_links(m, T) ==
  LET n == Count(m, "links")
      after[j \in 0 .. n] ==
        IF j = 0 THEN m
        ELSE IF n + 1 - j \in T THEN delete_link(after[j - 1], n + 1 - j) ELSE after[j - 1]
  IN after[n]

delete_node(m, n) ==
  LET touching == {l \in Positions(m, "links") : m.ref.node1[l] = n \/ m.ref.node2[l] = n}
      unlinked == delete_links(m, touching)
      \* route_to is compared with the node's index, although it holds the
      \* index of a subcatchment
      freed == Nullify(unlinked, {"outlet_node", "gw_node", "route_to", "inlet_node"}, n)
      dry == CascadeRows(CascadeRows(CascadeRows(freed,
               "ext_inflows", "ext_node", n), "dwf_inflows", "dwf_node", n),
               "rdii_assigns", "rdii_node", n)
      gone == EraseObject(EraseTreatment(dry, n), "nodes", n)
  IN Renumber(gone, {"node1", "node2", "outlet_node", "route_to", "inlet_node", "gw_node",
                     "ext_node", "dwf_node", "rdii_node"}, n)

delete_subcatch(m, s) ==
  LET id == m.rows.subcatches[s]
      freed == Nullify(m, {"outlet_subcatch", "route_to"}, s)
      alone == ClearName(CascadeRows(freed, "lid_usage", "lid_subcatch", s),
                         {"drain_to", "removal_subcatch"}, id)
      gone == [EraseObject(alone, "subcatches", s) EXCEPT
                 !.mat.coverage.cells = erase_stride(@, m.mat.coverage.cols, s),
                 !.mat.conc.cells = erase_stride(@, m.mat.conc.cols, s)]
  IN Renumber(gone, {"outlet_subcatch", "route_to", "lid_subcatch"}, s)

delete_gage(m, g) ==
  LET freed == ClearName(Nullify(m, {"gage"}, g), {"uh_gage"}, m.rows.gages[g])
  IN Renumber(EraseObject(freed, "gages", g), {"gage"}, g)

\* xsect_curve is compared with the table's index, although it holds the
\* index of a transect
delete_table(m, t) ==
  LET cols == {"ts_index", "storage_curve", "divider_curve", "outfall_param", "pump_curve",
               "outlet_curve", "xsect_curve", "infil_pattern"}
      gages == RowsAt(m, "ts_index", t)
      unnamed == [m EXCEPT !.name.ts_name = [g \in DOMAIN @ |-> IF g \in gages THEN NoName ELSE @[g]]]
      freed == ClearName(Nullify(unnamed, cols, t), {"ext_ts"}, m.rows.tables[t])
  IN Renumber(EraseObject(freed, "tables", t), cols, t)

delete_transect(m, t) ==
  LET shaped == {l \in Positions(m, "links") : m.data.xsect_shape[l] \in {"IRREGULAR", "CUSTOM"}}
      cut == {l \in shaped : m.ref.xsect_curve[l] = t}
      reset == [m EXCEPT
                  !.ref.xsect_curve = [l \in DOMAIN @ |-> IF l \in cut THEN 0 ELSE @[l]],
                  !.data.xsect_shape = [l \in DOMAIN @ |-> IF l \in cut THEN "CIRCULAR" ELSE @[l]]]
  IN [EraseObject(reset, "transects", t) EXCEPT
        !.ref.xsect_curve = [l \in DOMAIN @ |->
           IF l \in shaped \ cut /\ @[l] > t THEN @[l] - 1 ELSE @[l]]]

\* One column of each matrix that is sized for the current pollutants.
EraseQualityColumn(m, p) ==
  LET np == Count(m, "pollutants")
      Packed(M, nr) == IF M.cols # np THEN M
                       ELSE [M EXCEPT !.cells = erase_matrix_column(@, nr, np, p), !.cols = np - 1]
  IN [m EXCEPT !.mat.buildup = Packed(@, @.rows), !.mat.treatment = Packed(@, @.rows),
               !.mat.conc = Packed(@, Count(m, "subcatches"))]

delete_pollutant(m, p) ==
  LET id == m.rows.pollutants[p]
      dry == CascadeNamed(CascadeNamed(m, "ext_inflows", "ext_constituent", id),
                          "dwf_inflows", "dwf_constituent", id)
      freed == Nullify(EraseQualityColumn(dry, p), {"co_pollut", "removals"}, p)
  IN Renumber(EraseObject(freed, "pollutants", p), {"co_pollut", "removals"}, p)

\* Patterns are only referred to by name.
delete_pattern(m, p) ==
  EraseObject(ClearName(m, {"ext_pattern", "dwf_pattern", "evap_pattern"}, m.rows.patterns[p]),
              "patterns", p)

delete_aquifer(m, a) ==
  Renumber(EraseObject(Nullify(m, {"gw_aquifer"}, a), "aquifers", a), {"gw_aquifer"}, a)
delete_snowpack(m, s) ==
  Renumber(EraseObject(Nullify(m, {"snowpack"}, s), "snowpacks", s), {"snowpack"}, s)
\* Mutant: lid_usage is not renumbered.
delete_lid_NotRenumbered(m, i) ==
  EraseObject(CascadeRows(m, "lid_usage", "lid_index", i), "lid_controls", i)
delete_lid(m, i) ==
  Renumber(EraseObject(CascadeRows(m, "lid_usage", "lid_index", i), "lid_controls", i),
           {"lid_index"}, i)
delete_inlet(m, i) ==
  Renumber(EraseObject(CascadeRows(m, "inlet_usages", "inlet_design", i), "inlets", i),
           {"inlet_design"}, i)

delete_street(m, s) ==
  LET paved == {l \in Positions(m, "links") : m.data.xsect_shape[l] = "STREET_XSECT"
                                               /\ m.name.xsect_name[l] = m.rows.streets[s]}
      reset == [CascadeRows(m, "inlet_usages", "inlet_street", s) EXCEPT
                  !.name.xsect_name = [l \in DOMAIN @ |-> IF l \in paved THEN NoName ELSE @[l]],
                  !.data.xsect_shape = [l \in DOMAIN @ |-> IF l \in paved THEN "CIRCULAR" ELSE @[l]],
                  !.ref.xsect_curve = [l \in DOMAIN @ |-> IF l \in paved THEN 0 ELSE @[l]]]
  IN Renumber(EraseObject(reset, "streets", s), {"inlet_street"}, s)

delete_landuse(m, u) ==
  LET B == m.mat.buildup
      C == m.mat.coverage
      packed == [m EXCEPT
        !.mat.buildup = IF B.rows >= u /\ B.cols = Count(m, "pollutants")
          THEN [B EXCEPT !.cells = erase_matrix_row(@, B.rows, B.cols, u), !.rows = @ - 1] ELSE B,
        !.mat.coverage = IF C.cols >= u
          THEN [C EXCEPT !.cells = erase_matrix_column(@, Count(m, "subcatches"), C.cols, u),
                         !.cols = @ - 1] ELSE C]
  IN EraseObject(packed, "landuses", u)

delete_hydrograph(m, h) ==
  EraseObject(CascadeNamed(m, "rdii_assigns", "uh_name", m.rows.unit_hyds[h]), "unit_hyds", h)

-----------------------------------------------------------------------------
(* The impact report a caller may ask for before a deletion, one operator   *)
(* per analyze_* function: the slots <<column, object>> it lists.  The      *)
(* control rules it quotes are text and left out.                           *)

\* A column of a side table belongs to the node or link that the row joins.
Owner(k) == IF k \in DOMAIN Join THEN Refs[Join[k]][2] ELSE k
Holder(m, t, r) == <<Owner(t), m.rows[t][r]>>
IndexHits(m, C, i) ==
  UNION {{<<c, Holder(m, Refs[c][1], r)>> : r \in RowsAt(m, c, i)} : c \in C}
NameHits(m, C, n) ==
  UNION {{<<c, Holder(m, NameRefs[c][1], r)>> : r \in RowsNamed(m, c, n)} : c \in C}

analyze_node_impact(m, n) ==
  IndexHits(m, {"node1", "node2", "outlet_node", "gw_node", "route_to", "inlet_node",
                "ext_node", "dwf_node", "rdii_node"}, n)
\* Mutant: the inlets of the link are not looked at.
analyze_link_impact_WithoutInlets(m, l) == IndexHits(m, {"divider_link"}, l)
analyze_link_impact(m, l) == IndexHits(m, {"divider_link", "inlet_link"}, l)
analyze_subcatch_impact(m, s) ==
  IndexHits(m, {"outlet_subcatch", "route_to", "lid_subcatch"}, s)
    \cup NameHits(m, {"drain_to", "removal_subcatch"}, m.rows.subcatches[s])
analyze_gage_impact(m, g) ==
  IndexHits(m, {"gage"}, g) \cup NameHits(m, {"uh_gage"}, m.rows.gages[g])
analyze_table_impact(m, t) ==
  IndexHits(m, {"ts_index", "storage_curve", "divider_curve", "outfall_param", "pump_curve",
                "outlet_curve", "xsect_curve", "infil_pattern"}, t)
    \cup NameHits(m, {"ext_ts"}, m.rows.tables[t])
analyze_transect_impact(m, t) ==
  {x \in IndexHits(m, {"xsect_curve"}, t) : \E l \in Positions(m, "links") :
     x[2] = Holder(m, "links", l) /\ m.data.xsect_shape[l] \in {"IRREGULAR", "CUSTOM"}}
\* The cells of the matrices that scan_pollutant_refs and scan_landuse_refs
\* list as well are left out.
analyze_pollutant_impact(m, p) ==
  IndexHits(m, {"co_pollut", "removals"}, p)
    \cup NameHits(m, {"ext_constituent", "dwf_constituent"}, m.rows.pollutants[p])
analyze_pattern_impact(m, p) ==
  NameHits(m, {"ext_pattern", "dwf_pattern", "evap_pattern"}, m.rows.patterns[p])
analyze_aquifer_impact(m, a) == IndexHits(m, {"gw_aquifer"}, a)
analyze_snowpack_impact(m, s) == IndexHits(m, {"snowpack"}, s)
analyze_lid_impact(m, i) == IndexHits(m, {"lid_index"}, i)
analyze_street_impact(m, s) ==
  IndexHits(m, {"inlet_street"}, s)
    \cup {x \in NameHits(m, {"xsect_name"}, m.rows.streets[s]) : \E l \in Positions(m, "links") :
            x[2] = Holder(m, "links", l) /\ m.data.xsect_shape[l] = "STREET_XSECT"}
analyze_inlet_impact(m, i) == IndexHits(m, {"inlet_design"}, i)
analyze_hydrograph_impact(m, h) == NameHits(m, {"uh_name"}, m.rows.unit_hyds[h])

Impact(m, k, i) ==
  CASE k = "nodes" -> analyze_node_impact(m, i)
    [] k = "links" -> analyze_link_impact(m, i)
    [] k = "subcatches" -> analyze_subcatch_impact(m, i)
    [] k = "gages" -> analyze_gage_impact(m, i)
    [] k = "tables" -> analyze_table_impact(m, i)
    [] k = "transects" -> analyze_transect_impact(m, i)
    [] k = "pollutants" -> analyze_pollutant_impact(m, i)
    [] k = "patterns" -> analyze_pattern_impact(m, i)
    [] k = "aquifers" -> analyze_aquifer_impact(m, i)
    [] k = "snowpacks" -> analyze_snowpack_impact(m, i)
    [] k = "lid_controls" -> analyze_lid_impact(m, i)
    [] k = "streets" -> analyze_street_impact(m, i)
    [] k = "inlets" -> analyze_inlet_impact(m, i)
    [] k = "unit_hyds" -> analyze_hydrograph_impact(m, i)
    [] OTHER -> {}

-----------------------------------------------------------------------------
(* TypeConverter *)

\* The virtual flag is cleared; set_type moves the side-table row.
convert_node(m, n, type) ==
  set_type([m EXCEPT !.data.is_virtual[n] = FALSE], "nodes", n, type)

convert_link(m, l, type) ==
  LET old == m.data.link_type[l]
      cleared == CASE old = "CONDUIT" -> [m EXCEPT !.data.xsect_shape[l] = "CIRCULAR",
                                                   !.ref.xsect_curve[l] = 0]
                   [] old = "PUMP" -> [m EXCEPT !.name.xsect_name[l] = NoName]
                   [] OTHER -> m
      moved == set_type(cleared, "links", l, type)
  IN IF type = "CONDUIT" THEN [moved EXCEPT !.data.xsect_shape[l] = "CIRCULAR"] ELSE moved

-----------------------------------------------------------------------------
(* VirtualJunctionOps *)

\* find_attached: every end of a link at node n
Ends(m, n) == {e \in Positions(m, "links") \X {"node1", "node2"} : m.ref[e[2]][e[1]] = n}
Attached(m, n) == {e[1] : e \in Ends(m, n)}

\* A conduit's cross-section as vj_rule_violation compares it
Section(m, l) == <<m.data.xsect_shape[l], m.data.xsect_geom[l], m.ref.xsect_curve[l]>>

TwoConduits(m, n) ==
  /\ Cardinality(Ends(m, n)) = 2
  /\ \A l \in Attached(m, n) : m.data.link_type[l] = "CONDUIT"

HasLateralInflow(m, n) ==
  \/ \E c \in {"ext_node", "dwf_node", "rdii_node", "outlet_node"} : RowsAt(m, c, n) # {}
  \/ RowsNamed(m, "drain_to", m.rows.nodes[n]) # {}

\* No rule of vj_rule_violation is violated. Of its rules the model has the two
\* conduits, the cross-section and the lateral inflows in the tables; left out
\* are the number of barrels, the offsets at the node and nodes coupled to the 2D
\* mesh, of which no column is modelled: it flags nodes that the code refuses.
MayBeVirtual(m, n) ==
  /\ TwoConduits(m, n)
  /\ \A l1, l2 \in Attached(m, n) : Section(m, l1) = Section(m, l2)
  /\ ~HasLateralInflow(m, n)

\* Conduit l now ends at node n, where link j begins with l's section.
Halved(m, l, n, j) ==
  [m EXCEPT !.data.xsect_shape[j] = m.data.xsect_shape[l],
            !.data.xsect_geom[j] = m.data.xsect_geom[l],
            !.ref.xsect_curve[j] = m.ref.xsect_curve[l],
            !.ref.node1[j] = n, !.ref.node2[j] = m.ref.node2[l], !.ref.node2[l] = n]
Flagged(m, n, virtual) ==
  IF virtual /\ MayBeVirtual(m, n) THEN [m EXCEPT !.data.is_virtual[n] = TRUE] ELSE m
vj_split_conduit(m, l, id, lid, virtual) ==
  LET n == Count(m, "nodes") + 1
      j == Count(m, "links") + 1
      withNode == set_type(GrowRows(m, "nodes", id), "nodes", n, "JUNCTION")
      withLink == set_type(GrowRows(withNode, "links", lid), "links", j, "CONDUIT")
  IN Flagged(Halved(withLink, l, n, j), n, virtual)

\* The conduits that flow into and out of node n
Into(m, n) == {l \in Positions(m, "links") : m.ref.node2[l] = n}
OutOf(m, n) == {l \in Positions(m, "links") : m.ref.node1[l] = n}
MayFuse(m, n) ==
  /\ m.data.is_virtual[n]
  /\ TwoConduits(m, n)
  /\ Into(m, n) # {} /\ OutOf(m, n) # {}

\* Mutant: the upstream conduit is not rewired before the node goes.
vj_fuse_NotRewired(m, n) ==
  LET dn == CHOOSE l \in OutOf(m, n) : TRUE
  IN delete_node(delete_link(m, dn), n)

vj_fuse(m, n) ==
  LET up == CHOOSE l \in Into(m, n) : TRUE
      dn == CHOOSE l \in OutOf(m, n) : TRUE
      rewired == [m EXCEPT !.ref.node2[up] = m.ref.node2[dn]]
  IN delete_node(delete_link(rewired, dn), n)

-----------------------------------------------------------------------------
(* Additions *)

Resized(cells, n) == [j \in 1 .. n |-> IF j <= Len(cells) THEN cells[j] ELSE ZeroCell]

\* swmm_landuse_add: the matrices grow, the coverage is re-packed if it has
\* the size of the old counts and cleared if not.
landuse_add(m, id) ==
  LET n == Count(m, "landuses") + 1
      np == Count(m, "pollutants")
      ns == Count(m, "subcatches")
      C == m.mat.coverage
      repacked == IF C.cols = n - 1 /\ Fits(C.cells, ns, C.cols)
                  THEN InsertColumn(C.cells, ns, C.cols) ELSE Zeros(ns * n)
      grown == GrowRows(m, "landuses", id)
  IN [grown EXCEPT
        !.mat.buildup = IF np > 0 THEN [rows |-> n, cols |-> np, cells |-> Resized(@.cells, n * np)]
                        ELSE @,
        !.mat.coverage = IF ns > 0 THEN [@ EXCEPT !.cells = repacked, !.cols = n] ELSE @]

\* A column for the new pollutant, in a matrix that has np columns and rows
Widened(M, np, nr) ==
  IF M.cols # np \/ nr = 0 THEN M
  ELSE [M EXCEPT !.cells = InsertColumn(@, nr, np), !.cols = np + 1]
pollutant_add(m, id) ==
  LET np == Count(m, "pollutants")
  IN [GrowRows(m, "pollutants", id) EXCEPT
        !.mat.buildup = Widened(@, np, @.rows), !.mat.treatment = Widened(@, np, @.rows),
        !.mat.conc = Widened(@, np, Count(m, "subcatches"))]

\* swmm_subcatch_set_coverage; a matrix of another size is cleared first
set_coverage(m, s, u) ==
  LET ns == Count(m, "subcatches")
      nu == Count(m, "landuses")
      C == m.mat.coverage
      sized == IF C.cols = nu /\ Fits(C.cells, ns, nu) THEN C
               ELSE [C EXCEPT !.cols = nu, !.cells = Zeros(ns * nu)]
  IN [m EXCEPT !.mat.coverage =
        [sized EXCEPT !.cells[(s - 1) * nu + u] = <<m.rows.subcatches[s], m.rows.landuses[u]>>]]

-----------------------------------------------------------------------------
(* Actions: one per function of the C API *)

Edit(m) == edits < MaxEdits /\ edits' = edits + 1 /\ model' = m
Free(k) == {id \in NewNames : id \notin Range(model.rows[k])}

NodeDelete == \E n \in Positions(model, "nodes") : Edit(delete_node(model, n))
LinkDelete == \E l \in Positions(model, "links") : Edit(delete_link(model, l))
SubcatchDelete == \E s \in Positions(model, "subcatches") : Edit(delete_subcatch(model, s))
GageDelete == \E g \in Positions(model, "gages") : Edit(delete_gage(model, g))
TableDelete == \E t \in Positions(model, "tables") : Edit(delete_table(model, t))
TransectDelete == \E t \in Positions(model, "transects") : Edit(delete_transect(model, t))
PollutantDelete == \E p \in Positions(model, "pollutants") : Edit(delete_pollutant(model, p))
PatternDelete == \E p \in Positions(model, "patterns") : Edit(delete_pattern(model, p))
AquiferDelete == \E a \in Positions(model, "aquifers") : Edit(delete_aquifer(model, a))
SnowpackDelete == \E s \in Positions(model, "snowpacks") : Edit(delete_snowpack(model, s))
LidDelete == \E i \in Positions(model, "lid_controls") : Edit(delete_lid(model, i))
StreetDelete == \E s \in Positions(model, "streets") : Edit(delete_street(model, s))
InletDelete == \E i \in Positions(model, "inlets") : Edit(delete_inlet(model, i))
LanduseDelete == \E u \in Positions(model, "landuses") : Edit(delete_landuse(model, u))
HydrographDelete == \E h \in Positions(model, "unit_hyds") : Edit(delete_hydrograph(model, h))

NodeAdd == \E id \in Free("nodes"), type \in NodeTypes :
  Edit(set_type(GrowRows(model, "nodes", id), "nodes", Count(model, "nodes") + 1, type))
LinkAdd == \E id \in Free("links"), type \in LinkTypes :
  Edit(set_type(GrowRows(model, "links", id), "links", Count(model, "links") + 1, type))
SubcatchAdd == \E id \in Free("subcatches") : Edit(GrowRows(model, "subcatches", id))
LanduseAdd == \E id \in Free("landuses") : Edit(landuse_add(model, id))
PollutantAdd == \E id \in Free("pollutants") : Edit(pollutant_add(model, id))

\* Undo of an add: the last row goes.  The code looks for link ends at the
\* node and for nothing else (no reference in another table, no treatment
\* stripe); that the object is one the caller added, and that nothing refers
\* to it any more, is left to the caller, who undoes its edits in reverse.
Unreferenced(k, i) ==
  \A c \in DOMAIN Refs : Refs[c][2] = k /\ c \notin Range(Join) => RowsAt(model, c, i) = {}
PopLast(k) ==
  /\ Count(model, k) > 0 /\ model.rows[k][Count(model, k)] \in NewNames
  /\ Unreferenced(k, Count(model, k))
  /\ Edit(EraseObject(model, k, Count(model, k)))
NodePopLast == PopLast("nodes")
LinkPopLast == PopLast("links")

\* The setters check only the index of the object itself and store any other
\* number. The client is taken to give the index of a node there is, or none.
AnyNode == 0 .. Count(model, "nodes")
LinkSetNodes == \E l \in Positions(model, "links"), a, b \in AnyNode :
  Edit([model EXCEPT !.ref.node1[l] = a, !.ref.node2[l] = b])
SubcatchSetOutlet == \E s \in Positions(model, "subcatches"), n \in AnyNode :
  Edit([model EXCEPT !.ref.outlet_node[s] = n])
SetCoverage == \E s \in Positions(model, "subcatches"), u \in Positions(model, "landuses") :
  Edit(set_coverage(model, s, u))

NodeConvert == \E n \in Positions(model, "nodes"), type \in NodeTypes :
  model.data.node_type[n] # type /\ Edit(convert_node(model, n, type))
LinkConvert == \E l \in Positions(model, "links"), type \in LinkTypes :
  model.data.link_type[l] # type /\ Edit(convert_link(model, l, type))

SetVirtual == \E n \in Positions(model, "nodes"), on \in BOOLEAN :
  /\ on => model.data.node_type[n] = "JUNCTION" /\ MayBeVirtual(model, n)
  /\ Edit([model EXCEPT !.data.is_virtual[n] = on])

MaySplit(m, l) == m.data.link_type[l] = "CONDUIT" /\ m.ref.node1[l] # 0 /\ m.ref.node2[l] # 0
ConduitSplit == \E l \in Positions(model, "links"), id \in Free("nodes"), lid \in Free("links"),
                   virtual \in BOOLEAN :
  MaySplit(model, l) /\ Edit(vj_split_conduit(model, l, id, lid, virtual))
VirtualJunctionFuse == \E n \in Positions(model, "nodes") :
  MayFuse(model, n) /\ Edit(vj_fuse(model, n))

Init == model \in Models /\ edits = 0

Delete ==
  \/ NodeDelete \/ LinkDelete \/ SubcatchDelete \/ GageDelete \/ TableDelete
  \/ TransectDelete \/ PollutantDelete \/ PatternDelete \/ AquiferDelete \/ SnowpackDelete
  \/ LidDelete \/ StreetDelete \/ InletDelete \/ LanduseDelete \/ HydrographDelete
Add == NodeAdd \/ LinkAdd \/ SubcatchAdd \/ LanduseAdd \/ PollutantAdd
Change ==
  \/ NodePopLast \/ LinkPopLast \/ LinkSetNodes \/ SubcatchSetOutlet \/ SetCoverage
  \/ NodeConvert \/ LinkConvert \/ SetVirtual \/ ConduitSplit \/ VirtualJunctionFuse
Next == Delete \/ Add \/ Change

Spec == Init /\ [][Next]_vars

-----------------------------------------------------------------------------
(* The graph a model stands for *)

CascadeColumns == {"node1", "node2", "ext_node", "dwf_node", "rdii_node", "inlet_link",
                   "inlet_design", "inlet_street", "lid_subcatch", "lid_index",
                   "ext_constituent", "dwf_constituent", "uh_name"}

GraphColumn == [c \in Followed |->
  IF c \in DOMAIN Refs THEN <<Owner(Refs[c][1]), Refs[c][2]>> ELSE NameRefs[c]]

Nothing == <<>>
Dangling == <<"dangling">>
\* The object at index r of kind k; an index behind the end points nowhere.
ObjectAt(m, k, r) == IF r = 0 THEN Nothing
                     ELSE IF r \in Positions(m, k) THEN <<k, m.rows[k][r]>> ELSE Dangling
IndexPoint(m, c, i) ==
  LET table == Refs[c][1]
      row == IF table \in DOMAIN Join THEN RowIn(m, Owner(table), table, i) ELSE i
  IN IF row = 0 THEN Nothing ELSE ObjectAt(m, Refs[c][2], m.ref[c][row])
\* An inflow of FLOW names no pollutant.
NamePoint(m, c, i) ==
  IF m.name[c][i] \in {NoName, "FLOW"} THEN Nothing ELSE <<NameRefs[c][2], m.name[c][i]>>

Objects(m) == UNION {{k} \X Range(m.rows[k]) : k \in Kinds \ DOMAIN Join}
IndexOf(m, o) == CHOOSE i \in Positions(m, o[1]) : m.rows[o[1]][i] = o[2]
PointsOf(m) ==
  [x \in {y \in Followed \X Objects(m) : GraphColumn[y[1]][1] = y[2][1]} |->
     LET i == IndexOf(m, x[2])
     IN IF x[1] \in DOMAIN Refs THEN IndexPoint(m, x[1], i) ELSE NamePoint(m, x[1], i)]

Graph == INSTANCE ModelGraph WITH
  Column <- GraphColumn, Cascade <- CascadeColumns, None <- Nothing,
  objects <- Objects(model), points <- PointsOf(model)

\* Every edit does to the tables what it does to the graph of named objects:
\* after any number of deletions, additions, conversions, splits and fusions
\* each followed reference points to the object it pointed to, unless that
\* object went (ObjectDeleter renumbers and clears by hand, table by table).
ImplementsModelGraph == Graph!Spec

-----------------------------------------------------------------------------
(* Properties *)

\* Every erased column has one entry per row; the others have at least that.
EditTypeOK ==
  /\ \A c \in DOMAIN Refs : Len(model.ref[c]) = Count(model, Refs[c][1])
  /\ \A c \in DOMAIN NameRefs : Len(model.name[c]) = Count(model, NameRefs[c][1])
  /\ \A c \in DOMAIN DataCols :
       IF c \in NotErased THEN Len(model.data[c]) >= Count(model, DataCols[c][1])
       ELSE Len(model.data[c]) = Count(model, DataCols[c][1])
  /\ \A k \in DOMAIN TypeColumn : Len(model.subtype_row[k]) = Count(model, k)

\* A node or link has a row in the side table of its type, made for it, and in
\* no other; the join keys ascend and subtype_row leads to the row.  The row is
\* moved by hand on every insertion, deletion and conversion (set_node_type,
\* erase_node, set_link_type, erase_link).
SubtypesMatch ==
  \A k \in DOMAIN TypeColumn :
    /\ \A i \in Positions(model, k), t \in SideTables(k) :
         LET mine == model.data[TypeColumn[k]][i] # "JUNCTION"
                       /\ SideTable[model.data[TypeColumn[k]][i]] = t
         IN /\ Cardinality(RowsAt(model, Join[t], i)) = IF mine THEN 1 ELSE 0
            /\ mine => LET r == RowIn(model, k, t, i)
                       IN r # 0 /\ model.rows[t][r] = model.rows[k][i]
    /\ \A t \in SideTables(k) : \A r \in 2 .. Count(model, t) :
         model.ref[Join[t]][r - 1] < model.ref[Join[t]][r]

\* Splitting any conduit at a virtual junction and fusing it again gives back
\* the same model, whatever edits came before (VirtualJunctionOps.hpp: fuse is
\* the inverse of a virtual split).
SameModel(m, q) == (\A k \in Kinds : m.rows[k] = q.rows[k]) /\ PointsOf(m) = PointsOf(q)
FusesTo(split, n, m) ==
  ~HasLateralInflow(split, n) => MayFuse(split, n) /\ SameModel(vj_fuse(split, n), m)
FuseUndoesSplit ==
  \A l \in Positions(model, "links"), id \in Free("nodes"), lid \in Free("links") :
    MaySplit(model, l) =>
      FusesTo(vj_split_conduit(model, l, id, lid, TRUE), Count(model, "nodes") + 1, model)

\* Every entered cell of the buildup (and washoff) and treatment matrices
\* stands in the row and the column of the objects it was entered for, after
\* columns and rows have been inserted and erased and the strides changed.
MatricesAligned ==
  LET Aligned(M, k) == \A r \in 1 .. M.rows, c \in 1 .. M.cols :
        At(M, r, c) # ZeroCell => At(M, r, c) = <<model.rows[k][r], model.rows.pollutants[c]>>
      B == model.mat.buildup
      T == model.mat.treatment
  IN /\ Fits(B.cells, B.rows, B.cols) /\ Fits(T.cells, T.rows, T.cols)
     /\ Aligned(B, "landuses") /\ Aligned(T, "nodes")

\* What the step from m to q took and cleared, and what the report of object o
\* foresaw, of the columns that are followed (ts_name is the copy of ts_index
\* by name, cleared with it and not listed).
GoneObjects(m, q) == Objects(m) \ Objects(q)
ClearedSlots(m, q) ==
  LET before == PointsOf(m)
      after == PointsOf(q)
  IN {x \in DOMAIN after : x \in DOMAIN before /\ before[x] # after[x] /\ x[1] # "ts_name"}
Foretold(report, o, m, q) ==
  /\ GoneObjects(m, q) = {o} \cup {x[2] : x \in {y \in report : y[1] \in CascadeColumns}}
  /\ ClearedSlots(m, q) = {x \in report : x[1] \in Followed \ CascadeColumns
                                          /\ x[2] \in Objects(q)}
Report(m, o) == Impact(m, o[1], IndexOf(m, o))
WithItsLinks(m, o) ==
  LET report == Report(m, o)
      links == {x[2] : x \in {y \in report : y[1] \in {"node1", "node2"}}}
  IN report \cup UNION {Report(m, l) : l \in links}

\* The impact report, with those of the links that go with a node, foretells a
\* deletion: the objects it lists as cascading are the ones that go, the slots
\* it lists as cleared are the ones that change, in every table of the model
\* (the scans and the deletions are written twice, table by table).
DeletionForetold ==
  [][Delete => \E o \in GoneObjects(model, model') :
       Foretold(WithItsLinks(model, o), o, model, model')]_vars

-----------------------------------------------------------------------------
(* What the documentation says and the code does not do *)

\* erase_at takes the object's element out of every column (LinkData.hpp,
\* SubcatchData.hpp, GageData.hpp): the objects that stay keep their values.
EveryColumnFollows ==
  [][\A c \in NotErased : LET k == DataCols[c][1]
                              ValueOf(m, id) == m.data[c][IndexOf(m, <<k, id>>)]
     IN Delete => \A id \in Range(model'.rows[k]) : ValueOf(model', id) = ValueOf(model, id)]_vars

=============================================================================
