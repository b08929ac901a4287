---------------------------- MODULE MCModelEdit ----------------------------
(* Three small models to edit: a network, its hydrology, its water quality. *)
EXTENDS ModelEdit

\* A model with these rows, references, names, values and matrices; every
\* other column holds its default.
Made(rows, ref, name, data, mat) ==
  LET all == [k \in Kinds |-> IF k \in DOMAIN rows THEN rows[k] ELSE <<>>]
      Default(k, v) == [i \in 1 .. Len(all[k]) |-> v]
      none == [rows |-> 0, cols |-> 0, cells |-> <<>>]
      m == [rows |-> all,
            ref |-> ref @@ [c \in DOMAIN Refs |-> Default(Refs[c][1], 0)],
            name |-> name @@ [c \in DOMAIN NameRefs |-> Default(NameRefs[c][1], "")],
            data |-> data @@ [c \in DOMAIN DataCols |-> Default(DataCols[c][1], DataCols[c][2])],
            subtype_row |-> [k \in DOMAIN TypeColumn |-> <<>>],
            mat |-> mat @@ [x \in {"buildup", "treatment", "coverage", "conc"} |-> none]]
  IN rebuild_index(rebuild_index(m, "nodes"), "links")

\* A pumped storage, a divider with an inlet on its street, two tables.
Network == Made(
  [nodes |-> <<"S1", "D1", "O1">>, links |-> <<"C1", "P1", "C2">>,
   storages |-> <<"S1">>, dividers |-> <<"D1">>, outfalls |-> <<"O1">>,
   conduits |-> <<"C1", "C2">>, pumps |-> <<"P1">>, tables |-> <<"T1", "T2">>,
   transects |-> <<"X1", "X2">>, streets |-> <<"R1", "R2">>, inlets |-> <<"I1", "I2">>,
   inlet_usages |-> <<"U1", "U2">>, ext_inflows |-> <<"E1">>],
  [node1 |-> <<1, 2, 2>>, node2 |-> <<2, 1, 3>>, xsect_curve |-> <<3, 0, 2>>,
   storage_node |-> <<1>>, divider_node |-> <<2>>, outfall_node |-> <<3>>,
   conduit_link |-> <<1, 3>>, pump_link |-> <<2>>, storage_curve |-> <<1>>,
   divider_link |-> <<3>>, divider_curve |-> <<2>>, outfall_param |-> <<2>>,
   pump_curve |-> <<2>>, ext_node |-> <<1>>,
   inlet_link |-> <<1, 3>>, inlet_node |-> <<2, 1>>, inlet_design |-> <<2, 1>>,
   inlet_street |-> <<1, 2>>],
  [xsect_name |-> <<"R1", "", "X2">>, ext_ts |-> <<"T2">>, ext_constituent |-> <<"FLOW">>],
  [node_type |-> <<"STORAGE", "DIVIDER", "OUTFALL">>,
   link_type |-> <<"CONDUIT", "PUMP", "CONDUIT">>,
   xsect_shape |-> <<"STREET_XSECT", "CIRCULAR", "IRREGULAR">>,
   xsect_geom |-> <<"g1", "g2", "g3">>],
  [buildup |-> [rows |-> 0, cols |-> 0, cells |-> <<>>]])

\* Two subcatchments with gages, groundwater, snow, LIDs and RDII; the outfall
\* routes its discharge to the second.
Hydrology == Made(
  [nodes |-> <<"J1", "O1">>, outfalls |-> <<"O1">>, subcatches |-> <<"A1", "A2">>,
   gages |-> <<"G1", "G2">>, tables |-> <<"T1", "T2">>, aquifers |-> <<"Q1", "Q2">>,
   snowpacks |-> <<"K1", "K2">>, lid_controls |-> <<"L1", "L2">>, lid_usage |-> <<"V1", "V2">>,
   unit_hyds |-> <<"H1", "H2">>, rdii_assigns |-> <<"Y1", "Y2">>, patterns |-> <<"M1", "M2">>,
   dwf_inflows |-> <<"W1">>],
  [outfall_node |-> <<2>>, route_to |-> <<2>>, outlet_node |-> <<1, 0>>,
   outlet_subcatch |-> <<0, 1>>, gw_node |-> <<2, 1>>, gage |-> <<1, 2>>,
   gw_aquifer |-> <<2, 1>>, snowpack |-> <<1, 2>>, infil_pattern |-> <<2, 0>>,
   ts_index |-> <<2, 1>>, lid_subcatch |-> <<1, 2>>, lid_index |-> <<2, 1>>,
   rdii_node |-> <<1, 2>>, dwf_node |-> <<2>>],
  [ts_name |-> <<"T2", "T1">>, drain_to |-> <<"A2", "">>, removal_subcatch |-> <<"", "A1">>,
   uh_name |-> <<"H2", "H1">>, uh_gage |-> <<"G2", "G1">>, evap_pattern |-> <<"M1", "M2">>,
   dwf_pattern |-> <<"M2">>, dwf_constituent |-> <<"FLOW">>],
  [node_type |-> <<"JUNCTION", "OUTFALL">>, gage_name |-> <<"G1", "G2">>,
   station_id |-> <<"s1", "s2">>],
  [buildup |-> [rows |-> 0, cols |-> 0, cells |-> <<>>]])

\* Two pollutants on two land uses, treated at two nodes.
Quality ==
  LET Full(r, c) == [j \in 1 .. Len(r) * Len(c) |->
                       <<r[((j - 1) \div Len(c)) + 1], c[((j - 1) % Len(c)) + 1]>>]
      nodes == <<"J1", "J2">>
      areas == <<"A1", "A2">>
      uses == <<"F1", "F2">>
      polls == <<"P1", "P2">>
  IN Made(
    [nodes |-> nodes, subcatches |-> areas, landuses |-> uses, pollutants |-> polls,
     ext_inflows |-> <<"E1", "E2">>, dwf_inflows |-> <<"W1">>, lid_controls |-> <<"L1">>,
     patterns |-> <<"M1">>],
    [ext_node |-> <<1, 2>>, dwf_node |-> <<2>>, co_pollut |-> <<0, 1>>, removals |-> <<2>>],
    [ext_constituent |-> <<"P2", "P1">>, dwf_constituent |-> <<"P1">>, ext_pattern |-> <<"M1", "">>],
    [node_type |-> <<"JUNCTION", "JUNCTION">>],
    [buildup |-> [rows |-> 2, cols |-> 2, cells |-> Full(uses, polls)],
     treatment |-> [rows |-> 2, cols |-> 2, cells |-> Full(nodes, polls)],
     coverage |-> [rows |-> 0, cols |-> 2, cells |-> Full(areas, uses)],
     conc |-> [rows |-> 0, cols |-> 2, cells |-> Full(areas, polls)]])

MCModels == {Network, Hydrology, Quality}
MCNewNames == {"Z9"}
\* The columns the code keeps true: route_to, co_gage and the cross-section
\* columns are followed by nothing, the join columns only within their tables.
MCFollowed == (DOMAIN Refs \cup DOMAIN NameRefs)
                \ (Range(Join) \cup {"route_to", "co_gage", "xsect_curve", "xsect_name"})
=============================================================================
