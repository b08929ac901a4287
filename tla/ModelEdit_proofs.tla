-------------------------- MODULE ModelEdit_proofs --------------------------
(***************************************************************************)
(* Theorems about the edits of a model, for every set of models to start    *)
(* from, every set of new names and any number of edits.                    *)
(*                                                                          *)
(* The inductive invariant is WellFormed of the module ModelEdit: columns   *)
(* of equal length, side tables in step with the nodes and links they       *)
(* belong to, references in range, matrices filed by object and pollutant.  *)
(* Lemmas about columns come first, then what clearing, renumbering and     *)
(* erasing do to the tables, one lemma for each deletion, addition and      *)
(* change of the C API, and the matrices.                                   *)
(***************************************************************************)
EXTENDS ModelEdit, FiniteSetTheorems, SequenceTheorems, WellFoundedInduction, TLAPS

-----------------------------------------------------------------------------
(* Induction over the natural numbers, for sets *)

\* Every set of natural numbers has a least element.
LEMMA LeastNatural ==
  ASSUME NEW T, T \subseteq Nat, T # {}
  PROVE  \E x \in T : \A y \in T : x <= y
<1> DEFINE R == {ss \in Nat \X Nat : ss[1] < ss[2]}
<1>1. IsWellFoundedOn(R, Nat)
  BY NatLessThanWellFounded DEF OpToRel
<1>2. \E x \in T : \A y \in T : ~ (<<y, x>> \in R)
  <2> HIDE DEF R
  <2> QED BY <1>1, WFMin
<1>3. PICK x \in T : \A y \in T : ~ (<<y, x>> \in R)
  BY <1>2
<1>4. \A y \in T : x <= y
  <2>1. TAKE y \in T
  <2>2. x \in Nat /\ y \in Nat /\ ~ (y < x)
    BY <1>3
  <2>3. QED BY <2>2
<1>5. QED BY <1>4

\* Induction: a set that holds 0 and the successor of each of its members.
LEMMA SetInduction ==
  ASSUME NEW T, 0 \in T, \A n \in Nat : n \in T => n + 1 \in T
  PROVE  \A n \in Nat : n \in T
<1> DEFINE W == {n \in Nat : n \notin T}
<1>1. SUFFICES ASSUME W # {} PROVE FALSE
  OBVIOUS
<1>2. PICK x \in W : \A y \in W : x <= y
  <2>1. W \subseteq Nat OBVIOUS
  <2> HIDE DEF W
  <2>2. QED BY <1>1, <2>1, LeastNatural
<1>3. x \in Nat /\ x # 0 /\ x \notin T
  OBVIOUS
<1>4. x - 1 \in Nat /\ ~ (x <= x - 1)
  BY <1>3
<1>5. x - 1 \in T
  BY <1>2, <1>4
<1>6. (x - 1) + 1 = x
  BY <1>3
<1>7. QED BY <1>3, <1>4, <1>5, <1>6

-----------------------------------------------------------------------------
(* Columns *)

\* A column is a sequence, and as long as it says.
LEMMA ColumnFacts ==
  ASSUME NEW s, NEW n, IsColumn(s, n)
  PROVE  /\ n \in Nat /\ DOMAIN s = 1 .. n /\ Len(s) = n
         /\ s \in Seq({s[i] : i \in 1 .. n})
<1>1. n \in Nat /\ s = [i \in 1 .. n |-> s[i]]
  BY DEF IsColumn
<1>2. DOMAIN s = 1 .. n
  BY <1>1
<1>3. s \in [1 .. n -> {s[i] : i \in 1 .. n}]
  BY <1>1
<1>4. s \in Seq({s[i] : i \in 1 .. n})
  BY <1>1, <1>3, SeqDef
<1>5. Len(s) \in Nat /\ DOMAIN s = 1 .. Len(s)
  BY <1>4, LenProperties
<1>6. Len(s) = n
  BY <1>1, <1>2, <1>5
<1>7. QED BY <1>1, <1>2, <1>4, <1>6

\* A column is determined by its entries.
LEMMA ColumnEqual ==
  ASSUME NEW s, NEW q, NEW n, IsColumn(s, n), IsColumn(q, n), \A i \in 1 .. n : s[i] = q[i]
  PROVE  s = q
BY DEF IsColumn

\* A row inserted at p moves the ones from p on up by one.
LEMMA InsertAtFacts ==
  ASSUME NEW s, NEW n, IsColumn(s, n), NEW p \in 1 .. n + 1, NEW e
  PROVE  /\ IsColumn(InsertAt(s, p, e), n + 1)
         /\ \A i \in 1 .. n + 1 :
              InsertAt(s, p, e)[i] = IF i < p THEN s[i] ELSE IF i = p THEN e ELSE s[i - 1]
<1> DEFINE V == {s[i] : i \in 1 .. n} \cup {e}
           a == SubSeq(s, 1, p - 1)
           b == SubSeq(s, p, n)
<1>1. n \in Nat /\ Len(s) = n /\ p \in Int /\ p - 1 \in Int /\ p - 1 \in Nat
  <2>1. n \in Nat /\ Len(s) = n
    BY ColumnFacts
  <2>2. QED BY <2>1
<1>2. \A i \in 1 .. n : s[i] \in V
  OBVIOUS
<1> HIDE DEF V
<1>3. a \in Seq(V) /\ Len(a) = p - 1 /\ \A i \in 1 .. p - 1 : a[i] = s[i]
  <2>1. \A i \in 1 .. p - 1 : s[i] \in V
    BY <1>1, <1>2
  <2>2. /\ a \in Seq(V)
        /\ Len(a) = IF 1 <= p - 1 THEN (p - 1) - 1 + 1 ELSE 0
        /\ \A i \in 1 .. (p - 1) - 1 + 1 : a[i] = s[1 + i - 1]
    BY <1>1, <2>1, SubSeqProperties
  <2>3. QED BY <1>1, <2>2
<1>4. b \in Seq(V) /\ Len(b) = n - p + 1 /\ \A i \in 1 .. n - p + 1 : b[i] = s[p + i - 1]
  <2>1. \A i \in p .. n : s[i] \in V
    BY <1>1, <1>2
  <2>2. /\ b \in Seq(V)
        /\ Len(b) = IF p <= n THEN n - p + 1 ELSE 0
        /\ \A i \in 1 .. n - p + 1 : b[i] = s[p + i - 1]
    BY <1>1, <2>1, SubSeqProperties
  <2>3. QED BY <1>1, <2>2
<1> DEFINE c == <<e>>
           d == a \o c
           f == d \o b
<1>5. c \in Seq(V) /\ Len(c) = 1 /\ c[1] = e
  BY DEF V
<1>6. InsertAt(s, p, e) = f
  BY <1>1 DEF InsertAt
<1> HIDE DEF a, b, c
<1>7. d \in Seq(V) /\ Len(d) = p
      /\ \A i \in 1 .. p : d[i] = IF i <= p - 1 THEN a[i] ELSE c[i - (p - 1)]
  <2>1. /\ d \in Seq(V) /\ Len(d) = Len(a) + Len(c)
        /\ \A i \in 1 .. Len(a) + Len(c) : d[i] = IF i <= Len(a) THEN a[i] ELSE c[i - Len(a)]
    BY <1>3, <1>5, ConcatProperties
  <2>2. Len(a) + Len(c) = p
    BY <1>1, <1>3, <1>5
  <2>3. QED BY <1>3, <2>1, <2>2
<1> HIDE DEF d
<1>8. f \in Seq(V) /\ Len(f) = n + 1
      /\ \A i \in 1 .. n + 1 : f[i] = IF i <= p THEN d[i] ELSE b[i - p]
  <2>1. /\ f \in Seq(V) /\ Len(f) = Len(d) + Len(b)
        /\ \A i \in 1 .. Len(d) + Len(b) : f[i] = IF i <= Len(d) THEN d[i] ELSE b[i - Len(d)]
    BY <1>4, <1>7, ConcatProperties
  <2>2. Len(d) + Len(b) = n + 1
    BY <1>1, <1>4, <1>7
  <2>3. QED BY <1>7, <2>1, <2>2
<1> HIDE DEF f
<1>9. IsColumn(f, n + 1)
  <2>1. f \in [1 .. n + 1 -> V]
    BY <1>8, LenProperties
  <2>2. QED BY <1>1, <2>1 DEF IsColumn
<1>10. \A i \in 1 .. n + 1 : f[i] = IF i < p THEN s[i] ELSE IF i = p THEN e ELSE s[i - 1]
  <2>1. TAKE i \in 1 .. n + 1
  <2>2. CASE i < p
    <3>1. i \in 1 .. p - 1 /\ i \in 1 .. p /\ i <= p /\ i <= p - 1
      BY <1>1, <2>2
    <3>2. f[i] = s[i]
      BY <1>3, <1>7, <1>8, <3>1
    <3>3. QED BY <2>2, <3>2
  <2>3. CASE i = p
    <3>1. i \in 1 .. p /\ i <= p /\ ~ (i <= p - 1) /\ i - (p - 1) = 1
      BY <1>1, <2>3
    <3>2. f[i] = e
      BY <1>5, <1>7, <1>8, <3>1
    <3>3. QED BY <1>1, <2>3, <3>2
  <2>4. CASE i > p
    <3>1. ~ (i <= p) /\ i - p \in 1 .. n - p + 1 /\ p + (i - p) - 1 = i - 1
      BY <1>1, <2>4
    <3>2. f[i] = s[i - 1]
      BY <1>4, <1>8, <3>1
    <3>3. ~ (i < p) /\ i # p
      BY <1>1, <2>4
    <3>4. QED BY <3>2, <3>3
  <2>5. QED BY <1>1, <2>2, <2>3, <2>4
<1>11. QED BY <1>6, <1>9, <1>10

-----------------------------------------------------------------------------
(* The ascending enumeration of a set of indices *)

\* Ascending(K) lists the members of K, each once and in their order.
LEMMA AscendingFacts ==
  ASSUME NEW n \in Nat, NEW K, K \subseteq 1 .. n
  PROVE  /\ IsColumn(Ascending(K), Cardinality(K))
         /\ \A j \in 1 .. Cardinality(K) : Ascending(K)[j] \in K
         /\ \A i, j \in 1 .. Cardinality(K) : i < j => Ascending(K)[i] < Ascending(K)[j]
         /\ \A k \in K : \E j \in 1 .. Cardinality(K) : Ascending(K)[j] = k
<1> DEFINE q == Cardinality(K)
           Upto(i) == {x \in K : x <= i}
           rank == [i \in K |-> Cardinality(Upto(i))]
<1>1. IsFiniteSet(K) /\ q \in Nat
  <2>1. IsFiniteSet(1 .. n)
    BY FS_Interval
  <2>2. IsFiniteSet(K)
    BY <2>1, FS_Subset
  <2>3. QED BY <2>2, FS_CardinalityType
<1>2. \A i \in K : IsFiniteSet(Upto(i)) /\ Cardinality(Upto(i)) \in Nat /\ Cardinality(Upto(i)) <= q
  <2>1. TAKE i \in K
  <2>2. Upto(i) \in SUBSET K
    OBVIOUS
  <2>3. QED BY <1>1, <2>2, FS_Subset, FS_CardinalityType
<1>3. \A i, j \in K : i < j => Cardinality(Upto(i)) < Cardinality(Upto(j))
  <2>1. TAKE i, j \in K
  <2>2. HAVE i < j
  <2>3. Upto(i) \in SUBSET Upto(j) /\ j \in Upto(j) /\ j \notin Upto(i)
    <3>1. K \subseteq Int /\ i \in Int /\ j \in Int
      OBVIOUS
    <3>2. \A x \in K : x <= i => x <= j
      BY <2>2, <3>1
    <3>3. j <= j /\ ~ (j <= i)
      BY <2>2, <3>1
    <3>4. QED BY <3>2, <3>3
  <2>4. Upto(i) # Upto(j)
    BY <2>3
  <2>5. /\ IsFiniteSet(Upto(j)) /\ Cardinality(Upto(i)) \in Nat /\ Cardinality(Upto(j)) \in Nat
    BY <1>2
  <2> HIDE DEF Upto
  <2>6. /\ Cardinality(Upto(i)) <= Cardinality(Upto(j))
        /\ Cardinality(Upto(j)) = Cardinality(Upto(i)) => Upto(j) = Upto(i)
    BY <2>3, <2>5, FS_Subset
  <2>7. QED BY <2>4, <2>5, <2>6
<1>4. \A i \in K : Cardinality(Upto(i)) # 0
  <2>1. TAKE i \in K
  <2>2. i \in Upto(i)
    OBVIOUS
  <2>3. Upto(i) # {}
    BY <2>2
  <2> HIDE DEF Upto
  <2>4. QED BY <1>2, <2>3, FS_EmptySet
<1>5. rank \in [K -> 1 .. q]
  BY <1>1, <1>2, <1>4
<1>6. rank \in Injection(K, 1 .. q)
  <2>1. \A i, j \in K : rank[i] = rank[j] => i = j
    <3>1. TAKE i, j \in K
    <3>2. i < j \/ j < i \/ i = j
      OBVIOUS
    <3>3. rank[i] = Cardinality(Upto(i)) /\ rank[j] = Cardinality(Upto(j))
      OBVIOUS
    <3>4. rank[i] \in Int /\ rank[j] \in Int
      BY <1>5
    <3> HIDE DEF rank, Upto
    <3>5. ASSUME rank[i] = rank[j], i # j PROVE FALSE
      <4>1. CASE i < j
        <5>1. Cardinality(Upto(i)) < Cardinality(Upto(j))
          BY <1>3, <4>1, Zenon
        <5>2. rank[i] < rank[j]
          BY <3>3, <5>1, Zenon
        <5>3. QED BY <3>4, <3>5, <5>2
      <4>2. CASE j < i
        <5>1. Cardinality(Upto(j)) < Cardinality(Upto(i))
          BY <1>3, <4>2, Zenon
        <5>2. rank[j] < rank[i]
          BY <3>3, <5>1, Zenon
        <5>3. QED BY <3>4, <3>5, <5>2
      <4>3. QED BY <3>2, <3>5, <4>1, <4>2
    <3>6. QED BY <3>5
  <2>2. QED BY <1>5, <2>1 DEF Injection, IsInjective
<1>7. rank \in Surjection(K, 1 .. q)
  <2>1. IsFiniteSet(1 .. q) /\ Cardinality(1 .. q) = q
    BY <1>1, FS_Interval
  <2> HIDE DEF rank
  <2>2. QED BY <1>6, <2>1, FS_Injection
<1>8. \A j \in 1 .. q : \E i \in K : Cardinality(Upto(i)) = j
  <2>1. TAKE j \in 1 .. q
  <2>2. \E i \in K : rank[i] = j
    BY <1>7 DEF Surjection
  <2>3. QED BY <2>2
<1> DEFINE a == Ascending(K)
<1>9. a = [j \in 1 .. q |-> CHOOSE i \in K : Cardinality(Upto(i)) = j]
  BY DEF Ascending
<1>10. \A j \in 1 .. q : a[j] \in K /\ Cardinality(Upto(a[j])) = j
  BY <1>8, <1>9
<1> HIDE DEF rank, Upto
<1>11. IsColumn(a, q)
  BY <1>1, <1>9 DEF IsColumn
<1> HIDE DEF a
<1>12. \A i, j \in 1 .. q : i < j => a[i] < a[j]
  <2>1. TAKE i, j \in 1 .. q
  <2>2. HAVE i < j
  <2>3. a[i] \in K /\ a[j] \in K /\ a[i] \in Int /\ a[j] \in Int
    <3>1. a[i] \in K /\ a[j] \in K
      BY <1>10
    <3>2. K \subseteq Int
      OBVIOUS
    <3>3. QED BY <3>1, <3>2
  <2>4. ~ (a[j] < a[i]) /\ a[i] # a[j]
    BY <1>3, <1>10, <2>2, <2>3
  <2>5. QED BY <2>3, <2>4
<1>13. \A k \in K : \E j \in 1 .. q : a[j] = k
  <2>1. TAKE k \in K
  <2> DEFINE j == Cardinality(Upto(k))
  <2>2. j \in 1 .. q
    BY <1>1, <1>2, <1>4
  <2>3. a[j] \in K /\ Cardinality(Upto(a[j])) = j
    BY <1>10, <2>2
  <2>4. a[j] = k
    <3>1. a[j] < k \/ k < a[j] \/ a[j] = k
      <4>1. K \subseteq Int
        OBVIOUS
      <4>2. a[j] \in Int /\ k \in Int
        BY <2>3, <4>1, Zenon
      <4>3. QED BY <4>2
    <3>2. ~ (j < j)
      BY <2>2
    <3>3. CASE a[j] < k
      <4>1. Cardinality(Upto(a[j])) < Cardinality(Upto(k))
        BY <1>3, <2>3, <3>3, Zenon
      <4>2. QED BY <2>3, <3>2, <4>1, Zenon
    <3>4. CASE k < a[j]
      <4>1. Cardinality(Upto(k)) < Cardinality(Upto(a[j]))
        BY <1>3, <2>3, <3>4, Zenon
      <4>2. QED BY <2>3, <3>2, <4>1, Zenon
    <3>5. QED BY <3>1, <3>3, <3>4
  <2>5. QED BY <2>2, <2>4
<1>14. QED BY <1>10, <1>11, <1>12, <1>13 DEF a

\* Without one index, the ones behind it move down by one.
LEMMA AscendingWithoutOne ==
  ASSUME NEW n \in Nat, NEW i \in 1 .. n
  PROVE  /\ Cardinality((1 .. n) \ {i}) = n - 1
         /\ \A j \in 1 .. n - 1 : Ascending((1 .. n) \ {i})[j] = IF j < i THEN j ELSE j + 1
<1> DEFINE K == (1 .. n) \ {i}
           Upto(k) == {x \in K : x <= k}
           g(k) == IF k < i THEN k ELSE k - 1
<1>1. Cardinality(K) = n - 1
  <2>1. IsFiniteSet(1 .. n) /\ Cardinality(1 .. n) = n
    BY FS_Interval
  <2>2. QED BY <2>1, FS_RemoveElement
<1>2. \A k \in K : Cardinality(Upto(k)) = g(k)
  <2>1. TAKE k \in K
  <2>2. Upto(k) = (1 .. k) \ {i}
    OBVIOUS
  <2>3. IsFiniteSet(1 .. k) /\ Cardinality(1 .. k) = k
    BY FS_Interval
  <2>4. Cardinality((1 .. k) \ {i}) = IF i \in 1 .. k THEN k - 1 ELSE k
    BY <2>3, FS_RemoveElement
  <2>5. i \in 1 .. k <=> ~ (k < i)
    OBVIOUS
  <2>6. QED BY <2>2, <2>4, <2>5
<1>3. \A j \in 1 .. n - 1 : Ascending(K)[j] = CHOOSE k \in K : Cardinality(Upto(k)) = j
  BY <1>1 DEF Ascending
<1> HIDE DEF Upto
<1>4. ASSUME NEW j \in 1 .. n - 1
      PROVE  Ascending(K)[j] = IF j < i THEN j ELSE j + 1
  <2> DEFINE h == IF j < i THEN j ELSE j + 1
  <2>1. h \in K /\ g(h) = j
    OBVIOUS
  <2>2. Cardinality(Upto(h)) = j
    BY <1>2, <2>1
  <2>3. Ascending(K)[j] \in K /\ Cardinality(Upto(Ascending(K)[j])) = j
    BY <1>3, <2>1, <2>2
  <2>4. g(Ascending(K)[j]) = j
    BY <1>2, <2>3
  <2>5. QED BY <2>3, <2>4
<1>5. QED BY <1>1, <1>4

-----------------------------------------------------------------------------
(* The columns of the tables *)

\* The tables of each reference column; none refers to the row of a side table.
LEMMA RefSchema ==
  ASSUME NEW c \in DOMAIN Refs
  PROVE  Refs[c][1] \in Kinds /\ Refs[c][2] \in Kinds /\ Refs[c][2] \notin DOMAIN Join
BY DEF Join, Refs, Kinds

\* The tables of each column of names
LEMMA NameSchema ==
  ASSUME NEW c \in DOMAIN NameRefs
  PROVE  NameRefs[c][1] \in Kinds /\ NameRefs[c][2] \in Kinds
BY DEF NameRefs, Kinds

\* The join column of a side table belongs to that table and refers to nodes or links.
LEMMA JoinSchema ==
  ASSUME NEW t \in DOMAIN Join
  PROVE  /\ Join[t] \in DOMAIN Refs /\ Refs[Join[t]][1] = t /\ Refs[Join[t]][2] \in {"nodes", "links"}
         /\ t \in Kinds /\ t \notin {"nodes", "links"}
BY DEF Join, Refs, Kinds

\* These tables are no side tables.
LEMMA TableKinds ==
  \A k \in {"nodes", "links", "subcatches", "gages", "transects", "pollutants", "landuses",
            "tables", "patterns", "aquifers", "snowpacks", "lid_controls", "streets", "inlets",
            "unit_hyds", "inlet_usages", "lid_usage", "ext_inflows", "dwf_inflows",
            "rdii_assigns"} :
    k \in Kinds /\ k \notin DOMAIN Join
BY DEF Refs, NameRefs, Kinds, Join

\* The table of each column of values.
LEMMA DataTables ==
  /\ DOMAIN DataCols = {"node_type", "is_virtual", "link_type", "xsect_shape", "xsect_geom",
                         "gage_name", "station_id", "length_factor"}
  /\ DataCols["node_type"][1] = "nodes"
  /\ DataCols["is_virtual"][1] = "nodes"
  /\ DataCols["link_type"][1] = "links"
  /\ DataCols["xsect_shape"][1] = "links"
  /\ DataCols["xsect_geom"][1] = "links"
  /\ DataCols["gage_name"][1] = "subcatches"
  /\ DataCols["station_id"][1] = "gages"
  /\ DataCols["length_factor"][1] = "transects"
<1>1. DOMAIN DataCols = {"node_type", "is_virtual", "link_type", "xsect_shape", "xsect_geom",
                         "gage_name", "station_id", "length_factor"}
  BY Zenon DEF DataCols
<1>2. DataCols["node_type"][1] = "nodes"
  <2>1. DataCols["node_type"] = <<"nodes", "JUNCTION">>
    BY Zenon DEF DataCols
  <2>2. QED BY <2>1
<1>3. DataCols["is_virtual"][1] = "nodes"
  <2>1. DataCols["is_virtual"] = <<"nodes", FALSE>>
    BY Zenon DEF DataCols
  <2>2. QED BY <2>1
<1>4. DataCols["link_type"][1] = "links"
  <2>1. DataCols["link_type"] = <<"links", "CONDUIT">>
    BY Zenon DEF DataCols
  <2>2. QED BY <2>1
<1>5. DataCols["xsect_shape"][1] = "links"
  <2>1. DataCols["xsect_shape"] = <<"links", "CIRCULAR">>
    BY Zenon DEF DataCols
  <2>2. QED BY <2>1
<1>6. DataCols["xsect_geom"][1] = "links"
  <2>1. DataCols["xsect_geom"] = <<"links", NoName>>
    BY Zenon DEF DataCols
  <2>2. QED BY <2>1
<1>7. DataCols["gage_name"][1] = "subcatches"
  <2>1. DataCols["gage_name"] = <<"subcatches", NoName>>
    BY Zenon DEF DataCols
  <2>2. QED BY <2>1
<1>8. DataCols["station_id"][1] = "gages"
  <2>1. DataCols["station_id"] = <<"gages", NoName>>
    BY Zenon DEF DataCols
  <2>2. QED BY <2>1
<1>9. DataCols["length_factor"][1] = "transects"
  <2>1. DataCols["length_factor"] = <<"transects", NoName>>
    BY Zenon DEF DataCols
  <2>2. QED BY <2>1
<1>10. QED BY <1>1, <1>2, <1>3, <1>4, <1>5, <1>6, <1>7, <1>8, <1>9, Zenon

\* Columns of values belong to main tables.
LEMMA DataSchema ==
  ASSUME NEW c \in DOMAIN DataCols
  PROVE  DataCols[c][1] \in Kinds /\ DataCols[c][1] \notin DOMAIN Join
<1>1. DataCols[c][1] \in {"nodes", "links", "subcatches", "gages", "transects"}
  BY DataTables
<1>2. QED BY <1>1, TableKinds

\* Nodes and links have types, and each type but JUNCTION a side table.
LEMMA TypeSchema ==
  ASSUME NEW k \in DOMAIN TypeColumn
  PROVE  /\ k \in {"nodes", "links"} /\ k \in Kinds /\ k \notin DOMAIN Join
         /\ TypeColumn[k] \in DOMAIN DataCols /\ TypeColumn[k] \notin NotErased
         /\ DataCols[TypeColumn[k]][1] = k
         /\ \A type \in TypesOf[k] : type # "JUNCTION" => SideTable[type] \in SideTables(k)
<1>1. k \in {"nodes", "links"}
  BY DEF TypeColumn
<1>2. k \in Kinds /\ k \notin DOMAIN Join
  BY <1>1, TableKinds
<1>3. /\ TypeColumn[k] \in DOMAIN DataCols /\ TypeColumn[k] \notin NotErased
      /\ DataCols[TypeColumn[k]][1] = k
  BY <1>1, DataTables DEF TypeColumn, NotErased
<1>4. ASSUME NEW type \in TypesOf[k], type # "JUNCTION" PROVE SideTable[type] \in SideTables(k)
  <2>1. CASE k = "nodes"
    BY <1>4, <2>1 DEF TypesOf, NodeTypes, SideTable, SideTables, Join, Refs
  <2>2. CASE k = "links"
    BY <1>4, <2>2 DEF TypesOf, LinkTypes, SideTable, SideTables, Join, Refs
  <2>3. QED BY <1>1, <2>1, <2>2
<1>5. QED BY <1>1, <1>2, <1>3, <1>4

-----------------------------------------------------------------------------
(* What does not touch the rows, the keys and the types *)

\* The keys stay right while objects, types and side tables stay.
LEMMA KeyedFrame ==
  ASSUME NEW m, NEW q, NEW k \in DOMAIN TypeColumn, Keyed(m, k),
         q.rows[k] = m.rows[k], q.data[TypeColumn[k]] = m.data[TypeColumn[k]],
         \A t \in SideTables(k) : q.rows[t] = m.rows[t] /\ q.ref[Join[t]] = m.ref[Join[t]]
  PROVE  Keyed(q, k)
<1>1. Positions(q, k) = Positions(m, k)
  BY DEF Positions, Count
<1>2. \A t \in SideTables(k) : Positions(q, t) = Positions(m, t)
  BY DEF Positions, Count
<1>3. \A i : TypeAt(q, k, i) = TypeAt(m, k, i)
  BY DEF TypeAt
<1>4. \A t, i : Owned(q, k, t, i) = Owned(m, k, t, i)
  BY <1>3 DEF Owned
<1>5. \A t \in SideTables(k) : \A r : Key(q, t, r) = Key(m, t, r)
  BY DEF Key
<1>6. QED BY <1>1, <1>2, <1>3, <1>4, <1>5 DEF Keyed

\* The index stays right while it and what it leads to stay.
LEMMA IndexedFrame ==
  ASSUME NEW m, NEW q, NEW k \in DOMAIN TypeColumn, Keyed(m, k), Indexed(m, k),
         q.rows[k] = m.rows[k], q.data[TypeColumn[k]] = m.data[TypeColumn[k]],
         \A t \in SideTables(k) : q.rows[t] = m.rows[t] /\ q.ref[Join[t]] = m.ref[Join[t]],
         q.subtype_row[k] = m.subtype_row[k]
  PROVE  Indexed(q, k)
<1>1. Positions(q, k) = Positions(m, k) /\ Count(q, k) = Count(m, k)
  BY DEF Positions, Count
<1>2. \A t \in SideTables(k) : Positions(q, t) = Positions(m, t)
  BY DEF Positions, Count
<1>3. \A i : TypeAt(q, k, i) = TypeAt(m, k, i)
  BY DEF TypeAt
<1>4. \A t \in SideTables(k) : \A r : Key(q, t, r) = Key(m, t, r)
  BY DEF Key
<1>5. \A i \in Positions(m, k) : TypeAt(m, k, i) # "JUNCTION" =>
                                   SideTable[TypeAt(m, k, i)] \in SideTables(k)
  BY TypeSchema DEF Keyed
<1>6. QED BY <1>1, <1>2, <1>3, <1>4, <1>5 DEF Indexed

Backed(m) == \A k \in DOMAIN TypeColumn : Keyed(m, k) /\ Indexed(m, k)

\* Columns other than the joins and the types are overwritten.
Retouched(m, q) ==
  /\ DOMAIN q = DOMAIN m
  /\ q.rows = m.rows /\ q.subtype_row = m.subtype_row /\ q.mat = m.mat
  /\ DOMAIN q.ref = DOMAIN m.ref
  /\ \A c \in DOMAIN m.ref : IsColumn(q.ref[c], Count(m, Refs[c][1]))
  /\ DOMAIN q.name = DOMAIN m.name
  /\ \A c \in DOMAIN m.name : IsColumn(q.name[c], Count(m, NameRefs[c][1]))
  /\ DOMAIN q.data = DOMAIN m.data
  /\ \A c \in DOMAIN m.data : IsColumn(q.data[c], Len(m.data[c]))
  /\ \A t \in DOMAIN Join : q.ref[Join[t]] = m.ref[Join[t]]
  /\ \A k \in DOMAIN TypeColumn : q.data[TypeColumn[k]] = m.data[TypeColumn[k]]

\* Overwriting entries leaves the columns as long as they were.
LEMMA RetouchedColumns ==
  ASSUME NEW m, NEW q, Columns(m), Retouched(m, q)
  PROVE  Columns(q)
<1>1. \A k : Count(q, k) = Count(m, k)
  BY DEF Retouched, Count
<1>2. /\ DOMAIN q = {"rows", "ref", "name", "data", "subtype_row", "mat"}
      /\ DOMAIN q.rows = Kinds /\ DOMAIN q.ref = DOMAIN Refs /\ DOMAIN q.name = DOMAIN NameRefs
      /\ DOMAIN q.data = DOMAIN DataCols /\ DOMAIN q.subtype_row = DOMAIN TypeColumn
  BY DEF Retouched, Columns
<1>3. \A k \in Kinds : IsColumn(q.rows[k], Count(q, k))
  BY <1>1 DEF Retouched, Columns
<1>4. \A c \in DOMAIN Refs : IsColumn(q.ref[c], Count(q, Refs[c][1]))
  BY <1>1 DEF Retouched, Columns
<1>5. \A c \in DOMAIN NameRefs : IsColumn(q.name[c], Count(q, NameRefs[c][1]))
  BY <1>1 DEF Retouched, Columns
<1>6. \A c \in DOMAIN DataCols : IsColumn(q.data[c], Len(m.data[c])) /\ Len(q.data[c]) = Len(m.data[c])
  <2>1. \A c \in DOMAIN DataCols : IsColumn(q.data[c], Len(m.data[c]))
    BY DEF Retouched, Columns
  <2>2. QED BY <2>1, ColumnFacts
<1>7. QED BY <1>1, <1>2, <1>3, <1>4, <1>5, <1>6 DEF Columns

\* Overwriting entries leaves the side tables in step.
LEMMA RetouchedBacked ==
  ASSUME NEW m, NEW q, Retouched(m, q), Backed(m)
  PROVE  Backed(q)
<1>1. SUFFICES ASSUME NEW k \in DOMAIN TypeColumn PROVE Keyed(q, k) /\ Indexed(q, k)
  BY DEF Backed
<1>2. Keyed(m, k) /\ Indexed(m, k)
  BY DEF Backed
<1>3. /\ q.rows[k] = m.rows[k] /\ q.data[TypeColumn[k]] = m.data[TypeColumn[k]]
      /\ \A t \in SideTables(k) : q.rows[t] = m.rows[t] /\ q.ref[Join[t]] = m.ref[Join[t]]
      /\ q.subtype_row[k] = m.subtype_row[k]
  BY DEF Retouched, SideTables
<1>4. QED BY <1>2, <1>3, KeyedFrame, IndexedFrame

-----------------------------------------------------------------------------
(* Clearing and renumbering references *)

JoinCols == {Join[t] : t \in DOMAIN Join}

\* The parts of a model, and the indices of its columns.
LEMMA ColumnsDomain ==
  ASSUME NEW m, Columns(m)
  PROVE  /\ DOMAIN m = {"rows", "ref", "name", "data", "subtype_row", "mat"}
         /\ DOMAIN m.rows = Kinds /\ DOMAIN m.ref = DOMAIN Refs /\ DOMAIN m.name = DOMAIN NameRefs
         /\ DOMAIN m.data = DOMAIN DataCols /\ DOMAIN m.subtype_row = DOMAIN TypeColumn
         /\ \A k \in Kinds : Count(m, k) \in Nat /\ DOMAIN m.rows[k] = Positions(m, k)
         /\ \A c \in DOMAIN Refs : DOMAIN m.ref[c] = Positions(m, Refs[c][1])
         /\ \A c \in DOMAIN NameRefs : DOMAIN m.name[c] = Positions(m, NameRefs[c][1])
         /\ \A c \in DOMAIN DataCols : /\ IsColumn(m.data[c], Len(m.data[c]))
                                       /\ Len(m.data[c]) >= Count(m, DataCols[c][1])
<1>1. /\ DOMAIN m = {"rows", "ref", "name", "data", "subtype_row", "mat"}
      /\ DOMAIN m.rows = Kinds /\ DOMAIN m.ref = DOMAIN Refs /\ DOMAIN m.name = DOMAIN NameRefs
      /\ DOMAIN m.data = DOMAIN DataCols /\ DOMAIN m.subtype_row = DOMAIN TypeColumn
  BY Zenon DEF Columns
<1>2. \A k \in Kinds : Count(m, k) \in Nat /\ DOMAIN m.rows[k] = Positions(m, k)
  <2>1. TAKE k \in Kinds
  <2>2. IsColumn(m.rows[k], Count(m, k))
    BY DEF Columns
  <2>3. QED BY <2>2, ColumnFacts DEF Positions
<1>3. \A c \in DOMAIN Refs : DOMAIN m.ref[c] = Positions(m, Refs[c][1])
  <2>1. TAKE c \in DOMAIN Refs
  <2>2. IsColumn(m.ref[c], Count(m, Refs[c][1]))
    BY DEF Columns
  <2>3. QED BY <2>2, ColumnFacts DEF Positions
<1>4. \A c \in DOMAIN NameRefs : DOMAIN m.name[c] = Positions(m, NameRefs[c][1])
  <2>1. TAKE c \in DOMAIN NameRefs
  <2>2. IsColumn(m.name[c], Count(m, NameRefs[c][1]))
    BY DEF Columns
  <2>3. QED BY <2>2, ColumnFacts DEF Positions
<1>5. \A c \in DOMAIN DataCols : /\ IsColumn(m.data[c], Len(m.data[c]))
                                 /\ Len(m.data[c]) >= Count(m, DataCols[c][1])
  <2>1. TAKE c \in DOMAIN DataCols
  <2>2. Count(m, DataCols[c][1]) \in Nat
    BY <1>2, DataSchema
  <2>3. /\ IsColumn(m.data[c], Len(m.data[c]))
        /\ \/ Len(m.data[c]) >= Count(m, DataCols[c][1])
           \/ Len(m.data[c]) = Count(m, DataCols[c][1])
    BY Zenon DEF Columns
  <2>4. QED BY <2>2, <2>3
<1>6. QED BY <1>1, <1>2, <1>3, <1>4, <1>5

\* renumber_refs and the clearing of a column keep its length.
LEMMA MapColumn ==
  ASSUME NEW s, NEW n, IsColumn(s, n), NEW i, NEW v, NEW none
  PROVE  IsColumn(renumber_refs(s, i), n) /\ IsColumn(Nullified(s, v, none), n)
BY ColumnFacts DEF IsColumn, renumber_refs, Nullified

\* A model whose columns keep their length, keys and types is Retouched.
LEMMA RetouchedSame ==
  ASSUME NEW m, NEW q, Columns(m), DOMAIN q = DOMAIN m,
         q.rows = m.rows, q.subtype_row = m.subtype_row, q.mat = m.mat,
         DOMAIN q.ref = DOMAIN Refs, DOMAIN q.name = DOMAIN NameRefs, DOMAIN q.data = DOMAIN DataCols,
         \A c \in DOMAIN Refs : q.ref[c] = m.ref[c] \/ (c \notin JoinCols /\ IsColumn(q.ref[c], Count(m, Refs[c][1]))),
         \A c \in DOMAIN NameRefs : q.name[c] = m.name[c] \/ IsColumn(q.name[c], Count(m, NameRefs[c][1])),
         \A c \in DOMAIN DataCols : q.data[c] = m.data[c] \/ (c \notin {"node_type", "link_type"} /\ IsColumn(q.data[c], Len(m.data[c])))
  PROVE  Retouched(m, q)
<1>1. \A c \in DOMAIN m.ref : IsColumn(q.ref[c], Count(m, Refs[c][1]))
  BY DEF Columns
<1>2. \A c \in DOMAIN m.name : IsColumn(q.name[c], Count(m, NameRefs[c][1]))
  BY DEF Columns
<1>3. \A c \in DOMAIN m.data : IsColumn(q.data[c], Len(m.data[c]))
  BY DEF Columns
<1>4. \A t \in DOMAIN Join : q.ref[Join[t]] = m.ref[Join[t]]
  BY JoinSchema DEF JoinCols
<1>5. \A k \in DOMAIN TypeColumn : q.data[TypeColumn[k]] = m.data[TypeColumn[k]]
  <2>1. \A k \in DOMAIN TypeColumn : TypeColumn[k] \in {"node_type", "link_type"}
    BY DEF TypeColumn
  <2>2. QED BY <2>1, TypeSchema
<1>6. QED BY <1>1, <1>2, <1>3, <1>4, <1>5 DEF Retouched, Columns

\* What Nullify does to each column.
LEMMA NullifyFacts ==
  ASSUME NEW m, Columns(m), NEW C, C \cap JoinCols = {}, NEW i
  PROVE  /\ Retouched(m, Nullify(m, C, i))
         /\ Nullify(m, C, i).name = m.name /\ Nullify(m, C, i).data = m.data
         /\ \A c \in DOMAIN Refs :
              Nullify(m, C, i).ref[c] = IF c \in C THEN Nullified(m.ref[c], i, 0) ELSE m.ref[c]
<1> DEFINE q == Nullify(m, C, i)
<1>1. /\ DOMAIN q = DOMAIN m /\ q.rows = m.rows /\ q.name = m.name /\ q.data = m.data
      /\ q.subtype_row = m.subtype_row /\ q.mat = m.mat
      /\ q.ref = [c \in DOMAIN m.ref |-> IF c \in C THEN Nullified(m.ref[c], i, 0) ELSE m.ref[c]]
  BY ColumnsDomain DEF Nullify
<1>2. /\ DOMAIN q.ref = DOMAIN Refs
      /\ \A c \in DOMAIN Refs : q.ref[c] = IF c \in C THEN Nullified(m.ref[c], i, 0) ELSE m.ref[c]
  <2>1. DOMAIN m.ref = DOMAIN Refs
    BY ColumnsDomain
  <2> HIDE DEF q
  <2>2. QED BY <1>1, <2>1
<1> HIDE DEF q
<1>3. \A c \in DOMAIN Refs : c \in C => c \notin JoinCols /\ IsColumn(q.ref[c], Count(m, Refs[c][1]))
  <2>1. TAKE c \in DOMAIN Refs
  <2>2. HAVE c \in C
  <2>3. IsColumn(m.ref[c], Count(m, Refs[c][1]))
    BY DEF Columns
  <2>4. IsColumn(q.ref[c], Count(m, Refs[c][1]))
    BY <1>2, <2>2, <2>3, MapColumn
  <2>5. QED BY <2>2, <2>4
<1>4. Retouched(m, q)
  <2>1. DOMAIN q.ref = DOMAIN Refs /\ DOMAIN q.name = DOMAIN NameRefs /\ DOMAIN q.data = DOMAIN DataCols
    BY <1>1, <1>2, ColumnsDomain
  <2>2. \A c \in DOMAIN Refs :
          q.ref[c] = m.ref[c] \/ (c \notin JoinCols /\ IsColumn(q.ref[c], Count(m, Refs[c][1])))
    BY <1>1, <1>2, <1>3
  <2>3. \A c \in DOMAIN NameRefs : q.name[c] = m.name[c] \/ IsColumn(q.name[c], Count(m, NameRefs[c][1]))
    BY <1>1, <1>2, <1>3
  <2>4. QED BY <1>1, <2>1, <2>2, <2>3, RetouchedSame, Zenon
<1>5. QED BY <1>1, <1>2, <1>4 DEF q

\* What Renumber does to each column, if it renumbers no keys.
LEMMA RenumberFacts ==
  ASSUME NEW m, Columns(m), NEW C, C \cap JoinCols = {}, NEW i
  PROVE  /\ Retouched(m, Renumber(m, C, i))
         /\ Renumber(m, C, i).name = m.name /\ Renumber(m, C, i).data = m.data
         /\ \A c \in DOMAIN Refs :
              Renumber(m, C, i).ref[c] = IF c \in C THEN renumber_refs(m.ref[c], i) ELSE m.ref[c]
<1> DEFINE q == Renumber(m, C, i)
<1>1. /\ DOMAIN q = DOMAIN m /\ q.rows = m.rows /\ q.name = m.name /\ q.data = m.data
      /\ q.subtype_row = m.subtype_row /\ q.mat = m.mat
      /\ q.ref = [c \in DOMAIN m.ref |-> IF c \in C THEN renumber_refs(m.ref[c], i) ELSE m.ref[c]]
  BY ColumnsDomain DEF Renumber
<1>2. /\ DOMAIN q.ref = DOMAIN Refs
      /\ \A c \in DOMAIN Refs : q.ref[c] = IF c \in C THEN renumber_refs(m.ref[c], i) ELSE m.ref[c]
  <2>1. DOMAIN m.ref = DOMAIN Refs
    BY ColumnsDomain
  <2> HIDE DEF q
  <2>2. QED BY <1>1, <2>1
<1> HIDE DEF q
<1>3. \A c \in DOMAIN Refs : c \in C => c \notin JoinCols /\ IsColumn(q.ref[c], Count(m, Refs[c][1]))
  <2>1. TAKE c \in DOMAIN Refs
  <2>2. HAVE c \in C
  <2>3. IsColumn(m.ref[c], Count(m, Refs[c][1]))
    BY DEF Columns
  <2>4. IsColumn(q.ref[c], Count(m, Refs[c][1]))
    BY <1>2, <2>2, <2>3, MapColumn
  <2>5. QED BY <2>2, <2>4
<1>4. Retouched(m, q)
  <2>1. DOMAIN q.ref = DOMAIN Refs /\ DOMAIN q.name = DOMAIN NameRefs /\ DOMAIN q.data = DOMAIN DataCols
    BY <1>1, <1>2, ColumnsDomain
  <2>2. \A c \in DOMAIN Refs :
          q.ref[c] = m.ref[c] \/ (c \notin JoinCols /\ IsColumn(q.ref[c], Count(m, Refs[c][1])))
    BY <1>1, <1>2, <1>3
  <2>3. \A c \in DOMAIN NameRefs : q.name[c] = m.name[c] \/ IsColumn(q.name[c], Count(m, NameRefs[c][1]))
    BY <1>1, <1>2, <1>3
  <2>4. QED BY <1>1, <2>1, <2>2, <2>3, RetouchedSame, Zenon
<1>5. QED BY <1>1, <1>2, <1>4 DEF q

\* ClearName changes names only.
LEMMA ClearNameFacts ==
  ASSUME NEW m, Columns(m), NEW C, NEW n
  PROVE  /\ Retouched(m, ClearName(m, C, n))
         /\ ClearName(m, C, n).ref = m.ref /\ ClearName(m, C, n).data = m.data
<1> DEFINE q == ClearName(m, C, n)
<1>1. /\ DOMAIN q = DOMAIN m /\ q.rows = m.rows /\ q.ref = m.ref /\ q.data = m.data
      /\ q.subtype_row = m.subtype_row /\ q.mat = m.mat
      /\ q.name = [c \in DOMAIN m.name |-> IF c \in C THEN Nullified(m.name[c], n, NoName) ELSE m.name[c]]
  BY ColumnsDomain DEF ClearName
<1>2. /\ DOMAIN q.name = DOMAIN NameRefs
      /\ \A c \in DOMAIN NameRefs : q.name[c] = IF c \in C THEN Nullified(m.name[c], n, NoName) ELSE m.name[c]
  <2>1. DOMAIN m.name = DOMAIN NameRefs
    BY ColumnsDomain
  <2> HIDE DEF q
  <2>2. QED BY <1>1, <2>1
<1> HIDE DEF q
<1>3. \A c \in DOMAIN NameRefs : c \in C => IsColumn(q.name[c], Count(m, NameRefs[c][1]))
  <2>1. TAKE c \in DOMAIN NameRefs
  <2>2. HAVE c \in C
  <2>3. IsColumn(m.name[c], Count(m, NameRefs[c][1]))
    BY DEF Columns
  <2>4. QED BY <1>2, <2>2, <2>3, MapColumn
<1>4. Retouched(m, q)
  <2>1. DOMAIN q.ref = DOMAIN Refs /\ DOMAIN q.name = DOMAIN NameRefs /\ DOMAIN q.data = DOMAIN DataCols
    BY <1>1, <1>2, ColumnsDomain
  <2>2. \A c \in DOMAIN Refs :
          q.ref[c] = m.ref[c] \/ (c \notin JoinCols /\ IsColumn(q.ref[c], Count(m, Refs[c][1])))
    BY <1>1, <1>2, <1>3
  <2>3. \A c \in DOMAIN NameRefs : q.name[c] = m.name[c] \/ IsColumn(q.name[c], Count(m, NameRefs[c][1]))
    BY <1>1, <1>2, <1>3
  <2>4. QED BY <1>1, <2>1, <2>2, <2>3, RetouchedSame, Zenon
<1>5. QED BY <1>1, <1>4 DEF q

-----------------------------------------------------------------------------
(* Erasing rows *)

\* The entries of column s at the indices K, in their order.
Selected(s, K) == [j \in 1 .. Cardinality(K) |-> s[Ascending(K)[j]]]
Left(m, gone, k) == Positions(m, k) \ gone[k]

\* A selection has as many entries as indices were selected.
LEMMA SelectedFacts ==
  ASSUME NEW n \in Nat, NEW s, NEW K, K \subseteq 1 .. n
  PROVE  /\ Cardinality(K) \in Nat /\ Cardinality(K) <= n
         /\ IsColumn(Selected(s, K), Cardinality(K))
         /\ Len(Selected(s, K)) = Cardinality(K)
<1>1. IsFiniteSet(1 .. n) /\ Cardinality(1 .. n) = n
  BY FS_Interval
<1>2. IsFiniteSet(K) /\ Cardinality(K) <= n
  BY <1>1, FS_Subset
<1>3. Cardinality(K) \in Nat
  BY <1>2, FS_CardinalityType
<1>4. IsColumn(Selected(s, K), Cardinality(K))
  BY <1>3 DEF IsColumn, Selected
<1>5. QED BY <1>2, <1>3, <1>4, ColumnFacts

\* What EraseAll does to each column.
LEMMA EraseAllColumns ==
  ASSUME NEW m, Columns(m), NEW gone, NEW q, q = EraseAll(m, gone)
  PROVE  /\ DOMAIN q = DOMAIN m /\ q.subtype_row = m.subtype_row /\ q.mat = m.mat
         /\ DOMAIN q.rows = DOMAIN m.rows /\ DOMAIN q.ref = DOMAIN m.ref
         /\ DOMAIN q.name = DOMAIN m.name /\ DOMAIN q.data = DOMAIN m.data
         /\ \A k \in Kinds :
              q.rows[k] = IF k \in DOMAIN gone THEN Selected(m.rows[k], Left(m, gone, k))
                          ELSE m.rows[k]
         /\ \A c \in DOMAIN Refs :
              q.ref[c] = IF Refs[c][1] \in DOMAIN gone
                         THEN Selected(m.ref[c], Left(m, gone, Refs[c][1])) ELSE m.ref[c]
         /\ \A c \in DOMAIN NameRefs :
              q.name[c] = IF NameRefs[c][1] \in DOMAIN gone
                          THEN Selected(m.name[c], Left(m, gone, NameRefs[c][1])) ELSE m.name[c]
         /\ \A c \in DOMAIN DataCols :
              q.data[c] = IF c \notin NotErased /\ DataCols[c][1] \in DOMAIN gone
                          THEN Selected(m.data[c], Left(m, gone, DataCols[c][1])) ELSE m.data[c]
<1> DEFINE keep == [k \in DOMAIN gone |-> Ascending(Positions(m, k) \ gone[k])]
           Without(s, k) == IF k \in DOMAIN gone THEN [j \in DOMAIN keep[k] |-> s[keep[k][j]]] ELSE s
<1>1. \A s, k : Without(s, k) = IF k \in DOMAIN gone THEN Selected(s, Left(m, gone, k)) ELSE s
  BY DEF Selected, Left, Ascending
<1>2. q = [m EXCEPT
            !.rows = [k \in DOMAIN @ |-> Without(@[k], k)],
            !.ref = [c \in DOMAIN @ |-> Without(@[c], Refs[c][1])],
            !.name = [c \in DOMAIN @ |-> Without(@[c], NameRefs[c][1])],
            !.data = [c \in DOMAIN @ |->
                        IF c \in NotErased THEN @[c] ELSE Without(@[c], DataCols[c][1])]]
  BY DEF EraseAll
<1> HIDE DEF Without, keep
<1>3. /\ DOMAIN q = DOMAIN m /\ q.subtype_row = m.subtype_row /\ q.mat = m.mat
      /\ q.rows = [k \in DOMAIN m.rows |-> Without(m.rows[k], k)]
      /\ q.ref = [c \in DOMAIN m.ref |-> Without(m.ref[c], Refs[c][1])]
      /\ q.name = [c \in DOMAIN m.name |-> Without(m.name[c], NameRefs[c][1])]
      /\ q.data = [c \in DOMAIN m.data |->
                     IF c \in NotErased THEN m.data[c] ELSE Without(m.data[c], DataCols[c][1])]
  BY <1>2, ColumnsDomain
<1>4. /\ DOMAIN m.rows = Kinds /\ DOMAIN m.ref = DOMAIN Refs
      /\ DOMAIN m.name = DOMAIN NameRefs /\ DOMAIN m.data = DOMAIN DataCols
  BY ColumnsDomain
<1>5. QED BY <1>1, <1>3, <1>4

\* Erasing rows leaves the tables rectangular.
LEMMA EraseAllSound ==
  ASSUME NEW m, Columns(m), NEW gone, NEW q, q = EraseAll(m, gone)
  PROVE  /\ Columns(q)
         /\ \A k \in Kinds : k \in DOMAIN gone =>
              /\ Count(q, k) = Cardinality(Left(m, gone, k)) /\ Count(q, k) <= Count(m, k)
              /\ Left(m, gone, k) \subseteq 1 .. Count(m, k)
         /\ \A k \in Kinds : k \notin DOMAIN gone => Count(q, k) = Count(m, k)
<1>1. \A k \in Kinds : Count(m, k) \in Nat /\ Positions(m, k) = 1 .. Count(m, k)
  BY ColumnsDomain DEF Positions
<1>2. \A k \in Kinds : Left(m, gone, k) \subseteq 1 .. Count(m, k)
  BY <1>1 DEF Left
<1>3. \A k \in Kinds : \A s :
                          /\ Cardinality(Left(m, gone, k)) \in Nat
                          /\ Cardinality(Left(m, gone, k)) <= Count(m, k)
                          /\ IsColumn(Selected(s, Left(m, gone, k)), Cardinality(Left(m, gone, k)))
                          /\ Len(Selected(s, Left(m, gone, k))) = Cardinality(Left(m, gone, k))
  BY <1>1, <1>2, SelectedFacts
<1>4. \A k \in Kinds :
        Count(q, k) = IF k \in DOMAIN gone THEN Cardinality(Left(m, gone, k)) ELSE Count(m, k)
  BY <1>3, EraseAllColumns DEF Count
<1>5. \A k \in Kinds : Count(q, k) <= Count(m, k) /\ Count(q, k) \in Nat
  BY <1>1, <1>3, <1>4
<1>6. \A k \in Kinds : IsColumn(q.rows[k], Count(q, k))
  <2>1. TAKE k \in Kinds
  <2>2. IsColumn(m.rows[k], Count(m, k))
    BY DEF Columns
  <2>3. QED BY <1>3, <1>4, <2>2, EraseAllColumns
<1>7. \A c \in DOMAIN Refs : IsColumn(q.ref[c], Count(q, Refs[c][1]))
  <2>1. TAKE c \in DOMAIN Refs
  <2>2. IsColumn(m.ref[c], Count(m, Refs[c][1])) /\ Refs[c][1] \in Kinds
    BY RefSchema DEF Columns
  <2>3. q.ref[c] = IF Refs[c][1] \in DOMAIN gone
                   THEN Selected(m.ref[c], Left(m, gone, Refs[c][1])) ELSE m.ref[c]
    BY EraseAllColumns
  <2>4. QED BY <1>3, <1>4, <2>2, <2>3
<1>8. \A c \in DOMAIN NameRefs : IsColumn(q.name[c], Count(q, NameRefs[c][1]))
  <2>1. TAKE c \in DOMAIN NameRefs
  <2>2. IsColumn(m.name[c], Count(m, NameRefs[c][1])) /\ NameRefs[c][1] \in Kinds
    BY NameSchema DEF Columns
  <2>3. q.name[c] = IF NameRefs[c][1] \in DOMAIN gone
                    THEN Selected(m.name[c], Left(m, gone, NameRefs[c][1])) ELSE m.name[c]
    BY EraseAllColumns
  <2>4. QED BY <1>3, <1>4, <2>2, <2>3
<1>9. \A c \in DOMAIN DataCols :
        /\ IsColumn(q.data[c], Len(q.data[c]))
        /\ IF c \in NotErased THEN Len(q.data[c]) >= Count(q, DataCols[c][1])
           ELSE Len(q.data[c]) = Count(q, DataCols[c][1])
  <2>1. TAKE c \in DOMAIN DataCols
  <2> DEFINE k == DataCols[c][1]
  <2>2. k \in Kinds /\ IsColumn(m.data[c], Len(m.data[c])) /\ Len(m.data[c]) \in Nat
    <3>1. k \in Kinds /\ IsColumn(m.data[c], Len(m.data[c]))
      BY DataSchema, ColumnsDomain
    <3>2. QED BY <3>1, ColumnFacts
  <2>3. q.data[c] = IF c \notin NotErased /\ k \in DOMAIN gone
                    THEN Selected(m.data[c], Left(m, gone, k)) ELSE m.data[c]
    BY EraseAllColumns
  <2>4. IF c \in NotErased THEN Len(m.data[c]) >= Count(m, k) ELSE Len(m.data[c]) = Count(m, k)
    BY Zenon DEF Columns
  <2> HIDE DEF k
  <2>5. Count(q, k) <= Count(m, k) /\ Count(q, k) \in Nat /\ Count(m, k) \in Nat
    BY <1>1, <1>5, <2>2
  <2>6. CASE c \notin NotErased /\ k \in DOMAIN gone
    <3>1. /\ IsColumn(q.data[c], Cardinality(Left(m, gone, k)))
          /\ Len(q.data[c]) = Cardinality(Left(m, gone, k)) /\ Count(q, k) = Len(q.data[c])
      BY <1>3, <1>4, <2>2, <2>3, <2>6
    <3>2. QED BY <2>6, <3>1 DEF k
  <2>7. CASE ~ (c \notin NotErased /\ k \in DOMAIN gone)
    <3>1. q.data[c] = m.data[c]
      BY <2>3, <2>7
    <3>2. c \notin NotErased => Count(q, k) = Count(m, k)
      BY <1>4, <2>2, <2>7
    <3>3. QED BY <2>2, <2>4, <2>5, <3>1, <3>2 DEF k
  <2>8. QED BY <2>6, <2>7
<1>10. /\ DOMAIN q = {"rows", "ref", "name", "data", "subtype_row", "mat"}
       /\ DOMAIN q.rows = Kinds /\ DOMAIN q.ref = DOMAIN Refs /\ DOMAIN q.name = DOMAIN NameRefs
       /\ DOMAIN q.data = DOMAIN DataCols /\ DOMAIN q.subtype_row = DOMAIN TypeColumn
  BY EraseAllColumns, ColumnsDomain
<1>11. Columns(q)
  BY <1>6, <1>7, <1>8, <1>9, <1>10, Zenon DEF Columns
<1>12. QED BY <1>2, <1>4, <1>5, <1>11

-----------------------------------------------------------------------------
(* Clearing references and erasing the rows that only refer *)

\* The tables a deletion cascades into; nothing refers to their rows.
Cascaded == {"ext_inflows", "dwf_inflows", "rdii_assigns", "lid_usage", "inlet_usages"}
Main == Kinds \ (DOMAIN Join \cup Cascaded)

\* What is referred to is neither a side table nor a table that only refers.
LEMMA MainSchema ==
  /\ \A c \in DOMAIN Refs : Refs[c][2] \in Main
  /\ \A k \in {"nodes", "links", "subcatches", "gages", "transects", "pollutants", "landuses",
               "tables", "patterns", "aquifers", "snowpacks", "lid_controls", "streets", "inlets",
               "unit_hyds"} : k \in Main
  /\ Cascaded \subseteq Kinds /\ Cascaded \cap DOMAIN Join = {}
  /\ Cascaded \cap {"nodes", "links"} = {}
<1>1. \A c \in DOMAIN Refs : Refs[c][2] \notin Cascaded
  BY DEF Refs, Cascaded
<1>2. \A c \in DOMAIN Refs : Refs[c][2] \in Main
  BY <1>1, RefSchema DEF Main
<1>3. \A k \in {"nodes", "links", "subcatches", "gages", "transects", "pollutants", "landuses",
               "tables", "patterns", "aquifers", "snowpacks", "lid_controls", "streets", "inlets",
               "unit_hyds"} : k \in Main
  BY TableKinds DEF Main, Cascaded
<1>4. Cascaded \subseteq Kinds /\ Cascaded \cap DOMAIN Join = {}
  BY TableKinds DEF Cascaded
<1>5. Cascaded \cap {"nodes", "links"} = {}
  BY DEF Cascaded
<1>6. QED BY <1>2, <1>3, <1>4, <1>5

\* Nodes, links and their side tables are where they were.
Framed(m, q) ==
  /\ \A k \in DOMAIN TypeColumn :
       /\ q.rows[k] = m.rows[k] /\ q.data[TypeColumn[k]] = m.data[TypeColumn[k]]
       /\ q.subtype_row[k] = m.subtype_row[k]
  /\ \A t \in DOMAIN Join : q.rows[t] = m.rows[t] /\ q.ref[Join[t]] = m.ref[Join[t]]

\* The side tables stay in step while they, the nodes and the links stay.
LEMMA FramedBacked ==
  ASSUME NEW m, NEW q, Framed(m, q), Backed(m)
  PROVE  Backed(q)
<1>1. SUFFICES ASSUME NEW k \in DOMAIN TypeColumn PROVE Keyed(q, k) /\ Indexed(q, k)
  BY DEF Backed
<1>2. Keyed(m, k) /\ Indexed(m, k)
  BY DEF Backed
<1>3. /\ q.rows[k] = m.rows[k] /\ q.data[TypeColumn[k]] = m.data[TypeColumn[k]]
      /\ \A t \in SideTables(k) : q.rows[t] = m.rows[t] /\ q.ref[Join[t]] = m.ref[Join[t]]
      /\ q.subtype_row[k] = m.subtype_row[k]
  BY DEF Framed, SideTables
<1>4. QED BY <1>2, <1>3, KeyedFrame, IndexedFrame

\* Every reference of q is one of m or cleared.
Drawn(m, q) ==
  \A c \in DOMAIN Refs \ JoinCols : \A r \in DOMAIN q.ref[c] :
    q.ref[c][r] = 0 \/ \E r0 \in DOMAIN m.ref[c] : q.ref[c][r] = m.ref[c][r0]

\* References that are those of before or cleared, twice over
LEMMA DrawnTransitive ==
  ASSUME NEW m, NEW p, NEW q, Drawn(m, p), Drawn(p, q)
  PROVE  Drawn(m, q)
<1>1. SUFFICES ASSUME NEW c \in DOMAIN Refs \ JoinCols, NEW r \in DOMAIN q.ref[c], q.ref[c][r] # 0
               PROVE  \E r0 \in DOMAIN m.ref[c] : q.ref[c][r] = m.ref[c][r0]
  BY DEF Drawn
<1>2. PICK r1 \in DOMAIN p.ref[c] : q.ref[c][r] = p.ref[c][r1]
  BY <1>1 DEF Drawn
<1>3. QED BY <1>1, <1>2 DEF Drawn

\* Clearing and erasing make no new reference.
LEMMA DrawnClear ==
  ASSUME NEW m, NEW q, Drawn(m, q), NEW c \in DOMAIN Refs \ JoinCols, NEW i, i # 0,
         RowsAt(m, c, i) = {}
  PROVE  RowsAt(q, c, i) = {}
BY DEF Drawn, RowsAt

\* References are cleared and rows of cascaded tables go, and nothing else.
Trimmed(m, q) ==
  /\ Columns(q) /\ Framed(m, q) /\ Drawn(m, q)
  /\ \A k \in Main : q.rows[k] = m.rows[k]
  /\ q.mat = m.mat

\* Trimming twice is trimming.
LEMMA TrimmedTransitive ==
  ASSUME NEW m, NEW p, NEW q, Trimmed(m, p), Trimmed(p, q)
  PROVE  Trimmed(m, q)
<1>1. Framed(m, q)
  BY DEF Trimmed, Framed
<1>2. Drawn(m, q)
  BY DrawnTransitive DEF Trimmed
<1>3. QED BY <1>1, <1>2 DEF Trimmed

\* Clearing references is trimming.
LEMMA RetouchedTrimmed ==
  ASSUME NEW m, NEW q, Columns(m), Retouched(m, q), Drawn(m, q)
  PROVE  Trimmed(m, q)
<1>1. Columns(q)
  BY RetouchedColumns
<1>2. Framed(m, q)
  BY DEF Retouched, Framed
<1>3. QED BY <1>1, <1>2 DEF Trimmed, Retouched

\* After Nullify the columns it clears hold no reference to i.
LEMMA NullifyTrimmed ==
  ASSUME NEW m, Columns(m), NEW C, C \cap JoinCols = {}, NEW i
  PROVE  /\ Trimmed(m, Nullify(m, C, i))
         /\ i # 0 => \A c \in DOMAIN Refs : c \in C => RowsAt(Nullify(m, C, i), c, i) = {}
<1> DEFINE q == Nullify(m, C, i)
<1>1. /\ Retouched(m, q)
      /\ \A c \in DOMAIN Refs : q.ref[c] = IF c \in C THEN Nullified(m.ref[c], i, 0) ELSE m.ref[c]
  BY NullifyFacts
<1> HIDE DEF q
<1>2. Drawn(m, q)
  BY <1>1 DEF Drawn, Nullified
<1>3. ASSUME i # 0, NEW c \in DOMAIN Refs, c \in C PROVE RowsAt(q, c, i) = {}
  <2>1. q.ref[c] = Nullified(m.ref[c], i, 0)
    BY <1>1, <1>3
  <2>2. QED BY <1>3, <2>1 DEF RowsAt, Nullified
<1>4. Trimmed(m, q)
  BY <1>1, <1>2, RetouchedTrimmed
<1>5. QED BY <1>3, <1>4 DEF q

\* Clearing a name is trimming.
LEMMA ClearNameTrimmed ==
  ASSUME NEW m, Columns(m), NEW C, NEW n
  PROVE  Trimmed(m, ClearName(m, C, n))
<1>1. Retouched(m, ClearName(m, C, n)) /\ ClearName(m, C, n).ref = m.ref
  BY ClearNameFacts
<1>2. Drawn(m, ClearName(m, C, n))
  BY <1>1 DEF Drawn
<1>3. QED BY <1>1, <1>2, RetouchedTrimmed

\* The rows K of table k stay.
Erased(m, q, k, K) ==
  /\ Columns(q) /\ q.subtype_row = m.subtype_row /\ q.mat = m.mat
  /\ \A t \in Kinds \ {k} : q.rows[t] = m.rows[t]
  /\ Count(q, k) = Cardinality(K) /\ q.rows[k] = Selected(m.rows[k], K)
  /\ Count(q, k) <= Count(m, k) /\ K \subseteq 1 .. Count(m, k)
  /\ \A c \in DOMAIN Refs :
       q.ref[c] = IF Refs[c][1] = k THEN Selected(m.ref[c], K) ELSE m.ref[c]
  /\ \A c \in DOMAIN NameRefs :
       q.name[c] = IF NameRefs[c][1] = k THEN Selected(m.name[c], K) ELSE m.name[c]
  /\ \A c \in DOMAIN DataCols :
       q.data[c] = IF c \notin NotErased /\ DataCols[c][1] = k
                   THEN Selected(m.data[c], K) ELSE m.data[c]

\* EraseRows leaves the rows that are not in P, in their order.
LEMMA EraseRowsFacts ==
  ASSUME NEW m, Columns(m), NEW k \in Kinds, NEW P
  PROVE  Erased(m, EraseRows(m, k, P), k, Positions(m, k) \ P)
<1> DEFINE gone == [t \in {k} |-> P]
           q == EraseRows(m, k, P)
           K == Positions(m, k) \ P
<1>1. q = EraseAll(m, gone) /\ DOMAIN gone = {k} /\ Left(m, gone, k) = K
  BY DEF EraseRows, Left
<1> HIDE DEF gone, q, K
<1>2. Columns(q) /\ Count(q, k) = Cardinality(K) /\ Count(q, k) <= Count(m, k) /\ K \subseteq 1 .. Count(m, k)
  <2>1. k \in DOMAIN gone
    BY <1>1
  <2>2. QED BY <1>1, <2>1, EraseAllSound
<1>3. /\ q.subtype_row = m.subtype_row /\ q.mat = m.mat
      /\ \A t \in Kinds : q.rows[t] = IF t \in {k} THEN Selected(m.rows[t], Left(m, gone, t)) ELSE m.rows[t]
      /\ \A c \in DOMAIN Refs :
           q.ref[c] = IF Refs[c][1] \in {k} THEN Selected(m.ref[c], Left(m, gone, Refs[c][1]))
                      ELSE m.ref[c]
      /\ \A c \in DOMAIN NameRefs :
           q.name[c] = IF NameRefs[c][1] \in {k} THEN Selected(m.name[c], Left(m, gone, NameRefs[c][1]))
                       ELSE m.name[c]
      /\ \A c \in DOMAIN DataCols :
           q.data[c] = IF c \notin NotErased /\ DataCols[c][1] \in {k}
                       THEN Selected(m.data[c], Left(m, gone, DataCols[c][1])) ELSE m.data[c]
  BY <1>1, EraseAllColumns
<1>4. /\ \A t \in Kinds \ {k} : q.rows[t] = m.rows[t]
      /\ q.rows[k] = Selected(m.rows[k], K)
  BY <1>1, <1>3
<1>5. \A c \in DOMAIN Refs :
        q.ref[c] = IF Refs[c][1] = k THEN Selected(m.ref[c], K) ELSE m.ref[c]
  BY <1>1, <1>3
<1>6. \A c \in DOMAIN NameRefs :
        q.name[c] = IF NameRefs[c][1] = k THEN Selected(m.name[c], K) ELSE m.name[c]
  <2>1. TAKE c \in DOMAIN NameRefs
  <2>2. q.name[c] = IF NameRefs[c][1] \in {k} THEN Selected(m.name[c], Left(m, gone, NameRefs[c][1]))
                    ELSE m.name[c]
    BY <1>3
  <2>3. QED BY <1>1, <2>2
<1>7. \A c \in DOMAIN DataCols :
        q.data[c] = IF c \notin NotErased /\ DataCols[c][1] = k THEN Selected(m.data[c], K) ELSE m.data[c]
  BY <1>1, <1>3
<1>8. Erased(m, q, k, K)
  BY <1>2, <1>3, <1>4, <1>5, <1>6, <1>7 DEF Erased
<1>9. QED BY <1>8 DEF q, K

Indices(K, n) == n \in Nat /\ K \subseteq 1 .. n

\* The entries of a column whose rows are selected are entries of the column.
LEMMA SelectedEntries ==
  ASSUME NEW n, NEW K, Indices(K, n), NEW s
  PROVE  /\ DOMAIN Selected(s, K) = 1 .. Cardinality(K)
         /\ \A j \in 1 .. Cardinality(K) :
              Ascending(K)[j] \in K /\ Selected(s, K)[j] = s[Ascending(K)[j]]
<1>1. \A j \in 1 .. Cardinality(K) : Ascending(K)[j] \in K
  BY AscendingFacts DEF Indices
<1>2. QED BY <1>1 DEF Selected

\* Erasing rows makes no new reference.
LEMMA ErasedDrawn ==
  ASSUME NEW m, Columns(m), NEW q, NEW k \in Kinds, NEW K, Erased(m, q, k, K)
  PROVE  Drawn(m, q)
<1>1. /\ K \subseteq 1 .. Count(m, k)
      /\ \A c \in DOMAIN Refs :
           q.ref[c] = IF Refs[c][1] = k THEN Selected(m.ref[c], K) ELSE m.ref[c]
  BY DEF Erased
<1>2. Positions(m, k) = 1 .. Count(m, k) /\ Indices(K, Count(m, k))
  BY <1>1, ColumnsDomain DEF Positions, Indices
<1>3. SUFFICES ASSUME NEW c \in DOMAIN Refs \ JoinCols, NEW r \in DOMAIN q.ref[c]
               PROVE  \E r0 \in DOMAIN m.ref[c] : q.ref[c][r] = m.ref[c][r0]
  BY DEF Drawn
<1>4. CASE Refs[c][1] = k
  <2>1. q.ref[c] = Selected(m.ref[c], K)
    BY <1>1, <1>4
  <2>2. r \in 1 .. Cardinality(K)
    BY <1>3, <2>1 DEF Selected
  <2>3. Ascending(K)[r] \in K /\ Selected(m.ref[c], K)[r] = m.ref[c][Ascending(K)[r]]
    BY <1>2, <2>2, SelectedEntries, Zenon
  <2>4. DOMAIN m.ref[c] = Positions(m, k)
    BY <1>4, ColumnsDomain
  <2>5. QED BY <1>1, <1>2, <2>1, <2>3, <2>4
<1>5. CASE Refs[c][1] # k
  BY <1>1, <1>3, <1>5
<1>6. QED BY <1>4, <1>5

\* A cascade: the rows of t that refer to i go.
LEMMA EraseCascaded ==
  ASSUME NEW m, Columns(m), NEW t \in Cascaded, NEW P
  PROVE  Trimmed(m, EraseRows(m, t, P))
<1> DEFINE q == EraseRows(m, t, P)
           K == Positions(m, t) \ P
<1>1. t \in Kinds /\ t \notin DOMAIN Join /\ t \notin {"nodes", "links"} /\ t \notin Main
  BY MainSchema DEF Main
<1>2. Erased(m, q, t, K)
  BY <1>1, EraseRowsFacts
<1> HIDE DEF q, K
<1>3. Drawn(m, q)
  BY <1>1, <1>2, ErasedDrawn
<1>4. \A k \in DOMAIN TypeColumn :
        /\ q.rows[k] = m.rows[k] /\ q.data[TypeColumn[k]] = m.data[TypeColumn[k]]
        /\ q.subtype_row[k] = m.subtype_row[k]
  BY <1>1, <1>2, TypeSchema DEF Erased
<1>5. \A j \in DOMAIN Join : q.rows[j] = m.rows[j] /\ q.ref[Join[j]] = m.ref[Join[j]]
  BY <1>1, <1>2, JoinSchema DEF Erased
<1>6. \A k \in Main : q.rows[k] = m.rows[k]
  BY <1>1, <1>2 DEF Main, Erased
<1>7. Trimmed(m, q)
  BY <1>2, <1>3, <1>4, <1>5, <1>6 DEF Trimmed, Framed, Erased
<1>8. QED BY <1>7 DEF q

\* A cascade by index is trimming, and leaves no reference to i.
LEMMA CascadeTrimmed ==
  ASSUME NEW m, Columns(m), NEW c \in DOMAIN Refs, NEW t \in Cascaded, Refs[c][1] = t, NEW i
  PROVE  /\ Trimmed(m, CascadeRows(m, t, c, i))
         /\ RowsAt(CascadeRows(m, t, c, i), c, i) = {}
<1> DEFINE q == EraseRows(m, t, RowsAt(m, c, i))
           K == Positions(m, t) \ RowsAt(m, c, i)
<1>1. CascadeRows(m, t, c, i) = q
  BY DEF CascadeRows
<1>2. Trimmed(m, q)
  BY EraseCascaded
<1>3. t \in Kinds
  BY RefSchema
<1>4. Erased(m, q, t, K)
  BY <1>3, EraseRowsFacts
<1>5. \A r \in K : m.ref[c][r] # i
  BY <1>3, ColumnsDomain DEF RowsAt
<1> HIDE DEF q, K
<1>6. q.ref[c] = Selected(m.ref[c], K) /\ Indices(K, Count(m, t))
  BY <1>3, <1>4, ColumnsDomain DEF Erased, Indices
<1>7. RowsAt(q, c, i) = {}
  <2>1. SUFFICES ASSUME NEW r \in DOMAIN q.ref[c] PROVE q.ref[c][r] # i
    BY DEF RowsAt
  <2>2. r \in 1 .. Cardinality(K)
    BY <1>6, <2>1 DEF Selected
  <2>3. Ascending(K)[r] \in K /\ Selected(m.ref[c], K)[r] = m.ref[c][Ascending(K)[r]]
    BY <1>6, <2>2, SelectedEntries, Zenon
  <2>4. QED BY <1>5, <1>6, <2>3
<1>8. QED BY <1>1, <1>2, <1>7

\* A cascade by name is trimming.
LEMMA CascadeNamedTrimmed ==
  ASSUME NEW m, Columns(m), NEW t \in Cascaded, NEW c, NEW n
  PROVE  Trimmed(m, CascadeNamed(m, t, c, n))
BY EraseCascaded DEF CascadeNamed

-----------------------------------------------------------------------------
(* Rebuilding the index *)

\* Only subtype_row[k] differs.
Reindexed(m, q, k) ==
  /\ DOMAIN q = DOMAIN m /\ q.rows = m.rows /\ q.ref = m.ref /\ q.name = m.name
  /\ q.data = m.data /\ q.mat = m.mat
  /\ DOMAIN q.subtype_row = DOMAIN m.subtype_row
  /\ \A o \in DOMAIN m.subtype_row : o # k => q.subtype_row[o] = m.subtype_row[o]

\* Setting the index of k touches neither the keys nor the other index.
LEMMA ReindexedFacts ==
  ASSUME NEW m, NEW q, NEW k, Columns(m), Reindexed(m, q, k)
  PROVE  /\ Columns(q)
         /\ \A o \in DOMAIN TypeColumn : Keyed(m, o) => Keyed(q, o)
         /\ \A o \in DOMAIN TypeColumn : o # k /\ Keyed(m, o) /\ Indexed(m, o) => Indexed(q, o)
<1>1. \A o : Count(q, o) = Count(m, o)
  BY DEF Reindexed, Count
<1>2. Columns(q)
  BY <1>1, Zenon DEF Reindexed, Columns
<1>3. \A o \in DOMAIN TypeColumn : Keyed(m, o) => Keyed(q, o)
  BY KeyedFrame DEF Reindexed
<1>4. ASSUME NEW o \in DOMAIN TypeColumn, o # k, Keyed(m, o), Indexed(m, o) PROVE Indexed(q, o)
  <2>1. q.subtype_row[o] = m.subtype_row[o]
    BY <1>4, ColumnsDomain DEF Reindexed
  <2>2. QED BY <1>4, <2>1, IndexedFrame DEF Reindexed
<1>5. QED BY <1>2, <1>3, <1>4

\* rebuild_index makes the index right, whatever it was, if the keys are.
LEMMA RebuildFacts ==
  ASSUME NEW m, NEW k \in DOMAIN TypeColumn, Columns(m), Keyed(m, k)
  PROVE  /\ Reindexed(m, rebuild_index(m, k), k)
         /\ Keyed(rebuild_index(m, k), k) /\ Indexed(rebuild_index(m, k), k)
<1> DEFINE RowOf(i) == UNION {RowsAt(m, Join[t], i) : t \in SideTables(k)}
           q == rebuild_index(m, k)
           n == Count(m, k)
           s == [i \in 1 .. n |-> IF RowOf(i) = {} THEN 0 ELSE CHOOSE r \in RowOf(i) : TRUE]
<1>1. q = [m EXCEPT !.subtype_row[k] = s]
  BY DEF rebuild_index
<1>2. k \in Kinds /\ n \in Nat /\ Positions(m, k) = 1 .. n
  BY TypeSchema, ColumnsDomain DEF Positions
<1>3. Reindexed(m, q, k) /\ q.subtype_row[k] = s
  <2>1. k \in DOMAIN m.subtype_row
    BY ColumnsDomain
  <2>2. DOMAIN m = {"rows", "ref", "name", "data", "subtype_row", "mat"}
    BY ColumnsDomain
  <2> HIDE DEF s, q
  <2>3. QED BY <1>1, <2>1, <2>2 DEF Reindexed
<1>4. Keyed(q, k)
  BY <1>3, ReindexedFacts
\* Only the owner's row carries the key i.
<1>5. ASSUME NEW i \in 1 .. n
      PROVE  IF TypeAt(m, k, i) = "JUNCTION" THEN s[i] = 0
             ELSE LET t == SideTable[TypeAt(m, k, i)]
                  IN s[i] \in Positions(m, t) /\ Key(m, t, s[i]) = i
  <2>1. s[i] = IF RowOf(i) = {} THEN 0 ELSE CHOOSE r \in RowOf(i) : TRUE
    OBVIOUS
  <2>2. ASSUME NEW r \in RowOf(i)
        PROVE  \E t \in SideTables(k) : r \in Positions(m, t) /\ Key(m, t, r) = i /\ Owned(m, k, t, i)
    <3>1. PICK t \in SideTables(k) : r \in RowsAt(m, Join[t], i)
      BY <2>2
    <3>2. t \in DOMAIN Join /\ Join[t] \in DOMAIN Refs /\ Refs[Join[t]][1] = t
      BY JoinSchema DEF SideTables
    <3>3. r \in Positions(m, t) /\ Key(m, t, r) = i
      BY <3>1, <3>2, ColumnsDomain DEF RowsAt, Key
    <3>4. Owned(m, k, t, Key(m, t, r))
      BY <3>3 DEF Keyed
    <3>5. QED BY <3>3, <3>4
  <2> HIDE DEF s
  <2>3. CASE TypeAt(m, k, i) = "JUNCTION"
    <3>1. RowOf(i) = {}
      BY <2>2, <2>3 DEF Owned
    <3>2. QED BY <2>1, <2>3, <3>1
  <2>4. CASE TypeAt(m, k, i) # "JUNCTION"
    <3> DEFINE t == SideTable[TypeAt(m, k, i)]
    <3>1. t \in SideTables(k)
      BY <1>2, <2>4, TypeSchema DEF Keyed
    <3>2. PICK r \in Positions(m, t) : Key(m, t, r) = i
      BY <1>2, <2>4, <3>1 DEF Keyed, Owned
    <3>3. t \in DOMAIN Join /\ Join[t] \in DOMAIN Refs /\ Refs[Join[t]][1] = t
      BY <3>1, JoinSchema DEF SideTables
    <3>4. r \in RowsAt(m, Join[t], i)
      BY <3>2, <3>3, ColumnsDomain DEF RowsAt, Key
    <3>5. RowOf(i) # {}
      BY <3>1, <3>4
    <3> HIDE DEF RowOf
    <3>6. s[i] \in RowOf(i)
      BY <2>1, <3>5
    <3>7. PICK v \in SideTables(k) : s[i] \in Positions(m, v) /\ Key(m, v, s[i]) = i /\ Owned(m, k, v, i)
      BY <2>2, <3>6
    <3>8. v = t
      BY <3>7 DEF Owned
    <3>9. QED BY <2>4, <3>7, <3>8
  <2>5. QED BY <2>3, <2>4
<1>6. IsColumn(s, n)
  BY <1>2 DEF IsColumn
<1> HIDE DEF s, RowOf, n, q
<1>7. Indexed(q, k)
  <2>1. /\ Count(q, k) = n /\ Positions(q, k) = 1 .. n
        /\ \A t : Positions(q, t) = Positions(m, t)
        /\ \A i : TypeAt(q, k, i) = TypeAt(m, k, i)
        /\ \A t, r : Key(q, t, r) = Key(m, t, r)
    BY <1>2, <1>3 DEF Reindexed, Count, Positions, TypeAt, Key, n
  <2>2. QED BY <1>3, <1>5, <1>6, <2>1 DEF Indexed
<1>8. QED BY <1>3, <1>4, <1>7 DEF q

-----------------------------------------------------------------------------
(* Erasing an object *)

\* Behind row i, row j was row Up(i, j), and row x becomes row Down(i, x).
Up(i, j) == IF j < i THEN j ELSE j + 1
Down(i, x) == IF x > i THEN x - 1 ELSE x

Removed(m, q, k, i) ==
  /\ Columns(q) /\ Backed(q) /\ Drawn(m, q) /\ q.mat = m.mat
  /\ \A t \in Main \ {k} : q.rows[t] = m.rows[t]
  /\ Count(q, k) = Count(m, k) - 1
  /\ \A j \in Positions(q, k) : q.rows[k][j] = m.rows[k][Up(i, j)]
  /\ \A c \in DOMAIN Refs : Refs[c][1] = k => \A j \in Positions(q, k) : q.ref[c][j] = m.ref[c][Up(i, j)]

\* All rows but one: behind it, each entry is the next one of before.
LEMMA SelectedButOne ==
  ASSUME NEW n \in Nat, NEW i \in 1 .. n
  PROVE  /\ Cardinality((1 .. n) \ {i}) = n - 1
         /\ \A s : \A j \in 1 .. n - 1 : Selected(s, (1 .. n) \ {i})[j] = s[Up(i, j)]
<1>1. /\ Cardinality((1 .. n) \ {i}) = n - 1
      /\ \A j \in 1 .. n - 1 : Ascending((1 .. n) \ {i})[j] = Up(i, j)
  BY AscendingWithoutOne DEF Up
<1>2. ASSUME NEW s, NEW j \in 1 .. n - 1 PROVE Selected(s, (1 .. n) \ {i})[j] = s[Up(i, j)]
  BY <1>1 DEF Selected
<1>3. QED BY <1>1, <1>2

\* Erasing one row moves the entries behind it down by one, in every column.
LEMMA ErasedOne ==
  ASSUME NEW m, Columns(m), NEW q, NEW k \in Kinds, NEW i \in Positions(m, k),
         Erased(m, q, k, Positions(m, k) \ {i})
  PROVE  /\ Count(q, k) = Count(m, k) - 1 /\ Count(q, k) \in Nat
         /\ Positions(q, k) = 1 .. Count(m, k) - 1
         /\ \A j \in Positions(q, k) : Up(i, j) \in Positions(m, k) \ {i}
         /\ \A j \in Positions(q, k) : q.rows[k][j] = m.rows[k][Up(i, j)]
         /\ \A c \in DOMAIN Refs : Refs[c][1] = k =>
              \A j \in Positions(q, k) : q.ref[c][j] = m.ref[c][Up(i, j)]
         /\ \A c \in DOMAIN DataCols : c \notin NotErased /\ DataCols[c][1] = k =>
              \A j \in Positions(q, k) : q.data[c][j] = m.data[c][Up(i, j)]
<1> DEFINE n == Count(m, k)
           K == Positions(m, k) \ {i}
<1>1. n \in Nat /\ Positions(m, k) = 1 .. n /\ i \in 1 .. n /\ K = (1 .. n) \ {i}
  BY ColumnsDomain DEF Positions
<1>2. /\ Cardinality(K) = n - 1
      /\ \A s : \A j \in 1 .. n - 1 : Selected(s, K)[j] = s[Up(i, j)]
  <2> HIDE DEF K, n
  <2>1. /\ Cardinality((1 .. n) \ {i}) = n - 1
        /\ \A s : \A j \in 1 .. n - 1 : Selected(s, (1 .. n) \ {i})[j] = s[Up(i, j)]
    BY <1>1, SelectedButOne
  <2>2. QED BY <1>1, <2>1, Zenon
<1>3. Count(q, k) = n - 1 /\ Count(q, k) \in Nat /\ Positions(q, k) = 1 .. n - 1
  BY <1>1, <1>2 DEF Erased, Positions
<1>4. \A j \in 1 .. n - 1 : Up(i, j) \in Positions(m, k) \ {i}
  BY <1>1 DEF Up
<1>5. Erased(m, q, k, K)
  OBVIOUS
<1> HIDE DEF K, n
<1>6. \A j \in 1 .. n - 1 : q.rows[k][j] = m.rows[k][Up(i, j)]
  BY <1>2, <1>5 DEF Erased
<1>7. \A c \in DOMAIN Refs : Refs[c][1] = k => \A j \in 1 .. n - 1 : q.ref[c][j] = m.ref[c][Up(i, j)]
  BY <1>2, <1>5 DEF Erased
<1>8. \A c \in DOMAIN DataCols : c \notin NotErased /\ DataCols[c][1] = k =>
        \A j \in 1 .. n - 1 : q.data[c][j] = m.data[c][Up(i, j)]
  BY <1>2, <1>5 DEF Erased
<1>9. QED BY <1>3, <1>4, <1>6, <1>7, <1>8 DEF n

\* An object without a side table.
LEMMA RemovedPlain ==
  ASSUME NEW m, Columns(m), Backed(m), NEW k \in Main, k \notin DOMAIN TypeColumn,
         NEW i \in Positions(m, k)
  PROVE  Removed(m, EraseObject(m, k, i), k, i)
<1> DEFINE q == EraseRows(m, k, {i})
           K == Positions(m, k) \ {i}
<1>1. EraseObject(m, k, i) = q
  BY DEF EraseObject
<1>2. k \in Kinds /\ k \notin DOMAIN Join /\ k \notin {"nodes", "links"}
  BY DEF Main, TypeColumn
<1>3. Erased(m, q, k, K)
  BY <1>2, EraseRowsFacts
<1> HIDE DEF q
<1>4. Drawn(m, q)
  BY <1>2, <1>3, ErasedDrawn
<1>5. /\ Count(q, k) = Count(m, k) - 1
      /\ \A j \in Positions(q, k) : q.rows[k][j] = m.rows[k][Up(i, j)]
      /\ \A c \in DOMAIN Refs : Refs[c][1] = k =>
           \A j \in Positions(q, k) : q.ref[c][j] = m.ref[c][Up(i, j)]
  BY <1>2, <1>3, ErasedOne
<1> HIDE DEF K
<1>6. \A o \in DOMAIN TypeColumn :
        /\ q.rows[o] = m.rows[o] /\ q.data[TypeColumn[o]] = m.data[TypeColumn[o]]
        /\ q.subtype_row[o] = m.subtype_row[o]
  BY <1>2, <1>3, TypeSchema DEF Erased
<1>7. \A j \in DOMAIN Join : q.rows[j] = m.rows[j] /\ q.ref[Join[j]] = m.ref[Join[j]]
  BY <1>2, <1>3, JoinSchema DEF Erased
<1>8. Backed(q)
  BY <1>6, <1>7, FramedBacked DEF Framed
<1>9. \A t \in Main \ {k} : q.rows[t] = m.rows[t]
  BY <1>3 DEF Erased, Main
<1>10. Columns(q) /\ q.mat = m.mat
  BY <1>3 DEF Erased
<1>11. QED BY <1>1, <1>4, <1>5, <1>8, <1>9, <1>10 DEF Removed

\* What Renumber does to each column, keys included.
LEMMA RenumberColumns ==
  ASSUME NEW m, Columns(m), NEW C, NEW i
  PROVE  LET q == Renumber(m, C, i)
         IN /\ Columns(q)
            /\ DOMAIN q = DOMAIN m /\ q.rows = m.rows /\ q.name = m.name /\ q.data = m.data
            /\ q.subtype_row = m.subtype_row /\ q.mat = m.mat
            /\ \A c \in DOMAIN Refs :
                 q.ref[c] = IF c \in C THEN renumber_refs(m.ref[c], i) ELSE m.ref[c]
<1> DEFINE q == Renumber(m, C, i)
<1>1. /\ DOMAIN q = DOMAIN m /\ q.rows = m.rows /\ q.name = m.name /\ q.data = m.data
      /\ q.subtype_row = m.subtype_row /\ q.mat = m.mat
      /\ q.ref = [c \in DOMAIN m.ref |-> IF c \in C THEN renumber_refs(m.ref[c], i) ELSE m.ref[c]]
  BY ColumnsDomain DEF Renumber
<1>2. /\ DOMAIN q.ref = DOMAIN Refs
      /\ \A c \in DOMAIN Refs : q.ref[c] = IF c \in C THEN renumber_refs(m.ref[c], i) ELSE m.ref[c]
  <2>1. DOMAIN m.ref = DOMAIN Refs
    BY ColumnsDomain
  <2> HIDE DEF q
  <2>2. QED BY <1>1, <2>1
<1> HIDE DEF q
<1>3. \A o : Count(q, o) = Count(m, o)
  BY <1>1 DEF Count
<1>4. \A c \in DOMAIN Refs : IsColumn(q.ref[c], Count(q, Refs[c][1]))
  <2>1. TAKE c \in DOMAIN Refs
  <2>2. IsColumn(m.ref[c], Count(m, Refs[c][1]))
    BY DEF Columns
  <2>3. IsColumn(renumber_refs(m.ref[c], i), Count(m, Refs[c][1]))
    BY <2>2, MapColumn
  <2>4. QED BY <1>2, <1>3, <2>2, <2>3
<1>5. Columns(q)
  BY <1>1, <1>2, <1>3, <1>4, Zenon DEF Columns
<1>6. QED BY <1>1, <1>2, <1>5 DEF q

-----------------------------------------------------------------------------
(* Erasing a node or a link *)

\* Object i of k is gone and so is its row; row r of side table t was row a[t][r].
Shifted(m, u, k, i, a) ==
  /\ Count(u, k) = Count(m, k) - 1
  /\ \A j \in Positions(u, k) : u.rows[k][j] = m.rows[k][Up(i, j)]
                                /\ TypeAt(u, k, j) = TypeAt(m, k, Up(i, j))
  /\ \A t \in SideTables(k) :
       /\ \A r \in Positions(u, t) :
            /\ a[t][r] \in Positions(m, t) /\ Key(m, t, a[t][r]) # i
            /\ u.rows[t][r] = m.rows[t][a[t][r]]
            /\ Key(u, t, r) = Down(i, Key(m, t, a[t][r]))
       /\ \A r1, r2 \in Positions(u, t) : r1 < r2 => a[t][r1] < a[t][r2]
       /\ \A s \in Positions(m, t) : Key(m, t, s) # i => \E r \in Positions(u, t) : a[t][r] = s

\* The keys behind the erased object are decremented, its own row is gone:
\* the side tables are in step again.
LEMMA ShiftedKeyed ==
  ASSUME NEW m, NEW u, NEW k, NEW i \in Positions(m, k), NEW a,
         Count(m, k) \in Nat, Keyed(m, k), Shifted(m, u, k, i, a)
  PROVE  Keyed(u, k)
<1> DEFINE n == Count(m, k)
<1>1. /\ n \in Nat /\ i \in 1 .. n /\ Positions(m, k) = 1 .. n
      /\ Positions(u, k) = 1 .. n - 1
  BY DEF Positions, Shifted
<1> HIDE DEF n
<1>2. \A j \in 1 .. n - 1 : Up(i, j) \in 1 .. n /\ Up(i, j) # i /\ Down(i, Up(i, j)) = j
  BY <1>1 DEF Up, Down
<1>3. \A x \in 1 .. n : x # i => Down(i, x) \in 1 .. n - 1 /\ Up(i, Down(i, x)) = x
  BY <1>1 DEF Up, Down
<1>4. \A x, y \in 1 .. n : x # i /\ y # i /\ x < y => Down(i, x) < Down(i, y)
  BY <1>1 DEF Down
<1>5. \A t : \A j \in 1 .. n - 1 : Owned(u, k, t, j) <=> Owned(m, k, t, Up(i, j))
  BY <1>1 DEF Owned, Shifted
<1>6. \A j \in Positions(u, k) : TypeAt(u, k, j) \in TypesOf[k]
  BY <1>1, <1>2 DEF Shifted, Keyed
<1>7. ASSUME NEW t \in SideTables(k), NEW r \in Positions(u, t)
      PROVE  /\ Key(u, t, r) \in Positions(u, k) /\ Owned(u, k, t, Key(u, t, r))
             /\ u.rows[t][r] = u.rows[k][Key(u, t, r)]
  <2> DEFINE x == Key(m, t, a[t][r])
  <2>1. /\ a[t][r] \in Positions(m, t) /\ x # i /\ u.rows[t][r] = m.rows[t][a[t][r]]
        /\ Key(u, t, r) = Down(i, x)
    BY <1>7 DEF Shifted
  <2>2. x \in 1 .. n /\ Owned(m, k, t, x) /\ m.rows[t][a[t][r]] = m.rows[k][x]
    BY <1>1, <2>1 DEF Keyed
  <2> HIDE DEF x
  <2>3. Key(u, t, r) \in 1 .. n - 1 /\ Up(i, Key(u, t, r)) = x
    BY <1>3, <2>1, <2>2
  <2>4. Owned(u, k, t, Key(u, t, r))
    BY <1>5, <2>2, <2>3
  <2>5. u.rows[k][Key(u, t, r)] = m.rows[k][x]
    BY <1>1, <2>3 DEF Shifted
  <2>6. QED BY <1>1, <2>1, <2>2, <2>3, <2>4, <2>5
<1>8. ASSUME NEW t \in SideTables(k), NEW r1 \in Positions(u, t), NEW r2 \in Positions(u, t), r1 < r2
      PROVE  Key(u, t, r1) < Key(u, t, r2)
  <2> DEFINE x == Key(m, t, a[t][r1])
             y == Key(m, t, a[t][r2])
  <2>1. /\ a[t][r1] \in Positions(m, t) /\ x # i /\ Key(u, t, r1) = Down(i, x)
        /\ a[t][r2] \in Positions(m, t) /\ y # i /\ Key(u, t, r2) = Down(i, y)
        /\ a[t][r1] < a[t][r2]
    BY <1>8 DEF Shifted
  <2>2. x \in 1 .. n /\ y \in 1 .. n /\ x < y
    BY <1>1, <2>1 DEF Keyed
  <2> HIDE DEF x, y
  <2>3. QED BY <1>4, <2>1, <2>2
<1>9. ASSUME NEW t \in SideTables(k), NEW j \in Positions(u, k), Owned(u, k, t, j)
      PROVE  \E r \in Positions(u, t) : Key(u, t, r) = j
  <2>1. Owned(m, k, t, Up(i, j)) /\ Up(i, j) \in 1 .. n /\ Up(i, j) # i /\ Down(i, Up(i, j)) = j
    BY <1>1, <1>2, <1>5, <1>9
  <2>2. PICK s \in Positions(m, t) : Key(m, t, s) = Up(i, j)
    BY <1>1, <2>1 DEF Keyed
  <2>3. PICK r \in Positions(u, t) : a[t][r] = s
    BY <2>1, <2>2 DEF Shifted
  <2>4. Key(u, t, r) = Down(i, Key(m, t, s))
    BY <2>3 DEF Shifted
  <2>5. QED BY <2>1, <2>2, <2>4
<1>10. QED BY <1>6, <1>7, <1>8, <1>9 DEF Keyed

\* Erasing a node or a link, with its row and its index (erase_node, erase_link)
LEMMA RemovedOwner ==
  ASSUME NEW m, Columns(m), Backed(m), NEW k \in DOMAIN TypeColumn, NEW i \in Positions(m, k)
  PROVE  Removed(m, EraseObject(m, k, i), k, i)
<1> DEFINE e == EraseRows(m, k, {i})
           gone == [t \in SideTables(k) |-> RowsAt(e, Join[t], i)]
           d == EraseAll(e, gone)
           C == {Join[t] : t \in SideTables(k)}
           u == Renumber(d, C, i)
           q == rebuild_index(u, k)
<1>1. EraseObject(m, k, i) = q
  BY DEF EraseObject, erase_subtype
<1>2. /\ k \in Kinds /\ k \notin DOMAIN Join /\ k \in Main
      /\ \A t \in SideTables(k) : t \in DOMAIN Join /\ t \in Kinds /\ t # k /\ t \notin Main
  BY TypeSchema, JoinSchema, MainSchema DEF Main, SideTables
<1>3. Erased(m, e, k, Positions(m, k) \ {i})
  BY <1>2, EraseRowsFacts
<1> HIDE DEF e
<1>4. /\ Columns(e) /\ Drawn(m, e) /\ e.mat = m.mat /\ e.subtype_row = m.subtype_row
      /\ \A t \in Kinds \ {k} : e.rows[t] = m.rows[t]
      /\ \A c \in DOMAIN Refs : Refs[c][1] # k => e.ref[c] = m.ref[c]
      /\ \A c \in DOMAIN DataCols : DataCols[c][1] # k => e.data[c] = m.data[c]
  <2>1. Drawn(m, e)
    BY <1>2, <1>3, ErasedDrawn, Zenon
  <2>2. /\ Columns(e) /\ e.mat = m.mat /\ e.subtype_row = m.subtype_row
        /\ \A t \in Kinds \ {k} : e.rows[t] = m.rows[t]
    BY <1>3, Zenon DEF Erased
  <2>3. \A c \in DOMAIN Refs : Refs[c][1] # k => e.ref[c] = m.ref[c]
    BY <1>3 DEF Erased
  <2>4. \A c \in DOMAIN DataCols : DataCols[c][1] # k => e.data[c] = m.data[c]
    BY <1>3 DEF Erased
  <2>5. QED BY <2>1, <2>2, <2>3, <2>4
<1>5. /\ Count(e, k) = Count(m, k) - 1
      /\ \A j \in Positions(e, k) : e.rows[k][j] = m.rows[k][Up(i, j)]
      /\ \A c \in DOMAIN Refs : Refs[c][1] = k =>
           \A j \in Positions(e, k) : e.ref[c][j] = m.ref[c][Up(i, j)]
      /\ \A c \in DOMAIN DataCols : c \notin NotErased /\ DataCols[c][1] = k =>
           \A j \in Positions(e, k) : e.data[c][j] = m.data[c][Up(i, j)]
  BY <1>2, <1>3, ErasedOne
<1>6. DOMAIN gone = SideTables(k)
  OBVIOUS
<1>7. \A t \in SideTables(k) : Left(e, gone, t) = Positions(m, t) \ RowsAt(m, Join[t], i)
  <2>1. TAKE t \in SideTables(k)
  <2>2. Positions(e, t) = Positions(m, t)
    BY <1>2, <1>4 DEF Positions, Count
  <2>3. e.ref[Join[t]] = m.ref[Join[t]]
    BY <1>2, <1>4, JoinSchema
  <2>4. gone[t] = RowsAt(m, Join[t], i)
    BY <2>3 DEF RowsAt
  <2> HIDE DEF gone
  <2>5. QED BY <2>2, <2>4 DEF Left
<1> DEFINE stay == [t \in SideTables(k) |-> Positions(m, t) \ RowsAt(m, Join[t], i)]
           a == [t \in SideTables(k) |-> Ascending(stay[t])]
<1> HIDE DEF gone
<1>8. /\ Columns(d)
      /\ \A t \in Kinds : t \in DOMAIN gone => Count(d, t) = Cardinality(Left(e, gone, t))
      /\ \A t \in Kinds : t \notin DOMAIN gone => Count(d, t) = Count(e, t)
  BY <1>4, EraseAllSound
<1>9. /\ d.subtype_row = e.subtype_row /\ d.mat = e.mat
      /\ \A t \in Kinds :
           d.rows[t] = IF t \in DOMAIN gone THEN Selected(e.rows[t], Left(e, gone, t)) ELSE e.rows[t]
      /\ \A c \in DOMAIN Refs :
           d.ref[c] = IF Refs[c][1] \in DOMAIN gone
                      THEN Selected(e.ref[c], Left(e, gone, Refs[c][1])) ELSE e.ref[c]
      /\ \A c \in DOMAIN DataCols :
           d.data[c] = IF c \notin NotErased /\ DataCols[c][1] \in DOMAIN gone
                       THEN Selected(e.data[c], Left(e, gone, DataCols[c][1])) ELSE e.data[c]
  BY <1>4, EraseAllColumns
<1> HIDE DEF d
<1>10. /\ d.subtype_row = m.subtype_row /\ d.mat = m.mat
       /\ \A t \in Kinds : t \notin SideTables(k) => d.rows[t] = e.rows[t]
       /\ \A c \in DOMAIN Refs : Refs[c][1] \notin SideTables(k) => d.ref[c] = e.ref[c]
       /\ \A c \in DOMAIN DataCols : d.data[c] = e.data[c]
  BY <1>2, <1>4, <1>6, <1>9, DataSchema
<1>11. Drawn(e, d)
  <2>1. SUFFICES ASSUME NEW c \in DOMAIN Refs \ JoinCols, NEW r \in DOMAIN d.ref[c]
                 PROVE  \E r0 \in DOMAIN e.ref[c] : d.ref[c][r] = e.ref[c][r0]
    BY DEF Drawn
  <2>2. CASE Refs[c][1] \notin SideTables(k)
    BY <1>10, <2>1, <2>2
  <2>3. CASE Refs[c][1] \in SideTables(k)
    <3> DEFINE t == Refs[c][1]
               K == Left(e, gone, t)
    <3>1. d.ref[c] = Selected(e.ref[c], K)
      BY <1>6, <1>9, <2>3
    <3>2. Indices(K, Count(e, t)) /\ DOMAIN e.ref[c] = 1 .. Count(e, t)
      BY <1>2, <1>4, <2>3, ColumnsDomain DEF Indices, Left, Positions
    <3> HIDE DEF K, t
    <3>3. r \in 1 .. Cardinality(K)
      BY <2>1, <3>1 DEF Selected
    <3>4. Ascending(K)[r] \in K /\ Selected(e.ref[c], K)[r] = e.ref[c][Ascending(K)[r]]
      BY <3>2, <3>3, SelectedEntries, Zenon
    <3>5. QED BY <3>1, <3>2, <3>4 DEF Indices
  <2>4. QED BY <2>2, <2>3
\* The rows of the side tables of k that stay
<1>12. ASSUME NEW t \in SideTables(k)
       PROVE  /\ Positions(d, t) = 1 .. Cardinality(stay[t]) /\ Indices(stay[t], Count(m, t))
              /\ d.rows[t] = Selected(m.rows[t], stay[t])
              /\ d.ref[Join[t]] = Selected(m.ref[Join[t]], stay[t])
  <2>1. Left(e, gone, t) = stay[t] /\ t \in DOMAIN gone /\ stay[t] \subseteq Positions(m, t)
    BY <1>6, <1>7
  <2> HIDE DEF stay
  <2>2. Count(d, t) = Cardinality(stay[t])
    BY <1>2, <1>8, <2>1
  <2>3. Join[t] \in DOMAIN Refs /\ Refs[Join[t]][1] = t
    BY <1>2, JoinSchema
  <2>4. e.rows[t] = m.rows[t] /\ e.ref[Join[t]] = m.ref[Join[t]]
    BY <1>2, <1>4, <2>3
  <2>5. d.rows[t] = Selected(m.rows[t], stay[t])
    BY <1>2, <1>9, <2>1, <2>4
  <2>6. d.ref[Join[t]] = Selected(m.ref[Join[t]], stay[t])
    BY <1>9, <2>1, <2>3, <2>4
  <2>7. Count(m, t) \in Nat
    BY <1>2, ColumnsDomain
  <2>8. QED BY <2>1, <2>2, <2>5, <2>6, <2>7 DEF Positions, Indices
<1>13. /\ Columns(u) /\ u.rows = d.rows /\ u.data = d.data /\ u.subtype_row = d.subtype_row
       /\ u.mat = d.mat
       /\ \A c \in DOMAIN Refs : u.ref[c] = IF c \in C THEN renumber_refs(d.ref[c], i) ELSE d.ref[c]
  BY <1>8, RenumberColumns
<1> HIDE DEF C, u
<1>14. C \subseteq JoinCols
  BY <1>2 DEF C, JoinCols
<1>15. Drawn(d, u)
  BY <1>13, <1>14 DEF Drawn
<1>16. Shifted(m, u, k, i, a)
  <2>1. k \notin SideTables(k)
    BY <1>2
  <2>2. u.rows[k] = e.rows[k] /\ Count(u, k) = Count(e, k)
    BY <1>2, <1>10, <1>13, <2>1 DEF Count
  <2>3. \A j \in Positions(u, k) : u.rows[k][j] = m.rows[k][Up(i, j)]
                                   /\ TypeAt(u, k, j) = TypeAt(m, k, Up(i, j))
    <3>1. Positions(u, k) = Positions(e, k)
      BY <2>2 DEF Positions
    <3>2. u.data[TypeColumn[k]] = e.data[TypeColumn[k]]
      BY <1>10, <1>13, TypeSchema
    <3>3. \A j \in Positions(e, k) : e.data[TypeColumn[k]][j] = m.data[TypeColumn[k]][Up(i, j)]
      BY <1>5, TypeSchema
    <3>4. QED BY <1>5, <2>2, <3>1, <3>2, <3>3 DEF TypeAt
  <2>4. ASSUME NEW t \in SideTables(k)
        PROVE  /\ \A r \in Positions(u, t) :
                    /\ a[t][r] \in Positions(m, t) /\ Key(m, t, a[t][r]) # i
                    /\ u.rows[t][r] = m.rows[t][a[t][r]]
                    /\ Key(u, t, r) = Down(i, Key(m, t, a[t][r]))
               /\ \A r1, r2 \in Positions(u, t) : r1 < r2 => a[t][r1] < a[t][r2]
               /\ \A s \in Positions(m, t) : Key(m, t, s) # i => \E r \in Positions(u, t) : a[t][r] = s
    <3> DEFINE K == stay[t]
               n == Cardinality(K)
    <3>1. K = Positions(m, t) \ RowsAt(m, Join[t], i) /\ a[t] = Ascending(K)
      OBVIOUS
    <3>2. Join[t] \in DOMAIN Refs /\ Refs[Join[t]][1] = t /\ Join[t] \in C /\ t \in Kinds
      BY <1>2, JoinSchema DEF C
    <3>3. DOMAIN m.ref[Join[t]] = Positions(m, t) /\ Positions(m, t) = 1 .. Count(m, t)
          /\ Count(m, t) \in Nat
      BY <3>2, ColumnsDomain DEF Positions
    <3>4. \A s \in Positions(m, t) : s \in K <=> Key(m, t, s) # i
      BY <3>1, <3>3 DEF RowsAt, Key
    <3> HIDE DEF a, stay, K
    <3>5. Positions(d, t) = 1 .. n /\ Indices(K, Count(m, t)) /\ d.rows[t] = Selected(m.rows[t], K)
          /\ d.ref[Join[t]] = Selected(m.ref[Join[t]], K)
      BY <1>12 DEF K
    <3> HIDE DEF n
    <3>6. Positions(u, t) = 1 .. n /\ u.rows[t] = d.rows[t]
      BY <1>13, <3>5 DEF Positions, Count
    <3>7. u.ref[Join[t]] = renumber_refs(d.ref[Join[t]], i)
      BY <1>13, <3>2
    <3>8. /\ DOMAIN d.ref[Join[t]] = 1 .. n
          /\ \A r \in 1 .. n : a[t][r] \in K /\ d.rows[t][r] = m.rows[t][a[t][r]]
                               /\ d.ref[Join[t]][r] = m.ref[Join[t]][a[t][r]]
      <4>1. \A s : /\ DOMAIN Selected(s, K) = 1 .. n
                   /\ \A j \in 1 .. n : Ascending(K)[j] \in K /\ Selected(s, K)[j] = s[Ascending(K)[j]]
        BY <3>5, SelectedEntries, Zenon DEF n
      <4>2. DOMAIN d.ref[Join[t]] = 1 .. n
        BY <3>5, <4>1, Zenon
      <4>3. ASSUME NEW r \in 1 .. n
            PROVE  a[t][r] \in K /\ d.rows[t][r] = m.rows[t][a[t][r]]
                   /\ d.ref[Join[t]][r] = m.ref[Join[t]][a[t][r]]
        <5>1. Ascending(K)[r] \in K
              /\ Selected(m.rows[t], K)[r] = m.rows[t][Ascending(K)[r]]
              /\ Selected(m.ref[Join[t]], K)[r] = m.ref[Join[t]][Ascending(K)[r]]
          BY <4>1, Zenon
        <5>2. QED BY <3>1, <3>5, <5>1, Zenon
      <4>4. QED BY <4>2, <4>3
    <3>9. \A r \in 1 .. n : Key(u, t, r) = Down(i, Key(m, t, a[t][r]))
      BY <3>7, <3>8 DEF Key, Down, renumber_refs
    <3>10. K \subseteq Positions(m, t)
      BY <3>3, <3>5 DEF Indices
    <3>11. /\ \A r1, r2 \in 1 .. n : r1 < r2 => a[t][r1] < a[t][r2]
           /\ \A s \in K : \E r \in 1 .. n : a[t][r] = s
      <4>1. /\ \A r1, r2 \in 1 .. Cardinality(K) : r1 < r2 => Ascending(K)[r1] < Ascending(K)[r2]
            /\ \A s \in K : \E r \in 1 .. Cardinality(K) : Ascending(K)[r] = s
        BY <3>3, <3>10, AscendingFacts
      <4>2. QED BY <3>1, <4>1 DEF n
    <3>12. QED BY <3>4, <3>6, <3>8, <3>9, <3>10, <3>11
  <2> HIDE DEF a
  <2>5. QED BY <1>5, <2>2, <2>3, <2>4 DEF Shifted
<1>17. Keyed(u, k)
  <2> HIDE DEF a
  <2>1. Keyed(m, k) /\ Count(m, k) \in Nat
    BY <1>2, ColumnsDomain DEF Backed
  <2>2. QED BY <1>16, <2>1, ShiftedKeyed
\* The other kind is untouched.
<1>18. ASSUME NEW o \in DOMAIN TypeColumn, o # k PROVE Keyed(u, o) /\ Indexed(u, o)
  <2>1. Keyed(m, o) /\ Indexed(m, o)
    BY DEF Backed
  <2>2. o \in Kinds /\ o \notin DOMAIN Join /\ TypeColumn[o] \in DOMAIN DataCols
        /\ DataCols[TypeColumn[o]][1] = o
    BY TypeSchema
  <2>3. o \notin SideTables(k)
    BY <2>2 DEF SideTables
  <2>4. u.rows[o] = m.rows[o] /\ u.data[TypeColumn[o]] = m.data[TypeColumn[o]]
        /\ u.subtype_row[o] = m.subtype_row[o]
    BY <1>4, <1>10, <1>13, <1>18, <2>2, <2>3
  <2>5. ASSUME NEW t \in SideTables(o) PROVE u.rows[t] = m.rows[t] /\ u.ref[Join[t]] = m.ref[Join[t]]
    <3>1. t \in DOMAIN Join /\ Refs[Join[t]][2] = o
      BY DEF SideTables
    <3>2. t \in Kinds /\ Join[t] \in DOMAIN Refs /\ Refs[Join[t]][1] = t /\ t # k /\ t \notin SideTables(k)
      BY <1>2, <1>18, <3>1, JoinSchema DEF SideTables
    <3>3. Join[t] \notin C
      <4>1. \A v \in SideTables(k) : Refs[Join[v]][2] = k
        BY DEF SideTables
      <4>2. QED BY <1>18, <3>1, <4>1 DEF C
    <3>4. QED BY <1>4, <1>10, <1>13, <3>2, <3>3
  <2>6. QED BY <2>1, <2>4, <2>5, KeyedFrame, IndexedFrame
<1>19. Reindexed(u, q, k) /\ Keyed(q, k) /\ Indexed(q, k) /\ Columns(q)
  <2>1. Reindexed(u, q, k) /\ Keyed(q, k) /\ Indexed(q, k)
    BY <1>13, <1>17, RebuildFacts
  <2>2. QED BY <1>13, <2>1, ReindexedFacts
<1> HIDE DEF q
<1>20. Backed(q)
  <2>1. \A o \in DOMAIN TypeColumn : o # k => Keyed(q, o) /\ Indexed(q, o)
    BY <1>13, <1>18, <1>19, ReindexedFacts
  <2>2. QED BY <1>19, <2>1 DEF Backed
<1>21. Drawn(m, q)
  <2>1. Drawn(m, d)
    BY <1>4, <1>11, DrawnTransitive
  <2>2. Drawn(m, u)
    BY <1>15, <2>1, DrawnTransitive
  <2>3. QED BY <1>19, <2>2 DEF Drawn, Reindexed
<1>22. q.mat = m.mat /\ q.rows = d.rows
  BY <1>10, <1>13, <1>19 DEF Reindexed
<1>23. \A t \in Main \ {k} : q.rows[t] = m.rows[t]
  <2>1. \A t \in Main : t \in Kinds /\ t \notin SideTables(k)
    BY DEF Main, SideTables
  <2>2. QED BY <1>4, <1>10, <1>22, <2>1
<1>24. q.rows[k] = e.rows[k] /\ Count(q, k) = Count(e, k) /\ Positions(q, k) = Positions(e, k)
  BY <1>2, <1>10, <1>22 DEF Count, Positions
<1>25. \A c \in DOMAIN Refs : Refs[c][1] = k => q.ref[c] = e.ref[c]
  <2>1. SUFFICES ASSUME NEW c \in DOMAIN Refs, Refs[c][1] = k PROVE q.ref[c] = e.ref[c]
    OBVIOUS
  <2>2. c \notin C
    BY <1>2, <2>1, JoinSchema DEF C
  <2>3. u.ref[c] = d.ref[c] /\ d.ref[c] = e.ref[c]
    BY <1>2, <1>10, <1>13, <2>1, <2>2
  <2>4. QED BY <1>19, <2>3 DEF Reindexed
<1>26. QED BY <1>1, <1>5, <1>19, <1>20, <1>21, <1>22, <1>23, <1>24, <1>25 DEF Removed

\* Erasing an object leaves the tables sound and the other objects in their order.
LEMMA EraseObjectRemoved ==
  ASSUME NEW m, Columns(m), Backed(m), NEW k \in Main, NEW i \in Positions(m, k)
  PROVE  Removed(m, EraseObject(m, k, i), k, i)
BY RemovedPlain, RemovedOwner

-----------------------------------------------------------------------------
(* Deleting an object: what refers to it is cleared, the rest is renumbered *)

\* The reference columns into table k that a deletion keeps in range
Incoming(k) == {c \in DOMAIN Refs \ Unkept : Refs[c][2] = k}
Cleared(m, k, i) == \A c \in Incoming(k) : RowsAt(m, c, i) = {}
Tables(m) == Columns(m) /\ Backed(m) /\ InRange(m)

\* Object i of table k is gone, and no other.
Without(m, q, k, i) ==
  /\ Tables(q)
  /\ \A t \in Main \ {k} : q.rows[t] = m.rows[t]
  /\ Count(q, k) = Count(m, k) - 1
  /\ \A j \in Positions(q, k) : q.rows[k][j] = m.rows[k][Up(i, j)]

\* The columns that some deletion does not look after
LEMMA KeptSchema ==
  /\ JoinCols = {"storage_node", "outfall_node", "divider_node", "conduit_link", "pump_link",
                 "orifice_link", "weir_link", "outlet_link"}
  /\ JoinCols \subseteq Unkept
  /\ Unkept = JoinCols \cup {"route_to", "co_gage", "xsect_curve"}
<1>1. JoinCols = {"storage_node", "outfall_node", "divider_node", "conduit_link", "pump_link",
                  "orifice_link", "weir_link", "outlet_link"}
  <2>1. DOMAIN Join = {"storages", "outfalls", "dividers", "conduits", "pumps", "orifices",
                       "weirs", "outlets"}
    BY DEF Join
  <2>2. /\ Join["storages"] = "storage_node" /\ Join["outfalls"] = "outfall_node"
        /\ Join["dividers"] = "divider_node" /\ Join["conduits"] = "conduit_link"
        /\ Join["pumps"] = "pump_link" /\ Join["orifices"] = "orifice_link"
        /\ Join["weirs"] = "weir_link" /\ Join["outlets"] = "outlet_link"
    BY DEF Join
  <2>3. QED BY <2>1, <2>2 DEF JoinCols
<1>2. Unkept = JoinCols \cup {"route_to", "co_gage", "xsect_curve"}
  BY DEF Unkept, JoinCols
<1>3. QED BY <1>1, <1>2

\* The columns that refer to each table, by table
LEMMA IncomingSchema ==
  /\ Incoming("nodes") = {"node1", "node2", "outlet_node", "gw_node", "ext_node", "dwf_node",
                          "rdii_node", "inlet_node"}
  /\ Incoming("links") = {"outfall_link", "divider_link", "inlet_link"}
  /\ Incoming("subcatches") = {"outlet_subcatch", "lid_subcatch"}
  /\ Incoming("gages") = {"gage"}
  /\ Incoming("tables") = {"infil_pattern", "ts_index", "storage_curve", "outfall_param",
                           "divider_curve", "pump_curve", "outlet_curve"}
  /\ Incoming("pollutants") = {"co_pollut", "removals"}
  /\ Incoming("aquifers") = {"gw_aquifer"}
  /\ Incoming("snowpacks") = {"snowpack"}
  /\ Incoming("lid_controls") = {"lid_index"}
  /\ Incoming("inlets") = {"inlet_design"}
  /\ Incoming("streets") = {"inlet_street"}
  /\ \A k \in {"transects", "patterns", "landuses", "unit_hyds"} : Incoming(k) = {}
<1> DEFINE Kept == {"node1", "node2", "outlet_node", "gw_node", "outlet_subcatch", "gage",
                    "gw_aquifer", "snowpack", "infil_pattern", "ts_index", "co_pollut",
                    "storage_curve", "outfall_param", "outfall_link", "divider_curve",
                    "divider_link", "pump_curve", "outlet_curve", "ext_node", "dwf_node",
                    "rdii_node", "lid_subcatch", "lid_index", "removals", "inlet_link",
                    "inlet_node", "inlet_design", "inlet_street"}
<1>1. DOMAIN Refs = Kept \cup JoinCols \cup {"route_to", "co_gage", "xsect_curve"}
  BY KeptSchema DEF Refs
<1>2. DOMAIN Refs \ Unkept = Kept
  BY <1>1, KeptSchema
<1>3. \A k : Incoming(k) = {c \in Kept : Refs[c][2] = k}
  BY <1>2 DEF Incoming
<1>4. /\ \A c \in {"node1", "node2", "outlet_node", "gw_node", "ext_node", "dwf_node", "rdii_node",
                   "inlet_node"} : Refs[c][2] = "nodes"
      /\ \A c \in {"outfall_link", "divider_link", "inlet_link"} : Refs[c][2] = "links"
      /\ \A c \in {"outlet_subcatch", "lid_subcatch"} : Refs[c][2] = "subcatches"
      /\ Refs["gage"][2] = "gages"
      /\ \A c \in {"infil_pattern", "ts_index", "storage_curve", "outfall_param",
                   "divider_curve", "pump_curve", "outlet_curve"} : Refs[c][2] = "tables"
      /\ \A c \in {"co_pollut", "removals"} : Refs[c][2] = "pollutants"
      /\ Refs["gw_aquifer"][2] = "aquifers" /\ Refs["snowpack"][2] = "snowpacks"
      /\ Refs["lid_index"][2] = "lid_controls" /\ Refs["inlet_design"][2] = "inlets"
      /\ Refs["inlet_street"][2] = "streets"
  BY DEF Refs
<1>5. Incoming("nodes") = {"node1", "node2", "outlet_node", "gw_node", "ext_node", "dwf_node",
                           "rdii_node", "inlet_node"}
  BY <1>3, <1>4
<1>6. Incoming("links") = {"outfall_link", "divider_link", "inlet_link"}
  BY <1>3, <1>4
<1>7. Incoming("subcatches") = {"outlet_subcatch", "lid_subcatch"}
  BY <1>3, <1>4
<1>8. Incoming("gages") = {"gage"}
  BY <1>3, <1>4
<1>9. Incoming("tables") = {"infil_pattern", "ts_index", "storage_curve", "outfall_param",
                            "divider_curve", "pump_curve", "outlet_curve"}
  BY <1>3, <1>4
<1>10. Incoming("pollutants") = {"co_pollut", "removals"}
  BY <1>3, <1>4
<1>11. Incoming("aquifers") = {"gw_aquifer"}
  BY <1>3, <1>4
<1>12. Incoming("snowpacks") = {"snowpack"}
  BY <1>3, <1>4
<1>13. Incoming("lid_controls") = {"lid_index"}
  BY <1>3, <1>4
<1>14. Incoming("inlets") = {"inlet_design"}
  BY <1>3, <1>4
<1>15. Incoming("streets") = {"inlet_street"}
  BY <1>3, <1>4
<1>16. \A k \in {"transects", "patterns", "landuses", "unit_hyds"} : Incoming(k) = {}
  BY <1>3, <1>4
<1>17. QED BY <1>5, <1>6, <1>7, <1>8, <1>9, <1>10, <1>11, <1>12, <1>13, <1>14, <1>15, <1>16, Zenon

\* Behind the deleted object every reference moves down by one.
LEMMA DeletedInRange ==
  ASSUME NEW m, Columns(m), InRange(m), NEW g, Columns(g), Drawn(m, g),
         NEW k \in Main, NEW i \in Positions(m, k),
         Count(g, k) = Count(m, k) - 1, \A t \in Main \ {k} : Count(g, t) = Count(m, t),
         Cleared(g, k, i),
         NEW q, Columns(q), \A t \in Kinds : Count(q, t) = Count(g, t),
         \A c \in DOMAIN Refs \ Unkept : \A r \in DOMAIN g.ref[c] :
           \/ q.ref[c][r] = Down(i, g.ref[c][r])
           \/ q.ref[c][r] = g.ref[c][r] /\ c \notin Incoming(k)
  PROVE  InRange(q)
<1>1. SUFFICES ASSUME NEW c \in DOMAIN Refs \ Unkept, NEW r \in Positions(q, Refs[c][1])
               PROVE  q.ref[c][r] \in 0 .. Count(q, Refs[c][2])
  BY DEF InRange
<1> DEFINE s == Refs[c][1]
           t == Refs[c][2]
           v == g.ref[c][r]
<1>2. s \in Kinds /\ t \in Main /\ t \in Kinds /\ c \notin JoinCols
  BY RefSchema, MainSchema, KeptSchema DEF Main
<1>3. DOMAIN g.ref[c] = Positions(g, s) /\ Positions(q, s) = Positions(g, s)
      /\ DOMAIN m.ref[c] = Positions(m, s)
  BY <1>2, ColumnsDomain DEF Positions
<1>4. Count(m, t) \in Nat /\ i \in 1 .. Count(m, k) /\ Count(m, k) \in Nat
  BY <1>2, ColumnsDomain DEF Positions, Main
<1>5. v \in 0 .. Count(m, t)
  <2>1. v = 0 \/ \E r0 \in DOMAIN m.ref[c] : v = m.ref[c][r0]
    BY <1>1, <1>2, <1>3 DEF Drawn
  <2>2. \A r0 \in Positions(m, s) : m.ref[c][r0] \in 0 .. Count(m, t)
    BY DEF InRange
  <2>3. ASSUME NEW r0 \in DOMAIN m.ref[c], v = m.ref[c][r0] PROVE v \in 0 .. Count(m, t)
    BY <1>3, <2>2, <2>3, Zenon
  <2> HIDE DEF v, t
  <2>4. CASE v = 0
    BY <1>4, <2>4
  <2>5. QED BY <2>1, <2>3, <2>4
<1>6. t = k => v # i
  BY <1>1, <1>3 DEF Cleared, Incoming, RowsAt
<1>7. \/ q.ref[c][r] = Down(i, v)
      \/ q.ref[c][r] = v /\ t # k
  BY <1>1, <1>3 DEF Incoming
<1>8. Count(q, t) = IF t = k THEN Count(m, k) - 1 ELSE Count(m, t)
  BY <1>2
<1> HIDE DEF v, t
<1>9. q.ref[c][r] \in 0 .. Count(q, t)
  BY <1>4, <1>5, <1>6, <1>7, <1>8 DEF Down
<1>10. QED BY <1>9 DEF t

\* Renumbering the references is overwriting them.
LEMMA RenumberedRetouched ==
  ASSUME NEW g, Columns(g), NEW C, C \cap JoinCols = {}, NEW i
  PROVE  LET q == Renumber(g, C, i)
         IN /\ Columns(q) /\ Framed(g, q) /\ q.rows = g.rows /\ q.mat = g.mat
            /\ \A c \in DOMAIN Refs : \A r \in DOMAIN g.ref[c] :
                 q.ref[c][r] = IF c \in C THEN Down(i, g.ref[c][r]) ELSE g.ref[c][r]
<1> DEFINE q == Renumber(g, C, i)
<1>1. /\ Columns(q) /\ q.rows = g.rows /\ q.data = g.data
      /\ q.subtype_row = g.subtype_row /\ q.mat = g.mat
      /\ \A c \in DOMAIN Refs : q.ref[c] = IF c \in C THEN renumber_refs(g.ref[c], i) ELSE g.ref[c]
  BY RenumberColumns
<1> HIDE DEF q
<1>2. \A t \in DOMAIN Join : q.ref[Join[t]] = g.ref[Join[t]]
  BY <1>1, JoinSchema DEF JoinCols
<1>3. Framed(g, q)
  BY <1>1, <1>2 DEF Framed
<1>4. \A c \in DOMAIN Refs : \A r \in DOMAIN g.ref[c] :
        q.ref[c][r] = IF c \in C THEN Down(i, g.ref[c][r]) ELSE g.ref[c][r]
  BY <1>1 DEF renumber_refs, Down
<1>5. QED BY <1>1, <1>3, <1>4 DEF q

\* The last steps of a deletion; between them references may still be cleared.
LEMMA Deletion ==
  ASSUME NEW m, Tables(m), NEW p, Trimmed(m, p), NEW k \in Main, NEW i \in Positions(m, k),
         NEW g, Columns(g), Backed(g), Drawn(EraseObject(p, k, i), g),
         g.rows = EraseObject(p, k, i).rows, Cleared(g, k, i),
         NEW C, C \cap JoinCols = {}, Incoming(k) \subseteq C
  PROVE  Without(m, Renumber(g, C, i), k, i) /\ Renumber(g, C, i).mat = g.mat
<1> DEFINE e == EraseObject(p, k, i)
           q == Renumber(g, C, i)
<1>1. Columns(m) /\ Backed(m) /\ InRange(m) /\ Columns(p) /\ Drawn(m, p)
      /\ \A t \in Main : p.rows[t] = m.rows[t]
  BY DEF Tables, Trimmed
<1>2. Backed(p)
  BY <1>1, FramedBacked DEF Trimmed
<1>3. i \in Positions(p, k)
  BY <1>1 DEF Positions, Count
<1>4. Removed(p, e, k, i)
  BY <1>1, <1>2, <1>3, EraseObjectRemoved
<1>5. Drawn(e, g) /\ g.rows = e.rows
  OBVIOUS
<1> HIDE DEF e
<1>6. Drawn(m, g)
  <2>1. Drawn(p, e)
    BY <1>4 DEF Removed
  <2>2. Drawn(m, e)
    BY <1>1, <2>1, DrawnTransitive
  <2>3. QED BY <1>5, <2>2, DrawnTransitive
<1>7. Count(g, k) = Count(m, k) - 1
  BY <1>1, <1>4, <1>5 DEF Removed, Count
<1>8. \A t \in Main \ {k} : g.rows[t] = m.rows[t] /\ Count(g, t) = Count(m, t)
  BY <1>1, <1>4, <1>5 DEF Removed, Count
<1>9. /\ Columns(q) /\ Framed(g, q) /\ q.rows = g.rows /\ q.mat = g.mat
      /\ \A c \in DOMAIN Refs : \A r \in DOMAIN g.ref[c] :
           q.ref[c][r] = IF c \in C THEN Down(i, g.ref[c][r]) ELSE g.ref[c][r]
  BY RenumberedRetouched
<1> HIDE DEF q
<1>10. Backed(q)
  BY <1>9, FramedBacked
<1>11. \A t : Count(q, t) = Count(g, t)
  BY <1>9 DEF Count
<1>12. \A c \in DOMAIN Refs \ Unkept : \A r \in DOMAIN g.ref[c] :
         \/ q.ref[c][r] = Down(i, g.ref[c][r])
         \/ q.ref[c][r] = g.ref[c][r] /\ c \notin Incoming(k)
  BY <1>9
<1>13. InRange(q)
  BY <1>1, <1>6, <1>7, <1>8, <1>9, <1>11, <1>12, DeletedInRange
<1>14. \A j \in Positions(q, k) : q.rows[k][j] = m.rows[k][Up(i, j)]
  <2>1. Positions(q, k) = Positions(e, k)
    BY <1>5, <1>9 DEF Positions, Count
  <2>2. QED BY <1>1, <1>4, <1>5, <1>9, <2>1 DEF Removed
<1>15. QED BY <1>7, <1>8, <1>9, <1>10, <1>11, <1>13, <1>14 DEF Without, Tables, q

\* Erase and renumber, after the references were cleared
LEMMA PlainDeletion ==
  ASSUME NEW m, Tables(m), NEW p, Trimmed(m, p), NEW k \in Main, NEW i \in Positions(m, k),
         Cleared(p, k, i), NEW C, C \cap JoinCols = {}, Incoming(k) \subseteq C
  PROVE  /\ Without(m, Renumber(EraseObject(p, k, i), C, i), k, i)
         /\ Renumber(EraseObject(p, k, i), C, i).mat = m.mat
<1> DEFINE e == EraseObject(p, k, i)
<1>1. Columns(m) /\ Backed(m) /\ Columns(p) /\ p.mat = m.mat
      /\ \A t \in Main : p.rows[t] = m.rows[t]
  BY DEF Tables, Trimmed
<1>2. Backed(p)
  BY <1>1, FramedBacked DEF Trimmed
<1>3. i \in Positions(p, k)
  BY <1>1 DEF Positions, Count
<1>4. Removed(p, e, k, i)
  BY <1>1, <1>2, <1>3, EraseObjectRemoved
<1> HIDE DEF e
<1>5. Columns(e) /\ Backed(e) /\ Drawn(p, e) /\ e.mat = m.mat
  BY <1>1, <1>4 DEF Removed
<1>6. i # 0
  BY <1>1, ColumnsDomain DEF Positions, Main
<1>7. Cleared(e, k, i)
  <2>1. \A c \in Incoming(k) : c \in DOMAIN Refs \ JoinCols
    BY KeptSchema DEF Incoming
  <2>2. QED BY <1>5, <1>6, <2>1, DrawnClear DEF Cleared
<1>8. Drawn(e, e)
  BY DEF Drawn
<1>9. Without(m, Renumber(e, C, i), k, i) /\ Renumber(e, C, i).mat = e.mat
  BY <1>5, <1>7, <1>8, Deletion DEF e
<1>10. QED BY <1>5, <1>9 DEF e

\* Nothing to renumber: no index refers to the table.
LEMMA DeletionUnindexed ==
  ASSUME NEW m, Tables(m), NEW p, Trimmed(m, p), NEW k \in Main, NEW i \in Positions(m, k),
         Incoming(k) = {}
  PROVE  Without(m, EraseObject(p, k, i), k, i) /\ EraseObject(p, k, i).mat = m.mat
<1> DEFINE q == EraseObject(p, k, i)
<1>1. Columns(m) /\ Backed(m) /\ InRange(m) /\ Columns(p) /\ Drawn(m, p) /\ p.mat = m.mat
      /\ \A t \in Main : p.rows[t] = m.rows[t]
  BY DEF Tables, Trimmed
<1>2. Backed(p)
  BY <1>1, FramedBacked DEF Trimmed
<1>3. i \in Positions(p, k)
  BY <1>1 DEF Positions, Count
<1>4. Removed(p, q, k, i)
  BY <1>1, <1>2, <1>3, EraseObjectRemoved
<1> HIDE DEF q
<1>5. Columns(q) /\ Backed(q) /\ Drawn(p, q) /\ q.mat = p.mat
  BY <1>4 DEF Removed
<1>6. Drawn(m, q)
  BY <1>1, <1>5, DrawnTransitive
<1>7. Count(q, k) = Count(m, k) - 1
  BY <1>1, <1>4 DEF Removed, Count
<1>8. \A t \in Main \ {k} : q.rows[t] = m.rows[t] /\ Count(q, t) = Count(m, t)
  BY <1>1, <1>4 DEF Removed, Count
<1>9. Cleared(q, k, i)
  BY DEF Cleared
<1>10. \A c \in DOMAIN Refs \ Unkept : \A r \in DOMAIN q.ref[c] :
         \/ q.ref[c][r] = Down(i, q.ref[c][r])
         \/ q.ref[c][r] = q.ref[c][r] /\ c \notin Incoming(k)
  OBVIOUS
<1>11. InRange(q)
  BY <1>1, <1>5, <1>6, <1>7, <1>8, <1>9, <1>10, DeletedInRange
<1>12. \A j \in Positions(q, k) : q.rows[k][j] = m.rows[k][Up(i, j)]
  BY <1>1, <1>4 DEF Removed
<1>13. QED BY <1>1, <1>5, <1>7, <1>8, <1>11, <1>12 DEF Without, Tables, q

-----------------------------------------------------------------------------
(* Trimmed tables, and tables whose matrices change *)

\* Trimming leaves the tables sound.
LEMMA TrimmedTables ==
  ASSUME NEW m, Tables(m), NEW p, Trimmed(m, p)
  PROVE  Tables(p)
<1>1. Columns(m) /\ Backed(m) /\ InRange(m) /\ Columns(p) /\ Drawn(m, p) /\ Framed(m, p)
      /\ \A t \in Main : p.rows[t] = m.rows[t]
  BY DEF Tables, Trimmed
<1>2. Backed(p)
  BY <1>1, FramedBacked
<1>3. ASSUME NEW c \in DOMAIN Refs \ Unkept, NEW r \in Positions(p, Refs[c][1])
      PROVE  p.ref[c][r] \in 0 .. Count(p, Refs[c][2])
  <2> DEFINE s == Refs[c][1]
             t == Refs[c][2]
             v == p.ref[c][r]
  <2>1. s \in Kinds /\ t \in Main /\ t \in Kinds /\ c \in DOMAIN Refs \ JoinCols
    BY RefSchema, MainSchema, KeptSchema DEF Main
  <2>2. DOMAIN p.ref[c] = Positions(p, s) /\ DOMAIN m.ref[c] = Positions(m, s)
        /\ Count(p, t) = Count(m, t) /\ Count(m, t) \in Nat
    BY <1>1, <2>1, ColumnsDomain DEF Count
  <2>3. v = 0 \/ \E r0 \in DOMAIN m.ref[c] : v = m.ref[c][r0]
    BY <1>1, <1>3, <2>1, <2>2 DEF Drawn
  <2>4. \A r0 \in Positions(m, s) : m.ref[c][r0] \in 0 .. Count(m, t)
    BY <1>1 DEF InRange
  <2>5. ASSUME NEW r0 \in DOMAIN m.ref[c], v = m.ref[c][r0] PROVE v \in 0 .. Count(m, t)
    BY <2>2, <2>4, <2>5, Zenon
  <2> HIDE DEF v, t
  <2>6. v \in 0 .. Count(p, t)
    BY <2>2, <2>3, <2>5
  <2>7. QED BY <2>6 DEF v, t
<1>4. InRange(p)
  BY <1>3 DEF InRange
<1>5. QED BY <1>1, <1>2, <1>4 DEF Tables

\* Only the matrices differ.
MatOnly(m, q) ==
  /\ DOMAIN q = DOMAIN m /\ q.rows = m.rows /\ q.ref = m.ref /\ q.name = m.name
  /\ q.data = m.data /\ q.subtype_row = m.subtype_row

\* What the tables satisfy does not depend on the matrices.
LEMMA MatOnlyTables ==
  ASSUME NEW m, NEW q, MatOnly(m, q)
  PROVE  /\ Columns(m) => Columns(q)
         /\ Backed(m) => Backed(q)
         /\ Tables(m) => Tables(q)
         /\ Drawn(m, q)
         /\ \A k, i : Cleared(m, k, i) => Cleared(q, k, i)
<1>1. \A t : Count(q, t) = Count(m, t) /\ Positions(q, t) = Positions(m, t)
  BY DEF MatOnly, Count, Positions
<1>2. Columns(m) => Columns(q)
  BY <1>1, Zenon DEF MatOnly, Columns
<1>3. Backed(m) => Backed(q)
  <2>1. Framed(m, q)
    BY DEF MatOnly, Framed
  <2>2. QED BY <2>1, FramedBacked
<1>4. InRange(m) => InRange(q)
  BY <1>1 DEF InRange, MatOnly
<1>5. Drawn(m, q)
  BY DEF MatOnly, Drawn
<1>6. \A k, i : Cleared(m, k, i) => Cleared(q, k, i)
  BY DEF MatOnly, Cleared, RowsAt
<1>7. QED BY <1>2, <1>3, <1>4, <1>5, <1>6 DEF Tables

-----------------------------------------------------------------------------
(* One lemma per delete_* function: the tables afterwards *)

\* Further trimming brings no reference back.
LEMMA TrimmedCleared ==
  ASSUME NEW m, NEW p, Trimmed(m, p), NEW k, NEW i, i # 0, Cleared(m, k, i)
  PROVE  Cleared(p, k, i)
<1>1. \A c \in Incoming(k) : c \in DOMAIN Refs \ JoinCols
  BY KeptSchema DEF Incoming
<1>2. QED BY <1>1, DrawnClear DEF Cleared, Trimmed

\* The parts of Tables, and the indices of the main tables
LEMMA TablesParts ==
  ASSUME NEW m, Tables(m)
  PROVE  /\ Columns(m) /\ Backed(m) /\ InRange(m)
         /\ \A k \in Main : k \in Kinds /\ Count(m, k) \in Nat /\ Positions(m, k) = 1 .. Count(m, k)
         /\ \A k \in Main : \A i \in Positions(m, k) : i # 0
<1>1. Columns(m) /\ Backed(m) /\ InRange(m)
  BY DEF Tables
<1>2. \A k \in Main : k \in Kinds /\ Count(m, k) \in Nat /\ Positions(m, k) = 1 .. Count(m, k)
  BY <1>1, ColumnsDomain DEF Main, Positions
<1>3. QED BY <1>1, <1>2

\* After swmm_gage_delete the tables are sound and the others are in their order;
\* the same for each deletion below.
LEMMA GageDeleted ==
  ASSUME NEW m, Tables(m), NEW g \in Positions(m, "gages")
  PROVE  Without(m, delete_gage(m, g), "gages", g) /\ delete_gage(m, g).mat = m.mat
<1> DEFINE n == Nullify(m, {"gage"}, g)
           p == ClearName(n, {"uh_gage"}, m.rows.gages[g])
<1>1. Columns(m) /\ "gages" \in Main /\ g # 0
  BY TablesParts, MainSchema
<1>2. {"gage"} \cap JoinCols = {} /\ Incoming("gages") = {"gage"} /\ "gage" \in DOMAIN Refs
  BY KeptSchema, IncomingSchema DEF Incoming
<1>3. Trimmed(m, n) /\ Cleared(n, "gages", g)
  BY <1>1, <1>2, NullifyTrimmed DEF Cleared
<1> HIDE DEF n
<1>4. Trimmed(n, p)
  BY <1>3, ClearNameTrimmed DEF Trimmed
<1> HIDE DEF p
<1>5. Trimmed(m, p) /\ Cleared(p, "gages", g)
  BY <1>1, <1>3, <1>4, TrimmedTransitive, TrimmedCleared
<1>6. delete_gage(m, g) = Renumber(EraseObject(p, "gages", g), {"gage"}, g)
  BY DEF delete_gage, p, n
<1>7. QED BY <1>1, <1>2, <1>5, <1>6, PlainDeletion

LEMMA AquiferDeleted ==
  ASSUME NEW m, Tables(m), NEW a \in Positions(m, "aquifers")
  PROVE  Without(m, delete_aquifer(m, a), "aquifers", a) /\ delete_aquifer(m, a).mat = m.mat
<1> DEFINE p == Nullify(m, {"gw_aquifer"}, a)
<1>1. Columns(m) /\ "aquifers" \in Main /\ a # 0
  BY TablesParts, MainSchema
<1>2. /\ {"gw_aquifer"} \cap JoinCols = {} /\ Incoming("aquifers") = {"gw_aquifer"}
      /\ "gw_aquifer" \in DOMAIN Refs
  BY KeptSchema, IncomingSchema DEF Incoming
<1>3. Trimmed(m, p) /\ Cleared(p, "aquifers", a)
  BY <1>1, <1>2, NullifyTrimmed DEF Cleared
<1>4. delete_aquifer(m, a) = Renumber(EraseObject(p, "aquifers", a), {"gw_aquifer"}, a)
  BY DEF delete_aquifer
<1> HIDE DEF p
<1>5. QED BY <1>1, <1>2, <1>3, <1>4, PlainDeletion

LEMMA SnowpackDeleted ==
  ASSUME NEW m, Tables(m), NEW s \in Positions(m, "snowpacks")
  PROVE  Without(m, delete_snowpack(m, s), "snowpacks", s) /\ delete_snowpack(m, s).mat = m.mat
<1> DEFINE p == Nullify(m, {"snowpack"}, s)
<1>1. Columns(m) /\ "snowpacks" \in Main /\ s # 0
  BY TablesParts, MainSchema
<1>2. /\ {"snowpack"} \cap JoinCols = {} /\ Incoming("snowpacks") = {"snowpack"}
      /\ "snowpack" \in DOMAIN Refs
  BY KeptSchema, IncomingSchema DEF Incoming
<1>3. Trimmed(m, p) /\ Cleared(p, "snowpacks", s)
  BY <1>1, <1>2, NullifyTrimmed DEF Cleared
<1>4. delete_snowpack(m, s) = Renumber(EraseObject(p, "snowpacks", s), {"snowpack"}, s)
  BY DEF delete_snowpack
<1> HIDE DEF p
<1>5. QED BY <1>1, <1>2, <1>3, <1>4, PlainDeletion

\* The tables that deletions cascade into, by column
LEMMA CascadeSchema ==
  /\ Refs["lid_subcatch"][1] = "lid_usage" /\ Refs["lid_index"][1] = "lid_usage"
  /\ Refs["inlet_link"][1] = "inlet_usages" /\ Refs["inlet_design"][1] = "inlet_usages"
  /\ Refs["inlet_street"][1] = "inlet_usages" /\ Refs["ext_node"][1] = "ext_inflows"
  /\ Refs["dwf_node"][1] = "dwf_inflows" /\ Refs["rdii_node"][1] = "rdii_assigns"
  /\ {"lid_subcatch", "lid_index", "inlet_link", "inlet_design", "inlet_street", "ext_node",
      "dwf_node", "rdii_node"} \subseteq DOMAIN Refs
  /\ {"lid_usage", "inlet_usages", "ext_inflows", "dwf_inflows", "rdii_assigns"} \subseteq Cascaded
BY DEF Refs, Cascaded

LEMMA LidDeleted ==
  ASSUME NEW m, Tables(m), NEW i \in Positions(m, "lid_controls")
  PROVE  Without(m, delete_lid(m, i), "lid_controls", i) /\ delete_lid(m, i).mat = m.mat
<1> DEFINE p == CascadeRows(m, "lid_usage", "lid_index", i)
<1>1. Columns(m) /\ "lid_controls" \in Main
  BY TablesParts, MainSchema
<1>2. {"lid_index"} \cap JoinCols = {} /\ Incoming("lid_controls") = {"lid_index"}
  BY KeptSchema, IncomingSchema
<1>3. Trimmed(m, p) /\ Cleared(p, "lid_controls", i)
  BY <1>1, <1>2, CascadeSchema, CascadeTrimmed DEF Cleared
<1>4. delete_lid(m, i) = Renumber(EraseObject(p, "lid_controls", i), {"lid_index"}, i)
  BY DEF delete_lid
<1> HIDE DEF p
<1>5. QED BY <1>1, <1>2, <1>3, <1>4, PlainDeletion

LEMMA InletDeleted ==
  ASSUME NEW m, Tables(m), NEW i \in Positions(m, "inlets")
  PROVE  Without(m, delete_inlet(m, i), "inlets", i) /\ delete_inlet(m, i).mat = m.mat
<1> DEFINE p == CascadeRows(m, "inlet_usages", "inlet_design", i)
<1>1. Columns(m) /\ "inlets" \in Main
  BY TablesParts, MainSchema
<1>2. {"inlet_design"} \cap JoinCols = {} /\ Incoming("inlets") = {"inlet_design"}
  BY KeptSchema, IncomingSchema
<1>3. Trimmed(m, p) /\ Cleared(p, "inlets", i)
  BY <1>1, <1>2, CascadeSchema, CascadeTrimmed DEF Cleared
<1>4. delete_inlet(m, i) = Renumber(EraseObject(p, "inlets", i), {"inlet_design"}, i)
  BY DEF delete_inlet
<1> HIDE DEF p
<1>5. QED BY <1>1, <1>2, <1>3, <1>4, PlainDeletion

LEMMA PatternDeleted ==
  ASSUME NEW m, Tables(m), NEW p \in Positions(m, "patterns")
  PROVE  Without(m, delete_pattern(m, p), "patterns", p) /\ delete_pattern(m, p).mat = m.mat
<1> DEFINE f == ClearName(m, {"ext_pattern", "dwf_pattern", "evap_pattern"}, m.rows.patterns[p])
<1>1. Columns(m) /\ "patterns" \in Main /\ Incoming("patterns") = {}
  BY TablesParts, MainSchema, IncomingSchema
<1>2. Trimmed(m, f)
  BY <1>1, ClearNameTrimmed
<1>3. delete_pattern(m, p) = EraseObject(f, "patterns", p)
  BY DEF delete_pattern
<1> HIDE DEF f
<1>4. QED BY <1>1, <1>2, <1>3, DeletionUnindexed

LEMMA HydrographDeleted ==
  ASSUME NEW m, Tables(m), NEW h \in Positions(m, "unit_hyds")
  PROVE  Without(m, delete_hydrograph(m, h), "unit_hyds", h) /\ delete_hydrograph(m, h).mat = m.mat
<1> DEFINE p == CascadeNamed(m, "rdii_assigns", "uh_name", m.rows.unit_hyds[h])
<1>1. Columns(m) /\ "unit_hyds" \in Main /\ Incoming("unit_hyds") = {}
  BY TablesParts, MainSchema, IncomingSchema
<1>2. Trimmed(m, p)
  BY <1>1, CascadeSchema, CascadeNamedTrimmed
<1>3. delete_hydrograph(m, h) = EraseObject(p, "unit_hyds", h)
  BY DEF delete_hydrograph
<1> HIDE DEF p
<1>4. QED BY <1>1, <1>2, <1>3, DeletionUnindexed

\* Some entries of a column are overwritten.
Overwritten(s, L, v) == [l \in DOMAIN s |-> IF l \in L THEN v ELSE s[l]]

\* Overwriting entries keeps the length of a column.
LEMMA OverwrittenColumn ==
  ASSUME NEW s, NEW n, IsColumn(s, n), NEW L, NEW v
  PROVE  IsColumn(Overwritten(s, L, v), n)
BY ColumnFacts DEF IsColumn, Overwritten

\* A reference column outside the joins is cleared in part; names and values
\* that are not types may change.
LEMMA ClearedTrimmed ==
  ASSUME NEW m, Columns(m), NEW q, DOMAIN q = DOMAIN m,
         q.rows = m.rows, q.subtype_row = m.subtype_row, q.mat = m.mat,
         DOMAIN q.ref = DOMAIN Refs, DOMAIN q.name = DOMAIN NameRefs, DOMAIN q.data = DOMAIN DataCols,
         \A c \in DOMAIN Refs :
           q.ref[c] = m.ref[c] \/ (c \notin JoinCols /\ \E L : q.ref[c] = Overwritten(m.ref[c], L, 0)),
         \A c \in DOMAIN NameRefs :
           q.name[c] = m.name[c] \/ \E L, v : q.name[c] = Overwritten(m.name[c], L, v),
         \A c \in DOMAIN DataCols :
           q.data[c] = m.data[c]
             \/ (c \notin {"node_type", "link_type"} /\ \E L, v : q.data[c] = Overwritten(m.data[c], L, v))
  PROVE  Trimmed(m, q)
<1>1. \A c \in DOMAIN Refs :
        q.ref[c] = m.ref[c] \/ (c \notin JoinCols /\ IsColumn(q.ref[c], Count(m, Refs[c][1])))
  <2>1. TAKE c \in DOMAIN Refs
  <2>2. IsColumn(m.ref[c], Count(m, Refs[c][1]))
    BY DEF Columns
  <2>3. QED BY <2>2, OverwrittenColumn
<1>2. \A c \in DOMAIN NameRefs : q.name[c] = m.name[c] \/ IsColumn(q.name[c], Count(m, NameRefs[c][1]))
  <2>1. TAKE c \in DOMAIN NameRefs
  <2>2. IsColumn(m.name[c], Count(m, NameRefs[c][1]))
    BY DEF Columns
  <2>3. QED BY <2>2, OverwrittenColumn
<1>3. \A c \in DOMAIN DataCols :
        q.data[c] = m.data[c] \/ (c \notin {"node_type", "link_type"} /\ IsColumn(q.data[c], Len(m.data[c])))
  <2>1. TAKE c \in DOMAIN DataCols
  <2>2. IsColumn(m.data[c], Len(m.data[c]))
    BY ColumnsDomain
  <2>3. QED BY <2>2, OverwrittenColumn
<1>4. Retouched(m, q)
  BY <1>1, <1>2, <1>3, RetouchedSame, Zenon
<1>5. Drawn(m, q)
  <2>1. SUFFICES ASSUME NEW c \in DOMAIN Refs \ JoinCols, NEW r \in DOMAIN q.ref[c]
                 PROVE  q.ref[c][r] = 0 \/ \E r0 \in DOMAIN m.ref[c] : q.ref[c][r] = m.ref[c][r0]
    BY DEF Drawn
  <2>2. CASE q.ref[c] = m.ref[c]
    BY <2>1, <2>2
  <2>3. CASE q.ref[c] # m.ref[c]
    <3>1. PICK L : q.ref[c] = Overwritten(m.ref[c], L, 0)
      BY <2>1, <2>3
    <3>2. QED BY <2>1, <3>1 DEF Overwritten
  <2>4. QED BY <2>2, <2>3
<1>6. QED BY <1>4, <1>5, RetouchedTrimmed

\* swmm_subcatch_delete: the outlets and LID units that refer to it go or are cleared.
LEMMA SubcatchDeleted ==
  ASSUME NEW m, Tables(m), DOMAIN m.mat = {"buildup", "treatment", "coverage", "conc"},
         NEW s \in Positions(m, "subcatches")
  PROVE  /\ Without(m, delete_subcatch(m, s), "subcatches", s)
         /\ DOMAIN delete_subcatch(m, s).mat = DOMAIN m.mat
         /\ delete_subcatch(m, s).mat.buildup = m.mat.buildup
         /\ delete_subcatch(m, s).mat.treatment = m.mat.treatment
<1> DEFINE n == Nullify(m, {"outlet_subcatch", "route_to"}, s)
           l == CascadeRows(n, "lid_usage", "lid_subcatch", s)
           p == ClearName(l, {"drain_to", "removal_subcatch"}, m.rows.subcatches[s])
           e == EraseObject(p, "subcatches", s)
           g == [e EXCEPT !.mat.coverage.cells = erase_stride(@, m.mat.coverage.cols, s),
                          !.mat.conc.cells = erase_stride(@, m.mat.conc.cols, s)]
           C == {"outlet_subcatch", "route_to", "lid_subcatch"}
<1>1. Columns(m) /\ "subcatches" \in Main /\ s # 0
  BY TablesParts, MainSchema
<1>2. /\ {"outlet_subcatch", "route_to"} \cap JoinCols = {} /\ C \cap JoinCols = {}
      /\ Incoming("subcatches") = {"outlet_subcatch", "lid_subcatch"}
      /\ "outlet_subcatch" \in DOMAIN Refs \ JoinCols /\ "lid_subcatch" \in DOMAIN Refs
  BY KeptSchema, IncomingSchema DEF Incoming
<1>3. Trimmed(m, n) /\ RowsAt(n, "outlet_subcatch", s) = {}
  BY <1>1, <1>2, NullifyTrimmed
<1> HIDE DEF n
<1>4. Columns(n)
  BY <1>3 DEF Trimmed
<1>5. Trimmed(n, l) /\ RowsAt(l, "lid_subcatch", s) = {}
  BY <1>4, CascadeSchema, CascadeTrimmed
<1> HIDE DEF l
<1>6. RowsAt(l, "outlet_subcatch", s) = {} /\ Columns(l)
  BY <1>1, <1>2, <1>3, <1>5, DrawnClear DEF Trimmed
<1>7. Trimmed(l, p)
  BY <1>6, ClearNameTrimmed
<1> HIDE DEF p
<1>8. Trimmed(m, p) /\ Cleared(p, "subcatches", s)
  <2>1. Trimmed(m, p)
    BY <1>3, <1>5, <1>7, TrimmedTransitive
  <2>2. Cleared(l, "subcatches", s)
    BY <1>2, <1>5, <1>6 DEF Cleared
  <2>3. QED BY <1>1, <1>7, <2>1, <2>2, TrimmedCleared
<1>9. Removed(p, e, "subcatches", s)
  <2>1. Tables(p) /\ Positions(p, "subcatches") = Positions(m, "subcatches")
    BY <1>1, <1>8, TrimmedTables DEF Trimmed, Positions, Count
  <2>2. QED BY <1>1, <2>1, EraseObjectRemoved DEF Tables
<1> HIDE DEF e
<1>10. Columns(e) /\ Backed(e) /\ Cleared(e, "subcatches", s) /\ e.mat = m.mat
  <2>1. \A c \in Incoming("subcatches") : c \in DOMAIN Refs \ JoinCols
    BY KeptSchema DEF Incoming
  <2>2. Cleared(e, "subcatches", s)
    BY <1>1, <1>8, <1>9, <2>1, DrawnClear DEF Cleared, Removed
  <2>3. QED BY <1>8, <1>9, <2>2 DEF Removed, Trimmed
<1>11. MatOnly(e, g)
  BY <1>10, ColumnsDomain DEF MatOnly
<1>12. /\ DOMAIN g.mat = DOMAIN m.mat
       /\ g.mat.buildup = m.mat.buildup /\ g.mat.treatment = m.mat.treatment
  <2> DEFINE f == [e EXCEPT !.mat.coverage.cells = erase_stride(@, m.mat.coverage.cols, s)]
             h == [f EXCEPT !.mat.conc.cells = erase_stride(@, m.mat.conc.cols, s)]
  <2>1. g = h
    OBVIOUS
  <2>2. "mat" \in DOMAIN e /\ DOMAIN e.mat = {"buildup", "treatment", "coverage", "conc"}
    BY <1>10, ColumnsDomain
  <2>3. /\ "mat" \in DOMAIN f /\ DOMAIN f.mat = DOMAIN e.mat
        /\ f.mat.buildup = e.mat.buildup /\ f.mat.treatment = e.mat.treatment
    BY <2>2
  <2> HIDE DEF f, g
  <2>4. /\ DOMAIN h.mat = DOMAIN f.mat
        /\ h.mat.buildup = f.mat.buildup /\ h.mat.treatment = f.mat.treatment
    BY <2>2, <2>3
  <2>5. QED BY <1>10, <2>1, <2>3, <2>4
<1>13. delete_subcatch(m, s) = Renumber(g, C, s)
  BY DEF delete_subcatch, e, p, l, n
<1> HIDE DEF g
<1>14. Columns(g) /\ Backed(g) /\ Drawn(e, g) /\ g.rows = e.rows /\ Cleared(g, "subcatches", s)
  BY <1>10, <1>11, MatOnlyTables DEF MatOnly
<1>15. Without(m, Renumber(g, C, s), "subcatches", s) /\ Renumber(g, C, s).mat = g.mat
  BY <1>1, <1>2, <1>8, <1>14, Deletion DEF e
<1>16. QED BY <1>12, <1>13, <1>15

\* swmm_table_delete: curves, series and storage shapes that refer to it are cleared.
LEMMA TableDeleted ==
  ASSUME NEW m, Tables(m), NEW t \in Positions(m, "tables")
  PROVE  Without(m, delete_table(m, t), "tables", t) /\ delete_table(m, t).mat = m.mat
<1> DEFINE C == {"ts_index", "storage_curve", "divider_curve", "outfall_param", "pump_curve",
                 "outlet_curve", "xsect_curve", "infil_pattern"}
           G == RowsAt(m, "ts_index", t)
           u == [m EXCEPT !.name.ts_name = [g \in DOMAIN @ |-> IF g \in G THEN NoName ELSE @[g]]]
           n == Nullify(u, C, t)
           p == ClearName(n, {"ext_ts"}, m.rows.tables[t])
<1>1. Columns(m) /\ "tables" \in Main /\ t # 0
  BY TablesParts, MainSchema
<1>2. C \cap JoinCols = {} /\ Incoming("tables") \subseteq C /\ Incoming("tables") \subseteq DOMAIN Refs
  BY KeptSchema, IncomingSchema DEF Incoming
<1>3. Trimmed(m, u)
  <2>1. "ts_name" \in DOMAIN NameRefs
    BY DEF NameRefs
  <2>2. /\ DOMAIN m = {"rows", "ref", "name", "data", "subtype_row", "mat"}
        /\ DOMAIN m.ref = DOMAIN Refs /\ DOMAIN m.name = DOMAIN NameRefs /\ DOMAIN m.data = DOMAIN DataCols
    BY <1>1, ColumnsDomain
  <2>3. /\ DOMAIN u = DOMAIN m /\ u.rows = m.rows /\ u.subtype_row = m.subtype_row /\ u.mat = m.mat
        /\ u.ref = m.ref /\ u.data = m.data
        /\ u.name = [m.name EXCEPT !.ts_name = Overwritten(@, G, NoName)]
    BY <2>2 DEF Overwritten
  <2> HIDE DEF u, G
  <2>4. /\ DOMAIN u.name = DOMAIN NameRefs
        /\ \A c \in DOMAIN NameRefs :
             u.name[c] = m.name[c] \/ \E L, v : u.name[c] = Overwritten(m.name[c], L, v)
    BY <2>1, <2>2, <2>3
  <2>5. QED BY <1>1, <2>2, <2>3, <2>4, ClearedTrimmed
<1> HIDE DEF u, C
<1>4. Columns(u)
  BY <1>3 DEF Trimmed
<1>5. Trimmed(u, n) /\ Cleared(n, "tables", t)
  BY <1>1, <1>2, <1>4, NullifyTrimmed DEF Cleared
<1> HIDE DEF n
<1>6. Columns(n)
  BY <1>5 DEF Trimmed
<1>7. Trimmed(n, p)
  BY <1>6, ClearNameTrimmed
<1> HIDE DEF p
<1>8. Trimmed(m, p) /\ Cleared(p, "tables", t)
  BY <1>1, <1>3, <1>5, <1>7, TrimmedTransitive, TrimmedCleared
<1>9. delete_table(m, t) = Renumber(EraseObject(p, "tables", t), C, t)
  BY DEF delete_table, p, n, u, C
<1>10. QED BY <1>1, <1>2, <1>8, <1>9, PlainDeletion

\* A deletion may overwrite entries afterwards.
LEMMA WithoutRetouched ==
  ASSUME NEW m, NEW e, NEW k \in Main, NEW i, Without(m, e, k, i), NEW q, Retouched(e, q),
         \A c \in DOMAIN Refs \ Unkept : q.ref[c] = e.ref[c]
  PROVE  Without(m, q, k, i) /\ q.mat = e.mat
<1>1. Columns(e) /\ Backed(e) /\ InRange(e)
  BY DEF Without, Tables
<1>2. Columns(q) /\ Backed(q)
  BY <1>1, RetouchedColumns, RetouchedBacked
<1>3. q.rows = e.rows /\ q.mat = e.mat /\ \A t : Count(q, t) = Count(e, t) /\ Positions(q, t) = Positions(e, t)
  BY DEF Retouched, Count, Positions
<1>4. InRange(q)
  BY <1>1, <1>3 DEF InRange
<1>5. QED BY <1>2, <1>3, <1>4 DEF Without, Tables

\* Nothing to clear
LEMMA TrimmedReflexive ==
  ASSUME NEW m, Columns(m)
  PROVE  Trimmed(m, m)
BY DEF Trimmed, Framed, Drawn

LEMMA TransectDeleted ==
  ASSUME NEW m, Tables(m), NEW t \in Positions(m, "transects")
  PROVE  Without(m, delete_transect(m, t), "transects", t) /\ delete_transect(m, t).mat = m.mat
<1> DEFINE shaped == {l \in Positions(m, "links") : m.data.xsect_shape[l] \in {"IRREGULAR", "CUSTOM"}}
           cut == {l \in shaped : m.ref.xsect_curve[l] = t}
           p == [m EXCEPT
                  !.ref.xsect_curve = [l \in DOMAIN @ |-> IF l \in cut THEN 0 ELSE @[l]],
                  !.data.xsect_shape = [l \in DOMAIN @ |-> IF l \in cut THEN "CIRCULAR" ELSE @[l]]]
           e == EraseObject(p, "transects", t)
           Moved(s) == [l \in DOMAIN s |-> IF l \in shaped \ cut /\ s[l] > t THEN s[l] - 1 ELSE s[l]]
           q == [e EXCEPT !.ref.xsect_curve = Moved(@)]
<1>1. Columns(m) /\ "transects" \in Main /\ Incoming("transects") = {}
  BY TablesParts, MainSchema, IncomingSchema
<1>2. delete_transect(m, t) = q
  BY DEF delete_transect
<1>3. "xsect_curve" \in DOMAIN Refs \ JoinCols /\ "xsect_curve" \in Unkept
      /\ "xsect_shape" \in DOMAIN DataCols \ {"node_type", "link_type"}
  BY KeptSchema, DataTables DEF Refs
<1> HIDE DEF shaped, cut
<1>4. Trimmed(m, p)
  <2>1. /\ DOMAIN m = {"rows", "ref", "name", "data", "subtype_row", "mat"}
        /\ DOMAIN m.ref = DOMAIN Refs /\ DOMAIN m.name = DOMAIN NameRefs /\ DOMAIN m.data = DOMAIN DataCols
    BY <1>1, ColumnsDomain
  <2>2. /\ DOMAIN p = DOMAIN m /\ p.rows = m.rows /\ p.subtype_row = m.subtype_row /\ p.mat = m.mat
        /\ p.ref = [m.ref EXCEPT !.xsect_curve = Overwritten(@, cut, 0)] /\ p.name = m.name
        /\ p.data = [m.data EXCEPT !.xsect_shape = Overwritten(@, cut, "CIRCULAR")]
    BY <2>1 DEF Overwritten
  <2> HIDE DEF p
  <2>3. /\ DOMAIN p.ref = DOMAIN Refs
        /\ \A c \in DOMAIN Refs :
             p.ref[c] = m.ref[c] \/ (c \notin JoinCols /\ \E L : p.ref[c] = Overwritten(m.ref[c], L, 0))
    BY <1>3, <2>1, <2>2
  <2>4. /\ DOMAIN p.data = DOMAIN DataCols
        /\ \A c \in DOMAIN DataCols :
             p.data[c] = m.data[c]
               \/ (c \notin {"node_type", "link_type"} /\ \E L, v : p.data[c] = Overwritten(m.data[c], L, v))
    BY <1>3, <2>1, <2>2
  <2>5. QED BY <1>1, <2>1, <2>2, <2>3, <2>4, ClearedTrimmed
<1> HIDE DEF p
<1>5. Without(m, e, "transects", t) /\ e.mat = m.mat
  BY <1>1, <1>4, DeletionUnindexed
<1> HIDE DEF e
<1>6. /\ Retouched(e, q)
      /\ \A c \in DOMAIN Refs \ Unkept : q.ref[c] = e.ref[c]
  <2>1. Columns(e)
    BY <1>5 DEF Without, Tables
  <2>2. /\ DOMAIN e = {"rows", "ref", "name", "data", "subtype_row", "mat"}
        /\ DOMAIN e.ref = DOMAIN Refs /\ DOMAIN e.name = DOMAIN NameRefs /\ DOMAIN e.data = DOMAIN DataCols
    BY <2>1, ColumnsDomain
  <2>3. IsColumn(Moved(e.ref.xsect_curve), Count(e, Refs["xsect_curve"][1]))
    <3>1. IsColumn(e.ref["xsect_curve"], Count(e, Refs["xsect_curve"][1]))
      BY <1>3, <2>1 DEF Columns
    <3>2. QED BY <3>1, ColumnFacts DEF IsColumn
  <2> HIDE DEF Moved
  <2>4. /\ DOMAIN q = DOMAIN e /\ q.rows = e.rows /\ q.subtype_row = e.subtype_row /\ q.mat = e.mat
        /\ q.ref = [e.ref EXCEPT !.xsect_curve = Moved(@)] /\ q.name = e.name /\ q.data = e.data
    BY <2>2
  <2> HIDE DEF q
  <2>5. /\ DOMAIN q.ref = DOMAIN Refs
        /\ \A c \in DOMAIN Refs :
             q.ref[c] = e.ref[c] \/ (c \notin JoinCols /\ IsColumn(q.ref[c], Count(e, Refs[c][1])))
    BY <1>3, <2>2, <2>3, <2>4
  <2>6. Retouched(e, q)
    BY <2>1, <2>2, <2>4, <2>5, RetouchedSame
  <2>7. \A c \in DOMAIN Refs \ Unkept : q.ref[c] = e.ref[c]
    BY <1>3, <2>2, <2>4
  <2>8. QED BY <2>6, <2>7
<1> HIDE DEF q
<1>7. QED BY <1>1, <1>2, <1>5, <1>6, WithoutRetouched

LEMMA StreetDeleted ==
  ASSUME NEW m, Tables(m), NEW s \in Positions(m, "streets")
  PROVE  Without(m, delete_street(m, s), "streets", s) /\ delete_street(m, s).mat = m.mat
<1> DEFINE paved == {l \in Positions(m, "links") : m.data.xsect_shape[l] = "STREET_XSECT"
                                                    /\ m.name.xsect_name[l] = m.rows.streets[s]}
           a == CascadeRows(m, "inlet_usages", "inlet_street", s)
           p == [a EXCEPT
                  !.name.xsect_name = [l \in DOMAIN @ |-> IF l \in paved THEN NoName ELSE @[l]],
                  !.data.xsect_shape = [l \in DOMAIN @ |-> IF l \in paved THEN "CIRCULAR" ELSE @[l]],
                  !.ref.xsect_curve = [l \in DOMAIN @ |-> IF l \in paved THEN 0 ELSE @[l]]]
<1>1. Columns(m) /\ "streets" \in Main /\ s # 0
  BY TablesParts, MainSchema
<1>2. {"inlet_street"} \cap JoinCols = {} /\ Incoming("streets") = {"inlet_street"}
  BY KeptSchema, IncomingSchema
<1>3. "xsect_curve" \in DOMAIN Refs \ JoinCols /\ "xsect_name" \in DOMAIN NameRefs
      /\ "xsect_shape" \in DOMAIN DataCols \ {"node_type", "link_type"}
  BY KeptSchema, DataTables DEF Refs, NameRefs
<1>4. Trimmed(m, a) /\ Cleared(a, "streets", s)
  BY <1>1, <1>2, CascadeSchema, CascadeTrimmed DEF Cleared
<1>5. delete_street(m, s) = Renumber(EraseObject(p, "streets", s), {"inlet_street"}, s)
  BY DEF delete_street
<1> HIDE DEF paved, a
<1>6. Trimmed(a, p)
  <2>1. Columns(a)
    BY <1>4 DEF Trimmed
  <2>2. /\ DOMAIN a = {"rows", "ref", "name", "data", "subtype_row", "mat"}
        /\ DOMAIN a.ref = DOMAIN Refs /\ DOMAIN a.name = DOMAIN NameRefs /\ DOMAIN a.data = DOMAIN DataCols
    BY <2>1, ColumnsDomain
  <2>3. /\ DOMAIN p = DOMAIN a /\ p.rows = a.rows /\ p.subtype_row = a.subtype_row /\ p.mat = a.mat
        /\ p.ref = [a.ref EXCEPT !.xsect_curve = Overwritten(@, paved, 0)]
        /\ p.name = [a.name EXCEPT !.xsect_name = Overwritten(@, paved, NoName)]
        /\ p.data = [a.data EXCEPT !.xsect_shape = Overwritten(@, paved, "CIRCULAR")]
    BY <2>2 DEF Overwritten
  <2> HIDE DEF p
  <2>4. /\ DOMAIN p.ref = DOMAIN Refs
        /\ \A c \in DOMAIN Refs :
             p.ref[c] = a.ref[c] \/ (c \notin JoinCols /\ \E L : p.ref[c] = Overwritten(a.ref[c], L, 0))
    BY <1>3, <2>2, <2>3
  <2>5. /\ DOMAIN p.name = DOMAIN NameRefs
        /\ \A c \in DOMAIN NameRefs :
             p.name[c] = a.name[c] \/ \E L, v : p.name[c] = Overwritten(a.name[c], L, v)
    BY <1>3, <2>2, <2>3
  <2>6. /\ DOMAIN p.data = DOMAIN DataCols
        /\ \A c \in DOMAIN DataCols :
             p.data[c] = a.data[c]
               \/ (c \notin {"node_type", "link_type"} /\ \E L, v : p.data[c] = Overwritten(a.data[c], L, v))
    BY <1>3, <2>2, <2>3
  <2>7. QED BY <2>1, <2>2, <2>3, <2>4, <2>5, <2>6, ClearedTrimmed
<1> HIDE DEF p
<1>7. Trimmed(m, p) /\ Cleared(p, "streets", s)
  BY <1>1, <1>4, <1>6, TrimmedTransitive, TrimmedCleared
<1>8. QED BY <1>1, <1>2, <1>5, <1>7, PlainDeletion

MatNames == {"buildup", "treatment", "coverage", "conc"}

\* A deletion may change the matrices afterwards.
LEMMA MatOnlyDeletion ==
  ASSUME NEW m, Tables(m), NEW p, MatOnly(m, p), NEW k \in Main, NEW i \in Positions(m, k)
  PROVE  /\ Tables(p) /\ i \in Positions(p, k)
         /\ \A q : Without(p, q, k, i) => Without(m, q, k, i)
<1>1. Tables(p)
  BY MatOnlyTables
<1>2. p.rows = m.rows
  BY DEF MatOnly
<1>3. \A t : Count(p, t) = Count(m, t) /\ Positions(p, t) = Positions(m, t)
  BY <1>2 DEF Count, Positions
<1>4. QED BY <1>1, <1>2, <1>3 DEF Without

\* swmm_landuse_delete: the tables and the matrices afterwards
LEMMA LanduseDeleted ==
  ASSUME NEW m, Tables(m), DOMAIN m.mat = MatNames, NEW u \in Positions(m, "landuses")
  PROVE  /\ Without(m, delete_landuse(m, u), "landuses", u)
         /\ DOMAIN delete_landuse(m, u).mat = DOMAIN m.mat
         /\ delete_landuse(m, u).mat.treatment = m.mat.treatment
         /\ delete_landuse(m, u).mat.buildup =
              IF m.mat.buildup.rows >= u /\ m.mat.buildup.cols = Count(m, "pollutants")
              THEN [m.mat.buildup EXCEPT
                      !.cells = erase_matrix_row(@, m.mat.buildup.rows, m.mat.buildup.cols, u),
                      !.rows = @ - 1]
              ELSE m.mat.buildup
<1> DEFINE B == m.mat.buildup
           C == m.mat.coverage
           b == IF B.rows >= u /\ B.cols = Count(m, "pollutants")
                THEN [B EXCEPT !.cells = erase_matrix_row(@, B.rows, B.cols, u), !.rows = @ - 1] ELSE B
           v == IF C.cols >= u
                THEN [C EXCEPT !.cells = erase_matrix_column(@, Count(m, "subcatches"), C.cols, u),
                               !.cols = @ - 1] ELSE C
           p == [m EXCEPT !.mat.buildup = b, !.mat.coverage = v]
<1>1. Columns(m) /\ "landuses" \in Main /\ Incoming("landuses") = {}
  BY TablesParts, MainSchema, IncomingSchema
<1>2. delete_landuse(m, u) = EraseObject(p, "landuses", u)
  BY DEF delete_landuse
<1> HIDE DEF b, v
<1>3. /\ MatOnly(m, p)
      /\ p.mat = [m.mat EXCEPT !.buildup = b, !.coverage = v]
  BY <1>1, ColumnsDomain DEF MatOnly
<1> HIDE DEF p
<1>4. Tables(p) /\ u \in Positions(p, "landuses")
      /\ \A q : Without(p, q, "landuses", u) => Without(m, q, "landuses", u)
  BY <1>1, <1>3, MatOnlyDeletion
<1>5. Columns(p) /\ Trimmed(p, p)
  BY <1>4, TrimmedReflexive DEF Tables
<1>6. Without(p, EraseObject(p, "landuses", u), "landuses", u)
      /\ EraseObject(p, "landuses", u).mat = p.mat
  BY <1>1, <1>4, <1>5, DeletionUnindexed
<1>7. DOMAIN p.mat = DOMAIN m.mat /\ p.mat.treatment = m.mat.treatment /\ p.mat.buildup = b
  BY <1>3 DEF MatNames
<1>8. QED BY <1>2, <1>4, <1>6, <1>7 DEF b

Packed(M, np, nr, p) ==
  IF M.cols # np THEN M
  ELSE [M EXCEPT !.cells = erase_matrix_column(@, nr, np, p), !.cols = np - 1]

\* swmm_pollutant_delete: the tables and the matrices afterwards
LEMMA PollutantDeleted ==
  ASSUME NEW m, Tables(m), DOMAIN m.mat = MatNames, NEW p \in Positions(m, "pollutants")
  PROVE  /\ Without(m, delete_pollutant(m, p), "pollutants", p)
         /\ DOMAIN delete_pollutant(m, p).mat = DOMAIN m.mat
         /\ \A x \in {"buildup", "treatment"} :
              delete_pollutant(m, p).mat[x] =
                Packed(m.mat[x], Count(m, "pollutants"), m.mat[x].rows, p)
<1> DEFINE id == m.rows.pollutants[p]
           d1 == CascadeNamed(m, "ext_inflows", "ext_constituent", id)
           d2 == CascadeNamed(d1, "dwf_inflows", "dwf_constituent", id)
           e == EraseQualityColumn(d2, p)
           f == Nullify(e, {"co_pollut", "removals"}, p)
           C == {"co_pollut", "removals"}
<1>1. Columns(m) /\ "pollutants" \in Main /\ Incoming("pollutants") = C /\ C \cap JoinCols = {} /\ p # 0
      /\ {"ext_inflows", "dwf_inflows"} \subseteq Cascaded /\ C \subseteq DOMAIN Refs
      /\ {"subcatches", "pollutants"} \subseteq Main
  <2>1. Columns(m) /\ "pollutants" \in Main /\ p # 0
    BY TablesParts, MainSchema
  <2>2. Incoming("pollutants") = C /\ C \cap JoinCols = {} /\ C \subseteq DOMAIN Refs
    BY IncomingSchema, KeptSchema DEF Incoming
  <2>3. {"ext_inflows", "dwf_inflows"} \subseteq Cascaded /\ {"subcatches", "pollutants"} \subseteq Main
    BY MainSchema DEF Cascaded
  <2>4. QED BY <2>1, <2>2, <2>3
<1>2. delete_pollutant(m, p) = Renumber(EraseObject(f, "pollutants", p), C, p)
  BY DEF delete_pollutant
<1> HIDE DEF id, C
<1>3. Trimmed(m, d1)
  BY <1>1, CascadeNamedTrimmed
<1>4. Trimmed(m, d2)
  <2> HIDE DEF d1
  <2>1. Columns(d1)
    BY <1>3 DEF Trimmed
  <2>2. Trimmed(d1, d2)
    BY <1>1, <2>1, CascadeNamedTrimmed
  <2>3. QED BY <1>3, <2>2, TrimmedTransitive
<1> HIDE DEF d1, d2
<1>5. Tables(d2) /\ d2.mat = m.mat /\ \A k \in Main : d2.rows[k] = m.rows[k]
  BY <1>4, TrimmedTables DEF Trimmed
<1>6. \A k \in Main : Count(d2, k) = Count(m, k) /\ Positions(d2, k) = Positions(m, k)
  BY <1>5 DEF Count, Positions
<1>7. /\ MatOnly(d2, e)
      /\ DOMAIN e.mat = DOMAIN m.mat
      /\ \A x \in {"buildup", "treatment"} :
           e.mat[x] = Packed(m.mat[x], Count(m, "pollutants"), m.mat[x].rows, p)
  <2>1. DOMAIN d2 = {"rows", "ref", "name", "data", "subtype_row", "mat"}
    BY <1>5, ColumnsDomain DEF Tables
  <2>2. Count(d2, "pollutants") = Count(m, "pollutants")
    BY <1>1, <1>6
  <2>3. MatOnly(d2, e)
    BY <2>1 DEF EraseQualityColumn, MatOnly
  <2>4. /\ DOMAIN e.mat = DOMAIN m.mat
        /\ e.mat.buildup = Packed(m.mat.buildup, Count(m, "pollutants"), m.mat.buildup.rows, p)
        /\ e.mat.treatment = Packed(m.mat.treatment, Count(m, "pollutants"), m.mat.treatment.rows, p)
    BY <1>5, <2>1, <2>2 DEF EraseQualityColumn, Packed, MatNames
  <2>5. QED BY <2>3, <2>4
<1> HIDE DEF e
<1>8. Tables(e) /\ p \in Positions(e, "pollutants")
  <2>1. p \in Positions(d2, "pollutants")
    BY <1>1, <1>6
  <2>2. Tables(e)
    BY <1>5, <1>7, MatOnlyTables
  <2>3. e.rows = d2.rows
    BY <1>7 DEF MatOnly
  <2>4. QED BY <2>1, <2>2, <2>3 DEF Positions, Count
<1>9. /\ Trimmed(e, f) /\ Cleared(f, "pollutants", p)
  <2>1. Columns(e)
    BY <1>8 DEF Tables
  <2>2. /\ Trimmed(e, f)
        /\ \A c \in DOMAIN Refs : c \in C => RowsAt(f, c, p) = {}
    BY <1>1, <2>1, NullifyTrimmed DEF C
  <2>3. QED BY <1>1, <2>2 DEF Cleared
<1> HIDE DEF f
<1>10. /\ Without(e, delete_pollutant(m, p), "pollutants", p)
       /\ delete_pollutant(m, p).mat = e.mat
  BY <1>1, <1>2, <1>8, <1>9, PlainDeletion
<1>11. Without(m, delete_pollutant(m, p), "pollutants", p)
  <2>1. \A k \in Main : e.rows[k] = m.rows[k] /\ Count(e, k) = Count(m, k)
    BY <1>5, <1>7 DEF MatOnly, Count
  <2>2. QED BY <1>1, <1>10, <2>1 DEF Without
<1>12. QED BY <1>7, <1>10, <1>11

-----------------------------------------------------------------------------
(* Deleting links and nodes *)

Ends12 == {"node1", "node2"}

\* The columns that refer to links
LEMMA LinkSchema ==
  /\ Incoming("links") = {"outfall_link", "divider_link", "inlet_link"}
  /\ {"outfall_link", "divider_link", "inlet_link"} \cap JoinCols = {}
  /\ {"outfall_link", "divider_link", "inlet_link"} \subseteq DOMAIN Refs \ JoinCols
  /\ "links" \in Main /\ "inlet_usages" \in Cascaded /\ Refs["inlet_link"][1] = "inlet_usages"
  /\ Ends12 \subseteq DOMAIN Refs \ Unkept
  /\ Refs["node1"][1] = "links" /\ Refs["node2"][1] = "links" /\ "inlet_usages" # "links"
  /\ \A c \in Ends12 : c \notin {"outfall_link", "divider_link", "inlet_link"}
<1>1. Refs["node1"][1] = "links" /\ Refs["node2"][1] = "links" /\ Ends12 \subseteq DOMAIN Refs
  BY DEF Refs, Ends12
<1>2. \A c \in Ends12 : c \notin {"outfall_link", "divider_link", "inlet_link"}
  BY DEF Ends12
<1>3. Incoming("links") = {"outfall_link", "divider_link", "inlet_link"}
  BY IncomingSchema
<1>4. {"outfall_link", "divider_link", "inlet_link"} \cap JoinCols = {}
  BY KeptSchema
<1>5. {"outfall_link", "divider_link", "inlet_link"} \subseteq DOMAIN Refs
  BY <1>3 DEF Incoming
<1>6. "links" \in Main
  BY MainSchema
<1>7. "inlet_usages" \in Cascaded /\ Refs["inlet_link"][1] = "inlet_usages"
  BY CascadeSchema
<1>8. Ends12 \cap Unkept = {}
  BY KeptSchema DEF Ends12
<1>9. QED BY <1>1, <1>2, <1>3, <1>4, <1>5, <1>6, <1>7, <1>8

\* swmm_link_delete; a node takes its links with it the same way.
LEMMA LinkDeleted ==
  ASSUME NEW m, Tables(m), NEW l \in Positions(m, "links")
  PROVE  /\ Without(m, delete_link(m, l), "links", l) /\ delete_link(m, l).mat = m.mat
         /\ \A c \in Ends12 : \A j \in Positions(delete_link(m, l), "links") :
              delete_link(m, l).ref[c][j] = m.ref[c][Up(l, j)]
<1> DEFINE f == Nullify(m, {"divider_link"}, l)
           p == CascadeRows(f, "inlet_usages", "inlet_link", l)
           o == EraseObject(p, "links", l)
           g == Nullify(o, {"outfall_link"}, l)
           C == {"divider_link", "inlet_link", "outfall_link"}
           q == Renumber(g, C, l)
<1>1. Columns(m) /\ l # 0
  BY TablesParts, LinkSchema
<1>2. delete_link(m, l) = q
  BY DEF delete_link
<1>3. /\ Incoming("links") = C /\ C \cap JoinCols = {} /\ C \subseteq DOMAIN Refs \ JoinCols
      /\ "links" \in Main /\ \A c \in Ends12 : c \in DOMAIN Refs /\ c \notin C /\ Refs[c][1] = "links"
  BY LinkSchema DEF Ends12
<1> HIDE DEF q
<1>4. /\ Trimmed(m, f) /\ RowsAt(f, "divider_link", l) = {}
      /\ \A c \in Ends12 : f.ref[c] = m.ref[c]
  <2>1. {"divider_link"} \cap JoinCols = {} /\ "divider_link" \in DOMAIN Refs
    BY <1>3
  <2>2. \A c \in Ends12 : c \notin {"divider_link"}
    BY <1>3
  <2>3. Trimmed(m, f) /\ RowsAt(f, "divider_link", l) = {}
    BY <1>1, <2>1, NullifyTrimmed
  <2>4. \A c \in DOMAIN Refs :
          f.ref[c] = IF c \in {"divider_link"} THEN Nullified(m.ref[c], l, 0) ELSE m.ref[c]
    BY <1>1, <2>1, NullifyFacts
  <2>5. QED BY <1>3, <2>2, <2>3, <2>4
<1> HIDE DEF f
<1>5. Columns(f)
  BY <1>4 DEF Trimmed
<1>6. /\ Trimmed(f, p) /\ RowsAt(p, "inlet_link", l) = {}
      /\ \A c \in Ends12 : p.ref[c] = f.ref[c]
  <2>1. Trimmed(f, p) /\ RowsAt(p, "inlet_link", l) = {}
    BY <1>3, <1>5, LinkSchema, CascadeTrimmed
  <2>2. "inlet_usages" \in Kinds
    BY LinkSchema, MainSchema
  <2>3. Erased(f, p, "inlet_usages", Positions(f, "inlet_usages") \ RowsAt(f, "inlet_link", l))
    BY <1>5, <2>2, EraseRowsFacts DEF CascadeRows
  <2>4. \A c \in Ends12 : c \in DOMAIN Refs /\ Refs[c][1] # "inlet_usages"
    BY <1>3, LinkSchema
  <2>5. \A c \in Ends12 : p.ref[c] = f.ref[c]
    BY <2>3, <2>4 DEF Erased
  <2>6. QED BY <2>1, <2>5
<1> HIDE DEF p
<1>7. /\ Trimmed(m, p) /\ RowsAt(p, "divider_link", l) = {} /\ RowsAt(p, "inlet_link", l) = {}
  <2>1. Trimmed(m, p)
    BY <1>4, <1>6, TrimmedTransitive
  <2>2. Drawn(f, p)
    BY <1>6 DEF Trimmed
  <2>3. RowsAt(p, "divider_link", l) = {}
    BY <1>1, <1>3, <1>4, <2>2, DrawnClear
  <2>4. QED BY <1>6, <2>1, <2>3
<1>8. Tables(p) /\ p.rows["links"] = m.rows["links"]
  BY <1>3, <1>7, TrimmedTables DEF Trimmed
<1>9. l \in Positions(p, "links")
  BY <1>8 DEF Positions, Count
<1>10. Removed(p, o, "links", l)
  BY <1>3, <1>8, <1>9, EraseObjectRemoved DEF Tables
<1> HIDE DEF o
<1>11. /\ Columns(o) /\ Backed(o) /\ Drawn(p, o) /\ o.mat = m.mat
       /\ RowsAt(o, "divider_link", l) = {} /\ RowsAt(o, "inlet_link", l) = {}
  <2>1. Columns(o) /\ Backed(o) /\ Drawn(p, o) /\ o.mat = p.mat
    BY <1>10 DEF Removed
  <2>2. p.mat = m.mat
    BY <1>7 DEF Trimmed
  <2>3. RowsAt(o, "divider_link", l) = {}
    BY <1>1, <1>3, <1>7, <2>1, DrawnClear
  <2>4. RowsAt(o, "inlet_link", l) = {}
    BY <1>1, <1>3, <1>7, <2>1, DrawnClear
  <2>5. QED BY <2>1, <2>2, <2>3, <2>4
<1>12. /\ Trimmed(o, g) /\ Retouched(o, g) /\ RowsAt(g, "outfall_link", l) = {}
       /\ \A c \in Ends12 : g.ref[c] = o.ref[c]
  <2>1. {"outfall_link"} \cap JoinCols = {} /\ "outfall_link" \in DOMAIN Refs
    BY <1>3
  <2>2. \A c \in Ends12 : c \notin {"outfall_link"}
    BY <1>3
  <2>3. Trimmed(o, g) /\ RowsAt(g, "outfall_link", l) = {}
    BY <1>1, <1>11, <2>1, NullifyTrimmed
  <2>4. Retouched(o, g) /\ \A c \in DOMAIN Refs :
          g.ref[c] = IF c \in {"outfall_link"} THEN Nullified(o.ref[c], l, 0) ELSE o.ref[c]
    BY <1>11, <2>1, NullifyFacts
  <2>5. QED BY <1>3, <2>2, <2>3, <2>4
<1> HIDE DEF g
<1>13. /\ Columns(g) /\ Backed(g) /\ Drawn(o, g) /\ g.rows = o.rows /\ g.mat = m.mat
       /\ Cleared(g, "links", l)
  <2>1. Columns(g) /\ Drawn(o, g)
    BY <1>12 DEF Trimmed
  <2>2. Backed(g) /\ g.rows = o.rows /\ g.mat = m.mat
    BY <1>11, <1>12, RetouchedBacked DEF Retouched
  <2>3. RowsAt(g, "divider_link", l) = {}
    BY <1>1, <1>3, <1>11, <2>1, DrawnClear
  <2>4. RowsAt(g, "inlet_link", l) = {}
    BY <1>1, <1>3, <1>11, <2>1, DrawnClear
  <2>5. QED BY <1>3, <1>12, <2>1, <2>2, <2>3, <2>4 DEF Cleared
<1>14. Without(m, q, "links", l) /\ q.mat = g.mat
  <2>1. g.rows = EraseObject(p, "links", l).rows /\ Drawn(EraseObject(p, "links", l), g)
    BY <1>13 DEF o
  <2>2. Incoming("links") \subseteq C
    BY <1>3
  <2> HIDE DEF C
  <2>3. QED BY <1>3, <1>7, <1>13, <2>1, <2>2, Deletion DEF q
<1>15. \A c \in Ends12 : q.ref[c] = o.ref[c]
  <2>1. \A c \in DOMAIN Refs : q.ref[c] = IF c \in C THEN renumber_refs(g.ref[c], l) ELSE g.ref[c]
    <3> HIDE DEF C
    <3>1. QED BY <1>3, <1>13, RenumberFacts DEF q
  <2>2. QED BY <1>3, <1>12, <2>1
<1>16. \A c \in Ends12 : \A j \in Positions(q, "links") : q.ref[c][j] = m.ref[c][Up(l, j)]
  <2>1. Positions(q, "links") = Positions(o, "links")
    <3>1. q.rows = o.rows
      <4> HIDE DEF C
      <4>1. q.rows = g.rows
        BY <1>3, <1>13, RenumberFacts DEF q, Retouched
      <4>2. QED BY <1>13, <4>1
    <3>2. QED BY <3>1 DEF Positions, Count
  <2>2. \A c \in Ends12 : \A j \in Positions(o, "links") : o.ref[c][j] = p.ref[c][Up(l, j)]
    BY <1>3, <1>10 DEF Removed
  <2>3. \A c \in Ends12 : p.ref[c] = m.ref[c]
    BY <1>4, <1>6
  <2>4. QED BY <1>15, <2>1, <2>2, <2>3
<1>17. QED BY <1>2, <1>13, <1>14, <1>16

Touching(m, v) == {l \in Positions(m, "links") : m.ref.node1[l] = v \/ m.ref.node2[l] = v}

\* The links behind the first b that touched node v are gone.
Unlinked(m, a, v, b) ==
  /\ Tables(a) /\ a.mat = m.mat
  /\ \A t \in Main \ {"links"} : a.rows[t] = m.rows[t]
  /\ b \in Nat /\ b <= Count(a, "links")
  /\ \A c \in Ends12 : \A r \in Positions(a, "links") :
       IF r <= b THEN a.ref[c][r] = m.ref[c][r] ELSE a.ref[c][r] # v

\* One more link of the node goes.
LEMMA UnlinkedDeleted ==
  ASSUME NEW m, NEW a, NEW v, NEW l, l # 0, Unlinked(m, a, v, l)
  PROVE  Unlinked(m, delete_link(a, l), v, l - 1)
<1> DEFINE q == delete_link(a, l)
<1>1. Tables(a) /\ a.mat = m.mat /\ l \in Nat /\ l <= Count(a, "links")
      /\ \A t \in Main \ {"links"} : a.rows[t] = m.rows[t]
  BY DEF Unlinked
<1>2. Count(a, "links") \in Nat /\ Positions(a, "links") = 1 .. Count(a, "links")
  BY <1>1, TablesParts, LinkSchema
<1>3. l \in Positions(a, "links")
  BY <1>1, <1>2
<1>4. /\ Without(a, q, "links", l) /\ q.mat = a.mat
      /\ \A c \in Ends12 : \A j \in Positions(q, "links") : q.ref[c][j] = a.ref[c][Up(l, j)]
  BY <1>1, <1>3, LinkDeleted
<1> HIDE DEF q
<1>5. /\ Tables(q) /\ Count(q, "links") = Count(a, "links") - 1
      /\ \A t \in Main \ {"links"} : q.rows[t] = a.rows[t]
  BY <1>4 DEF Without
<1>6. l - 1 \in Nat /\ l - 1 <= Count(q, "links") /\ Positions(q, "links") = 1 .. Count(a, "links") - 1
  BY <1>1, <1>2, <1>5 DEF Positions
<1>7. ASSUME NEW c \in Ends12, NEW r \in Positions(q, "links")
      PROVE  IF r <= l - 1 THEN q.ref[c][r] = m.ref[c][r] ELSE q.ref[c][r] # v
  <2>1. Up(l, r) \in Positions(a, "links") /\ r \in Int
    BY <1>1, <1>2, <1>6 DEF Up
  <2>2. IF Up(l, r) <= l THEN a.ref[c][Up(l, r)] = m.ref[c][Up(l, r)] ELSE a.ref[c][Up(l, r)] # v
    BY <2>1 DEF Unlinked
  <2>3. CASE r <= l - 1
    <3>1. Up(l, r) = r /\ r <= l
      BY <1>1, <2>1, <2>3 DEF Up
    <3>2. QED BY <1>4, <2>2, <2>3, <3>1
  <2>4. CASE ~(r <= l - 1)
    <3>1. Up(l, r) = r + 1 /\ ~(Up(l, r) <= l)
      BY <1>1, <2>1, <2>4 DEF Up
    <3>2. QED BY <1>4, <2>2, <2>4, <3>1
  <2>5. QED BY <2>3, <2>4
<1>8. QED BY <1>1, <1>4, <1>5, <1>6, <1>7 DEF Unlinked, q

\* A link that does not touch the node stays.
LEMMA UnlinkedKept ==
  ASSUME NEW m, NEW a, NEW v, NEW l, l # 0, Unlinked(m, a, v, l),
         \A c \in Ends12 : m.ref[c][l] # v
  PROVE  Unlinked(m, a, v, l - 1)
<1>1. l \in Nat /\ l - 1 \in Nat /\ l <= Count(a, "links") /\ Count(a, "links") \in Nat
      /\ l - 1 <= Count(a, "links")
  <2>1. l \in Nat /\ l <= Count(a, "links") /\ Tables(a)
    BY DEF Unlinked
  <2>2. Count(a, "links") \in Nat
    BY <2>1, TablesParts, LinkSchema
  <2>3. QED BY <2>1, <2>2
<1>2. ASSUME NEW c \in Ends12, NEW r \in Positions(a, "links")
      PROVE  IF r <= l - 1 THEN a.ref[c][r] = m.ref[c][r] ELSE a.ref[c][r] # v
  <2>1. r \in Nat
    BY <1>1 DEF Positions
  <2>2. IF r <= l THEN a.ref[c][r] = m.ref[c][r] ELSE a.ref[c][r] # v
    BY DEF Unlinked
  <2>3. m.ref[c][l] # v
    OBVIOUS
  <2>4. r = l => a.ref[c][r] # v
    BY <1>1, <2>2, <2>3
  <2>5. r # l => (r <= l - 1 <=> r <= l)
    BY <1>1, <2>1
  <2>6. r = l => ~(r <= l - 1)
    BY <1>1
  <2>7. QED BY <2>2, <2>4, <2>5, <2>6
<1>3. QED BY <1>1, <1>2 DEF Unlinked

\* f is the recursive function of delete_links, whose value at b is used.
After(m, T, n, b, f) ==
  f = [j \in 0 .. b |->
        IF j = 0 THEN m
        ELSE IF n + 1 - j \in T THEN delete_link(f[j - 1], n + 1 - j) ELSE f[j - 1]]

\* The recursive function of delete_links exists.
LEMMA AfterExists ==
  ASSUME NEW m, NEW T, NEW n \in Nat
  PROVE  \E f : After(m, T, n, n, f)
<1> DEFINE Good(b, f) == After(m, T, n, b, f)
           S == {b \in Nat : \E f : Good(b, f)}
<1>1. 0 \in S
  <2>1. Good(0, [j \in 0 .. 0 |-> m])
    BY DEF After
  <2>2. QED BY <2>1
<1>2. ASSUME NEW b \in Nat, b \in S
      PROVE  b + 1 \in S
  <2>1. PICK f : Good(b, f)
    BY <1>2
  <2> DEFINE last == IF n + 1 - (b + 1) \in T THEN delete_link(f[b], n + 1 - (b + 1)) ELSE f[b]
             g == [j \in 0 .. b + 1 |-> IF j <= b THEN f[j] ELSE last]
  <2>2. \A j \in 0 .. b : g[j] = f[j]
    OBVIOUS
  <2>3. ASSUME NEW j \in 0 .. b + 1
        PROVE  g[j] = IF j = 0 THEN m
                      ELSE IF n + 1 - j \in T THEN delete_link(g[j - 1], n + 1 - j) ELSE g[j - 1]
    <3>1. CASE j = 0
      <4>1. g[j] = f[0] /\ f[0] = m
        BY <2>1, <3>1 DEF After
      <4>2. QED BY <3>1, <4>1
    <3>2. CASE j # 0 /\ j <= b
      <4>1. j \in 0 .. b /\ j - 1 \in 0 .. b
        BY <3>2
      <4>2. g[j] = f[j] /\ g[j - 1] = f[j - 1]
        BY <2>2, <4>1
      <4>3. f[j] = IF n + 1 - j \in T THEN delete_link(f[j - 1], n + 1 - j) ELSE f[j - 1]
        BY <2>1, <3>2, <4>1 DEF After
      <4> HIDE DEF g
      <4>4. QED BY <3>2, <4>2, <4>3
    <3>3. CASE j = b + 1
      <4>1. g[j] = last /\ g[j - 1] = f[b] /\ j # 0
        BY <3>3
      <4> HIDE DEF g
      <4>2. QED BY <3>3, <4>1
    <3>4. QED BY <3>1, <3>2, <3>3
  <2>4. Good(b + 1, g)
    <3>1. g = [j \in 0 .. b + 1 |-> g[j]]
      OBVIOUS
    <3> HIDE DEF g
    <3>2. QED BY <2>3, <3>1 DEF After
  <2> HIDE DEF Good
  <2>5. b + 1 \in Nat
    OBVIOUS
  <2>6. QED BY <2>4, <2>5
<1> HIDE DEF S
<1>3. \A b \in Nat : b \in S
  BY <1>1, <1>2, SetInduction, Zenon
<1>4. n \in S
  BY <1>3
<1>5. QED BY <1>4 DEF S

\* The cascade of a node: exactly the links that touch it go.
LEMMA LinksDeleted ==
  ASSUME NEW m, Tables(m), NEW v
  PROVE  Unlinked(m, delete_links(m, Touching(m, v)), v, 0)
<1> DEFINE n == Count(m, "links")
           T == Touching(m, v)
           after == CHOOSE f : After(m, T, n, n, f)
           S == {j \in Nat : j <= n => Unlinked(m, after[j], v, n - j)}
<1>1. n \in Nat /\ Positions(m, "links") = 1 .. n
  BY TablesParts, LinkSchema
<1>2. delete_links(m, T) = after[n]
  BY DEF delete_links, After
<1> HIDE DEF n, T
<1>3. After(m, T, n, n, after)
  BY <1>1, AfterExists
<1> HIDE DEF after
<1>4. 0 \in S
  <2>1. after[0] = m
    BY <1>1, <1>3 DEF After
  <2>2. Unlinked(m, m, v, n)
    <3>1. \A c \in Ends12 : \A r \in Positions(m, "links") : r <= n
      BY <1>1
    <3>2. n \in Nat /\ n <= Count(m, "links")
      BY <1>1 DEF n
    <3>3. QED BY <3>1, <3>2 DEF Unlinked
  <2>3. n - 0 = n
    BY <1>1
  <2>4. QED BY <2>1, <2>2, <2>3
<1>5. ASSUME NEW j \in Nat, j \in S
      PROVE  j + 1 \in S
  <2>1. SUFFICES ASSUME j + 1 <= n PROVE Unlinked(m, after[j + 1], v, n - (j + 1))
    OBVIOUS
  <2> DEFINE l == n - j
  <2>2. Unlinked(m, after[j], v, l) /\ l \in Nat /\ l # 0 /\ l \in 1 .. n
        /\ n + 1 - (j + 1) = l /\ n - (j + 1) = l - 1 /\ j + 1 \in 0 .. n /\ (j + 1) - 1 = j /\ j + 1 # 0
    BY <1>1, <1>5, <2>1
  <2>3. after[j + 1] = IF l \in T THEN delete_link(after[j], l) ELSE after[j]
    BY <1>3, <2>2 DEF After
  <2> HIDE DEF l, S
  <2>4. CASE l \in T
    <3>1. Unlinked(m, delete_link(after[j], l), v, l - 1)
      BY <2>2, UnlinkedDeleted
    <3>2. QED BY <2>2, <2>3, <2>4, <3>1
  <2>5. CASE l \notin T
    <3>1. \A c \in Ends12 : m.ref[c][l] # v
      BY <1>1, <2>2, <2>5 DEF T, Touching, Ends12
    <3>2. Unlinked(m, after[j], v, l - 1)
      BY <2>2, <3>1, UnlinkedKept
    <3>3. QED BY <2>2, <2>3, <2>5, <3>2
  <2>6. QED BY <2>4, <2>5
<1>6. n \in S
  <2> HIDE DEF S
  <2>1. \A j \in Nat : j \in S
    BY <1>4, <1>5, SetInduction, Zenon
  <2>2. QED BY <1>1, <2>1
<1>7. n - n = 0
  BY <1>1
<1>8. QED BY <1>1, <1>2, <1>6, <1>7 DEF T

ClearIn(m, C, i) == \A c \in C : RowsAt(m, c, i) = {}

\* Columns that were cleared stay clear.
LEMMA TrimmedClearIn ==
  ASSUME NEW m, NEW p, Trimmed(m, p), NEW C, C \subseteq DOMAIN Refs \ JoinCols, NEW i, i # 0,
         ClearIn(m, C, i)
  PROVE  ClearIn(p, C, i)
<1>1. Drawn(m, p)
  BY DEF Trimmed
<1>2. QED BY <1>1, DrawnClear DEF ClearIn

\* One more cascade of a deletion.
LEMMA CascadeStep ==
  ASSUME NEW m, NEW p, Trimmed(m, p), NEW C, C \subseteq DOMAIN Refs \ JoinCols, NEW i, i # 0,
         ClearIn(p, C, i),
         NEW c \in DOMAIN Refs, NEW t \in Cascaded, Refs[c][1] = t
  PROVE  Trimmed(m, CascadeRows(p, t, c, i)) /\ ClearIn(CascadeRows(p, t, c, i), C \cup {c}, i)
<1> DEFINE q == CascadeRows(p, t, c, i)
<1>1. Columns(p)
  BY DEF Trimmed
<1>2. Trimmed(p, q) /\ RowsAt(q, c, i) = {}
  BY <1>1, CascadeTrimmed
<1> HIDE DEF q
<1>3. Trimmed(m, q)
  BY <1>2, TrimmedTransitive
<1>4. ClearIn(q, C, i)
  BY <1>2, TrimmedClearIn
<1>5. ClearIn(q, C \cup {c}, i)
  BY <1>2, <1>4 DEF ClearIn
<1>6. QED BY <1>3, <1>5 DEF q

\* The columns that refer to nodes
LEMMA NodeSchema ==
  /\ Incoming("nodes") = {"node1", "node2", "outlet_node", "gw_node", "ext_node", "dwf_node",
                          "rdii_node", "inlet_node"}
  /\ {"node1", "node2", "outlet_node", "gw_node", "ext_node", "dwf_node", "rdii_node", "inlet_node",
      "route_to"} \cap JoinCols = {}
  /\ Incoming("nodes") \subseteq DOMAIN Refs \ JoinCols
  /\ "nodes" \in Main /\ {"ext_inflows", "dwf_inflows", "rdii_assigns"} \subseteq Cascaded
  /\ Refs["ext_node"][1] = "ext_inflows" /\ Refs["dwf_node"][1] = "dwf_inflows"
  /\ Refs["rdii_node"][1] = "rdii_assigns"
  /\ {"outlet_node", "gw_node", "inlet_node", "ext_node", "dwf_node", "rdii_node"} \subseteq DOMAIN Refs
<1>1. /\ Incoming("nodes") = {"node1", "node2", "outlet_node", "gw_node", "ext_node", "dwf_node",
                              "rdii_node", "inlet_node"}
  BY IncomingSchema
<1>2. {"node1", "node2", "outlet_node", "gw_node", "ext_node", "dwf_node", "rdii_node", "inlet_node",
       "route_to"} \cap JoinCols = {}
  BY KeptSchema
<1>3. Incoming("nodes") \subseteq DOMAIN Refs \ JoinCols
  BY KeptSchema DEF Incoming
<1>4. "nodes" \in Main
  BY MainSchema
<1>5. /\ Refs["ext_node"][1] = "ext_inflows" /\ Refs["dwf_node"][1] = "dwf_inflows"
      /\ Refs["rdii_node"][1] = "rdii_assigns"
  BY CascadeSchema
<1>6. {"ext_inflows", "dwf_inflows", "rdii_assigns"} \subseteq Cascaded
  BY DEF Cascaded
<1>7. {"outlet_node", "gw_node", "inlet_node", "ext_node", "dwf_node", "rdii_node"} \subseteq DOMAIN Refs
  BY <1>1, <1>3
<1>8. QED BY <1>1, <1>2, <1>3, <1>4, <1>5, <1>6, <1>7

\* Node n is gone, and with it links and nothing else.
WithoutNode(m, q, n) ==
  /\ Tables(q)
  /\ \A t \in Main \ {"nodes", "links"} : q.rows[t] = m.rows[t]
  /\ Count(q, "nodes") = Count(m, "nodes") - 1
  /\ \A j \in Positions(q, "nodes") : q.rows["nodes"][j] = m.rows["nodes"][Up(n, j)]

\* swmm_node_delete: the node and its links are gone, nothing else is.
LEMMA NodeDeleted ==
  ASSUME NEW m, Tables(m), DOMAIN m.mat = MatNames, NEW n \in Positions(m, "nodes")
  PROVE  /\ WithoutNode(m, delete_node(m, n), n)
         /\ DOMAIN delete_node(m, n).mat = DOMAIN m.mat
         /\ delete_node(m, n).mat.buildup = m.mat.buildup
         /\ delete_node(m, n).mat.treatment =
              LET T == m.mat.treatment
              IN IF T.cols > 0 /\ n <= T.rows /\ Fits(T.cells, T.rows, T.cols)
                 THEN [T EXCEPT !.cells = erase_matrix_row(@, T.rows, T.cols, n), !.rows = @ - 1]
                 ELSE T
<1> DEFINE u == delete_links(m, Touching(m, n))
           F == {"outlet_node", "gw_node", "route_to", "inlet_node"}
           f == Nullify(u, F, n)
           d1 == CascadeRows(f, "ext_inflows", "ext_node", n)
           d2 == CascadeRows(d1, "dwf_inflows", "dwf_node", n)
           d3 == CascadeRows(d2, "rdii_assigns", "rdii_node", n)
           e == EraseTreatment(d3, n)
           C == {"node1", "node2", "outlet_node", "route_to", "inlet_node", "gw_node",
                 "ext_node", "dwf_node", "rdii_node"}
           C0 == {"node1", "node2", "outlet_node", "gw_node", "inlet_node"}
           q == Renumber(EraseObject(e, "nodes", n), C, n)
<1>1. delete_node(m, n) = q
  BY DEF delete_node, Touching
<1>2. n # 0
  BY TablesParts, NodeSchema
<1>3. Unlinked(m, u, n, 0)
  BY LinksDeleted
<1> HIDE DEF q, u
<1>4. /\ Tables(u) /\ u.mat = m.mat /\ \A t \in Main \ {"links"} : u.rows[t] = m.rows[t]
      /\ Columns(u) /\ Backed(u)
      /\ RowsAt(u, "node1", n) = {} /\ RowsAt(u, "node2", n) = {}
  <2>1. Tables(u) /\ u.mat = m.mat /\ \A t \in Main \ {"links"} : u.rows[t] = m.rows[t]
    BY <1>3 DEF Unlinked
  <2>2. Columns(u) /\ Backed(u)
    BY <2>1, TablesParts
  <2>3. \A c \in Ends12 : DOMAIN u.ref[c] = Positions(u, "links") /\ Positions(u, "links") \subseteq 1 .. Count(u, "links")
    BY <2>2, ColumnsDomain, LinkSchema DEF Ends12, Positions
  <2>4. \A c \in Ends12 : \A r \in DOMAIN u.ref[c] : u.ref[c][r] # n
    BY <1>3, <2>3 DEF Unlinked
  <2>5. RowsAt(u, "node1", n) = {} /\ RowsAt(u, "node2", n) = {}
    BY <2>4 DEF RowsAt, Ends12
  <2>6. QED BY <2>1, <2>2, <2>5
<1>5. Trimmed(u, f) /\ ClearIn(f, C0, n)
  <2>1. F \cap JoinCols = {} /\ {"outlet_node", "gw_node", "inlet_node"} \subseteq F \cap DOMAIN Refs
    BY NodeSchema
  <2>2. {"node1", "node2"} \subseteq DOMAIN Refs \ JoinCols
    BY NodeSchema
  <2> HIDE DEF F
  <2>3. /\ Trimmed(u, f)
        /\ \A c \in DOMAIN Refs : c \in F => RowsAt(f, c, n) = {}
    BY <1>2, <1>4, <2>1, NullifyTrimmed
  <2> HIDE DEF f
  <2>4. Drawn(u, f)
    BY <2>3 DEF Trimmed
  <2>5. RowsAt(f, "node1", n) = {} /\ RowsAt(f, "node2", n) = {}
    BY <1>2, <1>4, <2>2, <2>4, DrawnClear
  <2>6. QED BY <2>1, <2>3, <2>5 DEF ClearIn
<1> HIDE DEF f
<1>6. /\ Trimmed(u, d3)
      /\ ClearIn(d3, ((C0 \cup {"ext_node"}) \cup {"dwf_node"}) \cup {"rdii_node"}, n)
  <2>1. C0 \cup {"ext_node", "dwf_node", "rdii_node"} \subseteq DOMAIN Refs \ JoinCols
    BY NodeSchema
  <2>2. /\ {"ext_inflows", "dwf_inflows", "rdii_assigns"} \subseteq Cascaded
        /\ Refs["ext_node"][1] = "ext_inflows" /\ Refs["dwf_node"][1] = "dwf_inflows"
        /\ Refs["rdii_node"][1] = "rdii_assigns"
    BY NodeSchema
  <2> HIDE DEF C0
  <2>3. Trimmed(u, d1) /\ ClearIn(d1, C0 \cup {"ext_node"}, n)
    BY <1>2, <1>5, <2>1, <2>2, CascadeStep
  <2> HIDE DEF d1
  <2>4. Trimmed(u, d2) /\ ClearIn(d2, (C0 \cup {"ext_node"}) \cup {"dwf_node"}, n)
    <3> DEFINE D == C0 \cup {"ext_node"}
    <3>1. D \subseteq DOMAIN Refs \ JoinCols
      BY <2>1
    <3> HIDE DEF D
    <3>2. Trimmed(u, d2) /\ ClearIn(d2, D \cup {"dwf_node"}, n)
      BY <1>2, <2>1, <2>2, <2>3, <3>1, CascadeStep DEF D
    <3>3. QED BY <3>2 DEF D
  <2> HIDE DEF d2
  <2>5. Trimmed(u, d3) /\ ClearIn(d3, ((C0 \cup {"ext_node"}) \cup {"dwf_node"}) \cup {"rdii_node"}, n)
    <3> DEFINE D == (C0 \cup {"ext_node"}) \cup {"dwf_node"}
    <3>1. D \subseteq DOMAIN Refs \ JoinCols
      BY <2>1
    <3> HIDE DEF D
    <3>2. Trimmed(u, d3) /\ ClearIn(d3, D \cup {"rdii_node"}, n)
      BY <1>2, <2>1, <2>2, <2>4, <3>1, CascadeStep DEF D
    <3>3. QED BY <3>2 DEF D
  <2>6. QED BY <2>5
<1> HIDE DEF d1, d2, d3
<1>7. /\ Tables(d3) /\ d3.mat = m.mat /\ Cleared(d3, "nodes", n)
      /\ \A t \in Main : d3.rows[t] = u.rows[t]
  <2>1. Tables(d3) /\ d3.mat = m.mat /\ \A t \in Main : d3.rows[t] = u.rows[t]
    BY <1>4, <1>6, TrimmedTables DEF Trimmed
  <2>2. Cleared(d3, "nodes", n)
    BY <1>6, NodeSchema DEF Cleared, ClearIn
  <2>3. QED BY <2>1, <2>2
<1>8. /\ MatOnly(d3, e) /\ DOMAIN e.mat = DOMAIN m.mat /\ e.mat.buildup = m.mat.buildup
      /\ e.mat.treatment =
              LET T == m.mat.treatment
              IN IF T.cols > 0 /\ n <= T.rows /\ Fits(T.cells, T.rows, T.cols)
                 THEN [T EXCEPT !.cells = erase_matrix_row(@, T.rows, T.cols, n), !.rows = @ - 1]
                 ELSE T
  <2> DEFINE T == m.mat.treatment
             more == T.cols > 0 /\ n <= T.rows /\ Fits(T.cells, T.rows, T.cols)
             t == [T EXCEPT !.cells = erase_matrix_row(@, T.rows, T.cols, n), !.rows = @ - 1]
  <2>1. DOMAIN d3 = {"rows", "ref", "name", "data", "subtype_row", "mat"}
    BY <1>7, ColumnsDomain DEF Tables
  <2>2. e = IF more THEN [d3 EXCEPT !.mat = [m.mat EXCEPT !.treatment = t]] ELSE d3
    BY <1>7, <2>1 DEF EraseTreatment, MatNames
  <2> HIDE DEF t, more, e
  <2>3. /\ MatOnly(d3, e) /\ DOMAIN e.mat = DOMAIN m.mat /\ e.mat.buildup = m.mat.buildup
        /\ e.mat.treatment = IF more THEN t ELSE T
    BY <1>7, <2>1, <2>2 DEF MatOnly, MatNames
  <2>4. QED BY <2>3 DEF more, t
<1> HIDE DEF e
<1>9. /\ Tables(e) /\ Cleared(e, "nodes", n) /\ n \in Positions(e, "nodes")
      /\ e.rows = d3.rows /\ Count(e, "nodes") = Count(m, "nodes")
  <2>1. e.rows = d3.rows
    BY <1>8 DEF MatOnly
  <2>2. e.rows["nodes"] = m.rows["nodes"]
    BY <1>4, <1>7, <2>1, NodeSchema
  <2>3. Tables(e) /\ Cleared(e, "nodes", n)
    BY <1>7, <1>8, MatOnlyTables
  <2>4. QED BY <2>1, <2>2, <2>3 DEF Positions, Count
<1>10. Without(e, q, "nodes", n) /\ q.mat = e.mat
  <2>1. C \cap JoinCols = {} /\ Incoming("nodes") \subseteq C /\ "nodes" \in Main
    BY NodeSchema
  <2>2. Trimmed(e, e)
    BY <1>9, TrimmedReflexive DEF Tables
  <2> HIDE DEF C
  <2>3. QED BY <1>9, <2>1, <2>2, PlainDeletion DEF q
<1>11. WithoutNode(m, q, n)
  <2>1. Tables(q) /\ \A t \in Main \ {"nodes"} : q.rows[t] = e.rows[t]
    BY <1>10 DEF Without
  <2>2. \A t \in Main \ {"nodes", "links"} : q.rows[t] = m.rows[t]
    BY <1>4, <1>7, <1>9, <2>1
  <2>3. Count(q, "nodes") = Count(m, "nodes") - 1
    BY <1>9, <1>10 DEF Without
  <2>4. e.rows["nodes"] = m.rows["nodes"]
    BY <1>4, <1>7, <1>9, NodeSchema
  <2>5. \A j \in Positions(q, "nodes") : q.rows["nodes"][j] = m.rows["nodes"][Up(n, j)]
    BY <1>10, <2>4 DEF Without
  <2>6. QED BY <2>1, <2>2, <2>3, <2>5 DEF WithoutNode
<1>12. QED BY <1>1, <1>8, <1>10, <1>11

\* Overwriting entries keeps the tables sound.
LEMMA RetouchedTables ==
  ASSUME NEW m, NEW q, Retouched(m, q), Tables(m),
         \A c \in DOMAIN Refs \ Unkept : \A r \in Positions(m, Refs[c][1]) :
           q.ref[c][r] \in 0 .. Count(m, Refs[c][2])
  PROVE  Tables(q)
<1>1. Columns(q) /\ Backed(q)
  BY RetouchedColumns, RetouchedBacked DEF Tables
<1>2. \A t : Count(q, t) = Count(m, t) /\ Positions(q, t) = Positions(m, t)
  BY DEF Retouched, Count, Positions
<1>3. InRange(q)
  BY <1>2 DEF InRange
<1>4. QED BY <1>1, <1>3 DEF Tables

\* The last object of a table goes: no reference has to be renumbered.
LEMMA LastRemoved ==
  ASSUME NEW m, Tables(m), NEW k \in Main, NEW i, i = Count(m, k), i # 0, Cleared(m, k, i)
  PROVE  Without(m, EraseObject(m, k, i), k, i) /\ EraseObject(m, k, i).mat = m.mat
<1> DEFINE q == EraseObject(m, k, i)
<1>1. Columns(m) /\ Backed(m) /\ InRange(m) /\ Count(m, k) \in Nat /\ i \in Positions(m, k)
  BY TablesParts
<1>2. Removed(m, q, k, i)
  BY <1>1, EraseObjectRemoved
<1> HIDE DEF q
<1>3. Columns(q) /\ Drawn(m, q)
  BY <1>2 DEF Removed
<1>4. ASSUME NEW c \in DOMAIN Refs \ Unkept, NEW r \in Positions(q, Refs[c][1])
      PROVE  q.ref[c][r] \in 0 .. Count(q, Refs[c][2])
  <2>1. c \in DOMAIN Refs \ JoinCols /\ r \in DOMAIN q.ref[c]
    BY <1>3, KeptSchema, ColumnsDomain
  <2>2. Refs[c][2] \in Main /\ Count(m, Refs[c][2]) \in Nat
    BY <1>1, MainSchema, TablesParts
  <2>3. CASE q.ref[c][r] = 0
    <3>1. Count(q, Refs[c][2]) \in Nat
      BY <1>3, <2>2, ColumnsDomain DEF Main
    <3>2. QED BY <2>3, <3>1
  <2>4. CASE q.ref[c][r] # 0
    <3>1. PICK r0 \in DOMAIN m.ref[c] : q.ref[c][r] = m.ref[c][r0]
      BY <1>3, <2>1, <2>4 DEF Drawn
    <3>2. r0 \in Positions(m, Refs[c][1])
      BY <1>1, <3>1, ColumnsDomain
    <3>3. m.ref[c][r0] \in 0 .. Count(m, Refs[c][2])
      BY <1>1, <3>2 DEF InRange
    <3>4. CASE Refs[c][2] = k
      <4>1. m.ref[c][r0] # i
        BY <3>1, <3>4 DEF Cleared, Incoming, RowsAt
      <4>2. Count(q, k) = i - 1
        BY <1>2 DEF Removed
      <4>3. QED BY <1>1, <3>1, <3>3, <3>4, <4>1, <4>2
    <3>5. CASE Refs[c][2] # k
      <4>1. Count(q, Refs[c][2]) = Count(m, Refs[c][2])
        BY <1>2, <2>2, <3>5 DEF Removed, Count
      <4>2. QED BY <3>1, <3>3, <4>1
    <3>6. QED BY <3>4, <3>5
  <2>5. QED BY <2>3, <2>4
<1>5. InRange(q)
  BY <1>4 DEF InRange
<1>6. QED BY <1>2, <1>5 DEF Removed, Without, Tables, q

-----------------------------------------------------------------------------
(* Adding rows *)

Extended(s, n, d) == [j \in 1 .. n |-> IF j <= Len(s) THEN s[j] ELSE d]

\* A column that is extended or cut to n entries
LEMMA ExtendedColumn ==
  ASSUME NEW n \in Nat, NEW s, NEW d
  PROVE  IsColumn(Extended(s, n, d), n)
BY DEF Extended, IsColumn

\* What GrowRows does to each column
LEMMA GrowFacts ==
  ASSUME NEW m, Columns(m), NEW k \in Kinds, NEW id
  PROVE  LET q == GrowRows(m, k, id)
             n == Count(m, k) + 1
         IN /\ Columns(q) /\ q.subtype_row = m.subtype_row /\ q.mat = m.mat
            /\ \A t \in Kinds \ {k} : q.rows[t] = m.rows[t]
            /\ Count(q, k) = n
            /\ \A j \in Positions(q, k) : q.rows[k][j] = IF j = n THEN id ELSE m.rows[k][j]
            /\ \A c \in DOMAIN Refs :
                 q.ref[c] = IF Refs[c][1] = k THEN Extended(m.ref[c], n, 0) ELSE m.ref[c]
            /\ \A c \in DOMAIN DataCols :
                 q.data[c] = IF DataCols[c][1] = k THEN Extended(m.data[c], n, DataCols[c][2])
                             ELSE m.data[c]
            /\ \A c \in DOMAIN NameRefs :
                 q.name[c] = IF NameRefs[c][1] = k THEN Extended(m.name[c], n, NoName) ELSE m.name[c]
<1> DEFINE n == Count(m, k) + 1
           q == GrowRows(m, k, id)
           row == [Extended(m.rows[k], n, NoName) EXCEPT ![n] = id]
           refs == [c \in DOMAIN m.ref |->
                      IF Refs[c][1] = k THEN Extended(m.ref[c], n, 0) ELSE m.ref[c]]
           names == [c \in DOMAIN m.name |->
                      IF NameRefs[c][1] = k THEN Extended(m.name[c], n, NoName) ELSE m.name[c]]
           datas == [c \in DOMAIN m.data |->
                      IF DataCols[c][1] = k THEN Extended(m.data[c], n, DataCols[c][2]) ELSE m.data[c]]
<1>1. /\ DOMAIN m = {"rows", "ref", "name", "data", "subtype_row", "mat"}
      /\ DOMAIN m.rows = Kinds /\ DOMAIN m.ref = DOMAIN Refs /\ DOMAIN m.name = DOMAIN NameRefs
      /\ DOMAIN m.data = DOMAIN DataCols /\ DOMAIN m.subtype_row = DOMAIN TypeColumn
  BY ColumnsDomain
<1>2. Count(m, k) \in Nat /\ n \in Nat /\ Len(m.rows[k]) = Count(m, k)
  BY ColumnsDomain DEF Count
<1> HIDE DEF n
<1>3. /\ DOMAIN q = DOMAIN m /\ q.subtype_row = m.subtype_row /\ q.mat = m.mat
      /\ q.ref = refs /\ q.name = names /\ q.data = datas
      /\ DOMAIN q.rows = DOMAIN m.rows /\ q.rows[k] = row
      /\ \A t \in Kinds \ {k} : q.rows[t] = m.rows[t]
  <2> DEFINE p == [m EXCEPT !.rows[k] = Extended(@, n, NoName), !.ref = refs, !.name = names,
                            !.data = datas]
  <2>1. q = [p EXCEPT !.rows[k][n] = id]
    BY DEF GrowRows, MapTable, Extended, n
  <2> HIDE DEF refs, names, datas, q
  <2>2. /\ DOMAIN p = DOMAIN m /\ p.subtype_row = m.subtype_row /\ p.mat = m.mat
        /\ p.ref = refs /\ p.name = names /\ p.data = datas
        /\ p.rows = [m.rows EXCEPT ![k] = Extended(@, n, NoName)]
    BY <1>1
  <2> HIDE DEF p
  <2>3. /\ DOMAIN q = DOMAIN m /\ q.subtype_row = m.subtype_row /\ q.mat = m.mat
        /\ q.ref = refs /\ q.name = names /\ q.data = datas
        /\ q.rows = [p.rows EXCEPT ![k] = [@ EXCEPT ![n] = id]]
    BY <1>1, <2>1, <2>2
  <2>4. DOMAIN q.rows = DOMAIN m.rows /\ q.rows[k] = row
        /\ \A t \in Kinds \ {k} : q.rows[t] = m.rows[t]
    BY <1>1, <2>2, <2>3
  <2>5. QED BY <2>3, <2>4
<1> HIDE DEF q
<1>4. IsColumn(row, n) /\ Len(row) = n
      /\ \A j \in 1 .. n : row[j] = IF j = n THEN id ELSE m.rows[k][j]
  <2>1. \A j \in 1 .. n : j # n => j <= Len(m.rows[k])
    BY <1>2 DEF n
  <2>2. IsColumn(row, n) /\ \A j \in 1 .. n : row[j] = IF j = n THEN id ELSE m.rows[k][j]
    BY <1>2, <2>1 DEF Extended, IsColumn
  <2> HIDE DEF row
  <2>3. QED BY <2>2, ColumnFacts
<1> HIDE DEF row
<1>5. Count(q, k) = n /\ \A t \in Kinds \ {k} : Count(q, t) = Count(m, t)
  BY <1>3, <1>4 DEF Count
<1>6. \A c \in DOMAIN Refs :
        /\ q.ref[c] = IF Refs[c][1] = k THEN Extended(m.ref[c], n, 0) ELSE m.ref[c]
        /\ IsColumn(q.ref[c], Count(q, Refs[c][1]))
  <2>1. TAKE c \in DOMAIN Refs
  <2>2. q.ref[c] = IF Refs[c][1] = k THEN Extended(m.ref[c], n, 0) ELSE m.ref[c]
    BY <1>1, <1>3
  <2>3. Refs[c][1] \in Kinds
    BY RefSchema
  <2>4. IsColumn(m.ref[c], Count(m, Refs[c][1]))
    BY DEF Columns
  <2>5. QED BY <1>2, <1>5, <2>2, <2>3, <2>4, ExtendedColumn
<1>7. \A c \in DOMAIN NameRefs :
        /\ q.name[c] = IF NameRefs[c][1] = k THEN Extended(m.name[c], n, NoName) ELSE m.name[c]
        /\ IsColumn(q.name[c], Count(q, NameRefs[c][1]))
  <2>1. TAKE c \in DOMAIN NameRefs
  <2>2. q.name[c] = IF NameRefs[c][1] = k THEN Extended(m.name[c], n, NoName) ELSE m.name[c]
    BY <1>1, <1>3
  <2>3. NameRefs[c][1] \in Kinds
    BY NameSchema
  <2>4. IsColumn(m.name[c], Count(m, NameRefs[c][1]))
    BY DEF Columns
  <2>5. QED BY <1>2, <1>5, <2>2, <2>3, <2>4, ExtendedColumn
<1>8. \A c \in DOMAIN DataCols :
        /\ q.data[c] = IF DataCols[c][1] = k THEN Extended(m.data[c], n, DataCols[c][2]) ELSE m.data[c]
        /\ IsColumn(q.data[c], Len(q.data[c]))
        /\ IF c \in NotErased THEN Len(q.data[c]) >= Count(q, DataCols[c][1])
           ELSE Len(q.data[c]) = Count(q, DataCols[c][1])
  <2>1. TAKE c \in DOMAIN DataCols
  <2>2. q.data[c] = IF DataCols[c][1] = k THEN Extended(m.data[c], n, DataCols[c][2]) ELSE m.data[c]
    BY <1>1, <1>3
  <2>3. DataCols[c][1] \in Kinds
    BY DataSchema
  <2>4. CASE DataCols[c][1] = k
    <3>1. IsColumn(q.data[c], n) /\ Len(q.data[c]) = n
      BY <1>2, <2>2, <2>4, ExtendedColumn, ColumnFacts
    <3>2. QED BY <1>2, <1>5, <2>2, <2>4, <3>1
  <2>5. CASE DataCols[c][1] # k
    <3>1. /\ IsColumn(m.data[c], Len(m.data[c]))
          /\ IF c \in NotErased THEN Len(m.data[c]) >= Count(m, DataCols[c][1])
             ELSE Len(m.data[c]) = Count(m, DataCols[c][1])
      BY DEF Columns
    <3>2. QED BY <1>5, <2>2, <2>3, <2>5, <3>1
  <2>6. QED BY <2>4, <2>5
<1>9. \A t \in Kinds : IsColumn(q.rows[t], Count(q, t))
  <2>1. \A t \in Kinds : IsColumn(m.rows[t], Count(m, t))
    BY DEF Columns
  <2>2. QED BY <1>3, <1>4, <1>5, <2>1
<1>10. Columns(q)
  <2>1. DOMAIN q.ref = DOMAIN Refs /\ DOMAIN q.name = DOMAIN NameRefs /\ DOMAIN q.data = DOMAIN DataCols
    BY <1>1, <1>3
  <2>2. QED BY <1>1, <1>3, <1>6, <1>7, <1>8, <1>9, <2>1 DEF Columns
<1>11. \A j \in Positions(q, k) : q.rows[k][j] = IF j = n THEN id ELSE m.rows[k][j]
  BY <1>3, <1>4, <1>5 DEF Positions
<1>12. QED BY <1>3, <1>5, <1>6, <1>7, <1>8, <1>10, <1>11 DEF q, n

\* A new row refers to nothing.
LEMMA GrowInRange ==
  ASSUME NEW m, Columns(m), InRange(m), NEW k \in Kinds, NEW id
  PROVE  InRange(GrowRows(m, k, id))
<1> DEFINE q == GrowRows(m, k, id)
<1>1. /\ Columns(q) /\ Count(q, k) = Count(m, k) + 1
      /\ \A t \in Kinds \ {k} : q.rows[t] = m.rows[t]
      /\ \A c \in DOMAIN Refs :
           q.ref[c] = IF Refs[c][1] = k THEN Extended(m.ref[c], Count(m, k) + 1, 0) ELSE m.ref[c]
  BY GrowFacts
<1> HIDE DEF q
<1>2. \A t \in Kinds : Count(m, t) \in Nat /\ Count(q, t) \in Nat /\ Count(m, t) <= Count(q, t)
  <2>1. \A t \in Kinds : Count(m, t) \in Nat
    BY ColumnsDomain
  <2>2. \A t \in Kinds \ {k} : Count(q, t) = Count(m, t)
    BY <1>1 DEF Count
  <2>3. QED BY <1>1, <2>1, <2>2
<1>3. ASSUME NEW c \in DOMAIN Refs \ Unkept, NEW r \in Positions(q, Refs[c][1])
      PROVE  q.ref[c][r] \in 0 .. Count(q, Refs[c][2])
  <2>1. Refs[c][1] \in Kinds /\ Refs[c][2] \in Kinds
    BY RefSchema
  <2>2. q.ref[c][r] = 0 \/ (r \in Positions(m, Refs[c][1]) /\ q.ref[c][r] = m.ref[c][r])
    <3>1. CASE Refs[c][1] = k
      <4>1. IsColumn(m.ref[c], Count(m, k))
        BY <3>1 DEF Columns
      <4>2. Len(m.ref[c]) = Count(m, k)
        BY <4>1, ColumnFacts
      <4>3. r \in 1 .. Count(m, k) + 1
        BY <1>1, <3>1 DEF Positions
      <4>4. q.ref[c][r] = IF r <= Count(m, k) THEN m.ref[c][r] ELSE 0
        <5>1. q.ref[c] = Extended(m.ref[c], Count(m, k) + 1, 0)
          BY <1>1, <3>1
        <5>2. QED BY <4>2, <4>3, <5>1 DEF Extended
      <4>5. QED BY <1>2, <3>1, <4>3, <4>4 DEF Positions
    <3>2. CASE Refs[c][1] # k
      BY <1>1, <2>1, <3>2 DEF Positions, Count
    <3>3. QED BY <3>1, <3>2
  <2>3. r \in Positions(m, Refs[c][1]) => m.ref[c][r] \in 0 .. Count(m, Refs[c][2])
    BY DEF InRange
  <2>4. QED BY <1>2, <2>1, <2>2, <2>3
<1>4. QED BY <1>3 DEF InRange, q

\* A new object without a side table
LEMMA PlainGrown ==
  ASSUME NEW m, Tables(m), NEW k \in Main, k \notin DOMAIN TypeColumn, NEW id
  PROVE  Tables(GrowRows(m, k, id))
<1> DEFINE q == GrowRows(m, k, id)
<1>1. Columns(m) /\ Backed(m) /\ InRange(m) /\ k \in Kinds
  BY TablesParts
<1>2. /\ Columns(q) /\ InRange(q) /\ q.subtype_row = m.subtype_row
      /\ \A t \in Kinds \ {k} : q.rows[t] = m.rows[t]
      /\ \A c \in DOMAIN Refs : Refs[c][1] # k => q.ref[c] = m.ref[c]
      /\ \A c \in DOMAIN DataCols : DataCols[c][1] # k => q.data[c] = m.data[c]
  BY <1>1, GrowFacts, GrowInRange
<1> HIDE DEF q
<1>3. Framed(m, q)
  <2>1. ASSUME NEW o \in DOMAIN TypeColumn
        PROVE  q.rows[o] = m.rows[o] /\ q.data[TypeColumn[o]] = m.data[TypeColumn[o]]
    <3>1. o # k /\ o \in Kinds /\ TypeColumn[o] \in DOMAIN DataCols /\ DataCols[TypeColumn[o]][1] = o
      BY TypeSchema
    <3>2. q.rows[o] = m.rows[o]
      BY <1>2, <3>1
    <3>3. DataCols[TypeColumn[o]][1] # k
      BY <3>1
    <3>4. q.data[TypeColumn[o]] = m.data[TypeColumn[o]]
      BY <1>2, <3>1, <3>3, Zenon
    <3>5. QED BY <3>2, <3>4
  <2>2. ASSUME NEW t \in DOMAIN Join
        PROVE  q.rows[t] = m.rows[t] /\ q.ref[Join[t]] = m.ref[Join[t]]
    <3>1. t # k
      BY DEF Main
    <3>2. QED BY <1>2, <3>1, JoinSchema
  <2>3. QED BY <1>2, <2>1, <2>2 DEF Framed
<1>4. Backed(q)
  BY <1>1, <1>3, FramedBacked
<1>5. QED BY <1>2, <1>4 DEF Tables, q

PlaceOf(m, t, i) == 1 + Cardinality({r \in DOMAIN m.ref[Join[t]] : m.ref[Join[t]][r] < i})
Back(p, r) == IF r < p THEN r ELSE r - 1

\* A row is inserted at p, and its entry in the column is v.
Put(s, p, d, v) == [InsertAt(s, p, d) EXCEPT ![p] = v]

\* 
LEMMA PlaceRange ==
  ASSUME NEW m, Columns(m), NEW t \in DOMAIN Join, NEW i
  PROVE  PlaceOf(m, t, i) \in 1 .. Count(m, t) + 1
<1> DEFINE K == {r \in DOMAIN m.ref[Join[t]] : m.ref[Join[t]][r] < i}
           n == Count(m, t)
<1>1. n \in Nat /\ DOMAIN m.ref[Join[t]] = 1 .. n
  BY ColumnsDomain, JoinSchema DEF Positions
<1>2. K \subseteq 1 .. n
  BY <1>1
<1> HIDE DEF K, n
<1>3. IsFiniteSet(1 .. n) /\ Cardinality(1 .. n) = n
  BY <1>1, FS_Interval
<1>4. IsFiniteSet(K) /\ Cardinality(K) <= n
  BY <1>2, <1>3, FS_Subset
<1>5. Cardinality(K) \in Nat
  BY <1>4, FS_CardinalityType
<1>6. 1 + Cardinality(K) \in 1 .. n + 1
  BY <1>1, <1>4, <1>5
<1>7. QED BY <1>6 DEF PlaceOf, K, n

\* What AddDefault does to each column
LEMMA AddFacts ==
  ASSUME NEW m, Columns(m), NEW t \in DOMAIN Join, NEW i, NEW id
  PROVE  LET q == AddDefault(m, t, i, id)
             p == PlaceOf(m, t, i)
             n == Count(m, t) + 1
         IN /\ Columns(q) /\ q.subtype_row = m.subtype_row /\ q.mat = m.mat
            /\ \A c \in DOMAIN DataCols : q.data[c] = m.data[c]
            /\ \A k \in Kinds \ {t} : q.rows[k] = m.rows[k]
            /\ Count(q, t) = n /\ p \in 1 .. n
            /\ \A r \in 1 .. n : q.rows[t][r] = IF r = p THEN id ELSE m.rows[t][Back(p, r)]
            /\ \A r \in 1 .. n : Key(q, t, r) = IF r = p THEN i ELSE Key(m, t, Back(p, r))
            /\ \A c \in DOMAIN Refs : Refs[c][1] # t => q.ref[c] = m.ref[c]
            /\ \A c \in DOMAIN Refs : Refs[c][1] = t /\ c # Join[t] =>
                 \A r \in 1 .. n : q.ref[c][r] = IF r = p THEN 0 ELSE m.ref[c][Back(p, r)]
            /\ \A c \in DOMAIN NameRefs : NameRefs[c][1] # t => q.name[c] = m.name[c]
<1> DEFINE q == AddDefault(m, t, i, id)
           p == PlaceOf(m, t, i)
           n == Count(m, t) + 1
           row == Put(m.rows[t], p, NoName, id)
           refs == [c \in DOMAIN m.ref |->
                      IF Refs[c][1] = t THEN InsertAt(m.ref[c], p, 0) ELSE m.ref[c]]
           names == [c \in DOMAIN m.name |->
                      IF NameRefs[c][1] = t THEN InsertAt(m.name[c], p, NoName) ELSE m.name[c]]
           datas == [c \in DOMAIN m.data |->
                      IF DataCols[c][1] = t THEN InsertAt(m.data[c], p, DataCols[c][2])
                      ELSE m.data[c]]
           key == Put(m.ref[Join[t]], p, 0, i)
<1>1. /\ DOMAIN m = {"rows", "ref", "name", "data", "subtype_row", "mat"}
      /\ DOMAIN m.rows = Kinds /\ DOMAIN m.ref = DOMAIN Refs /\ DOMAIN m.name = DOMAIN NameRefs
      /\ DOMAIN m.data = DOMAIN DataCols /\ DOMAIN m.subtype_row = DOMAIN TypeColumn
  BY ColumnsDomain
<1>2. /\ t \in Kinds /\ Join[t] \in DOMAIN Refs /\ Refs[Join[t]][1] = t
      /\ Count(m, t) \in Nat /\ n \in Nat /\ p \in 1 .. Count(m, t) + 1 /\ p \in 1 .. n
  BY ColumnsDomain, JoinSchema, PlaceRange
<1>3. DOMAIN datas = DOMAIN DataCols /\ \A c \in DOMAIN DataCols : datas[c] = m.data[c]
  <2>1. \A c \in DOMAIN DataCols : DataCols[c][1] # t
    BY DataSchema
  <2>2. QED BY <1>1, <2>1
<1> HIDE DEF n, p
<1>4. /\ DOMAIN q = DOMAIN m /\ q.subtype_row = m.subtype_row /\ q.mat = m.mat
      /\ q.name = names /\ DOMAIN q.data = DOMAIN DataCols
      /\ \A c \in DOMAIN DataCols : q.data[c] = m.data[c]
      /\ DOMAIN q.rows = DOMAIN m.rows /\ q.rows[t] = row
      /\ \A k \in Kinds \ {t} : q.rows[k] = m.rows[k]
      /\ DOMAIN q.ref = DOMAIN m.ref /\ q.ref[Join[t]] = key
      /\ \A c \in DOMAIN Refs \ {Join[t]} : q.ref[c] = refs[c]
  <2> DEFINE e == [m EXCEPT !.rows[t] = InsertAt(@, p, NoName), !.ref = refs, !.name = names,
                            !.data = datas]
  <2>1. q = [e EXCEPT !.rows[t][p] = id, !.ref[Join[t]][p] = i]
    BY DEF AddDefault, MapTable, p, PlaceOf
  <2>2. refs[Join[t]] = InsertAt(m.ref[Join[t]], p, 0) /\ DOMAIN refs = DOMAIN m.ref
    BY <1>1, <1>2
  <2> HIDE DEF refs, names, datas, q
  <2>3. /\ DOMAIN e = DOMAIN m /\ e.subtype_row = m.subtype_row /\ e.mat = m.mat
        /\ e.ref = refs /\ e.name = names /\ e.data = datas
        /\ e.rows = [m.rows EXCEPT ![t] = InsertAt(@, p, NoName)]
    BY <1>1
  <2> HIDE DEF e
  <2>4. /\ DOMAIN q = DOMAIN m /\ q.subtype_row = m.subtype_row /\ q.mat = m.mat
        /\ q.name = names /\ q.data = datas
        /\ q.rows = [e.rows EXCEPT ![t] = [@ EXCEPT ![p] = id]]
        /\ q.ref = [e.ref EXCEPT ![Join[t]] = [@ EXCEPT ![p] = i]]
    BY <1>1, <2>1, <2>3
  <2>5. DOMAIN q.rows = DOMAIN m.rows /\ q.rows[t] = row
        /\ \A k \in Kinds \ {t} : q.rows[k] = m.rows[k]
    BY <1>1, <1>2, <2>3, <2>4 DEF Put
  <2>6. DOMAIN q.ref = DOMAIN m.ref /\ q.ref[Join[t]] = key
        /\ \A c \in DOMAIN Refs \ {Join[t]} : q.ref[c] = refs[c]
    BY <1>1, <1>2, <2>2, <2>3, <2>4 DEF Put
  <2>7. QED BY <1>3, <2>4, <2>5, <2>6
<1> HIDE DEF q
<1>5. ASSUME NEW s, IsColumn(s, Count(m, t)), NEW d
      PROVE  /\ IsColumn(InsertAt(s, p, d), n)
             /\ \A r \in 1 .. n : InsertAt(s, p, d)[r] = IF r = p THEN d ELSE s[Back(p, r)]
  <2>1. /\ IsColumn(InsertAt(s, p, d), n)
        /\ \A r \in 1 .. n : InsertAt(s, p, d)[r] = IF r < p THEN s[r] ELSE IF r = p THEN d ELSE s[r - 1]
    BY <1>2, <1>5, InsertAtFacts DEF n
  <2>2. ASSUME NEW r \in 1 .. n
        PROVE  InsertAt(s, p, d)[r] = IF r = p THEN d ELSE s[Back(p, r)]
    <3>1. CASE r < p
      BY <1>2, <2>1, <3>1 DEF Back
    <3>2. CASE r = p
      BY <1>2, <2>1, <3>2
    <3>3. CASE r > p
      BY <1>2, <2>1, <3>3 DEF Back
    <3>4. QED BY <1>2, <3>1, <3>2, <3>3
  <2>3. QED BY <2>1, <2>2
<1>6. ASSUME NEW s, IsColumn(s, Count(m, t)), NEW d, NEW v
      PROVE  /\ IsColumn(Put(s, p, d, v), n)
             /\ \A r \in 1 .. n : Put(s, p, d, v)[r] = IF r = p THEN v ELSE s[Back(p, r)]
  <2> DEFINE x == InsertAt(s, p, d)
  <2>1. IsColumn(x, n) /\ \A r \in 1 .. n : x[r] = IF r = p THEN d ELSE s[Back(p, r)]
    BY <1>5, <1>6
  <2>2. Put(s, p, d, v) = [x EXCEPT ![p] = v]
    BY DEF Put
  <2> HIDE DEF x
  <2>3. QED BY <2>1, <2>2 DEF IsColumn
<1>7. /\ IsColumn(row, n) /\ Len(row) = n
      /\ \A r \in 1 .. n : row[r] = IF r = p THEN id ELSE m.rows[t][Back(p, r)]
  <2>1. IsColumn(m.rows[t], Count(m, t))
    BY <1>2 DEF Columns
  <2>2. IsColumn(row, n) /\ \A r \in 1 .. n : row[r] = IF r = p THEN id ELSE m.rows[t][Back(p, r)]
    BY <1>6, <2>1
  <2> HIDE DEF row
  <2>3. QED BY <2>2, ColumnFacts
<1>8. /\ IsColumn(key, n)
      /\ \A r \in 1 .. n : key[r] = IF r = p THEN i ELSE m.ref[Join[t]][Back(p, r)]
  <2>1. IsColumn(m.ref[Join[t]], Count(m, t))
    BY <1>2 DEF Columns
  <2>2. QED BY <1>6, <2>1
<1> HIDE DEF row, key
<1>9. Count(q, t) = n /\ \A k \in Kinds \ {t} : Count(q, k) = Count(m, k)
  BY <1>4, <1>7 DEF Count
<1>10. \A c \in DOMAIN Refs : Refs[c][1] # t => q.ref[c] = m.ref[c]
  BY <1>1, <1>2, <1>4
<1>11. \A c \in DOMAIN Refs : Refs[c][1] = t /\ c # Join[t] =>
         /\ IsColumn(q.ref[c], n)
         /\ \A r \in 1 .. n : q.ref[c][r] = IF r = p THEN 0 ELSE m.ref[c][Back(p, r)]
  <2>1. SUFFICES ASSUME NEW c \in DOMAIN Refs, Refs[c][1] = t, c # Join[t]
                 PROVE  /\ IsColumn(q.ref[c], n)
                        /\ \A r \in 1 .. n : q.ref[c][r] = IF r = p THEN 0 ELSE m.ref[c][Back(p, r)]
    OBVIOUS
  <2>2. q.ref[c] = InsertAt(m.ref[c], p, 0)
    BY <1>1, <1>4, <2>1
  <2>3. IsColumn(m.ref[c], Count(m, t))
    BY <2>1 DEF Columns
  <2>4. QED BY <1>5, <2>2, <2>3
<1>12. \A c \in DOMAIN Refs : IsColumn(q.ref[c], Count(q, Refs[c][1]))
  <2>1. TAKE c \in DOMAIN Refs
  <2>2. Refs[c][1] \in Kinds
    BY RefSchema
  <2>3. CASE Refs[c][1] # t
    <3>1. IsColumn(m.ref[c], Count(m, Refs[c][1]))
      BY DEF Columns
    <3>2. QED BY <1>9, <1>10, <2>2, <2>3, <3>1
  <2>4. CASE Refs[c][1] = t /\ c # Join[t]
    BY <1>9, <1>11, <2>4
  <2>5. CASE c = Join[t]
    BY <1>2, <1>4, <1>8, <1>9, <2>5
  <2>6. QED BY <2>3, <2>4, <2>5
<1>13. \A c \in DOMAIN NameRefs :
         /\ IsColumn(q.name[c], Count(q, NameRefs[c][1]))
         /\ NameRefs[c][1] # t => q.name[c] = m.name[c]
  <2>1. TAKE c \in DOMAIN NameRefs
  <2>2. NameRefs[c][1] \in Kinds /\ IsColumn(m.name[c], Count(m, NameRefs[c][1]))
    BY NameSchema DEF Columns
  <2>3. q.name[c] = IF NameRefs[c][1] = t THEN InsertAt(m.name[c], p, NoName) ELSE m.name[c]
    BY <1>1, <1>4
  <2>4. NameRefs[c][1] = t => IsColumn(InsertAt(m.name[c], p, NoName), n)
    BY <1>5, <2>2
  <2>5. QED BY <1>9, <2>2, <2>3, <2>4
<1>14. \A c \in DOMAIN DataCols :
         /\ IsColumn(q.data[c], Len(q.data[c]))
         /\ IF c \in NotErased THEN Len(q.data[c]) >= Count(q, DataCols[c][1])
            ELSE Len(q.data[c]) = Count(q, DataCols[c][1])
  <2>1. TAKE c \in DOMAIN DataCols
  <2>2. Count(q, DataCols[c][1]) = Count(m, DataCols[c][1])
    BY <1>9, DataSchema
  <2>3. /\ IsColumn(m.data[c], Len(m.data[c]))
        /\ IF c \in NotErased THEN Len(m.data[c]) >= Count(m, DataCols[c][1])
           ELSE Len(m.data[c]) = Count(m, DataCols[c][1])
    BY DEF Columns
  <2>4. QED BY <1>4, <2>2, <2>3
<1>15. \A k \in Kinds : IsColumn(q.rows[k], Count(q, k))
  <2>1. \A k \in Kinds : IsColumn(m.rows[k], Count(m, k))
    BY DEF Columns
  <2>2. QED BY <1>4, <1>7, <1>9, <2>1
<1>16. Columns(q)
  <2>1. DOMAIN q.ref = DOMAIN Refs /\ DOMAIN q.name = DOMAIN NameRefs /\ DOMAIN q.data = DOMAIN DataCols
    BY <1>1, <1>4
  <2>2. QED BY <1>1, <1>4, <1>12, <1>13, <1>14, <1>15, <2>1 DEF Columns
<1>17. \A r \in 1 .. n : Key(q, t, r) = IF r = p THEN i ELSE Key(m, t, Back(p, r))
  BY <1>4, <1>8 DEF Key
<1>18. QED BY <1>2, <1>4, <1>7, <1>9, <1>10, <1>11, <1>13, <1>16, <1>17 DEF q, n, p

-----------------------------------------------------------------------------
(* The rows of the side tables of nodes and links *)

\* Object i has no row in a side table, the others have theirs.
KeyedBut(m, k, i) ==
  /\ \A j \in Positions(m, k) : TypeAt(m, k, j) \in TypesOf[k]
  /\ \A t \in SideTables(k) : \A r \in Positions(m, t) :
       /\ Key(m, t, r) \in Positions(m, k) /\ Owned(m, k, t, Key(m, t, r))
       /\ m.rows[t][r] = m.rows[k][Key(m, t, r)] /\ Key(m, t, r) # i
  /\ \A t \in SideTables(k) : \A r1, r2 \in Positions(m, t) :
       r1 < r2 => Key(m, t, r1) < Key(m, t, r2)
  /\ \A t \in SideTables(k), j \in Positions(m, k) :
       j # i /\ Owned(m, k, t, j) => \E r \in Positions(m, t) : Key(m, t, r) = j

\* subtype_row leads the objects but i to their rows.
IndexedBut(m, k, i) ==
  /\ IsColumn(m.subtype_row[k], Count(m, k))
  /\ \A j \in Positions(m, k) : j # i =>
       IF TypeAt(m, k, j) = "JUNCTION" THEN m.subtype_row[k][j] = 0
       ELSE LET t == SideTable[TypeAt(m, k, j)]
            IN m.subtype_row[k][j] \in Positions(m, t) /\ Key(m, t, m.subtype_row[k][j]) = j

\* The other kind of object is left alone.
OthersBacked(m, k) == \A o \in DOMAIN TypeColumn : o # k => Keyed(m, o) /\ Indexed(m, o)

\* The numbers below a bound, among 1 .. n, when they come first
LEMMA Downset ==
  ASSUME NEW n \in Nat, NEW K, K \subseteq 1 .. n, \A r \in K : \A s \in 1 .. n : s < r => s \in K
  PROVE  \A r \in 1 .. n : r \in K <=> r <= Cardinality(K)
<1> DEFINE T == (1 .. n + 1) \ K
<1>1. T \subseteq Nat /\ T # {}
  <2>1. n + 1 \in T
    OBVIOUS
  <2>2. QED BY <2>1
<1>2. PICK x \in T : \A y \in T : x <= y
  BY <1>1, LeastNatural
<1>3. x \in 1 .. n + 1 /\ x \notin K
  BY <1>2
<1>4. ASSUME NEW r \in 1 .. n
      PROVE  r \in K <=> r <= x - 1
  <2>1. ASSUME r <= x - 1
        PROVE  r \in K
    <3>1. SUFFICES ASSUME r \notin K PROVE FALSE
      OBVIOUS
    <3>2. r \in T
      BY <3>1
    <3>3. x <= r
      BY <1>2, <3>2
    <3>4. QED BY <1>3, <2>1, <3>3
  <2>2. ASSUME r \in K, ~(r <= x - 1)
        PROVE  FALSE
    <3>1. x < r /\ x \in 1 .. n
      <4>1. r # x
        BY <1>3, <2>2
      <4>2. QED BY <1>3, <2>2, <4>1
    <3>2. x \in K
      BY <2>2, <3>1
    <3>3. QED BY <1>3, <3>2
  <2>3. QED BY <2>1, <2>2
<1>5. K = 1 .. x - 1
  <2>1. \A r \in K : r \in 1 .. x - 1
    BY <1>3, <1>4
  <2>2. \A r \in 1 .. x - 1 : r \in K
    BY <1>3, <1>4
  <2>3. QED BY <2>1, <2>2
<1>6. Cardinality(1 .. x - 1) = x - 1
  <2>1. x - 1 \in Int /\ 1 \in Int /\ ~(1 > x - 1) => Cardinality(1 .. x - 1) = x - 1 - 1 + 1
    BY <1>3, FS_Interval
  <2>2. x - 1 = 0 => 1 .. x - 1 = {}
    OBVIOUS
  <2>3. Cardinality({}) = 0
    BY FS_EmptySet
  <2>4. QED BY <1>3, <2>1, <2>2, <2>3
<1>7. QED BY <1>4, <1>5, <1>6

\* The place of a new row is behind the keys that are less.
LEMMA PlaceFacts ==
  ASSUME NEW m, Columns(m), NEW t \in DOMAIN Join, NEW i \in Nat,
         \A r \in Positions(m, t) : Key(m, t, r) \in Nat,
         \A r1, r2 \in Positions(m, t) : r1 < r2 => Key(m, t, r1) < Key(m, t, r2)
  PROVE  \A r \in Positions(m, t) : r < PlaceOf(m, t, i) <=> Key(m, t, r) < i
<1> DEFINE n == Count(m, t)
           K == {r \in DOMAIN m.ref[Join[t]] : m.ref[Join[t]][r] < i}
<1>1. n \in Nat /\ DOMAIN m.ref[Join[t]] = 1 .. n /\ Positions(m, t) = 1 .. n
  BY ColumnsDomain, JoinSchema DEF Positions
<1> HIDE DEF n
<1>2. \A r : r \in K <=> r \in 1 .. n /\ Key(m, t, r) < i
  BY <1>1 DEF Key
<1>3. PlaceOf(m, t, i) = 1 + Cardinality(K)
  BY DEF PlaceOf
<1> HIDE DEF K
<1>4. K \subseteq 1 .. n
  BY <1>2
<1>5. \A r \in K : \A s \in 1 .. n : s < r => s \in K
  <2>1. SUFFICES ASSUME NEW r \in K, NEW s \in 1 .. n, s < r PROVE s \in K
    OBVIOUS
  <2>2. r \in Positions(m, t) /\ s \in Positions(m, t) /\ Key(m, t, r) < i
    BY <1>1, <1>2
  <2>3. Key(m, t, s) < Key(m, t, r) /\ Key(m, t, s) \in Nat /\ Key(m, t, r) \in Nat
    BY <2>1, <2>2
  <2>4. QED BY <1>2, <2>2, <2>3
<1>6. \A r \in 1 .. n : r \in K <=> r <= Cardinality(K)
  BY <1>1, <1>4, <1>5, Downset
<1>7. Cardinality(K) \in Nat
  <2>1. IsFiniteSet(1 .. n)
    BY <1>1, FS_Interval
  <2>2. IsFiniteSet(K)
    BY <1>4, <2>1, FS_Subset
  <2>3. QED BY <2>2, FS_CardinalityType
<1>8. QED BY <1>1, <1>2, <1>3, <1>6, <1>7

\* Behind an inserted row, row r was row Back(p, r).
LEMMA BackFacts ==
  ASSUME NEW n \in Nat, NEW p \in 1 .. n + 1
  PROVE  /\ \A r \in 1 .. n + 1 : r # p => Back(p, r) \in 1 .. n
         /\ \A r1, r2 \in 1 .. n + 1 :
              r1 # p /\ r2 # p /\ r1 < r2 => Back(p, r1) < Back(p, r2)
         /\ \A s \in 1 .. n : Up(p, s) \in 1 .. n + 1 /\ Up(p, s) # p /\ Back(p, Up(p, s)) = s
         /\ \A r \in 1 .. n + 1 : r < p => Back(p, r) < p
         /\ \A r \in 1 .. n + 1 : r > p => ~(Back(p, r) < p)
BY DEF Back, Up

\* Table t of object i gets a row for it, the other side tables are left alone.
RowAdded(m, v, k, t, i) ==
  /\ v.rows[k] = m.rows[k]
  /\ v.data[TypeColumn[k]] = m.data[TypeColumn[k]]
  /\ \A s \in SideTables(k) \ {t} : v.rows[s] = m.rows[s] /\ v.ref[Join[s]] = m.ref[Join[s]]
  /\ LET p == PlaceOf(m, t, i)
         n == Count(m, t) + 1
     IN /\ p \in 1 .. n /\ Count(v, t) = n
        /\ \A r \in 1 .. n : v.rows[t][r] = IF r = p THEN m.rows[k][i] ELSE m.rows[t][Back(p, r)]
        /\ \A r \in 1 .. n : Key(v, t, r) = IF r = p THEN i ELSE Key(m, t, Back(p, r))

\* With its new row in place, object i and the others have theirs.
LEMMA RowAddedKeyed ==
  ASSUME NEW m, NEW v, NEW k, NEW i \in Positions(m, k), NEW t \in SideTables(k),
         Count(m, k) \in Nat, Count(m, t) \in Nat,
         KeyedBut(m, k, i), Owned(m, k, t, i), RowAdded(m, v, k, t, i),
         \A r \in Positions(m, t) : r < PlaceOf(m, t, i) <=> Key(m, t, r) < i
  PROVE  Keyed(v, k)
<1> DEFINE p == PlaceOf(m, t, i)
           n == Count(m, t)
<1>1. /\ p \in 1 .. n + 1 /\ Positions(v, t) = 1 .. n + 1 /\ Positions(m, t) = 1 .. n /\ n \in Nat
      /\ \A r \in 1 .. n + 1 : v.rows[t][r] = IF r = p THEN m.rows[k][i] ELSE m.rows[t][Back(p, r)]
      /\ \A r \in 1 .. n + 1 : Key(v, t, r) = IF r = p THEN i ELSE Key(m, t, Back(p, r))
      /\ \A r \in 1 .. n : r < p <=> Key(m, t, r) < i
  BY DEF RowAdded, Positions
<1> HIDE DEF p, n
<1>2. /\ \A s \in SideTables(k) \ {t} : v.rows[s] = m.rows[s] /\ v.ref[Join[s]] = m.ref[Join[s]]
      /\ v.rows[k] = m.rows[k] /\ v.data[TypeColumn[k]] = m.data[TypeColumn[k]]
  BY DEF RowAdded
<1>3. /\ Positions(v, k) = Positions(m, k) /\ Positions(m, k) \subseteq Nat
      /\ \A j : TypeAt(v, k, j) = TypeAt(m, k, j)
      /\ \A s, j : Owned(v, k, s, j) <=> Owned(m, k, s, j)
  BY <1>2 DEF Positions, Count, TypeAt, Owned
<1>4. \A s \in SideTables(k) \ {t} : Positions(v, s) = Positions(m, s) /\ \A r : Key(v, s, r) = Key(m, s, r)
  BY <1>2 DEF Positions, Count, Key
<1>5. \A s \in SideTables(k) : \A r \in Positions(m, s) :
        /\ Key(m, s, r) \in Positions(m, k) /\ Owned(m, k, s, Key(m, s, r))
        /\ m.rows[s][r] = m.rows[k][Key(m, s, r)] /\ Key(m, s, r) # i
  BY DEF KeyedBut
<1>6. \A r \in 1 .. n + 1 : r # p => Back(p, r) \in Positions(m, t)
  BY <1>1, BackFacts
<1>7. ASSUME NEW s \in SideTables(k), NEW r \in Positions(v, s)
      PROVE  /\ Key(v, s, r) \in Positions(v, k) /\ Owned(v, k, s, Key(v, s, r))
             /\ v.rows[s][r] = v.rows[k][Key(v, s, r)]
  <2>1. CASE s # t
    <3>1. r \in Positions(m, s) /\ Key(v, s, r) = Key(m, s, r) /\ v.rows[s] = m.rows[s]
      BY <1>2, <1>4, <1>7, <2>1
    <3>2. QED BY <1>2, <1>3, <1>5, <3>1
  <2>2. CASE s = t /\ r = p
    <3>1. Key(v, t, p) = i /\ v.rows[t][p] = m.rows[k][i]
      BY <1>1
    <3>2. QED BY <1>2, <1>3, <2>2, <3>1
  <2>3. CASE s = t /\ r # p
    <3>1. Back(p, r) \in Positions(m, t) /\ r \in 1 .. n + 1
      BY <1>1, <1>6, <1>7, <2>3
    <3>2. Key(v, t, r) = Key(m, t, Back(p, r)) /\ v.rows[t][r] = m.rows[t][Back(p, r)]
      BY <1>1, <2>3, <3>1
    <3>3. QED BY <1>2, <1>3, <1>5, <2>3, <3>1, <3>2
  <2>4. QED BY <2>1, <2>2, <2>3
<1>8. ASSUME NEW s \in SideTables(k), NEW r1 \in Positions(v, s), NEW r2 \in Positions(v, s), r1 < r2
      PROVE  Key(v, s, r1) < Key(v, s, r2)
  <2>0. \A x1, x2 \in Positions(m, s) : x1 < x2 => Key(m, s, x1) < Key(m, s, x2)
    BY DEF KeyedBut
  <2>1. CASE s # t
    BY <1>4, <1>8, <2>0, <2>1
  <2>2. CASE s = t
    <3>1. r1 \in 1 .. n + 1 /\ r2 \in 1 .. n + 1 /\ p \in Int /\ r1 \in Int /\ r2 \in Int
      BY <1>1, <2>2
    <3>2. CASE r2 = p
      <4>1. r1 # p /\ Back(p, r1) \in Positions(m, t) /\ Back(p, r1) < p
        BY <1>1, <1>6, <1>8, <3>1, <3>2, BackFacts
      <4>2. Key(m, t, Back(p, r1)) < i
        BY <1>1, <4>1
      <4>3. Key(v, t, r1) = Key(m, t, Back(p, r1)) /\ Key(v, t, r2) = i
        BY <1>1, <3>1, <3>2, <4>1
      <4>4. QED BY <2>2, <4>2, <4>3
    <3>3. CASE r1 = p
      <4>1. r2 # p /\ Back(p, r2) \in Positions(m, t) /\ ~(Back(p, r2) < p)
        BY <1>1, <1>6, <1>8, <3>1, <3>3, BackFacts
      <4>2. ~(Key(m, t, Back(p, r2)) < i)
        BY <1>1, <4>1
      <4>3. Key(m, t, Back(p, r2)) # i /\ Key(m, t, Back(p, r2)) \in Positions(m, k)
        BY <1>5, <4>1
      <4>4. i < Key(m, t, Back(p, r2))
        BY <1>3, <4>2, <4>3
      <4>5. Key(v, t, r2) = Key(m, t, Back(p, r2)) /\ Key(v, t, r1) = i
        BY <1>1, <3>1, <3>3, <4>1
      <4>6. QED BY <2>2, <4>4, <4>5
    <3>4. CASE r1 # p /\ r2 # p
      <4>1. Back(p, r1) \in Positions(m, t) /\ Back(p, r2) \in Positions(m, t)
            /\ Back(p, r1) < Back(p, r2)
        BY <1>1, <1>6, <1>8, <3>1, <3>4, BackFacts
      <4>2. Key(m, t, Back(p, r1)) < Key(m, t, Back(p, r2))
        BY <2>0, <2>2, <4>1
      <4>3. Key(v, t, r1) = Key(m, t, Back(p, r1)) /\ Key(v, t, r2) = Key(m, t, Back(p, r2))
        BY <1>1, <3>1, <3>4
      <4>4. QED BY <2>2, <4>2, <4>3
    <3>5. QED BY <3>2, <3>3, <3>4
  <2>3. QED BY <2>1, <2>2
<1>9. ASSUME NEW s \in SideTables(k), NEW j \in Positions(v, k), Owned(v, k, s, j)
      PROVE  \E r \in Positions(v, s) : Key(v, s, r) = j
  <2>0. Owned(m, k, s, j) /\ j \in Positions(m, k)
    BY <1>3, <1>9
  <2>1. CASE s # t
    <3>1. j # i
      BY <2>0, <2>1 DEF Owned
    <3>2. \E r \in Positions(m, s) : Key(m, s, r) = j
      BY <2>0, <3>1 DEF KeyedBut
    <3>3. QED BY <1>4, <2>1, <3>2
  <2>2. CASE s = t /\ j = i
    BY <1>1, <2>2
  <2>3. CASE s = t /\ j # i
    <3>1. PICK x \in Positions(m, t) : Key(m, t, x) = j
      BY <2>0, <2>3 DEF KeyedBut
    <3>2. Up(p, x) \in 1 .. n + 1 /\ Up(p, x) # p /\ Back(p, Up(p, x)) = x
      BY <1>1, <3>1, BackFacts
    <3>3. Key(v, t, Up(p, x)) = j /\ Up(p, x) \in Positions(v, t)
      BY <1>1, <3>1, <3>2
    <3>4. QED BY <2>3, <3>3
  <2>4. QED BY <2>1, <2>2, <2>3
<1>10. \A j \in Positions(v, k) : TypeAt(v, k, j) \in TypesOf[k]
  BY <1>3 DEF KeyedBut
<1>11. QED BY <1>7, <1>8, <1>9, <1>10 DEF Keyed

\* The side tables of nodes and of links are apart.
LEMMA SideSchema ==
  ASSUME NEW k \in DOMAIN TypeColumn
  PROVE  /\ k \in Kinds /\ k \in Main /\ k \notin SideTables(k)
         /\ \A t \in SideTables(k) : t \in DOMAIN Join /\ t \in Kinds /\ t \notin Main
                                     /\ Join[t] \in DOMAIN Refs /\ Refs[Join[t]][1] = t
                                     /\ Join[t] \in JoinCols /\ Refs[Join[t]][2] = k
         /\ \A o \in DOMAIN TypeColumn : o # k => SideTables(o) \cap SideTables(k) = {}
<1>1. k \in {"nodes", "links"} /\ k \in Kinds /\ k \notin DOMAIN Join
  BY TypeSchema
<1>2. k \in Main
  BY <1>1, MainSchema
<1>3. \A t \in SideTables(k) : t \in DOMAIN Join /\ Refs[Join[t]][2] = k
  BY DEF SideTables
<1>4. \A t \in SideTables(k) : t \in Kinds /\ t \notin Main /\ Join[t] \in DOMAIN Refs
                               /\ Refs[Join[t]][1] = t /\ Join[t] \in JoinCols
  BY <1>3, JoinSchema DEF Main, JoinCols
<1>5. \A o \in DOMAIN TypeColumn : o # k => SideTables(o) \cap SideTables(k) = {}
  BY DEF SideTables
<1>6. QED BY <1>1, <1>2, <1>3, <1>4, <1>5

\* References stay in range while none is new and no table shrinks.
LEMMA DrawnInRange ==
  ASSUME NEW m, Columns(m), InRange(m), NEW q, Columns(q), Drawn(m, q),
         \A t \in Main : Count(q, t) = Count(m, t)
  PROVE  InRange(q)
<1>1. ASSUME NEW c \in DOMAIN Refs \ Unkept, NEW r \in Positions(q, Refs[c][1])
      PROVE  q.ref[c][r] \in 0 .. Count(q, Refs[c][2])
  <2>1. c \in DOMAIN Refs \ JoinCols /\ r \in DOMAIN q.ref[c]
    BY KeptSchema, ColumnsDomain
  <2>2. Refs[c][2] \in Main /\ Refs[c][2] \in Kinds
    BY MainSchema, RefSchema
  <2>3. Count(q, Refs[c][2]) = Count(m, Refs[c][2]) /\ Count(m, Refs[c][2]) \in Nat
    BY <2>2, ColumnsDomain
  <2>4. CASE q.ref[c][r] = 0
    BY <2>3, <2>4
  <2>5. CASE q.ref[c][r] # 0
    <3>1. PICK r0 \in DOMAIN m.ref[c] : q.ref[c][r] = m.ref[c][r0]
      BY <2>1, <2>5 DEF Drawn
    <3>2. r0 \in Positions(m, Refs[c][1])
      BY <3>1, ColumnsDomain
    <3>3. m.ref[c][r0] \in 0 .. Count(m, Refs[c][2])
      BY <3>2 DEF InRange
    <3>4. QED BY <2>3, <3>1, <3>3
  <2>6. QED BY <2>4, <2>5
<1>2. QED BY <1>1 DEF InRange

\* The other kind of object is left alone by an edit of k and its side tables.
LEMMA OthersFrame ==
  ASSUME NEW m, NEW q, NEW k \in DOMAIN TypeColumn, OthersBacked(m, k),
         \A s \in Kinds \ (SideTables(k) \cup {k}) : q.rows[s] = m.rows[s],
         \A s \in DOMAIN Join \ SideTables(k) : q.ref[Join[s]] = m.ref[Join[s]],
         \A o \in DOMAIN TypeColumn \ {k} : q.data[TypeColumn[o]] = m.data[TypeColumn[o]]
                                            /\ q.subtype_row[o] = m.subtype_row[o]
  PROVE  OthersBacked(q, k)
<1>1. ASSUME NEW o \in DOMAIN TypeColumn, o # k
      PROVE  Keyed(q, o) /\ Indexed(q, o)
  <2>1. Keyed(m, o) /\ Indexed(m, o)
    BY <1>1 DEF OthersBacked
  <2>2. o \in Kinds \ (SideTables(k) \cup {k})
    <3>1. o \in Main /\ o \in Kinds
      BY SideSchema
    <3>2. QED BY <1>1, <3>1, SideSchema
  <2>3. \A t \in SideTables(o) : t \in Kinds \ (SideTables(k) \cup {k}) /\ t \in DOMAIN Join \ SideTables(k)
    <3>1. TAKE t \in SideTables(o)
    <3>2. t \in DOMAIN Join /\ t \in Kinds /\ t \notin Main
      BY SideSchema
    <3>3. t \notin SideTables(k)
      BY <1>1, SideSchema
    <3>4. k \in Main
      BY SideSchema
    <3>5. QED BY <3>2, <3>3, <3>4
  <2>4. \A t \in SideTables(o) : q.rows[t] = m.rows[t] /\ q.ref[Join[t]] = m.ref[Join[t]]
    BY <2>3
  <2>5. q.rows[o] = m.rows[o] /\ q.data[TypeColumn[o]] = m.data[TypeColumn[o]]
        /\ q.subtype_row[o] = m.subtype_row[o]
    BY <1>1, <2>2
  <2>6. Keyed(q, o)
    BY <2>1, <2>4, <2>5, KeyedFrame
  <2>7. Indexed(q, o)
    BY <2>1, <2>4, <2>5, IndexedFrame
  <2>8. QED BY <2>6, <2>7
<1>2. QED BY <1>1 DEF OthersBacked

\* set_type between taking the old row away and making the new one
Half(m, k, i) ==
  /\ Columns(m) /\ InRange(m) /\ i \in Positions(m, k)
  /\ KeyedBut(m, k, i) /\ OthersBacked(m, k)

\* The type of i may be written while i has no row.
LEMMA RetypedHalf ==
  ASSUME NEW m, NEW k \in DOMAIN TypeColumn, NEW i, Half(m, k, i), NEW type \in TypesOf[k],
         NEW q, q = [m EXCEPT !.data[TypeColumn[k]][i] = type]
  PROVE  /\ Half(q, k, i) /\ TypeAt(q, k, i) = type
         /\ q.rows = m.rows /\ q.ref = m.ref /\ q.name = m.name
         /\ q.mat = m.mat /\ q.subtype_row = m.subtype_row
         /\ IndexedBut(m, k, i) => IndexedBut(q, k, i)
<1> DEFINE c == TypeColumn[k]
<1>1. Columns(m) /\ InRange(m) /\ i \in Positions(m, k) /\ KeyedBut(m, k, i) /\ OthersBacked(m, k)
  BY DEF Half
<1>2. c \in DOMAIN DataCols /\ c \notin NotErased /\ DataCols[c][1] = k
  BY TypeSchema
<1>3. /\ DOMAIN m = {"rows", "ref", "name", "data", "subtype_row", "mat"}
      /\ DOMAIN m.data = DOMAIN DataCols /\ IsColumn(m.data[c], Count(m, k))
      /\ Count(m, k) \in Nat
  <2>1. DOMAIN m = {"rows", "ref", "name", "data", "subtype_row", "mat"}
        /\ DOMAIN m.data = DOMAIN DataCols
    BY <1>1, ColumnsDomain
  <2>2. IsColumn(m.data[c], Len(m.data[c])) /\ Len(m.data[c]) = Count(m, k)
    BY <1>1, <1>2 DEF Columns
  <2>3. QED BY <2>1, <2>2 DEF IsColumn
<1> DEFINE o == [m.data[c] EXCEPT ![i] = type]
<1>4. /\ DOMAIN q = DOMAIN m /\ q.rows = m.rows /\ q.ref = m.ref /\ q.name = m.name /\ q.mat = m.mat
      /\ q.subtype_row = m.subtype_row
      /\ q.data = [m.data EXCEPT ![c] = o]
  BY <1>3
<1>5. IsColumn(o, Count(m, k)) /\ \A j \in Positions(m, k) : o[j] = IF j = i THEN type ELSE m.data[c][j]
  BY <1>1, <1>3 DEF IsColumn, Positions
<1> HIDE DEF o
<1>6. DOMAIN q.data = DOMAIN DataCols /\ q.data[c] = o
      /\ \A x \in DOMAIN DataCols \ {c} : q.data[x] = m.data[x]
  BY <1>2, <1>3, <1>4
<1>7. \A t : Count(q, t) = Count(m, t) /\ Positions(q, t) = Positions(m, t)
  BY <1>4 DEF Count, Positions
<1>8. Columns(q)
  <2>1. Len(o) = Count(m, k)
    BY <1>5, ColumnFacts
  <2>2. \A x \in DOMAIN DataCols :
          /\ IsColumn(q.data[x], Len(q.data[x]))
          /\ IF x \in NotErased THEN Len(q.data[x]) >= Count(q, DataCols[x][1])
             ELSE Len(q.data[x]) = Count(q, DataCols[x][1])
    <3>1. TAKE x \in DOMAIN DataCols
    <3>2. CASE x = c
      BY <1>2, <1>5, <1>6, <1>7, <2>1, <3>2
    <3>3. CASE x # c
      <4>1. /\ IsColumn(m.data[x], Len(m.data[x]))
            /\ IF x \in NotErased THEN Len(m.data[x]) >= Count(m, DataCols[x][1])
               ELSE Len(m.data[x]) = Count(m, DataCols[x][1])
        BY <1>1 DEF Columns
      <4>2. QED BY <1>6, <1>7, <3>3, <4>1
    <3>4. QED BY <3>2, <3>3
  <2>3. QED BY <1>1, <1>3, <1>4, <1>6, <1>7, <2>2 DEF Columns
<1>9. InRange(q)
  BY <1>1, <1>4, <1>7 DEF InRange
<1>10. OthersBacked(q, k)
  <2>1. \A x \in DOMAIN TypeColumn \ {k} : q.data[TypeColumn[x]] = m.data[TypeColumn[x]]
    <3>1. TAKE x \in DOMAIN TypeColumn \ {k}
    <3>2. TypeColumn[x] \in DOMAIN DataCols /\ DataCols[TypeColumn[x]][1] = x
      BY TypeSchema
    <3>3. TypeColumn[x] # c
      BY <1>2, <3>2
    <3>4. QED BY <1>6, <3>2, <3>3
  <2>2. QED BY <1>1, <1>4, <2>1, OthersFrame
<1>11. /\ TypeAt(q, k, i) = type
       /\ \A j \in Positions(m, k) : j # i => TypeAt(q, k, j) = TypeAt(m, k, j)
       /\ \A t : \A j \in Positions(m, k) : j # i => (Owned(q, k, t, j) <=> Owned(m, k, t, j))
       /\ \A t, r : Key(q, t, r) = Key(m, t, r)
  BY <1>1, <1>4, <1>5, <1>6 DEF TypeAt, Owned, Key
<1>12. KeyedBut(q, k, i)
  <2>1. \A j \in Positions(q, k) : TypeAt(q, k, j) \in TypesOf[k]
    BY <1>1, <1>7, <1>11 DEF KeyedBut
  <2>2. ASSUME NEW t \in SideTables(k), NEW r \in Positions(q, t)
        PROVE  /\ Key(q, t, r) \in Positions(q, k) /\ Owned(q, k, t, Key(q, t, r))
               /\ q.rows[t][r] = q.rows[k][Key(q, t, r)] /\ Key(q, t, r) # i
    <3>1. r \in Positions(m, t) /\ Key(q, t, r) = Key(m, t, r)
      BY <1>7, <1>11
    <3>2. /\ Key(m, t, r) \in Positions(m, k) /\ Owned(m, k, t, Key(m, t, r))
          /\ m.rows[t][r] = m.rows[k][Key(m, t, r)] /\ Key(m, t, r) # i
      BY <1>1, <3>1 DEF KeyedBut
    <3>3. QED BY <1>4, <1>7, <1>11, <3>1, <3>2
  <2>3. \A t \in SideTables(k) : \A r1, r2 \in Positions(q, t) :
          r1 < r2 => Key(q, t, r1) < Key(q, t, r2)
    BY <1>1, <1>7, <1>11 DEF KeyedBut
  <2>4. \A t \in SideTables(k), j \in Positions(q, k) :
          j # i /\ Owned(q, k, t, j) => \E r \in Positions(q, t) : Key(q, t, r) = j
    BY <1>1, <1>7, <1>11 DEF KeyedBut
  <2>5. QED BY <2>1, <2>2, <2>3, <2>4 DEF KeyedBut
<1>13. ASSUME IndexedBut(m, k, i) PROVE IndexedBut(q, k, i)
  <2>1. IsColumn(q.subtype_row[k], Count(q, k))
    BY <1>4, <1>7, <1>13 DEF IndexedBut
  <2>2. ASSUME NEW j \in Positions(q, k), j # i
        PROVE  IF TypeAt(q, k, j) = "JUNCTION" THEN q.subtype_row[k][j] = 0
               ELSE LET t == SideTable[TypeAt(q, k, j)]
                    IN q.subtype_row[k][j] \in Positions(q, t) /\ Key(q, t, q.subtype_row[k][j]) = j
    <3>1. j \in Positions(m, k) /\ TypeAt(q, k, j) = TypeAt(m, k, j)
      BY <1>7, <1>11, <2>2
    <3>2. IF TypeAt(m, k, j) = "JUNCTION" THEN m.subtype_row[k][j] = 0
          ELSE LET t == SideTable[TypeAt(m, k, j)]
               IN m.subtype_row[k][j] \in Positions(m, t) /\ Key(m, t, m.subtype_row[k][j]) = j
      BY <1>13, <2>2, <3>1 DEF IndexedBut
    <3>3. QED BY <1>4, <1>7, <1>11, <3>1, <3>2
  <2>3. QED BY <2>1, <2>2 DEF IndexedBut
<1>14. QED BY <1>4, <1>8, <1>9, <1>7, <1>10, <1>11, <1>12, <1>13, <1>1 DEF Half

\* The outcome of set_type, but for the index of k.
Full(m, v, k) ==
  /\ Columns(v) /\ InRange(v) /\ Keyed(v, k) /\ OthersBacked(v, k)
  /\ \A t \in Main : v.rows[t] = m.rows[t]
  /\ v.mat = m.mat

\* The objects and the matrices are those of m.
Kept(m, q) == Tables(q) /\ q.mat = m.mat /\ \A t \in Main : q.rows[t] = m.rows[t]

\* The row of i is made, in its place.
Placed(m, v, k, t, i) ==
  /\ Full(m, v, k) /\ RowAdded(m, v, k, t, i) /\ v.subtype_row = m.subtype_row
  /\ \A r \in Positions(m, t) : r < PlaceOf(m, t, i) <=> Key(m, t, r) < i

\* An object of a type without a side table needs no row.
LEMMA KeyedButFull ==
  ASSUME NEW m, NEW k, NEW i, KeyedBut(m, k, i), TypeAt(m, k, i) = "JUNCTION"
  PROVE  Keyed(m, k)
<1>1. ASSUME NEW t \in SideTables(k), NEW j \in Positions(m, k), Owned(m, k, t, j)
      PROVE  \E r \in Positions(m, t) : Key(m, t, r) = j
  <2>1. j # i
    BY <1>1 DEF Owned
  <2>2. QED BY <1>1, <2>1 DEF KeyedBut
<1>2. QED BY <1>1 DEF KeyedBut, Keyed

\* AddDefault makes the row of i where the keys still ascend.
LEMMA AddedFull ==
  ASSUME NEW m, NEW k \in DOMAIN TypeColumn, NEW i, Half(m, k, i), NEW t,
         TypeAt(m, k, i) # "JUNCTION", t = SideTable[TypeAt(m, k, i)],
         NEW v, v = AddDefault(m, t, i, m.rows[k][i])
  PROVE  Placed(m, v, k, t, i)
<1>1. Columns(m) /\ InRange(m) /\ i \in Positions(m, k) /\ KeyedBut(m, k, i) /\ OthersBacked(m, k)
  BY DEF Half
<1>2. t \in SideTables(k) /\ Owned(m, k, t, i)
  <2>1. TypeAt(m, k, i) \in TypesOf[k]
    BY <1>1 DEF KeyedBut
  <2>2. QED BY <2>1, TypeSchema DEF Owned
<1>3. /\ t \in DOMAIN Join /\ t \in Kinds /\ t \notin Main /\ t # k
      /\ Join[t] \in DOMAIN Refs /\ Refs[Join[t]][1] = t /\ Join[t] \in JoinCols
      /\ k \in Kinds /\ k \in Main
  BY <1>2, SideSchema
<1>4. Count(m, k) \in Nat /\ Count(m, t) \in Nat /\ i \in Nat
  BY <1>1, <1>3, ColumnsDomain DEF Positions
<1> DEFINE p == PlaceOf(m, t, i)
           n == Count(m, t) + 1
           id == m.rows[k][i]
<1>5. /\ Columns(v) /\ v.subtype_row = m.subtype_row /\ v.mat = m.mat
      /\ \A c \in DOMAIN DataCols : v.data[c] = m.data[c]
      /\ \A s \in Kinds \ {t} : v.rows[s] = m.rows[s]
      /\ Count(v, t) = n /\ p \in 1 .. n
      /\ \A r \in 1 .. n : v.rows[t][r] = IF r = p THEN id ELSE m.rows[t][Back(p, r)]
      /\ \A r \in 1 .. n : Key(v, t, r) = IF r = p THEN i ELSE Key(m, t, Back(p, r))
      /\ \A c \in DOMAIN Refs : Refs[c][1] # t => v.ref[c] = m.ref[c]
      /\ \A c \in DOMAIN Refs : Refs[c][1] = t /\ c # Join[t] =>
           \A r \in 1 .. n : v.ref[c][r] = IF r = p THEN 0 ELSE m.ref[c][Back(p, r)]
  BY <1>1, <1>3, AddFacts
<1>6. \A r \in Positions(m, t) : r < p <=> Key(m, t, r) < i
  <2>1. \A r \in Positions(m, t) : Key(m, t, r) \in Nat
    BY <1>1, <1>2 DEF KeyedBut, Positions
  <2>2. \A r1, r2 \in Positions(m, t) : r1 < r2 => Key(m, t, r1) < Key(m, t, r2)
    BY <1>1, <1>2 DEF KeyedBut
  <2>3. QED BY <1>1, <1>3, <1>4, <2>1, <2>2, PlaceFacts
<1>7. RowAdded(m, v, k, t, i)
  <2>1. v.rows[k] = m.rows[k] /\ v.data[TypeColumn[k]] = m.data[TypeColumn[k]]
    BY <1>3, <1>5, TypeSchema
  <2>2. ASSUME NEW s \in SideTables(k) \ {t}
        PROVE  v.rows[s] = m.rows[s] /\ v.ref[Join[s]] = m.ref[Join[s]]
    <3>1. s \in Kinds /\ Join[s] \in DOMAIN Refs /\ Refs[Join[s]][1] = s
      BY SideSchema
    <3>2. QED BY <1>5, <2>2, <3>1
  <2>3. QED BY <1>5, <2>1, <2>2 DEF RowAdded
<1> HIDE DEF p, n, id
<1>8. Keyed(v, k)
  BY <1>1, <1>2, <1>4, <1>6, <1>7, RowAddedKeyed DEF p
<1>9. OthersBacked(v, k)
  <2>1. \A s \in Kinds \ (SideTables(k) \cup {k}) : v.rows[s] = m.rows[s]
    BY <1>2, <1>5
  <2>2. \A s \in DOMAIN Join \ SideTables(k) : v.ref[Join[s]] = m.ref[Join[s]]
    <3>1. TAKE s \in DOMAIN Join \ SideTables(k)
    <3>2. s # t /\ Join[s] \in DOMAIN Refs /\ Refs[Join[s]][1] = s
      BY <1>2, JoinSchema
    <3>3. QED BY <1>5, <3>2
  <2>3. \A o \in DOMAIN TypeColumn \ {k} : v.data[TypeColumn[o]] = m.data[TypeColumn[o]]
                                           /\ v.subtype_row[o] = m.subtype_row[o]
    BY <1>5, TypeSchema
  <2>4. QED BY <1>1, <2>1, <2>2, <2>3, OthersFrame
<1>10. \A s \in Main : v.rows[s] = m.rows[s]
  BY <1>3, <1>5 DEF Main
<1>11. InRange(v)
  <2>1. ASSUME NEW c \in DOMAIN Refs \ JoinCols, NEW r \in DOMAIN v.ref[c]
        PROVE  v.ref[c][r] = 0 \/ \E r0 \in DOMAIN m.ref[c] : v.ref[c][r] = m.ref[c][r0]
    <3>1. CASE Refs[c][1] # t
      BY <1>5, <2>1, <3>1
    <3>2. CASE Refs[c][1] = t
      <4>1. r \in 1 .. n /\ c # Join[t]
        BY <1>3, <1>5, <2>1, <3>2, ColumnsDomain DEF Positions
      <4>2. v.ref[c][r] = IF r = p THEN 0 ELSE m.ref[c][Back(p, r)]
        BY <1>5, <2>1, <3>2, <4>1
      <4>3. r # p => Back(p, r) \in DOMAIN m.ref[c]
        <5>1. DOMAIN m.ref[c] = 1 .. Count(m, t)
          BY <1>1, <2>1, <3>2, ColumnsDomain DEF Positions
        <5>2. QED BY <1>4, <1>5, <4>1, <5>1, BackFacts DEF n
      <4>4. QED BY <4>2, <4>3
    <3>3. QED BY <3>1, <3>2
  <2>2. Drawn(m, v)
    BY <2>1 DEF Drawn
  <2>3. \A s \in Main : Count(v, s) = Count(m, s)
    BY <1>10 DEF Count
  <2>4. QED BY <1>1, <1>5, <2>2, <2>3, DrawnInRange
<1>12. QED BY <1>5, <1>6, <1>7, <1>8, <1>9, <1>10, <1>11 DEF Placed, Full, p

\* No two rows of a side table belong to one object.
LEMMA KeyUnique ==
  ASSUME NEW m, NEW k, Keyed(m, k), NEW t \in SideTables(k), Count(m, t) \in Nat,
         Count(m, k) \in Nat, NEW r1 \in Positions(m, t), NEW r2 \in Positions(m, t),
         Key(m, t, r1) = Key(m, t, r2)
  PROVE  r1 = r2
<1>1. r1 \in Int /\ r2 \in Int /\ Key(m, t, r1) \in Int
  BY DEF Keyed, Positions
<1>2. /\ r1 < r2 => Key(m, t, r1) < Key(m, t, r2)
      /\ r2 < r1 => Key(m, t, r2) < Key(m, t, r1)
  BY DEF Keyed
<1>3. QED BY <1>1, <1>2

\* The index of one object is set.
IndexEntry(v, k, i, row) == [v EXCEPT !.subtype_row[k][i] = row]

\* Writing one entry of the index
LEMMA IndexSet ==
  ASSUME NEW v, NEW k \in DOMAIN TypeColumn, Columns(v), NEW i, NEW row,
         NEW n, IsColumn(v.subtype_row[k], n), i \in 1 .. n
  PROVE  /\ Reindexed(v, IndexEntry(v, k, i, row), k)
         /\ IsColumn(IndexEntry(v, k, i, row).subtype_row[k], n)
         /\ \A j \in 1 .. n :
              IndexEntry(v, k, i, row).subtype_row[k][j] = IF j = i THEN row ELSE v.subtype_row[k][j]
<1> DEFINE q == IndexEntry(v, k, i, row)
<1>1. DOMAIN v = {"rows", "ref", "name", "data", "subtype_row", "mat"}
      /\ DOMAIN v.subtype_row = DOMAIN TypeColumn
  BY ColumnsDomain
<1>2. /\ DOMAIN q = DOMAIN v /\ q.rows = v.rows /\ q.ref = v.ref /\ q.name = v.name
      /\ q.data = v.data /\ q.mat = v.mat
      /\ q.subtype_row = [v.subtype_row EXCEPT ![k] = [@ EXCEPT ![i] = row]]
  BY <1>1 DEF IndexEntry
<1> HIDE DEF q
<1>3. Reindexed(v, q, k) /\ q.subtype_row[k] = [v.subtype_row[k] EXCEPT ![i] = row]
  BY <1>1, <1>2 DEF Reindexed
<1>4. QED BY <1>3 DEF IsColumn, q

\* With its index right, the model is sound again.
LEMMA ReindexedFull ==
  ASSUME NEW m, NEW v, NEW k \in DOMAIN TypeColumn, Full(m, v, k), NEW q, Reindexed(v, q, k),
         Indexed(q, k)
  PROVE  Kept(m, q)
<1>1. Columns(v) /\ InRange(v) /\ Keyed(v, k) /\ OthersBacked(v, k) /\ v.mat = m.mat
      /\ \A t \in Main : v.rows[t] = m.rows[t]
  BY DEF Full
<1>2. /\ Columns(q)
      /\ \A o \in DOMAIN TypeColumn : Keyed(v, o) => Keyed(q, o)
      /\ \A o \in DOMAIN TypeColumn : o # k /\ Keyed(v, o) /\ Indexed(v, o) => Indexed(q, o)
  BY <1>1, ReindexedFacts
<1>3. Backed(q)
  BY <1>1, <1>2 DEF Backed, OthersBacked
<1>4. q.rows = v.rows /\ q.ref = v.ref /\ q.mat = v.mat
  BY DEF Reindexed
<1>5. InRange(q)
  BY <1>1, <1>4 DEF InRange, Positions, Count
<1>6. QED BY <1>1, <1>2, <1>3, <1>4, <1>5 DEF Tables, Kept

\* The index of the others holds while their rows do not move: only the entry of
\* i has to be written.
LEMMA EntrySetIndexed ==
  ASSUME NEW t, NEW v, NEW k \in DOMAIN TypeColumn, NEW i, Half(t, k, i), IndexedBut(t, k, i),
         Columns(v), v.rows[k] = t.rows[k], v.subtype_row = t.subtype_row,
         v.data[TypeColumn[k]] = t.data[TypeColumn[k]],
         NEW row, NEW q, q = IndexEntry(v, k, i, row),
         IF TypeAt(t, k, i) = "JUNCTION" THEN row = 0
         ELSE LET s == SideTable[TypeAt(t, k, i)] IN row \in Positions(v, s) /\ Key(v, s, row) = i,
         \A s \in SideTables(k) : \A r \in Positions(t, s) :
           r \in Positions(v, s) /\ Key(v, s, r) = Key(t, s, r)
  PROVE  Reindexed(v, q, k) /\ Indexed(q, k)
<1>1. Columns(t) /\ i \in Positions(t, k) /\ KeyedBut(t, k, i)
  BY DEF Half
<1>2. IsColumn(v.subtype_row[k], Count(t, k)) /\ Count(t, k) \in Nat /\ i \in 1 .. Count(t, k)
  BY <1>1 DEF IndexedBut, IsColumn, Positions
<1>3. /\ Reindexed(v, q, k) /\ IsColumn(q.subtype_row[k], Count(t, k))
      /\ \A j \in 1 .. Count(t, k) : q.subtype_row[k][j] = IF j = i THEN row ELSE v.subtype_row[k][j]
  BY <1>2, IndexSet
<1>4. \A j \in Positions(t, k) : q.subtype_row[k][j] = IF j = i THEN row ELSE t.subtype_row[k][j]
  BY <1>3 DEF Positions
<1>5. /\ Count(q, k) = Count(t, k) /\ Positions(q, k) = Positions(t, k)
      /\ \A j : TypeAt(q, k, j) = TypeAt(t, k, j)
      /\ \A s, r : Key(q, s, r) = Key(v, s, r)
      /\ \A s : Positions(q, s) = Positions(v, s)
  BY <1>3 DEF Reindexed, Count, Positions, TypeAt, Key
<1>6. ASSUME NEW j \in Positions(q, k)
      PROVE  IF TypeAt(q, k, j) = "JUNCTION" THEN q.subtype_row[k][j] = 0
             ELSE LET s == SideTable[TypeAt(q, k, j)]
                  IN q.subtype_row[k][j] \in Positions(q, s) /\ Key(q, s, q.subtype_row[k][j]) = j
  <2>1. j \in Positions(t, k) /\ TypeAt(t, k, j) \in TypesOf[k]
    BY <1>1, <1>5 DEF KeyedBut
  <2>2. CASE j = i
    <3>1. q.subtype_row[k][j] = row
      BY <1>4, <2>1, <2>2
    <3>2. QED BY <1>5, <2>2, <3>1
  <2>3. CASE j # i
    <3> DEFINE x == t.subtype_row[k][j]
               s == SideTable[TypeAt(t, k, j)]
    <3>1. q.subtype_row[k][j] = x
      BY <1>4, <2>1, <2>3
    <3>2. IF TypeAt(t, k, j) = "JUNCTION" THEN x = 0 ELSE x \in Positions(t, s) /\ Key(t, s, x) = j
      BY <2>1, <2>3 DEF IndexedBut
    <3>3. TypeAt(t, k, j) # "JUNCTION" => s \in SideTables(k)
      BY <2>1, TypeSchema
    <3> HIDE DEF x
    <3>4. TypeAt(t, k, j) # "JUNCTION" => x \in Positions(v, s) /\ Key(v, s, x) = j
      BY <3>2, <3>3
    <3>5. QED BY <1>5, <3>1, <3>2, <3>4
  <2>4. QED BY <2>2, <2>3
<1>7. QED BY <1>3, <1>5, <1>6 DEF Indexed

\* The new row of i is made and the index is settled, by one entry when no row
\* moved and by rebuild_index otherwise.
LEMMA SettledSound ==
  ASSUME NEW w, NEW k \in DOMAIN TypeColumn, NEW i, Half(w, k, i), NEW type \in TypesOf[k],
         NEW erased \in BOOLEAN, erased \/ IndexedBut(w, k, i), NEW q,
         q = Settled(WithSubtype([w EXCEPT !.data[TypeColumn[k]][i] = type], k, i, type),
                     k, i, type, erased)
  PROVE  Kept(w, q)
<1> DEFINE t == [w EXCEPT !.data[TypeColumn[k]][i] = type]
           s == SideTable[type]
           v == WithSubtype(t, k, i, type)
           row == IF type = "JUNCTION" THEN 0
                  ELSE CHOOSE r \in Positions(v, s) : v.ref[Join[s]][r] = i
           rebuilt == erased \/ (row # 0 /\ row # Count(v, s))
<1>1. /\ Half(t, k, i) /\ TypeAt(t, k, i) = type
      /\ t.rows = w.rows /\ t.ref = w.ref /\ t.mat = w.mat /\ t.subtype_row = w.subtype_row
      /\ IndexedBut(w, k, i) => IndexedBut(t, k, i)
  BY RetypedHalf
<1>2. q = IF rebuilt THEN rebuild_index(v, k) ELSE IndexEntry(v, k, i, row)
  BY DEF Settled, IndexEntry
<1> HIDE DEF t
<1>3. v = IF type = "JUNCTION" THEN t ELSE AddDefault(t, s, i, t.rows[k][i])
  BY DEF WithSubtype
<1> HIDE DEF v, s
<1>4. Columns(t) /\ InRange(t) /\ i \in Positions(t, k) /\ KeyedBut(t, k, i) /\ OthersBacked(t, k)
  BY <1>1 DEF Half
<1>5. Full(t, v, k) /\ v.subtype_row = t.subtype_row
      /\ (type # "JUNCTION" =>
            /\ s \in SideTables(k) /\ RowAdded(t, v, k, s, i)
            /\ \A r \in Positions(t, s) : r < PlaceOf(t, s, i) <=> Key(t, s, r) < i)
  <2>1. CASE type = "JUNCTION"
    <3>1. v = t
      BY <1>3, <2>1
    <3>2. Keyed(t, k)
      BY <1>1, <1>4, <2>1, KeyedButFull
    <3>3. QED BY <1>4, <2>1, <3>1, <3>2 DEF Full
  <2>2. CASE type # "JUNCTION"
    <3>1. v = AddDefault(t, s, i, t.rows[k][i]) /\ s = SideTable[TypeAt(t, k, i)]
          /\ TypeAt(t, k, i) # "JUNCTION"
      BY <1>1, <1>3, <2>2 DEF s
    <3>2. s \in SideTables(k)
      BY <2>2, TypeSchema DEF s
    <3>3. Placed(t, v, k, s, i)
      BY <1>1, <3>1, AddedFull
    <3>4. QED BY <3>2, <3>3 DEF Placed
  <2>3. QED BY <2>1, <2>2
<1>6. Columns(v) /\ Keyed(v, k) /\ v.rows[k] = t.rows[k] /\ Count(v, k) \in Nat
  <2>1. k \in Main /\ k \in Kinds
    BY SideSchema
  <2>2. Columns(v) /\ Keyed(v, k) /\ v.rows[k] = t.rows[k]
    BY <1>5, <2>1 DEF Full
  <2>3. QED BY <2>1, <2>2, ColumnsDomain
<1>7. CASE rebuilt
  <2>1. Reindexed(v, rebuild_index(v, k), k) /\ Indexed(rebuild_index(v, k), k)
    BY <1>6, RebuildFacts
  <2>2. q = rebuild_index(v, k)
    BY <1>2, <1>7
  <2>3. Reindexed(v, q, k) /\ Indexed(q, k)
    BY <2>1, <2>2
  <2>4. Kept(t, q)
    BY <1>5, <2>3, ReindexedFull
  <2>5. QED BY <1>1, <2>4 DEF Kept
<1>8. CASE ~rebuilt
  <2>1. q = IndexEntry(v, k, i, row) /\ IndexedBut(t, k, i)
    BY <1>1, <1>2, <1>8
  <2>2. v.data[TypeColumn[k]] = t.data[TypeColumn[k]]
    <3>1. type = "JUNCTION" => v = t
      BY <1>3
    <3>2. QED BY <1>5, <3>1 DEF RowAdded
  <2>3. type # "JUNCTION" => row \in Positions(v, s) /\ Key(v, s, row) = i /\ row = Count(v, s)
    <3>1. SUFFICES ASSUME type # "JUNCTION"
                   PROVE  row \in Positions(v, s) /\ Key(v, s, row) = i /\ row = Count(v, s)
      OBVIOUS
    <3>2. PlaceOf(t, s, i) \in 1 .. Count(t, s) + 1 /\ Count(v, s) = Count(t, s) + 1
          /\ Key(v, s, PlaceOf(t, s, i)) = i
      BY <1>5, <3>1 DEF RowAdded
    <3>3. row \in Positions(v, s) /\ v.ref[Join[s]][row] = i
      <4>1. \E r \in Positions(v, s) : v.ref[Join[s]][r] = i
        BY <3>2 DEF Positions, Key
      <4>2. QED BY <3>1, <4>1
    <3>4. row # 0
      <4> HIDE DEF row
      <4>1. QED BY <3>3 DEF Positions
    <3>5. row = Count(v, s)
      BY <1>8, <3>4
    <3>6. QED BY <3>3, <3>5 DEF Key
  <2>4. \A x \in SideTables(k) : \A r \in Positions(t, x) :
          r \in Positions(v, x) /\ Key(v, x, r) = Key(t, x, r)
    <3>1. SUFFICES ASSUME NEW x \in SideTables(k), NEW r \in Positions(t, x)
                   PROVE  r \in Positions(v, x) /\ Key(v, x, r) = Key(t, x, r)
      OBVIOUS
    <3>2. CASE type = "JUNCTION"
      BY <1>3, <3>1, <3>2
    <3>3. CASE type # "JUNCTION" /\ x # s
      <4>1. v.rows[x] = t.rows[x] /\ v.ref[Join[x]] = t.ref[Join[x]]
        BY <1>5, <3>1, <3>3 DEF RowAdded
      <4>2. QED BY <3>1, <4>1 DEF Positions, Count, Key
    <3>4. CASE type # "JUNCTION" /\ x = s
      <4> DEFINE p == PlaceOf(t, s, i)
                 n == Count(t, s)
      <4>1. /\ p \in 1 .. n + 1 /\ Count(v, s) = n + 1
            /\ \A y \in 1 .. n + 1 : Key(v, s, y) = IF y = p THEN i ELSE Key(t, s, Back(p, y))
        BY <1>5, <3>4 DEF RowAdded
      <4>2. n \in Nat /\ Count(v, k) \in Nat /\ Count(v, s) \in Nat
        <5>1. s \in Kinds
          BY <1>5, <3>4, SideSchema
        <5>2. QED BY <1>4, <1>6, <5>1, ColumnsDomain
      <4> HIDE DEF p, n
      <4>3. p = n + 1
        <5>1. p \in Positions(v, s) /\ Key(v, s, p) = i
          BY <4>1, <4>2 DEF Positions
        <5>2. row \in Positions(v, s) /\ Key(v, s, row) = i /\ row = n + 1
          BY <2>3, <3>4, <4>1
        <5>3. s \in SideTables(k)
          BY <1>5, <3>4
        <5> HIDE DEF row
        <5>4. p = row
          BY <1>6, <4>2, <5>1, <5>2, <5>3, KeyUnique
        <5>5. QED BY <5>2, <5>4
      <4>4. r \in 1 .. n
        BY <3>1, <3>4 DEF Positions, n
      <4>5. r \in 1 .. n + 1 /\ r # p /\ Back(p, r) = r
        BY <4>2, <4>3, <4>4 DEF Back
      <4>6. Key(v, s, r) = Key(t, s, r)
        BY <4>1, <4>5
      <4>7. QED BY <3>4, <4>1, <4>5, <4>6 DEF Positions
    <3>5. QED BY <3>2, <3>3, <3>4
  <2>5. IF TypeAt(t, k, i) = "JUNCTION" THEN row = 0
        ELSE LET x == SideTable[TypeAt(t, k, i)] IN row \in Positions(v, x) /\ Key(v, x, row) = i
    BY <1>1, <2>3 DEF s
  <2> HIDE DEF row
  <2>6. Reindexed(v, q, k) /\ Indexed(q, k)
    BY <1>1, <1>5, <1>6, <2>1, <2>2, <2>4, <2>5, EntrySetIndexed
  <2>7. Kept(t, q)
    BY <1>5, <2>6, ReindexedFull
  <2>8. QED BY <1>1, <2>7 DEF Kept
<1>9. QED BY <1>7, <1>8

\* The side-table row x of object i is erased.
LEMMA RowErasedHalf ==
  ASSUME NEW m, Tables(m), NEW k \in DOMAIN TypeColumn, NEW i \in Positions(m, k),
         NEW t \in SideTables(k), NEW x \in Positions(m, t), Key(m, t, x) = i
  PROVE  /\ Half(EraseRows(m, t, {x}), k, i) /\ EraseRows(m, t, {x}).mat = m.mat
         /\ \A s \in Main : EraseRows(m, t, {x}).rows[s] = m.rows[s]
<1> DEFINE q == EraseRows(m, t, {x})
<1>1. Columns(m) /\ InRange(m) /\ Keyed(m, k) /\ OthersBacked(m, k)
  BY DEF Tables, Backed, OthersBacked
<1>2. /\ t \in DOMAIN Join /\ t \in Kinds /\ t \notin Main /\ t # k
      /\ Join[t] \in DOMAIN Refs /\ Refs[Join[t]][1] = t
      /\ k \in Kinds /\ k \in Main
  BY SideSchema
<1>3. Erased(m, q, t, Positions(m, t) \ {x})
  BY <1>1, <1>2, EraseRowsFacts
<1> HIDE DEF q
<1>4. /\ Count(q, t) = Count(m, t) - 1 /\ Positions(q, t) = 1 .. Count(m, t) - 1
      /\ \A j \in Positions(q, t) : Up(x, j) \in Positions(m, t) \ {x}
      /\ \A j \in Positions(q, t) : q.rows[t][j] = m.rows[t][Up(x, j)]
      /\ \A j \in Positions(q, t) : Key(q, t, j) = Key(m, t, Up(x, j))
  BY <1>1, <1>2, <1>3, ErasedOne DEF Key
<1>5. /\ Columns(q) /\ q.subtype_row = m.subtype_row /\ q.mat = m.mat
      /\ \A s \in Kinds \ {t} : q.rows[s] = m.rows[s]
      /\ \A c \in DOMAIN Refs : Refs[c][1] # t => q.ref[c] = m.ref[c]
      /\ \A c \in DOMAIN DataCols : q.data[c] = m.data[c]
  <2>1. \A c \in DOMAIN DataCols : DataCols[c][1] # t
    BY <1>2, DataSchema
  <2>2. QED BY <1>3, <2>1 DEF Erased
<1>6. \A s \in Main : q.rows[s] = m.rows[s]
  BY <1>2, <1>5 DEF Main
<1>7. InRange(q)
  <2>1. Drawn(m, q)
    BY <1>1, <1>2, <1>3, ErasedDrawn
  <2>2. \A s \in Main : Count(q, s) = Count(m, s)
    BY <1>6 DEF Count
  <2>3. QED BY <1>1, <1>5, <2>1, <2>2, DrawnInRange
<1>8. OthersBacked(q, k)
  <2>1. \A s \in Kinds \ (SideTables(k) \cup {k}) : q.rows[s] = m.rows[s]
    BY <1>5
  <2>2. \A s \in DOMAIN Join \ SideTables(k) : q.ref[Join[s]] = m.ref[Join[s]]
    <3>1. TAKE s \in DOMAIN Join \ SideTables(k)
    <3>2. s # t /\ Join[s] \in DOMAIN Refs /\ Refs[Join[s]][1] = s
      BY JoinSchema
    <3>3. QED BY <1>5, <3>2
  <2>3. \A o \in DOMAIN TypeColumn \ {k} : q.data[TypeColumn[o]] = m.data[TypeColumn[o]]
                                           /\ q.subtype_row[o] = m.subtype_row[o]
    BY <1>5, TypeSchema
  <2>4. QED BY <1>1, <2>1, <2>2, <2>3, OthersFrame
<1>9. /\ Positions(q, k) = Positions(m, k) /\ q.rows[k] = m.rows[k]
      /\ \A j : TypeAt(q, k, j) = TypeAt(m, k, j)
      /\ \A s, j : Owned(q, k, s, j) <=> Owned(m, k, s, j)
  BY <1>2, <1>5, TypeSchema DEF Positions, Count, TypeAt, Owned
<1>10. \A s \in SideTables(k) \ {t} :
         q.rows[s] = m.rows[s] /\ Positions(q, s) = Positions(m, s) /\ \A r : Key(q, s, r) = Key(m, s, r)
  <2>1. TAKE s \in SideTables(k) \ {t}
  <2>2. s \in Kinds /\ Join[s] \in DOMAIN Refs /\ Refs[Join[s]][1] = s
    BY SideSchema
  <2>3. q.rows[s] = m.rows[s] /\ q.ref[Join[s]] = m.ref[Join[s]]
    BY <1>5, <2>1, <2>2
  <2>4. QED BY <2>3 DEF Positions, Count, Key
<1>11. Count(m, t) \in Nat /\ Count(m, k) \in Nat /\ Positions(m, t) = 1 .. Count(m, t) /\ x \in Int
  BY <1>1, <1>2, ColumnsDomain DEF Positions
<1>12. KeyedBut(q, k, i)
  <2>1. \A j \in Positions(q, k) : TypeAt(q, k, j) \in TypesOf[k]
    BY <1>1, <1>9 DEF Keyed
  <2>2. ASSUME NEW s \in SideTables(k), NEW r \in Positions(q, s)
        PROVE  /\ Key(q, s, r) \in Positions(q, k) /\ Owned(q, k, s, Key(q, s, r))
               /\ q.rows[s][r] = q.rows[k][Key(q, s, r)] /\ Key(q, s, r) # i
    <3>1. CASE s # t
      <4>1. r \in Positions(m, s) /\ Key(q, s, r) = Key(m, s, r) /\ q.rows[s] = m.rows[s]
        BY <1>10, <2>2, <3>1
      <4>2. /\ Key(m, s, r) \in Positions(m, k) /\ Owned(m, k, s, Key(m, s, r))
            /\ m.rows[s][r] = m.rows[k][Key(m, s, r)]
        BY <1>1, <4>1 DEF Keyed
      <4>3. Owned(m, k, t, i)
        BY <1>1 DEF Keyed
      <4>4. Key(m, s, r) # i
        BY <3>1, <4>2, <4>3 DEF Owned
      <4>5. QED BY <1>9, <4>1, <4>2, <4>4
    <3>2. CASE s = t
      <4>1. Up(x, r) \in Positions(m, t) /\ Up(x, r) # x /\ Key(q, t, r) = Key(m, t, Up(x, r))
            /\ q.rows[t][r] = m.rows[t][Up(x, r)]
        BY <1>4, <2>2, <3>2
      <4>2. /\ Key(m, t, Up(x, r)) \in Positions(m, k) /\ Owned(m, k, t, Key(m, t, Up(x, r)))
            /\ m.rows[t][Up(x, r)] = m.rows[k][Key(m, t, Up(x, r))]
        BY <1>1, <4>1 DEF Keyed
      <4>3. Key(m, t, Up(x, r)) # i
        BY <1>1, <1>11, <4>1, KeyUnique
      <4>4. QED BY <1>9, <3>2, <4>1, <4>2, <4>3
    <3>3. QED BY <3>1, <3>2
  <2>3. ASSUME NEW s \in SideTables(k), NEW r1 \in Positions(q, s), NEW r2 \in Positions(q, s), r1 < r2
        PROVE  Key(q, s, r1) < Key(q, s, r2)
    <3>0. \A y1, y2 \in Positions(m, s) : y1 < y2 => Key(m, s, y1) < Key(m, s, y2)
      BY <1>1 DEF Keyed
    <3>1. CASE s # t
      BY <1>10, <2>3, <3>0, <3>1
    <3>2. CASE s = t
      <4>1. Up(x, r1) \in Positions(m, t) /\ Up(x, r2) \in Positions(m, t)
            /\ Key(q, t, r1) = Key(m, t, Up(x, r1)) /\ Key(q, t, r2) = Key(m, t, Up(x, r2))
        BY <1>4, <2>3, <3>2
      <4>2. r1 \in Int /\ r2 \in Int
        BY <1>4, <2>3, <3>2
      <4>3. Up(x, r1) < Up(x, r2)
        BY <1>11, <2>3, <4>2 DEF Up
      <4>4. QED BY <3>0, <3>2, <4>1, <4>3
    <3>3. QED BY <3>1, <3>2
  <2>4. ASSUME NEW s \in SideTables(k), NEW j \in Positions(q, k), j # i, Owned(q, k, s, j)
        PROVE  \E r \in Positions(q, s) : Key(q, s, r) = j
    <3>1. PICK y \in Positions(m, s) : Key(m, s, y) = j
      BY <1>1, <1>9, <2>4 DEF Keyed
    <3>2. CASE s # t
      BY <1>10, <3>1, <3>2
    <3>3. CASE s = t
      <4>1. y # x /\ y \in 1 .. Count(m, t)
        BY <1>11, <2>4, <3>1, <3>3
      <4>2. PICK r \in 1 .. Count(m, t) - 1 : Up(x, r) = y
        <5>1. CASE y < x
          <6>1. y \in 1 .. Count(m, t) - 1 /\ Up(x, y) = y
            BY <1>11, <4>1, <5>1 DEF Up, Positions
          <6>2. QED BY <6>1
        <5>2. CASE y > x
          <6>1. y - 1 \in 1 .. Count(m, t) - 1 /\ Up(x, y - 1) = y
            BY <1>11, <4>1, <5>2 DEF Up, Positions
          <6>2. QED BY <6>1
        <5>3. QED BY <1>11, <4>1, <5>1, <5>2
      <4>3. QED BY <1>4, <3>1, <3>3, <4>2
    <3>4. QED BY <3>2, <3>3
  <2>5. QED BY <2>1, <2>2, <2>3, <2>4 DEF KeyedBut
<1>13. i \in Positions(q, k)
  BY <1>9
<1>14. QED BY <1>5, <1>6, <1>7, <1>8, <1>12, <1>13 DEF Half, q

\* set_node_type and set_link_type keep the model sound, and its objects.
LEMMA TypeChanged ==
  ASSUME NEW m, Tables(m), NEW k \in DOMAIN TypeColumn, NEW i \in Positions(m, k),
         NEW type \in TypesOf[k], TypeAt(m, k, i) # type
  PROVE  Kept(m, set_type(m, k, i, type))
<1> DEFINE old == TypeAt(m, k, i)
           existing == m.subtype_row[k][i]
           w == WithoutSubtype(m, old, existing)
           erased == existing # 0
           q == set_type(m, k, i, type)
<1>1. Columns(m) /\ InRange(m) /\ Keyed(m, k) /\ Indexed(m, k) /\ OthersBacked(m, k)
  BY DEF Tables, Backed, OthersBacked
<1>2. Sized(m, k, i) = m
  <2>1. Len(m.subtype_row[k]) = Count(m, k) /\ Count(m, k) \in Nat
    BY <1>1, ColumnFacts DEF Indexed
  <2>2. i <= Len(m.subtype_row[k])
    BY <2>1 DEF Positions
  <2>3. QED BY <2>2 DEF Sized
<1>3. q = Settled(WithSubtype([w EXCEPT !.data[TypeColumn[k]][i] = type], k, i, type),
                  k, i, type, erased)
  BY <1>2 DEF set_type, Typed, TypeAt
<1>4. old \in TypesOf[k]
  BY <1>1 DEF Keyed
<1>5. IF old = "JUNCTION" THEN existing = 0
      ELSE existing \in Positions(m, SideTable[old]) /\ Key(m, SideTable[old], existing) = i
  BY <1>1 DEF Indexed
<1> HIDE DEF q
<1>6. CASE existing = 0
  <2>1. w = m
    BY <1>6 DEF WithoutSubtype
  <2>2. old = "JUNCTION"
    BY <1>5, <1>6 DEF Positions
  <2>3. KeyedBut(m, k, i)
    <3>1. \A t \in SideTables(k) : \A r \in Positions(m, t) : Key(m, t, r) # i
      BY <1>1, <2>2 DEF Keyed, Owned
    <3>2. QED BY <1>1, <3>1 DEF Keyed, KeyedBut
  <2>4. Half(m, k, i)
    BY <1>1, <2>3 DEF Half
  <2>5. IndexedBut(m, k, i)
    BY <1>1 DEF Indexed, IndexedBut
  <2>6. q = Settled(WithSubtype([m EXCEPT !.data[TypeColumn[k]][i] = type], k, i, type),
                    k, i, type, erased)
    BY <1>3, <2>1
  <2> HIDE DEF w, erased
  <2>7. erased \in BOOLEAN
    BY DEF erased
  <2>8. Kept(m, q)
    BY <2>4, <2>5, <2>6, <2>7, SettledSound, Zenon
  <2>9. QED BY <2>8 DEF q
<1>7. CASE existing # 0
  <2>1. w = EraseRows(m, SideTable[old], {existing}) /\ SideTable[old] \in SideTables(k)
        /\ existing \in Positions(m, SideTable[old]) /\ Key(m, SideTable[old], existing) = i
    BY <1>4, <1>5, <1>7, TypeSchema DEF WithoutSubtype
  <2> HIDE DEF w, existing, old
  <2>2. Half(w, k, i) /\ w.mat = m.mat /\ \A s \in Main : w.rows[s] = m.rows[s]
    BY <2>1, RowErasedHalf
  <2>3. erased \in BOOLEAN /\ erased
    BY <1>7
  <2> HIDE DEF erased
  <2>4. Kept(w, q)
    BY <1>3, <2>2, <2>3, SettledSound, Zenon
  <2>5. QED BY <2>2, <2>4 DEF Kept, q
<1>8. QED BY <1>6, <1>7

-----------------------------------------------------------------------------
(* Adding nodes and links *)

\* The object of a new row, before it has an entry in the index.
Unsettled(m, w, k, id) ==
  /\ Half(w, k, Count(m, k) + 1) /\ IndexedBut(w, k, Count(m, k) + 1) /\ w.mat = m.mat
  /\ \A t \in Main \ {k} : w.rows[t] = m.rows[t]
  /\ Count(w, k) = Count(m, k) + 1
  /\ \A j \in Positions(w, k) : w.rows[k][j] = IF j = Count(m, k) + 1 THEN id ELSE m.rows[k][j]

\* A new node or link begins without a type, a row or an index.
LEMMA SizedUnsettled ==
  ASSUME NEW m, Tables(m), NEW k \in DOMAIN TypeColumn, NEW id
  PROVE  /\ Unsettled(m, Sized(GrowRows(m, k, id), k, Count(m, k) + 1), k, id)
         /\ Sized(GrowRows(m, k, id), k, Count(m, k) + 1).subtype_row[k][Count(m, k) + 1] = 0
<1> DEFINE g == GrowRows(m, k, id)
           n == Count(m, k) + 1
           w == Sized(g, k, n)
           tc == TypeColumn[k]
<1>1. /\ Columns(m) /\ InRange(m) /\ Keyed(m, k) /\ Indexed(m, k) /\ OthersBacked(m, k)
      /\ k \in Kinds /\ k \in Main /\ k \notin SideTables(k) /\ Count(m, k) \in Nat
      /\ DOMAIN m.subtype_row = DOMAIN TypeColumn
  BY SideSchema, TablesParts, ColumnsDomain DEF Backed, OthersBacked
<1>2. /\ Columns(g) /\ InRange(g) /\ g.subtype_row = m.subtype_row /\ g.mat = m.mat
      /\ \A t \in Kinds \ {k} : g.rows[t] = m.rows[t]
      /\ Count(g, k) = n /\ n \in Nat
      /\ \A j \in Positions(g, k) : g.rows[k][j] = IF j = n THEN id ELSE m.rows[k][j]
      /\ \A c \in DOMAIN Refs : Refs[c][1] # k => g.ref[c] = m.ref[c]
      /\ \A c \in DOMAIN DataCols :
           g.data[c] = IF DataCols[c][1] = k THEN Extended(m.data[c], n, DataCols[c][2]) ELSE m.data[c]
  BY <1>1, GrowFacts, GrowInRange
<1>3. /\ IsColumn(m.subtype_row[k], n - 1) /\ Len(m.subtype_row[k]) = n - 1 /\ n - 1 = Count(m, k)
  <2>1. n - 1 = Count(m, k)
    BY <1>1
  <2>2. IsColumn(m.subtype_row[k], Count(m, k))
    BY <1>1 DEF Indexed
  <2> HIDE DEF n
  <2>3. QED BY <2>1, <2>2, ColumnFacts
<1> HIDE DEF g
<1>4. w = [g EXCEPT !.subtype_row[k] = Append(m.subtype_row[k], 0)]
  BY <1>1, <1>2, <1>3 DEF Sized
<1> HIDE DEF w
<1>5. /\ Reindexed(g, w, k) /\ w.subtype_row[k] = Append(m.subtype_row[k], 0)
  <2>1. DOMAIN g = {"rows", "ref", "name", "data", "subtype_row", "mat"}
    BY <1>2, ColumnsDomain
  <2>2. QED BY <1>1, <1>2, <1>4, <2>1 DEF Reindexed
<1>6. /\ IsColumn(w.subtype_row[k], n) /\ w.subtype_row[k][n] = 0
      /\ \A j \in 1 .. n - 1 : w.subtype_row[k][j] = m.subtype_row[k][j]
  <2> DEFINE s == m.subtype_row[k]
  <2>1. IsColumn(s, n - 1) /\ Len(s) = n - 1 /\ s \in Seq({s[i] : i \in 1 .. n - 1})
    BY <1>3, ColumnFacts
  <2> HIDE DEF s
  <2>2. Append(s, 0) = [j \in 1 .. n |-> IF j = n THEN 0 ELSE s[j]]
    <3> DEFINE S == {s[i] : i \in 1 .. n - 1} \cup {0}
    <3>1. s \in Seq(S) /\ 0 \in S
      BY <2>1
    <3> HIDE DEF S
    <3>2. Len(s) + 1 = n
      BY <1>2, <2>1
    <3>3. /\ Append(s, 0) \in Seq(S) /\ Len(Append(s, 0)) = n
          /\ \A j \in 1 .. Len(s) : Append(s, 0)[j] = s[j]
          /\ Append(s, 0)[n] = 0
      BY <3>1, <3>2, AppendProperties
    <3>4. Append(s, 0) = [j \in 1 .. n |-> Append(s, 0)[j]]
      <4> DEFINE a == Append(s, 0)
      <4>1. a \in Seq(S) /\ Len(a) = n
        BY <3>3
      <4> HIDE DEF a
      <4>2. a = [j \in 1 .. Len(a) |-> a[j]]
        BY <4>1
      <4>3. QED BY <4>1, <4>2 DEF a
    <3>5. \A j \in 1 .. n : Append(s, 0)[j] = IF j = n THEN 0 ELSE s[j]
      BY <1>2, <2>1, <3>3
    <3>6. QED BY <3>4, <3>5
  <2>3. QED BY <1>2, <1>5, <2>2 DEF IsColumn, s
<1>7. /\ Columns(w) /\ w.rows = g.rows /\ w.ref = g.ref /\ w.data = g.data /\ w.mat = m.mat
      /\ Count(w, k) = n /\ Positions(w, k) = 1 .. n /\ Positions(m, k) = 1 .. n - 1
  <2>1. Columns(w)
    BY <1>2, <1>5, ReindexedFacts
  <2>2. w.rows = g.rows /\ w.ref = g.ref /\ w.data = g.data /\ w.mat = m.mat
    BY <1>2, <1>5 DEF Reindexed
  <2>3. Count(w, k) = n
    BY <1>2, <2>2 DEF Count
  <2> HIDE DEF n
  <2>4. Positions(w, k) = 1 .. n /\ Positions(m, k) = 1 .. n - 1
    BY <1>3, <2>3 DEF Positions
  <2>5. QED BY <2>1, <2>2, <2>3, <2>4
<1>8. InRange(w)
  BY <1>2, <1>7 DEF InRange, Positions, Count
<1>9. tc \in DOMAIN DataCols /\ DataCols[tc][1] = k /\ tc \notin NotErased
  BY TypeSchema
<1>10. /\ \A j \in 1 .. n - 1 : TypeAt(w, k, j) = TypeAt(m, k, j)
       /\ TypeAt(w, k, n) = DataCols[tc][2]
  <2>1. w.data[tc] = Extended(m.data[tc], n, DataCols[tc][2])
    BY <1>2, <1>7, <1>9
  <2>2. IsColumn(m.data[tc], n - 1) /\ Len(m.data[tc]) = n - 1
    <3>1. IsColumn(m.data[tc], Len(m.data[tc])) /\ Len(m.data[tc]) = Count(m, k)
      BY <1>1, <1>9 DEF Columns
    <3>2. QED BY <1>3, <3>1
  <2>3. QED BY <1>2, <2>1, <2>2 DEF Extended, TypeAt
<1>11. DataCols[tc][2] \in TypesOf[k]
  <2>1. k = "nodes" \/ k = "links"
    BY TypeSchema
  <2>2. CASE k = "nodes"
    BY <2>2 DEF TypeColumn, DataCols, TypesOf, NodeTypes
  <2>3. CASE k = "links"
    BY <2>3 DEF TypeColumn, DataCols, TypesOf, LinkTypes
  <2>4. QED BY <2>1, <2>2, <2>3
<1>12. \A s \in SideTables(k) : /\ w.rows[s] = m.rows[s] /\ Positions(w, s) = Positions(m, s)
                                /\ \A r : Key(w, s, r) = Key(m, s, r)
  <2>1. TAKE s \in SideTables(k)
  <2>2. s \in Kinds /\ s # k /\ Join[s] \in DOMAIN Refs /\ Refs[Join[s]][1] = s
    BY <1>1, SideSchema
  <2>3. w.rows[s] = m.rows[s] /\ w.ref[Join[s]] = m.ref[Join[s]]
    BY <1>2, <1>7, <2>2
  <2>4. QED BY <2>3 DEF Positions, Count, Key
<1>13. \A j \in 1 .. n - 1 : \A s : Owned(w, k, s, j) <=> Owned(m, k, s, j)
  BY <1>10 DEF Owned
<1>14. \A j \in 1 .. n - 1 : w.rows[k][j] = m.rows[k][j]
  <2>1. \A j \in 1 .. n : w.rows[k][j] = IF j = n THEN id ELSE m.rows[k][j]
    BY <1>2, <1>7 DEF Positions, Count
  <2>2. \A j \in 1 .. n - 1 : j \in 1 .. n /\ j # n
    BY <1>2
  <2>3. QED BY <2>1, <2>2
<1>15. KeyedBut(w, k, n)
  <2>1. ASSUME NEW j \in Positions(w, k) PROVE TypeAt(w, k, j) \in TypesOf[k]
    <3>1. j \in 1 .. n
      BY <1>7
    <3>2. CASE j = n
      BY <1>10, <1>11, <3>2
    <3>3. CASE j # n
      <4>1. j \in 1 .. n - 1
        BY <1>2, <3>1, <3>3
      <4>2. QED BY <1>1, <1>7, <1>10, <4>1 DEF Keyed
    <3>4. QED BY <3>2, <3>3
  <2>2. ASSUME NEW s \in SideTables(k), NEW r \in Positions(w, s)
        PROVE  /\ Key(w, s, r) \in Positions(w, k) /\ Owned(w, k, s, Key(w, s, r))
               /\ w.rows[s][r] = w.rows[k][Key(w, s, r)] /\ Key(w, s, r) # n
    <3>1. r \in Positions(m, s) /\ Key(w, s, r) = Key(m, s, r) /\ w.rows[s] = m.rows[s]
      BY <1>12
    <3>2. /\ Key(m, s, r) \in Positions(m, k) /\ Owned(m, k, s, Key(m, s, r))
          /\ m.rows[s][r] = m.rows[k][Key(m, s, r)]
      BY <1>1, <3>1 DEF Keyed
    <3>3. Key(m, s, r) \in 1 .. n - 1
      BY <1>7, <3>2
    <3>4. Key(m, s, r) \in 1 .. n /\ Key(m, s, r) # n
      BY <1>2, <3>3
    <3>5. QED BY <1>7, <1>13, <1>14, <3>1, <3>2, <3>3, <3>4
  <2>3. ASSUME NEW s \in SideTables(k), NEW r1 \in Positions(w, s), NEW r2 \in Positions(w, s), r1 < r2
        PROVE  Key(w, s, r1) < Key(w, s, r2)
    BY <1>1, <1>12, <2>3 DEF Keyed
  <2>4. ASSUME NEW s \in SideTables(k), NEW j \in Positions(w, k), j # n, Owned(w, k, s, j)
        PROVE  \E r \in Positions(w, s) : Key(w, s, r) = j
    <3>1. j \in 1 .. n - 1
      BY <1>2, <1>7, <2>4
    <3>2. Owned(m, k, s, j) /\ j \in Positions(m, k)
      BY <1>7, <1>13, <2>4, <3>1
    <3>3. PICK r \in Positions(m, s) : Key(m, s, r) = j
      BY <1>1, <3>2 DEF Keyed
    <3>4. QED BY <1>12, <3>3
  <2>5. QED BY <2>1, <2>2, <2>3, <2>4 DEF KeyedBut
<1>16. IndexedBut(w, k, n)
  <2>1. ASSUME NEW j \in Positions(w, k), j # n
        PROVE  IF TypeAt(w, k, j) = "JUNCTION" THEN w.subtype_row[k][j] = 0
               ELSE LET t == SideTable[TypeAt(w, k, j)]
                    IN w.subtype_row[k][j] \in Positions(w, t) /\ Key(w, t, w.subtype_row[k][j]) = j
    <3>1. j \in 1 .. n - 1 /\ j \in Positions(m, k)
      BY <1>2, <1>7, <2>1
    <3>2. w.subtype_row[k][j] = m.subtype_row[k][j] /\ TypeAt(w, k, j) = TypeAt(m, k, j)
      BY <1>6, <1>10, <3>1
    <3>3. IF TypeAt(m, k, j) = "JUNCTION" THEN m.subtype_row[k][j] = 0
          ELSE LET t == SideTable[TypeAt(m, k, j)]
               IN m.subtype_row[k][j] \in Positions(m, t) /\ Key(m, t, m.subtype_row[k][j]) = j
      BY <1>1, <3>1 DEF Indexed
    <3>4. TypeAt(m, k, j) # "JUNCTION" => SideTable[TypeAt(m, k, j)] \in SideTables(k)
      BY <1>1, <3>1, TypeSchema DEF Keyed
    <3>5. QED BY <1>12, <3>2, <3>3, <3>4
  <2>2. QED BY <1>6, <1>7, <2>1 DEF IndexedBut
<1>17. OthersBacked(w, k)
  <2>1. \A s \in Kinds \ (SideTables(k) \cup {k}) : w.rows[s] = m.rows[s]
    BY <1>2, <1>7
  <2>2. ASSUME NEW s \in DOMAIN Join \ SideTables(k)
        PROVE  w.ref[Join[s]] = m.ref[Join[s]]
    <3>1. Join[s] \in DOMAIN Refs /\ Refs[Join[s]][1] = s /\ s # k
      BY JoinSchema, TypeSchema
    <3>2. QED BY <1>2, <1>7, <3>1
  <2>3. ASSUME NEW o \in DOMAIN TypeColumn \ {k}
        PROVE  w.data[TypeColumn[o]] = m.data[TypeColumn[o]] /\ w.subtype_row[o] = m.subtype_row[o]
    <3>1. TypeColumn[o] \in DOMAIN DataCols /\ DataCols[TypeColumn[o]][1] # k
      BY TypeSchema
    <3>2. w.data[TypeColumn[o]] = m.data[TypeColumn[o]]
      BY <1>2, <1>7, <3>1, Zenon
    <3>3. w.subtype_row[o] = m.subtype_row[o]
      BY <1>1, <1>2, <1>5 DEF Reindexed
    <3>4. QED BY <3>2, <3>3
  <2>4. QED BY <1>1, <2>1, <2>2, <2>3, OthersFrame
<1>18. \A t \in Main \ {k} : w.rows[t] = m.rows[t]
  BY <1>2, <1>7 DEF Main
<1>19. \A j \in Positions(w, k) : w.rows[k][j] = IF j = n THEN id ELSE m.rows[k][j]
  BY <1>2, <1>7 DEF Positions, Count
<1>20. n \in Positions(w, k)
  BY <1>1, <1>7
<1>21. QED BY <1>6, <1>7, <1>8, <1>15, <1>16, <1>17, <1>18, <1>19, <1>20 DEF Unsettled, Half, w, g

\* Object id is new in table k, the last one.
With(m, q, k, id) ==
  /\ Tables(q) /\ q.mat = m.mat
  /\ \A t \in Main \ {k} : q.rows[t] = m.rows[t]
  /\ Count(q, k) = Count(m, k) + 1
  /\ \A j \in Positions(q, k) : q.rows[k][j] = IF j = Count(m, k) + 1 THEN id ELSE m.rows[k][j]

\* swmm_node_add and swmm_link_add: one object more, the others as they were
LEMMA ObjectGrown ==
  ASSUME NEW m, Tables(m), NEW k \in DOMAIN TypeColumn, NEW id, NEW type \in TypesOf[k]
  PROVE  With(m, set_type(GrowRows(m, k, id), k, Count(m, k) + 1, type), k, id)
<1> DEFINE n == Count(m, k) + 1
           w == Sized(GrowRows(m, k, id), k, n)
           q == set_type(GrowRows(m, k, id), k, n, type)
<1>1. Unsettled(m, w, k, id) /\ w.subtype_row[k][n] = 0
  BY SizedUnsettled
<1>2. q = Typed(w, k, n, type)
  BY DEF set_type
<1> HIDE DEF w, q
<1>3. q = Settled(WithSubtype([w EXCEPT !.data[TypeColumn[k]][n] = type], k, n, type),
                  k, n, type, FALSE)
  BY <1>1, <1>2 DEF Typed, WithoutSubtype
<1>4. Half(w, k, n) /\ IndexedBut(w, k, n)
  BY <1>1 DEF Unsettled
<1>5. Kept(w, q)
  <2>1. FALSE \in BOOLEAN
    OBVIOUS
  <2> HIDE DEF n
  <2>2. QED BY <1>3, <1>4, <2>1, SettledSound, Zenon
<1>6. k \in Main
  BY SideSchema
<1>7. Count(q, k) = Count(w, k) /\ q.rows[k] = w.rows[k] /\ Positions(q, k) = Positions(w, k)
  BY <1>5, <1>6 DEF Kept, Count, Positions
<1>8. QED BY <1>1, <1>5, <1>7 DEF Unsettled, Kept, With, q

-----------------------------------------------------------------------------
(* Setting single entries *)

\* One entry of a column is overwritten.
SetRef(m, c, i, v) == [m EXCEPT !.ref[c][i] = v]
SetName(m, c, i, v) == [m EXCEPT !.name[c][i] = v]
SetData(m, c, i, v) == [m EXCEPT !.data[c][i] = v]

\* The same objects, of the same types.
Same(m, q) ==
  /\ Tables(q) /\ q.rows = m.rows /\ q.mat = m.mat
  /\ \A k \in DOMAIN TypeColumn : q.data[TypeColumn[k]] = m.data[TypeColumn[k]]

\* Two edits that keep the objects and their types
LEMMA SameTransitive ==
  ASSUME NEW m, NEW p, NEW q, Same(m, p), Same(p, q)
  PROVE  Same(m, q)
BY DEF Same

\* The same objects of the same types: in particular, the same counts
LEMMA SameKept ==
  ASSUME NEW m, NEW q, Same(m, q)
  PROVE  /\ Kept(m, q)
         /\ \A t : Positions(q, t) = Positions(m, t) /\ Count(q, t) = Count(m, t)
         /\ \A k \in DOMAIN TypeColumn : \A i : TypeAt(q, k, i) = TypeAt(m, k, i)
BY DEF Same, Kept, Positions, Count, TypeAt

\* Setting one reference to an object there is
LEMMA RefSet ==
  ASSUME NEW m, Tables(m), NEW c \in DOMAIN Refs \ JoinCols, NEW i \in Positions(m, Refs[c][1]),
         NEW v, c \in Unkept \/ v \in 0 .. Count(m, Refs[c][2])
  PROVE  /\ Same(m, SetRef(m, c, i, v))
         /\ SetRef(m, c, i, v).data = m.data /\ SetRef(m, c, i, v).name = m.name
         /\ \A d \in DOMAIN Refs : d # c => SetRef(m, c, i, v).ref[d] = m.ref[d]
         /\ \A r \in Positions(m, Refs[c][1]) :
              SetRef(m, c, i, v).ref[c][r] = IF r = i THEN v ELSE m.ref[c][r]
<1> DEFINE q == SetRef(m, c, i, v)
           o == [m.ref[c] EXCEPT ![i] = v]
<1>1. Columns(m)
  BY TablesParts
<1>2. /\ DOMAIN m = {"rows", "ref", "name", "data", "subtype_row", "mat"}
      /\ DOMAIN m.ref = DOMAIN Refs /\ DOMAIN m.name = DOMAIN NameRefs /\ DOMAIN m.data = DOMAIN DataCols
  BY <1>1, ColumnsDomain
<1>3. /\ DOMAIN q = DOMAIN m /\ q.rows = m.rows /\ q.subtype_row = m.subtype_row /\ q.mat = m.mat
      /\ q.name = m.name /\ q.data = m.data /\ q.ref = [m.ref EXCEPT ![c] = o]
  BY <1>2 DEF SetRef
<1> HIDE DEF q
<1>4. /\ IsColumn(o, Count(m, Refs[c][1]))
      /\ \A r \in Positions(m, Refs[c][1]) : o[r] = IF r = i THEN v ELSE m.ref[c][r]
  <2>1. IsColumn(m.ref[c], Count(m, Refs[c][1]))
    BY <1>1 DEF Columns
  <2>2. QED BY <2>1 DEF IsColumn, Positions
<1> HIDE DEF o
<1>5. /\ DOMAIN q.ref = DOMAIN Refs /\ q.ref[c] = o
      /\ \A d \in DOMAIN Refs : d # c => q.ref[d] = m.ref[d]
  BY <1>2, <1>3
<1>6. Retouched(m, q)
  <2>1. \A d \in DOMAIN Refs :
          q.ref[d] = m.ref[d] \/ (d \notin JoinCols /\ IsColumn(q.ref[d], Count(m, Refs[d][1])))
    BY <1>4, <1>5
  <2>2. QED BY <1>1, <1>2, <1>3, <1>5, <2>1, RetouchedSame
<1>7. ASSUME NEW d \in DOMAIN Refs \ Unkept, NEW r \in Positions(m, Refs[d][1])
      PROVE  q.ref[d][r] \in 0 .. Count(m, Refs[d][2])
  <2>1. m.ref[d][r] \in 0 .. Count(m, Refs[d][2])
    BY DEF Tables, InRange
  <2>2. QED BY <1>4, <1>5, <2>1
<1>8. Tables(q)
  BY <1>6, <1>7, RetouchedTables
<1>9. QED BY <1>3, <1>4, <1>5, <1>8 DEF Same, q

\* Setting one name
LEMMA NameSet ==
  ASSUME NEW m, Tables(m), NEW c \in DOMAIN NameRefs, NEW i \in Positions(m, NameRefs[c][1]), NEW v
  PROVE  Same(m, SetName(m, c, i, v))
<1> DEFINE q == SetName(m, c, i, v)
           o == [m.name[c] EXCEPT ![i] = v]
<1>1. Columns(m)
  BY TablesParts
<1>2. /\ DOMAIN m = {"rows", "ref", "name", "data", "subtype_row", "mat"}
      /\ DOMAIN m.ref = DOMAIN Refs /\ DOMAIN m.name = DOMAIN NameRefs /\ DOMAIN m.data = DOMAIN DataCols
  BY <1>1, ColumnsDomain
<1>3. /\ DOMAIN q = DOMAIN m /\ q.rows = m.rows /\ q.subtype_row = m.subtype_row /\ q.mat = m.mat
      /\ q.ref = m.ref /\ q.data = m.data /\ q.name = [m.name EXCEPT ![c] = o]
  BY <1>2 DEF SetName
<1> HIDE DEF q
<1>4. IsColumn(o, Count(m, NameRefs[c][1]))
  <2>1. IsColumn(m.name[c], Count(m, NameRefs[c][1]))
    BY <1>1 DEF Columns
  <2>2. QED BY <2>1 DEF IsColumn
<1> HIDE DEF o
<1>5. DOMAIN q.name = DOMAIN NameRefs /\ q.name[c] = o
      /\ \A d \in DOMAIN NameRefs : d # c => q.name[d] = m.name[d]
  BY <1>2, <1>3
<1>6. Retouched(m, q)
  <2>1. \A d \in DOMAIN NameRefs :
          q.name[d] = m.name[d] \/ IsColumn(q.name[d], Count(m, NameRefs[d][1]))
    BY <1>4, <1>5
  <2>2. QED BY <1>1, <1>2, <1>3, <1>5, <2>1, RetouchedSame
<1>7. \A d \in DOMAIN Refs \ Unkept : \A r \in Positions(m, Refs[d][1]) :
        q.ref[d][r] \in 0 .. Count(m, Refs[d][2])
  BY <1>3 DEF Tables, InRange
<1>8. QED BY <1>3, <1>6, <1>7, RetouchedTables DEF Same, q

\* Setting one value that is not a type
LEMMA DataSet ==
  ASSUME NEW m, Tables(m), NEW c \in DOMAIN DataCols \ {"node_type", "link_type"},
         NEW i \in Positions(m, DataCols[c][1]), NEW v
  PROVE  Same(m, SetData(m, c, i, v)) /\ SetData(m, c, i, v).ref = m.ref
<1> DEFINE q == SetData(m, c, i, v)
           o == [m.data[c] EXCEPT ![i] = v]
<1>1. Columns(m)
  BY TablesParts
<1>2. /\ DOMAIN m = {"rows", "ref", "name", "data", "subtype_row", "mat"}
      /\ DOMAIN m.ref = DOMAIN Refs /\ DOMAIN m.name = DOMAIN NameRefs /\ DOMAIN m.data = DOMAIN DataCols
      /\ IsColumn(m.data[c], Len(m.data[c]))
  BY <1>1, ColumnsDomain
<1>3. /\ DOMAIN q = DOMAIN m /\ q.rows = m.rows /\ q.subtype_row = m.subtype_row /\ q.mat = m.mat
      /\ q.name = m.name /\ q.ref = m.ref /\ q.data = [m.data EXCEPT ![c] = o]
  BY <1>2 DEF SetData
<1> HIDE DEF q
<1>4. IsColumn(o, Len(m.data[c]))
  BY <1>2 DEF IsColumn
<1> HIDE DEF o
<1>5. DOMAIN q.data = DOMAIN DataCols /\ q.data[c] = o
      /\ \A d \in DOMAIN DataCols : d # c => q.data[d] = m.data[d]
  BY <1>2, <1>3
<1>6. Retouched(m, q)
  <2>1. \A d \in DOMAIN DataCols :
          q.data[d] = m.data[d]
            \/ (d \notin {"node_type", "link_type"} /\ IsColumn(q.data[d], Len(m.data[d])))
    BY <1>4, <1>5
  <2>2. QED BY <1>1, <1>2, <1>3, <1>5, <2>1, RetouchedSame
<1>7. \A d \in DOMAIN Refs \ Unkept : \A r \in Positions(m, Refs[d][1]) :
        q.ref[d][r] \in 0 .. Count(m, Refs[d][2])
  BY <1>3 DEF Tables, InRange
<1>8. Tables(q)
  BY <1>6, <1>7, RetouchedTables
<1>9. \A k \in DOMAIN TypeColumn : q.data[TypeColumn[k]] = m.data[TypeColumn[k]]
  <2>1. TAKE k \in DOMAIN TypeColumn
  <2>2. TypeColumn[k] \in DOMAIN DataCols /\ TypeColumn[k] \in {"node_type", "link_type"}
    BY TypeSchema DEF TypeColumn
  <2>3. QED BY <1>5, <2>2
<1>10. QED BY <1>3, <1>8, <1>9 DEF Same, q

-----------------------------------------------------------------------------
(* Conversions, splits and fusions *)

\* Two edits that keep the objects
LEMMA KeptTransitive ==
  ASSUME NEW m, NEW p, NEW q, Kept(m, p), Kept(p, q)
  PROVE  Kept(m, q)
BY DEF Kept

\* The columns of types and what surrounds them
LEMMA ColumnTables ==
  /\ "node_type" = TypeColumn["nodes"] /\ "link_type" = TypeColumn["links"]
  /\ "nodes" \in DOMAIN TypeColumn /\ "links" \in DOMAIN TypeColumn
  /\ "is_virtual" \in DOMAIN DataCols \ {"node_type", "link_type"} /\ DataCols["is_virtual"][1] = "nodes"
  /\ "xsect_shape" \in DOMAIN DataCols \ {"node_type", "link_type"} /\ DataCols["xsect_shape"][1] = "links"
  /\ "xsect_geom" \in DOMAIN DataCols \ {"node_type", "link_type"} /\ DataCols["xsect_geom"][1] = "links"
  /\ TypesOf["nodes"] = NodeTypes /\ TypesOf["links"] = LinkTypes
<1>1. /\ "node_type" = TypeColumn["nodes"] /\ "link_type" = TypeColumn["links"]
      /\ "nodes" \in DOMAIN TypeColumn /\ "links" \in DOMAIN TypeColumn
  BY DEF TypeColumn
<1>2. TypesOf["nodes"] = NodeTypes /\ TypesOf["links"] = LinkTypes
  BY DEF TypesOf
<1>3. /\ "is_virtual" \in DOMAIN DataCols /\ DataCols["is_virtual"][1] = "nodes"
      /\ "xsect_shape" \in DOMAIN DataCols /\ DataCols["xsect_shape"][1] = "links"
      /\ "xsect_geom" \in DOMAIN DataCols /\ DataCols["xsect_geom"][1] = "links"
  BY DataTables
<1>4. QED BY <1>1, <1>2, <1>3

\* The ends of links and the outlets of subcatchments
LEMMA EndSchema ==
  /\ \A c \in {"node1", "node2"} : /\ c \in DOMAIN Refs \ JoinCols /\ c \notin Unkept
                                   /\ Refs[c][1] = "links" /\ Refs[c][2] = "nodes"
  /\ "xsect_curve" \in DOMAIN Refs \ JoinCols /\ "xsect_curve" \in Unkept /\ Refs["xsect_curve"][1] = "links"
  /\ "outlet_node" \in DOMAIN Refs \ JoinCols /\ "outlet_node" \notin Unkept
  /\ Refs["outlet_node"][1] = "subcatches" /\ Refs["outlet_node"][2] = "nodes"
  /\ "xsect_name" \in DOMAIN NameRefs /\ NameRefs["xsect_name"][1] = "links"
<1>1. /\ Refs["node1"] = <<"links", "nodes">> /\ Refs["node2"] = <<"links", "nodes">>
      /\ Refs["xsect_curve"] = <<"links", "transects">> /\ Refs["outlet_node"] = <<"subcatches", "nodes">>
      /\ {"node1", "node2", "xsect_curve", "outlet_node"} \subseteq DOMAIN Refs
  BY DEF Refs
<1>2. "xsect_name" \in DOMAIN NameRefs /\ NameRefs["xsect_name"][1] = "links"
  BY DEF NameRefs
<1>3. /\ {"node1", "node2", "outlet_node", "xsect_curve"} \cap JoinCols = {}
      /\ {"node1", "node2", "outlet_node"} \cap Unkept = {} /\ "xsect_curve" \in Unkept
  BY KeptSchema
<1>4. QED BY <1>1, <1>2, <1>3

\* Converting a node, with the outlets that have to go
LEMMA NodeConverted ==
  ASSUME NEW m, Tables(m), NEW n \in Positions(m, "nodes"), NEW type \in NodeTypes,
         m.data.node_type[n] # type
  PROVE  Kept(m, convert_node(m, n, type))
<1> DEFINE p == SetData(m, "is_virtual", n, FALSE)
<1>1. Same(m, p)
  BY DataSet, ColumnTables
<1>2. convert_node(m, n, type) = set_type(p, "nodes", n, type)
  BY DEF convert_node, SetData
<1> HIDE DEF p
<1>3. /\ Tables(p) /\ Kept(m, p) /\ n \in Positions(p, "nodes")
      /\ TypeAt(p, "nodes", n) = TypeAt(m, "nodes", n)
  BY <1>1, SameKept, ColumnTables DEF Same
<1>4. TypeAt(m, "nodes", n) # type
  BY ColumnTables DEF TypeAt
<1>5. Kept(p, set_type(p, "nodes", n, type))
  BY <1>3, <1>4, ColumnTables, TypeChanged
<1>6. QED BY <1>2, <1>3, <1>5, KeptTransitive

\* Converting a link, with the cross-section that it loses
LEMMA LinkConverted ==
  ASSUME NEW m, Tables(m), NEW l \in Positions(m, "links"), NEW type \in LinkTypes,
         m.data.link_type[l] # type
  PROVE  Kept(m, convert_link(m, l, type))
<1> DEFINE old == m.data.link_type[l]
           bare == SetRef(SetData(m, "xsect_shape", l, "CIRCULAR"), "xsect_curve", l, 0)
           unnamed == SetName(m, "xsect_name", l, NoName)
           p == CASE old = "CONDUIT" -> bare [] old = "PUMP" -> unnamed [] OTHER -> m
           q == set_type(p, "links", l, type)
<1>1. convert_link(m, l, type) = IF type = "CONDUIT" THEN SetData(q, "xsect_shape", l, "CIRCULAR") ELSE q
  BY DEF convert_link, SetRef, SetData, SetName
<1>2. Same(m, bare)
  <2> DEFINE s == SetData(m, "xsect_shape", l, "CIRCULAR")
  <2>1. Same(m, s)
    BY DataSet, ColumnTables
  <2> HIDE DEF s
  <2>2. Tables(s) /\ l \in Positions(s, "links")
    BY <2>1, SameKept DEF Same
  <2>3. Same(s, SetRef(s, "xsect_curve", l, 0))
    BY <2>2, RefSet, EndSchema
  <2>4. QED BY <2>1, <2>3, SameTransitive DEF s
<1>3. Same(m, unnamed)
  BY NameSet, EndSchema
<1> HIDE DEF bare, unnamed
<1>4. Same(m, m)
  BY DEF Same
<1>5. Same(m, p)
  <2>1. CASE old = "CONDUIT"
    BY <1>2, <2>1
  <2>2. CASE old = "PUMP"
    BY <1>3, <2>2
  <2>3. CASE old # "CONDUIT" /\ old # "PUMP"
    BY <1>4, <2>3
  <2>4. QED BY <2>1, <2>2, <2>3
<1> HIDE DEF p
<1>6. /\ Tables(p) /\ Kept(m, p) /\ l \in Positions(p, "links")
      /\ TypeAt(p, "links", l) = TypeAt(m, "links", l)
  BY <1>5, SameKept, ColumnTables DEF Same
<1>7. TypeAt(m, "links", l) # type
  BY ColumnTables DEF TypeAt
<1>8. Kept(p, q)
  BY <1>6, <1>7, ColumnTables, TypeChanged
<1> HIDE DEF q
<1>9. Kept(m, q)
  BY <1>6, <1>8, KeptTransitive
<1>10. CASE type = "CONDUIT"
  <2>1. Tables(q) /\ l \in Positions(q, "links")
    BY <1>9, LinkSchema DEF Kept, Positions, Count
  <2>2. Same(q, SetData(q, "xsect_shape", l, "CIRCULAR"))
    BY <2>1, DataSet, ColumnTables
  <2>3. QED BY <1>1, <1>9, <1>10, <2>2, SameKept, KeptTransitive
<1>11. QED BY <1>1, <1>9, <1>10

\* swmm_link_set_nodes
LEMMA NodesSet ==
  ASSUME NEW m, Tables(m), NEW l \in Positions(m, "links"),
         NEW a \in 0 .. Count(m, "nodes"), NEW b \in 0 .. Count(m, "nodes")
  PROVE  Same(m, [m EXCEPT !.ref.node1[l] = a, !.ref.node2[l] = b])
<1> DEFINE p == SetRef(m, "node1", l, a)
<1>1. Same(m, p)
  BY RefSet, EndSchema
<1>2. [m EXCEPT !.ref.node1[l] = a, !.ref.node2[l] = b] = SetRef(p, "node2", l, b)
  <2>1. /\ DOMAIN m = {"rows", "ref", "name", "data", "subtype_row", "mat"}
        /\ DOMAIN m.ref = DOMAIN Refs /\ "node1" \in DOMAIN Refs /\ "node2" \in DOMAIN Refs
    BY TablesParts, ColumnsDomain, EndSchema
  <2>2. QED BY <2>1 DEF SetRef
<1> HIDE DEF p
<1>3. Tables(p) /\ l \in Positions(p, "links") /\ Count(p, "nodes") = Count(m, "nodes")
  BY <1>1, SameKept DEF Same
<1>4. Same(p, SetRef(p, "node2", l, b))
  BY <1>3, RefSet, EndSchema
<1>5. QED BY <1>1, <1>2, <1>4, SameTransitive

\* swmm_subcatch_set_outlet
LEMMA OutletSet ==
  ASSUME NEW m, Tables(m), NEW s \in Positions(m, "subcatches"), NEW n \in 0 .. Count(m, "nodes")
  PROVE  Same(m, [m EXCEPT !.ref.outlet_node[s] = n])
<1>1. Same(m, SetRef(m, "outlet_node", s, n))
  BY RefSet, EndSchema
<1>2. QED BY <1>1 DEF SetRef

\* swmm_node_set_virtual
LEMMA VirtualSet ==
  ASSUME NEW m, Tables(m), NEW n \in Positions(m, "nodes"), NEW on
  PROVE  Same(m, [m EXCEPT !.data.is_virtual[n] = on])
<1>1. Same(m, SetData(m, "is_virtual", n, on))
  BY DataSet, ColumnTables
<1>2. QED BY <1>1 DEF SetData

\* One object more in one table
LEMMA WithCounts ==
  ASSUME NEW m, NEW q, NEW k \in Main, NEW id, Tables(m), With(m, q, k, id)
  PROVE  /\ Tables(q) /\ q.mat = m.mat /\ Count(q, k) = Count(m, k) + 1
         /\ \A t \in Main \ {k} : Count(q, t) = Count(m, t) /\ Positions(q, t) = Positions(m, t)
         /\ Count(m, k) + 1 \in Positions(q, k) /\ \A i \in Positions(m, k) : i \in Positions(q, k)
<1>1. Count(m, k) \in Nat /\ Positions(m, k) = 1 .. Count(m, k) /\ Count(q, k) = Count(m, k) + 1
  BY TablesParts DEF With
<1>2. Positions(q, k) = 1 .. Count(m, k) + 1
  BY <1>1 DEF Positions
<1>3. QED BY <1>1, <1>2 DEF With, Count, Positions

\* The two halves of a split conduit get their ends.
LEMMA HalvedSame ==
  ASSUME NEW m, Tables(m), NEW l \in Positions(m, "links"), NEW j \in Positions(m, "links"),
         NEW n \in Positions(m, "nodes")
  PROVE  Same(m, Halved(m, l, n, j))
<1> DEFINE p1 == SetData(m, "xsect_shape", j, m.data.xsect_shape[l])
           p2 == SetData(p1, "xsect_geom", j, m.data.xsect_geom[l])
           p3 == SetRef(p2, "xsect_curve", j, m.ref.xsect_curve[l])
           p4 == SetRef(p3, "node1", j, n)
           p5 == SetRef(p4, "node2", j, m.ref.node2[l])
           p6 == SetRef(p5, "node2", l, n)
<1>0. n \in 0 .. Count(m, "nodes") /\ m.ref.node2[l] \in 0 .. Count(m, "nodes")
  <2>1. n \in 0 .. Count(m, "nodes")
    BY TablesParts, NodeSchema DEF Positions
  <2>2. InRange(m)
    BY TablesParts
  <2>3. QED BY <2>1, <2>2, EndSchema DEF InRange
<1>1. Halved(m, l, n, j) = p6
  BY DEF Halved, SetRef, SetData
<1>2. Same(m, p1)
  BY DataSet, ColumnTables
<1> HIDE DEF p1
<1>3. Same(p1, p2)
  <2>1. Tables(p1) /\ j \in Positions(p1, "links")
    BY <1>2, SameKept DEF Same
  <2>2. QED BY <2>1, DataSet, ColumnTables
<1> HIDE DEF p2
<1>4. Same(m, p2)
  BY <1>2, <1>3, SameTransitive
<1>5. Same(p2, p3)
  <2>1. Tables(p2) /\ j \in Positions(p2, "links")
    BY <1>4, SameKept DEF Same
  <2>2. QED BY <2>1, RefSet, EndSchema
<1> HIDE DEF p3
<1>6. Same(m, p3)
  BY <1>4, <1>5, SameTransitive
<1>7. Same(p3, p4)
  <2>1. Tables(p3) /\ j \in Positions(p3, "links") /\ n \in 0 .. Count(p3, "nodes")
    BY <1>0, <1>6, SameKept DEF Same
  <2>2. QED BY <2>1, RefSet, EndSchema
<1> HIDE DEF p4
<1>8. Same(m, p4)
  BY <1>6, <1>7, SameTransitive
<1>9. Same(p4, p5)
  <2>1. /\ Tables(p4) /\ j \in Positions(p4, "links")
        /\ m.ref.node2[l] \in 0 .. Count(p4, "nodes")
    BY <1>0, <1>8, SameKept DEF Same
  <2>2. QED BY <2>1, RefSet, EndSchema
<1> HIDE DEF p5
<1>10. Same(m, p5)
  BY <1>8, <1>9, SameTransitive
<1>11. Same(p5, p6)
  <2>1. Tables(p5) /\ l \in Positions(p5, "links") /\ n \in 0 .. Count(p5, "nodes")
    BY <1>0, <1>10, SameKept DEF Same
  <2>2. QED BY <2>1, RefSet, EndSchema
<1>12. QED BY <1>1, <1>10, <1>11, SameTransitive

\* A node and a link are new, each the last of its table.
WithLinkedNode(m, q, id) ==
  /\ Tables(q) /\ q.mat = m.mat
  /\ \A t \in Main \ {"nodes", "links"} : q.rows[t] = m.rows[t]
  /\ Count(q, "nodes") = Count(m, "nodes") + 1
  /\ \A j \in Positions(q, "nodes") :
       q.rows["nodes"][j] = IF j = Count(m, "nodes") + 1 THEN id ELSE m.rows["nodes"][j]

\* swmm_conduit_split adds one node and one link and keeps the tables sound.
LEMMA ConduitSplitSound ==
  ASSUME NEW m, Tables(m), NEW l \in Positions(m, "links"), NEW id, NEW lid, NEW virtual
  PROVE  WithLinkedNode(m, vj_split_conduit(m, l, id, lid, virtual), id)
<1> DEFINE n == Count(m, "nodes") + 1
           j == Count(m, "links") + 1
           withNode == set_type(GrowRows(m, "nodes", id), "nodes", n, "JUNCTION")
           withLink == set_type(GrowRows(withNode, "links", lid), "links", j, "CONDUIT")
           halved == Halved(withLink, l, n, j)
           q == vj_split_conduit(m, l, id, lid, virtual)
<1>1. q = Flagged(halved, n, virtual)
  BY DEF vj_split_conduit
<1>2. /\ "nodes" \in Main /\ "links" \in Main /\ "nodes" # "links"
      /\ "JUNCTION" \in TypesOf["nodes"] /\ "CONDUIT" \in TypesOf["links"]
      /\ "nodes" \in DOMAIN TypeColumn /\ "links" \in DOMAIN TypeColumn
  BY NodeSchema, LinkSchema, ColumnTables DEF NodeTypes, LinkTypes
<1>3. With(m, withNode, "nodes", id)
  BY <1>2, ObjectGrown
<1> HIDE DEF withNode
<1>4. /\ Tables(withNode) /\ Count(withNode, "links") = Count(m, "links")
      /\ Count(withNode, "nodes") = n /\ n \in Positions(withNode, "nodes")
      /\ Positions(withNode, "links") = Positions(m, "links")
  BY <1>2, <1>3, WithCounts
<1>5. With(withNode, withLink, "links", lid)
  BY <1>2, <1>4, ObjectGrown
<1> HIDE DEF withLink
<1>6. /\ Tables(withLink) /\ j \in Positions(withLink, "links") /\ l \in Positions(withLink, "links")
      /\ n \in Positions(withLink, "nodes")
  BY <1>2, <1>4, <1>5, WithCounts
<1>7. Same(withLink, halved)
  BY <1>6, HalvedSame
<1> HIDE DEF halved
<1>8. Same(withLink, q)
  <2>1. n \in Positions(halved, "nodes") /\ Tables(halved)
    BY <1>6, <1>7, SameKept DEF Same
  <2>2. Same(halved, [halved EXCEPT !.data.is_virtual[n] = TRUE])
    BY <2>1, VirtualSet
  <2>3. q = halved \/ q = [halved EXCEPT !.data.is_virtual[n] = TRUE]
    BY <1>1 DEF Flagged
  <2> HIDE DEF q
  <2> DEFINE flagged == [halved EXCEPT !.data.is_virtual[n] = TRUE]
  <2>4. Same(halved, flagged) /\ (q = halved \/ q = flagged)
    BY <2>2, <2>3
  <2> HIDE DEF flagged
  <2>5. QED BY <1>7, <2>4, SameTransitive
<1> HIDE DEF q
<1>9. Kept(withLink, q)
  BY <1>8, SameKept
<1>10. Tables(q) /\ q.mat = m.mat /\ \A t \in Main \ {"nodes", "links"} : q.rows[t] = m.rows[t]
  BY <1>3, <1>5, <1>9 DEF With, Kept
<1>11. q.rows["nodes"] = withNode.rows["nodes"]
  BY <1>2, <1>5, <1>9 DEF With, Kept
<1>12. Count(q, "nodes") = n /\ Positions(q, "nodes") = Positions(withNode, "nodes")
  BY <1>4, <1>11 DEF Count, Positions
<1>13. \A i \in Positions(q, "nodes") :
         q.rows["nodes"][i] = IF i = n THEN id ELSE m.rows["nodes"][i]
  BY <1>3, <1>11, <1>12 DEF With
<1>14. QED BY <1>10, <1>12, <1>13 DEF WithLinkedNode, q

\* swmm_virtual_junction_fuse takes the node away, and a link, and keeps the
\* tables sound.
LEMMA FuseSound ==
  ASSUME NEW m, Tables(m), DOMAIN m.mat = MatNames, NEW n \in Positions(m, "nodes"), MayFuse(m, n)
  PROVE  /\ WithoutNode(m, vj_fuse(m, n), n)
         /\ DOMAIN vj_fuse(m, n).mat = DOMAIN m.mat
         /\ vj_fuse(m, n).mat.buildup = m.mat.buildup
         /\ vj_fuse(m, n).mat.treatment =
              LET T == m.mat.treatment
              IN IF T.cols > 0 /\ n <= T.rows /\ Fits(T.cells, T.rows, T.cols)
                 THEN [T EXCEPT !.cells = erase_matrix_row(@, T.rows, T.cols, n), !.rows = @ - 1]
                 ELSE T
<1> DEFINE up == CHOOSE l \in Into(m, n) : TRUE
           dn == CHOOSE l \in OutOf(m, n) : TRUE
           rewired == SetRef(m, "node2", up, m.ref.node2[dn])
           freed == delete_link(rewired, dn)
<1>1. up \in Positions(m, "links") /\ dn \in Positions(m, "links")
  BY DEF MayFuse, Into, OutOf
<1>2. vj_fuse(m, n) = delete_node(freed, n)
  BY DEF vj_fuse, SetRef
<1> HIDE DEF up, dn
<1>3. m.ref.node2[dn] \in 0 .. Count(m, "nodes")
  <2>1. InRange(m)
    BY TablesParts
  <2>2. QED BY <1>1, <2>1, EndSchema DEF InRange
<1>4. Same(m, rewired)
  BY <1>1, <1>3, RefSet, EndSchema
<1> HIDE DEF rewired
<1>5. Tables(rewired) /\ rewired.rows = m.rows /\ rewired.mat = m.mat /\ dn \in Positions(rewired, "links")
  BY <1>1, <1>4, SameKept DEF Same
<1>6. Without(rewired, freed, "links", dn) /\ freed.mat = m.mat
  BY <1>5, LinkDeleted
<1> HIDE DEF freed
<1>7. Tables(freed) /\ \A t \in Main \ {"links"} : freed.rows[t] = m.rows[t]
  BY <1>5, <1>6 DEF Without
<1>8. freed.rows["nodes"] = m.rows["nodes"] /\ Count(freed, "nodes") = Count(m, "nodes")
      /\ n \in Positions(freed, "nodes") /\ DOMAIN freed.mat = MatNames
  BY <1>6, <1>7, NodeSchema DEF Count, Positions
<1>9. /\ WithoutNode(freed, delete_node(freed, n), n)
      /\ DOMAIN delete_node(freed, n).mat = DOMAIN freed.mat
      /\ delete_node(freed, n).mat.buildup = freed.mat.buildup
      /\ delete_node(freed, n).mat.treatment =
           LET T == freed.mat.treatment
           IN IF T.cols > 0 /\ n <= T.rows /\ Fits(T.cells, T.rows, T.cols)
              THEN [T EXCEPT !.cells = erase_matrix_row(@, T.rows, T.cols, n), !.rows = @ - 1]
              ELSE T
  BY <1>7, <1>8, NodeDeleted
<1> DEFINE q == delete_node(freed, n)
<1> HIDE DEF q
<1>10. WithoutNode(freed, q, n) => WithoutNode(m, q, n)
  BY <1>7, <1>8 DEF WithoutNode
<1>11. QED BY <1>2, <1>6, <1>9, <1>10 DEF q

-----------------------------------------------------------------------------
(* Row-major matrices *)

\* Multiplying keeps the order, with room for one row.
LEMMA Product ==
  ASSUME NEW a \in Int, NEW b \in Int, NEW n \in Nat, a < b
  PROVE  a * n + n <= b * n
OBVIOUS

\* The cells of a row-major matrix are numbered from 1 to rows * cols.
LEMMA CellRange ==
  ASSUME NEW rows \in Nat, NEW cols \in Nat, NEW r \in 1 .. rows, NEW c \in 1 .. cols
  PROVE  (r - 1) * cols + c \in 1 .. rows * cols
<1>1. r - 1 \in Nat /\ r - 1 < rows /\ r - 1 \in Int /\ rows \in Int
  OBVIOUS
<1>2. (r - 1) * cols + cols <= rows * cols
  BY <1>1, Product
<1>3. (r - 1) * cols \in Nat /\ rows * cols \in Nat
  BY <1>1
<1>4. QED BY <1>2, <1>3

\* The quotient and the remainder of a number given by them
LEMMA DivMod ==
  ASSUME NEW q \in Nat, NEW n \in Nat, NEW d \in 0 .. n - 1
  PROVE  (q * n + d) \div n = q /\ (q * n + d) % n = d
OBVIOUS

\* The row and the column of a cell, from its number.
LEMMA CellPlace ==
  ASSUME NEW cols \in Nat, NEW r \in Nat \ {0}, NEW c \in 1 .. cols
  PROVE  /\ (((r - 1) * cols + c) - 1) \div cols = r - 1
         /\ (((r - 1) * cols + c) - 1) % cols = c - 1
<1> DEFINE q == r - 1
           d == c - 1
<1>1. q \in Nat /\ d \in 0 .. cols - 1 /\ q * cols \in Nat
  OBVIOUS
<1>2. ((r - 1) * cols + c) - 1 = q * cols + d
  BY <1>1
<1> HIDE DEF q, d
<1>3. (q * cols + d) \div cols = q /\ (q * cols + d) % cols = d
  BY <1>1, DivMod
<1>4. QED BY <1>2, <1>3 DEF q, d

\* The rows before row u end before the cells of row u.
LEMMA RowOrder ==
  ASSUME NEW cols \in Nat, NEW r \in Nat, NEW u \in Nat, NEW c \in 1 .. cols
  PROVE  (r - 1) * cols + c <= (u - 1) * cols <=> r < u
<1>1. r - 1 \in Int /\ u - 1 \in Int /\ (r - 1) * cols \in Int /\ (u - 1) * cols \in Int /\ c \in Int
  OBVIOUS
<1>2. CASE r < u
  <2>1. r - 1 < u - 1
    BY <1>2
  <2>2. (r - 1) * cols + cols <= (u - 1) * cols
    BY <1>1, <2>1, Product
  <2>3. QED BY <1>1, <1>2, <2>2
<1>3. CASE r = u
  BY <1>1, <1>3
<1>4. CASE u < r
  <2>1. u - 1 < r - 1
    BY <1>4
  <2>2. (u - 1) * cols + cols <= (r - 1) * cols
    BY <1>1, <2>1, Product
  <2>3. QED BY <1>1, <1>4, <2>2
<1>5. QED BY <1>2, <1>3, <1>4

\* Every entry of matrix N is one of matrix M, and its object and its pollutant
\* stand where it stands now.
Refiled(M, N, objects, names, pollutants, species) ==
  \A r \in 1 .. N.rows, c \in 1 .. N.cols :
    \/ At(N, r, c) = ZeroCell
    \/ \E r0 \in 1 .. M.rows, c0 \in 1 .. M.cols :
         /\ At(N, r, c) = At(M, r0, c0) /\ pollutants[c0] = species[c]
         /\ r0 <= Len(objects) => r <= Len(names) /\ objects[r0] = names[r]

Shaped(N, species) ==
  /\ DOMAIN N = {"rows", "cols", "cells"} /\ N.rows \in Nat /\ N.cols \in Nat
  /\ IsColumn(N.cells, N.rows * N.cols)
  /\ N.rows # 0 /\ N.cols # 0 => N.cols = Len(species)

\* Entries that move with their object and their pollutant stay filed.
LEMMA RefiledFiled ==
  ASSUME NEW M, NEW N, NEW objects, NEW names, NEW pollutants, NEW species,
         Filed(M, objects, pollutants), Shaped(N, species),
         Refiled(M, N, objects, names, pollutants, species)
  PROVE  Filed(N, names, species) /\ (Original(M) => Original(N))
<1>1. ASSUME NEW r \in 1 .. N.rows, NEW c \in 1 .. N.cols, At(N, r, c) # ZeroCell
      PROVE  /\ r <= Len(names) /\ At(N, r, c) = <<names[r], species[c]>>
             /\ Original(M) => At(N, r, c)[1] \notin NewNames
  <2>1. PICK r0 \in 1 .. M.rows, c0 \in 1 .. M.cols :
          /\ At(N, r, c) = At(M, r0, c0) /\ pollutants[c0] = species[c]
          /\ r0 <= Len(objects) => r <= Len(names) /\ objects[r0] = names[r]
    BY <1>1 DEF Refiled
  <2>2. r0 <= Len(objects) /\ At(M, r0, c0) = <<objects[r0], pollutants[c0]>>
    BY <1>1, <2>1 DEF Filed
  <2>3. Original(M) => At(M, r0, c0)[1] \notin NewNames
    BY <1>1, <2>1 DEF Original
  <2>4. QED BY <2>1, <2>2, <2>3
<1>2. QED BY <1>1 DEF Filed, Shaped, Original

\* Without cells there is nothing to file.
LEMMA EmptyFiled ==
  ASSUME NEW M, NEW objects, NEW pollutants, Filed(M, objects, pollutants),
         M.rows = 0 \/ M.cols = 0, NEW names, NEW species
  PROVE  Filed(M, names, species)
BY DEF Filed

\* Objects behind the ones that were there change nothing.
LEMMA ExtendedFiled ==
  ASSUME NEW M, NEW objects, NEW pollutants, Filed(M, objects, pollutants), NEW names,
         NEW n \in Nat, Len(objects) = n, Len(names) \in Nat, n <= Len(names),
         \A r \in 1 .. n : names[r] = objects[r]
  PROVE  Filed(M, names, pollutants)
<1>1. ASSUME NEW r \in 1 .. M.rows, NEW c \in 1 .. M.cols, At(M, r, c) # ZeroCell
      PROVE  r <= Len(names) /\ At(M, r, c) = <<names[r], pollutants[c]>>
  <2>1. r <= n /\ At(M, r, c) = <<objects[r], pollutants[c]>> /\ r \in Nat /\ r >= 1
    BY <1>1 DEF Filed
  <2>2. r \in 1 .. n
    BY <2>1
  <2>3. QED BY <2>1, <2>2
<1>2. QED BY <1>1 DEF Filed

\* The matrices stay right while the objects they file stay.
LEMMA MatricesFrame ==
  ASSUME NEW m, NEW q, Matrices(m), DOMAIN q.mat = DOMAIN m.mat,
         q.mat.buildup = m.mat.buildup, q.mat.treatment = m.mat.treatment,
         q.rows.landuses = m.rows.landuses, q.rows.nodes = m.rows.nodes,
         q.rows.pollutants = m.rows.pollutants
  PROVE  Matrices(q)
BY DEF Matrices

RowErased(M, u) ==
  [M EXCEPT !.cells = erase_matrix_row(@, M.rows, M.cols, u), !.rows = @ - 1]

\* erase_matrix_row takes the cells of one row and no other.
LEMMA RowErasedCells ==
  ASSUME NEW M, NEW objects, NEW pollutants, Filed(M, objects, pollutants), NEW u \in 1 .. M.rows
  PROVE  /\ Shaped(RowErased(M, u), pollutants)
         /\ RowErased(M, u).rows = M.rows - 1 /\ RowErased(M, u).cols = M.cols
         /\ \A r \in 1 .. M.rows - 1, c \in 1 .. M.cols :
              At(RowErased(M, u), r, c) = At(M, Up(u, r), c)
<1> DEFINE N == RowErased(M, u)
           rows == M.rows
           cols == M.cols
           first == (u - 1) * cols
           cells == EraseCells(M.cells, first, cols)
<1>1. /\ rows \in Nat /\ cols \in Nat /\ IsColumn(M.cells, rows * cols)
      /\ DOMAIN M = {"rows", "cols", "cells"}
      /\ rows # 0 /\ cols # 0 => cols = Len(pollutants)
  BY DEF Filed
<1>2. Len(M.cells) = rows * cols
  <2> DEFINE n == rows * cols
             s == M.cells
  <2>1. IsColumn(s, n)
    BY <1>1
  <2> HIDE DEF n, s
  <2>2. Len(s) = n
    BY <2>1, ColumnFacts
  <2>3. QED BY <2>2 DEF n, s
<1>3. erase_matrix_row(M.cells, M.rows, M.cols, u) = cells
  BY <1>2 DEF erase_matrix_row, Fits
<1> HIDE DEF cells
<1>4. /\ DOMAIN N = {"rows", "cols", "cells"} /\ N.rows = rows - 1 /\ N.cols = cols /\ N.cells = cells
  BY <1>1, <1>3 DEF RowErased
<1> HIDE DEF N
<1>5. (rows - 1) * cols = rows * cols - cols /\ rows * cols \in Nat
  BY <1>1
<1>6. (rows - 1) * cols \in Nat
  <2>1. rows - 1 \in Nat
    BY <1>1
  <2>2. QED BY <1>1, <2>1
<1> DEFINE n == (rows - 1) * cols
<1>7. cells = [j \in 1 .. n |-> IF j <= first THEN M.cells[j] ELSE M.cells[j + cols]]
  BY <1>2, <1>5 DEF EraseCells, cells
<1>8. IsColumn(cells, n)
  <2> HIDE DEF n, first
  <2>1. n \in Nat
    BY <1>6 DEF n
  <2>2. QED BY <1>7, <2>1 DEF IsColumn
<1>9. ASSUME NEW r \in 1 .. rows - 1, NEW c \in 1 .. cols
      PROVE  At(N, r, c) = At(M, Up(u, r), c)
  <2> DEFINE j == (r - 1) * cols + c
  <2>1. rows - 1 \in Nat /\ r \in Nat /\ u \in Nat
    BY <1>1
  <2>2. j \in 1 .. n
    <3> DEFINE k == rows - 1
    <3>1. k \in Nat /\ r \in 1 .. k
      BY <2>1
    <3> HIDE DEF k
    <3>2. (r - 1) * cols + c \in 1 .. k * cols
      BY <1>1, <3>1, CellRange
    <3>3. QED BY <3>2 DEF k
  <2>3. j <= first <=> r < u
    BY <1>1, <2>1, RowOrder
  <2>4. j + cols = (r + 1 - 1) * cols + c
    BY <1>1, <2>1
  <2>5. At(N, r, c) = cells[j]
    BY <1>4 DEF At
  <2> HIDE DEF j, n, first
  <2>6. cells[j] = IF r < u THEN M.cells[j] ELSE M.cells[j + cols]
    BY <1>7, <2>2, <2>3
  <2>7. CASE r < u
    <3>1. Up(u, r) = r
      BY <2>7 DEF Up
    <3>2. At(M, r, c) = M.cells[j]
      BY DEF At, j
    <3>3. QED BY <2>5, <2>6, <2>7, <3>1, <3>2
  <2>8. CASE ~(r < u)
    <3>1. Up(u, r) = r + 1
      BY <2>8 DEF Up
    <3>2. At(M, r + 1, c) = M.cells[j + cols]
      BY <2>4 DEF At
    <3>3. QED BY <2>5, <2>6, <2>8, <3>1, <3>2
  <2>9. QED BY <2>7, <2>8
<1>10. rows - 1 \in Nat
  BY <1>1
<1>11. Shaped(N, pollutants)
  <2>1. IsColumn(N.cells, N.rows * N.cols)
    BY <1>4, <1>8
  <2>2. N.rows # 0 /\ N.cols # 0 => N.cols = Len(pollutants)
    BY <1>1, <1>4
  <2>3. QED BY <1>1, <1>4, <1>10, <2>1, <2>2 DEF Shaped
<1>12. QED BY <1>4, <1>9, <1>11 DEF N

\* The objects but the u-th
Struck(objects, names, u) ==
  /\ Len(objects) \in Nat /\ u \in 1 .. Len(objects) /\ Len(names) = Len(objects) - 1
  /\ \A r \in 1 .. Len(names) : names[r] = objects[Up(u, r)]

\* The row of an object leaves with it, from a matrix that has one for it.
LEMMA RowErasedFiled ==
  ASSUME NEW M, NEW objects, NEW pollutants, Filed(M, objects, pollutants), NEW names, NEW u,
         Struck(objects, names, u), NEW N,
         (N = RowErased(M, u) /\ u <= M.rows) \/ (N = M /\ (M.rows < u \/ M.cols = 0))
  PROVE  Filed(N, names, pollutants) /\ (Original(M) => Original(N))
<1>0. /\ M.rows \in Nat /\ M.cols \in Nat /\ u \in 1 .. Len(objects)
      /\ Len(objects) \in Nat /\ Len(names) = Len(objects) - 1
      /\ \A r \in 1 .. Len(names) : names[r] = objects[Up(u, r)]
  BY DEF Filed, Struck
<1>1. CASE N = RowErased(M, u) /\ u <= M.rows
  <2>1. /\ u \in 1 .. M.rows
        /\ Shaped(N, pollutants) /\ N.rows = M.rows - 1 /\ N.cols = M.cols
        /\ \A r \in 1 .. M.rows - 1, c \in 1 .. M.cols : At(N, r, c) = At(M, Up(u, r), c)
    <3>1. u \in 1 .. M.rows
      BY <1>0, <1>1
    <3>2. QED BY <1>1, <3>1, RowErasedCells
  <2>2. ASSUME NEW r \in 1 .. N.rows, NEW c \in 1 .. N.cols
        PROVE  \E r0 \in 1 .. M.rows, c0 \in 1 .. M.cols :
                 /\ At(N, r, c) = At(M, r0, c0) /\ pollutants[c0] = pollutants[c]
                 /\ r0 <= Len(objects) => r <= Len(names) /\ objects[r0] = names[r]
    <3>1. Up(u, r) \in 1 .. M.rows /\ r \in Nat /\ r >= 1
      BY <1>0, <2>1 DEF Up
    <3>2. At(N, r, c) = At(M, Up(u, r), c) /\ c \in 1 .. M.cols
      BY <2>1
    <3>3. Up(u, r) <= Len(objects) => r <= Len(names)
      BY <1>0, <3>1 DEF Up
    <3>4. r <= Len(names) => objects[Up(u, r)] = names[r]
      <4>1. r <= Len(names) => r \in 1 .. Len(names)
        BY <1>0, <3>1
      <4>2. QED BY <1>0, <4>1
    <3>5. QED BY <3>1, <3>2, <3>3, <3>4
  <2>3. Refiled(M, N, objects, names, pollutants, pollutants)
    BY <2>2 DEF Refiled
  <2>4. QED BY <2>1, <2>3, RefiledFiled
<1>2. CASE N = M /\ M.cols = 0
  BY <1>2, EmptyFiled
<1>3. CASE N = M /\ M.rows < u
  <2>1. ASSUME NEW r \in 1 .. M.rows, NEW c \in 1 .. M.cols, At(M, r, c) # ZeroCell
        PROVE  r <= Len(names) /\ At(M, r, c) = <<names[r], pollutants[c]>>
    <3>1. r \in 1 .. Len(names) /\ Up(u, r) = r
      BY <1>0, <1>3 DEF Up
    <3>2. At(M, r, c) = <<objects[r], pollutants[c]>>
      BY <2>1 DEF Filed
    <3>3. QED BY <1>0, <3>1, <3>2
  <2>2. Filed(M, names, pollutants)
    BY <2>1 DEF Filed
  <2>3. QED BY <1>3, <2>2
<1>4. QED BY <1>1, <1>2, <1>3

\* The pollutants but the p-th
LEMMA ColumnErasedFiled ==
  ASSUME NEW M, NEW objects, NEW pollutants, Filed(M, objects, pollutants), NEW species, NEW p,
         Struck(pollutants, species, p)
  PROVE  LET N == Packed(M, Len(pollutants), M.rows, p)
         IN Filed(N, objects, species) /\ (Original(M) => Original(N))
<1> DEFINE np == Len(pollutants)
           N == Packed(M, np, M.rows, p)
           rows == M.rows
           nc == M.cols
           w == np - 1
           Source(j) == ((j - 1) \div w) * np
                          + (IF ((j - 1) % w) + 1 < p THEN ((j - 1) % w) + 1 ELSE ((j - 1) % w) + 1 + 1)
           cells == [j \in 1 .. rows * w |-> M.cells[Source(j)]]
<1>1. /\ rows \in Nat /\ nc \in Nat /\ IsColumn(M.cells, rows * nc)
      /\ DOMAIN M = {"rows", "cols", "cells"}
      /\ rows # 0 /\ nc # 0 => nc = np
  BY DEF Filed
<1>2. /\ np \in Nat /\ p \in 1 .. np /\ Len(species) = w /\ w \in Nat
      /\ \A c \in 1 .. w : species[c] = pollutants[Up(p, c)]
  BY DEF Struck
<1>3. Len(M.cells) = rows * nc
  <2> DEFINE n == rows * nc
             s == M.cells
  <2>1. IsColumn(s, n)
    BY <1>1
  <2> HIDE DEF n, s
  <2>2. Len(s) = n
    BY <2>1, ColumnFacts
  <2>3. QED BY <2>2 DEF n, s
<1>4. CASE nc # np
  <2>1. N = M /\ (M.rows = 0 \/ M.cols = 0)
    BY <1>1, <1>4 DEF Packed
  <2>2. QED BY <2>1, EmptyFiled
<1>5. CASE nc = np
  <2>1. erase_matrix_column(M.cells, rows, np, p) = cells
    <3>1. ~(np = 0 \/ ~Fits(M.cells, rows, np))
      BY <1>2, <1>3, <1>5 DEF Fits
    <3>2. QED BY <3>1 DEF erase_matrix_column
  <2> HIDE DEF cells
  <2>2. /\ DOMAIN N = {"rows", "cols", "cells"} /\ N.rows = rows /\ N.cols = w /\ N.cells = cells
    BY <1>1, <1>5, <2>1 DEF Packed
  <2> HIDE DEF N
  <2>3. rows * w \in Nat
    BY <1>1, <1>2
  <2>4. IsColumn(cells, rows * w)
    <3> HIDE DEF Source, w
    <3> DEFINE n == rows * w
    <3>1. cells = [j \in 1 .. n |-> M.cells[Source(j)]] /\ n \in Nat
      BY <2>3 DEF cells
    <3> HIDE DEF n
    <3>2. IsColumn(cells, n)
      BY <3>1 DEF IsColumn
    <3>3. QED BY <3>2 DEF n
  <2>5. Shaped(N, species)
    <3>1. IsColumn(N.cells, N.rows * N.cols)
      BY <2>2, <2>4
    <3> HIDE DEF w
    <3>2. QED BY <1>1, <1>2, <2>2, <3>1 DEF Shaped
  <2>6. ASSUME NEW r \in 1 .. rows, NEW c \in 1 .. w
        PROVE  At(N, r, c) = At(M, r, Up(p, c)) /\ Up(p, c) \in 1 .. np
    <3> DEFINE j == (r - 1) * w + c
    <3>1. Up(p, c) \in 1 .. np /\ c \in Nat /\ r \in Nat \ {0}
      BY <1>1, <1>2 DEF Up
    <3>2. j \in 1 .. rows * w
      BY <1>1, <1>2, CellRange
    <3>3. (j - 1) \div w = r - 1 /\ (j - 1) % w = c - 1
      <4> HIDE DEF w
      <4>1. w \in Nat /\ r \in Nat \ {0} /\ c \in 1 .. w
        BY <1>2, <3>1
      <4>2. QED BY <4>1, CellPlace
    <3> HIDE DEF j
    <3>4. Source(j) = (r - 1) * np + Up(p, c)
      <4> HIDE DEF w
      <4>1. Source(j) = (r - 1) * np + (IF c - 1 + 1 < p THEN c - 1 + 1 ELSE c - 1 + 1 + 1)
        BY <3>3
      <4>2. c - 1 + 1 = c
        BY <3>1
      <4>3. QED BY <4>1, <4>2 DEF Up
    <3> HIDE DEF Source, w
    <3> DEFINE n == rows * w
    <3>5. cells[j] = M.cells[Source(j)]
      <4>1. cells = [i \in 1 .. n |-> M.cells[Source(i)]] /\ j \in 1 .. n
        BY <3>2 DEF cells
      <4> HIDE DEF n
      <4>2. QED BY <4>1
    <3>6. At(N, r, c) = cells[j]
      BY <2>2 DEF At, j
    <3>7. At(M, r, Up(p, c)) = M.cells[Source(j)]
      BY <1>5, <3>4 DEF At
    <3>8. QED BY <3>1, <3>5, <3>6, <3>7
  <2> HIDE DEF w, np
  <2>7. Refiled(M, N, objects, objects, pollutants, species)
    <3>1. ASSUME NEW r \in 1 .. N.rows, NEW c \in 1 .. N.cols
          PROVE  \E r0 \in 1 .. M.rows, c0 \in 1 .. M.cols :
                   /\ At(N, r, c) = At(M, r0, c0) /\ pollutants[c0] = species[c]
                   /\ r0 <= Len(objects) => r <= Len(objects) /\ objects[r0] = objects[r]
      <4>1. r \in 1 .. M.rows /\ c \in 1 .. w
        BY <2>2
      <4>2. At(N, r, c) = At(M, r, Up(p, c)) /\ Up(p, c) \in 1 .. M.cols
        BY <1>5, <2>6, <4>1
      <4>3. pollutants[Up(p, c)] = species[c]
        BY <1>2, <4>1
      <4>4. QED BY <4>1, <4>2, <4>3
    <3>2. QED BY <3>1 DEF Refiled
  <2>8. Filed(N, objects, species) /\ (Original(M) => Original(N))
    BY <2>5, <2>7, RefiledFiled
  <2>9. QED BY <2>8 DEF N, np
<1>6. QED BY <1>4, <1>5

\* One more object, or pollutant, behind those that were there
Lengthened(objects, names) ==
  /\ Len(objects) \in Nat /\ Len(names) = Len(objects) + 1
  /\ \A r \in 1 .. Len(objects) : names[r] = objects[r]

\* A matrix that grows or shrinks by whole rows keeps the cells of the rows
\* that it has before and after.
LEMMA RowAddedFiled ==
  ASSUME NEW M, NEW objects, NEW pollutants, Filed(M, objects, pollutants), NEW names,
         Lengthened(objects, names), NEW n \in Nat, NEW np \in Nat, np = Len(pollutants), NEW N,
         N = [rows |-> n, cols |-> np, cells |-> Resized(M.cells, n * np)]
  PROVE  Filed(N, names, pollutants) /\ (Original(M) => Original(N))
<1> DEFINE size == n * np
           cells == Resized(M.cells, size)
           rows == M.rows
           cols == M.cols
<1>1. /\ rows \in Nat /\ cols \in Nat /\ IsColumn(M.cells, rows * cols)
      /\ rows # 0 /\ cols # 0 => cols = np
      /\ size \in Nat
  BY DEF Filed
<1>2. Len(M.cells) = rows * cols
  <2> DEFINE k == rows * cols
             s == M.cells
  <2>1. IsColumn(s, k)
    BY <1>1
  <2> HIDE DEF k, s
  <2>2. Len(s) = k
    BY <2>1, ColumnFacts
  <2>3. QED BY <2>2 DEF k, s
<1> HIDE DEF size
<1>3. IsColumn(cells, size)
  BY <1>1 DEF Resized, IsColumn
<1>4. \A j \in 1 .. size : cells[j] = IF j <= Len(M.cells) THEN M.cells[j] ELSE ZeroCell
  BY DEF Resized
<1> HIDE DEF cells
<1>5. /\ DOMAIN N = {"rows", "cols", "cells"} /\ N.rows = n /\ N.cols = np /\ N.cells = cells
  BY DEF cells, size
<1>6. Shaped(N, pollutants)
  <2>1. IsColumn(N.cells, N.rows * N.cols)
    BY <1>3, <1>5 DEF size
  <2>2. QED BY <1>5, <2>1 DEF Shaped
<1>7. ASSUME NEW r \in 1 .. n, NEW c \in 1 .. np
      PROVE  \/ At(N, r, c) = ZeroCell
             \/ r \in 1 .. rows /\ c \in 1 .. cols /\ At(N, r, c) = At(M, r, c)
  <2> DEFINE j == (r - 1) * np + c
  <2>1. j \in 1 .. size
    BY CellRange DEF size
  <2>2. At(N, r, c) = cells[j]
    BY <1>5 DEF At
  <2>3. r \in Nat /\ rows + 1 \in Nat /\ r >= 1
    BY <1>1
  <2>4. j <= rows * np <=> r < rows + 1
    <3> DEFINE v == rows + 1
    <3>1. v \in Nat /\ v - 1 = rows
      BY <1>1
    <3> HIDE DEF v
    <3>2. (r - 1) * np + c <= (v - 1) * np <=> r < v
      BY <2>3, <3>1, RowOrder
    <3>3. QED BY <3>1, <3>2 DEF v
  <2>6. CASE j <= rows * cols
    <3>1. rows # 0 /\ cols # 0
      <4>1. j >= 1
        BY <2>1
      <4>2. rows = 0 => rows * cols = 0
        BY <1>1
      <4>3. cols = 0 => rows * cols = 0
        BY <1>1
      <4> HIDE DEF j
      <4>4. rows * cols # 0
        <5> DEFINE k == rows * cols
        <5>1. k \in Nat /\ j <= k /\ j \in Nat
          BY <1>1, <2>1, <2>6
        <5> HIDE DEF k
        <5>2. k # 0
          BY <4>1, <5>1
        <5>3. QED BY <5>2 DEF k
      <4>5. QED BY <4>2, <4>3, <4>4
    <3>2. cols = np
      BY <1>1, <3>1
    <3>3. r < rows + 1
      BY <2>4, <2>6, <3>2
    <3>4. r \in 1 .. rows
      BY <1>1, <2>3, <3>3
    <3>5. At(M, r, c) = M.cells[j]
      BY <3>2 DEF At
    <3> HIDE DEF j
    <3>6. cells[j] = M.cells[j]
      BY <1>2, <1>4, <2>1, <2>6
    <3>7. QED BY <2>2, <3>2, <3>4, <3>5, <3>6
  <2>7. CASE ~(j <= rows * cols)
    <3> HIDE DEF j
    <3>1. QED BY <1>2, <1>4, <2>1, <2>2, <2>7
  <2>8. QED BY <2>6, <2>7
<1>8. Refiled(M, N, objects, names, pollutants, pollutants)
  <2>1. ASSUME NEW r \in 1 .. N.rows, NEW c \in 1 .. N.cols, At(N, r, c) # ZeroCell
        PROVE  \E r0 \in 1 .. M.rows, c0 \in 1 .. M.cols :
                 /\ At(N, r, c) = At(M, r0, c0) /\ pollutants[c0] = pollutants[c]
                 /\ r0 <= Len(objects) => r <= Len(names) /\ objects[r0] = names[r]
    <3>1. r \in 1 .. rows /\ c \in 1 .. cols /\ At(N, r, c) = At(M, r, c)
      BY <1>5, <1>7, <2>1
    <3>2. r \in Nat /\ r >= 1
      BY <1>1, <3>1
    <3>3. r <= Len(objects) => r <= Len(names) /\ objects[r] = names[r]
      BY <3>2 DEF Lengthened
    <3>4. QED BY <3>1, <3>3
  <2>2. QED BY <2>1 DEF Refiled
<1>9. QED BY <1>6, <1>8, RefiledFiled

\* A new column keeps each cell at its object and its pollutant.
LEMMA ColumnAddedFiled ==
  ASSUME NEW M, NEW objects, NEW pollutants, Filed(M, objects, pollutants), NEW species,
         Lengthened(pollutants, species)
  PROVE  LET N == Widened(M, Len(pollutants), M.rows)
         IN Filed(N, objects, species) /\ (Original(M) => Original(N))
<1> DEFINE np == Len(pollutants)
           N == Widened(M, np, M.rows)
           rows == M.rows
           w == np + 1
           Source(j) == IF ((j - 1) % w) + 1 > np THEN ZeroCell
                        ELSE M.cells[(((j - 1) \div w) + 1 - 1) * np + (((j - 1) % w) + 1)]
           cells == [j \in 1 .. rows * w |-> Source(j)]
<1>1. /\ rows \in Nat /\ M.cols \in Nat /\ IsColumn(M.cells, rows * M.cols)
      /\ DOMAIN M = {"rows", "cols", "cells"}
      /\ rows # 0 /\ M.cols # 0 => M.cols = np
  BY DEF Filed
<1>2. /\ np \in Nat /\ w \in Nat /\ Len(species) = w
      /\ \A c \in 1 .. np : species[c] = pollutants[c]
  BY DEF Lengthened
<1>3. Len(M.cells) = rows * M.cols
  <2> DEFINE k == rows * M.cols
             s == M.cells
  <2>1. IsColumn(s, k)
    BY <1>1
  <2> HIDE DEF k, s
  <2>2. Len(s) = k
    BY <2>1, ColumnFacts
  <2>3. QED BY <2>2 DEF k, s
<1>4. CASE M.cols # np \/ rows = 0
  <2>1. N = M /\ (M.rows = 0 \/ M.cols = 0)
    BY <1>1, <1>4 DEF Widened
  <2>2. QED BY <2>1, EmptyFiled
<1>5. CASE M.cols = np /\ rows # 0
  <2>1. InsertColumn(M.cells, rows, np) = cells
    <3>1. ~(rows = 0 \/ ~Fits(M.cells, rows, np))
      BY <1>3, <1>5 DEF Fits
    <3>2. QED BY <3>1 DEF InsertColumn
  <2> HIDE DEF cells
  <2>2. /\ DOMAIN N = {"rows", "cols", "cells"} /\ N.rows = rows /\ N.cols = w /\ N.cells = cells
    BY <1>1, <1>5, <2>1 DEF Widened
  <2> HIDE DEF N
  <2>3. rows * w \in Nat
    BY <1>1, <1>2
  <2> DEFINE n == rows * w
  <2>4. cells = [j \in 1 .. n |-> Source(j)] /\ n \in Nat
    BY <2>3 DEF cells
  <2> HIDE DEF n
  <2>5. IsColumn(cells, n)
    <3> HIDE DEF Source
    <3>1. QED BY <2>4 DEF IsColumn
  <2>6. Shaped(N, species)
    <3>1. IsColumn(N.cells, N.rows * N.cols)
      BY <2>2, <2>5 DEF n
    <3> HIDE DEF w
    <3>2. QED BY <1>1, <1>2, <2>2, <3>1 DEF Shaped
  <2>7. ASSUME NEW r \in 1 .. rows, NEW c \in 1 .. w
        PROVE  At(N, r, c) = IF c > np THEN ZeroCell ELSE At(M, r, c)
    <3> DEFINE j == (r - 1) * w + c
    <3>1. c \in Nat /\ r \in Nat \ {0}
      BY <1>1, <1>2
    <3>2. j \in 1 .. n
      BY <1>1, <1>2, CellRange DEF n
    <3>3. (j - 1) \div w = r - 1 /\ (j - 1) % w = c - 1
      <4> HIDE DEF w
      <4>1. w \in Nat /\ r \in Nat \ {0} /\ c \in 1 .. w
        BY <1>2, <3>1
      <4>2. QED BY <4>1, CellPlace
    <3>4. At(N, r, c) = cells[j]
      BY <2>2 DEF At
    <3> HIDE DEF j, w
    <3>5. Source(j) = IF c > np THEN ZeroCell ELSE M.cells[(r - 1) * np + c]
      <4>1. ((j - 1) % w) + 1 = c /\ ((j - 1) \div w) + 1 - 1 = r - 1
        BY <3>1, <3>3
      <4>2. QED BY <4>1
    <3> HIDE DEF Source
    <3>6. cells[j] = Source(j)
      BY <2>4, <3>2
    <3>7. At(M, r, c) = M.cells[(r - 1) * np + c]
      BY <1>5 DEF At
    <3>8. QED BY <3>4, <3>5, <3>6, <3>7
  <2>8. Refiled(M, N, objects, objects, pollutants, species)
    <3>1. ASSUME NEW r \in 1 .. N.rows, NEW c \in 1 .. N.cols, At(N, r, c) # ZeroCell
          PROVE  \E r0 \in 1 .. M.rows, c0 \in 1 .. M.cols :
                   /\ At(N, r, c) = At(M, r0, c0) /\ pollutants[c0] = species[c]
                   /\ r0 <= Len(objects) => r <= Len(objects) /\ objects[r0] = objects[r]
      <4>1. r \in 1 .. M.rows /\ c \in 1 .. w
        BY <2>2
      <4>2. At(N, r, c) = At(M, r, c) /\ c \in 1 .. np
        BY <1>2, <2>7, <3>1, <4>1
      <4>3. c \in 1 .. M.cols /\ pollutants[c] = species[c]
        BY <1>2, <1>5, <4>2
      <4>4. QED BY <4>1, <4>2, <4>3
    <3>2. QED BY <3>1 DEF Refiled
  <2> HIDE DEF np
  <2>9. Filed(N, objects, species) /\ (Original(M) => Original(N))
    BY <2>6, <2>8, RefiledFiled
  <2>10. QED BY <2>9 DEF N, np
<1>6. QED BY <1>4, <1>5

-----------------------------------------------------------------------------
(* Well-formed models *)

\* A model is well formed if its tables are sound and its matrices are filed.
LEMMA WellFormedParts ==
  ASSUME NEW m
  PROVE  WellFormed(m) <=> Tables(m) /\ Matrices(m)
BY DEF WellFormed, Tables, Backed

Filing == {"landuses", "nodes", "pollutants"}

\* The tables that are filed in matrices are main tables.
LEMMA FilingSchema ==
  Filing \subseteq Main /\ \A k \in Filing : k \in Kinds
BY MainSchema DEF Filing, Main

\* Edits that touch neither what is filed nor the matrices
LEMMA StandsWellFormed ==
  ASSUME NEW m, WellFormed(m), NEW q, Tables(q), DOMAIN q.mat = DOMAIN m.mat,
         q.mat.buildup = m.mat.buildup, q.mat.treatment = m.mat.treatment,
         \A k \in Filing : q.rows[k] = m.rows[k]
  PROVE  WellFormed(q)
<1>1. q.rows["landuses"] = m.rows["landuses"] /\ q.rows["nodes"] = m.rows["nodes"]
      /\ q.rows["pollutants"] = m.rows["pollutants"]
  BY DEF Filing
<1>2. Matrices(m)
  BY WellFormedParts
<1>3. Matrices(q)
  BY <1>1, <1>2, MatricesFrame
<1>4. QED BY <1>3, WellFormedParts

\* Deletions of objects that are in no matrix
LEMMA WithoutWellFormed ==
  ASSUME NEW m, WellFormed(m), NEW k \in Main \ Filing, NEW i, NEW q, Without(m, q, k, i),
         DOMAIN q.mat = DOMAIN m.mat,
         q.mat.buildup = m.mat.buildup, q.mat.treatment = m.mat.treatment
  PROVE  WellFormed(q)
<1>1. Tables(q) /\ \A t \in Filing : q.rows[t] = m.rows[t]
  BY FilingSchema DEF Without
<1>2. QED BY <1>1, StandsWellFormed

\* Edits that keep the objects and the matrices
LEMMA KeptWellFormed ==
  ASSUME NEW m, WellFormed(m), NEW q, Kept(m, q)
  PROVE  WellFormed(q)
<1>1. Tables(q) /\ q.mat = m.mat /\ \A t \in Filing : q.rows[t] = m.rows[t]
  BY FilingSchema DEF Kept
<1>2. QED BY <1>1, StandsWellFormed

\* Row i of table k is struck out.
LEMMA StruckRows ==
  ASSUME NEW m, Tables(m), NEW k \in Main, NEW i \in Positions(m, k), NEW q,
         Count(q, k) = Count(m, k) - 1,
         \A j \in Positions(q, k) : q.rows[k][j] = m.rows[k][Up(i, j)]
  PROVE  Struck(m.rows[k], q.rows[k], i)
<1>1. Count(m, k) \in Nat
  BY TablesParts
<1>2. QED BY <1>1 DEF Struck, Count, Positions

\* A new object stands behind the others.
LEMMA LengthenedRows ==
  ASSUME NEW m, Tables(m), NEW k \in Main, NEW q, NEW id, Count(q, k) = Count(m, k) + 1,
         \A j \in Positions(q, k) : q.rows[k][j] = IF j = Count(m, k) + 1 THEN id ELSE m.rows[k][j]
  PROVE  Lengthened(m.rows[k], q.rows[k])
<1>1. Count(m, k) \in Nat
  BY TablesParts
<1>2. ASSUME NEW j \in 1 .. Count(m, k)
      PROVE  q.rows[k][j] = m.rows[k][j]
  <2>1. j \in Positions(q, k) /\ j # Count(m, k) + 1
    BY <1>1 DEF Positions
  <2>2. QED BY <2>1
<1>3. QED BY <1>1, <1>2 DEF Lengthened, Count

\* A new object behind the others disturbs no matrix.
LEMMA LengthenedFiled ==
  ASSUME NEW M, NEW objects, NEW pollutants, Filed(M, objects, pollutants), NEW names,
         Lengthened(objects, names)
  PROVE  Filed(M, names, pollutants)
<1>1. /\ Len(objects) \in Nat /\ Len(names) \in Nat /\ Len(objects) <= Len(names)
      /\ \A r \in 1 .. Len(objects) : names[r] = objects[r]
  BY DEF Lengthened
<1>2. QED BY <1>1, ExtendedFiled

\* The stripe of node n leaves the treatment matrix.
StripeErased(T, n) ==
  IF T.cols > 0 /\ n <= T.rows /\ Fits(T.cells, T.rows, T.cols)
  THEN [T EXCEPT !.cells = erase_matrix_row(@, T.rows, T.cols, n), !.rows = @ - 1]
  ELSE T

\* A node goes, with its stripe of the treatment matrix.
LEMMA NodeGoneWellFormed ==
  ASSUME NEW m, WellFormed(m), NEW n \in Positions(m, "nodes"), NEW q, WithoutNode(m, q, n),
         DOMAIN q.mat = DOMAIN m.mat, q.mat.buildup = m.mat.buildup,
         q.mat.treatment = StripeErased(m.mat.treatment, n)
  PROVE  WellFormed(q)
<1>1. Tables(m) /\ Matrices(m) /\ Tables(q)
  BY WellFormedParts DEF WithoutNode
<1>2. /\ "nodes" \in Main /\ "landuses" \in Main \ {"nodes", "links"}
      /\ "pollutants" \in Main \ {"nodes", "links"}
  BY MainSchema
<1>3. q.rows["landuses"] = m.rows["landuses"] /\ q.rows["pollutants"] = m.rows["pollutants"]
  BY <1>2 DEF WithoutNode
<1>4. Struck(m.rows["nodes"], q.rows["nodes"], n)
  BY <1>1, <1>2, StruckRows DEF WithoutNode
<1> DEFINE T == m.mat.treatment
           N == q.mat.treatment
<1>5. Filed(T, m.rows["nodes"], m.rows["pollutants"]) /\ Original(T)
      /\ Filed(m.mat.buildup, m.rows["landuses"], m.rows["pollutants"])
  BY <1>1 DEF Matrices
<1>6. Fits(T.cells, T.rows, T.cols) /\ T.rows \in Nat /\ T.cols \in Nat
  <2> DEFINE s == T.cells
             k == T.rows * T.cols
  <2>1. IsColumn(s, k) /\ T.rows \in Nat /\ T.cols \in Nat
    BY <1>5 DEF Filed
  <2> HIDE DEF s, k
  <2>2. Len(s) = k
    BY <2>1, ColumnFacts
  <2>3. QED BY <2>1, <2>2 DEF Fits, s, k
<1>7. (N = RowErased(T, n) /\ n <= T.rows) \/ (N = T /\ (T.rows < n \/ T.cols = 0))
  <2>1. n \in Nat
    BY <1>1, <1>2, TablesParts
  <2>2. CASE T.cols > 0 /\ n <= T.rows
    BY <1>6, <2>2 DEF StripeErased, RowErased
  <2>3. CASE ~(T.cols > 0 /\ n <= T.rows)
    <3>1. N = T
      BY <2>3 DEF StripeErased
    <3> HIDE DEF N, T
    <3>2. QED BY <1>6, <2>1, <2>3, <3>1
  <2>4. QED BY <2>2, <2>3
<1> HIDE DEF N, T
<1>8. Filed(N, q.rows["nodes"], q.rows["pollutants"]) /\ Original(N)
  <2>1. Filed(N, q.rows["nodes"], m.rows["pollutants"]) /\ (Original(T) => Original(N))
    BY <1>4, <1>5, <1>7, RowErasedFiled
  <2>2. QED BY <1>3, <1>5, <2>1
<1>9. Filed(q.mat.buildup, q.rows["landuses"], q.rows["pollutants"])
  BY <1>3, <1>5
<1>10. Matrices(q)
  BY <1>1, <1>8, <1>9 DEF Matrices, N
<1>11. QED BY <1>1, <1>10, WellFormedParts

\* A landuse goes, with its row of the buildup matrix.
LEMMA LanduseGoneWellFormed ==
  ASSUME NEW m, WellFormed(m), NEW u \in Positions(m, "landuses")
  PROVE  WellFormed(delete_landuse(m, u))
<1> DEFINE q == delete_landuse(m, u)
           B == m.mat.buildup
           N == q.mat.buildup
<1>1. Tables(m) /\ Matrices(m) /\ DOMAIN m.mat = MatNames
  BY WellFormedParts DEF Matrices, MatNames
<1>2. /\ Without(m, q, "landuses", u) /\ DOMAIN q.mat = DOMAIN m.mat
      /\ q.mat.treatment = m.mat.treatment
      /\ N = IF B.rows >= u /\ B.cols = Count(m, "pollutants") THEN RowErased(B, u) ELSE B
  BY <1>1, LanduseDeleted DEF RowErased
<1> HIDE DEF q, N, B
<1>3. /\ "landuses" \in Main /\ "nodes" \in Main \ {"landuses"} /\ "pollutants" \in Main \ {"landuses"}
  BY MainSchema
<1>4. q.rows["nodes"] = m.rows["nodes"] /\ q.rows["pollutants"] = m.rows["pollutants"] /\ Tables(q)
  BY <1>2, <1>3 DEF Without
<1>5. Struck(m.rows["landuses"], q.rows["landuses"], u)
  BY <1>1, <1>2, <1>3, StruckRows DEF Without
<1>6. /\ Filed(B, m.rows["landuses"], m.rows["pollutants"])
      /\ Filed(m.mat.treatment, m.rows["nodes"], m.rows["pollutants"]) /\ Original(m.mat.treatment)
  BY <1>1 DEF Matrices, B
<1>7. B.rows \in Nat /\ B.cols \in Nat /\ (B.rows # 0 /\ B.cols # 0 => B.cols = Len(m.rows["pollutants"]))
  BY <1>6 DEF Filed
<1>8. (N = RowErased(B, u) /\ u <= B.rows) \/ (N = B /\ (B.rows < u \/ B.cols = 0))
  <2>1. u \in Nat /\ u # 0
    BY <1>1, <1>3, TablesParts
  <2>2. QED BY <1>2, <1>7, <2>1 DEF Count
<1>9. Filed(N, q.rows["landuses"], m.rows["pollutants"])
  BY <1>5, <1>6, <1>8, RowErasedFiled
<1>10. Matrices(q)
  BY <1>1, <1>2, <1>4, <1>6, <1>9 DEF Matrices, N, MatNames
<1>11. QED BY <1>4, <1>10, WellFormedParts DEF q

\* A pollutant goes, with its column of both matrices.
LEMMA PollutantGoneWellFormed ==
  ASSUME NEW m, WellFormed(m), NEW p \in Positions(m, "pollutants")
  PROVE  WellFormed(delete_pollutant(m, p))
<1> DEFINE q == delete_pollutant(m, p)
           Narrowed(x) == Packed(m.mat[x], Len(m.rows["pollutants"]), m.mat[x].rows, p)
<1>1. Tables(m) /\ Matrices(m) /\ DOMAIN m.mat = MatNames
  BY WellFormedParts DEF Matrices, MatNames
<1>2. /\ Without(m, q, "pollutants", p) /\ DOMAIN q.mat = DOMAIN m.mat
      /\ \A x \in {"buildup", "treatment"} : q.mat[x] = Narrowed(x)
  BY <1>1, PollutantDeleted DEF Count
<1> HIDE DEF q
<1>3. /\ "pollutants" \in Main /\ "nodes" \in Main \ {"pollutants"} /\ "landuses" \in Main \ {"pollutants"}
  BY MainSchema
<1>4. q.rows["nodes"] = m.rows["nodes"] /\ q.rows["landuses"] = m.rows["landuses"] /\ Tables(q)
  BY <1>2, <1>3 DEF Without
<1>5. Struck(m.rows["pollutants"], q.rows["pollutants"], p)
  BY <1>1, <1>2, <1>3, StruckRows DEF Without
<1>6. /\ Filed(m.mat["buildup"], m.rows["landuses"], m.rows["pollutants"])
      /\ Filed(m.mat["treatment"], m.rows["nodes"], m.rows["pollutants"])
      /\ Original(m.mat["treatment"])
  BY <1>1 DEF Matrices
<1>7. Filed(Narrowed("buildup"), m.rows["landuses"], q.rows["pollutants"])
  BY <1>5, <1>6, ColumnErasedFiled
<1>8. Filed(Narrowed("treatment"), m.rows["nodes"], q.rows["pollutants"]) /\ Original(Narrowed("treatment"))
  BY <1>5, <1>6, ColumnErasedFiled
<1> HIDE DEF Narrowed
<1>9. q.mat["buildup"] = Narrowed("buildup") /\ q.mat["treatment"] = Narrowed("treatment")
  BY <1>2
<1>10. Matrices(q)
  BY <1>1, <1>2, <1>4, <1>7, <1>8, <1>9 DEF Matrices, MatNames
<1>11. QED BY <1>4, <1>10, WellFormedParts DEF q

\* swmm_node_delete
LEMMA NodeDeletedWellFormed ==
  ASSUME NEW m, WellFormed(m), NEW n \in Positions(m, "nodes")
  PROVE  WellFormed(delete_node(m, n))
<1>1. Tables(m) /\ DOMAIN m.mat = MatNames
  BY WellFormedParts DEF Matrices, MatNames
<1> DEFINE q == delete_node(m, n)
<1>2. /\ WithoutNode(m, q, n) /\ DOMAIN q.mat = DOMAIN m.mat
      /\ q.mat.buildup = m.mat.buildup /\ q.mat.treatment = StripeErased(m.mat.treatment, n)
  BY <1>1, NodeDeleted DEF StripeErased
<1> HIDE DEF q
<1>3. WellFormed(q)
  BY <1>2, NodeGoneWellFormed
<1>4. QED BY <1>3 DEF q

\* swmm_virtual_junction_fuse
LEMMA FusedWellFormed ==
  ASSUME NEW m, WellFormed(m), NEW n \in Positions(m, "nodes"), MayFuse(m, n)
  PROVE  WellFormed(vj_fuse(m, n))
<1>1. Tables(m) /\ DOMAIN m.mat = MatNames
  BY WellFormedParts DEF Matrices, MatNames
<1> DEFINE q == vj_fuse(m, n)
<1>2. /\ WithoutNode(m, q, n) /\ DOMAIN q.mat = DOMAIN m.mat
      /\ q.mat.buildup = m.mat.buildup /\ q.mat.treatment = StripeErased(m.mat.treatment, n)
  BY <1>1, FuseSound DEF StripeErased
<1> HIDE DEF q
<1>3. WellFormed(q)
  BY <1>2, NodeGoneWellFormed
<1>4. QED BY <1>3 DEF q

\* A new node has no treatment.
LEMMA NodeMadeWellFormed ==
  ASSUME NEW m, WellFormed(m), NEW q, NEW id, Tables(q), q.mat = m.mat,
         \A t \in Main \ {"nodes", "links"} : q.rows[t] = m.rows[t],
         Count(q, "nodes") = Count(m, "nodes") + 1,
         \A j \in Positions(q, "nodes") :
           q.rows["nodes"][j] = IF j = Count(m, "nodes") + 1 THEN id ELSE m.rows["nodes"][j]
  PROVE  WellFormed(q)
<1>1. Tables(m) /\ Matrices(m)
  BY WellFormedParts
<1>2. /\ "nodes" \in Main /\ "landuses" \in Main \ {"nodes", "links"}
      /\ "pollutants" \in Main \ {"nodes", "links"}
  BY MainSchema
<1>3. q.rows["landuses"] = m.rows["landuses"] /\ q.rows["pollutants"] = m.rows["pollutants"]
  BY <1>2
<1>4. Lengthened(m.rows["nodes"], q.rows["nodes"])
  BY <1>1, <1>2, LengthenedRows
<1>5. /\ Filed(m.mat.treatment, m.rows["nodes"], m.rows["pollutants"]) /\ Original(m.mat.treatment)
      /\ Filed(m.mat.buildup, m.rows["landuses"], m.rows["pollutants"])
      /\ DOMAIN m.mat = {"buildup", "treatment", "coverage", "conc"}
  BY <1>1 DEF Matrices
<1>6. Filed(m.mat.treatment, q.rows["nodes"], m.rows["pollutants"])
  BY <1>4, <1>5, LengthenedFiled
<1>7. Matrices(q)
  BY <1>3, <1>5, <1>6 DEF Matrices
<1>8. QED BY <1>7, WellFormedParts

\* swmm_node_add
LEMMA NodeAddedWellFormed ==
  ASSUME NEW m, WellFormed(m), NEW id, NEW type \in NodeTypes
  PROVE  WellFormed(set_type(GrowRows(m, "nodes", id), "nodes", Count(m, "nodes") + 1, type))
<1> DEFINE q == set_type(GrowRows(m, "nodes", id), "nodes", Count(m, "nodes") + 1, type)
<1>1. Tables(m)
  BY WellFormedParts
<1>2. With(m, q, "nodes", id)
  BY <1>1, ColumnTables, ObjectGrown
<1> HIDE DEF q
<1>3. WellFormed(q)
  BY <1>2, NodeMadeWellFormed DEF With
<1>4. QED BY <1>3 DEF q

\* swmm_conduit_split
LEMMA SplitWellFormed ==
  ASSUME NEW m, WellFormed(m), NEW l \in Positions(m, "links"), NEW id, NEW lid, NEW virtual
  PROVE  WellFormed(vj_split_conduit(m, l, id, lid, virtual))
<1> DEFINE q == vj_split_conduit(m, l, id, lid, virtual)
<1>1. Tables(m)
  BY WellFormedParts
<1>2. WithLinkedNode(m, q, id)
  BY <1>1, ConduitSplitSound
<1> HIDE DEF q
<1>3. WellFormed(q)
  BY <1>2, NodeMadeWellFormed DEF WithLinkedNode
<1>4. QED BY <1>3 DEF q

\* swmm_link_add
LEMMA LinkAddedWellFormed ==
  ASSUME NEW m, WellFormed(m), NEW id, NEW type \in LinkTypes
  PROVE  WellFormed(set_type(GrowRows(m, "links", id), "links", Count(m, "links") + 1, type))
<1> DEFINE q == set_type(GrowRows(m, "links", id), "links", Count(m, "links") + 1, type)
<1>1. Tables(m)
  BY WellFormedParts
<1>2. With(m, q, "links", id)
  BY <1>1, ColumnTables, ObjectGrown
<1> HIDE DEF q
<1>3. Tables(q) /\ q.mat = m.mat /\ \A t \in Filing : q.rows[t] = m.rows[t]
  BY <1>2, FilingSchema DEF With, Filing
<1>4. WellFormed(q)
  BY <1>3, StandsWellFormed
<1>5. QED BY <1>4 DEF q

\* swmm_subcatch_add
LEMMA SubcatchAddedWellFormed ==
  ASSUME NEW m, WellFormed(m), NEW id
  PROVE  WellFormed(GrowRows(m, "subcatches", id))
<1> DEFINE q == GrowRows(m, "subcatches", id)
<1>1. Tables(m) /\ Columns(m)
  BY WellFormedParts DEF Tables
<1>2. "subcatches" \in Main /\ "subcatches" \notin DOMAIN TypeColumn /\ "subcatches" \in Kinds
  BY MainSchema, TypeSchema DEF Main
<1>3. Tables(q)
  BY <1>1, <1>2, PlainGrown
<1>4. q.mat = m.mat /\ \A t \in Kinds \ {"subcatches"} : q.rows[t] = m.rows[t]
  BY <1>1, <1>2, GrowFacts
<1> HIDE DEF q
<1>5. \A t \in Filing : q.rows[t] = m.rows[t]
  BY <1>4, FilingSchema DEF Filing
<1>6. WellFormed(q)
  BY <1>3, <1>4, <1>5, StandsWellFormed
<1>7. QED BY <1>6 DEF q

\* swmm_landuse_add: one row more in the buildup matrix
LEMMA LanduseAddedWellFormed ==
  ASSUME NEW m, WellFormed(m), NEW id
  PROVE  WellFormed(landuse_add(m, id))
<1> DEFINE g == GrowRows(m, "landuses", id)
           q == landuse_add(m, id)
           n == Count(m, "landuses") + 1
           np == Count(m, "pollutants")
           B == m.mat.buildup
           N == [rows |-> n, cols |-> np, cells |-> Resized(B.cells, n * np)]
<1>1. Tables(m) /\ Columns(m) /\ Matrices(m)
  BY WellFormedParts DEF Tables
<1>2. /\ "landuses" \in Main /\ "landuses" \notin DOMAIN TypeColumn /\ "landuses" \in Kinds
      /\ "nodes" \in Kinds \ {"landuses"} /\ "pollutants" \in Kinds \ {"landuses"} /\ "pollutants" \in Main
  BY MainSchema, TypeSchema DEF Main
<1>3. Tables(g) /\ Columns(g)
  BY <1>1, <1>2, PlainGrown DEF Tables
<1>4. /\ g.mat = m.mat /\ \A t \in Kinds \ {"landuses"} : g.rows[t] = m.rows[t]
      /\ Count(g, "landuses") = n
      /\ \A j \in Positions(g, "landuses") :
           g.rows["landuses"][j] = IF j = n THEN id ELSE m.rows["landuses"][j]
  BY <1>1, <1>2, GrowFacts
<1>5. Lengthened(m.rows["landuses"], g.rows["landuses"])
  BY <1>1, <1>2, <1>4, LengthenedRows
<1>6. n \in Nat /\ np \in Nat
  BY <1>1, <1>2, TablesParts
<1>7. /\ Filed(B, m.rows["landuses"], m.rows["pollutants"])
      /\ Filed(m.mat.treatment, m.rows["nodes"], m.rows["pollutants"]) /\ Original(m.mat.treatment)
      /\ DOMAIN m.mat = {"buildup", "treatment", "coverage", "conc"}
  BY <1>1 DEF Matrices
<1>8. /\ DOMAIN g = {"rows", "ref", "name", "data", "subtype_row", "mat"}
  BY <1>3, ColumnsDomain
<1> HIDE DEF g
<1>9. /\ MatOnly(g, q) /\ DOMAIN q.mat = DOMAIN m.mat /\ q.mat.treatment = m.mat.treatment
      /\ q.mat.buildup = IF np > 0 THEN N ELSE B
  <2> DEFINE C == m.mat.coverage
             cov == IF Count(m, "subcatches") > 0
                    THEN [C EXCEPT !.cells = IF C.cols = n - 1 /\ Fits(C.cells, Count(m, "subcatches"), C.cols)
                                             THEN InsertColumn(C.cells, Count(m, "subcatches"), C.cols)
                                             ELSE Zeros(Count(m, "subcatches") * n),
                                   !.cols = n]
                    ELSE C
  <2>1. q = [g EXCEPT !.mat.buildup = IF np > 0 THEN N ELSE B, !.mat.coverage = cov]
    BY <1>4, <1>7 DEF landuse_add, g
  <2> HIDE DEF q, cov, N, B
  <2> DEFINE b == IF np > 0 THEN N ELSE B
  <2>2. q = [g EXCEPT !.mat.buildup = b, !.mat.coverage = cov]
    BY <2>1
  <2> HIDE DEF b
  <2>3. /\ MatOnly(g, q) /\ q.mat = [g.mat EXCEPT !.buildup = b, !.coverage = cov]
    BY <1>8, <2>2 DEF MatOnly
  <2>4. DOMAIN q.mat = DOMAIN m.mat /\ q.mat.treatment = m.mat.treatment /\ q.mat.buildup = b
    BY <1>4, <1>7, <2>3
  <2>5. QED BY <2>3, <2>4 DEF b
<1> HIDE DEF q
<1>10. Tables(q) /\ q.rows = g.rows
  BY <1>3, <1>9, MatOnlyTables DEF MatOnly
<1>11. q.rows["nodes"] = m.rows["nodes"] /\ q.rows["pollutants"] = m.rows["pollutants"]
  BY <1>2, <1>4, <1>10
<1>12. Filed(q.mat.buildup, q.rows["landuses"], m.rows["pollutants"])
  <2>1. CASE np > 0
    <3>1. Filed(N, g.rows["landuses"], m.rows["pollutants"])
      <4> HIDE DEF B, n
      <4>1. np = Len(m.rows["pollutants"])
        BY DEF Count
      <4> HIDE DEF np
      <4>2. QED BY <1>5, <1>6, <1>7, <4>1, RowAddedFiled
    <3> HIDE DEF N, B, n
    <3>2. q.mat.buildup = N
      BY <1>9, <2>1
    <3>3. QED BY <1>10, <3>1, <3>2
  <2>2. CASE ~(np > 0)
    <3>1. Filed(B, g.rows["landuses"], m.rows["pollutants"])
      BY <1>5, <1>7, LengthenedFiled
    <3>2. QED BY <1>9, <1>10, <2>2, <3>1
  <2>3. QED BY <2>1, <2>2
<1>13. Matrices(q)
  BY <1>7, <1>9, <1>11, <1>12 DEF Matrices
<1>14. QED BY <1>10, <1>13, WellFormedParts DEF q

\* swmm_pollutant_add: one column more in both matrices, if they have rows
LEMMA PollutantAddedWellFormed ==
  ASSUME NEW m, WellFormed(m), NEW id
  PROVE  WellFormed(pollutant_add(m, id))
<1> DEFINE g == GrowRows(m, "pollutants", id)
           q == pollutant_add(m, id)
           np == Count(m, "pollutants")
           Wide(x) == Widened(m.mat[x], np, m.mat[x].rows)
<1>1. Tables(m) /\ Columns(m) /\ Matrices(m)
  BY WellFormedParts DEF Tables
<1>2. /\ "pollutants" \in Main /\ "pollutants" \notin DOMAIN TypeColumn /\ "pollutants" \in Kinds
      /\ "nodes" \in Kinds \ {"pollutants"} /\ "landuses" \in Kinds \ {"pollutants"}
  BY MainSchema, TypeSchema DEF Main
<1>3. Tables(g) /\ Columns(g)
  BY <1>1, <1>2, PlainGrown DEF Tables
<1>4. /\ g.mat = m.mat /\ \A t \in Kinds \ {"pollutants"} : g.rows[t] = m.rows[t]
      /\ Count(g, "pollutants") = np + 1
      /\ \A j \in Positions(g, "pollutants") :
           g.rows["pollutants"][j] = IF j = np + 1 THEN id ELSE m.rows["pollutants"][j]
  BY <1>1, <1>2, GrowFacts
<1>5. Lengthened(m.rows["pollutants"], g.rows["pollutants"])
  BY <1>1, <1>2, <1>4, LengthenedRows
<1>6. /\ Filed(m.mat["buildup"], m.rows["landuses"], m.rows["pollutants"])
      /\ Filed(m.mat["treatment"], m.rows["nodes"], m.rows["pollutants"]) /\ Original(m.mat["treatment"])
      /\ DOMAIN m.mat = {"buildup", "treatment", "coverage", "conc"}
  BY <1>1 DEF Matrices
<1>7. /\ DOMAIN g = {"rows", "ref", "name", "data", "subtype_row", "mat"}
  BY <1>3, ColumnsDomain
<1>8. Filed(Wide("buildup"), m.rows["landuses"], g.rows["pollutants"])
  BY <1>5, <1>6, ColumnAddedFiled DEF Count
<1>9. Filed(Wide("treatment"), m.rows["nodes"], g.rows["pollutants"]) /\ Original(Wide("treatment"))
  BY <1>5, <1>6, ColumnAddedFiled DEF Count
<1> HIDE DEF g
<1>10. /\ MatOnly(g, q) /\ DOMAIN q.mat = DOMAIN m.mat
       /\ q.mat["buildup"] = Wide("buildup") /\ q.mat["treatment"] = Wide("treatment")
  <2> DEFINE b == Wide("buildup")
             t == Wide("treatment")
             c == Widened(m.mat["conc"], np, Count(m, "subcatches"))
  <2>1. q = [g EXCEPT !.mat.buildup = b, !.mat.treatment = t, !.mat.conc = c]
    BY <1>4, <1>6, <1>7 DEF pollutant_add, g
  <2> HIDE DEF q, b, t, c
  <2>2. MatOnly(g, q) /\ q.mat = [g.mat EXCEPT !.buildup = b, !.treatment = t, !.conc = c]
    BY <1>7, <2>1 DEF MatOnly
  <2>3. DOMAIN q.mat = DOMAIN m.mat /\ q.mat["buildup"] = b /\ q.mat["treatment"] = t
    BY <1>4, <1>6, <2>2
  <2>4. QED BY <2>2, <2>3 DEF b, t
<1> HIDE DEF q, Wide
<1>11. Tables(q) /\ q.rows = g.rows
  BY <1>3, <1>10, MatOnlyTables DEF MatOnly
<1>12. q.rows["nodes"] = m.rows["nodes"] /\ q.rows["landuses"] = m.rows["landuses"]
  BY <1>2, <1>4, <1>11
<1>13. Matrices(q)
  BY <1>6, <1>8, <1>9, <1>10, <1>11, <1>12 DEF Matrices
<1>14. QED BY <1>11, <1>13, WellFormedParts DEF q

\* swmm_subcatch_set_coverage: the coverage matrix is not filed by pollutant.
LEMMA CoverageSetWellFormed ==
  ASSUME NEW m, WellFormed(m), NEW s, NEW u
  PROVE  WellFormed(set_coverage(m, s, u))
<1> DEFINE q == set_coverage(m, s, u)
<1>1. Tables(m) /\ Columns(m) /\ Matrices(m)
  BY WellFormedParts DEF Tables
<1>2. /\ DOMAIN m = {"rows", "ref", "name", "data", "subtype_row", "mat"}
      /\ DOMAIN m.mat = {"buildup", "treatment", "coverage", "conc"}
  BY <1>1, ColumnsDomain DEF Matrices
<1>3. PICK C : q = [m EXCEPT !.mat.coverage = C]
  BY DEF set_coverage
<1> HIDE DEF q
<1>4. MatOnly(m, q) /\ q.mat = [m.mat EXCEPT !.coverage = C]
  BY <1>2, <1>3 DEF MatOnly
<1>5. Tables(q) /\ q.rows = m.rows
  BY <1>1, <1>4, MatOnlyTables DEF MatOnly
<1>6. /\ DOMAIN q.mat = DOMAIN m.mat /\ q.mat.buildup = m.mat.buildup
      /\ q.mat.treatment = m.mat.treatment
  BY <1>2, <1>4
<1>7. WellFormed(q)
  BY <1>5, <1>6, StandsWellFormed
<1>8. QED BY <1>7 DEF q

\* The last node goes: it is one of the session's own, so no treatment goes.
LEMMA LastNodeWellFormed ==
  ASSUME NEW m, WellFormed(m), NEW n, n = Count(m, "nodes"), m.rows["nodes"][n] \in NewNames,
         NEW q, Without(m, q, "nodes", n), q.mat = m.mat
  PROVE  WellFormed(q)
<1>1. Tables(m) /\ Matrices(m) /\ Tables(q)
  BY WellFormedParts DEF Without
<1>2. /\ "nodes" \in Main /\ "landuses" \in Main \ {"nodes"} /\ "pollutants" \in Main \ {"nodes"}
  BY MainSchema
<1>3. q.rows["landuses"] = m.rows["landuses"] /\ q.rows["pollutants"] = m.rows["pollutants"]
  BY <1>2 DEF Without
<1>4. /\ n \in Nat /\ Len(m.rows["nodes"]) = n /\ Len(q.rows["nodes"]) = n - 1
      /\ \A j \in 1 .. n - 1 : q.rows["nodes"][j] = m.rows["nodes"][j]
  <2>1. n \in Nat
    BY <1>1, <1>2, TablesParts
  <2>2. Count(q, "nodes") = n - 1 /\ Positions(q, "nodes") = 1 .. n - 1
    BY DEF Without, Positions
  <2>3. \A j \in 1 .. n - 1 : Up(n, j) = j
    BY <2>1 DEF Up
  <2>4. \A j \in 1 .. n - 1 : q.rows["nodes"][j] = m.rows["nodes"][j]
    BY <2>2, <2>3 DEF Without
  <2>5. QED BY <2>1, <2>2, <2>4 DEF Count
<1> DEFINE T == m.mat.treatment
<1>5. Filed(T, m.rows["nodes"], m.rows["pollutants"]) /\ Original(T)
      /\ Filed(m.mat.buildup, m.rows["landuses"], m.rows["pollutants"])
      /\ DOMAIN m.mat = {"buildup", "treatment", "coverage", "conc"}
  BY <1>1 DEF Matrices
<1>6. Filed(T, q.rows["nodes"], m.rows["pollutants"])
  <2>1. ASSUME NEW r \in 1 .. T.rows, NEW c \in 1 .. T.cols, At(T, r, c) # ZeroCell
        PROVE  r <= Len(q.rows["nodes"]) /\ At(T, r, c) = <<q.rows["nodes"][r], m.rows["pollutants"][c]>>
    <3>1. r <= n /\ At(T, r, c) = <<m.rows["nodes"][r], m.rows["pollutants"][c]>>
      BY <1>4, <1>5, <2>1 DEF Filed
    <3>2. m.rows["nodes"][r] \notin NewNames
      <4>1. At(T, r, c)[1] \notin NewNames
        BY <1>5, <2>1 DEF Original
      <4>2. QED BY <3>1, <4>1
    <3>3. r # n
      BY <3>2
    <3>4. T.rows \in Nat
      BY <1>5 DEF Filed
    <3>5. r \in 1 .. n - 1
      BY <1>4, <3>1, <3>3, <3>4
    <3>6. QED BY <1>4, <3>1, <3>5
  <2>2. QED BY <1>5, <2>1 DEF Filed
<1>7. Matrices(q)
  BY <1>3, <1>5, <1>6 DEF Matrices
<1>8. QED BY <1>1, <1>7, WellFormedParts

\* swmm_node_pop_last and swmm_link_pop_last
LEMMA PopLastWellFormed ==
  ASSUME WellFormed(model), NEW k \in {"nodes", "links"}, PopLast(k)
  PROVE  WellFormed(model')
<1> DEFINE i == Count(model, k)
           q == EraseObject(model, k, i)
<1>1. Tables(model) /\ k \in Main /\ i \in Nat
  <2>1. k \in Main
    BY MainSchema
  <2>2. Tables(model)
    BY WellFormedParts
  <2>3. QED BY <2>1, <2>2, TablesParts
<1>2. /\ i # 0 /\ model.rows[k][i] \in NewNames /\ Unreferenced(k, i) /\ model' = q
  BY <1>1 DEF PopLast, Edit
<1>3. Cleared(model, k, i)
  <2>1. ASSUME NEW c \in Incoming(k) PROVE RowsAt(model, c, i) = {}
    <3>1. c \in DOMAIN Refs /\ Refs[c][2] = k /\ c \notin Unkept
      BY DEF Incoming
    <3>2. c \notin Range(Join)
      BY <3>1 DEF Unkept, Range
    <3>3. QED BY <1>2, <3>1, <3>2 DEF Unreferenced
  <2>2. QED BY <2>1 DEF Cleared
<1>4. Without(model, q, k, i) /\ q.mat = model.mat
  <2> HIDE DEF i
  <2>1. i = Count(model, k)
    BY DEF i
  <2>2. QED BY <1>1, <1>2, <1>3, <2>1, LastRemoved
<1> HIDE DEF q
<1>5. CASE k = "nodes"
  <2>1. WellFormed(q)
    BY <1>2, <1>4, <1>5, LastNodeWellFormed
  <2>2. QED BY <1>2, <2>1
<1>6. CASE k = "links"
  <2>1. k \in Main \ Filing
    BY <1>1, <1>6 DEF Filing
  <2>2. WellFormed(q)
    BY <1>4, <2>1, WithoutWellFormed
  <2>3. QED BY <1>2, <2>2
<1>7. QED BY <1>5, <1>6

\* A deletion of an object that is in no matrix
LEMMA PlainGoneWellFormed ==
  ASSUME NEW m, WellFormed(m), NEW k \in Main \ Filing, NEW i, NEW q,
         Without(m, q, k, i) /\ q.mat = m.mat
  PROVE  WellFormed(q)
BY WithoutWellFormed

\* Every deletion keeps the model well formed.
LEMMA DeleteWellFormed ==
  ASSUME WellFormed(model), Delete
  PROVE  WellFormed(model')
<1>1. Tables(model) /\ DOMAIN model.mat = MatNames
  BY WellFormedParts DEF Matrices, MatNames
<1>2. \A k \in {"links", "subcatches", "gages", "tables", "transects", "patterns", "aquifers",
               "snowpacks", "lid_controls", "streets", "inlets", "unit_hyds"} : k \in Main \ Filing
  BY MainSchema DEF Filing
<1>3. CASE NodeDelete
  BY <1>3, NodeDeletedWellFormed DEF NodeDelete, Edit
<1>4. CASE LinkDelete
  <2>1. PICK l \in Positions(model, "links") : model' = delete_link(model, l)
    BY <1>4 DEF LinkDelete, Edit
  <2>2. QED BY <1>1, <1>2, <2>1, LinkDeleted, PlainGoneWellFormed
<1>5. CASE SubcatchDelete
  <2>1. PICK s \in Positions(model, "subcatches") : model' = delete_subcatch(model, s)
    BY <1>5 DEF SubcatchDelete, Edit
  <2>2. /\ Without(model, delete_subcatch(model, s), "subcatches", s)
        /\ DOMAIN delete_subcatch(model, s).mat = DOMAIN model.mat
        /\ delete_subcatch(model, s).mat.buildup = model.mat.buildup
        /\ delete_subcatch(model, s).mat.treatment = model.mat.treatment
    BY <1>1, SubcatchDeleted DEF MatNames
  <2>3. QED BY <1>2, <2>1, <2>2, WithoutWellFormed
<1>6. CASE GageDelete
  <2>1. PICK g \in Positions(model, "gages") : model' = delete_gage(model, g)
    BY <1>6 DEF GageDelete, Edit
  <2>2. QED BY <1>1, <1>2, <2>1, GageDeleted, PlainGoneWellFormed
<1>7. CASE TableDelete
  <2>1. PICK t \in Positions(model, "tables") : model' = delete_table(model, t)
    BY <1>7 DEF TableDelete, Edit
  <2>2. QED BY <1>1, <1>2, <2>1, TableDeleted, PlainGoneWellFormed
<1>8. CASE TransectDelete
  <2>1. PICK t \in Positions(model, "transects") : model' = delete_transect(model, t)
    BY <1>8 DEF TransectDelete, Edit
  <2>2. QED BY <1>1, <1>2, <2>1, TransectDeleted, PlainGoneWellFormed
<1>9. CASE PollutantDelete
  BY <1>9, PollutantGoneWellFormed DEF PollutantDelete, Edit
<1>10. CASE PatternDelete
  <2>1. PICK p \in Positions(model, "patterns") : model' = delete_pattern(model, p)
    BY <1>10 DEF PatternDelete, Edit
  <2>2. QED BY <1>1, <1>2, <2>1, PatternDeleted, PlainGoneWellFormed
<1>11. CASE AquiferDelete
  <2>1. PICK a \in Positions(model, "aquifers") : model' = delete_aquifer(model, a)
    BY <1>11 DEF AquiferDelete, Edit
  <2>2. QED BY <1>1, <1>2, <2>1, AquiferDeleted, PlainGoneWellFormed
<1>12. CASE SnowpackDelete
  <2>1. PICK s \in Positions(model, "snowpacks") : model' = delete_snowpack(model, s)
    BY <1>12 DEF SnowpackDelete, Edit
  <2>2. QED BY <1>1, <1>2, <2>1, SnowpackDeleted, PlainGoneWellFormed
<1>13. CASE LidDelete
  <2>1. PICK i \in Positions(model, "lid_controls") : model' = delete_lid(model, i)
    BY <1>13 DEF LidDelete, Edit
  <2>2. QED BY <1>1, <1>2, <2>1, LidDeleted, PlainGoneWellFormed
<1>14. CASE StreetDelete
  <2>1. PICK s \in Positions(model, "streets") : model' = delete_street(model, s)
    BY <1>14 DEF StreetDelete, Edit
  <2>2. QED BY <1>1, <1>2, <2>1, StreetDeleted, PlainGoneWellFormed
<1>15. CASE InletDelete
  <2>1. PICK i \in Positions(model, "inlets") : model' = delete_inlet(model, i)
    BY <1>15 DEF InletDelete, Edit
  <2>2. QED BY <1>1, <1>2, <2>1, InletDeleted, PlainGoneWellFormed
<1>16. CASE LanduseDelete
  BY <1>16, LanduseGoneWellFormed DEF LanduseDelete, Edit
<1>17. CASE HydrographDelete
  <2>1. PICK h \in Positions(model, "unit_hyds") : model' = delete_hydrograph(model, h)
    BY <1>17 DEF HydrographDelete, Edit
  <2>2. QED BY <1>1, <1>2, <2>1, HydrographDeleted, PlainGoneWellFormed
<1>18. QED
  BY <1>3, <1>4, <1>5, <1>6, <1>7, <1>8, <1>9, <1>10, <1>11, <1>12, <1>13, <1>14, <1>15, <1>16,
     <1>17 DEF Delete

\* Every addition keeps the model well formed.
LEMMA AddWellFormed ==
  ASSUME WellFormed(model), Add
  PROVE  WellFormed(model')
<1>1. CASE NodeAdd
  BY <1>1, NodeAddedWellFormed DEF NodeAdd, Edit
<1>2. CASE LinkAdd
  BY <1>2, LinkAddedWellFormed DEF LinkAdd, Edit
<1>3. CASE SubcatchAdd
  BY <1>3, SubcatchAddedWellFormed DEF SubcatchAdd, Edit
<1>4. CASE LanduseAdd
  BY <1>4, LanduseAddedWellFormed DEF LanduseAdd, Edit
<1>5. CASE PollutantAdd
  BY <1>5, PollutantAddedWellFormed DEF PollutantAdd, Edit
<1>6. QED BY <1>1, <1>2, <1>3, <1>4, <1>5 DEF Add

\* So does every other edit.
LEMMA ChangeWellFormed ==
  ASSUME WellFormed(model), Change
  PROVE  WellFormed(model')
<1>1. Tables(model)
  BY WellFormedParts
<1>2. CASE NodePopLast
  BY <1>2, PopLastWellFormed DEF NodePopLast
<1>3. CASE LinkPopLast
  BY <1>3, PopLastWellFormed DEF LinkPopLast
<1>4. CASE LinkSetNodes
  <2>1. PICK l \in Positions(model, "links"), a, b \in AnyNode :
          model' = [model EXCEPT !.ref.node1[l] = a, !.ref.node2[l] = b]
    BY <1>4 DEF LinkSetNodes, Edit
  <2>2. Same(model, model')
    BY <1>1, <2>1, NodesSet DEF AnyNode
  <2>3. QED BY <2>2, SameKept, KeptWellFormed
<1>5. CASE SubcatchSetOutlet
  <2>1. PICK s \in Positions(model, "subcatches"), n \in AnyNode :
          model' = [model EXCEPT !.ref.outlet_node[s] = n]
    BY <1>5 DEF SubcatchSetOutlet, Edit
  <2>2. Same(model, model')
    BY <1>1, <2>1, OutletSet DEF AnyNode
  <2>3. QED BY <2>2, SameKept, KeptWellFormed
<1>6. CASE SetCoverage
  BY <1>6, CoverageSetWellFormed DEF SetCoverage, Edit
<1>7. CASE NodeConvert
  <2>1. PICK n \in Positions(model, "nodes"), type \in NodeTypes :
          model.data.node_type[n] # type /\ model' = convert_node(model, n, type)
    BY <1>7 DEF NodeConvert, Edit
  <2>2. QED BY <1>1, <2>1, NodeConverted, KeptWellFormed
<1>8. CASE LinkConvert
  <2>1. PICK l \in Positions(model, "links"), type \in LinkTypes :
          model.data.link_type[l] # type /\ model' = convert_link(model, l, type)
    BY <1>8 DEF LinkConvert, Edit
  <2>2. QED BY <1>1, <2>1, LinkConverted, KeptWellFormed
<1>9. CASE SetVirtual
  <2>1. PICK n \in Positions(model, "nodes"), on \in BOOLEAN :
          model' = [model EXCEPT !.data.is_virtual[n] = on]
    BY <1>9 DEF SetVirtual, Edit
  <2>2. Same(model, model')
    BY <1>1, <2>1, VirtualSet
  <2>3. QED BY <2>2, SameKept, KeptWellFormed
<1>10. CASE ConduitSplit
  BY <1>10, SplitWellFormed DEF ConduitSplit, Edit
<1>11. CASE VirtualJunctionFuse
  BY <1>11, FusedWellFormed DEF VirtualJunctionFuse, Edit
<1>12. QED
  BY <1>2, <1>3, <1>4, <1>5, <1>6, <1>7, <1>8, <1>9, <1>10, <1>11 DEF Change

\* Every model an editing session reaches is well formed.
THEOREM WellFormedCorrect == Spec => []WellFormed(model)
<1>1. Init => WellFormed(model)
  BY ModelsAssumption DEF Init
<1>2. WellFormed(model) /\ [Next]_vars => WellFormed(model)'
  <2> SUFFICES ASSUME WellFormed(model), [Next]_vars PROVE WellFormed(model')
    OBVIOUS
  <2>1. CASE Next
    BY <2>1, DeleteWellFormed, AddWellFormed, ChangeWellFormed DEF Next
  <2>2. CASE UNCHANGED vars
    BY <2>2 DEF vars
  <2>3. QED BY <2>1, <2>2
<1>3. QED BY <1>1, <1>2, PTL DEF Spec

-----------------------------------------------------------------------------
(* The properties *)

\* Every erased column has one entry per row; the others have at least that.
LEMMA ColumnsTyped ==
  ASSUME Columns(model), Backed(model)
  PROVE  EditTypeOK
<1>1. ASSUME NEW c \in DOMAIN Refs PROVE Len(model.ref[c]) = Count(model, Refs[c][1])
  <2> DEFINE s == model.ref[c]
             n == Count(model, Refs[c][1])
  <2>1. IsColumn(s, n)
    BY DEF Columns
  <2> HIDE DEF s, n
  <2>2. Len(s) = n
    BY <2>1, ColumnFacts
  <2>3. QED BY <2>2 DEF s, n
<1>2. ASSUME NEW c \in DOMAIN NameRefs PROVE Len(model.name[c]) = Count(model, NameRefs[c][1])
  <2> DEFINE s == model.name[c]
             n == Count(model, NameRefs[c][1])
  <2>1. IsColumn(s, n)
    BY DEF Columns
  <2> HIDE DEF s, n
  <2>2. Len(s) = n
    BY <2>1, ColumnFacts
  <2>3. QED BY <2>2 DEF s, n
<1>3. ASSUME NEW c \in DOMAIN DataCols
      PROVE  IF c \in NotErased THEN Len(model.data[c]) >= Count(model, DataCols[c][1])
             ELSE Len(model.data[c]) = Count(model, DataCols[c][1])
  BY DEF Columns
<1>4. ASSUME NEW k \in DOMAIN TypeColumn PROVE Len(model.subtype_row[k]) = Count(model, k)
  <2> DEFINE s == model.subtype_row[k]
             n == Count(model, k)
  <2>1. IsColumn(s, n)
    BY DEF Backed, Indexed
  <2> HIDE DEF s, n
  <2>2. Len(s) = n
    BY <2>1, ColumnFacts
  <2>3. QED BY <2>2 DEF s, n
<1>5. QED BY <1>1, <1>2, <1>3, <1>4 DEF EditTypeOK

\* The rows of side table t that belong to object i
LEMMA OwnRows ==
  ASSUME NEW m, Tables(m), NEW k \in DOMAIN TypeColumn, NEW i \in Positions(m, k), NEW t \in SideTables(k)
  PROVE  /\ Cardinality(RowsAt(m, Join[t], i)) = IF Owned(m, k, t, i) THEN 1 ELSE 0
         /\ Owned(m, k, t, i) => /\ RowIn(m, k, t, i) # 0
                                 /\ m.rows[t][RowIn(m, k, t, i)] = m.rows[k][i]
<1> DEFINE R == RowsAt(m, Join[t], i)
<1>1. Columns(m) /\ Keyed(m, k) /\ Indexed(m, k)
  BY DEF Tables, Backed
<1>2. /\ t \in DOMAIN Join /\ Join[t] \in DOMAIN Refs /\ Refs[Join[t]][1] = t /\ t \in Kinds
      /\ k \in Kinds
  BY JoinSchema, TypeSchema DEF SideTables
<1>3. Count(m, t) \in Nat /\ Count(m, k) \in Nat /\ DOMAIN m.ref[Join[t]] = Positions(m, t)
  BY <1>1, <1>2, ColumnsDomain
<1>4. \A r : r \in R <=> r \in Positions(m, t) /\ Key(m, t, r) = i
  BY <1>3 DEF RowsAt, Key
<1> HIDE DEF R
<1>5. CASE Owned(m, k, t, i)
  <2>1. PICK r \in Positions(m, t) : Key(m, t, r) = i
    BY <1>1, <1>5 DEF Keyed
  <2>2. R = {r}
    <3>1. ASSUME NEW y \in R PROVE y = r
      BY <1>1, <1>3, <1>4, <2>1, <3>1, KeyUnique
    <3>2. QED BY <1>4, <2>1, <3>1
  <2>3. Cardinality(R) = 1
    BY <2>2, FS_Singleton
  <2> DEFINE x == m.subtype_row[k][i]
  <2>4. x \in Positions(m, t) /\ Key(m, t, x) = i
    BY <1>1, <1>5 DEF Indexed, Owned
  <2>5. x # 0
    BY <1>3, <2>4 DEF Positions
  <2>6. RowIn(m, k, t, i) = x
    BY <2>4 DEF RowIn, Key
  <2>7. m.rows[t][x] = m.rows[k][i]
    BY <1>1, <2>4 DEF Keyed
  <2>8. QED BY <1>5, <2>3, <2>5, <2>6, <2>7 DEF R
<1>6. CASE ~ Owned(m, k, t, i)
  <2>1. R = {}
    BY <1>1, <1>4, <1>6 DEF Keyed
  <2>2. QED BY <1>6, <2>1, FS_EmptySet DEF R
<1>7. QED BY <1>5, <1>6

\* Sound tables have the rows that SubtypesMatch asks for.
LEMMA TablesMatch ==
  ASSUME Tables(model)
  PROVE  SubtypesMatch
<1>1. ASSUME NEW k \in DOMAIN TypeColumn, NEW i \in Positions(model, k), NEW t \in SideTables(k)
      PROVE  LET mine == model.data[TypeColumn[k]][i] # "JUNCTION"
                           /\ SideTable[model.data[TypeColumn[k]][i]] = t
             IN /\ Cardinality(RowsAt(model, Join[t], i)) = IF mine THEN 1 ELSE 0
                /\ mine => LET r == RowIn(model, k, t, i)
                           IN r # 0 /\ model.rows[t][r] = model.rows[k][i]
  BY OwnRows DEF Owned, TypeAt
<1>2. ASSUME NEW k \in DOMAIN TypeColumn, NEW t \in SideTables(k), NEW r \in 2 .. Count(model, t)
      PROVE  model.ref[Join[t]][r - 1] < model.ref[Join[t]][r]
  <2>1. Keyed(model, k) /\ Columns(model) /\ t \in Kinds
    BY JoinSchema DEF Tables, Backed, SideTables
  <2>2. Count(model, t) \in Nat
    BY <2>1, ColumnsDomain
  <2>3. r - 1 \in Positions(model, t) /\ r \in Positions(model, t) /\ r - 1 < r
    BY <2>2 DEF Positions
  <2>4. Key(model, t, r - 1) < Key(model, t, r)
    BY <2>1, <2>3 DEF Keyed
  <2>5. QED BY <2>4 DEF Key
<1>3. QED BY <1>1, <1>2 DEF SubtypesMatch

\* A filed matrix has its size and its entries in their place.
LEMMA FiledFits ==
  ASSUME NEW M, NEW objects, NEW pollutants, Filed(M, objects, pollutants)
  PROVE  /\ Fits(M.cells, M.rows, M.cols)
         /\ \A r \in 1 .. M.rows, c \in 1 .. M.cols :
              At(M, r, c) # ZeroCell => At(M, r, c) = <<objects[r], pollutants[c]>>
<1> DEFINE s == M.cells
           n == M.rows * M.cols
<1>1. IsColumn(s, n)
  BY DEF Filed
<1> HIDE DEF s, n
<1>2. Len(s) = n
  BY <1>1, ColumnFacts
<1>3. Fits(M.cells, M.rows, M.cols)
  BY <1>2 DEF Fits, s, n
<1>4. QED BY <1>3 DEF Filed

\* Every edit keeps the columns of a table at the number of its rows.
THEOREM EditTypeCorrect == Spec => []EditTypeOK
<1>1. WellFormed(model) => EditTypeOK
  BY ColumnsTyped, WellFormedParts DEF Tables
<1>2. QED BY <1>1, WellFormedCorrect, PTL

\* Every edit keeps the side tables in step with the nodes and links they
\* belong to: one row for each object whose type has a table, none for another.
THEOREM SubtypesCorrect == Spec => []SubtypesMatch
<1>1. WellFormed(model) => SubtypesMatch
  BY TablesMatch, WellFormedParts
<1>2. QED BY <1>1, WellFormedCorrect, PTL

\* Every edit keeps the entered cells of the matrices at the row and the column
\* they were entered for.
THEOREM MatricesCorrect == Spec => []MatricesAligned
<1>1. WellFormed(model) => MatricesAligned
  <2> SUFFICES ASSUME WellFormed(model) PROVE MatricesAligned
    OBVIOUS
  <2>1. /\ Filed(model.mat.buildup, model.rows["landuses"], model.rows["pollutants"])
        /\ Filed(model.mat.treatment, model.rows["nodes"], model.rows["pollutants"])
    BY DEF WellFormed, Matrices
  <2>2. QED BY <2>1, FiledFits DEF MatricesAligned
<1>2. QED BY <1>1, WellFormedCorrect, PTL

-----------------------------------------------------------------------------
(* A model that is another one with rows behind it *)

Agrees(s, q, n) == \A r \in 1 .. n : q[r] = s[r]

\* u is m with one row more at the end of every table of E.
Prolongs(m, u, E) ==
  /\ Columns(u)
  /\ \A t \in Kinds : Count(u, t) = IF t \in E THEN Count(m, t) + 1 ELSE Count(m, t)
  /\ \A t \in Kinds : Agrees(m.rows[t], u.rows[t], Count(m, t))
  /\ \A c \in DOMAIN Refs \ {"route_to"} : Agrees(m.ref[c], u.ref[c], Count(m, Refs[c][1]))
  /\ \A c \in DOMAIN NameRefs : Agrees(m.name[c], u.name[c], Count(m, NameRefs[c][1]))

\* What the columns C of m refer to comes before row i.
Before(m, C, i) ==
  \A c \in (C \cap DOMAIN Refs) \ {"route_to"} : \A r \in 1 .. Count(m, Refs[c][1]) :
    m.ref[c][r] \in Int /\ m.ref[c][r] < i

\* The tables of a prolonged model reach at least as far.
LEMMA ProlongedCounts ==
  ASSUME NEW m, Columns(m), NEW u, NEW E, Prolongs(m, u, E)
  PROVE  \A t \in Kinds : /\ Count(m, t) \in Nat /\ Count(u, t) \in Nat
                          /\ 1 .. Count(m, t) \subseteq 1 .. Count(u, t)
<1>1. \A t \in Kinds : Count(m, t) \in Nat
  BY ColumnsDomain
<1>2. \A t \in Kinds : Count(u, t) = Count(m, t) \/ Count(u, t) = Count(m, t) + 1
  BY DEF Prolongs
<1>3. QED BY <1>1, <1>2

\* Nothing that the relation looks at has changed.
LEMMA ProlongedFrame ==
  ASSUME NEW m, NEW u, NEW E, Prolongs(m, u, E), NEW q, Columns(q),
         q.rows = u.rows, q.ref = u.ref, q.name = u.name
  PROVE  Prolongs(m, q, E)
BY DEF Prolongs, Count

\* References to a row behind those of m are not in the rows of m.
LEMMA NullifyProlonged ==
  ASSUME NEW m, Columns(m), NEW u, NEW E, Prolongs(m, u, E), NEW C, C \cap JoinCols = {},
         NEW i \in Int, Before(m, C, i)
  PROVE  Prolongs(m, Nullify(u, C, i), E)
<1> DEFINE q == Nullify(u, C, i)
<1>0. Columns(u)
  BY DEF Prolongs
<1>1. /\ Retouched(u, q) /\ q.name = u.name
      /\ \A c \in DOMAIN Refs : q.ref[c] = IF c \in C THEN Nullified(u.ref[c], i, 0) ELSE u.ref[c]
  BY <1>0, NullifyFacts
<1> HIDE DEF q
<1>2. Columns(q) /\ q.rows = u.rows
  BY <1>0, <1>1, RetouchedColumns DEF Retouched
<1>3. \A t : Count(q, t) = Count(u, t)
  BY <1>2 DEF Count
<1>4. ASSUME NEW c \in DOMAIN Refs \ {"route_to"}
      PROVE  Agrees(m.ref[c], q.ref[c], Count(m, Refs[c][1]))
  <2>1. Agrees(m.ref[c], u.ref[c], Count(m, Refs[c][1]))
    BY DEF Prolongs
  <2>2. CASE c \notin C
    BY <1>1, <2>1, <2>2
  <2>3. CASE c \in C
    <3>1. DOMAIN u.ref[c] = 1 .. Count(u, Refs[c][1]) /\ Refs[c][1] \in Kinds
      BY <1>0, ColumnsDomain, RefSchema DEF Positions
    <3>2. 1 .. Count(m, Refs[c][1]) \subseteq DOMAIN u.ref[c]
      BY <3>1, ProlongedCounts
    <3>3. q.ref[c] = Nullified(u.ref[c], i, 0)
      BY <1>1, <2>3
    <3>4. \A r \in 1 .. Count(m, Refs[c][1]) : m.ref[c][r] # i
      BY <2>3 DEF Before
    <3>5. QED BY <2>1, <3>2, <3>3, <3>4 DEF Agrees, Nullified
  <2>4. QED BY <2>2, <2>3
<1>5. QED BY <1>1, <1>2, <1>3, <1>4 DEF Prolongs, q

\* Renumbering behind the rows of m does not touch them.
LEMMA RenumberProlonged ==
  ASSUME NEW m, Columns(m), NEW u, NEW E, Prolongs(m, u, E), NEW C,
         NEW i \in Int, Before(m, C, i)
  PROVE  Prolongs(m, Renumber(u, C, i), E)
<1> DEFINE q == Renumber(u, C, i)
<1>0. Columns(u)
  BY DEF Prolongs
<1>1. /\ Columns(q) /\ q.rows = u.rows /\ q.name = u.name
      /\ \A c \in DOMAIN Refs : q.ref[c] = IF c \in C THEN renumber_refs(u.ref[c], i) ELSE u.ref[c]
  BY <1>0, RenumberColumns
<1> HIDE DEF q
<1>3. \A t : Count(q, t) = Count(u, t)
  BY <1>1 DEF Count
<1>4. ASSUME NEW c \in DOMAIN Refs \ {"route_to"}
      PROVE  Agrees(m.ref[c], q.ref[c], Count(m, Refs[c][1]))
  <2>1. Agrees(m.ref[c], u.ref[c], Count(m, Refs[c][1]))
    BY DEF Prolongs
  <2>2. CASE c \notin C
    BY <1>1, <2>1, <2>2
  <2>3. CASE c \in C
    <3>1. DOMAIN u.ref[c] = 1 .. Count(u, Refs[c][1]) /\ Refs[c][1] \in Kinds
      BY <1>0, ColumnsDomain, RefSchema DEF Positions
    <3>2. 1 .. Count(m, Refs[c][1]) \subseteq DOMAIN u.ref[c]
      BY <3>1, ProlongedCounts
    <3>3. q.ref[c] = renumber_refs(u.ref[c], i)
      BY <1>1, <2>3
    <3>4. \A r \in 1 .. Count(m, Refs[c][1]) : m.ref[c][r] \in Int /\ ~(m.ref[c][r] > i)
      BY <2>3 DEF Before
    <3>5. QED BY <2>1, <3>2, <3>3, <3>4 DEF Agrees, renumber_refs
  <2>4. QED BY <2>2, <2>3
<1>5. QED BY <1>1, <1>3, <1>4 DEF Prolongs, q

\* The first indices in ascending order are themselves.
LEMMA AscendingInterval ==
  ASSUME NEW n \in Nat
  PROVE  Cardinality(1 .. n) = n /\ \A j \in 1 .. n : Ascending(1 .. n)[j] = j
<1> DEFINE K == 1 .. n
           Upto(i) == {x \in K : x <= i}
<1>1. Cardinality(K) = n
  BY FS_Interval
<1>2. ASSUME NEW i \in K PROVE Cardinality(Upto(i)) = i
  <2>1. Upto(i) = 1 .. i /\ i \in Int /\ i >= 1
    OBVIOUS
  <2> HIDE DEF Upto
  <2>2. Cardinality(1 .. i) = IF 1 > i THEN 0 ELSE i - 1 + 1
    BY <2>1, FS_Interval
  <2>3. QED BY <2>1, <2>2
<1>3. \A j \in K : Ascending(K)[j] = CHOOSE i \in K : Cardinality(Upto(i)) = j
  BY <1>1 DEF Ascending
<1> HIDE DEF Upto
<1>4. ASSUME NEW j \in K PROVE Ascending(K)[j] = j
  <2>1. \E i \in K : Cardinality(Upto(i)) = j
    BY <1>2
  <2>2. Ascending(K)[j] \in K /\ Cardinality(Upto(Ascending(K)[j])) = j
    BY <1>3, <2>1
  <2>3. QED BY <1>2, <2>2
<1>5. QED BY <1>1, <1>4

\* Rows that are not rows of m are erased.
LEMMA EraseAllProlonged ==
  ASSUME NEW m, Columns(m), NEW u, NEW E, Prolongs(m, u, E), NEW gone,
         \A t \in DOMAIN gone : t \in Kinds /\ Left(u, gone, t) = 1 .. Count(m, t)
  PROVE  Prolongs(m, EraseAll(u, gone), E \ DOMAIN gone)
<1> DEFINE q == EraseAll(u, gone)
<1>0. Columns(u) /\ \A t \in Kinds : Count(m, t) \in Nat
  BY ColumnsDomain DEF Prolongs
<1>1. /\ Columns(q)
      /\ \A t \in Kinds : t \in DOMAIN gone => Count(q, t) = Cardinality(Left(u, gone, t))
      /\ \A t \in Kinds : t \notin DOMAIN gone => Count(q, t) = Count(u, t)
  BY <1>0, EraseAllSound
<1>2. /\ \A k \in Kinds :
           q.rows[k] = IF k \in DOMAIN gone THEN Selected(u.rows[k], Left(u, gone, k)) ELSE u.rows[k]
      /\ \A c \in DOMAIN Refs :
           q.ref[c] = IF Refs[c][1] \in DOMAIN gone
                      THEN Selected(u.ref[c], Left(u, gone, Refs[c][1])) ELSE u.ref[c]
      /\ \A c \in DOMAIN NameRefs :
           q.name[c] = IF NameRefs[c][1] \in DOMAIN gone
                       THEN Selected(u.name[c], Left(u, gone, NameRefs[c][1])) ELSE u.name[c]
  BY <1>0, EraseAllColumns
<1> HIDE DEF q
<1>3. ASSUME NEW s, NEW v, NEW t \in Kinds, Agrees(s, v, Count(m, t))
      PROVE  t \in DOMAIN gone => Agrees(s, Selected(v, Left(u, gone, t)), Count(m, t))
  <2>1. SUFFICES ASSUME t \in DOMAIN gone
                 PROVE  Agrees(s, Selected(v, 1 .. Count(m, t)), Count(m, t))
    OBVIOUS
  <2> DEFINE n == Count(m, t)
  <2>2. n \in Nat
    BY <1>0
  <2>3. Agrees(s, v, n)
    BY <1>3
  <2> HIDE DEF n
  <2>4. Cardinality(1 .. n) = n /\ \A j \in 1 .. n : Ascending(1 .. n)[j] = j
    BY <2>2, AscendingInterval
  <2>5. \A j \in 1 .. n : Selected(v, 1 .. n)[j] = v[j]
    BY <2>4 DEF Selected
  <2>6. QED BY <2>3, <2>5 DEF Agrees, n
<1>4. \A t \in Kinds : Count(q, t) = IF t \in E \ DOMAIN gone THEN Count(m, t) + 1 ELSE Count(m, t)
  <2>1. TAKE t \in Kinds
  <2>2. CASE t \in DOMAIN gone
    BY <1>0, <1>1, <2>2, AscendingInterval
  <2>3. CASE t \notin DOMAIN gone
    BY <1>1, <2>3 DEF Prolongs
  <2>4. QED BY <2>2, <2>3
<1>5. \A t \in Kinds : Agrees(m.rows[t], q.rows[t], Count(m, t))
  BY <1>2, <1>3 DEF Prolongs
<1>6. \A c \in DOMAIN Refs \ {"route_to"} : Agrees(m.ref[c], q.ref[c], Count(m, Refs[c][1]))
  BY <1>2, <1>3, RefSchema DEF Prolongs
<1>7. \A c \in DOMAIN NameRefs : Agrees(m.name[c], q.name[c], Count(m, NameRefs[c][1]))
  BY <1>2, <1>3, NameSchema DEF Prolongs
<1>8. QED BY <1>1, <1>4, <1>5, <1>6, <1>7 DEF Prolongs, q

\* Rows of one table that are not rows of m are erased.
LEMMA EraseRowsProlonged ==
  ASSUME NEW m, Columns(m), NEW u, NEW E, Prolongs(m, u, E), NEW k \in Kinds, NEW P,
         Positions(u, k) \ P = 1 .. Count(m, k)
  PROVE  Prolongs(m, EraseRows(u, k, P), E \ {k})
<1> DEFINE gone == [t \in {k} |-> P]
<1>1. DOMAIN gone = {k} /\ Left(u, gone, k) = 1 .. Count(m, k)
  BY DEF Left
<1>2. EraseRows(u, k, P) = EraseAll(u, gone)
  BY DEF EraseRows
<1> HIDE DEF gone
<1>3. Prolongs(m, EraseAll(u, gone), E \ DOMAIN gone)
  BY <1>1, EraseAllProlonged
<1>4. QED BY <1>1, <1>2, <1>3

\* No row of m refers to row i, so a cascade erases nothing.
LEMMA CascadeProlonged ==
  ASSUME NEW m, Columns(m), NEW u, NEW E, Prolongs(m, u, E), NEW c \in DOMAIN Refs \ {"route_to"},
         NEW i \in Int, Before(m, {c}, i), NEW t, t = Refs[c][1], t \notin E
  PROVE  /\ Prolongs(m, CascadeRows(u, t, c, i), E)
         /\ \A d \in DOMAIN Refs : Refs[d][1] # t => CascadeRows(u, t, c, i).ref[d] = u.ref[d]
<1>1. t \in Kinds /\ Columns(u)
  BY RefSchema DEF Prolongs
<1>2. DOMAIN u.ref[c] = 1 .. Count(m, t) /\ Positions(u, t) = 1 .. Count(m, t)
  BY <1>1, ColumnsDomain DEF Prolongs, Positions
<1>3. \A r \in 1 .. Count(m, t) : u.ref[c][r] = m.ref[c][r] /\ m.ref[c][r] # i
  BY DEF Prolongs, Agrees, Before
<1>4. RowsAt(u, c, i) = {}
  BY <1>2, <1>3 DEF RowsAt
<1>5. Positions(u, t) \ {} = 1 .. Count(m, t) /\ CascadeRows(u, t, c, i) = EraseRows(u, t, {})
  BY <1>2, <1>4 DEF CascadeRows
<1>6. Prolongs(m, EraseRows(u, t, {}), E \ {t})
  BY <1>1, <1>5, EraseRowsProlonged
<1>7. E \ {t} = E
  OBVIOUS
<1>8. \A d \in DOMAIN Refs : Refs[d][1] # t => EraseRows(u, t, {}).ref[d] = u.ref[d]
  <2> DEFINE q == EraseRows(u, t, {})
  <2>1. Erased(u, q, t, Positions(u, t) \ {})
    BY <1>1, EraseRowsFacts
  <2> HIDE DEF q
  <2>2. \A d \in DOMAIN Refs : Refs[d][1] # t => q.ref[d] = u.ref[d]
    BY <2>1 DEF Erased
  <2>3. QED BY <2>2 DEF q
<1>9. QED BY <1>5, <1>6, <1>7, <1>8

\* Rebuilding the index concerns nothing else.
LEMMA RebuildProlonged ==
  ASSUME NEW m, NEW u, NEW E, Prolongs(m, u, E), NEW k \in DOMAIN TypeColumn
  PROVE  Prolongs(m, rebuild_index(u, k), E)
<1> DEFINE RowOf(i) == UNION {RowsAt(u, Join[t], i) : t \in SideTables(k)}
           s == [i \in 1 .. Count(u, k) |-> IF RowOf(i) = {} THEN 0 ELSE CHOOSE r \in RowOf(i) : TRUE]
           q == rebuild_index(u, k)
<1>1. Columns(u)
  BY DEF Prolongs
<1>2. q = [u EXCEPT !.subtype_row[k] = s]
  BY DEF rebuild_index
<1> HIDE DEF s, q
<1>3. Reindexed(u, q, k)
  BY <1>1, <1>2, ColumnsDomain DEF Reindexed
<1>4. Columns(q) /\ q.rows = u.rows /\ q.ref = u.ref /\ q.name = u.name
  BY <1>1, <1>3, ReindexedFacts DEF Reindexed
<1>5. QED BY <1>4, ProlongedFrame DEF q

\* The last object of k is erased, and with it the last row of a side table.
LEMMA EraseObjectProlonged ==
  ASSUME NEW m, Columns(m), NEW u, NEW E, Prolongs(m, u, E), NEW k \in DOMAIN TypeColumn, k \in E,
         Before(m, {Join[t] : t \in SideTables(k)}, Count(m, k) + 1),
         \A t \in SideTables(k) : t \in E => Key(u, t, Count(m, t) + 1) = Count(m, k) + 1
  PROVE  Prolongs(m, EraseObject(u, k, Count(m, k) + 1), (E \ {k}) \ SideTables(k))
<1> DEFINE i == Count(m, k) + 1
           e == EraseRows(u, k, {i})
           gone == [t \in SideTables(k) |-> RowsAt(e, Join[t], i)]
           d == EraseAll(e, gone)
           C == {Join[t] : t \in SideTables(k)}
<1>1. EraseObject(u, k, i) = rebuild_index(Renumber(d, C, i), k)
  BY DEF EraseObject, erase_subtype
<1>2. /\ k \in Kinds /\ Columns(u) /\ Count(m, k) \in Nat /\ Count(u, k) = i
      /\ \A t \in SideTables(k) : /\ t \in DOMAIN Join /\ t \in Kinds /\ t # k
                                  /\ Join[t] \in DOMAIN Refs /\ Refs[Join[t]][1] = t
  BY SideSchema, ColumnsDomain DEF Prolongs
<1>3. Positions(u, k) \ {i} = 1 .. Count(m, k)
  BY <1>2 DEF Positions
<1>4. Prolongs(m, e, E \ {k})
  BY <1>2, <1>3, EraseRowsProlonged
<1>0. Erased(u, e, k, Positions(u, k) \ {i})
  BY <1>2, EraseRowsFacts
<1> HIDE DEF e
<1>5. \A t \in SideTables(k) : e.ref[Join[t]] = u.ref[Join[t]]
  <2>1. \A c \in DOMAIN Refs : Refs[c][1] # k => e.ref[c] = u.ref[c]
    BY <1>0 DEF Erased
  <2>2. QED BY <1>2, <2>1
<1>6. ASSUME NEW t \in SideTables(k)
      PROVE  t \in Kinds /\ Left(e, gone, t) = 1 .. Count(m, t)
  <2>1. Columns(e) /\ Count(m, t) \in Nat
    BY <1>2, <1>4, ColumnsDomain DEF Prolongs
  <2>2. DOMAIN e.ref[Join[t]] = 1 .. Count(e, t) /\ Positions(e, t) = 1 .. Count(e, t)
    <3>1. \A c \in DOMAIN Refs : DOMAIN e.ref[c] = Positions(e, Refs[c][1])
      BY <2>1, ColumnsDomain
    <3>2. QED BY <1>2, <3>1 DEF Positions
  <2>3. Join[t] # "route_to"
    BY <1>2 DEF Join
  <2>4. \A r \in 1 .. Count(m, t) : e.ref[Join[t]][r] = m.ref[Join[t]][r]
    BY <1>2, <1>4, <2>3 DEF Prolongs, Agrees
  <2>5. \A r \in 1 .. Count(m, t) : m.ref[Join[t]][r] # i
    BY <1>2, <2>3 DEF Before
  <2>6. Left(e, gone, t) = Positions(e, t) \ RowsAt(e, Join[t], i)
    BY DEF Left
  <2>7. CASE t \notin E
    <3>1. Count(e, t) = Count(m, t)
      BY <1>2, <1>4, <2>7 DEF Prolongs
    <3>2. RowsAt(e, Join[t], i) = {}
      BY <2>2, <2>4, <2>5, <3>1 DEF RowsAt
    <3>3. QED BY <1>2, <2>2, <2>6, <3>1, <3>2
  <2>8. CASE t \in E
    <3>1. Count(e, t) = Count(m, t) + 1
      BY <1>2, <1>4, <2>8 DEF Prolongs
    <3>2. e.ref[Join[t]][Count(m, t) + 1] = i
      BY <1>5, <2>8 DEF Key
    <3>3. RowsAt(e, Join[t], i) = {Count(m, t) + 1}
      <4>1. ASSUME NEW r \in 1 .. Count(m, t) + 1
            PROVE  r = Count(m, t) + 1 \/ r \in 1 .. Count(m, t)
        BY <2>1
      <4>2. Count(m, t) + 1 \in 1 .. Count(m, t) + 1
        BY <2>1
      <4>3. \A r \in 1 .. Count(m, t) : r # Count(m, t) + 1 /\ r \in 1 .. Count(m, t) + 1
        BY <2>1
      <4> HIDE DEF i
      <4>4. QED BY <2>2, <2>4, <2>5, <3>1, <3>2, <4>1, <4>2, <4>3 DEF RowsAt
    <3>4. (1 .. Count(m, t) + 1) \ {Count(m, t) + 1} = 1 .. Count(m, t)
      BY <2>1
    <3>5. QED BY <1>2, <2>2, <2>6, <3>1, <3>3, <3>4
  <2>9. QED BY <1>2, <2>7, <2>8
<1>7. DOMAIN gone = SideTables(k)
  OBVIOUS
<1> HIDE DEF gone
<1>8. Prolongs(m, d, (E \ {k}) \ SideTables(k))
  BY <1>4, <1>6, <1>7, EraseAllProlonged
<1> HIDE DEF d
<1>9. i \in Int
  BY <1>2
<1> HIDE DEF C
<1>10. Prolongs(m, Renumber(d, C, i), (E \ {k}) \ SideTables(k))
  BY <1>8, <1>9, RenumberProlonged DEF C
<1>11. QED BY <1>1, <1>10, RebuildProlonged

\* A table that is as long as in m grows.
LEMMA GrowProlonged ==
  ASSUME NEW m, Columns(m), NEW u, NEW E, Prolongs(m, u, E), NEW k \in Kinds, k \notin E, NEW id
  PROVE  Prolongs(m, GrowRows(u, k, id), E \cup {k})
<1> DEFINE q == GrowRows(u, k, id)
           n == Count(u, k) + 1
<1>0. Columns(u) /\ Count(u, k) = Count(m, k) /\ Count(m, k) \in Nat
  BY ColumnsDomain DEF Prolongs
<1>1. /\ Columns(q)
      /\ \A t \in Kinds \ {k} : q.rows[t] = u.rows[t]
      /\ Count(q, k) = n
      /\ \A j \in Positions(q, k) : q.rows[k][j] = IF j = n THEN id ELSE u.rows[k][j]
      /\ \A c \in DOMAIN Refs :
           q.ref[c] = IF Refs[c][1] = k THEN Extended(u.ref[c], n, 0) ELSE u.ref[c]
      /\ \A c \in DOMAIN NameRefs :
           q.name[c] = IF NameRefs[c][1] = k THEN Extended(u.name[c], n, NoName) ELSE u.name[c]
  BY <1>0, GrowFacts
<1> HIDE DEF q
<1>2. ASSUME NEW s, NEW v, IsColumn(v, Count(u, k)), NEW d, Agrees(s, v, Count(m, k))
      PROVE  Agrees(s, Extended(v, n, d), Count(m, k))
  <2>1. Len(v) = Count(m, k)
    BY <1>0, <1>2, ColumnFacts
  <2>2. \A r \in 1 .. Count(m, k) : r \in 1 .. n /\ r <= Len(v)
    BY <1>0, <2>1
  <2>3. QED BY <1>2, <2>2 DEF Agrees, Extended
<1>3. \A t \in Kinds : Count(q, t) = IF t \in E \cup {k} THEN Count(m, t) + 1 ELSE Count(m, t)
  <2>1. \A t \in Kinds \ {k} : Count(q, t) = Count(u, t)
    BY <1>1 DEF Count
  <2>2. QED BY <1>0, <1>1, <2>1 DEF Prolongs
<1>4. \A t \in Kinds : Agrees(m.rows[t], q.rows[t], Count(m, t))
  <2>1. TAKE t \in Kinds
  <2>2. CASE t # k
    BY <1>1, <2>2 DEF Prolongs
  <2>3. CASE t = k
    <3>1. \A r \in 1 .. Count(m, k) : r \in Positions(q, k) /\ r # n
      BY <1>0, <1>1 DEF Positions
    <3>2. Agrees(m.rows[k], u.rows[k], Count(m, k))
      BY DEF Prolongs
    <3>3. QED BY <1>1, <2>3, <3>1, <3>2 DEF Agrees
  <2>4. QED BY <2>2, <2>3
<1>5. \A c \in DOMAIN Refs \ {"route_to"} : Agrees(m.ref[c], q.ref[c], Count(m, Refs[c][1]))
  <2>1. TAKE c \in DOMAIN Refs \ {"route_to"}
  <2>2. IsColumn(u.ref[c], Count(u, Refs[c][1])) /\ Agrees(m.ref[c], u.ref[c], Count(m, Refs[c][1]))
    BY <1>0 DEF Columns, Prolongs
  <2> HIDE DEF n
  <2>3. QED BY <1>1, <1>2, <2>2
<1>6. \A c \in DOMAIN NameRefs : Agrees(m.name[c], q.name[c], Count(m, NameRefs[c][1]))
  <2>1. TAKE c \in DOMAIN NameRefs
  <2>2. IsColumn(u.name[c], Count(u, NameRefs[c][1])) /\ Agrees(m.name[c], u.name[c], Count(m, NameRefs[c][1]))
    BY <1>0 DEF Columns, Prolongs
  <2> HIDE DEF n
  <2>3. QED BY <1>1, <1>2, <2>2
<1>7. QED BY <1>1, <1>3, <1>4, <1>5, <1>6 DEF Prolongs, q

\* The row made for the last object of its kind is the last of its side table.
LEMMA AddProlonged ==
  ASSUME NEW m, Columns(m), NEW u, NEW E, Prolongs(m, u, E), NEW t \in DOMAIN Join, t \notin E,
         NEW i \in Int, Before(m, {Join[t]}, i), NEW id
  PROVE  /\ Prolongs(m, AddDefault(u, t, i, id), E \cup {t})
         /\ Key(AddDefault(u, t, i, id), t, Count(m, t) + 1) = i
<1> DEFINE q == AddDefault(u, t, i, id)
           p == PlaceOf(u, t, i)
           n == Count(u, t) + 1
<1>0. /\ Columns(u) /\ Count(u, t) = Count(m, t) /\ Count(m, t) \in Nat
      /\ t \in Kinds /\ Join[t] \in DOMAIN Refs \ {"route_to"} /\ Refs[Join[t]][1] = t
      /\ \A c \in DOMAIN NameRefs : NameRefs[c][1] # t
  <2>1. t \in Kinds /\ Join[t] \in DOMAIN Refs /\ Refs[Join[t]][1] = t
    BY JoinSchema
  <2>2. Join[t] # "route_to"
    BY DEF Join
  <2>3. \A c \in DOMAIN NameRefs : NameRefs[c][1] # t
    BY DEF NameRefs, Join
  <2>4. QED BY <2>1, <2>2, <2>3, ColumnsDomain DEF Prolongs
<1>1. /\ Columns(q)
      /\ \A k \in Kinds \ {t} : q.rows[k] = u.rows[k]
      /\ Count(q, t) = n /\ p \in 1 .. n
      /\ \A r \in 1 .. n : q.rows[t][r] = IF r = p THEN id ELSE u.rows[t][Back(p, r)]
      /\ \A r \in 1 .. n : Key(q, t, r) = IF r = p THEN i ELSE Key(u, t, Back(p, r))
      /\ \A c \in DOMAIN Refs : Refs[c][1] # t => q.ref[c] = u.ref[c]
      /\ \A c \in DOMAIN Refs : Refs[c][1] = t /\ c # Join[t] =>
           \A r \in 1 .. n : q.ref[c][r] = IF r = p THEN 0 ELSE u.ref[c][Back(p, r)]
      /\ \A c \in DOMAIN NameRefs : NameRefs[c][1] # t => q.name[c] = u.name[c]
  BY <1>0, AddFacts
<1>2. p = n
  <2>1. DOMAIN u.ref[Join[t]] = 1 .. Count(m, t)
    BY <1>0, ColumnsDomain DEF Positions
  <2>2. \A r \in 1 .. Count(m, t) : u.ref[Join[t]][r] = m.ref[Join[t]][r] /\ m.ref[Join[t]][r] < i
    BY <1>0 DEF Prolongs, Agrees, Before
  <2>3. {r \in DOMAIN u.ref[Join[t]] : u.ref[Join[t]][r] < i} = 1 .. Count(m, t)
    BY <2>1, <2>2
  <2>4. p = 1 + Cardinality(1 .. Count(m, t))
    BY <2>3 DEF PlaceOf
  <2>5. QED BY <1>0, <2>4, AscendingInterval
<1> HIDE DEF q, p
<1>3. \A r \in 1 .. Count(m, t) : r \in 1 .. n /\ r # p /\ Back(p, r) = r
  BY <1>0, <1>2 DEF Back
<1>4. \A k \in Kinds : Count(q, k) = IF k \in E \cup {t} THEN Count(m, k) + 1 ELSE Count(m, k)
  <2>1. \A k \in Kinds \ {t} : Count(q, k) = Count(u, k)
    BY <1>1 DEF Count
  <2>2. QED BY <1>0, <1>1, <2>1 DEF Prolongs
<1>5. \A k \in Kinds : Agrees(m.rows[k], q.rows[k], Count(m, k))
  <2>1. TAKE k \in Kinds
  <2>2. Agrees(m.rows[k], u.rows[k], Count(m, k))
    BY DEF Prolongs
  <2>3. CASE k # t
    BY <1>1, <2>2, <2>3
  <2>4. CASE k = t
    BY <1>1, <1>3, <2>2, <2>4 DEF Agrees
  <2>5. QED BY <2>3, <2>4
<1>6. \A c \in DOMAIN Refs \ {"route_to"} : Agrees(m.ref[c], q.ref[c], Count(m, Refs[c][1]))
  <2>1. TAKE c \in DOMAIN Refs \ {"route_to"}
  <2>2. Agrees(m.ref[c], u.ref[c], Count(m, Refs[c][1]))
    BY DEF Prolongs
  <2>3. CASE Refs[c][1] # t
    BY <1>1, <2>2, <2>3
  <2>4. CASE c = Join[t]
    BY <1>0, <1>1, <1>3, <2>2, <2>4 DEF Agrees, Key
  <2>5. CASE Refs[c][1] = t /\ c # Join[t]
    BY <1>1, <1>3, <2>2, <2>5 DEF Agrees
  <2>6. QED BY <2>3, <2>4, <2>5
<1>7. \A c \in DOMAIN NameRefs : Agrees(m.name[c], q.name[c], Count(m, NameRefs[c][1]))
  BY <1>0, <1>1 DEF Prolongs
<1>8. Key(q, t, Count(m, t) + 1) = i
  BY <1>0, <1>1, <1>2
<1>9. QED BY <1>1, <1>4, <1>5, <1>6, <1>7, <1>8 DEF Prolongs, q

\* q is sound, and differs from v in its data, its index or its matrices.
Shared(v, q) == Columns(q) /\ q.rows = v.rows /\ q.ref = v.ref /\ q.name = v.name

\* What settling the type of an object leaves alone
LEMMA SettledFrame ==
  ASSUME NEW v, Columns(v), NEW k \in DOMAIN TypeColumn, NEW i, NEW type, NEW erased
  PROVE  Shared(v, Settled(v, k, i, type, erased))
<1> DEFINE row == IF type = "JUNCTION" THEN 0
                  ELSE CHOOSE r \in Positions(v, SideTable[type]) : v.ref[Join[SideTable[type]]][r] = i
           RowOf(j) == UNION {RowsAt(v, Join[t], j) : t \in SideTables(k)}
           s == [j \in 1 .. Count(v, k) |-> IF RowOf(j) = {} THEN 0 ELSE CHOOSE r \in RowOf(j) : TRUE]
           z == [v.subtype_row[k] EXCEPT ![i] = row]
           q == Settled(v, k, i, type, erased)
<1>1. q = [v EXCEPT !.subtype_row[k] = s] \/ q = [v EXCEPT !.subtype_row[k] = z]
  BY DEF Settled, rebuild_index
<1> HIDE DEF s, z, q
<1>2. Reindexed(v, q, k)
  <2>1. /\ DOMAIN v = {"rows", "ref", "name", "data", "subtype_row", "mat"}
        /\ DOMAIN v.subtype_row = DOMAIN TypeColumn
    BY ColumnsDomain
  <2>2. ASSUME NEW x, q = [v EXCEPT !.subtype_row[k] = x]
        PROVE  Reindexed(v, q, k)
    BY <2>1, <2>2 DEF Reindexed
  <2>3. QED BY <1>1, <2>2
<1>3. QED BY <1>2, ReindexedFacts DEF Reindexed, Shared, q

\* q is g with object n of k typed, its row settled last.
Born(g, q, k, n, type) ==
  \E x : Shared(g, x) /\ q = Settled(WithSubtype(x, k, n, type), k, n, type, FALSE)

\* A new object of its type, before its row is settled
LEMMA NewObjectFrame ==
  ASSUME NEW u, Tables(u), NEW k \in DOMAIN TypeColumn, NEW id, NEW n, n = Count(u, k) + 1,
         NEW type \in TypesOf[k]
  PROVE  Born(GrowRows(u, k, id), set_type(GrowRows(u, k, id), k, n, type), k, n, type)
<1> DEFINE g == GrowRows(u, k, id)
           w == Sized(g, k, n)
           x == [w EXCEPT !.data[TypeColumn[k]][n] = type]
<1>1. Unsettled(u, w, k, id) /\ w.subtype_row[k][n] = 0
  BY SizedUnsettled
<1>2. w.rows = g.rows /\ w.ref = g.ref /\ w.name = g.name
  <2>1. Columns(g)
    BY GrowFacts, SideSchema, TablesParts
  <2> HIDE DEF g
  <2>2. DOMAIN g = {"rows", "ref", "name", "data", "subtype_row", "mat"}
    BY <2>1, ColumnsDomain
  <2>3. QED BY <2>2 DEF Sized
<1>3. set_type(g, k, n, type) = Typed(w, k, n, type)
  BY DEF set_type
<1> HIDE DEF g, w
<1>4. Typed(w, k, n, type) = Settled(WithSubtype(x, k, n, type), k, n, type, FALSE)
  BY <1>1 DEF Typed, WithoutSubtype
<1>5. Half(w, k, n)
  BY <1>1 DEF Unsettled
<1>6. Half(x, k, n) /\ x.rows = w.rows /\ x.ref = w.ref /\ x.name = w.name
  BY <1>5, RetypedHalf
<1> HIDE DEF x
<1>7. Columns(x)
  BY <1>6 DEF Half
<1>8. Shared(g, x)
  BY <1>2, <1>6, <1>7 DEF Shared
<1>9. QED BY <1>3, <1>4, <1>8 DEF Born, g

\* A new junction is one row more among the nodes.
LEMMA NewJunction ==
  ASSUME NEW m, Columns(m), NEW u, Tables(u), NEW E, Prolongs(m, u, E), "nodes" \notin E, NEW id
  PROVE  Prolongs(m, set_type(GrowRows(u, "nodes", id), "nodes", Count(u, "nodes") + 1, "JUNCTION"),
                  E \cup {"nodes"})
<1> DEFINE n == Count(u, "nodes") + 1
           g == GrowRows(u, "nodes", id)
           q == set_type(g, "nodes", n, "JUNCTION")
<1>1. "nodes" \in DOMAIN TypeColumn /\ "JUNCTION" \in TypesOf["nodes"] /\ "nodes" \in Kinds
  BY ColumnTables, TypeSchema DEF NodeTypes
<1>2. Prolongs(m, g, E \cup {"nodes"})
  BY <1>1, GrowProlonged
<1>3. Born(g, q, "nodes", n, "JUNCTION")
  BY <1>1, NewObjectFrame
<1> HIDE DEF g, q, n
<1>4. PICK x : Shared(g, x) /\ q = Settled(x, "nodes", n, "JUNCTION", FALSE)
  BY <1>3 DEF Born, WithSubtype
<1>5. Columns(x)
  BY <1>4 DEF Shared
<1>6. Shared(x, q)
  BY <1>1, <1>4, <1>5, SettledFrame
<1>7. Prolongs(m, q, E \cup {"nodes"})
  BY <1>2, <1>4, <1>6, ProlongedFrame DEF Shared
<1>8. QED BY <1>7 DEF q, g, n

\* A new conduit is one row more among the links and among the conduits.
LEMMA NewConduit ==
  ASSUME NEW m, Columns(m), NEW u, Tables(u), NEW E, Prolongs(m, u, E), "links" \notin E,
         "conduits" \notin E, NEW id, NEW j, j = Count(m, "links") + 1, Before(m, {"conduit_link"}, j)
  PROVE  LET q == set_type(GrowRows(u, "links", id), "links", j, "CONDUIT")
         IN /\ Prolongs(m, q, (E \cup {"links"}) \cup {"conduits"})
            /\ Key(q, "conduits", Count(m, "conduits") + 1) = j
<1> DEFINE g == GrowRows(u, "links", id)
           q == set_type(g, "links", j, "CONDUIT")
<1>1. "links" \in DOMAIN TypeColumn /\ "CONDUIT" \in TypesOf["links"] /\ "links" \in Kinds
      /\ "conduits" \in DOMAIN Join /\ Join["conduits"] = "conduit_link" /\ "conduits" # "links"
      /\ SideTable["CONDUIT"] = "conduits"
  <2>1. "conduits" \in DOMAIN Join /\ Join["conduits"] = "conduit_link"
    BY DEF Join
  <2>2. SideTable["CONDUIT"] = "conduits"
    BY DEF SideTable
  <2>3. QED BY <2>1, <2>2, ColumnTables, TypeSchema DEF LinkTypes
<1>2. j = Count(u, "links") + 1 /\ j \in Int
  BY <1>1, ColumnsDomain DEF Prolongs
<1>3. Prolongs(m, g, E \cup {"links"})
  BY <1>1, GrowProlonged
<1>0. Born(g, q, "links", j, "CONDUIT")
  BY <1>1, <1>2, NewObjectFrame
<1> HIDE DEF g, q
<1>4. PICK x : Shared(g, x) /\ q = Settled(WithSubtype(x, "links", j, "CONDUIT"), "links", j, "CONDUIT", FALSE)
  BY <1>0 DEF Born
<1>5. Prolongs(m, x, E \cup {"links"})
  BY <1>3, <1>4, ProlongedFrame DEF Shared
<1> DEFINE v == AddDefault(x, "conduits", j, x.rows["links"][j])
<1>6. q = Settled(v, "links", j, "CONDUIT", FALSE)
  BY <1>1, <1>4 DEF WithSubtype
<1>7. Prolongs(m, v, (E \cup {"links"}) \cup {"conduits"}) /\ Key(v, "conduits", Count(m, "conduits") + 1) = j
  <2> DEFINE F == E \cup {"links"}
  <2>1. Prolongs(m, x, F) /\ "conduits" \notin F
    BY <1>1, <1>5
  <2> HIDE DEF F
  <2>2. /\ Prolongs(m, v, F \cup {"conduits"})
        /\ Key(v, "conduits", Count(m, "conduits") + 1) = j
    BY <1>1, <1>2, <2>1, AddProlonged
  <2>3. QED BY <2>2 DEF F
<1> HIDE DEF v
<1>8. Columns(v)
  BY <1>7 DEF Prolongs
<1>9. Shared(v, q)
  BY <1>1, <1>6, <1>8, SettledFrame
<1>10. Prolongs(m, q, (E \cup {"links"}) \cup {"conduits"})
  BY <1>7, <1>9, ProlongedFrame DEF Shared
<1>11. QED BY <1>7, <1>9, <1>10 DEF Key, Shared, q, g

-----------------------------------------------------------------------------
(* Splitting a conduit and fusing it again *)

\* References into a table end within it.
LEMMA ReferencesBefore ==
  ASSUME NEW m, Tables(m), NEW k \in Main, NEW C, C \subseteq Incoming(k) \cup {"route_to"}
  PROVE  Before(m, C, Count(m, k) + 1)
<1>1. InRange(m) /\ Count(m, k) \in Nat
  BY TablesParts
<1>2. SUFFICES ASSUME NEW c \in (C \cap DOMAIN Refs) \ {"route_to"}, NEW r \in 1 .. Count(m, Refs[c][1])
               PROVE  m.ref[c][r] \in Int /\ m.ref[c][r] < Count(m, k) + 1
  BY DEF Before
<1>3. c \in DOMAIN Refs \ Unkept /\ Refs[c][2] = k
  BY DEF Incoming
<1>4. m.ref[c][r] \in 0 .. Count(m, k)
  BY <1>1, <1>3 DEF InRange, Positions
<1>5. QED BY <1>1, <1>4

\* The keys of the side tables are indices of their owners.
LEMMA KeysBefore ==
  ASSUME NEW m, Tables(m), NEW k \in DOMAIN TypeColumn
  PROVE  Before(m, {Join[t] : t \in SideTables(k)}, Count(m, k) + 1)
<1>1. Keyed(m, k) /\ Count(m, k) \in Nat /\ Positions(m, k) = 1 .. Count(m, k)
  BY TablesParts, SideSchema DEF Backed
<1>2. SUFFICES ASSUME NEW t \in SideTables(k), NEW r \in 1 .. Count(m, t)
               PROVE  m.ref[Join[t]][r] \in Int /\ m.ref[Join[t]][r] < Count(m, k) + 1
  BY SideSchema DEF Before
<1>3. m.ref[Join[t]][r] \in 1 .. Count(m, k)
  BY <1>1 DEF Keyed, Key, Positions
<1>4. QED BY <1>1, <1>3

\* The two halves of conduit l
Halves(w, h, l, n, j) ==
  /\ h.rows = w.rows /\ h.name = w.name
  /\ \A c \in DOMAIN Refs : c \notin {"node1", "node2", "xsect_curve"} => h.ref[c] = w.ref[c]
  /\ \A r \in Positions(w, "links") :
       /\ h.ref.node1[r] = IF r = j THEN n ELSE w.ref.node1[r]
       /\ h.ref.node2[r] = IF r = l THEN n ELSE IF r = j THEN w.ref.node2[l] ELSE w.ref.node2[r]
       /\ h.ref.xsect_curve[r] = IF r = j THEN w.ref.xsect_curve[l] ELSE w.ref.xsect_curve[r]
  /\ Section(h, l) = Section(h, j)
  /\ h.data.link_type = w.data.link_type

\* What Halved does to each column
LEMMA HalvedFacts ==
  ASSUME NEW w, Columns(w), NEW l \in Positions(w, "links"), NEW j \in Positions(w, "links"), l # j, NEW n
  PROVE  Halves(w, Halved(w, l, n, j), l, n, j)
<1> DEFINE q == Halved(w, l, n, j)
           shape == [w.data.xsect_shape EXCEPT ![j] = w.data.xsect_shape[l]]
           geom == [w.data.xsect_geom EXCEPT ![j] = w.data.xsect_geom[l]]
           curve == [w.ref.xsect_curve EXCEPT ![j] = w.ref.xsect_curve[l]]
           n1 == [w.ref.node1 EXCEPT ![j] = n]
           n2 == [[w.ref.node2 EXCEPT ![j] = w.ref.node2[l]] EXCEPT ![l] = n]
           data == [[w.data EXCEPT !["xsect_shape"] = shape] EXCEPT !["xsect_geom"] = geom]
           ref == [[[w.ref EXCEPT !["xsect_curve"] = curve] EXCEPT !["node1"] = n1] EXCEPT !["node2"] = n2]
<1>1. /\ DOMAIN w = {"rows", "ref", "name", "data", "subtype_row", "mat"}
      /\ DOMAIN w.ref = DOMAIN Refs /\ DOMAIN w.data = DOMAIN DataCols
      /\ {"node1", "node2", "xsect_curve"} \subseteq DOMAIN Refs
      /\ {"xsect_shape", "xsect_geom", "link_type"} \subseteq DOMAIN DataCols
  BY ColumnsDomain, EndSchema, DataTables
<1>2. /\ \A c \in {"node1", "node2", "xsect_curve"} : DOMAIN w.ref[c] = Positions(w, "links")
      /\ \A c \in {"xsect_shape", "xsect_geom"} : j \in DOMAIN w.data[c]
  <2>1. \A c \in {"node1", "node2", "xsect_curve"} : DOMAIN w.ref[c] = Positions(w, "links")
    BY ColumnsDomain, EndSchema
  <2>2. ASSUME NEW c \in {"xsect_shape", "xsect_geom"} PROVE j \in DOMAIN w.data[c]
    <3>1. c \in DOMAIN DataCols /\ DataCols[c][1] = "links"
      BY DataTables
    <3>2. IsColumn(w.data[c], Len(w.data[c])) /\ Len(w.data[c]) >= Count(w, "links")
      BY <3>1, ColumnsDomain
    <3>3. DOMAIN w.data[c] = 1 .. Len(w.data[c]) /\ Len(w.data[c]) \in Nat
      BY <3>2, ColumnFacts
    <3>4. Count(w, "links") \in Nat /\ j \in 1 .. Count(w, "links")
      BY ColumnsDomain, TypeSchema, ColumnTables DEF Positions
    <3>5. QED BY <3>2, <3>3, <3>4
  <2>3. QED BY <2>1, <2>2
<1>3. q.rows = w.rows /\ q.name = w.name /\ q.data = data /\ q.ref = ref
  BY <1>1 DEF Halved
<1> HIDE DEF q
<1>4. /\ q.ref.node1 = n1 /\ q.ref.node2 = n2 /\ q.ref.xsect_curve = curve
      /\ \A c \in DOMAIN Refs : c \notin {"node1", "node2", "xsect_curve"} => q.ref[c] = w.ref[c]
  <2> HIDE DEF n1, n2, curve
  <2>1. QED BY <1>1, <1>3
<1>5. q.data.xsect_shape = shape /\ q.data.xsect_geom = geom /\ q.data.link_type = w.data.link_type
  <2> HIDE DEF shape, geom
  <2>1. QED BY <1>1, <1>3
<1>6. \A r \in Positions(w, "links") :
       /\ q.ref.node1[r] = IF r = j THEN n ELSE w.ref.node1[r]
       /\ q.ref.node2[r] = IF r = l THEN n ELSE IF r = j THEN w.ref.node2[l] ELSE w.ref.node2[r]
       /\ q.ref.xsect_curve[r] = IF r = j THEN w.ref.xsect_curve[l] ELSE w.ref.xsect_curve[r]
  BY <1>2, <1>4
<1>7. Section(q, l) = Section(q, j)
  <2>1. q.data.xsect_shape[l] = q.data.xsect_shape[j] /\ q.data.xsect_geom[l] = q.data.xsect_geom[j]
    BY <1>2, <1>5
  <2>2. q.ref.xsect_curve[l] = q.ref.xsect_curve[j]
    BY <1>6
  <2>3. QED BY <2>1, <2>2 DEF Section
<1>8. QED BY <1>3, <1>4, <1>5, <1>6, <1>7 DEF Halves, q

\* m with a junction and a conduit more
Doubled(m, id, lid) ==
  set_type(GrowRows(set_type(GrowRows(m, "nodes", id), "nodes", Count(m, "nodes") + 1, "JUNCTION"),
                    "links", lid), "links", Count(m, "links") + 1, "CONDUIT")

Grown3 == {"nodes", "links", "conduits"}

\* The new junction and the new conduit, with its row, come last.
LEMMA DoubledProlongs ==
  ASSUME NEW m, Tables(m), NEW id, NEW lid
  PROVE  /\ Tables(Doubled(m, id, lid)) /\ Prolongs(m, Doubled(m, id, lid), Grown3)
         /\ Key(Doubled(m, id, lid), "conduits", Count(m, "conduits") + 1) = Count(m, "links") + 1
<1> DEFINE n == Count(m, "nodes") + 1
           j == Count(m, "links") + 1
           u == set_type(GrowRows(m, "nodes", id), "nodes", n, "JUNCTION")
           w == set_type(GrowRows(u, "links", lid), "links", j, "CONDUIT")
<1>1. /\ "nodes" \in Main /\ "links" \in Main /\ "nodes" # "links"
      /\ "JUNCTION" \in TypesOf["nodes"] /\ "CONDUIT" \in TypesOf["links"]
      /\ "nodes" \in DOMAIN TypeColumn /\ "links" \in DOMAIN TypeColumn
      /\ Columns(m)
  BY NodeSchema, LinkSchema, ColumnTables, TablesParts DEF NodeTypes, LinkTypes
<1>2. Prolongs(m, m, {})
  BY <1>1 DEF Prolongs, Agrees
<1>3. With(m, u, "nodes", id)
  BY <1>1, ObjectGrown
<1>4. Prolongs(m, u, {} \cup {"nodes"})
  <2>1. "nodes" \notin {}
    OBVIOUS
  <2>2. QED BY <1>1, <1>2, <2>1, NewJunction
<1> HIDE DEF u
<1>5. Tables(u) /\ Count(u, "links") = Count(m, "links")
  <2>1. "links" \in Main \ {"nodes"}
    BY <1>1
  <2>2. Tables(u) /\ u.rows["links"] = m.rows["links"]
    BY <1>3, <2>1 DEF With
  <2>3. QED BY <2>2 DEF Count
<1>6. With(u, w, "links", lid)
  BY <1>1, <1>5, ObjectGrown
<1>7. Before(m, {"conduit_link"}, j)
  <2>1. "conduits" \in SideTables("links") /\ Join["conduits"] = "conduit_link"
    BY DEF SideTables, Join, Refs
  <2>2. Before(m, {Join[t] : t \in SideTables("links")}, j)
    BY <1>1, KeysBefore
  <2>3. "conduit_link" \in {Join[t] : t \in SideTables("links")}
    BY <2>1
  <2> HIDE DEF j
  <2>4. QED BY <2>2, <2>3 DEF Before
<1>8. /\ Prolongs(m, w, ({"nodes"} \cup {"links"}) \cup {"conduits"})
      /\ Key(w, "conduits", Count(m, "conduits") + 1) = j
  <2>1. "links" \notin {"nodes"} /\ "conduits" \notin {"nodes"} /\ Prolongs(m, u, {"nodes"})
    <3>1. {} \cup {"nodes"} = {"nodes"}
      OBVIOUS
    <3>2. QED BY <1>4, <3>1
  <2>2. QED BY <1>1, <1>5, <1>7, <2>1, NewConduit
<1>9. ({"nodes"} \cup {"links"}) \cup {"conduits"} = Grown3
  BY DEF Grown3
<1> HIDE DEF w
<1>10. Tables(w)
  BY <1>6 DEF With
<1>11. QED BY <1>8, <1>9, <1>10 DEF Doubled, w, u

\* The upstream half of conduit l ends where the downstream half j ends.
Rejoined(s, l, j) == SetRef(s, "node2", l, s.ref.node2[j])

\* Conduit l ends at the new node n, where the new conduit j begins.
SplitAt(m, s, l, n, j) ==
  /\ Tables(s) /\ Prolongs(m, Rejoined(s, l, j), Grown3) /\ Tables(Rejoined(s, l, j))
  /\ Into(s, n) = {l} /\ OutOf(s, n) = {j}
  /\ Key(s, "conduits", Count(m, "conduits") + 1) = j
  /\ j \in Positions(s, "links") /\ n \in Positions(s, "nodes")

\* Without its virtual flag
LEMMA FlaggedShared ==
  ASSUME NEW h, Tables(h), NEW n, NEW virtual
  PROVE  /\ Flagged(h, n, virtual).rows = h.rows /\ Flagged(h, n, virtual).ref = h.ref
         /\ Flagged(h, n, virtual).name = h.name
         /\ \A c \in {"xsect_shape", "xsect_geom"} : Flagged(h, n, virtual).data[c] = h.data[c]
<1>1. DOMAIN h = {"rows", "ref", "name", "data", "subtype_row", "mat"} /\ DOMAIN h.data = DOMAIN DataCols
  BY TablesParts, ColumnsDomain
<1>2. {"is_virtual", "xsect_shape", "xsect_geom"} \subseteq DOMAIN DataCols
  BY DataTables
<1>3. QED BY <1>1, <1>2 DEF Flagged

\* One link is given another downstream end.
LEMMA EndRewired ==
  ASSUME NEW s, Tables(s), NEW l \in Positions(s, "links"), NEW v \in 0 .. Count(s, "nodes")
  PROVE  /\ Same(s, SetRef(s, "node2", l, v)) /\ SetRef(s, "node2", l, v).name = s.name
         /\ \A d \in DOMAIN Refs : d # "node2" => SetRef(s, "node2", l, v).ref[d] = s.ref[d]
         /\ \A x \in Positions(s, "links") :
              SetRef(s, "node2", l, v).ref["node2"][x] = IF x = l THEN v ELSE s.ref["node2"][x]
<1>1. Same(s, SetRef(s, "node2", l, v))
  BY RefSet, EndSchema
<1>2. /\ DOMAIN s = {"rows", "ref", "name", "data", "subtype_row", "mat"}
      /\ DOMAIN s.ref = DOMAIN Refs /\ "node2" \in DOMAIN Refs /\ Refs["node2"][1] = "links"
      /\ IsColumn(s.ref["node2"], Count(s, "links"))
  BY TablesParts, ColumnsDomain, EndSchema DEF Columns
<1> DEFINE o == s.ref["node2"]
<1>3. DOMAIN o = Positions(s, "links")
  BY <1>2 DEF IsColumn, Positions
<1>4. SetRef(s, "node2", l, v) = [s EXCEPT !.ref = [s.ref EXCEPT !["node2"] = [o EXCEPT ![l] = v]]]
  BY <1>2 DEF SetRef
<1> HIDE DEF o
<1>5. \A x \in Positions(s, "links") : [o EXCEPT ![l] = v][x] = IF x = l THEN v ELSE o[x]
  BY <1>3
<1>6. QED BY <1>1, <1>2, <1>4, <1>5 DEF o

\* What rewiring the upstream half does to each column
LEMMA RejoinedFacts ==
  ASSUME NEW s, Tables(s), NEW l \in Positions(s, "links"), NEW j \in Positions(s, "links")
  PROVE  /\ Same(s, Rejoined(s, l, j)) /\ Rejoined(s, l, j).name = s.name
         /\ \A d \in DOMAIN Refs : d # "node2" => Rejoined(s, l, j).ref[d] = s.ref[d]
         /\ \A x \in Positions(s, "links") :
              Rejoined(s, l, j).ref.node2[x] = IF x = l THEN s.ref.node2[j] ELSE s.ref.node2[x]
<1> DEFINE v == s.ref.node2[j]
<1>1. v \in 0 .. Count(s, "nodes")
  BY TablesParts, EndSchema DEF InRange
<1> HIDE DEF v
<1>3. /\ Same(s, SetRef(s, "node2", l, v)) /\ SetRef(s, "node2", l, v).name = s.name
      /\ \A d \in DOMAIN Refs : d # "node2" => SetRef(s, "node2", l, v).ref[d] = s.ref[d]
      /\ \A x \in Positions(s, "links") :
           SetRef(s, "node2", l, v).ref["node2"][x] = IF x = l THEN v ELSE s.ref["node2"][x]
  BY <1>1, EndRewired
<1>4. QED BY <1>3 DEF Rejoined, v

\* The two conduits that a split makes, before the node is flagged
Unflagged(m, l, id, lid) ==
  Halved(Doubled(m, id, lid), l, Count(m, "nodes") + 1, Count(m, "links") + 1)
Alike(h, l, j) == Tables(h) /\ Section(h, l) = Section(h, j)

\* Split and rewired, the model is the one before with a node, a link and a row of
\* conduits more (vj_split_conduit up to where fuse deletes).
LEMMA SplitProlongs ==
  ASSUME NEW m, Tables(m), NEW l \in Positions(m, "links"), NEW id, NEW lid, NEW virtual
  PROVE  /\ SplitAt(m, vj_split_conduit(m, l, id, lid, virtual), l,
                    Count(m, "nodes") + 1, Count(m, "links") + 1)
         /\ Alike(Unflagged(m, l, id, lid), l, Count(m, "links") + 1)
<1> DEFINE n == Count(m, "nodes") + 1
           j == Count(m, "links") + 1
           w == Doubled(m, id, lid)
           h == Halved(w, l, n, j)
           s == vj_split_conduit(m, l, id, lid, virtual)
           r == Rejoined(s, l, j)
<1>1. s = Flagged(h, n, virtual)
  BY DEF vj_split_conduit, Doubled
<1>2. /\ Tables(w) /\ Prolongs(m, w, Grown3) /\ Key(w, "conduits", Count(m, "conduits") + 1) = j
  BY DoubledProlongs
<1>3. Tables(s)
  BY ConduitSplitSound DEF WithLinkedNode
<1> HIDE DEF w, s
<1>4. /\ Columns(m) /\ Columns(w) /\ InRange(m)
      /\ Count(m, "nodes") \in Nat /\ Count(m, "links") \in Nat
      /\ Positions(m, "links") = 1 .. Count(m, "links")
      /\ Count(w, "nodes") = n /\ Count(w, "links") = j
      /\ Positions(w, "links") = 1 .. j /\ Positions(w, "nodes") = 1 .. n
      /\ l \in Positions(w, "links") /\ j \in Positions(w, "links") /\ n \in Positions(w, "nodes")
      /\ l # j
  <2>1. Columns(m) /\ Columns(w) /\ InRange(m)
    BY <1>2, TablesParts
  <2>2. "nodes" \in Main /\ "links" \in Main /\ "nodes" \in Kinds /\ "links" \in Kinds
    BY NodeSchema, LinkSchema, TypeSchema, ColumnTables
  <2>3. /\ Count(m, "nodes") \in Nat /\ Count(m, "links") \in Nat
        /\ Positions(m, "links") = 1 .. Count(m, "links")
    BY <2>2, TablesParts
  <2>4. Count(w, "nodes") = n /\ Count(w, "links") = j
    BY <1>2, <2>2 DEF Prolongs, Grown3
  <2>5. QED BY <2>1, <2>3, <2>4 DEF Positions
<1>5. Halves(w, h, l, n, j) /\ Tables(h)
  BY <1>2, <1>4, HalvedFacts, HalvedSame DEF Same
<1>18. Alike(h, l, j)
  BY <1>5 DEF Alike, Halves
<1> HIDE DEF h
<1>6. /\ s.rows = h.rows /\ s.ref = h.ref /\ s.name = h.name
  BY <1>1, <1>5, FlaggedShared
<1> HIDE DEF n, j
<1>7. /\ \A c \in DOMAIN Refs : c \notin {"node1", "node2", "xsect_curve"} => s.ref[c] = w.ref[c]
      /\ \A x \in 1 .. j :
           /\ s.ref.node1[x] = IF x = j THEN n ELSE w.ref.node1[x]
           /\ s.ref.node2[x] = IF x = l THEN n ELSE IF x = j THEN w.ref.node2[l] ELSE w.ref.node2[x]
           /\ s.ref.xsect_curve[x] = IF x = j THEN w.ref.xsect_curve[l] ELSE w.ref.xsect_curve[x]
      /\ s.rows = w.rows /\ s.name = w.name
  BY <1>4, <1>5, <1>6 DEF Halves
<1>8. \A t : Count(s, t) = Count(w, t) /\ Positions(s, t) = Positions(w, t)
  BY <1>7 DEF Count, Positions
<1>9. /\ \A x \in 1 .. Count(m, "links") : w.ref.node1[x] = m.ref.node1[x] /\ m.ref.node1[x] # n
      /\ \A x \in 1 .. Count(m, "links") : w.ref.node2[x] = m.ref.node2[x] /\ m.ref.node2[x] # n
      /\ \A x \in 1 .. Count(m, "links") : w.ref.xsect_curve[x] = m.ref.xsect_curve[x]
      /\ \A x \in 1 .. Count(m, "links") : x \in 1 .. j /\ x # j
      /\ \A x \in 1 .. j : x = j \/ x \in 1 .. Count(m, "links")
  <2>1. \A c \in {"node1", "node2", "xsect_curve"} : c \in DOMAIN Refs \ {"route_to"} /\ Refs[c][1] = "links"
    BY EndSchema
  <2>2. \A c \in {"node1", "node2", "xsect_curve"} : Agrees(m.ref[c], w.ref[c], Count(m, "links"))
    BY <1>2, <2>1 DEF Prolongs
  <2>3. \A c \in {"node1", "node2"} : \A x \in 1 .. Count(m, "links") : m.ref[c][x] \in 0 .. Count(m, "nodes")
    BY <1>4, EndSchema DEF InRange
  <2>4. \A v \in 0 .. Count(m, "nodes") : v # n
    BY <1>4 DEF n
  <2>5. QED BY <1>4, <2>2, <2>3, <2>4 DEF Agrees, j
<1>10. Into(s, n) = {l} /\ OutOf(s, n) = {j}
  <2>1. Positions(s, "links") = 1 .. j
    BY <1>4, <1>8
  <2>2. l \in 1 .. Count(m, "links") /\ l \in 1 .. j /\ j \in 1 .. j
    BY <1>4
  <2>3. Into(s, n) = {l}
    BY <1>7, <1>9, <2>1, <2>2 DEF Into
  <2>4. OutOf(s, n) = {j}
    BY <1>7, <1>9, <2>1, <2>2 DEF OutOf
  <2>5. QED BY <2>3, <2>4
<1>11. Key(s, "conduits", Count(m, "conduits") + 1) = j
  <2>1. Join["conduits"] \in DOMAIN Refs /\ Join["conduits"] \notin {"node1", "node2", "xsect_curve"}
    BY DEF Join, Refs
  <2>2. QED BY <1>2, <1>7, <2>1 DEF Key, j
<1>12. /\ Same(s, r) /\ r.name = s.name
       /\ \A d \in DOMAIN Refs : d # "node2" => r.ref[d] = s.ref[d]
       /\ \A x \in 1 .. j : r.ref.node2[x] = IF x = l THEN s.ref.node2[j] ELSE s.ref.node2[x]
  <2>2. j \in Positions(s, "links") /\ l \in Positions(s, "links") /\ Positions(s, "links") = 1 .. j
    BY <1>4, <1>8
  <2> HIDE DEF r
  <2>6. /\ Same(s, r) /\ r.name = s.name
        /\ \A d \in DOMAIN Refs : d # "node2" => r.ref[d] = s.ref[d]
        /\ \A x \in Positions(s, "links") : r.ref.node2[x] = IF x = l THEN s.ref.node2[j] ELSE s.ref.node2[x]
    BY <1>3, <2>2, RejoinedFacts DEF r
  <2>7. QED BY <2>2, <2>6
<1> HIDE DEF r
<1>13. Tables(r) /\ Columns(r) /\ r.rows = w.rows
  BY <1>7, <1>12, TablesParts DEF Same
<1>14. ASSUME NEW c \in DOMAIN Refs \ {"route_to"}
       PROVE  Agrees(m.ref[c], r.ref[c], Count(m, Refs[c][1]))
  <2>1. Agrees(m.ref[c], w.ref[c], Count(m, Refs[c][1]))
    BY <1>2 DEF Prolongs
  <2>2. CASE c \notin {"node1", "node2", "xsect_curve"}
    BY <1>7, <1>12, <2>1, <2>2
  <2>3. CASE c = "node1"
    <3>1. \A x \in 1 .. Count(m, "links") : r.ref.node1[x] = m.ref.node1[x]
      BY <1>7, <1>9, <1>12, EndSchema
    <3>2. QED BY <2>3, <3>1, EndSchema DEF Agrees
  <2>4. CASE c = "node2"
    <3>1. l \in 1 .. Count(m, "links") /\ j \in 1 .. j
      BY <1>4
    <3>2. \A x \in 1 .. Count(m, "links") : r.ref.node2[x] = m.ref.node2[x]
      BY <1>7, <1>9, <1>12, <3>1
    <3>3. QED BY <2>4, <3>2, EndSchema DEF Agrees
  <2>5. CASE c = "xsect_curve"
    <3>1. \A x \in 1 .. Count(m, "links") : r.ref.xsect_curve[x] = m.ref.xsect_curve[x]
      BY <1>7, <1>9, <1>12, EndSchema
    <3>2. QED BY <2>5, <3>1, EndSchema DEF Agrees
  <2>6. QED BY <2>2, <2>3, <2>4, <2>5
<1>15. Prolongs(m, r, Grown3)
  <2>1. \A t : Count(r, t) = Count(w, t)
    BY <1>13 DEF Count
  <2>2. r.name = w.name
    BY <1>7, <1>12
  <2>3. QED BY <1>2, <1>13, <1>14, <2>1, <2>2 DEF Prolongs
<1>16. j \in Positions(s, "links") /\ n \in Positions(s, "nodes")
  BY <1>4, <1>8
<1>17. SplitAt(m, s, l, n, j)
  BY <1>3, <1>10, <1>11, <1>13, <1>15, <1>16 DEF SplitAt, r
<1>19. h = Unflagged(m, l, id, lid)
  BY DEF h, w, n, j, Unflagged
<1>20. QED BY <1>17, <1>19, <1>18 DEF s, n, j

\* The side table of conduits
LEMMA ConduitSchema ==
  /\ "conduits" \in SideTables("links") /\ "conduits" \in Kinds /\ Join["conduits"] = "conduit_link"
  /\ "conduit_link" \in DOMAIN Refs \ {"route_to"} /\ Refs["conduit_link"][1] = "conduits"
  /\ "conduit_link" # "node2" /\ "links" \in DOMAIN TypeColumn /\ "conduits" \in Grown3
  /\ \A type \in TypesOf["links"] : SideTable[type] = "conduits" <=> type = "CONDUIT"
  /\ "JUNCTION" # "CONDUIT"
<1>1. "conduits" \in DOMAIN Join /\ Join["conduits"] = "conduit_link"
  BY DEF Join
<1>2. "conduit_link" \in DOMAIN Refs \ {"route_to"} /\ Refs["conduit_link"] = <<"conduits", "links">>
  BY DEF Refs
<1>3. "conduits" \in SideTables("links") /\ "links" \in DOMAIN TypeColumn
  BY <1>1, <1>2, ColumnTables DEF SideTables
<1>4. "conduits" \in Kinds
  BY <1>3, SideSchema
<1>5. \A type \in TypesOf["links"] : SideTable[type] = "conduits" <=> type = "CONDUIT"
  BY DEF TypesOf, LinkTypes, SideTable
<1>6. QED BY <1>1, <1>2, <1>3, <1>4, <1>5 DEF Grown3

\* What a row of conduits is joined to is a conduit.
LEMMA KeyedConduit ==
  ASSUME NEW s, Tables(s), NEW r \in Positions(s, "conduits")
  PROVE  s.data.link_type[Key(s, "conduits", r)] = "CONDUIT"
<1>1. Keyed(s, "links")
  BY TablesParts, ConduitSchema DEF Backed
<1> DEFINE i == Key(s, "conduits", r)
<1>2. i \in Positions(s, "links") /\ Owned(s, "links", "conduits", i)
  BY <1>1, ConduitSchema DEF Keyed
<1>3. TypeAt(s, "links", i) \in TypesOf["links"]
  BY <1>1, <1>2 DEF Keyed
<1> HIDE DEF i
<1>4. SideTable[TypeAt(s, "links", i)] = "conduits"
  BY <1>2 DEF Owned
<1>5. TypeAt(s, "links", i) = "CONDUIT"
  BY <1>3, <1>4, ConduitSchema
<1>6. QED BY <1>5, ColumnTables DEF TypeAt, i

\* and a conduit has a row.
LEMMA ConduitKeyed ==
  ASSUME NEW m, Tables(m), NEW l \in Positions(m, "links"), m.data.link_type[l] = "CONDUIT"
  PROVE  \E r \in Positions(m, "conduits") : Key(m, "conduits", r) = l
<1>1. Keyed(m, "links")
  BY TablesParts, ConduitSchema DEF Backed
<1>2. TypeAt(m, "links", l) = "CONDUIT"
  BY ColumnTables DEF TypeAt
<1>3. SideTable[TypeAt(m, "links", l)] = "conduits" /\ TypeAt(m, "links", l) # "JUNCTION"
  BY <1>2 DEF SideTable
<1>4. Owned(m, "links", "conduits", l)
  BY <1>3 DEF Owned
<1>5. QED BY <1>1, <1>4, ConduitSchema DEF Keyed

\* Both halves are conduits.
LEMMA SplitConduits ==
  ASSUME NEW m, Tables(m), NEW l \in Positions(m, "links"), m.data.link_type[l] = "CONDUIT",
         NEW s, NEW n, NEW j, SplitAt(m, s, l, n, j)
  PROVE  s.data.link_type[l] = "CONDUIT" /\ s.data.link_type[j] = "CONDUIT"
<1> DEFINE r == Rejoined(s, l, j)
           c == Count(m, "conduits") + 1
<1>1. /\ Tables(s) /\ Prolongs(m, r, Grown3) /\ j \in Positions(s, "links")
      /\ Key(s, "conduits", c) = j /\ Columns(m) /\ Columns(s)
  BY TablesParts DEF SplitAt
<1>2. l \in Positions(s, "links")
  <2>1. Into(s, n) = {l}
    BY DEF SplitAt
  <2>2. QED BY <2>1 DEF Into
<1>3. /\ r.rows = s.rows /\ r.ref["conduit_link"] = s.ref["conduit_link"]
  BY <1>1, <1>2, RejoinedFacts, ConduitSchema DEF Same
<1> HIDE DEF r
<1>4. /\ Count(r, "conduits") = c /\ Count(m, "conduits") \in Nat
      /\ Agrees(m.ref["conduit_link"], r.ref["conduit_link"], Count(m, "conduits"))
  BY <1>1, ConduitSchema, ColumnsDomain DEF Prolongs
<1>5. Positions(s, "conduits") = 1 .. c /\ Positions(m, "conduits") = 1 .. Count(m, "conduits")
  BY <1>3, <1>4 DEF Count, Positions
<1>6. PICK x \in Positions(m, "conduits") : Key(m, "conduits", x) = l
  BY ConduitKeyed
<1>7. x \in Positions(s, "conduits") /\ Key(s, "conduits", x) = l
  BY <1>3, <1>4, <1>5, <1>6, ConduitSchema DEF Agrees, Key
<1>8. c \in Positions(s, "conduits")
  BY <1>4, <1>5
<1>9. QED BY <1>1, <1>7, <1>8, KeyedConduit

\* Two different elements
LEMMA PairCardinality ==
  ASSUME NEW a, NEW b, a # b
  PROVE  Cardinality({a, b}) = 2
<1>1. IsFiniteSet({a}) /\ Cardinality({a}) = 1
  BY FS_Singleton
<1>2. Cardinality({a} \cup {b}) = 2
  BY <1>1, FS_AddElement
<1>3. {a} \cup {b} = {a, b}
  OBVIOUS
<1>4. QED BY <1>2, <1>3

\* Exactly the two halves end at the new node.
LEMMA SplitEnds ==
  ASSUME NEW m, NEW s, NEW l, NEW j, NEW n, SplitAt(m, s, l, n, j)
  PROVE  Cardinality(Ends(s, n)) = 2 /\ Attached(s, n) = {l, j}
<1> DEFINE a == <<l, "node2">>
           b == <<j, "node1">>
<1>0. Into(s, n) = {l} /\ OutOf(s, n) = {j}
  BY DEF SplitAt
<1>1. a # b /\ a[1] = l /\ b[1] = j
  OBVIOUS
<1>2. Ends(s, n) = {a, b}
  <2>1. ASSUME NEW i, i \in Positions(s, "links"), s.ref["node2"][i] = n PROVE i = l
    <3>1. i \in Into(s, n)
      BY <2>1 DEF Into
    <3>2. QED BY <1>0, <3>1
  <2>2. ASSUME NEW i, i \in Positions(s, "links"), s.ref["node1"][i] = n PROVE i = j
    <3>1. i \in OutOf(s, n)
      BY <2>2 DEF OutOf
    <3>2. QED BY <1>0, <3>1
  <2>3. l \in Positions(s, "links") /\ s.ref["node2"][l] = n
    <3>1. l \in Into(s, n)
      BY <1>0
    <3>2. QED BY <3>1 DEF Into
  <2>4. j \in Positions(s, "links") /\ s.ref["node1"][j] = n
    <3>1. j \in OutOf(s, n)
      BY <1>0
    <3>2. QED BY <3>1 DEF OutOf
  <2>5. ASSUME NEW e \in Ends(s, n) PROVE e \in {a, b}
    <3>1. PICK i \in Positions(s, "links"), c \in {"node1", "node2"} : e = <<i, c>>
      BY <2>5 DEF Ends
    <3>2. s.ref[c][i] = n
      BY <2>5, <3>1 DEF Ends
    <3>3. CASE c = "node2"
      BY <2>1, <3>1, <3>2, <3>3
    <3>4. CASE c = "node1"
      BY <2>2, <3>1, <3>2, <3>4
    <3>5. QED BY <3>1, <3>3, <3>4
  <2>6. a \in Ends(s, n)
    BY <2>3 DEF Ends
  <2>7. b \in Ends(s, n)
    BY <2>4 DEF Ends
  <2> HIDE DEF a, b
  <2>8. QED BY <2>5, <2>6, <2>7
<1> HIDE DEF a, b
<1>3. Cardinality(Ends(s, n)) = 2
  <2>1. Cardinality({a, b}) = 2
    BY <1>1, PairCardinality
  <2>2. QED BY <1>2, <2>1
<1>4. Attached(s, n) = {l, j}
  <2>1. Attached(s, n) = {e[1] : e \in {a, b}}
    BY <1>2 DEF Attached
  <2>2. {e[1] : e \in {a, b}} = {a[1], b[1]}
    OBVIOUS
  <2>3. QED BY <1>1, <2>1, <2>2
<1>5. QED BY <1>3, <1>4

\* The flag of the new node is set.
LEMMA FlagSet ==
  ASSUME NEW h, Tables(h), NEW n \in Positions(h, "nodes"), MayBeVirtual(h, n)
  PROVE  Flagged(h, n, TRUE).data.is_virtual[n] = TRUE
<1> DEFINE o == [h.data.is_virtual EXCEPT ![n] = TRUE]
           data == [h.data EXCEPT !["is_virtual"] = o]
<1>1. /\ Columns(h) /\ "is_virtual" \in DOMAIN DataCols /\ DataCols["is_virtual"][1] = "nodes"
      /\ "is_virtual" \notin NotErased
  BY TablesParts, ColumnTables DEF NotErased
<1>2. DOMAIN h = {"rows", "ref", "name", "data", "subtype_row", "mat"} /\ DOMAIN h.data = DOMAIN DataCols
  BY <1>1, ColumnsDomain
<1>3. n \in DOMAIN h.data.is_virtual
  <2> DEFINE v == h.data["is_virtual"]
             k == Len(v)
  <2>1. IsColumn(v, k) /\ k = Count(h, "nodes")
    BY <1>1 DEF Columns
  <2> HIDE DEF v, k
  <2>2. DOMAIN v = 1 .. k
    BY <2>1, ColumnFacts
  <2>3. QED BY <2>1, <2>2 DEF v, Positions
<1>4. Flagged(h, n, TRUE) = [h EXCEPT !.data = data]
  BY <1>1, <1>2 DEF Flagged
<1>5. Flagged(h, n, TRUE).data = data
  <2> HIDE DEF data
  <2>1. QED BY <1>2, <1>4
<1>6. data["is_virtual"] = o
  <2> HIDE DEF o
  <2>1. QED BY <1>1, <1>2
<1>7. o[n] = TRUE
  BY <1>3
<1>8. QED BY <1>5, <1>6, <1>7

\* The node is flagged if the rules allow it.
FlaggedIn(h, s, n) == s = Flagged(h, n, TRUE)

\* The flag does not change the cross-sections of the halves.
LEMMA FlaggedSections ==
  ASSUME NEW h, NEW s, NEW l, NEW j, NEW n, Alike(h, l, j), FlaggedIn(h, s, n)
  PROVE  s.rows = h.rows /\ Section(s, l) = Section(s, j)
<1> DEFINE on == TRUE
<1>1. s = Flagged(h, n, on)
  BY DEF FlaggedIn
<1>2. Tables(h) /\ Section(h, l) = Section(h, j)
  BY DEF Alike
<1> HIDE DEF on
<1> DEFINE q == Flagged(h, n, on)
<1>3. /\ q.rows = h.rows /\ q.ref = h.ref
      /\ \A c \in {"xsect_shape", "xsect_geom"} : q.data[c] = h.data[c]
  BY <1>2, FlaggedShared
<1> HIDE DEF q
<1>4. \A x : Section(q, x) = Section(h, x)
  BY <1>3 DEF Section
<1>5. QED BY <1>1, <1>2, <1>3, <1>4 DEF q

\* A split node without lateral inflow got its flag, so it may be fused.
LEMMA FlaggedMayFuse ==
  ASSUME NEW m, Tables(m), NEW l \in Positions(m, "links"), MaySplit(m, l),
         NEW h, NEW s, NEW n, NEW j, SplitAt(m, s, l, n, j), Alike(h, l, j), FlaggedIn(h, s, n),
         ~HasLateralInflow(s, n)
  PROVE  MayFuse(s, n)
<1>1. Into(s, n) = {l} /\ OutOf(s, n) = {j}
  BY DEF SplitAt
<1>2. Cardinality(Ends(s, n)) = 2 /\ Attached(s, n) = {l, j}
  BY SplitEnds
<1>3. s.data.link_type[l] = "CONDUIT" /\ s.data.link_type[j] = "CONDUIT"
  <2>1. m.data.link_type[l] = "CONDUIT"
    BY DEF MaySplit
  <2>2. QED BY <2>1, SplitConduits
<1>4. TwoConduits(s, n)
  BY <1>2, <1>3 DEF TwoConduits
<1>5. s.rows = h.rows /\ Section(s, l) = Section(s, j)
  BY FlaggedSections
<1>6. MayBeVirtual(s, n)
  BY <1>2, <1>4, <1>5 DEF MayBeVirtual
<1>7. MayBeVirtual(h, n)
  <2>1. SUFFICES ASSUME ~MayBeVirtual(h, n) PROVE FALSE
    OBVIOUS
  <2>2. s = h
    BY <2>1 DEF FlaggedIn, Flagged
  <2>3. QED BY <1>6, <2>1, <2>2
<1>8. s.data.is_virtual[n] = TRUE
  <2>1. n \in Positions(h, "nodes") /\ Tables(h)
    BY <1>5 DEF SplitAt, Alike, Positions, Count
  <2>2. Flagged(h, n, TRUE).data.is_virtual[n] = TRUE
    BY <1>7, <2>1, FlagSet
  <2>3. QED BY <2>2 DEF FlaggedIn
<1>9. QED BY <1>1, <1>4, <1>8 DEF MayFuse

\* The same for the split of conduit l of m
LEMMA SplitMayFuse ==
  ASSUME NEW m, Tables(m), NEW l \in Positions(m, "links"), MaySplit(m, l), NEW id, NEW lid,
         ~HasLateralInflow(vj_split_conduit(m, l, id, lid, TRUE), Count(m, "nodes") + 1)
  PROVE  MayFuse(vj_split_conduit(m, l, id, lid, TRUE), Count(m, "nodes") + 1)
<1> DEFINE n == Count(m, "nodes") + 1
           j == Count(m, "links") + 1
           h == Unflagged(m, l, id, lid)
           s == vj_split_conduit(m, l, id, lid, TRUE)
<1>1. SplitAt(m, s, l, n, j) /\ Alike(h, l, j)
  BY SplitProlongs
<1>2. FlaggedIn(h, s, n)
  BY DEF vj_split_conduit, Unflagged, Doubled, FlaggedIn
<1>3. ~HasLateralInflow(s, n)
  OBVIOUS
<1> HIDE DEF h, j, s, n
<1>4. MayFuse(s, n)
  BY <1>1, <1>2, <1>3, FlaggedMayFuse
<1>5. QED BY <1>4 DEF s, n

\* No link is to be deleted.
LEMMA NoLinkDeleted ==
  ASSUME NEW m, Count(m, "links") \in Nat, NEW T, T = {}
  PROVE  delete_links(m, T) = m
<1> DEFINE n == Count(m, "links")
           after == CHOOSE f : After(m, T, n, n, f)
           S == {j \in Nat : j <= n => after[j] = m}
<1>1. n \in Nat
  OBVIOUS
<1>2. delete_links(m, T) = after[n]
  BY DEF delete_links, After
<1> HIDE DEF n
<1>3. After(m, T, n, n, after)
  BY <1>1, AfterExists
<1> HIDE DEF after
<1>4. 0 \in S
  BY <1>1, <1>3 DEF After
<1>5. ASSUME NEW j \in Nat, j \in S
      PROVE  j + 1 \in S
  <2>1. SUFFICES ASSUME j + 1 <= n PROVE after[j + 1] = m
    OBVIOUS
  <2>2. after[j] = m /\ j + 1 \in 0 .. n /\ (j + 1) - 1 = j /\ j + 1 # 0
    BY <1>1, <1>5, <2>1
  <2>3. n + 1 - (j + 1) \notin T
    OBVIOUS
  <2>4. QED BY <1>3, <2>2, <2>3 DEF After
<1>6. n \in S
  <2> HIDE DEF S
  <2>1. \A j \in Nat : j \in S
    BY <1>4, <1>5, SetInduction, Zenon
  <2>2. QED BY <1>1, <2>1
<1>7. QED BY <1>1, <1>2, <1>6

\* Only the matrices are touched.
LEMMA TreatmentErased ==
  ASSUME NEW m, NEW u, NEW E, Prolongs(m, u, E), NEW n
  PROVE  Prolongs(m, EraseTreatment(u, n), E)
<1> DEFINE q == EraseTreatment(u, n)
<1>1. Columns(u) /\ DOMAIN u = {"rows", "ref", "name", "data", "subtype_row", "mat"}
  BY ColumnsDomain DEF Prolongs
<1>2. /\ DOMAIN q = DOMAIN u /\ q.rows = u.rows /\ q.ref = u.ref /\ q.name = u.name
      /\ q.data = u.data /\ q.subtype_row = u.subtype_row
  <2> DEFINE T == u.mat.treatment
             more == T.cols > 0 /\ n <= T.rows /\ Fits(T.cells, T.rows, T.cols)
             mat == [u EXCEPT !.mat.treatment.cells = erase_matrix_row(@, T.rows, T.cols, n),
                              !.mat.treatment.rows = @ - 1].mat
  <2>1. q = IF more THEN [u EXCEPT !.mat = mat] ELSE u
    BY <1>1 DEF EraseTreatment
  <2> HIDE DEF mat, more, q
  <2>2. QED BY <1>1, <2>1
<1> HIDE DEF q
<1>3. Columns(q)
  BY <1>1, <1>2 DEF Columns, Count
<1>4. QED BY <1>2, <1>3, ProlongedFrame DEF q

\* The new link goes, and its row of conduits with it.
LEMMA LinkUndone ==
  ASSUME NEW m, Tables(m), NEW r, Prolongs(m, r, Grown3),
         Key(r, "conduits", Count(m, "conduits") + 1) = Count(m, "links") + 1
  PROVE  Prolongs(m, delete_link(r, Count(m, "links") + 1), {"nodes"})
<1> DEFINE j == Count(m, "links") + 1
           f == Nullify(r, {"divider_link"}, j)
           a == CascadeRows(f, "inlet_usages", "inlet_link", j)
           e == EraseObject(a, "links", j)
           g == Nullify(e, {"outfall_link"}, j)
           C == {"divider_link", "inlet_link", "outfall_link"}
<1>1. delete_link(r, j) = Renumber(g, C, j)
  BY DEF delete_link
<1>2. /\ Columns(m) /\ Columns(r) /\ j \in Int
      /\ Before(m, C, j) /\ Before(m, {"divider_link"}, j) /\ Before(m, {"inlet_link"}, j)
      /\ Before(m, {"outfall_link"}, j) /\ Before(m, {Join[t] : t \in SideTables("links")}, j)
      /\ {"divider_link"} \cap JoinCols = {} /\ {"outfall_link"} \cap JoinCols = {}
  <2>1. Columns(m) /\ Columns(r) /\ Count(m, "links") \in Nat
    BY TablesParts, LinkSchema DEF Prolongs
  <2>2. \A D : D \subseteq C => Before(m, D, j)
    BY LinkSchema, ReferencesBefore
  <2>3. {"divider_link"} \cap JoinCols = {} /\ {"outfall_link"} \cap JoinCols = {}
    BY LinkSchema
  <2>4. Before(m, {Join[t] : t \in SideTables("links")}, j)
    BY KeysBefore, ConduitSchema
  <2> HIDE DEF j
  <2>5. QED BY <2>1, <2>2, <2>3, <2>4 DEF j
<1> HIDE DEF j, C
<1>3. Prolongs(m, f, Grown3) /\ f.ref["conduit_link"] = r.ref["conduit_link"]
  <2>1. Prolongs(m, f, Grown3)
    BY <1>2, NullifyProlonged
  <2>2. \A c \in DOMAIN Refs : f.ref[c] = IF c \in {"divider_link"} THEN Nullified(r.ref[c], j, 0) ELSE r.ref[c]
    BY <1>2, NullifyFacts
  <2> HIDE DEF f
  <2>3. "conduit_link" \notin {"divider_link"}
    OBVIOUS
  <2>4. QED BY <2>1, <2>2, <2>3, ConduitSchema
<1> HIDE DEF f
<1>4. Prolongs(m, a, Grown3) /\ a.ref["conduit_link"] = f.ref["conduit_link"]
  <2>1. "inlet_link" \in DOMAIN Refs \ {"route_to"} /\ "inlet_usages" = Refs["inlet_link"][1]
    BY LinkSchema
  <2>2. "inlet_usages" \notin Grown3 /\ Refs["conduit_link"][1] # "inlet_usages"
    BY ConduitSchema DEF Grown3
  <2>3. QED BY <1>2, <1>3, <2>1, <2>2, CascadeProlonged, ConduitSchema
<1> HIDE DEF a
<1>5. Prolongs(m, e, {"nodes"})
  <2>1. "links" \in Grown3 /\ "links" \in DOMAIN TypeColumn /\ "nodes" \notin SideTables("links")
    BY ConduitSchema, SideSchema, NodeSchema DEF Grown3
  <2>2. ASSUME NEW t \in SideTables("links"), t \in Grown3
        PROVE  Key(a, t, Count(m, t) + 1) = j
    <3>1. t = "conduits"
      BY <2>1, <2>2, SideSchema DEF Grown3
    <3>2. Key(a, "conduits", Count(m, "conduits") + 1) = Key(r, "conduits", Count(m, "conduits") + 1)
      BY <1>3, <1>4, ConduitSchema DEF Key
    <3>3. QED BY <3>1, <3>2 DEF j
  <2>3. Prolongs(m, e, (Grown3 \ {"links"}) \ SideTables("links"))
    BY <1>2, <1>4, <2>1, <2>2, EraseObjectProlonged DEF e, j
  <2>4. (Grown3 \ {"links"}) \ SideTables("links") = {"nodes"}
    BY <2>1, ConduitSchema DEF Grown3
  <2>5. QED BY <2>3, <2>4
<1> HIDE DEF e
<1>6. Prolongs(m, g, {"nodes"})
  BY <1>2, <1>5, NullifyProlonged
<1> HIDE DEF g
<1>7. Prolongs(m, Renumber(g, C, j), {"nodes"})
  BY <1>2, <1>6, RenumberProlonged
<1>8. QED BY <1>1, <1>7 DEF j

\* The new node goes; no link touches it.
LEMMA NodeUndone ==
  ASSUME NEW m, Tables(m), NEW v, Prolongs(m, v, {"nodes"})
  PROVE  Prolongs(m, delete_node(v, Count(m, "nodes") + 1), {})
<1> DEFINE n == Count(m, "nodes") + 1
           u == delete_links(v, Touching(v, n))
           F == {"outlet_node", "gw_node", "route_to", "inlet_node"}
           f == Nullify(u, F, n)
           d1 == CascadeRows(f, "ext_inflows", "ext_node", n)
           d2 == CascadeRows(d1, "dwf_inflows", "dwf_node", n)
           d3 == CascadeRows(d2, "rdii_assigns", "rdii_node", n)
           e == EraseTreatment(d3, n)
           C == {"node1", "node2", "outlet_node", "route_to", "inlet_node", "gw_node",
                 "ext_node", "dwf_node", "rdii_node"}
           o == EraseObject(e, "nodes", n)
<1>1. delete_node(v, n) = Renumber(o, C, n)
  BY DEF delete_node, Touching
<1>2. /\ Columns(m) /\ Columns(v) /\ n \in Int /\ Before(m, C, n) /\ Before(m, F, n)
      /\ Before(m, {"ext_node"}, n) /\ Before(m, {"dwf_node"}, n) /\ Before(m, {"rdii_node"}, n)
      /\ Before(m, {"node1"}, n) /\ Before(m, {"node2"}, n)
      /\ Before(m, {Join[t] : t \in SideTables("nodes")}, n) /\ F \cap JoinCols = {}
  <2>1. Columns(m) /\ Columns(v) /\ Count(m, "nodes") \in Nat
    BY TablesParts, NodeSchema DEF Prolongs
  <2>2. \A D : D \subseteq C => Before(m, D, n)
    BY NodeSchema, ReferencesBefore
  <2>3. F \cap JoinCols = {}
    BY NodeSchema
  <2>4. Before(m, {Join[t] : t \in SideTables("nodes")}, n)
    BY KeysBefore, ColumnTables
  <2>5. /\ C \subseteq C /\ F \subseteq C /\ {"ext_node"} \subseteq C /\ {"dwf_node"} \subseteq C
        /\ {"rdii_node"} \subseteq C /\ {"node1"} \subseteq C /\ {"node2"} \subseteq C
    OBVIOUS
  <2> HIDE DEF n, C, F
  <2>6. n \in Int
    BY <2>1 DEF n
  <2>7. QED BY <2>1, <2>2, <2>3, <2>4, <2>5, <2>6
<1> HIDE DEF n, C, F
<1>3. u = v
  <2>1. /\ Positions(v, "links") = 1 .. Count(m, "links") /\ Count(v, "links") \in Nat
        /\ \A c \in {"node1", "node2"} : Agrees(m.ref[c], v.ref[c], Count(m, "links"))
    <3>1. "links" \in Kinds /\ "links" \notin {"nodes"}
      BY TypeSchema, ColumnTables
    <3>2. Count(v, "links") = Count(m, "links") /\ Count(m, "links") \in Nat
      BY <1>2, <3>1, ColumnsDomain DEF Prolongs
    <3>3. \A c \in {"node1", "node2"} : c \in DOMAIN Refs \ {"route_to"} /\ Refs[c][1] = "links"
      BY EndSchema
    <3>4. \A c \in {"node1", "node2"} : Agrees(m.ref[c], v.ref[c], Count(m, "links"))
      BY <3>3 DEF Prolongs
    <3>5. QED BY <3>2, <3>4 DEF Positions
  <2>2. \A c \in {"node1", "node2"} : \A x \in 1 .. Count(m, "links") : m.ref[c][x] # n
    <3>1. \A c \in {"node1", "node2"} : c \in (({c} \cap DOMAIN Refs) \ {"route_to"}) /\ Refs[c][1] = "links"
      BY EndSchema
    <3>2. \A c \in {"node1", "node2"} : Before(m, {c}, n)
      BY <1>2
    <3>3. QED BY <1>2, <3>1, <3>2 DEF Before
  <2>3. Touching(v, n) = {}
    BY <2>1, <2>2 DEF Agrees, Touching, Ends12
  <2>4. QED BY <2>1, <2>3, NoLinkDeleted
<1> HIDE DEF u
<1>4. Prolongs(m, f, {"nodes"})
  BY <1>2, <1>3, NullifyProlonged
<1> HIDE DEF f
<1>5. /\ \A c \in {"ext_node", "dwf_node", "rdii_node"} : c \in DOMAIN Refs \ {"route_to"}
      /\ Refs["ext_node"][1] = "ext_inflows" /\ Refs["dwf_node"][1] = "dwf_inflows"
      /\ Refs["rdii_node"][1] = "rdii_assigns"
      /\ "ext_inflows" \notin {"nodes"} /\ "dwf_inflows" \notin {"nodes"} /\ "rdii_assigns" \notin {"nodes"}
  BY NodeSchema
<1>6. Prolongs(m, d1, {"nodes"})
  BY <1>2, <1>4, <1>5, CascadeProlonged
<1> HIDE DEF d1
<1>7. Prolongs(m, d2, {"nodes"})
  BY <1>2, <1>5, <1>6, CascadeProlonged
<1> HIDE DEF d2
<1>8. Prolongs(m, d3, {"nodes"})
  BY <1>2, <1>5, <1>7, CascadeProlonged
<1> HIDE DEF d3
<1>9. Prolongs(m, e, {"nodes"})
  BY <1>8, TreatmentErased
<1> HIDE DEF e
<1>10. Prolongs(m, o, {})
  <2>1. "nodes" \in {"nodes"} /\ "nodes" \in DOMAIN TypeColumn
    BY ColumnTables
  <2>2. \A t \in SideTables("nodes") : t \notin {"nodes"}
    BY <2>1, SideSchema
  <2>3. Prolongs(m, o, ({"nodes"} \ {"nodes"}) \ SideTables("nodes"))
    BY <1>2, <1>9, <2>1, <2>2, EraseObjectProlonged DEF n
  <2>4. ({"nodes"} \ {"nodes"}) \ SideTables("nodes") = {}
    OBVIOUS
  <2>5. QED BY <2>3, <2>4
<1> HIDE DEF o
<1>11. Prolongs(m, Renumber(o, C, n), {})
  BY <1>2, <1>10, RenumberProlonged
<1>12. QED BY <1>1, <1>11 DEF n

\* Fusing takes what the split has made.
LEMMA FusedProlongs ==
  ASSUME NEW m, Tables(m), NEW l, NEW s,
         SplitAt(m, s, l, Count(m, "nodes") + 1, Count(m, "links") + 1)
  PROVE  Prolongs(m, vj_fuse(s, Count(m, "nodes") + 1), {})
<1> DEFINE n == Count(m, "nodes") + 1
           j == Count(m, "links") + 1
           r == Rejoined(s, l, j)
<1>1. Into(s, n) = {l} /\ OutOf(s, n) = {j}
  BY DEF SplitAt
<1>2. (CHOOSE x \in {l} : TRUE) = l /\ (CHOOSE x \in {j} : TRUE) = j
  OBVIOUS
<1> HIDE DEF n, j
<1>3. vj_fuse(s, n) = delete_node(delete_link(r, j), n)
  BY <1>1, <1>2 DEF vj_fuse, Rejoined, SetRef
<1>4. Prolongs(m, r, Grown3) /\ Key(s, "conduits", Count(m, "conduits") + 1) = j
  BY DEF SplitAt, n, j
<1>5. Key(r, "conduits", Count(m, "conduits") + 1) = j
  <2>1. Tables(s) /\ l \in Positions(s, "links") /\ j \in Positions(s, "links")
    <3>1. l \in Into(s, n) /\ j \in OutOf(s, n)
      BY <1>1
    <3>2. QED BY <3>1 DEF SplitAt, Into, OutOf
  <2>2. r.ref["conduit_link"] = s.ref["conduit_link"]
    BY <2>1, RejoinedFacts, ConduitSchema
  <2> HIDE DEF r
  <2>3. QED BY <1>4, <2>2, ConduitSchema DEF Key
<1> HIDE DEF r
<1>6. Prolongs(m, delete_link(r, j), {"nodes"})
  BY <1>4, <1>5, LinkUndone DEF j
<1>7. Prolongs(m, delete_node(delete_link(r, j), n), {})
  BY <1>6, NodeUndone DEF n
<1>8. QED BY <1>3, <1>7 DEF n

\* The same rows, names and references, except route_to
Twins(m, q) ==
  /\ Tables(m) /\ Tables(q)
  /\ \A k \in Kinds : q.rows[k] = m.rows[k] /\ Positions(q, k) = Positions(m, k)
  /\ \A c \in DOMAIN Refs \ {"route_to"} : q.ref[c] = m.ref[c]
  /\ \A c \in DOMAIN NameRefs : q.name[c] = m.name[c]

\* Columns that agree on all of their rows are equal.
LEMMA ProlongedTwins ==
  ASSUME NEW m, Tables(m), NEW q, Tables(q), Prolongs(m, q, {})
  PROVE  Twins(m, q)
<1>1. /\ Columns(m) /\ Columns(q)
      /\ \A k \in Kinds : Count(q, k) = Count(m, k) /\ Positions(q, k) = Positions(m, k)
  BY TablesParts DEF Prolongs, Positions
<1>2. ASSUME NEW k \in Kinds PROVE q.rows[k] = m.rows[k]
  <2> DEFINE a == m.rows[k]
             b == q.rows[k]
             n == Count(m, k)
  <2>1. IsColumn(a, n) /\ IsColumn(b, n) /\ \A i \in 1 .. n : a[i] = b[i]
    BY <1>1 DEF Columns, Prolongs, Agrees
  <2> HIDE DEF a, b, n
  <2>2. a = b
    BY <2>1, ColumnEqual
  <2>3. QED BY <2>2 DEF a, b
<1>3. ASSUME NEW c \in DOMAIN Refs \ {"route_to"} PROVE q.ref[c] = m.ref[c]
  <2> DEFINE a == m.ref[c]
             b == q.ref[c]
             n == Count(m, Refs[c][1])
  <2>1. Refs[c][1] \in Kinds
    BY RefSchema
  <2>2. IsColumn(a, n) /\ IsColumn(b, n) /\ \A i \in 1 .. n : a[i] = b[i]
    BY <1>1, <2>1 DEF Columns, Prolongs, Agrees
  <2> HIDE DEF a, b, n
  <2>3. a = b
    BY <2>2, ColumnEqual
  <2>4. QED BY <2>3 DEF a, b
<1>4. ASSUME NEW c \in DOMAIN NameRefs PROVE q.name[c] = m.name[c]
  <2> DEFINE a == m.name[c]
             b == q.name[c]
             n == Count(m, NameRefs[c][1])
  <2>1. NameRefs[c][1] \in Kinds
    BY NameSchema
  <2>2. IsColumn(a, n) /\ IsColumn(b, n) /\ \A i \in 1 .. n : a[i] = b[i]
    BY <1>1, <2>1 DEF Columns, Prolongs, Agrees
  <2> HIDE DEF a, b, n
  <2>3. a = b
    BY <2>2, ColumnEqual
  <2>4. QED BY <2>3 DEF a, b
<1>5. QED BY <1>1, <1>2, <1>3, <1>4 DEF Twins

\* Every side table belongs to nodes or links.
LEMMA OwnerSchema ==
  ASSUME NEW t \in DOMAIN Join
  PROVE  Owner(t) \in DOMAIN TypeColumn /\ t \in SideTables(Owner(t))
<1>1. Refs[Join[t]][2] \in {"nodes", "links"}
  BY DEF Join, Refs
<1>2. Owner(t) = Refs[Join[t]][2]
  BY DEF Owner
<1>3. QED BY <1>1, <1>2, ColumnTables DEF SideTables

\* The row that is found is the one that is joined to the object.
LEMMA RowFound ==
  ASSUME NEW m, Tables(m), NEW k \in DOMAIN TypeColumn, NEW t \in SideTables(k),
         NEW i \in Positions(m, k), NEW r \in Positions(m, t), Key(m, t, r) = i
  PROVE  RowIn(m, k, t, i) = r
<1>1. Keyed(m, k) /\ Indexed(m, k) /\ Count(m, t) \in Nat /\ Count(m, k) \in Nat
  BY TablesParts, SideSchema, ColumnsDomain DEF Backed
<1>2. Owned(m, k, t, i)
  BY <1>1 DEF Keyed
<1> DEFINE x == m.subtype_row[k][i]
<1>3. x \in Positions(m, t) /\ Key(m, t, x) = i
  BY <1>1, <1>2 DEF Indexed, Owned
<1> HIDE DEF x
<1>4. x = r
  BY <1>1, <1>3, KeyUnique
<1>5. QED BY <1>3, <1>4 DEF RowIn, Key, x

\* The same row of the side table is found in both.
LEMMA TwinRow ==
  ASSUME NEW m, NEW q, Twins(m, q), NEW k \in DOMAIN TypeColumn, NEW t \in SideTables(k),
         NEW i \in Positions(m, k)
  PROVE  RowIn(q, k, t, i) = RowIn(m, k, t, i)
<1>1. /\ Tables(m) /\ Tables(q) /\ i \in Positions(q, k) /\ Positions(q, t) = Positions(m, t)
      /\ \A r : Key(q, t, r) = Key(m, t, r)
  <2>1. Join[t] \in DOMAIN Refs \ {"route_to"} /\ t \in Kinds /\ k \in Kinds
    BY SideSchema, NodeSchema
  <2>2. QED BY <2>1 DEF Twins, Key
<1>2. CASE \E r \in Positions(m, t) : Key(m, t, r) = i
  <2>1. PICK r \in Positions(m, t) : Key(m, t, r) = i
    BY <1>2
  <2>2. r \in Positions(q, t) /\ Key(q, t, r) = i
    BY <1>1, <2>1
  <2>3. RowIn(m, k, t, i) = r
    BY <1>1, <2>1, RowFound
  <2>4. RowIn(q, k, t, i) = r
    BY <1>1, <2>2, RowFound
  <2>5. QED BY <2>3, <2>4
<1>3. CASE ~\E r \in Positions(m, t) : Key(m, t, r) = i
  BY <1>1, <1>3 DEF RowIn, Key
<1>4. QED BY <1>2, <1>3

\* A reference by index points to the same object in both.
LEMMA TwinIndexPoint ==
  ASSUME NEW m, NEW q, Twins(m, q), NEW c \in DOMAIN Refs \ {"route_to"},
         NEW i \in Positions(m, Owner(Refs[c][1]))
  PROVE  IndexPoint(q, c, i) = IndexPoint(m, c, i)
<1> DEFINE t == Refs[c][1]
           a == IF t \in DOMAIN Join THEN RowIn(m, Owner(t), t, i) ELSE i
           b == IF t \in DOMAIN Join THEN RowIn(q, Owner(t), t, i) ELSE i
<1>1. a = b
  <2>1. CASE t \in DOMAIN Join
    <3>1. RowIn(q, Owner(t), t, i) = RowIn(m, Owner(t), t, i)
      BY <2>1, OwnerSchema, TwinRow
    <3>2. QED BY <3>1
  <2>2. CASE t \notin DOMAIN Join
    BY <2>2
  <2>3. QED BY <2>1, <2>2
<1> HIDE DEF a, b
<1>2. q.ref[c] = m.ref[c]
  BY DEF Twins
<1>3. \A x : ObjectAt(q, Refs[c][2], x) = ObjectAt(m, Refs[c][2], x)
  BY RefSchema DEF Twins, ObjectAt
<1>4. IndexPoint(m, c, i) = IF a = 0 THEN Nothing ELSE ObjectAt(m, Refs[c][2], m.ref[c][a])
  BY DEF IndexPoint, a
<1>5. IndexPoint(q, c, i) = IF b = 0 THEN Nothing ELSE ObjectAt(q, Refs[c][2], q.ref[c][b])
  BY DEF IndexPoint, b
<1>6. QED BY <1>1, <1>2, <1>3, <1>4, <1>5

\* The objects and their indices are the same in both.
LEMMA TwinObjects ==
  ASSUME NEW m, NEW q, Twins(m, q)
  PROVE  /\ Objects(q) = Objects(m)
         /\ \A o \in Objects(m) : IndexOf(q, o) = IndexOf(m, o) /\ IndexOf(m, o) \in Positions(m, o[1])
<1>1. Objects(q) = Objects(m)
  BY DEF Twins, Objects
<1>2. ASSUME NEW o \in Objects(m)
      PROVE  IndexOf(q, o) = IndexOf(m, o) /\ IndexOf(m, o) \in Positions(m, o[1])
  <2>1. PICK k \in Kinds \ DOMAIN Join : o \in {k} \X Range(m.rows[k])
    BY DEF Objects
  <2>2. o[1] = k /\ o[2] \in Range(m.rows[k])
    BY <2>1
  <2>3. DOMAIN m.rows[k] = Positions(m, k)
    <3> DEFINE s == m.rows[k]
               n == Count(m, k)
    <3>1. IsColumn(s, n)
      BY TablesParts DEF Twins, Columns
    <3> HIDE DEF s, n
    <3>2. DOMAIN s = 1 .. n
      BY <3>1, ColumnFacts
    <3>3. QED BY <3>2 DEF s, n, Positions
  <2>4. \E i \in Positions(m, k) : m.rows[k][i] = o[2]
    BY <2>2, <2>3 DEF Range
  <2>5. Positions(q, o[1]) = Positions(m, o[1]) /\ q.rows[o[1]] = m.rows[o[1]]
    BY <2>2 DEF Twins
  <2>6. IndexOf(q, o) = IndexOf(m, o)
    BY <2>5 DEF IndexOf
  <2>7. QED BY <2>2, <2>4, <2>6 DEF IndexOf
<1>3. QED BY <1>1, <1>2

\* All references point to the same objects in both.
LEMMA TwinPoints ==
  ASSUME NEW m, NEW q, Twins(m, q), "route_to" \notin Followed
  PROVE  PointsOf(q) = PointsOf(m)
<1> DEFINE D == {y \in Followed \X Objects(m) : GraphColumn[y[1]][1] = y[2][1]}
           Point(u, x) == IF x[1] \in DOMAIN Refs THEN IndexPoint(u, x[1], IndexOf(u, x[2]))
                          ELSE NamePoint(u, x[1], IndexOf(u, x[2]))
<1>1. Objects(q) = Objects(m)
  BY TwinObjects
<1>2. PointsOf(m) = [x \in D |-> Point(m, x)]
  BY DEF PointsOf
<1>3. PointsOf(q) = [x \in D |-> Point(q, x)]
  BY <1>1 DEF PointsOf
<1>4. ASSUME NEW x \in D PROVE Point(q, x) = Point(m, x)
  <2> DEFINE c == x[1]
             i == IndexOf(m, x[2])
  <2>1. c \in Followed /\ x[2] \in Objects(m) /\ GraphColumn[c][1] = x[2][1]
    OBVIOUS
  <2>2. IndexOf(q, x[2]) = i /\ i \in Positions(m, x[2][1])
    BY <2>1, TwinObjects
  <2>3. CASE c \in DOMAIN Refs
    <3>1. GraphColumn[c][1] = Owner(Refs[c][1]) /\ c # "route_to"
      BY <2>1, <2>3 DEF GraphColumn
    <3>2. i \in Positions(m, Owner(Refs[c][1]))
      BY <2>1, <2>2, <3>1
    <3> HIDE DEF c, i
    <3>3. IndexPoint(q, c, i) = IndexPoint(m, c, i)
      BY <2>3, <3>1, <3>2, TwinIndexPoint
    <3>4. QED BY <2>2, <2>3, <3>3 DEF c, i
  <2>4. CASE c \notin DOMAIN Refs
    <3>1. c \in DOMAIN NameRefs
      BY <2>1, <2>4, FollowedAssumption
    <3>2. q.name[c] = m.name[c]
      BY <3>1 DEF Twins
    <3>3. NamePoint(q, c, i) = NamePoint(m, c, i)
      BY <3>2 DEF NamePoint
    <3> HIDE DEF c, i
    <3>4. QED BY <2>2, <2>4, <3>3 DEF c, i
  <2>5. QED BY <2>3, <2>4
<1> HIDE DEF D, Point
<1>5. QED BY <1>2, <1>3, <1>4

\* FuseUndoesSplit for one conduit of a well-formed model
LEMMA SplitFuses ==
  ASSUME NEW m, WellFormed(m), "route_to" \notin Followed,
         NEW l \in Positions(m, "links"), MaySplit(m, l), NEW id, NEW lid
  PROVE  FusesTo(vj_split_conduit(m, l, id, lid, TRUE), Count(m, "nodes") + 1, m)
<1> DEFINE n == Count(m, "nodes") + 1
           s == vj_split_conduit(m, l, id, lid, TRUE)
           q == vj_fuse(s, n)
<1>1. SUFFICES ASSUME ~HasLateralInflow(s, n) PROVE MayFuse(s, n) /\ SameModel(q, m)
  BY DEF FusesTo
<1>2. Tables(m) /\ DOMAIN m.mat = MatNames
  BY WellFormedParts DEF Matrices, MatNames
<1>3. MayFuse(s, n)
  BY <1>1, <1>2, SplitMayFuse
<1>4. SplitAt(m, s, l, n, Count(m, "links") + 1)
  BY <1>2, SplitProlongs
<1>5. s.mat = m.mat
  <2>1. WithLinkedNode(m, s, id)
    BY <1>2, ConduitSplitSound
  <2> HIDE DEF s
  <2>2. QED BY <2>1 DEF WithLinkedNode
<1> HIDE DEF s
<1>6. Prolongs(m, q, {})
  BY <1>2, <1>4, FusedProlongs
<1> HIDE DEF n
<1>7. Tables(q)
  <2>1. Tables(s) /\ n \in Positions(s, "nodes")
    BY <1>4 DEF SplitAt
  <2>2. WithoutNode(s, vj_fuse(s, n), n)
    BY <1>2, <1>3, <1>5, <2>1, FuseSound
  <2>3. QED BY <2>2 DEF WithoutNode
<1> HIDE DEF q
<1>8. Twins(m, q)
  BY <1>2, <1>6, <1>7, ProlongedTwins
<1>9. PointsOf(q) = PointsOf(m)
  BY <1>8, TwinPoints
<1>10. SameModel(q, m)
  BY <1>8, <1>9 DEF SameModel, Twins
<1>11. QED BY <1>3, <1>10

\* Splitting a conduit at a virtual junction and fusing it gives back the objects
\* and what they refer to, whatever edits came before.  route_to is left out:
\* delete_node takes it for a reference to a node (ObjectDeleter.cpp), so that the
\* fusion may clear or shift the routing of an outfall to a subcatchment.
THEOREM FuseUndoesSplitCorrect ==
  ASSUME "route_to" \notin Followed
  PROVE  Spec => []FuseUndoesSplit
<1>1. WellFormed(model) => FuseUndoesSplit
  BY SplitFuses DEF FuseUndoesSplit
<1>2. Spec => []WellFormed(model)
  BY WellFormedCorrect
<1>3. QED BY <1>1, <1>2, PTL

=============================================================================
