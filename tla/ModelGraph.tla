----------------------------- MODULE ModelGraph -----------------------------
(***************************************************************************)
(* What editing a model promises, without indices: a model is a set of     *)
(* named objects and, for every reference column of an object, the object  *)
(* it points to.  ModelEdit implements it.                                 *)
(***************************************************************************)
EXTENDS FiniteSets

CONSTANTS
  Column,    \* column -> <<kind of the object that has it, kind it points to>>
  Cascade,   \* columns whose holder is deleted with the object they point to
  None       \* a column that points to nothing

VARIABLES
  objects,   \* the objects: <<kind, name>>
  points     \* <<column, object>> -> the object it points to, or None

Slots(O) == {x \in (DOMAIN Column) \X O : Column[x[1]][1] = x[2][1]}

\* S and what must go with it: links go with their nodes, inlets with their links.
Gone(S, p) ==
  LET With(T) == T \cup {x[2] : x \in {y \in DOMAIN p : y[1] \in Cascade /\ p[y] \in T}}
  IN With(With(S))

Remove(S, p) ==
  LET gone == Gone(S, p)
  IN /\ objects' = objects \ gone
     /\ points' = [x \in Slots(objects \ gone) |-> IF p[x] \in gone THEN None ELSE p[x]]

\* Deleting an object takes its cascade along, clears the references to what
\* went, and leaves every other reference pointing to the object it pointed to.
Delete(o) == Remove({o}, points)

\* A new object points to nothing and nothing points to it.
Add(o) ==
  /\ objects' = objects \cup {o}
  /\ LET p == points
     IN points' = [x \in Slots(objects \cup {o}) |-> IF x[2] = o THEN None ELSE p[x]]

\* Undo of an add: nothing else changes.
Pop(o) ==
  /\ objects' = objects \ {o}
  /\ LET p == points
     IN /\ \A x \in DOMAIN p : x[2] # o => p[x] # o
        /\ points' = [x \in Slots(objects \ {o}) |-> p[x]]

\* One object's own references are set, or cleared by a change of type.
Differ(p, q) == {x \in DOMAIN p : q[x] # p[x]}
Change ==
  /\ objects' = objects
  /\ DOMAIN points' = DOMAIN points
  /\ \A x, y \in Differ(points, points') : x[2] = y[2]

\* Link l is cut in two at a new node n; j is the new downstream half.
Split(l, n, j) ==
  /\ <<"node2", l>> \in DOMAIN points /\ j[1] = l[1] /\ n # j
  /\ objects' = objects \cup {n, j}
  /\ LET p == points
     IN points' = [x \in Slots(objects \cup {n, j}) |->
          CASE x = <<"node2", l>> -> n
            [] x = <<"node1", j>> -> n
            [] x = <<"node2", j>> -> p[<<"node2", l>>]
            [] x # <<"node2", l>> /\ x[2] \notin {n, j} -> p[x]
            [] OTHER -> None]

\* The links up and dn that meet at node n become one.
Fuse(n, up, dn) ==
  /\ points[<<"node2", up>>] = n /\ points[<<"node1", dn>>] = n
  /\ Remove({n, dn}, [points EXCEPT ![<<"node2", up>>] = points[<<"node2", dn>>]])

Next ==
  \/ \E o \in objects \ objects' : Delete(o) \/ Pop(o)
  \/ \E o \in objects' \ objects : Add(o)
  \/ Change
  \/ \E l \in objects, n, j \in objects' \ objects : Split(l, n, j)
  \/ \E n, dn \in objects \ objects', up \in objects :
       <<"node2", up>> \in DOMAIN points /\ <<"node1", dn>> \in DOMAIN points /\ Fuse(n, up, dn)

Spec == [][Next]_<<objects, points>>
=============================================================================
