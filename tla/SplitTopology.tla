---------------------------- MODULE SplitTopology ----------------------------
(***************************************************************************)
(* The dependencies of a split.  The subtasks an agent proposes name the   *)
(* siblings they depend on: by the id it gave them, by position, by        *)
(* padded position, or by a child's own id.  reject_split_topology         *)
(* resolves the names in one map to judge the graph, add_children in       *)
(* another to store it, and next_nodes runs a child when every dependency  *)
(* it has stored is complete.  A parent may split again later.             *)
(*                                                                         *)
(* An operator named ...Faulty is a deliberate mistake: put in place of    *)
(* the definition it precedes, it makes a property of a run fail.          *)
(***************************************************************************)
EXTENDS Naturals, Sequences

CONSTANTS
  Given,      \* the ids an agent gives its subtasks
  Spaces,     \* a dependency may be an empty string
  Width,      \* bound: the subtasks of a split
  MaxKids     \* bound: the children of the parent

\* What the constants must be.
TopologyAssumption == {Width, MaxKids} \subseteq Nat /\ Spaces \in BOOLEAN

VARIABLES
  kids,       \* the dependencies stored for each child, in their order
  done        \* the children that are complete

vars == <<kids, done>>

\* Names, by what they look like: "a", "1", "01", "<parent>-01", "#1", "".
Id(i) == <<"id", i>>
Position(i) == <<"position", i>>
Padded(i) == <<"padded", i>>
Unnamed(i) == <<"unnamed", i>>
Own(x) == <<"given", x>>
Blank == <<"blank", 0>>

Name == {Own(x) : x \in Given} \cup (IF Spaces THEN {Blank} ELSE {})
          \cup UNION {{Position(i), Padded(i), Id(i)} : i \in 1 .. MaxKids}

\* The subtasks of a split: ids apart from each other, and a dependency or none.
Subtask == [id : {Own(x) : x \in Given} \cup {Blank}, dependsOn : {{}} \cup {{n} : n \in Name}]
Proposal ==
  {p \in UNION {[1 .. k -> Subtask] : k \in 1 .. Width} :
     \A i, j \in DOMAIN p : i # j /\ p[i].id # Blank => p[i].id # p[j].id}

\* The type of the state.
TypeOK ==
  /\ Len(kids) <= MaxKids /\ \A i \in DOMAIN kids : kids[i] \subseteq Name
  /\ done \subseteq DOMAIN kids

Init == kids = <<>> /\ done = {}

-----------------------------------------------------------------------------
(* A map is the set of its insertions: the last one of a name counts. *)

Insert(at, name, value) == [at |-> at, name |-> name, value |-> value]

Bound(map, name) == \E x \in map : x.name = name
LastOf(map, name) ==
  CHOOSE x \in map : x.name = name /\ \A y \in map : y.name = name => y.at <= x.at
Lookup(map, name) == LastOf(map, name).value

\* The children there are, by id and by the suffix of it, come first.
Existing(e) == UNION {{Insert(0, Id(i), Id(i)), Insert(0, Padded(i), Id(i))} : i \in 1 .. e}

\* reject_split_topology: a subtask's key is its id, or its number.
Key(p, i) == IF p[i].id = Blank THEN Unnamed(i) ELSE p[i].id

Keyed(p, i) ==
  {Insert(3 * i, Position(i), Key(p, i)), Insert(3 * i + 1, Padded(i), Key(p, i)),
   Insert(3 * i + 2, Key(p, i), Key(p, i))}

Canonical(e, p) == Existing(e) \cup UNION {Keyed(p, i) : i \in DOMAIN p}

\* An empty name is passed over.
Named(p, i) == p[i].dependsOn \ {Blank}

Unknown(e, p) == \E i \in DOMAIN p : \E n \in Named(p, i) : ~Bound(Canonical(e, p), n)

Edge(e, p, i, j) == \E n \in Named(p, i) : Lookup(Canonical(e, p), n) = Key(p, j)

\* What can be reached from i in some steps: it is in whatever has the subtasks i
\* depends on, and with a subtask those it depends on.
Reached(e, p, i) ==
  {m \in DOMAIN p : \A set \in SUBSET DOMAIN p :
     (\A j, k \in DOMAIN p : j \in set \cup {i} /\ Edge(e, p, j, k) => k \in set) => m \in set}

\* Faulty: a subtask that names itself is no cycle.
CyclicFaulty(e, p) == \E i \in DOMAIN p : i \in Reached(e, p, i) /\ ~Edge(e, p, i, i)

Cyclic(e, p) == \E i \in DOMAIN p : i \in Reached(e, p, i)

Rejects(e, p) == Unknown(e, p) \/ (~Unknown(e, p) /\ Cyclic(e, p))

\* add_children: the id first, if there is one, then the numbers, then the new child's
\* own id.
Entries(e, p, i) ==
  (IF p[i].id = Blank THEN {} ELSE {Insert(4 * i, p[i].id, Id(e + i))}) \cup
  {Insert(4 * i + 1, Position(i), Id(e + i)), Insert(4 * i + 2, Padded(i), Id(e + i)),
   Insert(4 * i + 3, Id(e + i), Id(e + i))}

IdMap(e, p) == Existing(e) \cup UNION {Entries(e, p, i) : i \in DOMAIN p}

\* Faulty: the children there are are not known.
StoredFaulty(e, p, n) ==
  LET map == IdMap(e, p) \ Existing(e)
  IN  IF Bound(map, n) THEN Lookup(map, n) ELSE n

\* A name that resolves to nothing is kept as it is.
Stored(e, p, n) == IF Bound(IdMap(e, p), n) THEN Lookup(IdMap(e, p), n) ELSE n

-----------------------------------------------------------------------------
\* A split, by the agent of the parent or by the butler.
Split ==
  \E p \in Proposal :
    /\ Len(kids) + Len(p) <= MaxKids /\ ~Rejects(Len(kids), p)
    /\ kids' = kids \o [i \in DOMAIN p |-> {Stored(Len(kids), p, n) : n \in p[i].dependsOn}]
    /\ UNCHANGED done

\* next_nodes: a child runs once its dependencies are complete.
Complete(i) ==
  /\ i \in DOMAIN kids \ done
  /\ kids[i] \subseteq {Id(j) : j \in done}
  /\ done' = done \cup {i}
  /\ UNCHANGED kids

Next == Split \/ \E i \in 1 .. MaxKids : Complete(i)

Spec == Init /\ [][Next]_vars

-----------------------------------------------------------------------------
\* "Reject a split whose dependency graph cannot be scheduled": while a child is
\* left, one of the children left can run.
Schedulable ==
  done # DOMAIN kids => \E i \in DOMAIN kids \ done : kids[i] \subseteq {Id(j) : j \in done}

\* What an accepted split was judged by is what is stored: a name means the same
\* subtask, or the same child, to both.
SameMeaning ==
  \A p \in Proposal : ~Rejects(Len(kids), p) =>
    \A i \in DOMAIN p : \A n \in Named(p, i) :
      LET key == Lookup(Canonical(Len(kids), p), n)
          id == Stored(Len(kids), p, n)
      IN  \/ \E j \in DOMAIN p : key = Key(p, j) /\ id = Id(Len(kids) + j)
          \/ \E k \in DOMAIN kids : key = Id(k) /\ id = Id(k)

=============================================================================
