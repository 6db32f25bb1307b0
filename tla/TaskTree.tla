------------------------------ MODULE TaskTree ------------------------------
(***************************************************************************)
(* The task tree: node ids, the six statuses of the SQLite index, and the  *)
(* pure selection rules of the scheduler (next_nodes and its helpers).     *)
(* An operator named ...Faulty is a deliberate mistake: put in place of    *)
(* the definition it precedes, it makes a property of a run fail.          *)
(*                                                                         *)
(* The harness names the i-th child of node p "p-NN" (NN = i), so an id is *)
(* the path from the root.  Here it is the sequence of those numbers: the  *)
(* root is <<>> and root-02-01 is <<2, 1>>.                                *)
(***************************************************************************)
EXTENDS Integers, Sequences, FiniteSets

CONSTANTS
  Node,      \* the ids the instance may create: a finite, prefix-closed set
  MaxDepth   \* MAX_DEPTH, the hard cap on the depth of the tree

Root == <<>>

\* The directory of a node is inside its parent's directory.
Parent(n) == SubSeq(n, 1, Len(n) - 1)

\* The root has depth 1 (init_with_budget), a child its parent's plus one.
Depth(n) == Len(n) + 1

\* m's directory is strictly below n's (the path prefix of retry and reopen).
IsBelow(m, n) == Len(m) > Len(n) /\ SubSeq(m, 1, Len(n)) = n

Kids(n) == {m \in Node : m # Root /\ Parent(m) = n}

ASSUME NodeAssumption ==
  /\ Node \subseteq Seq(Nat \ {0}) /\ IsFiniteSet(Node)
  /\ Root \in Node
  /\ \A n \in Node : n # Root => Parent(n) \in Node

ASSUME DepthAssumption == MaxDepth \in Nat \ {0}

-----------------------------------------------------------------------------
PENDING   == "pending"
RUNNING   == "running"
SPLIT     == "split"
SUSPENDED == "suspended"
COMPLETE  == "complete"
FAILED    == "failed"
Status    == {PENDING, RUNNING, SPLIT, SUSPENDED, COMPLETE, FAILED}

\* A directory the index has no row for.
NoRow == "norow"

-----------------------------------------------------------------------------
(***************************************************************************)
(* walk(): depth first, the children of a node in name order.              *)
(***************************************************************************)
WalkedBefore(m, n) ==
  \/ IsBelow(n, m)
  \/ \E i \in 1 .. Len(m) :
       /\ i <= Len(n)
       /\ m[i] < n[i]
       /\ SubSeq(m, 1, i - 1) = SubSeq(n, 1, i - 1)

\* walk() reads a node without a row as pending.
Seen(row, n) == IF row[n] = NoRow THEN PENDING ELSE row[n]

(***************************************************************************)
(* stale_ids(): a complete node is stale when the fingerprint of some      *)
(* dependency that exists differs from the one recorded at acceptance.     *)
(* depFp[n] is the recorded map, a set of <<dependency, fingerprint>>.     *)
(***************************************************************************)
StaleIds(disk, row, deps, fp, depFp) ==
  {n \in disk : /\ Seen(row, n) = COMPLETE
                /\ \E d \in deps[n] \cap disk : <<d, fp[d]>> \notin depFp[n]}

\* Faulty: a dependency only has to exist.
DepsSatisfiedFaulty(n, disk, row, deps, stale) == deps[n] \subseteq disk

\* deps_satisfied: every dependency exists, is complete and is not stale.
DepsSatisfied(n, disk, row, deps, stale) ==
  \A d \in deps[n] : d \in disk /\ Seen(row, d) = COMPLETE /\ d \notin stale

\* Faulty: one accepted child is enough.
AggregatableFaulty(n, disk, row, stale) ==
  \E c \in Kids(n) \cap disk : Seen(row, c) = COMPLETE /\ c \notin stale

\* aggregatable: there are children, all accepted and none stale.
Aggregatable(n, disk, row, stale) ==
  LET kids == Kids(n) \cap disk
  IN  kids # {} /\ \A c \in kids : Seen(row, c) = COMPLETE /\ c \notin stale

\* Faulty: split nodes are never selected.
NextNodesFaulty(disk, row, deps, stale) ==
  IF stale # {} THEN stale
  ELSE {n \in disk : /\ Seen(row, n) = PENDING
                     /\ DepsSatisfied(n, disk, row, deps, stale)}

(***************************************************************************)
(* next_nodes: the stale nodes alone if there are any, else the pending    *)
(* nodes whose dependencies are satisfied, else the split nodes that can   *)
(* aggregate.                                                              *)
(***************************************************************************)
NextNodes(disk, row, deps, stale) ==
  LET ready == {n \in disk : /\ Seen(row, n) = PENDING
                             /\ DepsSatisfied(n, disk, row, deps, stale)}
      agg   == {n \in disk : /\ Seen(row, n) = SPLIT
                             /\ Aggregatable(n, disk, row, stale)}
  IN  IF stale # {} THEN stale ELSE IF ready # {} THEN ready ELSE agg

\* Stale and ready nodes are sorted deepest first (stably), aggregators keep
\* the order of the walk.
RunsBefore(m, n, aggregators) ==
  IF aggregators \/ Len(m) = Len(n) THEN WalkedBefore(m, n) ELSE Len(m) > Len(n)

\* The first k of the selected nodes.
FirstOf(S, k, aggregators) ==
  {n \in S : Cardinality({m \in S : RunsBefore(m, n, aggregators)}) < k}

\* batch_is_independent: no member depends on another member.
Independent(batch, deps) == \A n \in batch : deps[n] \cap batch = {}

\* surface_root_status: a failed node anywhere makes an unfinished run "failed".
SurfaceRootStatus(disk, row) ==
  IF Seen(row, Root) # COMPLETE /\ (\E n \in disk : Seen(row, n) = FAILED)
    THEN FAILED ELSE Seen(row, Root)

=============================================================================
