------------------------------ MODULE Delivery ------------------------------
(***************************************************************************)
(* What the harness promises its user, without agents, batches, worktrees  *)
(* or crashes: a goal is decomposed into a tree, work is accepted from the *)
(* leaves upwards, and what has been accepted stays accepted.              *)
(***************************************************************************)
EXTENDS TaskTree

VARIABLES
  tree,      \* the nodes of the decomposition
  accepted   \* the nodes whose deliverable has been accepted

\* A subtask is added below a node that is still open, before any of that
\* node's work can be accepted.
Decompose(n) ==
  /\ n \in tree \ accepted
  /\ \E c \in Kids(n) \ tree : tree' = tree \cup {c}
  /\ UNCHANGED accepted

\* Nodes are accepted, one or several at once, when all their subtasks were.
Accept(S) ==
  /\ S \subseteq tree \ accepted
  /\ \A n \in S : Kids(n) \cap tree \subseteq accepted
  /\ accepted' = accepted \cup S
  /\ UNCHANGED tree

DeliveryInit == tree = {Root} /\ accepted = {}

DeliveryNext == (\E n \in tree : Decompose(n)) \/ (\E S \in SUBSET tree : Accept(S))

DeliverySpec == DeliveryInit /\ [][DeliveryNext]_<<tree, accepted>>

=============================================================================
