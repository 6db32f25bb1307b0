---------------------------- MODULE MCScheduler ----------------------------
(* Instances of Scheduler for TLC. *)
EXTENDS Scheduler

\* The root and two children.
TwoLevels == {<<>>, <<1>>, <<2>>}

\* The root, two children and a grandchild.
ThreeLevels == {<<>>, <<1>>, <<2>>, <<1, 1>>}

\* A leaf whose contract names gates of its own.
FirstLeaf == {<<1>>}

=============================================================================
