---------------------------- MODULE MCEscalation ----------------------------
(* Instances of Escalation for TLC. *)
EXTENDS Escalation

\* The root, two children and a grandchild.
ThreeLevels == {<<>>, <<1>>, <<2>>, <<1, 1>>}

\* A branch as deep as MAX_DEPTH, with two nodes side by side at its end.
FourLevels == {<<>>, <<1>>, <<1, 1>>, <<1, 1, 1>>, <<1, 1, 2>>}

\* Step limits: to the end of the branch and a batch after it; then one more batch.
DeepThenShort == <<6, 1>>
Deep == <<6>>
Twice == <<6, 6>>

=============================================================================
