----------------------------- MODULE MCAttempts -----------------------------
(* Instances of NodeAttempts for TLC. *)
EXTENDS NodeAttempts

Two == {"a", "b"}

First == {"a"}

Kind(parent, gated, judged) == [parent |-> parent, gated |-> gated, judged |-> judged]

\* A leaf without gates beside a node with children and gates.
Mixed == {[w \in Two |-> IF w = "a" THEN Kind(FALSE, FALSE, TRUE) ELSE Kind(TRUE, TRUE, TRUE)]}

\* Two attempts in a serial batch, one in a parallel one.
SecondTry == [p \in BOOLEAN |-> IF p THEN 1 ELSE 2]

\* Both allocations left open, and both given.
Allocations == {<<0, 0>>, <<1, 2>>}

=============================================================================
