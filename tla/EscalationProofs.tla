-------------------------- MODULE EscalationProofs --------------------------
(* Theorems about escalation, for every tree and every limit. *)
EXTENDS Escalation, FiniteSetTheorems, SequenceTheorems, TLAPS

-----------------------------------------------------------------------------
(* The operators the steps are built from. *)

Rows == [Node -> Status \cup {NoRow}]

\* set_status writes one row, and none that is not there.
LEMMA SetStatusRow ==
  ASSUME TypeOK, NEW n \in Node, NEW st \in Status
  PROVE  /\ SetStatus(n, st) \in Rows
         /\ \A k \in Node : SetStatus(n, st)[k] =
              IF k = n /\ row[n] # NoRow THEN st ELSE row[k]
BY DEF TypeOK, SetStatus, Rows, Status

\* The parent of a node is a node; the root is taken for its own.
LEMMA ParentIsNode == ASSUME NEW n \in Node PROVE Parent(n) \in Node
<1>1. CASE n = Root
  <2>1. Parent(n) = <<>>
    BY <1>1 DEF Parent, Root
  <2> QED BY <2>1, NodeAssumption DEF Root
<1>2. CASE n # Root
  BY <1>2, NodeAssumption
<1> QED BY <1>1, <1>2

\* A selected batch is a finite set of nodes.
LEMMA BatchFinite ==
  ASSUME TypeOK, NEW aggregators
  PROVE  Cardinality(FirstOf(Ready, MaxParallel, aggregators)) \in Nat
<1>1. FirstOf(Ready, MaxParallel, aggregators) \subseteq Node
  BY DEF FirstOf, Ready, NextNodes, TypeOK
<1>2. IsFiniteSet(FirstOf(Ready, MaxParallel, aggregators))
  BY <1>1, NodeAssumption, FS_Subset
<1> QED BY <1>2, FS_CardinalityType

-----------------------------------------------------------------------------
(* Type correctness.  That attempts stay below their limit needs to know that *)
(* only a worker with an attempt left escalates.                              *)

Allowed == \A n \in Node : wpc[n] \in Settling => attempt[n] < MaxAttempts

Typed == TypeOK /\ Allowed

\* Initially every variable has its type.
LEMMA InitTyped == Init => Typed
BY NodeAssumption, EscalationAssumption
   DEF Init, Typed, TypeOK, Allowed, WPC, Settling, Status, Root, history

\* The passes of the loop, integration and a crash keep the types.
LEMMA LoopTyped ==
  ASSUME Typed, Start \/ Loop \/ Crash \/ \E n \in Node : Integrate(n)
  PROVE  Typed'
<1> USE EscalationAssumption DEF Typed, TypeOK, Allowed, storeVars, workerVars, askVars,
        history, WPC, Settling
<1>1. CASE Start
  BY <1>1 DEF Start, Reconciled, Status
<1>2. CASE Select
  <2>1. PICK aggregators \in BOOLEAN :
          /\ steps' = steps + Cardinality(FirstOf(Ready, MaxParallel, aggregators))
          /\ \E batch : wpc' = [n \in Node |-> IF n \in batch THEN "queued" ELSE "idle"]
                        /\ aggregating' = [n \in Node |-> n \in batch /\ aggregators]
    BY <1>2 DEF Select
  <2>2. steps' \in Nat
    BY <2>1, BatchFinite
  <2>3. wpc' \in [Node -> {"idle", "queued"}] /\ aggregating' \in [Node -> BOOLEAN]
    BY <2>1
  <2>4. pc' \in {"serial", "parallel"}
    BY <1>2 DEF Select
  <2> QED BY <1>2, <2>2, <2>3, <2>4 DEF Select
<1>3. CASE Finish \/ Join
  BY <1>3 DEF Finish, Join
<1>4. CASE Crash
  BY <1>4, NodeAssumption DEF Crash, IdleWorkers
<1>5. ASSUME NEW n \in Node, Integrate(n) PROVE Typed'
  <2>1. row' \in Rows
    BY <1>5, SetStatusRow DEF Integrate, Rows, Status
  <2>2. wpc' = [wpc EXCEPT ![n] = "idle"]
        /\ UNCHANGED <<disk, deps, pc, steps, aggregating, attempt, askVars, history, runs>>
    BY <1>5 DEF Integrate
  <2> QED BY <2>1, <2>2 DEF Rows
<1> QED BY <1>1, <1>2, <1>3, <1>4, <1>5 DEF Loop

\* The types of what a worker remembers.
WorkerTyped ==
  /\ wpc \in [Node -> WPC] /\ aggregating \in [Node -> BOOLEAN]
  /\ attempt \in [Node -> 0 .. MaxAttempts]
  /\ owner \in [Node -> Node] /\ cursor \in [Node -> Node]
  /\ doomed \in [Node -> SUBSET Node] /\ Allowed

\* A worker that returns leaves its variables at their first values.
LEMMA ReturnTyped ==
  ASSUME Typed, NEW n \in Node, NEW stage \in {"held", "done"}, Return(n, stage)
  PROVE  WorkerTyped'
BY NodeAssumption, EscalationAssumption
   DEF Typed, TypeOK, Allowed, WorkerTyped, Return, WPC, Settling

\* The steps of a worker keep the types.
LEMMA WorkerStepTyped ==
  ASSUME Typed, NEW n \in Node, Worker(n)
  PROVE  Typed'
<1> USE DEF Typed, TypeOK, askVars, history
<1>a. \A st \in Status, k \in Node : SetStatus(k, st) \in Rows
  BY SetStatusRow
<1>b. Touched(n) \subseteq Node
  BY DEF Touched, Ancestors
<1>c. cursor[n] \in Node /\ owner[n] \in Node /\ Parent(n) \in Node /\ Parent(cursor[n]) \in Node
  BY ParentIsNode
<1>w. WorkerTyped
  BY DEF WorkerTyped
<1> SUFFICES /\ WorkerTyped' /\ row' \in Rows /\ deps' \in [Node -> SUBSET Node]
             /\ disk' \subseteq Node /\ leftover' \subseteq Node
             /\ replanned' \subseteq Node /\ cutOff' = cutOff /\ pc' = pc /\ steps' = steps /\ runs' = runs
    BY DEF WorkerTyped, Rows
<1> USE DEF Rows, Move
<1>1. CASE Begin(n)
  BY <1>1, <1>a DEF Begin, WorkerTyped, WPC, Settling, Allowed, Status
<1>2. CASE Split(n)
  <2>1. WorkerTyped'
    BY <1>2, ReturnTyped DEF Split
  <2>2. SetStatus(n, SPLIT) \in Rows
    BY <1>a DEF Status
  <2>3. row' \in Rows /\ deps' \in [Node -> SUBSET Node] /\ disk' \subseteq Node
    BY <1>2, <1>b, <2>2 DEF Split, Status
  <2>4. leftover' \subseteq Node
    BY <1>2 DEF Split
  <2> QED BY <1>2, <2>1, <2>3, <2>4 DEF Split
<1>3. CASE Complete(n)
  BY <1>3, <1>a, <1>b, ReturnTyped DEF Complete, Status
<1>4. CASE Fail(n)
  BY <1>4, <1>a, <1>b, ReturnTyped DEF Fail, Status
<1>5. CASE Escalate(n)
  <2>1. CASE /\ \E m \in Ancestors(n) : owner' = [owner EXCEPT ![n] = m]
             /\ cursor' = [cursor EXCEPT ![n] = n]
             /\ Move(n, "running", "suspending")
             /\ UNCHANGED <<row, aggregating, attempt, doomed>>
    <3>1. owner' \in [Node -> Node]
      BY <2>1 DEF Ancestors
    <3>2. Allowed' /\ wpc' \in [Node -> WPC]
      BY <1>5, <2>1 DEF Escalate, Answered, WPC, Settling, Allowed
    <3> QED BY <1>5, <2>1, <3>1, <3>2, <1>b DEF Escalate, WorkerTyped
  <2>2. CASE row' = SetStatus(n, FAILED) /\ Return(n, "done")
    BY <1>5, <2>2, <1>a, <1>b, ReturnTyped DEF Escalate, Status
  <2> QED BY <1>5, <2>1, <2>2 DEF Escalate
<1>6. CASE Suspend(n)
  BY <1>6, <1>a, <1>c DEF Suspend, Climb, WorkerTyped, Allowed, Status
<1>7. CASE Ask(n)
  BY <1>7, <1>a, <1>c DEF Ask, WorkerTyped, WPC, Settling, Allowed, Status
<1>8. CASE Rule(n)
  BY <1>8, <1>a, <1>c DEF Rule, Ruled, WorkerTyped, WPC, Settling, Allowed, Status
<1>9. CASE Refuse(n)
  BY <1>9, <1>a, ReturnTyped DEF Refuse, Status
<1>10. CASE Depend(n)
  <2>1. deps' \in [Node -> SUBSET Node]
    BY <1>10 DEF Depend
  <2> QED BY <1>10, <2>1 DEF Depend, WorkerTyped, WPC, Settling, Allowed
<1>11. CASE Resume(n)
  BY <1>11, <1>a, <1>c DEF Resume, Resumed, Climb, WorkerTyped, Allowed, Status
<1>12. CASE Proceed(n)
  BY <1>12, <1>a, EscalationAssumption
     DEF Proceed, UsedUp, WorkerTyped, WPC, Settling, Allowed, Status
<1>13. CASE Pause(n)
  BY <1>13, <1>a, ReturnTyped DEF Pause, Status
<1>14. CASE Replan(n)
  <2>1. Replanned(n) \in Node /\ Kids(Replanned(n)) \cap disk \subseteq Node
    BY <1>c DEF Replanned
  <2>2. cursor' \in [Node -> Node] /\ doomed' \in [Node -> SUBSET Node]
    BY <1>14, <2>1 DEF Replan
  <2>3. Allowed' /\ wpc' \in [Node -> WPC]
    BY <1>14 DEF Replan, WPC, Settling, Allowed
  <2> QED BY <1>14, <2>2, <2>3 DEF Replan, storeVars, WorkerTyped
<1>15. CASE Prune(n)
  <2>1. PICK c \in doomed[n] :
          /\ disk' = {m \in disk : m # c /\ ~IsBelow(m, c)}
          /\ row' = [row EXCEPT ![c] = NoRow] /\ deps' = [deps EXCEPT ![c] = {}]
          /\ doomed' = [doomed EXCEPT ![n] = @ \ {c}]
          /\ leftover' = (leftover \ {c}) \cup {m \in Node : IsBelow(m, c) /\ row[m] # NoRow}
          /\ replanned' = {m \in replanned : m # c /\ ~IsBelow(m, c)} \cup {cursor[n]}
    BY <1>15 DEF Prune
  <2>2. doomed' \in [Node -> SUBSET Node] /\ row' \in Rows
    BY <2>1
  <2>3. disk' \subseteq Node /\ leftover' \subseteq Node /\ replanned' \subseteq Node
    BY <2>1
  <2>4. deps' \in [Node -> SUBSET Node]
    BY <2>1
  <2> QED BY <1>15, <2>2, <2>3, <2>4 DEF Prune, WorkerTyped, Allowed
<1>16. CASE Pruned(n)
  BY <1>16, <1>a, <1>c, ReturnTyped DEF Pruned, Status
<1> QED BY <1>1, <1>2, <1>3, <1>4, <1>5, <1>6, <1>7, <1>8, <1>9, <1>10, <1>11, <1>12,
           <1>13, <1>14, <1>15, <1>16 DEF Worker

\* Type correctness: in every reachable state every variable has its type, and no
\* worker makes more than MaxAttempts attempts, whatever its owners rule.
THEOREM TypeCorrect == Spec => []TypeOK
<1>1. Typed /\ [Next]_vars => Typed'
  <2>1. CASE Next
    BY <2>1, LoopTyped, WorkerStepTyped DEF Next
  <2>2. CASE UNCHANGED vars
    BY <2>2 DEF vars, storeVars, workerVars, askVars, history, Typed, TypeOK, Allowed
  <2> QED BY <2>1, <2>2
<1>2. Typed => TypeOK
  BY DEF Typed
<1> QED BY <1>1, <1>2, InitTyped, PTL DEF Spec

-----------------------------------------------------------------------------
(* Nobody is left running. *)

\* Whoever marks a row running can be told: the node's own worker, until it has
\* suspended the node or has returned; or a worker that asks it as the owner.
Own(k) == wpc[k] \in {"running", "held"} \/ (wpc[k] = "suspending" /\ cursor[k] = k)
Asked(k) == \E m \in Node : wpc[m] = "asking" /\ owner[m] = k

Attended ==
  /\ Typed
  /\ pc \in {"down", "select", "done"} => \A n \in Node : wpc[n] = "idle"
  /\ pc # "down" => \A n \in Node : row[n] = RUNNING => Own(n) \/ Asked(n)

\* What a worker's step has to show for every running row to stay attended: that
\* it marks no other row unattended, and not its own; and if it was asking, that
\* its owner is no longer running.
LEMMA StillAttended ==
  ASSUME Attended, NEW n \in Node, pc # "down",
         \A k \in Node \ {n} : /\ wpc'[k] = wpc[k] /\ owner'[k] = owner[k]
                               /\ cursor'[k] = cursor[k],
         \A k \in Node \ {n} : row'[k] = RUNNING => row[k] = RUNNING \/ Asked(k)',
         row'[n] = RUNNING => \/ row[n] = RUNNING /\ ~Own(n)
                              \/ Own(n)' \/ Asked(n)',
         wpc[n] = "asking" => row'[owner[n]] # RUNNING
  PROVE  \A k \in Node : row'[k] = RUNNING => Own(k)' \/ Asked(k)'
<1> TAKE k \in Node
<1> HAVE row'[k] = RUNNING
<1>1. ASSUME row[k] = RUNNING, Asked(k) PROVE Asked(k)'
  <2>1. PICK m \in Node : wpc[m] = "asking" /\ owner[m] = k
    BY <1>1 DEF Asked
  <2>2. m # n
    BY <2>1
  <2> QED BY <2>1, <2>2 DEF Asked
<1>2. CASE k = n
  BY <1>1, <1>2 DEF Attended
<1>3. CASE k # n
  <2>1. Own(k) => Own(k)'
    BY <1>3 DEF Own
  <2> QED BY <1>1, <1>3, <2>1 DEF Attended
<1> QED BY <1>2, <1>3

\* The steps of a worker leave no row running unattended.
LEMMA WorkerAttends ==
  ASSUME Attended, NEW n \in Node, Worker(n)
  PROVE  Attended'
<1>a. Typed' /\ Typed /\ TypeOK
  BY WorkerStepTyped DEF Attended, Typed
<1>b. pc \notin {"down", "select", "done"} /\ pc' = pc
  <2>1. wpc[n] # "idle"
    BY DEF Worker, Begin, Split, Complete, Fail, Escalate, Suspend, Ask, Rule, Refuse,
           Depend, Resume, Proceed, Pause, Replan, Prune, Pruned, Move, Answered
  <2>2. pc' = pc
    BY DEF Worker, Begin, Split, Complete, Fail, Escalate, Suspend, Ask, Rule, Refuse,
           Depend, Resume, Proceed, Pause, Replan, Prune, Pruned, Climb
  <2> QED BY <2>1, <2>2 DEF Attended
<1> SUFFICES \A k \in Node : row'[k] = RUNNING => Own(k)' \/ Asked(k)'
    BY <1>a, <1>b DEF Attended
<1>s. \A st \in Status, m, k \in Node :
        SetStatus(m, st)[k] = IF k = m /\ row[m] # NoRow THEN st ELSE row[k]
  BY <1>a, SetStatusRow
<1> USE DEF TypeOK, Status, NoRow, PENDING, RUNNING, SPLIT, SUSPENDED, COMPLETE, FAILED
<1>r. ASSUME NEW stage, Return(n, stage)
      PROVE  /\ \A k \in Node \ {n} : /\ wpc'[k] = wpc[k] /\ owner'[k] = owner[k]
                                      /\ cursor'[k] = cursor[k]
             /\ wpc'[n] = IF pc = "serial" THEN "idle" ELSE stage
  BY <1>r, <1>a DEF Return
<1>e. ASSUME NEW stage, Return(n, stage), wpc[n] # "asking",
             \A k \in Node : row'[k] = RUNNING => k # n /\ row[k] = RUNNING
      PROVE  \A k \in Node : row'[k] = RUNNING => Own(k)' \/ Asked(k)'
  <2>1. \A k \in Node \ {n} : /\ wpc'[k] = wpc[k] /\ owner'[k] = owner[k]
                              /\ cursor'[k] = cursor[k]
    BY <1>e, <1>r
  <2> QED BY <1>b, <1>e, <2>1, StillAttended
<1>f. ASSUME NEW st \in Status \ {RUNNING}, row' = SetStatus(n, st)
      PROVE  \A k \in Node : row'[k] = RUNNING => k # n /\ row[k] = RUNNING
  BY <1>f, <1>a, <1>s
<1>1. CASE Begin(n)
  <2>1. wpc'[n] = "running" /\ \A k \in Node \ {n} : wpc'[k] = wpc[k]
    BY <1>1, <1>a DEF Begin, Move
  <2> QED BY <1>1, <1>b, <1>s, <2>1, StillAttended DEF Begin, askVars, Own, Move
<1>2. CASE Split(n)
  <2>1. \A k \in Node : row'[k] = RUNNING => SetStatus(n, SPLIT)[k] = RUNNING
    BY <1>2 DEF Split
  <2>2. \A k \in Node : row'[k] = RUNNING => k # n /\ row[k] = RUNNING
    <3>1. \A k \in Node : SetStatus(n, SPLIT)[k] =
                            IF k = n /\ row[n] # NoRow THEN SPLIT ELSE row[k]
      BY <1>s
    <3> QED BY <2>1, <3>1
  <2>3. Return(n, "done") /\ wpc[n] # "asking"
    BY <1>2 DEF Split, Answered
  <2> QED BY <1>e, <2>2, <2>3
<1>3. CASE Complete(n)
  <2>1. row'[n] = RUNNING => Own(n)'
    BY <1>3, <1>a, <1>s, <1>r DEF Complete, Own
  <2> QED BY <1>3, <1>b, <1>r, <1>s, <2>1, StillAttended DEF Complete, Answered
<1>4. CASE Fail(n)
  BY <1>4, <1>e, <1>f DEF Fail
<1>5. CASE Escalate(n)
  <2>1. CASE cursor' = [cursor EXCEPT ![n] = n] /\ Move(n, "running", "suspending")
             /\ row' = row /\ \E m \in Node : owner' = [owner EXCEPT ![n] = m]
    <3>1. Own(n)'
      BY <2>1, <1>a DEF Own, Move
    <3> QED BY <1>b, <2>1, <3>1, <1>a, StillAttended DEF Move
  <2>2. CASE row' = SetStatus(n, FAILED) /\ Return(n, "done")
    BY <1>5, <2>2, <1>e, <1>f DEF Escalate, Answered
  <2> QED BY <1>5, <2>1, <2>2 DEF Escalate, Ancestors
<1>6. CASE Suspend(n)
  <2>1. row'[n] = RUNNING => row[n] = RUNNING /\ ~Own(n)
    BY <1>6, <1>a, <1>s DEF Suspend, Climb, Own
  <2>2. \A k \in Node : row'[k] = RUNNING => row[k] = RUNNING
    BY <1>6, <1>a, <1>s DEF Suspend, Climb
  <2> QED BY <1>6, <1>a, <1>b, <2>1, <2>2, StillAttended DEF Suspend, Climb
<1>7. CASE Ask(n)
  <2>1. wpc'[n] = "asking" /\ owner' = owner /\ cursor' = cursor
        /\ \A k \in Node \ {n} : wpc'[k] = wpc[k]
    BY <1>7, <1>a DEF Ask, Move, askVars
  <2>2. Asked(owner[n])'
    BY <2>1 DEF Asked
  <2>3. \A k \in Node : row'[k] = RUNNING => row[k] = RUNNING \/ k = owner[n]
    BY <1>7, <1>a, <1>s DEF Ask
  <2>4. Own(n) => n = owner[n]
    BY <1>7 DEF Ask, Move, Arrived, Own
  <2> QED BY <1>7, <1>b, <2>1, <2>2, <2>3, <2>4, StillAttended DEF Ask, Move
<1>8. CASE Rule(n)
  <2>1. row'[owner[n]] # RUNNING /\ \A k \in Node : row'[k] = RUNNING => row[k] = RUNNING
    BY <1>8, <1>a, <1>s DEF Rule, Ruled
  <2>2. ~Own(n) /\ owner' = owner
        /\ \A k \in Node \ {n} : wpc'[k] = wpc[k] /\ cursor'[k] = cursor[k]
    BY <1>8, <1>a DEF Rule, Move, Own
  <2> QED BY <1>b, <2>1, <2>2, StillAttended
<1>9. CASE Refuse(n)
  BY <1>9, <1>e, <1>f DEF Refuse
<1>10. CASE Depend(n)
  BY <1>10, <1>a, <1>b, StillAttended DEF Depend, Move, Own, askVars
<1>11. CASE Resume(n)
  <2>1. \A k \in Node : row'[k] = RUNNING => row[k] = RUNNING
    BY <1>11, <1>a, <1>s DEF Resume, Resumed, Climb
  <2> QED BY <1>11, <1>a, <1>b, <2>1, StillAttended DEF Resume, Climb, Own
<1>12. CASE Proceed(n)
  <2>1. wpc'[n] = "running" /\ \A k \in Node \ {n} : wpc'[k] = wpc[k]
    BY <1>12, <1>a DEF Proceed, Move
  <2> QED BY <1>12, <1>b, <1>s, <2>1, StillAttended DEF Proceed, askVars, Own, Move
<1>13. CASE Pause(n)
  BY <1>13, <1>e, <1>f DEF Pause
<1>14. CASE Replan(n)
  <2>1. /\ row' = row /\ owner' = owner /\ wpc[n] = "reasking"
        /\ \A k \in Node \ {n} : wpc'[k] = wpc[k] /\ cursor'[k] = cursor[k]
    BY <1>14, <1>a DEF Replan, Move, storeVars
  <2> QED BY <1>b, <2>1, StillAttended DEF Own
<1>15. CASE Prune(n)
  <2>1. \A k \in Node : row'[k] = RUNNING => row[k] = RUNNING
    BY <1>15, <1>a DEF Prune
  <2> QED BY <1>15, <1>b, <2>1, StillAttended DEF Prune, Own
<1>16. CASE Pruned(n)
  <2>1. \A k \in Node : row'[k] = RUNNING => row[k] = RUNNING
    BY <1>16, <1>a, <1>s DEF Pruned
  <2> QED BY <1>16, <1>b, <1>r, <2>1, StillAttended DEF Pruned, Own
<1> QED BY <1>1, <1>2, <1>3, <1>4, <1>5, <1>6, <1>7, <1>8, <1>9, <1>10, <1>11, <1>12,
           <1>13, <1>14, <1>15, <1>16 DEF Worker

\* Nor do the steps of the loop: a run starts with reconcile, a batch ends when its
\* workers have returned, and integration settles what was held.
LEMMA LoopAttends ==
  ASSUME Attended, Start \/ Loop \/ Crash \/ \E n \in Node : Integrate(n)
  PROVE  Attended'
<1>a. Typed' /\ Typed /\ TypeOK
  BY LoopTyped DEF Attended, Typed
<1> USE DEF TypeOK, Status, NoRow, PENDING, RUNNING, SPLIT, SUSPENDED, COMPLETE, FAILED
<1>1. CASE Start
  <2>1. \A n \in Node : row'[n] # RUNNING
    BY <1>1, <1>a DEF Start, Reconciled
  <2> QED BY <1>1, <1>a, <2>1 DEF Start, Attended, workerVars
<1>2. CASE Select
  <2>1. \A n \in Node : row'[n] # RUNNING
    BY <1>2 DEF Select, storeVars, Attended, Own, Asked
  <2> QED BY <1>2, <1>a, <2>1 DEF Select, Attended
<1>3. CASE Finish \/ Join
  <2>1. wpc' = wpc /\ owner' = owner /\ cursor' = cursor /\ row' = row
    BY <1>3 DEF Finish, Join, storeVars, workerVars, askVars
  <2>2. pc # "down" /\ (pc' \in {"down", "select", "done"} => \A n \in Node : wpc[n] = "idle")
    BY <1>3 DEF Finish, Join, Attended, Batch
  <2> QED BY <1>a, <2>1, <2>2 DEF Attended, Own, Asked
<1>4. CASE Crash
  BY <1>4, <1>a DEF Crash, IdleWorkers, Attended
<1>5. ASSUME NEW n \in Node, Integrate(n) PROVE Attended'
  <2>1. /\ pc = "integrate" /\ pc' = pc /\ owner' = owner /\ cursor' = cursor
        /\ wpc[n] \in {"held", "done"} /\ \A k \in Node \ {n} : wpc'[k] = wpc[k]
    BY <1>5, <1>a DEF Integrate, askVars
  <2>2. CASE wpc[n] = "held" /\ \E s \in {COMPLETE, FAILED} : row' = SetStatus(n, s)
    <3>s. \A st \in Status, k \in Node :
            SetStatus(n, st)[k] = IF k = n /\ row[n] # NoRow THEN st ELSE row[k]
      BY <1>a, SetStatusRow
    <3>1. row'[n] # RUNNING /\ \A k \in Node : row'[k] = RUNNING => row[k] = RUNNING
      BY <2>2, <3>s
    <3> QED BY <1>a, <2>1, <3>1, StillAttended DEF Attended
  <2>3. CASE wpc[n] = "done" /\ row' = row
    BY <1>a, <2>1, <2>3, StillAttended DEF Attended, Own
  <2> QED BY <1>5, <2>2, <2>3 DEF Integrate
<1> QED BY <1>1, <1>2, <1>3, <1>4, <1>5 DEF Loop

\* However escalations overlap, a batch that is over leaves no node running, so
\* none that no later pass of the loop would select.
THEOREM NobodyWedged == Spec => []NoneWedged
<1>1. Init => Attended
  BY InitTyped DEF Init, Attended
<1>2. Attended /\ [Next]_vars => Attended'
  <2>1. CASE Next
    BY <2>1, LoopAttends, WorkerAttends DEF Next
  <2>2. ASSUME Attended, UNCHANGED vars PROVE Attended'
    BY <2>2 DEF vars, storeVars, workerVars, askVars, history, Attended, Typed, TypeOK,
                Allowed, Own, Asked
  <2> QED BY <2>1, <2>2
<1>3. Attended => NoneWedged
  BY DEF Attended, NoneWedged, Own, Asked
<1> QED BY <1>1, <1>2, <1>3, PTL DEF Spec


--------------------------------------------------------------
(* The branches of the tree.  What follows needs no more of a node id than that *)
(* being below is an order, that what is above a node is in one line, and where *)
(* parents and children are in it.                                              *)

Path == Seq(Nat \ {0})

\* m is in the branch of n.
Within(m, n) == m = n \/ IsBelow(m, n)

\* Being below, number by number.
LEMMA BelowIs ==
  ASSUME NEW m \in Path, NEW n \in Path
  PROVE  IsBelow(m, n) <=> Len(m) > Len(n) /\ \A k \in 1 .. Len(n) : m[k] = n[k]
<1>1. Len(m) \in Nat /\ Len(n) \in Nat /\ m \in Seq(Nat \ {0}) /\ n \in Seq(Nat \ {0})
  BY DEF Path
<1>2. ASSUME Len(m) > Len(n)
      PROVE  /\ SubSeq(m, 1, Len(n)) \in Seq(Nat \ {0}) /\ Len(SubSeq(m, 1, Len(n))) = Len(n)
             /\ \A k \in 1 .. Len(n) : SubSeq(m, 1, Len(n))[k] = m[k]
  <2>1. \A k \in 1 .. Len(n) : m[k] \in Nat \ {0}
    BY <1>1, <1>2
  <2>2. /\ SubSeq(m, 1, Len(n)) \in Seq(Nat \ {0})
        /\ Len(SubSeq(m, 1, Len(n))) = IF 1 <= Len(n) THEN Len(n) - 1 + 1 ELSE 0
        /\ \A k \in 1 .. Len(n) - 1 + 1 : SubSeq(m, 1, Len(n))[k] = m[1 + k - 1]
    BY <1>1, <2>1, SubSeqProperties
  <2> QED BY <1>1, <2>2
<1>3. ASSUME Len(m) > Len(n), \A k \in 1 .. Len(n) : m[k] = n[k]
      PROVE  SubSeq(m, 1, Len(n)) = n
  BY <1>1, <1>2, <1>3, SeqEqual
<1> QED BY <1>1, <1>2, <1>3 DEF IsBelow

\* Nodes are paths, and so is the prefix a parent is.
LEMMA NodesArePaths == ASSUME NEW n \in Node PROVE n \in Path
BY NodeAssumption DEF Path

LEMMA ParentIs ==
  ASSUME NEW n \in Path, n # Root
  PROVE  /\ Parent(n) \in Path /\ Len(Parent(n)) = Len(n) - 1 /\ Len(n) \in Nat \ {0}
         /\ \A k \in 1 .. Len(n) - 1 : Parent(n)[k] = n[k]
<1>1. n \in Seq(Nat \ {0}) /\ Len(n) \in Nat \ {0}
  BY EmptySeq DEF Path, Root
<1>2. \A k \in 1 .. Len(n) - 1 : n[k] \in Nat \ {0}
  BY <1>1
<1> DEFINE last == Len(n) - 1
<1>3. last \in Nat /\ last \in Int /\ \A k \in 1 .. last : n[k] \in Nat \ {0}
  BY <1>1, <1>2
<1>4. Parent(n) = SubSeq(n, 1, last)
  BY DEF Parent
<1> HIDE DEF last
<1>5. /\ SubSeq(n, 1, last) \in Seq(Nat \ {0})
      /\ Len(SubSeq(n, 1, last)) = IF 1 <= last THEN last - 1 + 1 ELSE 0
      /\ \A k \in 1 .. last - 1 + 1 : SubSeq(n, 1, last)[k] = n[1 + k - 1]
  BY <1>1, <1>3, SubSeqProperties
<1>6. /\ SubSeq(n, 1, last) \in Path /\ Len(SubSeq(n, 1, last)) = last
      /\ \A k \in 1 .. last : SubSeq(n, 1, last)[k] = n[k]
  BY <1>3, <1>5 DEF Path
<1> QED BY <1>1, <1>4, <1>6 DEF last

\* Being below is a strict order,
LEMMA BelowBelow ==
  ASSUME NEW l \in Node, NEW m \in Node, NEW n \in Node
  PROVE  /\ ~IsBelow(n, n)
         /\ IsBelow(l, m) /\ IsBelow(m, n) => IsBelow(l, n)
<1>1. l \in Path /\ m \in Path /\ n \in Path
  BY NodesArePaths
<1>2. Len(l) \in Nat /\ Len(m) \in Nat /\ Len(n) \in Nat
  BY <1>1 DEF Path
<1>3. ~IsBelow(n, n)
  BY <1>2 DEF IsBelow
<1>4. ASSUME IsBelow(l, m), IsBelow(m, n) PROVE IsBelow(l, n)
  <2>1. Len(l) > Len(m) /\ \A k \in 1 .. Len(m) : l[k] = m[k]
    BY <1>1, <1>4, BelowIs
  <2>2. Len(m) > Len(n) /\ \A k \in 1 .. Len(n) : m[k] = n[k]
    BY <1>1, <1>4, BelowIs
  <2>3. Len(l) > Len(n) /\ \A k \in 1 .. Len(n) : l[k] = n[k]
    BY <1>2, <2>1, <2>2
  <2> QED BY <1>1, <2>3, BelowIs
<1> QED BY <1>3, <1>4

\* in which what is above a node is in one line,
LEMMA OneLine ==
  ASSUME NEW l \in Node, NEW m \in Node, NEW n \in Node, Within(l, m), Within(l, n)
  PROVE  Within(m, n) \/ IsBelow(n, m)
<1>1. l \in Path /\ m \in Path /\ n \in Path
  BY NodesArePaths
<1>2. Len(l) \in Nat /\ Len(m) \in Nat /\ Len(n) \in Nat
  BY <1>1 DEF Path
<1>3. Len(l) >= Len(m) /\ \A k \in 1 .. Len(m) : l[k] = m[k]
  BY <1>1, <1>2, BelowIs DEF Within
<1>4. Len(l) >= Len(n) /\ \A k \in 1 .. Len(n) : l[k] = n[k]
  BY <1>1, <1>2, BelowIs DEF Within
<1>5. CASE Len(m) > Len(n)
  <2>1. \A k \in 1 .. Len(n) : m[k] = n[k]
    BY <1>2, <1>3, <1>4, <1>5
  <2> QED BY <1>1, <1>5, <2>1, BelowIs DEF Within
<1>6. CASE Len(n) > Len(m)
  <2>1. \A k \in 1 .. Len(m) : n[k] = m[k]
    BY <1>2, <1>3, <1>4, <1>6
  <2> QED BY <1>1, <1>6, <2>1, BelowIs
<1>7. CASE Len(m) = Len(n)
  <2>1. \A k \in 1 .. Len(n) : m[k] = n[k]
    BY <1>2, <1>3, <1>4, <1>7
  <2>2. m = n
    BY <1>1, <1>7, <2>1, SeqEqual DEF Path
  <2> QED BY <2>2 DEF Within
<1> QED BY <1>2, <1>5, <1>6, <1>7

\* the parent is just above its child,
LEMMA ParentAbove ==
  ASSUME NEW n \in Node, n # Root
  PROVE  /\ Parent(n) \in Node /\ IsBelow(n, Parent(n))
         /\ \A m \in Node : IsBelow(n, m) => Within(Parent(n), m)
<1>1. n \in Path /\ Parent(n) \in Node /\ Parent(n) \in Path
  BY NodesArePaths, NodeAssumption
<1>2. /\ Len(Parent(n)) = Len(n) - 1 /\ Len(n) \in Nat \ {0}
      /\ \A k \in 1 .. Len(n) - 1 : Parent(n)[k] = n[k]
  BY <1>1, ParentIs
<1>3. IsBelow(n, Parent(n))
  <2>1. Len(n) > Len(Parent(n)) /\ \A k \in 1 .. Len(Parent(n)) : n[k] = Parent(n)[k]
    BY <1>2
  <2> QED BY <1>1, <2>1, BelowIs
<1>4. ASSUME NEW m \in Node, IsBelow(n, m) PROVE Within(Parent(n), m)
  <2>1. m \in Path /\ Len(m) \in Nat
    BY NodesArePaths DEF Path
  <2>2. Within(Parent(n), m) \/ IsBelow(m, Parent(n))
    BY <1>1, <1>3, <1>4, OneLine DEF Within
  <2>3. ASSUME IsBelow(m, Parent(n)) PROVE FALSE
    <3>1. Len(m) > Len(Parent(n)) /\ Len(n) > Len(m)
      BY <1>1, <1>4, <2>1, <2>3, BelowIs
    <3> QED BY <1>2, <2>1, <3>1
  <2> QED BY <2>2, <2>3
<1> QED BY <1>1, <1>3, <1>4

\* and the root above all.
LEMMA RootAbove == ASSUME NEW n \in Node PROVE Within(n, Root) /\ ~IsBelow(Root, n)
<1>1. n \in Path /\ Root \in Path /\ Len(Root) = 0 /\ Len(n) \in Nat
  BY NodesArePaths, NodeAssumption DEF Path, Root
<1>2. ~IsBelow(Root, n)
  BY <1>1 DEF IsBelow
<1>3. CASE n # Root
  <2>1. Len(n) > Len(Root) /\ \A k \in 1 .. Len(Root) : n[k] = Root[k]
    BY <1>1, <1>3, EmptySeq DEF Path, Root
  <2> QED BY <1>1, <1>2, <2>1, BelowIs DEF Within
<1> QED BY <1>2, <1>3 DEF Within

\* A set of numbers has a least element.
LEMMA Least ==
  ASSUME NEW set \in SUBSET Nat, set # {}
  PROVE  \E i \in set : \A j \in set : i <= j
<1> DEFINE Below(i) == 0 .. i
           all == {Below(i) : i \in set}
           R == StrictSubsetOrdering(Nat)
<1>1. \A i \in Nat : Below(i) \in FiniteSubsetsOf(Nat)
  BY FS_Interval DEF FiniteSubsetsOf
<1>2. all \subseteq FiniteSubsetsOf(Nat) /\ all # {}
  BY <1>1
<1>3. IsWellFoundedOn(R, FiniteSubsetsOf(Nat))
  BY FS_StrictSubsetOrderingWellFounded
<1> HIDE DEF all, R
<1>4. PICK x \in all : \A y \in all : ~ (<<y, x>> \in R)
  BY <1>2, <1>3, WFMin
<1>5. PICK i \in set : x = Below(i)
  BY <1>4 DEF all
<1>6. ASSUME NEW j \in set, ~(i <= j) PROVE FALSE
  <2>1. j \in Nat /\ i \in Nat /\ j < i
    BY <1>6
  <2>2. Below(j) \in SUBSET Nat /\ Below(i) \in SUBSET Nat /\ Below(j) \subseteq Below(i)
        /\ i \in Below(i) /\ i \notin Below(j)
    BY <2>1
  <2> HIDE DEF Below
  <2>3. <<Below(j), Below(i)>> \in R
    BY <2>2 DEF R, StrictSubsetOrdering
  <2> QED BY <1>4, <1>5, <2>3 DEF all
<1> QED BY <1>6

\* What is below a node is in the branch of one of its children.
LEMMA ThroughChild ==
  ASSUME NEW n \in Node, NEW m \in Node, IsBelow(m, n)
  PROVE  \E c \in Kids(n) : Within(m, c)
<1> DEFINE S == {k \in Node : IsBelow(k, n) /\ Within(m, k)}
           L(k) == Len(k)
<1>1. m \in S /\ S \subseteq Node
  BY DEF Within
<1>2. \A k \in S : Len(k) \in Nat
  BY <1>1, NodesArePaths DEF Path
<1>3. PICK c \in S : \A d \in S : Len(c) <= Len(d)
  <2> DEFINE T == {Len(k) : k \in S}
  <2>1. T \subseteq Nat /\ T # {}
    BY <1>1, <1>2
  <2>2. PICK l \in T : \A t \in T : l <= t
    BY <2>1, Least
  <2> QED BY <2>2
<1>4. c \in Node /\ IsBelow(c, n) /\ Within(m, c)
  BY <1>3
<1>5. c # Root
  BY <1>4, RootAbove
<1>6. Parent(c) \in Node /\ IsBelow(c, Parent(c)) /\ Within(Parent(c), n)
  BY <1>4, <1>5, ParentAbove
<1>7. Within(m, Parent(c))
  BY <1>4, <1>6, BelowBelow DEF Within
<1>8. Parent(c) = n
  <2>1. ASSUME IsBelow(Parent(c), n) PROVE FALSE
    <3>1. Len(c) <= Len(Parent(c))
      BY <1>3, <1>6, <1>7, <2>1
    <3>2. Len(Parent(c)) = Len(c) - 1 /\ Len(c) \in Nat
      BY <1>4, <1>5, ParentIs, NodesArePaths
    <3> QED BY <3>1, <3>2
  <2> QED BY <1>6, <2>1 DEF Within
<1> QED BY <1>4, <1>5, <1>8 DEF Kids

\* The i-th child of a node is a child of it.
LEMMA AppendedIsKid ==
  ASSUME NEW n \in Node, NEW i \in Nat \ {0}, Append(n, i) \in Node
  PROVE  Append(n, i) \in Kids(n)
<1> DEFINE c == Append(n, i)
<1>1. n \in Path /\ Len(n) \in Nat
  BY NodesArePaths DEF Path
<1>2. /\ c \in Path /\ Len(c) = Len(n) + 1 /\ \A k \in 1 .. Len(n) : c[k] = n[k]
  BY <1>1, AppendProperties DEF Path
<1>3. c # Root
  BY <1>1, <1>2 DEF Root
<1> HIDE DEF c
<1>4. Parent(c) \in Path /\ Len(Parent(c)) = Len(c) - 1 /\ \A k \in 1 .. Len(c) - 1 : Parent(c)[k] = c[k]
  BY <1>2, <1>3, ParentIs
<1>5. Len(Parent(c)) = Len(n) /\ \A k \in 1 .. Len(n) : Parent(c)[k] = n[k]
  BY <1>1, <1>2, <1>4
<1>6. Parent(c) = n
  BY <1>1, <1>4, <1>5, SeqEqual DEF Path
<1> QED BY <1>3, <1>6 DEF c, Kids

-----------------------------------------------------------------------------
(* A suspended node has its cause.  In a branch nothing has been deleted from,  *)
(* the worker that has suspended a node is still there to resume it, or has     *)
(* marked itself failed; and no worker below a failed node could unmark it.     *)

\* A directory is inside its parent's, and a row without one is left over.
Closed == \A n \in disk : \A m \in Node : IsBelow(n, m) => m \in disk
RowsAreLeft == \A n \in Node \ disk : row[n] # NoRow => n \in leftover

\* Where the worker of n is on the way to its owner.
OnTheWay(n) ==
  /\ wpc[n] \in Settling \ {"pruning"} => IsBelow(n, owner[n])
  /\ wpc[n] = "suspending" => Within(n, cursor[n]) /\ Within(cursor[n], owner[n])
  /\ wpc[n] \in {"depending", "reasking", "refusing"} => cursor[n] = Parent(n)
  /\ wpc[n] \in {"resuming", "pausing"} => IsBelow(n, cursor[n]) /\ Within(cursor[n], owner[n])
  /\ wpc[n] = "pruning" => doomed[n] \subseteq Kids(cursor[n])

\* A node somebody works at is not settled.
AtWork(n) == n \in Busy \/ wpc[n] = "held" => row[n] \notin {COMPLETE, FAILED}

\* n was deleted: a child of a replanned node was, and down from there to n each node
\* has lost its row, or is left over.
Severed(n) ==
  \E a \in Node :
    /\ a # Root /\ Within(n, a) /\ Parent(a) \in disk \cap replanned
    /\ \A m \in Node : Within(n, m) /\ Within(m, a) => row[m] = NoRow \/ m \in leftover

\* That is how a directory has no row, and a worker no directory.
Explained(n) ==
  (n \in disk /\ row[n] = NoRow) \/ (n \in Busy /\ n \notin disk) => Severed(n)

\* No ruling has deleted anything from the branch of n.
Whole(n) ==
  /\ n \in disk \ leftover /\ row[n] # NoRow
  /\ \A m \in disk \cap replanned : ~Within(m, n)

\* What is below a node that waits, is at work, or is settled is complete.
Due(n) == row[n] \in {PENDING, COMPLETE, FAILED} \/ n \in Busy \/ wpc[n] = "held"

ChildrenFirst(n) ==
  Whole(n) => \A m \in disk : Within(m, n) /\ Due(m) =>
                \A l \in disk : IsBelow(l, m) => row[l] = COMPLETE

\* The worker of w has suspended n and will see to it.
Holds(w, n) ==
  \/ wpc[w] = "suspending" /\ Within(w, n) /\ IsBelow(n, cursor[w])
  \/ /\ wpc[w] \in {"asking", "depending", "reasking", "refusing"}
     /\ Within(w, n) /\ IsBelow(n, owner[w])
  \/ /\ wpc[w] \in {"resuming", "pausing"}
     /\ n = w \/ (Within(cursor[w], n) /\ IsBelow(n, owner[w]))
  \/ /\ wpc[w] = "pruning"
     /\ (cursor[w] \in disk /\ Within(cursor[w], n)) \/ \E c \in doomed[w] : Within(n, c)

Accounted(n) ==
  Whole(n) /\ n \notin cutOff /\ row[n] = SUSPENDED =>
    \/ \E m \in disk : Within(m, n) /\ row[m] = FAILED
    \/ \E w \in Node : Holds(w, n)

Standing == Closed /\ RowsAreLeft /\ \A n \in Node : OnTheWay(n) /\ AtWork(n)
Settled == \A n \in Node : Explained(n) /\ ChildrenFirst(n) /\ Accounted(n)

Steady == Attended /\ Standing /\ Settled

\* The order of the branches, in one line.
LEMMA Branches ==
  /\ \A n \in Node : ~IsBelow(n, n)
  /\ \A l, m, n \in Node : IsBelow(l, m) /\ IsBelow(m, n) => IsBelow(l, n)
  /\ \A l, m, n \in Node : Within(l, m) /\ Within(l, n) => Within(m, n) \/ IsBelow(n, m)
  /\ \A n \in Node \ {Root} :
       /\ Parent(n) \in Node /\ IsBelow(n, Parent(n))
       /\ \A m \in Node : IsBelow(n, m) => Within(Parent(n), m)
BY BelowBelow, OneLine, ParentAbove, Zenon

\* Nothing in a whole branch was deleted: its directories have rows, its workers
\* directories.
LEMMA WholeBranch ==
  ASSUME TypeOK, \A k \in Node : Explained(k), NEW n \in Node, Whole(n),
         NEW m \in Node, Within(m, n)
  PROVE  (m \in disk => row[m] # NoRow) /\ (m \in Busy => m \in disk)
<1>1. ASSUME Severed(m) PROVE FALSE
  <2>1. PICK a \in Node :
          /\ a # Root /\ Within(m, a) /\ Parent(a) \in disk \cap replanned
          /\ \A k \in Node : Within(m, k) /\ Within(k, a) => row[k] = NoRow \/ k \in leftover
    BY <1>1 DEF Severed
  <2>2. CASE Within(n, a)
    BY <2>1, <2>2 DEF Whole
  <2>3. CASE IsBelow(a, n)
    BY <2>1, <2>3, Branches DEF Whole
  <2> QED BY <2>1, <2>2, <2>3, Branches
<1> QED BY <1>1 DEF Explained

\* So nobody works below one of its nodes that is due.
LEMMA NobodyBelow ==
  ASSUME TypeOK, Standing, Settled, NEW n \in Node, Whole(n),
         NEW m \in disk, Within(m, n), Due(m), NEW w \in Busy
  PROVE  ~IsBelow(w, m)
<1> SUFFICES ASSUME IsBelow(w, m) PROVE FALSE
  OBVIOUS
<1>1. w \in Node /\ m \in Node
  BY DEF Busy, Batch, TypeOK
<1>2. Within(w, n)
  BY <1>1, Branches DEF Within
<1>3. w \in disk
  BY <1>1, <1>2, WholeBranch DEF Settled
<1>4. row[w] = COMPLETE
  BY <1>3 DEF Settled, ChildrenFirst
<1> QED BY <1>1, <1>4 DEF Standing, AtWork

\* What most steps of a worker have in common: it goes on or returns, and writes no
\* row but its own and, as running, split or suspended, those of nodes above it.
Keeps(w) ==
  /\ w \in Busy
  /\ \A k \in Node \ {w} : /\ wpc'[k] = wpc[k] /\ owner'[k] = owner[k]
                           /\ cursor'[k] = cursor[k] /\ doomed'[k] = doomed[k]
  /\ \A k \in Node : \/ row'[k] = row[k]
                     \/ row[k] # NoRow /\ row'[k] # NoRow /\ k = w
                     \/ row[k] # NoRow /\ row'[k] \in {RUNNING, SPLIT, SUSPENDED} /\ IsBelow(w, k)
  /\ disk' \in {disk, Touched(w)}
  /\ leftover' = leftover /\ replanned' = replanned /\ cutOff' = cutOff

\* A directory a worker creates again was deleted, as its own was.
LEMMA CreatedAgain ==
  ASSUME TypeOK, Closed, \A k \in Node : Explained(k), NEW w \in Busy,
         NEW k \in Touched(w), k \notin disk
  PROVE  w \notin disk /\ Within(w, k) /\ Severed(k)
<1>0. w \in Node /\ k \in Node
  BY DEF Busy, Batch, Touched, Ancestors, TypeOK
<1>1. w \notin disk /\ Within(w, k)
  BY <1>0 DEF Touched, Ancestors, Closed, Within
<1>2. PICK a \in Node :
        /\ a # Root /\ Within(w, a) /\ Parent(a) \in disk \cap replanned
        /\ \A m \in Node : Within(w, m) /\ Within(m, a) => row[m] = NoRow \/ m \in leftover
  BY <1>0, <1>1 DEF Explained, Severed
<1>3. Within(k, a)
  <2>1. ASSUME IsBelow(a, k) PROVE FALSE
    <3>1. Within(Parent(a), k)
      BY <1>0, <1>2, <2>1, Branches
    <3> QED BY <1>0, <1>2, <3>1 DEF Closed, Within
  <2> QED BY <1>0, <1>1, <1>2, <2>1, Branches
<1>4. \A m \in Node : Within(k, m) => Within(w, m)
  BY <1>0, <1>1, Branches DEF Within
<1> QED BY <1>0, <1>1, <1>2, <1>3, <1>4 DEF Severed

\* Such a step leaves the tree in order,
LEMMA KeepsTree ==
  ASSUME TypeOK, Standing, Settled, TypeOK', NEW w \in Node, Keeps(w)
  PROVE  /\ Closed' /\ RowsAreLeft' /\ \A k \in Node : Explained(k)' /\ (Whole(k)' => Whole(k))
         /\ disk \subseteq disk'
         /\ \A k, n \in Node : Whole(n) /\ Within(k, n) /\ k \in disk' => k \in disk
<1> USE DEF Keeps
<1>0. disk \subseteq Node /\ disk' \subseteq Node /\ w \in Busy
  BY DEF TypeOK
<1>a. ASSUME NEW k \in Node, k \in disk', k \notin disk
      PROVE  w \notin disk /\ Within(w, k) /\ disk' = Touched(w)
  BY <1>a DEF Touched, Ancestors, Standing, Closed, Within
<1>1. Closed'
  <2> SUFFICES ASSUME NEW n \in disk', NEW m \in Node, IsBelow(n, m) PROVE m \in disk'
    BY DEF Closed
  <2>1. CASE n \in disk
    BY <2>1 DEF Standing, Closed, Touched
  <2>2. CASE n \notin disk
    <3>1. Within(w, n) /\ disk' = Touched(w)
      BY <1>0, <1>a, <2>2
    <3>2. IsBelow(w, m)
      BY <1>0, <3>1, Branches DEF Within
    <3> QED BY <3>1, <3>2 DEF Touched, Ancestors
  <2> QED BY <2>1, <2>2
<1>2. disk \subseteq disk'
  BY DEF Touched
<1>3. \A k \in Node : row'[k] = NoRow <=> row[k] = NoRow
  BY DEF NoRow, RUNNING, SPLIT, SUSPENDED
<1>4. RowsAreLeft'
  BY <1>2, <1>3 DEF Standing, RowsAreLeft
<1>5. ASSUME NEW n \in Node, Severed(n) PROVE Severed(n)'
  <2>1. PICK a \in Node :
          /\ a # Root /\ Within(n, a) /\ Parent(a) \in disk \cap replanned
          /\ \A k \in Node : Within(n, k) /\ Within(k, a) => row[k] = NoRow \/ k \in leftover
    BY <1>5 DEF Severed
  <2>2. /\ Parent(a) \in disk' \cap replanned'
        /\ \A k \in Node : Within(n, k) /\ Within(k, a) => row'[k] = NoRow \/ k \in leftover'
    BY <1>2, <1>3, <2>1
  <2> QED BY <2>1, <2>2 DEF Severed
<1>6. ASSUME NEW k \in Node, k \in disk', k \notin disk PROVE Severed(k)
  BY <1>6, CreatedAgain DEF Standing, Settled
<1>7. \A k \in Node : k \in Busy' => k \in Busy
  BY <1>0 DEF Busy, Batch
<1>8. ASSUME NEW k \in Node PROVE Explained(k)'
  <2>1. CASE k \in disk' /\ row'[k] = NoRow
    <3>1. Severed(k)
      BY <1>3, <1>6, <2>1 DEF Settled, Explained
    <3> QED BY <1>5, <3>1 DEF Explained
  <2>2. CASE k \in Busy' /\ k \notin disk'
    <3>1. Severed(k)
      BY <1>2, <1>7, <2>2 DEF Settled, Explained
    <3> QED BY <1>5, <3>1 DEF Explained
  <2> QED BY <2>1, <2>2 DEF Explained
<1>9. ASSUME NEW n \in Node, Whole(n)' PROVE Whole(n)
  <2>1. n \in disk' /\ n \notin leftover /\ row[n] # NoRow
    BY <1>3, <1>9 DEF Whole
  <2>2. n \in disk
    BY <2>1 DEF Standing, RowsAreLeft
  <2>3. \A m \in disk \cap replanned : ~Within(m, n)
    BY <1>2, <1>9 DEF Whole
  <2> QED BY <2>1, <2>2, <2>3 DEF Whole
<1>10. ASSUME NEW k \in Node, NEW n \in Node, Whole(n), Within(k, n), k \in disk', k \notin disk
       PROVE  FALSE
  <2>1. w \notin disk /\ Within(w, k)
    BY <1>10, <1>a
  <2>2. Within(w, n)
    BY <1>10, <2>1, Branches DEF Within
  <2> QED BY <1>0, <1>10, <2>1, <2>2, WholeBranch DEF Settled
<1> QED BY <1>1, <1>2, <1>4, <1>8, <1>9, <1>10

\* the children first,
LEMMA KeepsChildrenFirst ==
  ASSUME TypeOK, Standing, Settled, TypeOK', NEW w \in Node, Keeps(w)
  PROVE  \A n \in Node : ChildrenFirst(n)'
<1> SUFFICES ASSUME NEW n \in Node, Whole(n)', NEW m \in disk', Within(m, n), Due(m)',
                    NEW l \in disk', IsBelow(l, m)
             PROVE  row'[l] = COMPLETE
    BY DEF ChildrenFirst
<1>1. m \in Node /\ l \in Node /\ w \in Busy
  BY DEF TypeOK, Keeps
<1>2. Whole(n)
  BY KeepsTree
<1>3. m \in disk /\ l \in disk
  <2>1. Within(l, n)
    BY <1>1, Branches DEF Within
  <2> QED BY <1>1, <1>2, <2>1, KeepsTree
<1>4. Due(m)
  <2>1. CASE m = w
    BY <1>1, <2>1 DEF Due
  <2>2. CASE m # w
    <3>1. wpc'[m] = wpc[m]
      BY <1>1, <2>2 DEF Keeps
    <3>2. m \in Busy' => m \in Busy
      BY <1>1, <3>1 DEF Busy, Batch
    <3>3. row'[m] \in {PENDING, COMPLETE, FAILED} => row'[m] = row[m]
      BY <1>1, <2>2 DEF Keeps, PENDING, COMPLETE, FAILED, RUNNING, SPLIT, SUSPENDED
    <3> QED BY <3>1, <3>2, <3>3 DEF Due
  <2> QED BY <2>1, <2>2
<1>5. row[l] = COMPLETE
  BY <1>2, <1>3, <1>4 DEF Settled, ChildrenFirst
<1>6. ~IsBelow(w, m)
  BY <1>1, <1>2, <1>3, <1>4, NobodyBelow
<1>7. ~Within(w, l)
  BY <1>1, <1>6, Branches DEF Within
<1> QED BY <1>1, <1>5, <1>7 DEF Keeps, Within

\* and every suspended node accounted for, if the worker's own are.
LEMMA KeepsAccounted ==
  ASSUME TypeOK, Standing, Settled, TypeOK', NEW w \in Node, Keeps(w),
         \A n \in Node : Whole(n) /\ row'[n] = SUSPENDED /\ (row[n] = SUSPENDED => Holds(w, n)) =>
           Holds(w, n)' \/ (w \in disk' /\ Within(w, n) /\ row'[w] = FAILED)
  PROVE  \A n \in Node : Accounted(n)'
<1> SUFFICES ASSUME NEW n \in Node, Whole(n)', n \notin cutOff', row'[n] = SUSPENDED
             PROVE  \/ \E m \in disk' : Within(m, n) /\ row'[m] = FAILED
                    \/ \E v \in Node : Holds(v, n)'
    BY DEF Accounted
<1>1. Whole(n) /\ n \notin cutOff /\ disk \subseteq disk' /\ w \in Busy
  BY KeepsTree DEF Keeps
<1>2. CASE row[n] # SUSPENDED \/ Holds(w, n)
  BY <1>1, <1>2
<1>3. CASE row[n] = SUSPENDED /\ \E m \in disk : Within(m, n) /\ row[m] = FAILED
  <2>1. PICK m \in disk : Within(m, n) /\ row[m] = FAILED
    BY <1>3
  <2>2. m \in Node /\ m # w /\ ~IsBelow(w, m)
    BY <1>1, <2>1, NobodyBelow DEF TypeOK, Standing, AtWork, Due
  <2>3. row'[m] = FAILED
    BY <2>1, <2>2 DEF Keeps
  <2> QED BY <1>1, <2>1, <2>3
<1>4. ASSUME NEW v \in Node \ {w}, Holds(v, n) PROVE Holds(v, n)'
  <2>1. wpc'[v] = wpc[v] /\ owner'[v] = owner[v] /\ cursor'[v] = cursor[v] /\ doomed'[v] = doomed[v]
    BY DEF Keeps
  <2> QED BY <1>1, <1>4, <2>1 DEF Holds
<1>5. CASE row[n] = SUSPENDED /\ \E v \in Node : Holds(v, n)
  BY <1>2, <1>4, <1>5
<1> QED BY <1>1, <1>2, <1>3, <1>5 DEF Settled, Accounted

\* The steps of this kind.
Keeping(n) ==
  \/ Begin(n) \/ Complete(n) \/ Fail(n) \/ Escalate(n) \/ Suspend(n) \/ Ask(n) \/ Rule(n)
  \/ Refuse(n) \/ Depend(n) \/ Resume(n) \/ Proceed(n) \/ Pause(n) \/ Replan(n)

\* A worker that returns leaves those of the others alone.
LEMMA ReturnAlone ==
  ASSUME TypeOK, NEW n \in Node, NEW stage, Return(n, stage)
  PROVE  /\ \A k \in Node \ {n} : /\ wpc'[k] = wpc[k] /\ owner'[k] = owner[k]
                                  /\ cursor'[k] = cursor[k] /\ doomed'[k] = doomed[k]
         /\ wpc'[n] = IF pc = "serial" THEN "idle" ELSE stage
BY DEF Return, TypeOK

LEMMA KeepingKeeps ==
  ASSUME Attended, Standing, NEW n \in Node, Keeping(n)
  PROVE  Keeps(n)
<1>a. TypeOK
  BY DEF Attended, Typed
<1>s. \A st \in Status, m, k \in Node :
        SetStatus(m, st)[k] = IF k = m /\ row[m] # NoRow THEN st ELSE row[k]
  BY <1>a, SetStatusRow
<1>w. OnTheWay(n) /\ owner[n] \in Node /\ cursor[n] \in Node
  BY <1>a DEF Standing, TypeOK
<1> USE DEF Status, NoRow, PENDING, RUNNING, SPLIT, SUSPENDED, COMPLETE, FAILED
<1> DEFINE Others == \A k \in Node \ {n} :
             /\ wpc'[k] = wpc[k] /\ owner'[k] = owner[k]
             /\ cursor'[k] = cursor[k] /\ doomed'[k] = doomed[k]
           Rest == /\ disk' \in {disk, Touched(n)}
                   /\ leftover' = leftover /\ replanned' = replanned /\ cutOff' = cutOff
           Rowed == \A k \in Node :
             \/ row'[k] = row[k]
             \/ row[k] # NoRow /\ row'[k] # NoRow /\ k = n
             \/ row[k] # NoRow /\ row'[k] \in {RUNNING, SPLIT, SUSPENDED} /\ IsBelow(n, k)
<1>b. ASSUME NEW st \in Status, row' = SetStatus(n, st) PROVE Rowed
  BY <1>b, <1>s
<1>c. ASSUME NEW st \in {RUNNING, SPLIT, SUSPENDED}, NEW m \in Node, Within(n, m),
             row' = SetStatus(m, st)
      PROVE  Rowed
  BY <1>c, <1>s DEF Within
<1>t. ASSUME NEW from, NEW to, Move(n, from, to)
      PROVE  \A k \in Node \ {n} : wpc'[k] = wpc[k]
  BY <1>t, <1>a DEF Move, TypeOK
<1> SUFFICES n \in Busy /\ Others /\ Rowed /\ Rest
    BY DEF Keeps
<1>m. n \in Busy
  BY DEF Keeping, Busy, Batch, Begin, Complete, Fail, Escalate, Suspend, Ask, Rule, Refuse,
         Depend, Resume, Proceed, Pause, Replan, Move, Answered
<1>r. Rest
  BY DEF Keeping, Begin, Complete, Fail, Escalate, Suspend, Ask, Rule, Refuse,
         Depend, Resume, Proceed, Pause, Replan, Climb, history, storeVars
<1> HIDE DEF Rest
<1>1. CASE Begin(n)
  BY <1>1, <1>b, <1>t, <1>m, <1>r DEF Begin, askVars
<1>2. CASE Complete(n)
  BY <1>2, <1>b, <1>a, ReturnAlone, <1>m, <1>r DEF Complete
<1>3. CASE Fail(n)
  BY <1>3, <1>b, <1>a, ReturnAlone, <1>m, <1>r DEF Fail
<1>4. CASE Escalate(n)
  <2>1. CASE /\ \E m \in Ancestors(n) : owner' = [owner EXCEPT ![n] = m]
             /\ cursor' = [cursor EXCEPT ![n] = n]
             /\ Move(n, "running", "suspending")
             /\ UNCHANGED <<row, aggregating, attempt, doomed>>
    BY <2>1, <1>a, <1>t, <1>m, <1>r DEF TypeOK
  <2>2. CASE row' = SetStatus(n, FAILED) /\ Return(n, "done")
    BY <2>2, <1>b, <1>a, ReturnAlone, <1>m, <1>r
  <2> QED BY <1>4, <2>1, <2>2 DEF Escalate
<1>5. CASE Suspend(n)
  <2>1. Within(n, cursor[n])
    BY <1>5, <1>w DEF Suspend, OnTheWay
  <2> QED BY <1>5, <1>a, <1>c, <1>m, <1>r, <1>w, <2>1 DEF Suspend, Climb, TypeOK
<1>6. CASE Ask(n)
  <2>1. Within(n, owner[n])
    BY <1>6, <1>w DEF Ask, Move, OnTheWay, Settling, Within
  <2> QED BY <1>6, <1>c, <1>t, <1>m, <1>r, <1>w, <2>1 DEF Ask, askVars
<1>7. CASE Rule(n)
  <2>1. Within(n, owner[n])
    BY <1>7, <1>w DEF Rule, Move, OnTheWay, Settling, Within
  <2>2. Others
    BY <1>7, <1>a, <1>t DEF Rule, TypeOK
  <2>3. Rowed
    BY <1>7, <1>c, <1>w, <2>1 DEF Rule, Ruled
  <2> QED BY <1>m, <1>r, <2>2, <2>3
<1>8. CASE Refuse(n)
  BY <1>8, <1>b, <1>a, ReturnAlone, <1>m, <1>r DEF Refuse
<1>9. CASE Depend(n)
  BY <1>9, <1>t, <1>m, <1>r DEF Depend, askVars
<1>10. CASE Resume(n)
  <2>1. Within(n, cursor[n])
    BY <1>10, <1>w DEF Resume, OnTheWay, Within
  <2> QED BY <1>10, <1>a, <1>c, <1>m, <1>r, <1>w, <2>1 DEF Resume, Resumed, Climb, TypeOK
<1>11. CASE Proceed(n)
  BY <1>11, <1>b, <1>t, <1>m, <1>r DEF Proceed, askVars
<1>12. CASE Pause(n)
  BY <1>12, <1>b, <1>a, ReturnAlone, <1>m, <1>r DEF Pause
<1>13. CASE Replan(n)
  BY <1>13, <1>a, <1>t, <1>m, <1>r DEF Replan, storeVars, TypeOK
<1> QED BY <1>1, <1>2, <1>3, <1>4, <1>5, <1>6, <1>7, <1>8, <1>9, <1>10, <1>11, <1>12,
           <1>13 DEF Keeping

\* The worker resumes what it holds, or has marked itself failed, below.
LEMMA KeepingAnswers ==
  ASSUME Attended, Standing, Settled, NEW w \in Node, Keeping(w),
         NEW n \in Node, Whole(n), row'[n] = SUSPENDED, row[n] = SUSPENDED => Holds(w, n)
  PROVE  Holds(w, n)' \/ (w \in disk' /\ Within(w, n) /\ row'[w] = FAILED)
<1>a. TypeOK
  BY DEF Attended, Typed
<1>s. \A st \in Status, m, k \in Node :
        SetStatus(m, st)[k] = IF k = m /\ row[m] # NoRow THEN st ELSE row[k]
  BY <1>a, SetStatusRow
<1>w. OnTheWay(w) /\ owner[w] \in Node /\ cursor[w] \in Node
  BY <1>a DEF Standing, TypeOK
<1>d. disk \subseteq disk'
  BY KeepingKeeps DEF Keeps, Touched
<1>r. Within(w, n) => w \in disk /\ row[w] # NoRow
  <2>1. w \in Busy
    BY KeepingKeeps DEF Keeps
  <2> QED BY <1>a, <2>1, WholeBranch DEF Settled
<1>l. ASSUME Within(w, n) PROVE \A m \in Node : IsBelow(w, m) => m \in disk
  BY <1>r, <1>l DEF Standing, Closed
<1> USE DEF Status, NoRow, PENDING, RUNNING, SPLIT, SUSPENDED, COMPLETE, FAILED
<1>h. Holds(w, n) => wpc[w] \in Settling
  BY DEF Holds, Settling
<1>1. CASE Begin(w) \/ Complete(w) \/ Fail(w) \/ Escalate(w)
  <2>1. ~Holds(w, n)
    BY <1>1, <1>h DEF Begin, Complete, Fail, Escalate, Move, Answered, Settling
  <2>2. row' = row \/ \E st \in {RUNNING, COMPLETE, FAILED} : row' = SetStatus(w, st)
    BY <1>1 DEF Begin, Complete, Fail, Escalate
  <2> QED BY <1>s, <2>1, <2>2
<1>2. CASE Suspend(w)
  <2>1. /\ wpc[w] = "suspending" /\ wpc' = wpc /\ cursor[w] # owner[w]
        /\ row' = SetStatus(cursor[w], SUSPENDED) /\ cursor'[w] = Parent(cursor[w])
    BY <1>2, <1>a DEF Suspend, Climb, Arrived, TypeOK
  <2>2. Within(w, cursor[w]) /\ IsBelow(cursor[w], owner[w])
    BY <1>w, <2>1 DEF OnTheWay, Within
  <2>3. cursor[w] # Root
    BY <1>w, <2>2, RootAbove
  <2>4. Parent(cursor[w]) \in Node /\ IsBelow(cursor[w], Parent(cursor[w]))
    BY <1>w, <2>3, Branches
  <2>5. CASE n = cursor[w]
    BY <2>1, <2>2, <2>4, <2>5 DEF Holds
  <2>6. CASE n # cursor[w]
    <3>1. Within(w, n) /\ IsBelow(n, cursor[w])
      BY <1>s, <1>w, <2>1, <2>6 DEF Holds
    <3>2. IsBelow(n, Parent(cursor[w]))
      BY <1>w, <2>4, <3>1, Branches
    <3> QED BY <2>1, <3>1, <3>2 DEF Holds
  <2> QED BY <2>5, <2>6
<1>3. CASE Ask(w)
  <2>1. /\ wpc[w] = "suspending" /\ wpc'[w] = "asking" /\ owner' = owner
        /\ row' = SetStatus(owner[w], RUNNING) /\ Arrived(w)
    BY <1>3, <1>a DEF Ask, Move, TypeOK, askVars
  <2>2. Within(w, n) /\ IsBelow(n, cursor[w])
    BY <1>s, <1>w, <2>1 DEF Holds
  <2>3. cursor[w] = owner[w]
    <3>1. IsBelow(w, cursor[w])
      BY <1>w, <2>2, Branches DEF Within
    <3>2. cursor[w] \in disk
      BY <1>l, <1>w, <2>2, <3>1
    <3> QED BY <2>1, <3>2 DEF Arrived
  <2> QED BY <2>1, <2>2, <2>3 DEF Holds
<1>4. CASE Rule(w)
  <2>1. /\ wpc[w] = "asking" /\ owner' = owner /\ row' = SetStatus(owner[w], SPLIT)
        /\ wpc'[w] \in {"resuming", "depending", "reasking", "refusing"}
        /\ cursor'[w] = Parent(w)
    BY <1>4, <1>a DEF Rule, Ruled, Move, TypeOK
  <2>2. Within(w, n) /\ IsBelow(n, owner[w])
    BY <1>s, <1>w, <2>1 DEF Holds
  <2>3. n = w \/ Within(Parent(w), n)
    <3>1. w # Root
      BY <1>w, <2>1, RootAbove DEF OnTheWay, Settling
    <3> QED BY <2>2, <3>1, Branches DEF Within
  <2> QED BY <2>1, <2>2, <2>3 DEF Holds
<1>5. CASE Refuse(w)
  <2>1. wpc[w] = "refusing" /\ row' = SetStatus(w, FAILED)
    BY <1>5 DEF Refuse
  <2>2. Within(w, n)
    BY <1>s, <2>1 DEF Holds
  <2> QED BY <1>d, <1>r, <1>s, <2>1, <2>2
<1>6. CASE Depend(w)
  <2>1. /\ wpc[w] = "depending" /\ wpc'[w] = "pausing" /\ owner' = owner /\ cursor' = cursor
        /\ row' = row
    BY <1>6, <1>a DEF Depend, Move, TypeOK, askVars
  <2>2. Within(w, n) /\ IsBelow(n, owner[w]) /\ cursor[w] = Parent(w)
    BY <1>w, <2>1 DEF Holds, OnTheWay
  <2>3. n = w \/ Within(Parent(w), n)
    <3>1. w # Root
      BY <1>w, <2>1, RootAbove DEF OnTheWay, Settling
    <3> QED BY <2>2, <3>1, Branches DEF Within
  <2> QED BY <2>1, <2>2, <2>3 DEF Holds
<1>7. CASE Resume(w)
  <2>1. /\ wpc[w] \in {"resuming", "pausing"} /\ wpc' = wpc /\ cursor[w] # owner[w]
        /\ owner' = owner
        /\ row' = SetStatus(cursor[w], SPLIT) /\ cursor'[w] = Parent(cursor[w])
    BY <1>7, <1>a DEF Resume, Resumed, Climb, Arrived, TypeOK
  <2>2. IsBelow(cursor[w], owner[w])
    BY <1>w, <2>1 DEF OnTheWay, Within
  <2>3. cursor[w] # Root
    BY <1>w, <2>2, RootAbove
  <2>4. row[n] = SUSPENDED /\ n # cursor[w]
    BY <1>s, <1>w, <2>1
  <2>5. n = w \/ (Within(cursor[w], n) /\ IsBelow(n, owner[w]))
    BY <2>1, <2>4 DEF Holds
  <2>6. n = w \/ Within(Parent(cursor[w]), n)
    BY <1>w, <2>3, <2>4, <2>5, Branches DEF Within
  <2> QED BY <2>1, <2>5, <2>6 DEF Holds
<1>8. CASE Proceed(w) \/ Pause(w)
  <2>1. /\ wpc[w] \in {"resuming", "pausing"} /\ Arrived(w)
        /\ \E st \in {RUNNING, PENDING} : row' = SetStatus(w, st)
    BY <1>8 DEF Proceed, Pause, Move
  <2>2. row[n] = SUSPENDED /\ n # w
    BY <1>s, <2>1
  <2>3. Within(cursor[w], n) /\ IsBelow(n, owner[w])
    BY <2>1, <2>2 DEF Holds
  <2>4. IsBelow(w, cursor[w])
    BY <1>w, <2>1 DEF OnTheWay
  <2>5. Within(w, n)
    BY <1>w, <2>3, <2>4, Branches DEF Within
  <2>6. cursor[w] \in disk
    BY <1>l, <1>w, <2>4, <2>5
  <2>7. cursor[w] = owner[w]
    BY <2>1, <2>6 DEF Arrived
  <2> QED BY <1>w, <2>3, <2>7, Branches DEF Within
<1>9. CASE Replan(w)
  <2>1. wpc[w] = "reasking" /\ row' = row /\ owner' = owner /\ disk' = disk
    BY <1>9 DEF Replan, Move, storeVars
  <2>2. Within(w, n) /\ IsBelow(n, owner[w]) /\ cursor[w] = Parent(w)
    BY <1>w, <2>1 DEF Holds, OnTheWay
  <2>3. w # Root /\ w \in disk
    BY <1>r, <1>w, <2>1, <2>2, RootAbove DEF OnTheWay, Settling
  <2>4. Parent(w) \in Node /\ IsBelow(w, Parent(w)) /\ (n = w \/ Within(Parent(w), n))
    BY <2>2, <2>3, Branches DEF Within
  <2>5. CASE wpc'[w] = "resuming" /\ cursor' = cursor
    BY <2>1, <2>2, <2>4, <2>5 DEF Holds
  <2>6. CASE /\ wpc'[w] = "pruning" /\ cursor'[w] = Replanned(w)
             /\ doomed'[w] = Kids(Replanned(w)) \cap disk
    <3>1. Parent(w) \in disk /\ Replanned(w) = Parent(w)
      BY <1>l, <2>2, <2>4 DEF Replanned
    <3>2. n = w => n \in doomed'[w]
      BY <2>3, <2>6, <3>1 DEF Kids
    <3> QED BY <2>1, <2>4, <2>6, <3>1, <3>2 DEF Holds, Within
  <2> QED BY <1>9, <1>a, <2>5, <2>6 DEF Replan, Move, TypeOK
<1> QED BY <1>1, <1>2, <1>3, <1>4, <1>5, <1>6, <1>7, <1>8, <1>9 DEF Keeping

\* A worker's step leaves every worker on its way, and none at work at a settled node.
LEMMA WorkerOnTheWay ==
  ASSUME Attended, Standing, NEW n \in Node, Worker(n)
  PROVE  \A k \in Node : OnTheWay(k)' /\ AtWork(k)'
<1>a. TypeOK
  BY DEF Attended, Typed
<1>s. \A st \in Status, m, k \in Node :
        SetStatus(m, st)[k] = IF k = m /\ row[m] # NoRow THEN st ELSE row[k]
  BY <1>a, SetStatusRow
<1>w. OnTheWay(n) /\ AtWork(n) /\ owner[n] \in Node /\ cursor[n] \in Node
  BY <1>a DEF Standing, TypeOK
<1> USE DEF Status, NoRow, PENDING, RUNNING, SPLIT, SUSPENDED, COMPLETE, FAILED
<1>o. ASSUME \A k \in Node \ {n} :
               /\ wpc'[k] = wpc[k] /\ owner'[k] = owner[k]
               /\ cursor'[k] = cursor[k] /\ doomed'[k] = doomed[k]
               /\ row'[k] \in {COMPLETE, FAILED} => row'[k] = row[k],
             OnTheWay(n)', AtWork(n)'
      PROVE  \A k \in Node : OnTheWay(k)' /\ AtWork(k)'
  <2> SUFFICES ASSUME NEW k \in Node \ {n} PROVE OnTheWay(k)' /\ AtWork(k)'
    BY <1>o
  <2>1. OnTheWay(k) /\ AtWork(k)
    BY DEF Standing
  <2>2. wpc'[k] = wpc[k] /\ owner'[k] = owner[k] /\ cursor'[k] = cursor[k] /\ doomed'[k] = doomed[k]
    BY <1>o
  <2>3. OnTheWay(k)'
    BY <2>1, <2>2 DEF OnTheWay
  <2>4. k \in Busy' => k \in Busy
    BY <2>2 DEF Busy, Batch
  <2>5. AtWork(k)'
    BY <1>o, <2>1, <2>2, <2>4 DEF AtWork
  <2> QED BY <2>3, <2>5
<1>d. ASSUME wpc'[n] \in {"idle", "done"} PROVE OnTheWay(n)' /\ AtWork(n)'
  BY <1>d DEF OnTheWay, AtWork, Busy, Batch, Settling
<1>1. CASE Keeping(n)
  <2>1. Keeps(n)
    BY <1>1, KeepingKeeps
  <2>2. n \in Busy /\ row[n] \notin {COMPLETE, FAILED}
    BY <1>w, <2>1 DEF Keeps, AtWork
  <2>3. AtWork(n)'
    <3>1. CASE Fail(n) \/ Refuse(n) \/ Pause(n) \/ (Escalate(n) /\ Return(n, "done"))
      BY <1>a, <1>d, <3>1, ReturnAlone DEF Fail, Refuse, Pause
    <3>2. CASE Complete(n)
      BY <1>a, <1>d, <1>s, <2>2, <3>2, ReturnAlone DEF Complete, AtWork
    <3>3. CASE Escalate(n) /\ row' = row
      BY <2>2, <3>3 DEF AtWork
    <3>4. CASE Begin(n) \/ Suspend(n) \/ Ask(n) \/ Rule(n) \/ Depend(n) \/ Resume(n)
               \/ Proceed(n) \/ Replan(n)
      BY <1>s, <1>w, <2>2, <3>4
         DEF Begin, Suspend, Ask, Rule, Ruled, Depend, Resume, Resumed, Proceed, Replan, Climb,
             AtWork, storeVars
    <3> QED BY <1>1, <3>1, <3>2, <3>3, <3>4 DEF Keeping, Escalate
  <2>4. OnTheWay(n)'
    <3>1. CASE Fail(n) \/ Refuse(n) \/ Pause(n) \/ (Escalate(n) /\ Return(n, "done"))
      BY <1>a, <1>d, <3>1, ReturnAlone DEF Fail, Refuse, Pause
    <3>2. CASE Complete(n)
      <4>1. wpc'[n] \in {"idle", "held"}
        BY <1>a, <3>2, ReturnAlone DEF Complete
      <4> QED BY <4>1 DEF OnTheWay, Settling
    <3>3. CASE Begin(n) \/ Proceed(n)
      <4>1. wpc'[n] = "running"
        BY <1>a, <3>3 DEF Begin, Proceed, Move, TypeOK
      <4> QED BY <4>1 DEF OnTheWay, Settling
    <3>4. CASE /\ \E m \in Ancestors(n) : owner' = [owner EXCEPT ![n] = m]
               /\ cursor' = [cursor EXCEPT ![n] = n]
               /\ Move(n, "running", "suspending")
      <4>1. wpc'[n] = "suspending" /\ cursor'[n] = n /\ IsBelow(n, owner'[n])
        BY <1>a, <3>4 DEF Move, TypeOK, Ancestors
      <4> QED BY <4>1 DEF OnTheWay, Within
    <3>5. CASE Suspend(n) \/ Resume(n)
      <4>1. /\ wpc' = wpc /\ owner' = owner /\ doomed' = doomed /\ cursor[n] # owner[n]
            /\ cursor'[n] = Parent(cursor[n]) /\ wpc[n] \in {"suspending", "resuming", "pausing"}
        BY <1>a, <3>5 DEF Suspend, Resume, Climb, Arrived, TypeOK
      <4>2. Within(n, cursor[n]) /\ IsBelow(cursor[n], owner[n])
        BY <1>w, <4>1 DEF OnTheWay, Within
      <4>3. cursor[n] # Root
        BY <1>w, <4>2, RootAbove
      <4>4. /\ Parent(cursor[n]) \in Node /\ IsBelow(cursor[n], Parent(cursor[n]))
            /\ Within(Parent(cursor[n]), owner[n])
        BY <1>w, <4>2, <4>3, Branches
      <4>5. IsBelow(n, Parent(cursor[n]))
        BY <1>w, <4>2, <4>4, Branches DEF Within
      <4> QED BY <1>w, <4>1, <4>4, <4>5 DEF OnTheWay, Within
    <3>6. CASE Ask(n)
      <4>1. wpc'[n] = "asking" /\ owner' = owner /\ wpc[n] = "suspending"
        BY <1>a, <3>6 DEF Ask, Move, TypeOK, askVars
      <4> QED BY <1>w, <4>1 DEF OnTheWay, Settling
    <3>7. CASE Rule(n)
      <4>1. /\ wpc'[n] \in {"resuming", "depending", "reasking", "refusing"} /\ owner' = owner
            /\ wpc[n] = "asking" /\ cursor'[n] = Parent(n)
        BY <1>a, <3>7 DEF Rule, Move, TypeOK
      <4>2. IsBelow(n, owner[n])
        BY <1>w, <4>1 DEF OnTheWay, Settling
      <4>3. IsBelow(n, Parent(n)) /\ Within(Parent(n), owner[n])
        BY <1>w, <4>2, RootAbove, Branches
      <4> QED BY <4>1, <4>2, <4>3 DEF OnTheWay, Settling
    <3>8. CASE Depend(n) \/ (Replan(n) /\ Move(n, "reasking", "resuming") /\ cursor' = cursor)
      <4>1. /\ wpc'[n] \in {"resuming", "pausing"} /\ owner' = owner /\ cursor' = cursor
            /\ wpc[n] \in {"depending", "reasking"}
        BY <1>a, <3>8 DEF Depend, Replan, Move, TypeOK, askVars
      <4>2. IsBelow(n, owner[n]) /\ cursor[n] = Parent(n)
        BY <1>w, <4>1 DEF OnTheWay, Settling
      <4>3. IsBelow(n, Parent(n)) /\ Within(Parent(n), owner[n])
        BY <1>w, <4>2, RootAbove, Branches
      <4> QED BY <4>1, <4>2, <4>3 DEF OnTheWay, Settling
    <3>9. CASE /\ Move(n, "reasking", "pruning")
               /\ cursor' = [cursor EXCEPT ![n] = Replanned(n)]
               /\ doomed' = [doomed EXCEPT ![n] = Kids(Replanned(n)) \cap disk]
      <4>1. /\ wpc'[n] = "pruning" /\ cursor'[n] = Replanned(n)
            /\ doomed'[n] = Kids(Replanned(n)) \cap disk
        BY <1>a, <3>9 DEF Move, TypeOK
      <4> QED BY <4>1 DEF OnTheWay, Settling
    <3> QED BY <1>1, <3>1, <3>2, <3>3, <3>4, <3>5, <3>6, <3>7, <3>8, <3>9
            DEF Keeping, Escalate, Replan
  <2> QED BY <1>o, <2>1, <2>3, <2>4 DEF Keeps
<1>2. CASE Split(n)
  <2>1. wpc'[n] \in {"idle", "done"}
    BY <1>a, <1>2, ReturnAlone DEF Split
  <2>2. \A k \in Node \ {n} : row'[k] \in {COMPLETE, FAILED} => row'[k] = SetStatus(n, SPLIT)[k]
    BY <1>2 DEF Split
  <2>3. \A k \in Node \ {n} : SetStatus(n, SPLIT)[k] = row[k]
    BY <1>s
  <2>4. Return(n, "done")
    BY <1>2 DEF Split
  <2> QED BY <1>a, <1>d, <1>o, <2>1, <2>2, <2>3, <2>4, ReturnAlone
<1>3. CASE Prune(n)
  <2>1. PICK c \in doomed[n] : /\ row' = [row EXCEPT ![c] = NoRow]
                               /\ doomed' = [doomed EXCEPT ![n] = @ \ {c}]
    BY <1>3 DEF Prune
  <2>2. wpc' = wpc /\ owner' = owner /\ cursor' = cursor /\ wpc[n] = "pruning"
    BY <1>3 DEF Prune
  <2>3. OnTheWay(n)'
    BY <1>a, <1>w, <2>1, <2>2 DEF OnTheWay, Settling, TypeOK
  <2>4. AtWork(n)'
    BY <2>2 DEF AtWork, Busy, Batch
  <2>5. /\ \A k \in Node \ {n} : doomed'[k] = doomed[k]
        /\ \A k \in Node : row'[k] \in {COMPLETE, FAILED} => row'[k] = row[k]
    BY <1>a, <2>1 DEF TypeOK
  <2> QED BY <1>o, <2>2, <2>3, <2>4, <2>5
<1>4. CASE Pruned(n)
  <2>1. Return(n, "done") /\ row' = SetStatus(cursor[n], PENDING)
    BY <1>4 DEF Pruned
  <2>2. \A k \in Node : row'[k] \in {COMPLETE, FAILED} => row'[k] = row[k]
    BY <1>s, <1>w, <2>1
  <2> QED BY <1>a, <1>d, <1>o, <2>1, <2>2, ReturnAlone
<1> QED BY <1>1, <1>2, <1>3, <1>4 DEF Worker, Keeping

\* A split makes its own children, and what is left of deleted nodes of their names is
\* left over; below the node everything was complete, and nobody waits above it.
LEMMA SplitSettles ==
  ASSUME Attended, Standing, Settled, TypeOK', NEW n \in Node, Split(n)
  PROVE  Closed' /\ RowsAreLeft' /\ Settled'
<1>a. TypeOK
  BY DEF Attended, Typed
<1> USE DEF Status, NoRow, PENDING, RUNNING, SPLIT, SUSPENDED, COMPLETE, FAILED
<1>1. PICK k \in 1 .. 2 :
        LET had == Cardinality(Kids(n) \cap disk)
            new == {Append(n, i) : i \in had + 1 .. had + k}
            added == {c \in new : row[c] = NoRow}
        IN  /\ new \subseteq Node
            /\ disk' = Touched(n) \cup new
            /\ row' = [m \in Node |-> IF m \in added THEN PENDING ELSE SetStatus(n, SPLIT)[m]]
            /\ leftover' = leftover \cup {c \in added : Haunted(c)}
  BY DEF Split
<1> DEFINE had == Cardinality(Kids(n) \cap disk)
           new == {Append(n, i) : i \in had + 1 .. had + k}
           added == {c \in new : row[c] = NoRow}
<1>2. new \subseteq Kids(n)
  <2>1. had \in Nat
    BY <1>a, NodeAssumption, FS_Subset, FS_CardinalityType DEF Kids
  <2> SUFFICES ASSUME NEW i \in had + 1 .. had + k PROVE Append(n, i) \in Kids(n)
    OBVIOUS
  <2>2. Append(n, i) \in new
    OBVIOUS
  <2>3. new \subseteq Node
    BY <1>1
  <2> HIDE DEF had, new
  <2>4. i \in Nat \ {0}
    BY <2>1
  <2> QED BY <2>2, <2>3, <2>4, AppendedIsKid
<1>3. /\ disk' = Touched(n) \cup new
      /\ leftover' = leftover \cup {c \in added : Haunted(c)}
      /\ \A m \in Node : row'[m] = IF m \in added THEN PENDING
                                   ELSE IF m = n /\ row[n] # NoRow THEN SPLIT ELSE row[m]
  BY <1>1, <1>a, SetStatusRow
<1>4. /\ replanned' = replanned /\ cutOff' = cutOff /\ n \in Busy /\ wpc[n] = "running"
      /\ wpc'[n] \in {"idle", "done"}
      /\ \A m \in Node \ {n} : /\ wpc'[m] = wpc[m] /\ owner'[m] = owner[m]
                               /\ cursor'[m] = cursor[m] /\ doomed'[m] = doomed[m]
  BY <1>a, ReturnAlone DEF Split, Answered, Busy, Batch
<1> HIDE DEF new, had
<1>5. \A c \in new : c \in Node /\ IsBelow(c, n) /\ \A m \in Node : IsBelow(c, m) => Within(n, m)
  BY <1>2, Branches DEF Kids
<1>6. disk \subseteq disk' /\ n \in disk' /\ \A m \in Node : IsBelow(n, m) => m \in disk'
  BY <1>3 DEF Touched, Ancestors
<1>7. Closed'
  <2> SUFFICES ASSUME NEW l \in disk', NEW m \in Node, IsBelow(l, m) PROVE m \in disk'
    BY DEF Closed
  <2>1. CASE l \in disk
    BY <1>6, <2>1 DEF Standing, Closed
  <2>2. CASE l \in new
    BY <1>5, <1>6, <2>2 DEF Within
  <2>3. CASE Within(n, l)
    <3>1. IsBelow(n, m)
      BY <1>a, <2>3, Branches DEF Within, TypeOK
    <3> QED BY <1>6, <3>1
  <2>4. l \in disk \/ l \in new \/ Within(n, l)
    BY <1>3 DEF Touched, Ancestors, Within
  <2> QED BY <2>1, <2>2, <2>3, <2>4
<1>8. RowsAreLeft'
  <2> SUFFICES ASSUME NEW l \in Node, l \notin disk', row'[l] # NoRow PROVE l \in leftover'
    BY DEF RowsAreLeft
  <2>1. l \notin disk /\ l # n /\ l \notin new
    BY <1>3, <1>6
  <2>2. row'[l] = row[l]
    BY <1>3, <2>1
  <2> QED BY <1>3, <2>1, <2>2 DEF Standing, RowsAreLeft
<1>9. ASSUME NEW l \in Node, Severed(l), NEW y \in disk \cup Busy, Within(y, l)
      PROVE  Severed(l)'
  <2>1. PICK a \in Node :
          /\ a # Root /\ Within(l, a) /\ Parent(a) \in disk \cap replanned
          /\ \A m \in Node : Within(l, m) /\ Within(m, a) => row[m] = NoRow \/ m \in leftover
    BY <1>9 DEF Severed
  <2>2. ASSUME NEW m \in Node, Within(l, m), Within(m, a)
        PROVE  row'[m] = NoRow \/ m \in leftover'
    <3>1. Within(y, m)
      <4>1. y \in Node
        BY <1>a DEF TypeOK, Busy, Batch
      <4> QED BY <1>9, <2>2, <4>1, Branches DEF Within
    <3>2. CASE m \in added
      BY <1>3, <3>1, <3>2 DEF Haunted, Within
    <3>3. CASE m \notin added
      BY <1>3, <2>1, <2>2, <3>3
    <3> QED BY <3>2, <3>3
  <2>3. Parent(a) \in disk' \cap replanned'
    BY <1>4, <1>6, <2>1
  <2> QED BY <2>1, <2>2, <2>3 DEF Severed
<1>10. ASSUME NEW l \in Node PROVE Explained(l)'
  <2>1. CASE l \in disk' /\ row'[l] = NoRow
    <3>1. row[l] = NoRow /\ l \notin new
      BY <1>3, <2>1
    <3>2. CASE l \in disk
      BY <1>9, <2>1, <3>1, <3>2 DEF Settled, Explained, Within
    <3>3. CASE l \notin disk
      <4>1. l \in Touched(n)
        BY <1>3, <2>1, <3>1
      <4>2. Within(n, l) /\ Severed(l)
        BY <1>a, <1>4, <3>3, <4>1, CreatedAgain DEF Standing, Settled
      <4> QED BY <1>4, <1>9, <4>2 DEF Explained
    <3> QED BY <3>2, <3>3
  <2>2. CASE l \in Busy' /\ l \notin disk'
    <3>1. l \in Busy /\ l \notin disk
      BY <1>4, <1>6, <2>2 DEF Busy, Batch
    <3> QED BY <1>9, <3>1 DEF Settled, Explained, Within
  <2> QED BY <2>1, <2>2 DEF Explained
<1>11. ASSUME NEW l \in Node, Whole(l)'
       PROVE  (Whole(l) /\ l \notin added) \/ (l \in added /\ ~Haunted(l))
  <2>1. l \in disk' /\ l \notin leftover' /\ row'[l] # NoRow
        /\ \A m \in disk' \cap replanned' : ~Within(m, l)
    BY <1>11 DEF Whole
  <2>2. CASE l \in added
    BY <1>3, <2>1, <2>2
  <2>3. CASE l \notin added
    <3>1. l \notin leftover /\ row[l] # NoRow
      BY <1>3, <2>1, <2>3
    <3>2. l \in disk
      BY <3>1 DEF Standing, RowsAreLeft
    <3>3. \A m \in disk \cap replanned : ~Within(m, l)
      BY <1>4, <1>6, <2>1
    <3> QED BY <2>3, <3>1, <3>2, <3>3 DEF Whole
  <2> QED BY <2>2, <2>3
<1>12. ASSUME NEW l \in Node, Whole(l)' PROVE ChildrenFirst(l)'
  <2> SUFFICES ASSUME NEW m \in disk', Within(m, l), Due(m)', NEW j \in disk', IsBelow(j, m)
               PROVE  row'[j] = COMPLETE
    BY DEF ChildrenFirst
  <2>0. m \in Node /\ j \in Node /\ Within(j, l) /\ l \in Node
    <3>1. m \in Node /\ j \in Node
      BY DEF TypeOK
    <3> QED BY <3>1, Branches DEF Within
  <2>1. CASE l \in added /\ ~Haunted(l)
    <3>1. IsBelow(l, n) /\ j \notin disk
      BY <1>5, <2>0, <2>1 DEF Haunted, Within
    <3>2. ~Within(n, j)
      BY <2>0, <3>1, Branches DEF Within
    <3>3. j \in new
      BY <1>3, <3>1, <3>2 DEF Touched, Ancestors, Within
    <3>4. Within(n, m)
      BY <1>5, <2>0, <3>3
    <3> QED BY <2>0, <3>1, <3>4, Branches DEF Within
  <2>2. CASE Whole(l) /\ ~Within(n, l)
    <3>1. ASSUME NEW i \in disk', i \in Node, Within(i, l) PROVE i \in disk /\ i # n
      <4>1. ~Within(n, i)
        BY <2>0, <2>2, <3>1, Branches DEF Within
      <4>2. i \in new => i = l
        BY <1>5, <2>0, <2>2, <3>1 DEF Within
      <4> QED BY <1>3, <2>2, <4>1, <4>2 DEF Touched, Ancestors, Within, Whole
    <3>2. ASSUME NEW i \in disk, Within(i, l), i # n, i \in Node PROVE row'[i] = row[i]
      <4>1. row[i] # NoRow
        BY <1>a, <2>0, <2>2, <3>2, WholeBranch DEF Settled
      <4> QED BY <1>3, <3>2, <4>1
    <3>3. m \in disk /\ j \in disk /\ row'[m] = row[m] /\ row'[j] = row[j] /\ m # n
      BY <2>0, <3>1, <3>2
    <3>4. Due(m)
      BY <1>4, <2>0, <3>3 DEF Due, Busy, Batch
    <3> QED BY <2>0, <2>2, <3>3, <3>4 DEF Settled, ChildrenFirst
  <2>3. CASE Whole(l) /\ Within(n, l)
    <3>1. n \in disk /\ row[n] # NoRow
      BY <1>a, <1>4, <2>3, WholeBranch DEF Settled
    <3>2. Touched(n) = disk
      BY <3>1 DEF Touched, Ancestors, Standing, Closed
    <3>3. ~Due(n)' /\ m # n
      <4>1. row'[n] = SPLIT
        BY <1>3, <1>5, <3>1
      <4> QED BY <1>4, <4>1 DEF Due, Busy, Batch
    <3>4. CASE m \in disk
      <4>1. row[m] # NoRow
        BY <1>a, <2>0, <2>3, <3>4, WholeBranch DEF Settled
      <4>2. row'[m] = row[m]
        BY <1>3, <2>0, <3>3, <4>1
      <4>3. Due(m)
        BY <1>4, <2>0, <3>3, <4>2 DEF Due, Busy, Batch
      <4>4. ~IsBelow(n, m)
        BY <1>a, <1>4, <2>0, <2>3, <3>4, <4>3, NobodyBelow
      <4>5. j \in disk
        <5>1. j \notin new
          BY <1>5, <2>0, <3>3, <4>4 DEF Within
        <5> QED BY <1>3, <3>2, <5>1
      <4>6. row[j] = COMPLETE /\ j # n
        BY <2>0, <2>3, <3>4, <4>3, <4>4, <4>5 DEF Settled, ChildrenFirst
      <4> QED BY <1>3, <2>0, <4>6
    <3>5. CASE m \notin disk
      <4>1. m \in new
        BY <1>3, <3>2, <3>5
      <4>2. j \notin disk
        BY <2>0, <3>5 DEF Standing, Closed
      <4>3. j \in new
        BY <1>3, <3>2, <4>2
      <4> QED BY <1>5, <2>0, <4>1, <4>3, Branches DEF Within
    <3> QED BY <3>4, <3>5
  <2> QED BY <1>11, <1>12, <2>1, <2>2, <2>3
<1>13. ASSUME NEW l \in Node, Whole(l)', l \notin cutOff', row'[l] = SUSPENDED
       PROVE  \/ \E m \in disk' : Within(m, l) /\ row'[m] = FAILED
              \/ \E v \in Node : Holds(v, l)'
  <2>1. Whole(l) /\ row[l] = SUSPENDED /\ l \notin cutOff
    BY <1>3, <1>4, <1>11, <1>13
  <2>2. ASSUME NEW m \in disk, Within(m, l), row[m] = FAILED PROVE row'[m] = FAILED
    <3>1. m \in Node /\ m # n
      BY <1>a, <1>4, <2>2 DEF TypeOK, Standing, AtWork
    <3> QED BY <1>3, <2>2, <3>1
  <2>3. ASSUME NEW v \in Node, Holds(v, l) PROVE Holds(v, l)'
    <3>1. v # n
      BY <1>4, <2>3 DEF Holds
    <3>2. wpc'[v] = wpc[v] /\ owner'[v] = owner[v] /\ cursor'[v] = cursor[v] /\ doomed'[v] = doomed[v]
      BY <1>4, <3>1
    <3> QED BY <1>6, <2>3, <3>2 DEF Holds
  <2> QED BY <1>6, <2>1, <2>2, <2>3 DEF Settled, Accounted
<1>14. \A l \in Node : ChildrenFirst(l)' /\ Accounted(l)'
  BY <1>12, <1>13 DEF ChildrenFirst, Accounted
<1> QED BY <1>7, <1>8, <1>10, <1>14 DEF Settled

\* What a ruling deletes leaves its traces, up to the replanned node.
LEMMA PruneSettles ==
  ASSUME Attended, Standing, Settled, TypeOK', NEW n \in Node, Prune(n)
  PROVE  Closed' /\ RowsAreLeft' /\ Settled'
<1>a. TypeOK
  BY DEF Attended, Typed
<1> DEFINE p == cursor[n]
<1>1. PICK c \in doomed[n] :
        /\ disk' = {m \in disk : m # c /\ ~IsBelow(m, c)}
        /\ row' = [row EXCEPT ![c] = NoRow]
        /\ doomed' = [doomed EXCEPT ![n] = @ \ {c}]
        /\ leftover' = (leftover \ {c}) \cup {m \in Node : IsBelow(m, c) /\ row[m] # NoRow}
        /\ replanned' = {m \in replanned : m # c /\ ~IsBelow(m, c)} \cup {p}
  BY DEF Prune
<1>2. /\ wpc' = wpc /\ owner' = owner /\ cursor' = cursor /\ cutOff' = cutOff
      /\ wpc[n] = "pruning"
  BY DEF Prune
<1>3. c \in Node /\ p \in Node /\ c # Root /\ Parent(c) = p /\ IsBelow(c, p)
  <2>1. c \in Kids(p)
    BY <1>1, <1>2 DEF Standing, OnTheWay
  <2> QED BY <1>a, <2>1, Branches DEF Kids, TypeOK
<1> HIDE DEF p
<1>4. /\ disk' = {m \in disk : ~Within(m, c)}
      /\ \A m \in Node : row'[m] = IF m = c THEN NoRow ELSE row[m]
      /\ leftover' = (leftover \ {c}) \cup {m \in Node : IsBelow(m, c) /\ row[m] # NoRow}
      /\ replanned' = {m \in replanned : ~Within(m, c)} \cup {p}
      /\ \A v \in Node : doomed'[v] = IF v = n THEN doomed[n] \ {c} ELSE doomed[v]
  BY <1>1, <1>3, <1>a DEF Within, TypeOK
<1>5. ~Within(p, c) /\ Within(c, c)
  BY <1>3, Branches DEF Within
<1>6. ASSUME NEW l \in disk, Within(l, c) PROVE c \in disk /\ p \in disk /\ p \in disk'
  <2>1. l \in Node
    BY <1>a DEF TypeOK
  <2>2. c \in disk
    BY <1>3, <1>6 DEF Standing, Closed, Within
  <2>3. p \in disk
    BY <1>3, <2>2 DEF Standing, Closed
  <2> QED BY <1>4, <1>5, <2>2, <2>3
<1>7. Closed'
  <2> SUFFICES ASSUME NEW l \in disk', NEW m \in Node, IsBelow(l, m) PROVE m \in disk'
    BY DEF Closed
  <2>1. l \in disk /\ l \in Node /\ ~Within(l, c)
    BY <1>4, <1>a DEF TypeOK
  <2>2. ~Within(m, c)
    BY <1>3, <2>1, Branches DEF Within
  <2> QED BY <1>4, <2>1, <2>2 DEF Standing, Closed
<1>8. RowsAreLeft'
  <2> SUFFICES ASSUME NEW l \in Node, l \notin disk', row'[l] # NoRow PROVE l \in leftover'
    BY DEF RowsAreLeft
  <2>1. l # c /\ row[l] # NoRow
    BY <1>4
  <2>2. CASE l \in disk
    BY <1>4, <2>1, <2>2 DEF Within
  <2>3. CASE l \notin disk
    BY <1>4, <2>1, <2>3 DEF Standing, RowsAreLeft
  <2> QED BY <2>2, <2>3
<1>9. ASSUME NEW l \in Node, Within(l, c), p \in disk PROVE Severed(l)'
  <2>1. Parent(c) \in disk' \cap replanned'
    BY <1>3, <1>4, <1>5, <1>9
  <2>2. ASSUME NEW m \in Node, Within(m, c) PROVE row'[m] = NoRow \/ m \in leftover'
    BY <1>4, <2>2 DEF Within
  <2> QED BY <1>3, <1>9, <2>1, <2>2 DEF Severed
<1>10. ASSUME NEW l \in Node, Severed(l), ~Within(l, c) \/ p \notin disk PROVE Severed(l)'
  <2>1. PICK a \in Node :
          /\ a # Root /\ Within(l, a) /\ Parent(a) \in disk \cap replanned
          /\ \A m \in Node : Within(l, m) /\ Within(m, a) => row[m] = NoRow \/ m \in leftover
    BY <1>10 DEF Severed
  <2>2. Parent(a) \in Node /\ Within(l, Parent(a))
    BY <2>1, Branches DEF Within
  <2>3. ~Within(Parent(a), c)
    <3>1. ASSUME Within(Parent(a), c) PROVE FALSE
      <4>1. p \in disk
        BY <1>6, <2>1, <3>1
      <4>2. Within(l, c)
        BY <1>3, <2>2, <3>1, Branches DEF Within
      <4> QED BY <1>10, <4>1, <4>2
    <3> QED BY <3>1
  <2>4. Parent(a) \in disk' \cap replanned'
    BY <1>4, <2>1, <2>3
  <2>5. \A m \in Node : Within(l, m) /\ Within(m, a) => row'[m] = NoRow \/ m \in leftover'
    BY <1>4, <2>1
  <2> QED BY <2>1, <2>4, <2>5 DEF Severed
<1>11. ASSUME NEW l \in Node PROVE Explained(l)'
  <2>1. CASE l \in disk' /\ row'[l] = NoRow
    <3>1. l \in disk /\ ~Within(l, c) /\ row[l] = NoRow
      BY <1>4, <1>5, <2>1
    <3> QED BY <1>10, <3>1 DEF Settled, Explained
  <2>2. CASE l \in Busy' /\ l \notin disk'
    <3>1. l \in Busy
      BY <1>2, <2>2 DEF Busy, Batch
    <3>2. CASE Within(l, c) /\ p \in disk
      BY <1>9, <3>2 DEF Explained
    <3>3. CASE ~Within(l, c) \/ p \notin disk
      <4>1. l \notin disk
        BY <1>4, <1>6, <2>2, <3>3
      <4> QED BY <1>10, <3>1, <3>3, <4>1 DEF Settled, Explained
    <3> QED BY <3>2, <3>3
  <2> QED BY <2>1, <2>2 DEF Explained
<1>12. ASSUME NEW l \in Node, Whole(l)'
       PROVE  /\ Whole(l) /\ ~Within(l, c)
              /\ \A m \in disk : Within(m, l) => m \in disk' /\ row'[m] = row[m]
  <2>1. /\ l \in disk /\ ~Within(l, c) /\ l \notin leftover' /\ row'[l] # NoRow
        /\ \A m \in disk' \cap replanned' : ~Within(m, l)
    BY <1>4, <1>12 DEF Whole
  <2>2. l \notin leftover /\ row[l] # NoRow
    BY <1>4, <1>5, <2>1
  <2>3. ASSUME NEW m \in disk, Within(m, l), Within(m, c) PROVE FALSE
    <3>1. m \in Node
      BY <1>a DEF TypeOK
    <3>2. IsBelow(c, l)
      BY <1>3, <2>1, <2>3, <3>1, Branches
    <3>3. Within(p, l)
      BY <1>3, <3>2, Branches
    <3>4. p \in disk' \cap replanned'
      BY <1>4, <1>6, <2>3
    <3> QED BY <2>1, <3>3, <3>4
  <2>4. \A m \in disk \cap replanned : ~Within(m, l)
    BY <1>4, <2>1, <2>3
  <2>5. ASSUME NEW m \in disk, Within(m, l) PROVE m \in disk' /\ row'[m] = row[m]
    BY <1>4, <1>5, <1>a, <2>3, <2>5 DEF TypeOK
  <2> QED BY <2>1, <2>2, <2>4, <2>5 DEF Whole
<1>13. ASSUME NEW l \in Node PROVE ChildrenFirst(l)'
  <2> SUFFICES ASSUME Whole(l)', NEW m \in disk', Within(m, l), Due(m)',
                      NEW j \in disk', IsBelow(j, m)
               PROVE  row'[j] = COMPLETE
    BY DEF ChildrenFirst
  <2>1. m \in disk /\ j \in disk /\ m \in Node /\ j \in Node
    BY <1>4, <1>a DEF TypeOK
  <2>2. Within(j, l)
    BY <2>1, Branches DEF Within
  <2>3. row'[m] = row[m] /\ row'[j] = row[j]
    BY <1>12, <2>1, <2>2
  <2>4. Due(m)
    BY <1>2, <2>3 DEF Due, Busy, Batch
  <2> QED BY <1>12, <2>1, <2>3, <2>4 DEF Settled, ChildrenFirst
<1>14. ASSUME NEW l \in Node PROVE Accounted(l)'
  <2> SUFFICES ASSUME Whole(l)', l \notin cutOff', row'[l] = SUSPENDED
               PROVE  \/ \E m \in disk' : Within(m, l) /\ row'[m] = FAILED
                      \/ \E v \in Node : Holds(v, l)'
    BY DEF Accounted
  <2>1. Whole(l) /\ ~Within(l, c) /\ l \notin cutOff /\ row[l] = SUSPENDED
    BY <1>2, <1>4, <1>12 DEF NoRow, SUSPENDED
  <2>2. ASSUME NEW v \in Node, Holds(v, l) PROVE Holds(v, l)'
    <3>1. wpc'[v] = wpc[v] /\ owner'[v] = owner[v] /\ cursor'[v] = cursor[v]
      BY <1>2
    <3>2. CASE wpc[v] # "pruning"
      BY <2>2, <3>1, <3>2 DEF Holds
    <3>3. CASE wpc[v] = "pruning" /\ cursor[v] \in disk /\ Within(cursor[v], l)
      <4>1. cursor[v] \in disk'
        BY <1>12, <3>3
      <4> QED BY <3>1, <3>3, <4>1 DEF Holds
    <3>4. CASE wpc[v] = "pruning" /\ \E d \in doomed[v] : Within(l, d)
      <4>1. PICK d \in doomed[v] : Within(l, d)
        BY <3>4
      <4>2. d \in doomed'[v]
        BY <1>4, <2>1, <4>1
      <4> QED BY <3>1, <3>4, <4>1, <4>2 DEF Holds
    <3> QED BY <2>2, <3>2, <3>3, <3>4 DEF Holds
  <2> QED BY <1>12, <2>1, <2>2 DEF Settled, Accounted
<1> QED BY <1>7, <1>8, <1>11, <1>13, <1>14 DEF Settled

\* So does the end of a replan, at the replanned node itself.
LEMMA PrunedSettles ==
  ASSUME Attended, Standing, Settled, TypeOK', NEW n \in Node, Pruned(n)
  PROVE  Closed' /\ RowsAreLeft' /\ Settled'
<1>a. TypeOK
  BY DEF Attended, Typed
<1> USE DEF Status, NoRow, PENDING, RUNNING, SPLIT, SUSPENDED, COMPLETE, FAILED
<1> DEFINE p == cursor[n]
<1>1. /\ disk' = disk /\ leftover' = leftover /\ cutOff' = cutOff
      /\ replanned' = replanned \cup {p} /\ p \in Node
      /\ wpc[n] = "pruning" /\ doomed[n] = {} /\ wpc'[n] \in {"idle", "done"}
      /\ \A m \in Node \ {n} : /\ wpc'[m] = wpc[m] /\ owner'[m] = owner[m]
                               /\ cursor'[m] = cursor[m] /\ doomed'[m] = doomed[m]
  BY <1>a, ReturnAlone DEF Pruned, TypeOK
<1>2. \A m \in Node : row'[m] = IF m = p /\ row[p] # NoRow THEN PENDING ELSE row[m]
  BY <1>1, <1>a, SetStatusRow DEF Pruned
<1> HIDE DEF p
<1>3. Closed' /\ RowsAreLeft'
  BY <1>1, <1>2 DEF Standing, Closed, RowsAreLeft
<1>4. ASSUME NEW m \in Node, m \in Busy' PROVE m \in Busy /\ m # n
  BY <1>1, <1>4 DEF Busy, Batch
<1>5. ASSUME NEW l \in Node, Severed(l) PROVE Severed(l)'
  BY <1>1, <1>2, <1>5 DEF Severed
<1>6. ASSUME NEW l \in Node PROVE Explained(l)'
  <2>1. (l \in disk' /\ row'[l] = NoRow) \/ (l \in Busy' /\ l \notin disk') => Severed(l)
    BY <1>1, <1>2, <1>4 DEF Settled, Explained
  <2> QED BY <1>5, <2>1 DEF Explained
<1>7. ASSUME NEW l \in Node, Whole(l)'
      PROVE  Whole(l) /\ \A m \in disk : Within(m, l) => m # p /\ row'[m] = row[m]
  <2>1. /\ l \in disk /\ l \notin leftover /\ row[l] # NoRow
        /\ \A m \in disk \cap (replanned \cup {p}) : ~Within(m, l)
    BY <1>1, <1>2, <1>7 DEF Whole
  <2> QED BY <1>2, <1>a, <2>1 DEF Whole, TypeOK
<1>8. ASSUME NEW l \in Node PROVE ChildrenFirst(l)'
  <2> SUFFICES ASSUME Whole(l)', NEW m \in disk, Within(m, l), Due(m)',
                      NEW j \in disk, IsBelow(j, m)
               PROVE  row'[j] = COMPLETE
    BY <1>1 DEF ChildrenFirst
  <2>1. m \in Node /\ j \in Node
    BY <1>a DEF TypeOK
  <2>2. Within(j, l)
    BY <2>1, Branches DEF Within
  <2>3. row'[m] = row[m] /\ row'[j] = row[j]
    BY <1>7, <2>2
  <2>4. Due(m)
    <3>1. wpc'[m] = "held" => wpc[m] = "held"
      BY <1>1, <2>1
    <3> QED BY <1>4, <2>1, <2>3, <3>1 DEF Due
  <2> QED BY <1>7, <2>3, <2>4 DEF Settled, ChildrenFirst
<1>9. ASSUME NEW l \in Node PROVE Accounted(l)'
  <2> SUFFICES ASSUME Whole(l)', l \notin cutOff, row'[l] = SUSPENDED
               PROVE  \/ \E m \in disk : Within(m, l) /\ row'[m] = FAILED
                      \/ \E v \in Node : Holds(v, l)'
    BY <1>1 DEF Accounted
  <2>1. Whole(l) /\ row[l] = SUSPENDED
    BY <1>2, <1>7
  <2>2. ASSUME NEW v \in Node, Holds(v, l) PROVE Holds(v, l)'
    <3>1. v # n
      <4>1. ASSUME v = n PROVE p \in disk /\ Within(p, l)
        BY <1>1, <2>2, <4>1 DEF Holds, p
      <4> QED BY <1>7, <4>1
    <3>2. wpc'[v] = wpc[v] /\ owner'[v] = owner[v] /\ cursor'[v] = cursor[v] /\ doomed'[v] = doomed[v]
      BY <1>1, <3>1
    <3> QED BY <1>1, <2>2, <3>2 DEF Holds
  <2> QED BY <1>7, <2>1, <2>2 DEF Settled, Accounted
<1> QED BY <1>3, <1>6, <1>8, <1>9 DEF Settled

\* Every step of a worker.
LEMMA WorkerSteady ==
  ASSUME Steady, NEW n \in Node, Worker(n)
  PROVE  Steady'
<1>1. Attended' /\ TypeOK' /\ TypeOK
  BY WorkerAttends DEF Steady, Attended, Typed
<1>2. \A k \in Node : OnTheWay(k)' /\ AtWork(k)'
  BY WorkerOnTheWay DEF Steady
<1>3. CASE Keeping(n)
  <2>1. Keeps(n)
    BY <1>3, KeepingKeeps DEF Steady
  <2>2. /\ Closed' /\ RowsAreLeft' /\ \A k \in Node : Explained(k)'
    BY <1>1, <2>1, KeepsTree DEF Steady
  <2>3. \A k \in Node : ChildrenFirst(k)'
    BY <1>1, <2>1, KeepsChildrenFirst DEF Steady
  <2>4. \A k \in Node : Whole(k) /\ row'[k] = SUSPENDED /\ (row[k] = SUSPENDED => Holds(n, k)) =>
           Holds(n, k)' \/ (n \in disk' /\ Within(n, k) /\ row'[n] = FAILED)
    BY <1>3, KeepingAnswers DEF Steady
  <2>5. \A k \in Node : Accounted(k)'
    BY <1>1, <2>1, <2>4, KeepsAccounted DEF Steady
  <2> QED BY <1>1, <1>2, <2>2, <2>3, <2>5 DEF Steady, Standing, Settled
<1>4. CASE Split(n)
  BY <1>1, <1>2, <1>4, SplitSettles DEF Steady, Standing
<1>5. CASE Prune(n)
  BY <1>1, <1>2, <1>5, PruneSettles DEF Steady, Standing
<1>6. CASE Pruned(n)
  BY <1>1, <1>2, <1>6, PrunedSettles DEF Steady, Standing
<1> QED BY <1>3, <1>4, <1>5, <1>6 DEF Worker, Keeping

\* The rest of the steps.
LEMMA StandStill ==
  ASSUME Standing, Settled,
         UNCHANGED <<disk, row, wpc, owner, cursor, doomed, leftover, replanned, cutOff>>
  PROVE  Standing' /\ Settled'
<1>1. Standing'
  BY DEF Standing, Closed, RowsAreLeft, OnTheWay, AtWork, Busy, Batch
<1>2. ASSUME NEW n \in Node PROVE Explained(n)' /\ ChildrenFirst(n)' /\ Accounted(n)'
  <2>1. Explained(n) /\ ChildrenFirst(n) /\ Accounted(n)
    BY DEF Settled
  <2>2. Explained(n)'
    BY <2>1 DEF Explained, Severed, Busy, Batch
  <2>3. Whole(n)' => Whole(n)
    BY DEF Whole
  <2>4. \A m : Due(m)' => Due(m)
    BY DEF Due, Busy, Batch
  <2>5. ChildrenFirst(n)'
    BY <2>1, <2>3, <2>4 DEF ChildrenFirst
  <2>6. \A w : Holds(w, n) => Holds(w, n)'
    BY DEF Holds
  <2>7. Accounted(n)'
    BY <2>1, <2>3, <2>6 DEF Accounted
  <2> QED BY <2>2, <2>5, <2>7
<1> QED BY <1>1, <1>2 DEF Settled

\* Nobody holds a node when nobody is at work.
LEMMA NobodyHolds ==
  ASSUME Attended, pc \in {"down", "select", "done"}, NEW n \in Node, NEW w \in Node
  PROVE  wpc[w] = "idle" /\ ~Holds(w, n)
BY DEF Attended, Holds

\* reconcile takes a directory without a row for left over.
LEMMA StartSettles ==
  ASSUME Attended, Standing, Settled, Start
  PROVE  Standing' /\ Settled'
<1>a. TypeOK
  BY DEF Attended, Typed
<1> USE DEF Status, NoRow, PENDING, RUNNING, SPLIT, SUSPENDED, COMPLETE, FAILED
<1>1. /\ disk' = disk /\ row' = Reconciled /\ wpc' = wpc /\ owner' = owner /\ cursor' = cursor
      /\ doomed' = doomed /\ cutOff' = cutOff
      /\ leftover' = (leftover \cap disk) \cup {n \in disk : row[n] = NoRow}
      /\ replanned' = replanned \cap disk
  BY DEF Start, workerVars, askVars
<1>2. \A k \in Node : wpc[k] = "idle"
  BY NobodyHolds DEF Start
<1>3. \A k \in Node \ disk : row'[k] = NoRow
  BY <1>1 DEF Reconciled
<1>4. \A k \in disk : /\ row'[k] # NoRow
                      /\ row[k] \in {SPLIT, SUSPENDED, COMPLETE, FAILED} => row'[k] = row[k]
                      /\ row'[k] \in {SUSPENDED, COMPLETE, FAILED} => row'[k] = row[k]
                      /\ row'[k] = PENDING => Kids(k) \cap disk = {}
  BY <1>1, <1>a DEF Reconciled, TypeOK
<1>5. Standing'
  BY <1>1, <1>2, <1>3 DEF Standing, Closed, RowsAreLeft, OnTheWay, AtWork, Busy, Batch
<1>6. ASSUME NEW n \in Node PROVE Explained(n)'
  BY <1>1, <1>2, <1>4 DEF Explained, Busy, Batch
<1>7. ASSUME NEW n \in Node, Whole(n)' PROVE Whole(n)
  BY <1>1, <1>7 DEF Whole
<1>8. ASSUME NEW n \in Node PROVE ChildrenFirst(n)'
  <2> SUFFICES ASSUME Whole(n)', NEW m \in disk, Within(m, n), Due(m)',
                      NEW l \in disk, IsBelow(l, m)
               PROVE  row'[l] = COMPLETE
    BY <1>1 DEF ChildrenFirst
  <2>1. m \in Node /\ l \in Node
    BY <1>a DEF TypeOK
  <2>2. row'[m] \in {PENDING, COMPLETE, FAILED}
    BY <1>1, <1>2, <2>1 DEF Due, Busy, Batch
  <2>3. row'[m] # PENDING
    <3>1. PICK c \in Kids(m) : Within(l, c)
      BY <2>1, ThroughChild
    <3>2. c \in disk
      BY <3>1 DEF Standing, Closed, Within, Kids
    <3> QED BY <1>4, <3>1, <3>2
  <2>4. Due(m)
    BY <1>4, <2>2, <2>3 DEF Due
  <2>5. row[l] = COMPLETE
    BY <1>7, <2>4 DEF Settled, ChildrenFirst
  <2> QED BY <1>4, <2>5
<1>9. ASSUME NEW n \in Node PROVE Accounted(n)'
  <2> SUFFICES ASSUME Whole(n)', n \notin cutOff, row'[n] = SUSPENDED
               PROVE  \E m \in disk : Within(m, n) /\ row'[m] = FAILED
    BY <1>1 DEF Accounted
  <2>1. Whole(n) /\ row[n] = SUSPENDED
    BY <1>4, <1>7 DEF Whole
  <2>2. \E m \in disk : Within(m, n) /\ row[m] = FAILED
    BY <2>1, NobodyHolds DEF Settled, Accounted, Start
  <2> QED BY <1>4, <2>2
<1> QED BY <1>5, <1>6, <1>8, <1>9 DEF Settled

\* What is selected waits, or has accepted children only.
LEMMA SelectSettles ==
  ASSUME Attended, Standing, Settled, Select
  PROVE  Standing' /\ Settled'
<1>a. TypeOK
  BY DEF Attended, Typed
<1> USE DEF Status, NoRow, PENDING, RUNNING, SPLIT, SUSPENDED, COMPLETE, FAILED
<1>1. /\ disk' = disk /\ row' = row /\ owner' = owner /\ cursor' = cursor /\ doomed' = doomed
      /\ leftover' = leftover /\ replanned' = replanned /\ cutOff' = cutOff
  BY DEF Select, storeVars, askVars, history
<1>2. \A k \in Node : wpc'[k] \in {"idle", "queued"} /\ (wpc'[k] = "queued" => k \in Ready)
  BY DEF Select, FirstOf
<1>3. ASSUME NEW k \in Ready
      PROVE  /\ k \in disk
             /\ \/ row[k] \in {NoRow, PENDING}
                \/ row[k] = SPLIT /\ \A c \in Kids(k) \cap disk : row[c] = COMPLETE
  BY <1>3 DEF Ready, NextNodes, Seen, Aggregatable
<1>4. \A k \in Node : k \in Busy' => k \in Ready
  BY <1>2 DEF Busy, Batch
<1>5. ASSUME NEW k \in Node PROVE OnTheWay(k)' /\ AtWork(k)'
  <2>1. wpc'[k] \in {"idle", "queued"}
    BY <1>2
  <2>2. OnTheWay(k)'
    BY <2>1 DEF OnTheWay, Settling
  <2>3. AtWork(k)'
    BY <1>1, <1>3, <1>4, <2>1 DEF AtWork
  <2> QED BY <2>2, <2>3
<1>6. Standing'
  BY <1>1, <1>5 DEF Standing, Closed, RowsAreLeft
<1>7. ASSUME NEW n \in Node PROVE Explained(n)'
  <2>1. (n \in disk' /\ row'[n] = NoRow) \/ (n \in Busy' /\ n \notin disk') => Severed(n)
    BY <1>1, <1>3, <1>4 DEF Settled, Explained
  <2> QED BY <1>1, <2>1 DEF Explained, Severed
<1>8. ASSUME NEW n \in Node PROVE ChildrenFirst(n)'
  <2> SUFFICES ASSUME Whole(n), NEW m \in disk, Within(m, n), Due(m)',
                      NEW l \in disk, IsBelow(l, m)
               PROVE  row[l] = COMPLETE
    BY <1>1 DEF ChildrenFirst, Whole
  <2>1. m \in Node /\ l \in Node
    BY <1>a DEF TypeOK
  <2>2. row[m] # NoRow
    BY <1>a, <2>1, WholeBranch DEF Settled
  <2>3. CASE row[m] \in {PENDING, COMPLETE, FAILED}
    BY <2>3 DEF Settled, ChildrenFirst, Due
  <2>4. CASE row[m] = SPLIT /\ \A c \in Kids(m) \cap disk : row[c] = COMPLETE
    <3>1. PICK c \in Kids(m) : Within(l, c)
      BY <2>1, ThroughChild
    <3>2. c \in Node /\ IsBelow(c, m) /\ c \in disk
      BY <3>1, Branches DEF Standing, Closed, Within, Kids
    <3>3. row[c] = COMPLETE /\ Within(c, n)
      BY <2>1, <2>4, <3>1, <3>2, Branches DEF Within
    <3>4. Due(c)
      BY <3>3 DEF Due
    <3> QED BY <3>1, <3>2, <3>3, <3>4 DEF Settled, ChildrenFirst, Within
  <2>5. wpc'[m] # "held"
    BY <1>2, <2>1
  <2>6. row[m] \in {PENDING, COMPLETE, FAILED} \/ m \in Ready
    BY <1>1, <1>4, <2>1, <2>5 DEF Due
  <2> QED BY <1>3, <2>2, <2>3, <2>4, <2>6
<1>9. ASSUME NEW n \in Node PROVE Accounted(n)'
  <2> SUFFICES ASSUME Whole(n), n \notin cutOff, row[n] = SUSPENDED
               PROVE  \E m \in disk : Within(m, n) /\ row[m] = FAILED
    BY <1>1 DEF Accounted, Whole
  <2> QED BY NobodyHolds DEF Settled, Accounted, Select
<1> QED BY <1>6, <1>7, <1>8, <1>9 DEF Settled

\* Integration settles what was held.
LEMMA IntegrateSettles ==
  ASSUME Attended, Standing, Settled, NEW n \in Node, Integrate(n)
  PROVE  Standing' /\ Settled'
<1>a. TypeOK
  BY DEF Attended, Typed
<1> USE DEF Status, NoRow, PENDING, RUNNING, SPLIT, SUSPENDED, COMPLETE, FAILED
<1>1. /\ disk' = disk /\ owner' = owner /\ cursor' = cursor /\ doomed' = doomed
      /\ leftover' = leftover /\ replanned' = replanned /\ cutOff' = cutOff
      /\ wpc[n] \in {"held", "done"} /\ wpc'[n] = "idle"
      /\ \A k \in Node \ {n} : wpc'[k] = wpc[k]
  BY <1>a DEF Integrate, askVars, history, TypeOK
<1>2. /\ \A k \in Node \ {n} : row'[k] = row[k]
      /\ \/ row'[n] = row[n]
         \/ wpc[n] = "held" /\ row[n] # NoRow /\ row'[n] \in {COMPLETE, FAILED}
  <2>1. CASE row' = row
    BY <2>1
  <2>2. ASSUME NEW st \in {COMPLETE, FAILED}, wpc[n] = "held", row' = SetStatus(n, st)
        PROVE  <1>2!1 /\ <1>2!2
    <3>1. \A k \in Node : row'[k] = IF k = n /\ row[n] # NoRow THEN st ELSE row[k]
      BY <1>a, <2>2, SetStatusRow
    <3> QED BY <2>2, <3>1
  <2> QED BY <2>1, <2>2 DEF Integrate
<1>3. \A k \in Node : k \in Busy' => k \in Busy /\ k # n
  BY <1>1 DEF Busy, Batch
<1>4. row[n] \in {COMPLETE, FAILED} => row'[n] = row[n]
  BY <1>2 DEF Standing, AtWork
<1>5. ASSUME NEW k \in Node PROVE OnTheWay(k)' /\ AtWork(k)'
  <2>1. CASE k = n
    BY <1>1, <2>1 DEF OnTheWay, AtWork, Busy, Batch, Settling
  <2>2. CASE k # n
    <3>1. wpc'[k] = wpc[k] /\ row'[k] = row[k]
      BY <1>1, <1>2, <2>2
    <3> QED BY <1>1, <1>3, <3>1 DEF Standing, OnTheWay, AtWork
  <2> QED BY <2>1, <2>2
<1>6. \A k \in Node : row'[k] = NoRow <=> row[k] = NoRow
  BY <1>2
<1>7. Standing'
  BY <1>1, <1>5, <1>6 DEF Standing, Closed, RowsAreLeft
<1>8. ASSUME NEW l \in Node, Severed(l) PROVE Severed(l)'
  BY <1>1, <1>6, <1>8 DEF Severed
<1>9. ASSUME NEW l \in Node PROVE Explained(l)'
  <2>1. (l \in disk' /\ row'[l] = NoRow) \/ (l \in Busy' /\ l \notin disk') => Severed(l)
    BY <1>1, <1>3, <1>6 DEF Settled, Explained
  <2> QED BY <1>8, <2>1 DEF Explained
<1>10. ASSUME NEW l \in Node, Whole(l)' PROVE Whole(l)
  BY <1>1, <1>6, <1>10 DEF Whole
<1>11. ASSUME NEW l \in Node PROVE ChildrenFirst(l)'
  <2> SUFFICES ASSUME Whole(l)', NEW m \in disk, Within(m, l), Due(m)',
                      NEW j \in disk, IsBelow(j, m)
               PROVE  row'[j] = COMPLETE
    BY <1>1 DEF ChildrenFirst
  <2>1. m \in Node /\ j \in Node
    BY <1>a DEF TypeOK
  <2>2. Due(m)
    <3>1. CASE m = n
      BY <1>1, <1>2, <1>3, <3>1 DEF Due
    <3>2. CASE m # n
      BY <1>1, <1>2, <1>3, <2>1, <3>2 DEF Due
    <3> QED BY <3>1, <3>2
  <2>3. row[j] = COMPLETE
    BY <1>10, <2>2 DEF Settled, ChildrenFirst
  <2> QED BY <1>2, <1>4, <2>1, <2>3
<1>12. ASSUME NEW l \in Node PROVE Accounted(l)'
  <2> SUFFICES ASSUME Whole(l)', l \notin cutOff, row'[l] = SUSPENDED
               PROVE  \/ \E m \in disk : Within(m, l) /\ row'[m] = FAILED
                      \/ \E v \in Node : Holds(v, l)'
    BY <1>1 DEF Accounted
  <2>1. Whole(l) /\ row[l] = SUSPENDED
    BY <1>2, <1>10
  <2>2. ASSUME NEW m \in disk, Within(m, l), row[m] = FAILED PROVE row'[m] = FAILED
    BY <1>2, <1>4, <1>a, <2>2 DEF TypeOK
  <2>3. ASSUME NEW v \in Node, Holds(v, l) PROVE Holds(v, l)'
    <3>1. wpc'[v] = wpc[v]
      BY <1>1, <2>3 DEF Holds
    <3> QED BY <1>1, <2>3, <3>1 DEF Holds
  <2> QED BY <2>1, <2>2, <2>3 DEF Settled, Accounted
<1> QED BY <1>7, <1>9, <1>11, <1>12 DEF Settled

\* A kill takes down what is suspended at that time.
LEMMA CrashSettles ==
  ASSUME Attended, Standing, Settled, Crash
  PROVE  Standing' /\ Settled'
<1>1. /\ disk' = disk /\ row' = row /\ leftover' = leftover /\ replanned' = replanned
      /\ cutOff' = {n \in disk : row[n] = SUSPENDED}
      /\ \A k \in Node : wpc'[k] = "idle"
  BY DEF Crash, IdleWorkers, storeVars
<1>2. \A k \in Node : k \notin Busy'
  BY <1>1 DEF Busy, Batch
<1>3. Standing'
  BY <1>1, <1>2 DEF Standing, Closed, RowsAreLeft, OnTheWay, AtWork, Settling
<1>4. ASSUME NEW n \in Node PROVE Explained(n)' /\ ChildrenFirst(n)' /\ Accounted(n)'
  <2>1. Explained(n)'
    <3>1. n \in disk /\ row[n] = NoRow => Severed(n)
      BY DEF Settled, Explained
    <3> QED BY <1>1, <1>2, <3>1 DEF Explained, Severed
  <2>2. ChildrenFirst(n)'
    <3>1. \A m \in disk : Due(m)' => Due(m)
      BY <1>1, <1>2 DEF Due, Attended, Typed, TypeOK
    <3>2. Whole(n)' => Whole(n)
      BY <1>1 DEF Whole
    <3> QED BY <1>1, <3>1, <3>2 DEF Settled, ChildrenFirst
  <2>3. Accounted(n)'
    BY <1>1 DEF Accounted, Whole
  <2> QED BY <2>1, <2>2, <2>3
<1> QED BY <1>3, <1>4 DEF Settled

\* At first there is the root.
LEMMA InitSteady == Init => Steady
<1> SUFFICES ASSUME Init PROVE Steady
  OBVIOUS
<1>1. Attended
  BY InitTyped DEF Init, Attended
<1>2. /\ disk = {Root} /\ Root \in Node /\ leftover = {} /\ replanned = {}
      /\ \A k \in Node : row[k] = (IF k = Root THEN PENDING ELSE NoRow) /\ wpc[k] = "idle"
  BY NodeAssumption DEF Init
<1>3. \A k \in Node : k \notin Busy
  BY <1>2 DEF Busy, Batch
<1>4. \A k \in Node : ~IsBelow(Root, k)
  BY RootAbove
<1> USE DEF PENDING, NoRow, SUSPENDED
<1>5. Standing
  BY <1>2, <1>3, <1>4 DEF Standing, Closed, RowsAreLeft, OnTheWay, AtWork, Settling
<1>6. Settled
  BY <1>2, <1>3, <1>4 DEF Settled, Explained, ChildrenFirst, Accounted, Whole
<1> QED BY <1>1, <1>5, <1>6 DEF Steady

\* However many escalations a batch has, and whatever the owners rule, no branch is left
\* suspended for nothing: a suspended node of which nothing was deleted, and which no
\* kill has caught, has a failed node in its branch, or one that plans again.
THEOREM NoneSuspendedForNothing == Spec => []SuspendedHasCause
<1>1. Steady /\ [Next]_vars => Steady'
  <2>1. ASSUME Steady, Next PROVE Steady'
    <3>1. ASSUME NEW n \in Node, Worker(n) PROVE Steady'
      BY <2>1, <3>1, WorkerSteady
    <3>2. CASE Start \/ Loop \/ Crash \/ \E n \in Node : Integrate(n)
      <4>1. Attended'
        BY <2>1, <3>2, LoopAttends DEF Steady
      <4>2. CASE Finish \/ Join
        <5>1. UNCHANGED <<disk, row, wpc, owner, cursor, doomed, leftover, replanned, cutOff>>
          BY <4>2 DEF Finish, Join, storeVars, workerVars, askVars, history
        <5> QED BY <2>1, <4>1, <5>1, StandStill DEF Steady
      <4> QED BY <2>1, <3>2, <4>1, <4>2, StartSettles, SelectSettles, IntegrateSettles,
                 CrashSettles DEF Steady, Loop
    <3> QED BY <2>1, <3>1, <3>2 DEF Next
  <2>2. ASSUME Steady, UNCHANGED vars PROVE Steady'
    <3>1. Attended'
      BY <2>2 DEF Steady, vars, storeVars, workerVars, askVars, history, Attended, Typed,
                  TypeOK, Allowed, Own, Asked
    <3>2. UNCHANGED <<disk, row, wpc, owner, cursor, doomed, leftover, replanned, cutOff>>
      BY <2>2 DEF vars, storeVars, workerVars, askVars, history
    <3> QED BY <2>2, <3>1, <3>2, StandStill DEF Steady
  <2> QED BY <2>1, <2>2
<1>2. Steady => SuspendedHasCause
  <2> SUFFICES ASSUME Steady, pc \in {"select", "done"},
                      NEW n \in disk \ (leftover \cup cutOff), row[n] = SUSPENDED
               PROVE  \E m \in (Failed \cup replanned) \cap disk : m = n \/ IsBelow(m, n)
    BY DEF SuspendedHasCause, SuspendedOnlyFor
  <2>1. n \in Node
    BY DEF Steady, Attended, Typed, TypeOK
  <2>2. CASE Whole(n)
    <3>1. PICK m \in disk : Within(m, n) /\ row[m] = FAILED
      BY <2>1, <2>2, NobodyHolds DEF Steady, Settled, Accounted
    <3> QED BY <3>1 DEF Failed, Within
  <2>3. CASE ~Whole(n)
    <3>1. PICK m \in disk \cap replanned : Within(m, n)
      BY <2>3 DEF Whole, SUSPENDED, NoRow
    <3> QED BY <3>1 DEF Within
  <2> QED BY <2>2, <2>3
<1> QED BY <1>1, <1>2, InitSteady, PTL DEF Spec

=============================================================================
