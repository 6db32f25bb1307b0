-------------------------- MODULE SchedulerProofs --------------------------
(* Theorems about the run loop, for every tree and every limit. *)
EXTENDS Scheduler, FiniteSetTheorems, TLAPS

-----------------------------------------------------------------------------
(* What the operators on the index return. *)

Rows == [Node -> Status \cup {NoRow}]

\* set_status keeps the index well typed.
LEMMA SetStatusType ==
  ASSUME NEW r \in Rows, NEW S, NEW st \in Status
  PROVE  SetStatus(r, S, st) \in Rows
BY DEF SetStatus, Rows

\* Draining the queue keeps the index well typed.
LEMMA DrainedType == TypeOK => Drained \in Rows
BY SetStatusType DEF TypeOK, Drained, Rows, Status

\* So does reconcile, whatever it has listed and read.
LEMMA ReconciledType ==
  ASSUME TypeOK, NEW d \in SUBSET Node, NEW r \in Rows
  PROVE  /\ ReconciledRow(d, r) \in Rows
         /\ ReconciledDeps(d, r) \in [Node -> SUBSET Node]
         /\ ReconciledDepFp(d, r) \in [Node -> SUBSET (Node \X Fp)]
<1>1. ReconciledRow(d, r) \in Rows
  BY DEF TypeOK, ReconciledRow, Topology, Rows, Status
<1>2. ReconciledDeps(d, r) \in [Node -> SUBSET Node]
  BY DEF TypeOK, ReconciledDeps
<1>3. ReconciledDepFp(d, r) \in [Node -> SUBSET (Node \X Fp)]
  BY DEF TypeOK, ReconciledDepFp
<1> QED BY <1>1, <1>2, <1>3

-----------------------------------------------------------------------------
(* Type correctness. *)

\* A selected batch is a finite set of nodes.
LEMMA ChosenFinite ==
  ASSUME TypeOK, NEW r
  PROVE  Cardinality(Chosen(r)) \in Nat
<1>1. Chosen(r) \subseteq Node
  BY DEF Chosen, FirstOf, Ready, NextNodes, StaleIds, TypeOK
<1>2. IsFiniteSet(Chosen(r))
  BY <1>1, NodeAssumption, FS_Subset
<1> QED BY <1>2, FS_CardinalityType

\* Initially every variable has its type.
LEMMA InitType == Init => TypeOK
<1> SUFFICES ASSUME Init PROVE TypeOK
    OBVIOUS
<1>1. (CHOOSE v \in Fp : TRUE) \in Fp
  BY FpAssumption
<1>2. Root \in Node
  BY NodeAssumption
<1> QED BY <1>1, <1>2 DEF Init, TypeOK, Status, PC, WPC

\* The passes of the run loop.
LEMMA LoopType == TypeOK /\ (Start \/ Loop) => TypeOK'
<1> SUFFICES ASSUME TypeOK, Start \/ Loop PROVE TypeOK'
    OBVIOUS
<1> USE DEF TypeOK, storeVars, gitVars, workerVars, outsideVars, Rows
<1>1. CASE Start
  <2>1. row' \in Rows
    BY <1>1, ReconciledType, SetStatusType DEF Start, Status
  <2>2. deps' \in [Node -> SUBSET Node] /\ depFp' \in [Node -> SUBSET (Node \X Fp)]
    BY <1>1, ReconciledType DEF Start
  <2>3. pc' \in PC /\ steps' \in Nat /\ runs' \in Nat
    BY <1>1 DEF Start, PC
  <2>5. interrupted' \in BOOLEAN
    BY <1>1, Zenon DEF Start
  <2>4. wpc' \in [Node -> WPC] /\ snap' \in [Node -> Status]
        /\ hasKids' \in [Node -> BOOLEAN] /\ outcome' \in [Node -> {"ok", "failed"}]
        /\ planned' \subseteq Node
    BY <1>1 DEF Start
  <2> QED BY <1>1, <2>1, <2>2, <2>3, <2>4, <2>5 DEF Start
<1>2. CASE Finish
  BY <1>2, DrainedType DEF Finish, PC
<1>3. CASE Wait
  BY <1>3, DrainedType DEF Wait, runVars
<1>4. CASE Select
  <2>1. Cardinality(Chosen(Drained)) \in Nat
    BY ChosenFinite
  <2>2. steps' \in Nat
    BY <1>4, <2>1 DEF Select
  <2>3. \A n \in Node : Seen(Drained, n) \in Status
    BY DrainedType DEF Seen, Status
  <2>4. snap' \in [Node -> Status]
    BY <1>4, <2>3 DEF Select, Status
  <2>5. wpc' \in [Node -> WPC] /\ pc' \in PC
    BY <1>4 DEF Select, WPC, PC
  <2> QED BY <1>4, <2>2, <2>4, <2>5, DrainedType DEF Select
<1>5. CASE Join
  BY <1>5 DEF Join, PC
<1> QED BY <1>1, <1>2, <1>3, <1>4, <1>5 DEF Loop

\* The types of what a worker remembers.
WorkerTypes ==
  /\ wpc \in [Node -> WPC] /\ snap \in [Node -> Status]
  /\ hasKids \in [Node -> BOOLEAN] /\ outcome \in [Node -> {"ok", "failed"}]
  /\ planned \subseteq Node

\* A worker that is gone leaves its variables at their first values.
LEMMA ReleaseType ==
  ASSUME WorkerTypes, NEW n \in Node, Release(n)
  PROVE  WorkerTypes'
BY DEF WorkerTypes, Release, WPC, Status

\* So does a worker that returns, at once or after the join.
LEMMA ReturnType ==
  ASSUME WorkerTypes, NEW n \in Node, NEW result \in {"ok", "failed"}, Return(n, result)
  PROVE  WorkerTypes'
<1>1. CASE pc = "serial"
  BY <1>1, ReleaseType DEF Return
<1>2. CASE pc = "parallel"
  BY <1>2 DEF Return, WorkerTypes, WPC
<1> QED BY <1>1, <1>2 DEF Return

\* The steps of a worker.
LEMMA WorkerType ==
  ASSUME TypeOK, NEW n \in Node, Worker(n)
  PROVE  TypeOK'
<1> USE DEF TypeOK, storeVars, gitVars, runVars, outsideVars, Rows
<1>0. WorkerTypes
  BY DEF WorkerTypes
<1>a. \A st \in Status : \A S : SetStatus(row, S, st) \in Rows
  BY SetStatusType
<1>1. CASE Begin(n)
  <2>1. WorkerTypes'
    <3>1. CASE interrupted
      BY <1>0, <1>1, <3>1, ReturnType DEF Begin
    <3>2. CASE ~interrupted
      BY <1>0, <1>1, <3>2 DEF Begin, Step, WorkerTypes, WPC
    <3> QED BY <3>1, <3>2
  <2> QED BY <1>1, <1>a, <2>1 DEF Begin, WorkerTypes, Status
<1>2. CASE Edit(n)
  BY <1>2 DEF Edit, Edited, workerVars
<1>3. CASE Split(n)
  <2>1. planned' \subseteq Node
    BY <1>3 DEF Split, NewKids, Kids
  <2>2. contract' \in [Node -> SUBSET Node]
    <3>1. PICK new \in NewKids(n) :
            \E D \in [new -> SUBSET new] :
              contract' = [c \in Node |-> IF c \in new THEN D[c] ELSE contract[c]]
      BY <1>3 DEF Split
    <3>2. new \subseteq Node
      BY DEF NewKids, Kids
    <3> QED BY <3>1, <3>2
  <2> QED BY <1>3, <2>1, <2>2 DEF Split, Step, WPC
<1>4. CASE Materialise(n)
  BY <1>4 DEF Materialise, Unmade, Eldest, workerVars
<1>5. CASE Insert(n)
  BY <1>5 DEF Insert, workerVars, Status
<1>6. CASE SplitDone(n)
  <2>1. WorkerTypes'
    BY <1>0, <1>6, ReturnType DEF SplitDone
  <2> QED BY <1>6, <1>a, <2>1 DEF SplitDone, WorkerTypes, Status
<1>7. CASE Deliver(n)
  <2>1. tree' \subseteq Node /\ wt' \subseteq Node /\ owed' \subseteq Node
    BY <1>7 DEF Deliver, Edited
  <2> QED BY <1>7, <2>1 DEF Deliver, Step, WPC
<1>8. CASE MarkComplete(n)
  BY <1>8, <1>a DEF MarkComplete, Step, WPC, Status
<1>9. CASE Record(n)
  <2>1. Recorded(n) \subseteq Node \X Fp
    BY DEF Recorded
  <2> QED BY <1>9, <2>1 DEF Record, WPC
<1>10. CASE Hold(n)
  BY <1>10, <1>a DEF Hold, Held, Step, WPC, Status
<1>11. CASE Commit(n)
  <2>1. WorkerTypes'
    BY <1>0, <1>11, ReturnType DEF Commit
  <2>2. row' \in Rows
    BY <1>11, <1>a DEF Commit, Status
  <2>3. tree' \subseteq Node /\ wt' \subseteq Node /\ branch' \subseteq Node /\ owed' \subseteq Node
    BY <1>11 DEF Commit, CommitEdits
  <2> QED BY <1>11, <2>1, <2>2, <2>3 DEF Commit, WorkerTypes
<1>12. CASE Fail(n)
  <2>1. WorkerTypes'
    BY <1>0, <1>12, ReturnType DEF Fail
  <2> QED BY <1>12, <1>a, <2>1 DEF Fail, WorkerTypes, Status
<1>13. CASE Checkpoint(n)
  <2>1. WorkerTypes'
    BY <1>0, <1>13, ReturnType DEF Checkpoint
  <2>2. tree' \subseteq Node /\ wt' \subseteq Node /\ branch' \subseteq Node /\ owed' \subseteq Node
    BY <1>13 DEF Checkpoint, CommitEdits
  <2> QED BY <1>13, <1>a, <2>1, <2>2 DEF Checkpoint, WorkerTypes, Status
<1>14. CASE Reopen(n)
  <2>1. WorkerTypes'
    BY <1>0, <1>14, ReturnType DEF Reopen
  <2>2. row' \in Rows
    <3>1. \A S : SetStatus(row, S, PENDING) \in Rows
      BY <1>a DEF Status
    <3>2. \A S, T : SetStatus(SetStatus(row, S, PENDING), T, SPLIT) \in Rows
      BY <3>1, SetStatusType DEF Status
    <3> QED BY <1>14, <3>2 DEF Reopen
  <2> QED BY <1>14, <2>1, <2>2 DEF Reopen, WorkerTypes
<1>15. CASE Abandon(n)
  <2>1. WorkerTypes'
    BY <1>0, <1>15, ReturnType DEF Abandon
  <2> QED BY <1>15, <2>1 DEF Abandon, WorkerTypes
<1> QED BY <1>1, <1>2, <1>3, <1>4, <1>5, <1>6, <1>7, <1>8, <1>9, <1>10, <1>11,
           <1>12, <1>13, <1>14, <1>15 DEF Worker

\* Integration, and what happens around the run.
LEMMA OutsideType ==
  ASSUME TypeOK,
         \/ \E n \in Node : Integration(n) \/ UserRetry(n)
         \/ Crash \/ Interrupt \/ Observe \/ Read \/ Repair
  PROVE  TypeOK'
<1> USE DEF TypeOK, storeVars, gitVars, runVars, outsideVars, Rows
<1>0. WorkerTypes
  BY DEF WorkerTypes
<1>a. \A st \in Status : \A S : SetStatus(row, S, st) \in Rows
  BY SetStatusType
<1>1. ASSUME NEW n \in Node, Pick(n) PROVE TypeOK'
  BY <1>1 DEF Pick, Step, WPC
<1>2. ASSUME NEW n \in Node, Conclude(n) PROVE TypeOK'
  <2>1. WorkerTypes'
    BY <1>0, <1>2, ReleaseType DEF Conclude, Retire
  <2>2. row' \in Rows
    BY <1>2, <1>a DEF Conclude, Landed, Status
  <2> QED BY <1>2, <2>1, <2>2 DEF Conclude, Retire, WorkerTypes
<1>3. ASSUME NEW n \in Node, Conflict(n) PROVE TypeOK'
  <2>1. WorkerTypes'
    BY <1>0, <1>3, ReleaseType DEF Conflict, Retire
  <2> QED BY <1>3, <1>a, <2>1 DEF Conflict, Retire, WorkerTypes, Status
<1>4. ASSUME NEW n \in Node, UserRetry(n) PROVE TypeOK'
  BY <1>4, <1>a DEF UserRetry, workerVars, Status
<1>5. CASE Crash
  <2>1. interrupted' \in BOOLEAN
    BY <1>5, Zenon DEF Crash
  <2> QED BY <1>5, <2>1 DEF Crash, PC, WPC, Status
<1>6. CASE Interrupt
  BY <1>6 DEF Interrupt, workerVars
<1>7. CASE Observe
  BY <1>7 DEF Observe, workerVars
<1>8. CASE Read
  BY <1>8 DEF Read, workerVars
<1>9. CASE Repair
  BY <1>9, ReconciledType DEF Repair, workerVars
<1> QED BY <1>1, <1>2, <1>3, <1>4, <1>5, <1>6, <1>7, <1>8, <1>9 DEF Integration

\* Every variable keeps its type, for every tree, limit and set of failures.
THEOREM TypeCorrect == Spec => []TypeOK
<1>1. TypeOK /\ [Next]_vars => TypeOK'
  <2>1. CASE UNCHANGED vars
    BY <2>1 DEF TypeOK, vars, storeVars, gitVars, workerVars, runVars, outsideVars
  <2>2. CASE Next
    BY <2>2, LoopType, WorkerType, OutsideType DEF Next
  <2> QED BY <2>1, <2>2
<1> QED BY InitType, <1>1, PTL DEF Spec

-----------------------------------------------------------------------------
(* Accepted work is committed, as long as git and the process work. *)

\* No set_status but COMPLETE makes a node complete.
LEMMA NotCompleted ==
  ASSUME NEW r, NEW S, NEW st, st # COMPLETE, NEW m \in Node, SetStatus(r, S, st)[m] = COMPLETE
  PROVE  r[m] = COMPLETE /\ m \notin S
BY DEF SetStatus, COMPLETE, NoRow

\* COMPLETE only concerns the nodes it is meant for.
LEMMA OthersKeep ==
  ASSUME NEW r, NEW S, NEW st, NEW m \in Node, m \notin S
  PROVE  SetStatus(r, S, st)[m] = r[m]
BY DEF SetStatus

\* Neither does reconcile, however old what it has read is.
LEMMA RepairCompletesNone ==
  ASSUME NEW d, NEW r, NEW m \in Node, ReconciledRow(d, r)[m] = COMPLETE
  PROVE  row[m] = COMPLETE
BY DEF ReconciledRow, Topology, COMPLETE, SPLIT, PENDING, NoRow

\* Initially nothing is owed and nothing is complete.
LEMMA InitAccountable == Init => Accountable
BY
   DEF Init, Accountable, PhaseOK, OneAtATime, OpenWhileWorked, EditsInRoot,
       AcceptedIsCommitted, Active

\* Statuses that are not COMPLETE are different from it.
LEMMA Distinct ==
  /\ PENDING # COMPLETE /\ RUNNING # COMPLETE /\ SPLIT # COMPLETE
  /\ FAILED # COMPLETE /\ NoRow # COMPLETE
BY DEF PENDING, RUNNING, SPLIT, FAILED, COMPLETE, NoRow

\* The steps of a worker.
LEMMA WorkerAccountable ==
  ASSUME TypeOK, Accountable, GitFails = FALSE, NEW n \in Node, Worker(n)
  PROVE  Accountable'
<1> USE DEF Accountable, TypeOK, storeVars, gitVars, runVars, outsideVars, workerVars,
            Active
<1>0. \A r, S, st : \A m \in Node :
        /\ SetStatus(r, S, st)[m] = COMPLETE /\ st # COMPLETE => r[m] = COMPLETE /\ m \notin S
        /\ m \notin S => SetStatus(r, S, st)[m] = r[m]
  BY NotCompleted, OthersKeep
<1>1. CASE Begin(n)
  <2>1. PhaseOK'
    BY <1>1 DEF Begin, Step, Return, Release, PhaseOK
  <2>2. OneAtATime'
    BY <1>1 DEF Begin, Step, Return, Release, OneAtATime, Batch
  <2>3. OpenWhileWorked'
    BY <1>0, <1>1, Distinct DEF Begin, Step, Return, Release, OpenWhileWorked, PhaseOK
  <2>4. EditsInRoot'
    BY <1>1 DEF Begin, Step, Return, Release, EditsInRoot
  <2>5. AcceptedIsCommitted'
    BY <1>0, <1>1, Distinct DEF Begin, Step, Return, Release, AcceptedIsCommitted
  <2> QED BY <2>1, <2>2, <2>3, <2>4, <2>5
<1>2. CASE Edit(n)
  <2>1. pc = "parallel" \/ pc = "serial"
    BY <1>2 DEF Edit, PhaseOK, PC
  <2>2. PhaseOK' /\ OneAtATime' /\ OpenWhileWorked'
    BY <1>2 DEF Edit, PhaseOK, OneAtATime, OpenWhileWorked
  <2>3. EditsInRoot'
    BY <1>2, <2>1 DEF Edit, Edited, EditsInRoot
  <2>4. AcceptedIsCommitted'
    BY <1>2 DEF Edit, Edited, AcceptedIsCommitted
  <2> QED BY <2>2, <2>3, <2>4
<1>3. CASE Split(n)
  BY <1>3
     DEF Split, Step, PhaseOK, OneAtATime, OpenWhileWorked, EditsInRoot,
         AcceptedIsCommitted
<1>4. CASE Materialise(n)
  BY <1>4
     DEF Materialise, PhaseOK, OneAtATime, OpenWhileWorked, EditsInRoot,
         AcceptedIsCommitted
<1>5. CASE Insert(n)
  BY <1>5, Distinct
     DEF Insert, PhaseOK, OneAtATime, OpenWhileWorked, EditsInRoot,
         AcceptedIsCommitted
<1>6. CASE SplitDone(n)
  BY <1>0, <1>6, Distinct
     DEF SplitDone, Return, Release, PhaseOK, OneAtATime, OpenWhileWorked,
         EditsInRoot, AcceptedIsCommitted
<1>7. CASE Deliver(n)
  <2>1. pc = "parallel" \/ pc = "serial"
    BY <1>7 DEF Deliver, Step, PhaseOK, PC
  <2>2. PhaseOK' /\ OneAtATime' /\ OpenWhileWorked'
    BY <1>7 DEF Deliver, Step, PhaseOK, OneAtATime, OpenWhileWorked
  <2>3. EditsInRoot'
    BY <1>7, <2>1 DEF Deliver, Edited, Step, EditsInRoot
  <2>4. AcceptedIsCommitted'
    BY <1>7 DEF Deliver, Edited, Step, AcceptedIsCommitted
  <2> QED BY <2>2, <2>3, <2>4
<1>8. CASE MarkComplete(n)
  BY <1>0, <1>8
     DEF MarkComplete, Step, PhaseOK, OneAtATime, OpenWhileWorked, EditsInRoot,
         AcceptedIsCommitted
<1>9. CASE Record(n)
  BY <1>9 DEF Record, PhaseOK, OneAtATime, OpenWhileWorked, EditsInRoot, AcceptedIsCommitted
<1>10. CASE Hold(n)
  BY <1>0, <1>10, Distinct
     DEF Hold, Held, Step, PhaseOK, OneAtATime, OpenWhileWorked, EditsInRoot,
         AcceptedIsCommitted
<1>11. CASE Commit(n)
  BY <1>0, <1>11, Distinct
     DEF Commit, CommitEdits, Dirty, Return, Release, PhaseOK, OneAtATime,
         OpenWhileWorked, EditsInRoot, AcceptedIsCommitted
<1>12. CASE Fail(n)
  BY <1>0, <1>12, Distinct
     DEF Fail, Return, Release, PhaseOK, OneAtATime, OpenWhileWorked, EditsInRoot,
         AcceptedIsCommitted
<1>13. CASE Checkpoint(n)
  BY <1>0, <1>13, Distinct
     DEF Checkpoint, CommitEdits, Dirty, Return, Release, PhaseOK, OneAtATime,
         OpenWhileWorked, EditsInRoot, AcceptedIsCommitted
<1>14. CASE Reopen(n)
  BY <1>0, <1>14, Distinct
     DEF Reopen, Return, Release, PhaseOK, OneAtATime, OpenWhileWorked, EditsInRoot,
         AcceptedIsCommitted
<1>15. CASE Abandon(n)
  BY <1>15
     DEF Abandon, Return, Release, PhaseOK, OneAtATime, OpenWhileWorked, EditsInRoot,
         AcceptedIsCommitted
<1> QED BY <1>1, <1>2, <1>3, <1>4, <1>5, <1>6, <1>7, <1>8, <1>9, <1>10, <1>11,
           <1>12, <1>13, <1>14, <1>15 DEF Worker

\* The passes of the run loop.
LEMMA LoopAccountable ==
  ASSUME TypeOK, Accountable, Start \/ Loop
  PROVE  Accountable'
<1> USE DEF Accountable, TypeOK, storeVars, gitVars, runVars, outsideVars, workerVars,
            Active
<1>0. \A r, S, st : \A m \in Node :
        SetStatus(r, S, st)[m] = COMPLETE /\ st # COMPLETE => r[m] = COMPLETE
  BY NotCompleted
<1>1. CASE Start
  <2> QED BY <1>0, <1>1, RepairCompletesNone, Distinct
          DEF Start, PhaseOK, OneAtATime, OpenWhileWorked, EditsInRoot, AcceptedIsCommitted
<1>a. \A m \in Node : Drained[m] = COMPLETE => row[m] = COMPLETE
  BY <1>0, Distinct DEF Drained
<1>2. CASE Finish
  BY <1>a, <1>2
     DEF Finish, PhaseOK, OneAtATime, OpenWhileWorked, EditsInRoot,
         AcceptedIsCommitted
<1>3. CASE Wait
  BY <1>a, <1>3
     DEF Wait, PhaseOK, OneAtATime, OpenWhileWorked, EditsInRoot, AcceptedIsCommitted
<1>4. CASE Select
  BY <1>a, <1>4
     DEF Select, PhaseOK, OneAtATime, OpenWhileWorked, EditsInRoot,
         AcceptedIsCommitted
<1>5. CASE Join
  BY <1>5
     DEF Join, Batch, PhaseOK, OneAtATime, OpenWhileWorked, EditsInRoot,
         AcceptedIsCommitted
<1> QED BY <1>1, <1>2, <1>3, <1>4, <1>5 DEF Loop

\* Integration, and what happens around the run.
LEMMA OutsideAccountable ==
  ASSUME TypeOK, Accountable, Crashes = FALSE,
         \/ \E n \in Node : Integration(n) \/ UserRetry(n)
         \/ Crash \/ Interrupt \/ Observe \/ Read \/ Repair
  PROVE  Accountable'
<1> USE DEF Accountable, TypeOK, storeVars, gitVars, runVars, outsideVars, workerVars,
            Active
<1>0. \A r, S, st : \A m \in Node :
        /\ SetStatus(r, S, st)[m] = COMPLETE /\ st # COMPLETE => r[m] = COMPLETE /\ m \notin S
        /\ m \notin S => SetStatus(r, S, st)[m] = r[m]
  BY NotCompleted, OthersKeep
<1>1. ASSUME NEW n \in Node, Pick(n) PROVE Accountable'
  BY <1>1
     DEF Pick, Turn, Step, PhaseOK, OneAtATime, OpenWhileWorked, EditsInRoot,
         AcceptedIsCommitted
<1>2. ASSUME NEW n \in Node, Conclude(n) PROVE Accountable'
  BY <1>0, <1>2, Distinct
     DEF Conclude, Turn, Landed, Retire, Release, PhaseOK, OneAtATime, OpenWhileWorked,
         EditsInRoot, AcceptedIsCommitted
<1>3. ASSUME NEW n \in Node, Conflict(n) PROVE Accountable'
  BY <1>0, <1>3, Distinct
     DEF Conflict, Turn, Retire, Release, PhaseOK, OneAtATime, OpenWhileWorked, EditsInRoot,
         AcceptedIsCommitted
<1>4. ASSUME NEW n \in Node, UserRetry(n) PROVE Accountable'
  BY <1>0, <1>4, Distinct
     DEF UserRetry, PhaseOK, OneAtATime, OpenWhileWorked, EditsInRoot, AcceptedIsCommitted
<1>5. ~Crash
  BY DEF Crash
<1>6. CASE Interrupt
  BY <1>6
     DEF Interrupt, PhaseOK, OneAtATime, OpenWhileWorked, EditsInRoot,
         AcceptedIsCommitted
<1>7. CASE Observe \/ Read
  BY <1>7
     DEF Observe, Read, PhaseOK, OneAtATime, OpenWhileWorked, EditsInRoot,
         AcceptedIsCommitted
<1>8. CASE Repair
  BY <1>8, RepairCompletesNone
     DEF Repair, PhaseOK, OneAtATime, OpenWhileWorked, EditsInRoot, AcceptedIsCommitted
<1> QED BY <1>1, <1>2, <1>3, <1>4, <1>5, <1>6, <1>7, <1>8 DEF Integration

\* When git accepts every commit and worktree and the process is not killed, the
\* edits of every complete node are in the shared history, whatever batches,
\* conflicts, failures, reopens, interrupts, retries and observers do.
THEOREM AcceptedCommitted ==
  ASSUME GitFails = FALSE, Crashes = FALSE
  PROVE  Spec => []AcceptedIsCommitted
<1>1. TypeOK /\ Accountable /\ [Next]_vars => Accountable'
  <2>1. CASE UNCHANGED vars
    BY <2>1 DEF Accountable, PhaseOK, OneAtATime, OpenWhileWorked, EditsInRoot,
                AcceptedIsCommitted, vars, storeVars, gitVars, workerVars, runVars, outsideVars
  <2>2. CASE Next
    BY <2>2, LoopAccountable, WorkerAccountable, OutsideAccountable DEF Next
  <2> QED BY <2>1, <2>2
<1>2. Accountable => AcceptedIsCommitted
  BY DEF Accountable
<1> QED BY InitAccountable, TypeCorrect, <1>1, <1>2, PTL DEF Spec

-----------------------------------------------------------------------------
(* No worktree or node branch outlives its batch. *)

Placed == PhaseOK /\ Sheltered

\* The steps of a worker touch only its own worktree and branch.
LEMMA WorkerPlaced ==
  ASSUME TypeOK, Placed, NEW n \in Node, Worker(n)
  PROVE  Placed'
<1> USE DEF Placed, TypeOK, PhaseOK, Sheltered, NoLeakedWorktree, Batch, Active,
            storeVars, gitVars, runVars, outsideVars, workerVars
<1>1. CASE Begin(n)
  BY <1>1 DEF Begin, Step, Return, Release
<1>2. CASE Edit(n)
  BY <1>2 DEF Edit, Edited
<1>3. CASE Split(n)
  BY <1>3 DEF Split, Step
<1>4. CASE Materialise(n)
  BY <1>4 DEF Materialise
<1>5. CASE Insert(n)
  BY <1>5 DEF Insert
<1>6. CASE SplitDone(n)
  BY <1>6 DEF SplitDone, Return, Release
<1>7. CASE Deliver(n)
  BY <1>7 DEF Deliver, Edited, Step
<1>8. CASE MarkComplete(n)
  BY <1>8 DEF MarkComplete, Step
<1>9. CASE Record(n)
  BY <1>9 DEF Record
<1>10. CASE Hold(n)
  BY <1>10 DEF Hold, Step
<1>11. CASE Commit(n)
  BY <1>11 DEF Commit, CommitEdits, Return, Release
<1>12. CASE Fail(n)
  BY <1>12 DEF Fail, Return, Release
<1>13. CASE Checkpoint(n)
  BY <1>13 DEF Checkpoint, CommitEdits, Return, Release
<1>14. CASE Reopen(n)
  BY <1>14 DEF Reopen, Return, Release
<1>15. CASE Abandon(n)
  BY <1>15 DEF Abandon, Return, Release
<1> QED BY <1>1, <1>2, <1>3, <1>4, <1>5, <1>6, <1>7, <1>8, <1>9, <1>10, <1>11,
           <1>12, <1>13, <1>14, <1>15 DEF Worker

\* The loop, integration and what happens around the run.
LEMMA OthersPlaced ==
  ASSUME TypeOK, Placed,
         \/ Start \/ Loop
         \/ \E n \in Node : Integration(n) \/ UserRetry(n)
         \/ Crash \/ Interrupt \/ Observe \/ Read \/ Repair
  PROVE  Placed'
<1> USE DEF Placed, TypeOK, PhaseOK, Sheltered, NoLeakedWorktree, Batch, Active,
            storeVars, gitVars, runVars, outsideVars, workerVars
<1>1. CASE Start
  BY <1>1 DEF Start
<1>2. CASE Finish \/ Wait
  BY <1>2 DEF Finish, Wait
<1>3. CASE Select
  BY <1>3 DEF Select
<1>4. CASE Join
  BY <1>4 DEF Join
<1>5. ASSUME NEW n \in Node, Integration(n) PROVE Placed'
  BY <1>5 DEF Integration, Pick, Conclude, Conflict, Turn, Step, Retire, Release
<1>6. ASSUME NEW n \in Node, UserRetry(n) PROVE Placed'
  BY <1>6 DEF UserRetry
<1>7. CASE Crash
  BY <1>7 DEF Crash
<1>8. CASE Interrupt \/ Observe \/ Read \/ Repair
  BY <1>8 DEF Interrupt, Observe, Read, Repair
<1> QED BY <1>1, <1>2, <1>3, <1>4, <1>5, <1>6, <1>7, <1>8 DEF Loop

\* Between batches, in a serial batch and after a run there is no worktree and no
\* branch of a node, however the nodes of a batch ended and whatever git refused;
\* a crash leaves some, and the next run starts without them.
THEOREM WorktreesRemoved == Spec => []NoLeakedWorktree
<1>1. Init => Placed
  BY DEF Init, Placed, PhaseOK, Sheltered, NoLeakedWorktree, Active
<1>2. TypeOK /\ Placed /\ [Next]_vars => Placed'
  <2>1. CASE UNCHANGED vars
    BY <2>1 DEF Placed, PhaseOK, Sheltered, NoLeakedWorktree, Batch, vars, gitVars, workerVars,
                runVars
  <2>2. CASE Next
    BY <2>2, WorkerPlaced, OthersPlaced DEF Next
  <2> QED BY <2>1, <2>2
<1>3. Placed => NoLeakedWorktree
  BY DEF Placed, Sheltered
<1> QED BY <1>1, <1>2, <1>3, TypeCorrect, PTL DEF Spec

-----------------------------------------------------------------------------
(* No row is left running. *)

Manned == PhaseOK /\ Occupied

\* A set_status to another status leaves no node of the set running, and no step of
\* that kind makes another node running.
LEMMA NotRunning ==
  /\ PENDING # RUNNING /\ SPLIT # RUNNING /\ COMPLETE # RUNNING /\ FAILED # RUNNING
  /\ \A r, S, st : \A m \in Node :
       SetStatus(r, S, st)[m] = RUNNING /\ st # RUNNING => r[m] = RUNNING /\ m \notin S
  /\ \A r, S, st : \A m \in Node : m \notin S => SetStatus(r, S, st)[m] = r[m]
  /\ \A d, r : \A m \in Node : ReconciledRow(d, r)[m] = RUNNING => row[m] = RUNNING
BY DEF PENDING, RUNNING, SPLIT, COMPLETE, FAILED, NoRow, SetStatus, ReconciledRow, Topology

\* The steps of a worker leave it at its running row.
LEMMA WorkerManned ==
  ASSUME TypeOK, Manned, NEW n \in Node, Worker(n)
  PROVE  Manned'
<1> USE DEF Manned, TypeOK, PhaseOK, Occupied, Active, storeVars, gitVars, runVars,
            outsideVars, workerVars
<1>1. CASE Begin(n)
  BY <1>1, NotRunning DEF Begin, Step, Return, Release
<1>2. CASE Edit(n)
  BY <1>2 DEF Edit, Edited
<1>3. CASE Split(n)
  BY <1>3 DEF Split, Step
<1>4. CASE Materialise(n)
  BY <1>4 DEF Materialise
<1>5. CASE Insert(n)
  BY <1>5, NotRunning DEF Insert
<1>6. CASE SplitDone(n)
  BY <1>6, NotRunning DEF SplitDone, Return, Release
<1>7. CASE Deliver(n)
  BY <1>7 DEF Deliver, Edited, Step
<1>8. CASE MarkComplete(n)
  BY <1>8, NotRunning DEF MarkComplete, Step
<1>9. CASE Record(n)
  BY <1>9 DEF Record
<1>10. CASE Hold(n)
  BY <1>10, NotRunning DEF Hold, Held, Step
<1>11. CASE Commit(n)
  BY <1>11, NotRunning DEF Commit, CommitEdits, Return, Release
<1>12. CASE Fail(n)
  BY <1>12, NotRunning DEF Fail, Return, Release
<1>13. CASE Checkpoint(n)
  BY <1>13, NotRunning DEF Checkpoint, CommitEdits, Return, Release
<1>14. CASE Reopen(n)
  BY <1>14, NotRunning DEF Reopen, Return, Release
<1>15. CASE Abandon(n)
  BY <1>15 DEF Abandon, Return, Release
<1> QED BY <1>1, <1>2, <1>3, <1>4, <1>5, <1>6, <1>7, <1>8, <1>9, <1>10, <1>11,
           <1>12, <1>13, <1>14, <1>15 DEF Worker

\* The loop, integration and what happens around the run.
LEMMA OthersManned ==
  ASSUME TypeOK, Manned,
         \/ Start \/ Loop
         \/ \E n \in Node : Integration(n) \/ UserRetry(n)
         \/ Crash \/ Interrupt \/ Observe \/ Read \/ Repair
  PROVE  Manned'
<1> USE DEF Manned, TypeOK, PhaseOK, Occupied, Active, storeVars, gitVars, runVars,
            outsideVars, workerVars
<1>1. CASE Start
  <2>1. \A m \in Node : row'[m] # RUNNING
    <3>1. \A m \in Node : m \notin disk => ReconciledRow(disk, row)[m] # RUNNING
      BY DEF ReconciledRow, Deleted, Adopted, Repaired, RUNNING, NoRow
    <3> QED BY <1>1, <3>1, NotRunning DEF Start
  <2> QED BY <1>1, <2>1 DEF Start
<1>a. \A m \in Node : Drained[m] = RUNNING => row[m] = RUNNING
  BY NotRunning DEF Drained
<1>2. CASE Finish \/ Wait
  BY <1>2, <1>a DEF Finish, Wait
<1>3. CASE Select
  BY <1>3, <1>a DEF Select
<1>4. CASE Join
  BY <1>4 DEF Join, Batch
<1>5. ASSUME NEW n \in Node, Pick(n) PROVE Manned'
  BY <1>5 DEF Pick, Turn, Step
<1>6. ASSUME NEW n \in Node, Conclude(n) PROVE Manned'
  BY <1>6, NotRunning DEF Conclude, Turn, Landed, Retire, Release
<1>7. ASSUME NEW n \in Node, Conflict(n) PROVE Manned'
  BY <1>7, NotRunning DEF Conflict, Turn, Retire, Release
<1>8. ASSUME NEW n \in Node, UserRetry(n) PROVE Manned'
  BY <1>8, NotRunning DEF UserRetry
<1>9. CASE Crash
  BY <1>9 DEF Crash
<1>10. CASE Interrupt \/ Observe \/ Read
  BY <1>10 DEF Interrupt, Observe, Read
<1>11. CASE Repair
  BY <1>11, NotRunning DEF Repair
<1> QED BY <1>1, <1>2, <1>3, <1>4, <1>5, <1>6, <1>7, <1>8, <1>9, <1>10, <1>11
        DEF Loop, Integration

\* Unless the run was interrupted, no row says running between batches or after
\* the run, whatever failed, was reopened, retried or reconciled meanwhile.
THEOREM NoZombies == Spec => []NoZombieRunning
<1>1. Init => Manned
  BY DEF Init, Manned, PhaseOK, Occupied
<1>2. TypeOK /\ Manned /\ [Next]_vars => Manned'
  <2>1. CASE UNCHANGED vars
    BY <2>1 DEF Manned, PhaseOK, Occupied, vars, storeVars, gitVars, workerVars, runVars
  <2>2. CASE Next
    BY <2>2, WorkerManned, OthersManned DEF Next
  <2> QED BY <2>1, <2>2
<1>3. TypeOK /\ Manned => NoZombieRunning
  BY DEF TypeOK, Manned, PhaseOK, Occupied, NoZombieRunning, Active
<1> QED BY <1>1, <1>2, <1>3, TypeCorrect, PTL DEF Spec

=============================================================================
