----------------------------- MODULE Escalation -----------------------------
(***************************************************************************)
(* Upward escalation.  A worker whose agent finds an inherited assumption  *)
(* false suspends its branch, reopens the ancestor that owns the           *)
(* assumption, and acts on its ruling: go on, wait for a sibling, or       *)
(* replan the branch, which deletes it.  The other workers of the batch go *)
(* on meanwhile, and may escalate too.                                     *)
(*                                                                         *)
(* Of the run loop this module keeps selection, batches, attempts and the  *)
(* status column; git, deliverables, steering and torn splits are in       *)
(* Scheduler.  Subtasks are proposed without dependencies here: the ones   *)
(* there are come from rulings.  Nobody presses Ctrl-C: an attempt that    *)
(* starts after it returns at once and leaves its row running until the    *)
(* next run, which Scheduler has.                                          *)
(*                                                                         *)
(* An operator named ...Faulty is a deliberate mistake: put in place of    *)
(* the definition it precedes, it makes a property of a run fail.          *)
(***************************************************************************)
EXTENDS TaskTree

CONSTANTS
  MaxParallel,   \* FRACTAL_PARALLEL
  MaxSteps,      \* FRACTAL_MAX_STEPS, of each run
  MaxAttempts,   \* FRACTAL_MAX_ATTEMPTS, the attempts of one worker
  Crashes,       \* the process may be killed (not in the last run)
  MaxRuns        \* bound: processes started

ASSUME EscalationAssumption ==
  /\ {MaxParallel, MaxAttempts} \subseteq Nat \ {0}
  /\ MaxRuns \in Nat /\ MaxSteps \in [1 .. MaxRuns -> Nat] /\ Crashes \in BOOLEAN

VARIABLES
  disk, row, deps,   \* the directories; the status and depends_on columns
  pc, steps,         \* the run loop
  wpc,               \* the worker of each node of the batch
  aggregating,       \* its node has split before
  attempt,           \* the attempts it has used up
  owner,             \* the ancestor that settles its escalation
  cursor,            \* where it is on the way to the owner
  doomed,            \* the children its replan still has to delete
  leftover,          \* nodes of which a row, a directory or a worker has outlived
                     \* their deletion
  replanned,         \* nodes of which a ruling has deleted children
  cutOff,            \* nodes that were suspended when the process was killed
  runs               \* bound: processes started

storeVars  == <<disk, row, deps>>
askVars    == <<owner, cursor, doomed>>
workerVars == <<wpc, aggregating, attempt, askVars>>
history    == <<leftover, replanned, cutOff>>
vars == <<storeVars, pc, steps, workerVars, history, runs>>

\* The stages of an escalation, from the first suspended row to the last write.
Settling == {"suspending", "asking", "depending", "reasking", "resuming",
             "pausing", "pruning", "refusing"}
WPC == {"idle", "queued", "running", "held", "done"} \cup Settling

\* The type of the state.
TypeOK ==
  /\ disk \subseteq Node
  /\ row \in [Node -> Status \cup {NoRow}] /\ deps \in [Node -> SUBSET Node]
  /\ pc \in {"down", "select", "serial", "parallel", "integrate", "done"}
  /\ steps \in Nat /\ runs \in Nat
  /\ wpc \in [Node -> WPC] /\ aggregating \in [Node -> BOOLEAN]
  /\ attempt \in [Node -> 0 .. MaxAttempts]
  /\ owner \in [Node -> Node] /\ cursor \in [Node -> Node]
  /\ doomed \in [Node -> SUBSET Node] /\ leftover \cup replanned \cup cutOff \subseteq Node

-----------------------------------------------------------------------------
\* set_status: an UPDATE, so a node without a row keeps none.
SetStatus(n, status) == IF row[n] = NoRow THEN row ELSE [row EXCEPT ![n] = status]

Ancestors(n) == {m \in Node : IsBelow(n, m)}

\* Writing into a node's directory creates it, and those above it, again.
Touched(n) == disk \cup {n} \cup Ancestors(n)

Batch == {n \in Node : wpc[n] # "idle"}

\* The workers that go on with their node: not the ones that are through with it,
\* or delete it.
Busy == {n \in Batch : wpc[n] \notin {"held", "done", "pruning"}}

IdleWorkers ==
  /\ wpc' = [n \in Node |-> "idle"]
  /\ aggregating' = [n \in Node |-> FALSE]
  /\ attempt' = [n \in Node |-> 0]
  /\ owner' = [n \in Node |-> Root] /\ cursor' = [n \in Node |-> Root]
  /\ doomed' = [n \in Node |-> {}]

\* run_one_node returns; a completed node of a parallel batch is held back.
Return(n, stage) ==
  /\ wpc' = [wpc EXCEPT ![n] = IF pc = "serial" THEN "idle" ELSE stage]
  /\ aggregating' = [aggregating EXCEPT ![n] = FALSE]
  /\ attempt' = [attempt EXCEPT ![n] = 0]
  /\ owner' = [owner EXCEPT ![n] = Root] /\ cursor' = [cursor EXCEPT ![n] = Root]
  /\ doomed' = [doomed EXCEPT ![n] = {}]

Move(n, from, to) == wpc[n] = from /\ wpc' = [wpc EXCEPT ![n] = to]

-----------------------------------------------------------------------------
Init ==
  /\ disk = {Root}
  /\ row = [n \in Node |-> IF n = Root THEN PENDING ELSE NoRow]
  /\ deps = [n \in Node |-> {}]
  /\ pc = "down" /\ steps = 0 /\ runs = 0
  /\ wpc = [n \in Node |-> "idle"] /\ aggregating = [n \in Node |-> FALSE]
  /\ attempt = [n \in Node |-> 0]
  /\ owner = [n \in Node |-> Root] /\ cursor = [n \in Node |-> Root]
  /\ doomed = [n \in Node |-> {}] /\ leftover = {} /\ replanned = {} /\ cutOff = {}

\* reconcile: the directories decide which nodes there are and whether a pending
\* or running one has split.  A suspended row stands.
Reconciled ==
  [n \in Node |->
     IF n \notin disk THEN NoRow
     ELSE IF row[n] \notin {NoRow, RUNNING, PENDING} THEN row[n]
     ELSE IF Kids(n) \cap disk # {} THEN SPLIT ELSE PENDING]

Start ==
  /\ pc \in {"down", "done"} /\ runs < MaxRuns
  /\ row' = Reconciled
  /\ deps' = [n \in Node |-> IF n \in disk /\ row[n] # NoRow THEN deps[n] ELSE {}]
  /\ pc' = "select" /\ steps' = 0 /\ runs' = runs + 1
  /\ leftover' = (leftover \cap disk) \cup {n \in disk : row[n] = NoRow}
  /\ replanned' = replanned \cap disk
  /\ UNCHANGED <<disk, workerVars, cutOff>>

\* No deliverable changes after its acceptance here: nothing is stale.
Ready == NextNodes(disk, row, deps, {})

\* The batch goes to worktrees if it is independent, else one by one.
Select ==
  /\ pc = "select" /\ steps < MaxSteps[runs] /\ Ready # {}
  /\ LET aggregators == \A n \in Ready : Seen(row, n) = SPLIT
         batch == FirstOf(Ready, MaxParallel, aggregators)
     IN  /\ wpc' = [n \in Node |-> IF n \in batch THEN "queued" ELSE "idle"]
         /\ aggregating' = [n \in Node |-> n \in batch /\ aggregators]
         /\ steps' = steps + Cardinality(batch)
         /\ pc' = IF Cardinality(batch) > 1 /\ Independent(batch, deps)
                    THEN "parallel" ELSE "serial"
  /\ UNCHANGED <<storeVars, attempt, askVars, history, runs>>

\* A headless run ends at the step limit or when nothing can run.
Finish ==
  /\ pc = "select" /\ (steps >= MaxSteps[runs] \/ Ready = {})
  /\ pc' = "done"
  /\ UNCHANGED <<storeVars, steps, workerVars, history, runs>>

Join ==
  /\ \/ /\ pc = "parallel" /\ \A n \in Batch : wpc[n] \in {"held", "done"}
        /\ pc' = "integrate"
     \/ pc \in {"serial", "integrate"} /\ Batch = {} /\ pc' = "select"
  /\ UNCHANGED <<storeVars, steps, workerVars, history, runs>>

\* A held node is complete once its commit is picked, and fails on a conflict.
Integrate(n) ==
  /\ pc = "integrate" /\ wpc[n] \in {"held", "done"}
  /\ \/ wpc[n] = "held" /\ \E s \in {COMPLETE, FAILED} : row' = SetStatus(n, s)
     \/ wpc[n] = "done" /\ UNCHANGED row
  /\ wpc' = [wpc EXCEPT ![n] = "idle"]
  /\ UNCHANGED <<disk, deps, pc, steps, aggregating, attempt, askVars, history, runs>>

-----------------------------------------------------------------------------
(* The worker of node n. *)

Begin(n) ==
  /\ Move(n, "queued", "running")
  /\ \/ pc = "parallel"
     \/ /\ pc = "serial"
        /\ \A m \in Batch \ {n} : wpc[m] = "queued" /\ ~RunsBefore(m, n, aggregating[m])
  /\ aggregating' = [aggregating EXCEPT ![n] = @ \/ Kids(n) \cap disk # {}]
  /\ row' = SetStatus(n, RUNNING)
  /\ UNCHANGED <<disk, deps, pc, steps, attempt, askVars, history, runs>>

\* Faulty: the attempts are not counted.
AnsweredFaulty(n) == wpc[n] = "running"

\* The agent answers within the attempts it has (and nobody has pressed Ctrl-C).
Answered(n) == wpc[n] = "running" /\ attempt[n] < MaxAttempts

\* What is left of a deleted node of that name: the directory, which a late worker
\* has created again, or a worker at it or below it.
Haunted(c) == \E m \in disk \cup Busy : m = c \/ IsBelow(m, c)

\* SPLIT accepted: the k children take the numbers after the existing ones; a row
\* that is still there is kept.
Split(n) ==
  /\ Answered(n) /\ ~aggregating[n] /\ Depth(n) < MaxDepth
  /\ \E k \in 1 .. 2 :
       LET had == Cardinality(Kids(n) \cap disk)
           new == {Append(n, i) : i \in had + 1 .. had + k}
           added == {c \in new : row[c] = NoRow}
       IN  /\ new \subseteq Node
           /\ disk' = Touched(n) \cup new
           /\ row' = [m \in Node |-> IF m \in added THEN PENDING ELSE SetStatus(n, SPLIT)[m]]
           /\ deps' = [m \in Node |-> IF m \in added THEN {} ELSE deps[m]]
           /\ leftover' = leftover \cup {c \in added : Haunted(c)}
  /\ Return(n, "done")
  /\ UNCHANGED <<pc, steps, replanned, cutOff, runs>>

\* COMPLETE accepted: the artifacts are written, and the row is complete, or, in a
\* parallel batch, running again until the commit is integrated.
Complete(n) ==
  /\ Answered(n)
  /\ disk' = Touched(n)
  /\ row' = SetStatus(n, IF pc = "serial" THEN COMPLETE ELSE RUNNING)
  /\ Return(n, "held")
  /\ UNCHANGED <<deps, pc, steps, history, runs>>

\* The attempts are used up, or a verdict is terminal; errors are logged.
Fail(n) ==
  /\ wpc[n] = "running"
  /\ disk' \in {disk, Touched(n)}
  /\ row' = SetStatus(n, FAILED)
  /\ Return(n, "done")
  /\ UNCHANGED <<deps, pc, steps, history, runs>>

\* ESCALATE: it is logged, and the owner is the nearest ancestor whose contract
\* lists the assumption, or the parent if none does.  The root has no owner.
Escalate(n) ==
  /\ Answered(n)
  /\ disk' = Touched(n)
  /\ \/ /\ n # Root
        /\ \E m \in Ancestors(n) : owner' = [owner EXCEPT ![n] = m]
        /\ cursor' = [cursor EXCEPT ![n] = n]
        /\ Move(n, "running", "suspending")
        /\ UNCHANGED <<row, aggregating, attempt, doomed>>
     \/ n = Root /\ row' = SetStatus(n, FAILED) /\ Return(n, "done")
  /\ UNCHANGED <<deps, pc, steps, history, runs>>

\* The walk towards the owner ends at the owner, or where a directory is missing.
Arrived(n) == cursor[n] = owner[n] \/ (cursor[n] # n /\ cursor[n] \notin disk)

\* One step of it: a set_status, then the parent.
Climb(n, status) ==
  /\ ~Arrived(n)
  /\ row' = SetStatus(cursor[n], status)
  /\ cursor' = [cursor EXCEPT ![n] = Parent(cursor[n])]
  /\ UNCHANGED <<disk, deps, pc, steps, wpc, aggregating, attempt, owner, doomed,
                 history, runs>>

\* suspend_branch: the node and its ancestors below the owner.
Suspend(n) == wpc[n] = "suspending" /\ Climb(n, SUSPENDED)

\* The owner is marked running and asked.  In a parallel batch it waits for
\* the shared-tree lock first, which only orders the owners' edits.
Ask(n) ==
  /\ Move(n, "suspending", "asking") /\ Arrived(n)
  /\ row' = SetStatus(owner[n], RUNNING)
  /\ UNCHANGED <<disk, deps, pc, steps, aggregating, attempt, askVars, history, runs>>

\* Faulty: the owner is not marked split again.
RuledFaulty(n) == row

Ruled(n) == SetStatus(owner[n], SPLIT)

\* The owner has ruled and is split again: amend or overrule (resuming),
\* depends_on, replan, or something unusable.
Rule(n) ==
  /\ \E stage \in {"resuming", "depending", "reasking", "refusing"} :
       Move(n, "asking", stage)
  /\ row' = Ruled(n)
  /\ cursor' = [cursor EXCEPT ![n] = Parent(n)]
  /\ UNCHANGED <<disk, deps, pc, steps, aggregating, attempt, owner, doomed, history, runs>>

\* An unusable ruling, an error or a timeout of the owner fails the node.
Refuse(n) ==
  /\ wpc[n] = "refusing"
  /\ row' = SetStatus(n, FAILED)
  /\ Return(n, "done")
  /\ UNCHANGED <<disk, deps, pc, steps, history, runs>>

\* add_depends_on, if the ruling names a child of the owner.
Depend(n) ==
  /\ Move(n, "depending", "pausing")
  /\ \/ UNCHANGED deps
     \/ /\ row[n] # NoRow
        /\ \E d \in Kids(owner[n]) \cap disk : deps' = [deps EXCEPT ![n] = @ \cup {d}]
  /\ UNCHANGED <<disk, row, pc, steps, aggregating, attempt, askVars, history, runs>>

\* Faulty: the suspended ancestors are not resumed.
ResumedFaulty == SUSPENDED

Resumed == SPLIT

\* resume_ancestors: the ancestors below the owner are split again.
Resume(n) == wpc[n] \in {"resuming", "pausing"} /\ Climb(n, Resumed)

\* Faulty: a ruling gives the attempt back.
UsedUpFaulty(n) == attempt[n]

UsedUp(n) == attempt[n] + 1

\* Then the node goes on with its next attempt,
Proceed(n) ==
  /\ Move(n, "resuming", "running") /\ Arrived(n)
  /\ row' = SetStatus(n, RUNNING)
  /\ attempt' = [attempt EXCEPT ![n] = UsedUp(n)]
  /\ UNCHANGED <<disk, deps, pc, steps, aggregating, askVars, history, runs>>

\* or is pending until its dependencies are accepted.
Pause(n) ==
  /\ wpc[n] = "pausing" /\ Arrived(n)
  /\ row' = SetStatus(n, PENDING)
  /\ Return(n, "done")
  /\ UNCHANGED <<disk, deps, pc, steps, history, runs>>

\* The node whose children a replan of n deletes: the parent, else the owner.
Replanned(n) == IF Parent(n) \in disk THEN Parent(n) ELSE owner[n]

\* replan: the parent is asked too, and only if it agrees its children go.
Replan(n) ==
  /\ \/ Move(n, "reasking", "resuming") /\ UNCHANGED <<cursor, doomed>>
     \/ /\ Move(n, "reasking", "pruning")
        /\ cursor' = [cursor EXCEPT ![n] = Replanned(n)]
        /\ doomed' = [doomed EXCEPT ![n] = Kids(Replanned(n)) \cap disk]
  /\ UNCHANGED <<storeVars, pc, steps, aggregating, attempt, owner, history, runs>>

\* delete_node: the directory with everything in it, but one row.
Prune(n) ==
  /\ wpc[n] = "pruning"
  /\ \E c \in doomed[n] :
       /\ \A d \in doomed[n] : c[Len(c)] <= d[Len(d)]
       /\ disk' = {m \in disk : m # c /\ ~IsBelow(m, c)}
       /\ row' = [row EXCEPT ![c] = NoRow] /\ deps' = [deps EXCEPT ![c] = {}]
       /\ doomed' = [doomed EXCEPT ![n] = @ \ {c}]
       /\ leftover' = (leftover \ {c}) \cup {m \in Node : IsBelow(m, c) /\ row[m] # NoRow}
       /\ replanned' = {m \in replanned : m # c /\ ~IsBelow(m, c)} \cup {cursor[n]}
  /\ UNCHANGED <<pc, steps, wpc, aggregating, attempt, owner, cursor, cutOff, runs>>

\* Last, the parent is pending.  Nobody resumes suspended nodes above it.
Pruned(n) ==
  /\ wpc[n] = "pruning" /\ doomed[n] = {}
  /\ row' = SetStatus(cursor[n], PENDING)
  /\ replanned' = replanned \cup {cursor[n]}
  /\ Return(n, "done")
  /\ UNCHANGED <<disk, deps, pc, steps, leftover, cutOff, runs>>

Crash ==
  /\ Crashes /\ runs < MaxRuns /\ pc \notin {"down", "done"}
  /\ pc' = "down" /\ steps' = 0 /\ IdleWorkers
  /\ cutOff' = {n \in disk : row[n] = SUSPENDED}
  /\ UNCHANGED <<storeVars, leftover, replanned, runs>>

-----------------------------------------------------------------------------
Worker(n) ==
  \/ Begin(n) \/ Split(n) \/ Complete(n) \/ Fail(n)
  \/ Escalate(n) \/ Suspend(n) \/ Ask(n) \/ Rule(n)
  \/ Refuse(n) \/ Depend(n) \/ Resume(n) \/ Proceed(n) \/ Pause(n)
  \/ Replan(n) \/ Prune(n) \/ Pruned(n)

Loop == Select \/ Finish \/ Join

Next == Start \/ Loop \/ Crash \/ \E n \in Node : Worker(n) \/ Integrate(n)

Spec == Init /\ [][Next]_vars

\* Somebody who can move does: the threads run, and a call of an agent has a time
\* limit.  An attempt may be waiting for a gate or for the critic, which have none:
\* nothing makes it end.
FairSpec ==
  Spec /\ WF_vars(Loop \/ \E n \in Node : (Worker(n) /\ ~Answered(n)) \/ Integrate(n))

-----------------------------------------------------------------------------
Failed == {n \in disk : row[n] = FAILED}

\* Between batches a suspended node that is not excused is one of causes, or has one
\* below it.
SuspendedOnlyFor(causes, excused) ==
  pc \in {"select", "done"} =>
    \A n \in disk \ excused : row[n] = SUSPENDED =>
      \E m \in causes \cap disk : m = n \/ IsBelow(m, n)

\* Suspension is for the time an escalation is being settled, since nothing selects
\* a suspended node, reconcile does not repair it, and the root is never done.  Where
\* no node has failed, for the user to retry, and no ruling has deleted children,
\* each worker frees all it has suspended, beside others that suspend, too.  (Excused
\* are the names of deleted nodes: a row that outlives a replan may be suspended still
\* when a node of that name is created again, since the new row is not inserted; and
\* a worker that outlives it suspends the new node above its own, and has no row, or
\* none on disk, to mark failed.)
SuspendedHasCause == SuspendedOnlyFor(Failed \cup replanned, leftover \cup cutOff)

\* Replanning resumes the branch too: the replanned node plans again, and what is
\* above it aggregates.
ReplannedIsResumed == SuspendedOnlyFor(Failed, leftover \cup cutOff)

\* A killed run is resumed from disk: the branch of an escalation that nobody
\* settles any more is no longer suspended.
KilledIsResumed == SuspendedOnlyFor(Failed \cup replanned, leftover)

\* However escalations of one batch overlap, neither the escalated nodes nor their
\* owners are left running, unless the run was interrupted: each worker puts right
\* what it marked.
NoneWedged ==
  pc \in {"select", "done"} => \A n \in Node : row[n] # RUNNING

\* Every run ends, if nobody kills it and every attempt ends (all do, but for a gate or
\* a critic that never returns: NodeAttempts): rulings that send a node on use up its
\* attempts, and one that replans uses up steps.
RunsEnd ==
  \/ \E n \in Node : <>[]Answered(n)
  \/ pc = "select" ~> pc \in {"done", "down"}

=============================================================================
