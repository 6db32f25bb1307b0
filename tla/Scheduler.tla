----------------------------- MODULE Scheduler -----------------------------
(***************************************************************************)
(* The run loop of the harness over one project: the task tree (directory  *)
(* and index), the worker of every node of the current batch, the shared   *)
(* working tree, the node worktrees, and what happens around them: the     *)
(* user, an observer process, a crash and the next run.                    *)
(*                                                                         *)
(* One run selects a batch of nodes, runs one worker per node (one after   *)
(* the other on the shared tree, or at once in worktrees), integrates what *)
(* the workers committed, and selects again.                               *)
(*                                                                         *)
(* An operator named ...Faulty is a deliberate mistake: put in place of    *)
(* the definition it precedes, it makes a property of a run fail.          *)
(***************************************************************************)
EXTENDS TaskTree

CONSTANTS
  Fp,            \* the fingerprints a deliverable can have
  MaxParallel,   \* FRACTAL_PARALLEL
  MaxSteps,      \* FRACTAL_MAX_STEPS, the node runs one run may start
  Verbs,         \* the decisions the agents of the instance take
  Interactive,   \* a TTY is attached (the TUI thread runs)
  Gated,         \* the leaves whose contract names gates that resolve
  GitFails,      \* git may refuse a commit or a worktree
  Conflicts,     \* cherry-picks may conflict
  Crashes,       \* the process may be killed (not in the last run)
  Interrupts,    \* q or Ctrl-C may be pressed
  MaxRuns,       \* bound: processes started
  MaxRetries,    \* bound: retry commands of the user
  MaxObservers   \* bound: status, digest or butler processes started

ASSUME FpAssumption == Fp # {}
ASSUME LimitAssumption ==
  /\ MaxParallel \in Nat \ {0}
  /\ {MaxSteps, MaxRuns, MaxRetries, MaxObservers} \subseteq Nat
ASSUME SwitchAssumption ==
  /\ Verbs \subseteq {"split", "complete", "reopen", "fail"}
  /\ Gated \subseteq Node
  /\ {Interactive, GitFails, Conflicts, Crashes, Interrupts} \subseteq BOOLEAN

VARIABLES
  disk,         \* the node directories under tree/
  contract,     \* the siblings each subtask's contract names under depends_on
  fp,           \* disk: the fingerprint of each node's summary and artifacts
  row,          \* index: the status column (NoRow without a row)
  deps,         \* index: the depends_on column
  depFp,        \* index: the dep_fp column
  steer,        \* index: the nodes with a queued retry
  tree,         \* git: nodes with uncommitted edits in the shared tree
  wt,           \* git: nodes with uncommitted edits in their worktree
  branch,       \* git: nodes whose node branch holds a commit not integrated
  owed,         \* nodes whose latest run made edits no shared commit contains
  pc,           \* the run loop
  wpc,          \* the worker of each node of the batch
  snap,         \* the status each node of the batch had when it was selected
  hasKids,      \* has_children, read when the worker starts
  outcome,      \* the worker's sub-report: did it count a failure
  planned,      \* the subtasks of accepted splits that add_children still has to insert
  steps,        \* report.steps
  interrupted,  \* INTERRUPTED
  dirs, rows,   \* the directories and rows an observer has read (none: {})
  runs, retries, observers   \* what the bounds have left behind

storeVars  == <<disk, contract, fp, row, deps, depFp, steer>>
gitVars    == <<tree, wt, branch, owed>>
workerVars == <<wpc, snap, hasKids, outcome, planned>>
runVars    == <<pc, steps, interrupted>>
outsideVars == <<dirs, rows, runs, retries, observers>>
vars == <<storeVars, gitVars, workerVars, runVars, outsideVars>>

PC  == {"down", "select", "serial", "parallel", "integrate", "done"}
WPC == {"idle", "queued", "running", "splitting", "delivered",
        "complete", "recorded", "settled", "done", "picked"}

\* The type of the state.
TypeOK ==
  /\ disk \subseteq Node
  /\ planned \subseteq Node
  /\ contract \in [Node -> SUBSET Node]
  /\ deps \in [Node -> SUBSET Node]
  /\ fp \in [Node -> Fp]
  /\ depFp \in [Node -> SUBSET (Node \X Fp)]
  /\ row \in [Node -> Status \cup {NoRow}]
  /\ steer \subseteq Node
  /\ tree \subseteq Node /\ wt \subseteq Node
  /\ branch \subseteq Node /\ owed \subseteq Node
  /\ pc \in PC /\ steps \in Nat /\ interrupted \in BOOLEAN
  /\ wpc \in [Node -> WPC]
  /\ snap \in [Node -> Status]
  /\ hasKids \in [Node -> BOOLEAN]
  /\ outcome \in [Node -> {"ok", "failed"}]
  /\ dirs \subseteq Node /\ rows \in [Node -> Status \cup {NoRow}]
  /\ runs \in Nat /\ retries \in Nat /\ observers \in Nat

-----------------------------------------------------------------------------
(* Helpers on the store and on git. *)

\* set_status on each node of S: an UPDATE, so a node without a row keeps none.
SetStatus(r, S, status) ==
  [n \in Node |-> IF n \in S /\ r[n] # NoRow THEN status ELSE r[n]]

\* A node and everything below it on disk.
Subtree(n) == {m \in disk : m = n \/ IsBelow(m, n)}

(***************************************************************************)
(* reconcile lists the directories, reads the rows, then writes.  The      *)
(* directories are authoritative for the topology: a directory without a   *)
(* row is adopted with an empty depends_on (unless a row has appeared), a  *)
(* row that was read as running or pending becomes split if the node has   *)
(* children and pending if not, every other status stands, and a row       *)
(* without a directory is deleted.  d and r are what was listed and read;  *)
(* whether a node has children is asked of the disk while it writes.       *)
(***************************************************************************)
Topology(n) == IF Kids(n) \cap disk # {} THEN SPLIT ELSE PENDING

Adopted(d, r) == {n \in d : r[n] = NoRow /\ row[n] = NoRow}
Deleted(d, r) == {n \in Node \ d : r[n] # NoRow}

\* Faulty: the repair also forgets acceptances.
RepairedFaulty(d, r) == {n \in d : r[n] \notin {NoRow, Topology(n)}}

Repaired(d, r) == {n \in d : r[n] \in {RUNNING, PENDING} \ {Topology(n)}}

ReconciledRow(d, r) ==
  [n \in Node |-> IF n \in Deleted(d, r) THEN NoRow
                  ELSE IF n \in Adopted(d, r) \cup Repaired(d, r) THEN Topology(n)
                  ELSE row[n]]
ReconciledDeps(d, r) ==
  [n \in Node |-> IF n \in Deleted(d, r) \cup Adopted(d, r) THEN {} ELSE deps[n]]
ReconciledDepFp(d, r) ==
  [n \in Node |-> IF n \in Deleted(d, r) \cup Adopted(d, r) THEN {} ELSE depFp[n]]

\* has_uncommitted_changes in the worker's root: its worktree, or the shared
\* tree, where it also sees what others left behind.
Dirty(n) == IF pc = "parallel" THEN n \in wt ELSE tree # {}

Batch == {n \in Node : wpc[n] # "idle"}

\* The batch keeps the order in which next_nodes listed it.
Earlier(m, n) == RunsBefore(m, n, snap[m] = SPLIT)

Active == {"running", "splitting", "delivered", "complete", "recorded", "settled"}

Step(n, from, to) == wpc[n] = from /\ wpc' = [wpc EXCEPT ![n] = to]

\* The worker of n is gone, with all it remembered.
Release(n) ==
  /\ wpc' = [wpc EXCEPT ![n] = "idle"]
  /\ snap' = [snap EXCEPT ![n] = PENDING]
  /\ hasKids' = [hasKids EXCEPT ![n] = FALSE]
  /\ outcome' = [outcome EXCEPT ![n] = "ok"]
  /\ UNCHANGED planned

\* run_one_node returns its report: a worker of a parallel batch waits for
\* the join, in a serial batch the loop goes on to the next node.
Return(n, result) ==
  \/ pc = "serial" /\ Release(n)
  \/ /\ pc = "parallel"
     /\ wpc' = [wpc EXCEPT ![n] = "done"]
     /\ hasKids' = [hasKids EXCEPT ![n] = FALSE]
     /\ outcome' = [outcome EXCEPT ![n] = result]
     /\ UNCHANGED <<snap, planned>>

-----------------------------------------------------------------------------
Init ==
  /\ disk = {Root}
  /\ contract = [n \in Node |-> {}]
  /\ fp = [n \in Node |-> CHOOSE v \in Fp : TRUE]
  /\ row = [n \in Node |-> IF n = Root THEN PENDING ELSE NoRow]
  /\ deps = [n \in Node |-> {}]
  /\ depFp = [n \in Node |-> {}]
  /\ steer = {}
  /\ tree = {} /\ wt = {} /\ branch = {} /\ owed = {}
  /\ pc = "down" /\ steps = 0 /\ interrupted = FALSE
  /\ wpc = [n \in Node |-> "idle"]
  /\ snap = [n \in Node |-> PENDING]
  /\ hasKids = [n \in Node |-> FALSE]
  /\ outcome = [n \in Node |-> "ok"] /\ planned = {}
  /\ dirs = {} /\ rows = [n \in Node |-> NoRow]
  /\ runs = 0 /\ retries = 0 /\ observers = 0

-----------------------------------------------------------------------------
(* The run loop. *)

\* run: reconcile, drop every worktree and node branch, and turn what is
\* still running into pending (reconcile has left none).
Start ==
  /\ pc \in {"down", "done"} /\ runs < MaxRuns
  /\ LET now == ReconciledRow(disk, row)
     IN  row' = SetStatus(now, {n \in disk : now[n] = RUNNING}, PENDING)
  /\ deps' = ReconciledDeps(disk, row) /\ depFp' = ReconciledDepFp(disk, row)
  /\ wt' = {} /\ branch' = {}
  /\ pc' = "select" /\ steps' = 0 /\ interrupted' = FALSE
  /\ runs' = runs + 1
  /\ UNCHANGED <<disk, contract, fp, steer, tree, owed, workerVars,
                 dirs, rows, retries, observers>>

\* The statuses after the queued retries have been applied.
Drained == SetStatus(row, UNION {Subtree(n) : n \in steer \cap disk}, PENDING)

Ready(r) == NextNodes(disk, r, deps, StaleIds(disk, r, deps, fp, depFp))

Chosen(r) == FirstOf(Ready(r), MaxParallel, \A n \in Ready(r) : Seen(r, n) = SPLIT)

\* Faulty: it also waits without a terminal.
WaitsFaulty(r) == \E n \in disk : Seen(r, n) = FAILED

\* Nothing can run and a node has failed: with a terminal attached the loop
\* waits for a retry, without one it ends.
Waits(r) == Interactive /\ \E n \in disk : Seen(r, n) = FAILED

\* The pass that ends the run: at the step limit or when interrupted (before
\* the queue is read), or when nothing can run.
Finish ==
  /\ pc = "select"
  /\ \/ /\ steps >= MaxSteps \/ interrupted
        /\ UNCHANGED <<row, steer>>
     \/ /\ steps < MaxSteps /\ ~interrupted
        /\ Ready(Drained) = {} /\ ~Waits(Drained)
        /\ row' = Drained /\ steer' = {}
  /\ pc' = "done"
  /\ UNCHANGED <<disk, contract, fp, deps, depFp, gitVars, workerVars,
                 steps, interrupted, outsideVars>>

\* The pass that only drains the queue and sleeps.
Wait ==
  /\ pc = "select" /\ steps < MaxSteps /\ ~interrupted
  /\ Ready(Drained) = {} /\ Waits(Drained)
  /\ row' = Drained /\ steer' = {}
  /\ UNCHANGED <<disk, contract, fp, deps, depFp, gitVars, workerVars,
                 runVars, outsideVars>>

\* The pass that selects a batch: drain the queue, walk the tree, and hand the
\* first MaxParallel selected nodes to workers - each in a worktree if the
\* batch is independent and git provides them, else one by one.
Select ==
  /\ pc = "select" /\ steps < MaxSteps /\ ~interrupted
  /\ LET batch == Chosen(Drained)
         apart == Cardinality(batch) > 1 /\ Independent(batch, deps)
     IN  /\ Ready(Drained) # {}
         /\ wpc' = [n \in Node |-> IF n \in batch THEN "queued" ELSE "idle"]
         /\ snap' = [n \in Node |-> IF n \in batch THEN Seen(Drained, n) ELSE PENDING]
         /\ steps' = steps + Cardinality(batch)
         /\ \/ apart /\ pc' = "parallel"
            \/ (~apart \/ GitFails) /\ pc' = "serial"
  /\ row' = Drained /\ steer' = {}
  /\ UNCHANGED <<disk, contract, fp, deps, depFp, gitVars, hasKids, outcome, planned,
                 interrupted, outsideVars>>

\* The workers of the batch have been joined.
Join ==
  /\ \/ pc = "parallel" /\ (\A n \in Batch : wpc[n] = "done") /\ pc' = "integrate"
     \/ pc \in {"serial", "integrate"} /\ Batch = {} /\ pc' = "select"
  /\ UNCHANGED <<storeVars, gitVars, workerVars, steps, interrupted, outsideVars>>

-----------------------------------------------------------------------------
(* The worker of node n: run_one_node. *)

\* A serial batch runs its nodes in order; the workers of a parallel batch
\* start in any order.  The node's children are read once, here; an interrupted
\* run marks the node running and returns at once.
Begin(n) ==
  /\ wpc[n] = "queued"
  /\ \/ pc = "parallel"
     \/ pc = "serial" /\ \A m \in Batch \ {n} : wpc[m] = "queued" /\ ~Earlier(m, n)
  /\ row' = SetStatus(row, {n}, RUNNING)
  /\ \/ /\ ~interrupted
        /\ Step(n, "queued", "running")
        /\ hasKids' = [hasKids EXCEPT ![n] = Kids(n) \cap disk # {}]
        /\ UNCHANGED <<snap, outcome, planned>>
     \/ interrupted /\ Return(n, "ok")
  /\ owed' = owed \ {n}
  /\ UNCHANGED <<disk, contract, fp, deps, depFp, steer, tree, wt, branch,
                 runVars, outsideVars>>

Aggregating(n) == snap[n] = SPLIT \/ hasKids[n]

\* The edits of n in its worker's root.
Edited(n) ==
  /\ owed' = owed \cup {n}
  /\ IF pc = "parallel" THEN wt' = wt \cup {n} /\ UNCHANGED tree
                        ELSE tree' = tree \cup {n} /\ UNCHANGED wt

\* External: the agent of n edits the project before it decides.
Edit(n) ==
  /\ wpc[n] = "running" /\ n \notin owed
  /\ Edited(n)
  /\ UNCHANGED <<storeVars, branch, workerVars, runVars, outsideVars>>

\* A dependency relation a split may propose: reject_split_topology refuses
\* the cycles.
Acyclic(D) ==
  \A S \in SUBSET DOMAIN D : S # {} => \E c \in S : D[c] \cap S = {}

\* Faulty: the numbers of the children may have gaps.
NewKidsFaulty(n) == SUBSET (Kids(n) \ disk) \ {{}}

\* The k-th proposed child takes the k-th number after the existing children.
NewKids(n) ==
  {new \in SUBSET (Kids(n) \ disk) :
     /\ new # {}
     /\ \A c \in new : \A i \in 1 .. c[Len(c)] - 1 : Append(n, i) \in disk \cup new}

\* SPLIT: a node that has not split before, above the depth cap, proposes
\* subtasks whose dependencies reject_split_topology accepts.
Split(n) ==
  /\ "split" \in Verbs
  /\ Step(n, "running", "splitting")
  /\ ~Aggregating(n) /\ Depth(n) < MaxDepth
  /\ \E new \in NewKids(n) :
       /\ \E D \in [new -> SUBSET new] :
            /\ Acyclic(D)
            /\ contract' = [c \in Node |-> IF c \in new THEN D[c] ELSE contract[c]]
       /\ planned' = planned \cup new
  /\ UNCHANGED <<disk, fp, row, deps, depFp, steer, gitVars, snap, hasKids,
                 outcome, runVars, outsideVars>>

\* The first of a set of siblings, as a singleton.
Eldest(S) == {c \in S : \A d \in S : c[Len(c)] <= d[Len(d)]}

Unmade(n)   == (planned \cap Kids(n)) \ disk
Unlisted(n) == planned \cap Kids(n)

\* add_children, first half: one directory and contract after the other.
Materialise(n) ==
  /\ wpc[n] = "splitting" /\ Unmade(n) # {}
  /\ disk' = disk \cup Eldest(Unmade(n))
  /\ UNCHANGED <<contract, fp, row, deps, depFp, steer, gitVars, workerVars,
                 runVars, outsideVars>>

\* Second half: INSERT OR IGNORE one row after the other.
Insert(n) ==
  /\ wpc[n] = "splitting" /\ Unmade(n) = {} /\ Unlisted(n) # {}
  /\ \E c \in Eldest(Unlisted(n)) :
       /\ planned' = planned \ {c}
       /\ IF row[c] # NoRow THEN UNCHANGED <<row, deps>>
          ELSE /\ row' = [row EXCEPT ![c] = PENDING]
               /\ deps' = [deps EXCEPT ![c] = contract[c]]
  /\ UNCHANGED <<disk, contract, fp, depFp, steer, gitVars, wpc, snap, hasKids,
                 outcome, runVars, outsideVars>>

\* Last, the parent is split.
SplitDone(n) ==
  /\ wpc[n] = "splitting" /\ Unmade(n) = {} /\ Unlisted(n) = {}
  /\ row' = SetStatus(row, {n}, SPLIT)
  /\ Return(n, "ok")
  /\ UNCHANGED <<disk, contract, fp, deps, depFp, steer, gitVars,
                 runVars, outsideVars>>

\* COMPLETE, up to the critic's PASS and write_artifacts: a leaf must have
\* changed something, or have gates of its own that passed.  The declared
\* artifacts go to the archive the fingerprint covers, and to the worker's
\* root, where they may be a further edit.
Deliver(n) ==
  /\ "complete" \in Verbs
  /\ Step(n, "running", "delivered")
  /\ hasKids[n] \/ Dirty(n) \/ n \in Gated
  /\ \E v \in Fp : fp' = [fp EXCEPT ![n] = v]
  /\ Edited(n) \/ UNCHANGED <<tree, wt, owed>>
  /\ UNCHANGED <<disk, contract, row, deps, depFp, steer, branch, snap, hasKids,
                 outcome, planned, runVars, outsideVars>>

\* complete: the row becomes complete.
MarkComplete(n) ==
  /\ Step(n, "delivered", "complete")
  /\ row' = SetStatus(row, {n}, COMPLETE)
  /\ UNCHANGED <<disk, contract, fp, deps, depFp, steer, gitVars, snap, hasKids,
                 outcome, planned, runVars, outsideVars>>

\* record_dependencies: the fingerprints of n's dependencies at acceptance.
Recorded(n) == IF deps[n] = {} THEN depFp[n] ELSE {<<d, fp[d]>> : d \in deps[n]}

\* complete, the last statement.
Record(n) ==
  /\ wpc[n] = "complete"
  /\ wpc' = [wpc EXCEPT ![n] = IF pc = "parallel" THEN "recorded" ELSE "settled"]
  /\ depFp' = [depFp EXCEPT ![n] = Recorded(n)]
  /\ UNCHANGED <<disk, contract, fp, row, deps, steer, gitVars, snap, hasKids,
                 outcome, planned, runVars, outsideVars>>

\* Faulty: the node stays complete before its commit is integrated.
HeldFaulty(n) == row

\* In a parallel batch the node goes back to running until it is integrated.
Held(n) == SetStatus(row, {n}, RUNNING)

Hold(n) ==
  /\ Step(n, "recorded", "settled")
  /\ row' = Held(n)
  /\ UNCHANGED <<disk, contract, fp, deps, depFp, steer, gitVars, snap, hasKids,
                 outcome, planned, runVars, outsideVars>>

\* commit_node_work in the worker's root: git add -A stages every edit there.
CommitEdits(n) ==
  IF pc = "parallel"
    THEN /\ wt' = wt \ {n} /\ branch' = branch \cup {n}
         /\ UNCHANGED <<tree, owed>>
    ELSE /\ tree' = {} /\ owed' = owed \ tree
         /\ UNCHANGED <<wt, branch>>

\* One commit per verified node.  A parallel node with nothing to commit, or
\* whose commit was refused, is complete at once.
Commit(n) ==
  /\ wpc[n] = "settled"
  /\ \/ Dirty(n) /\ CommitEdits(n) /\ UNCHANGED row
     \/ /\ ~Dirty(n) \/ GitFails
        /\ row' = IF pc = "parallel" THEN SetStatus(row, {n}, COMPLETE) ELSE row
        /\ UNCHANGED gitVars
  /\ Return(n, "ok")
  /\ UNCHANGED <<disk, contract, fp, deps, depFp, steer, runVars, outsideVars>>

\* The attempts are used up (or the allowance is, or the verdict is terminal):
\* the node fails.  On the shared tree the loop then resets every uncommitted
\* edit; a worktree is discarded at integration.
Fail(n) ==
  /\ "fail" \in Verbs
  /\ wpc[n] = "running"
  /\ row' = SetStatus(row, {n}, FAILED)
  /\ tree' = IF pc = "parallel" THEN tree ELSE {}
  /\ Return(n, "failed")
  /\ UNCHANGED <<disk, contract, fp, deps, depFp, steer, wt, branch, owed, runVars,
                 outsideVars>>

\* The same for work only the critic (or an unexecutable gate) held back: it is
\* committed as an unverified checkpoint, and not reset.
Checkpoint(n) ==
  /\ "fail" \in Verbs
  /\ wpc[n] = "running" /\ Dirty(n)
  /\ CommitEdits(n)
  /\ row' = SetStatus(row, {n}, FAILED)
  /\ Return(n, "failed")
  /\ UNCHANGED <<disk, contract, fp, deps, depFp, steer, runVars, outsideVars>>

\* REOPEN: the named children and everything below them are pending again, the
\* node is split, and its edits stay where they are.
Reopen(n) ==
  /\ "reopen" \in Verbs
  /\ wpc[n] = "running" /\ hasKids[n]
  /\ \E named \in SUBSET (Kids(n) \cap disk) :
       /\ named # {}
       /\ row' = SetStatus(SetStatus(row, UNION {Subtree(c) : c \in named}, PENDING),
                           {n}, SPLIT)
  /\ Return(n, "ok")
  /\ UNCHANGED <<disk, contract, fp, deps, depFp, steer, gitVars, runVars,
                 outsideVars>>

\* An attempt that starts after the interrupt returns at once; the node stays
\* running and no failure is counted.
Abandon(n) ==
  /\ interrupted /\ wpc[n] = "running"
  /\ Return(n, "ok")
  /\ UNCHANGED <<storeVars, gitVars, runVars, outsideVars>>

-----------------------------------------------------------------------------
(* Integration of a parallel batch, in batch order under SHARED_TREE_LOCK. *)

Turn(n) ==
  /\ pc = "integrate"
  /\ \A m \in Batch \ {n} : ~Earlier(m, n)

\* integrate_commit cherry-picks the node's commit onto the shared tree.
Pick(n) ==
  /\ Turn(n) /\ n \in branch
  /\ Step(n, "done", "picked")
  /\ owed' = owed \ {n} /\ branch' = branch \ {n}
  /\ UNCHANGED <<storeVars, tree, wt, snap, hasKids, outcome, planned, runVars,
                 outsideVars>>

\* Faulty: its worktree stays.
RetireFaulty(n) == Release(n) /\ UNCHANGED wt

\* The worktree of n is removed and the loop is done with n.
Retire(n) == Release(n) /\ wt' = wt \ {n}

\* Faulty: the integrated node is not made complete again.
LandedFaulty(n) == row

\* Faulty: the outcome of the worker is written as the status.
LandedOutcomeFaulty(n) == SetStatus(row, {n}, outcome[n])

\* Only now is a node that did not fail complete.
Landed(n) == IF outcome[n] = "ok" THEN SetStatus(row, {n}, COMPLETE) ELSE row

\* A node without a commit keeps the status its worker left.
Conclude(n) ==
  /\ Turn(n)
  /\ \/ /\ wpc[n] = "picked"
        /\ row' = Landed(n)
     \/ wpc[n] = "done" /\ n \notin branch /\ UNCHANGED row
  /\ Retire(n)
  /\ UNCHANGED <<disk, contract, fp, deps, depFp, steer, tree, branch, owed,
                 runVars, outsideVars>>

\* The cherry-pick is aborted and the node fails.  Its branch is kept for the
\* user until the next run deletes it; no run reads it.
Conflict(n) ==
  /\ Turn(n) /\ n \in branch /\ wpc[n] = "done"
  /\ Conflicts
  /\ row' = SetStatus(row, {n}, FAILED)
  /\ Retire(n)
  /\ branch' = branch \ {n}
  /\ UNCHANGED <<disk, contract, fp, deps, depFp, steer, tree, owed,
                 runVars, outsideVars>>

-----------------------------------------------------------------------------
(* Around the run. *)

\* kill -9, power loss: the threads are gone, disk, index and git are not.
Crash ==
  /\ Crashes /\ runs < MaxRuns /\ pc \notin {"down", "done"}
  /\ pc' = "down"
  /\ wpc' = [n \in Node |-> "idle"]
  /\ snap' = [n \in Node |-> PENDING]
  /\ hasKids' = [n \in Node |-> FALSE]
  /\ outcome' = [n \in Node |-> "ok"]
  /\ planned' = {} /\ steps' = 0 /\ interrupted' = FALSE
  /\ UNCHANGED <<storeVars, gitVars, outsideVars>>

\* q or Ctrl-C.
Interrupt ==
  /\ Interrupts /\ ~interrupted /\ pc \notin {"down", "done"}
  /\ interrupted' = TRUE
  /\ UNCHANGED <<storeVars, gitVars, workerVars, pc, steps, outsideVars>>

\* The user retries n: the TUI resets the subtree at once and also queues the
\* retry; the butler's retry tool only resets it.
UserRetry(n) ==
  /\ retries < MaxRetries /\ n \in disk
  /\ row' = SetStatus(row, Subtree(n), PENDING)
  /\ \/ UNCHANGED steer
     \/ Interactive /\ pc # "down" /\ steer' = steer \cup {n}
  /\ retries' = retries + 1
  /\ UNCHANGED <<disk, contract, fp, deps, depFp, gitVars, workerVars, runVars,
                 dirs, rows, runs, observers>>

\* fractal status, fractal digest and a butler turn are processes of their own
\* that reconcile before they read: one lists the directories,
Observe ==
  /\ observers < MaxObservers /\ dirs = {}
  /\ dirs' = disk
  /\ observers' = observers + 1
  /\ UNCHANGED <<storeVars, gitVars, workerVars, runVars, rows, runs, retries>>

\* reads the rows,
Read ==
  /\ dirs # {} /\ \A n \in Node : rows[n] = NoRow
  /\ rows' = row
  /\ UNCHANGED <<storeVars, gitVars, workerVars, runVars, dirs, runs, retries,
                 observers>>

\* and writes what it takes to be the repair, while the run goes on.
Repair ==
  /\ \E n \in Node : rows[n] # NoRow
  /\ row' = ReconciledRow(dirs, rows)
  /\ deps' = ReconciledDeps(dirs, rows) /\ depFp' = ReconciledDepFp(dirs, rows)
  /\ dirs' = {} /\ rows' = [n \in Node |-> NoRow]
  /\ UNCHANGED <<disk, contract, fp, steer, gitVars, workerVars, runVars, runs, retries,
                 observers>>

-----------------------------------------------------------------------------
\* What the worker of n does by itself.
Worker(n) ==
  \/ Begin(n) \/ Edit(n) \/ Split(n) \/ Materialise(n)
  \/ Insert(n) \/ SplitDone(n)
  \/ Deliver(n) \/ MarkComplete(n) \/ Record(n)
  \/ Hold(n) \/ Commit(n)
  \/ Fail(n) \/ Checkpoint(n) \/ Reopen(n) \/ Abandon(n)

Integration(n) == Pick(n) \/ Conclude(n) \/ Conflict(n)

Loop == Finish \/ Wait \/ Select \/ Join

Next ==
  \/ Start \/ Loop
  \/ \E n \in Node : Worker(n) \/ Integration(n) \/ UserRetry(n)
  \/ Crash \/ Interrupt \/ Observe \/ Read \/ Repair

Spec == Init /\ [][Next]_vars

\* The agent's COMPLETE may be in: from here the worker may be waiting for a gate or
\* for the critic, and neither wait has a time limit (run_gate waits for the end of
\* the output, call_critic for the end of the program).
Judging(n) ==
  /\ "complete" \in Verbs /\ wpc[n] = "running"
  /\ hasKids[n] \/ Dirty(n) \/ n \in Gated

\* The process runs, every agent eventually decides (its call has a time limit and
\* the attempts are counted), and after a crash the user starts a new run.  Gates
\* and critics guarantee nothing.
Fairness ==
  /\ WF_vars(Loop)
  /\ \A n \in Node : WF_vars(Worker(n) /\ ~Judging(n)) /\ WF_vars(Integration(n))
  /\ WF_vars(pc = "down" /\ Start)

FairSpec == Spec /\ Fairness

-----------------------------------------------------------------------------
(* What the run loop promises. *)

Stale == StaleIds(disk, row, deps, fp, depFp)

\* The tree on disk: every directory is inside its parent's, the children of a
\* node are numbered without a gap (the next id is their count plus one, so a gap
\* would hand out a used id), and only directories have rows.
TreeWellFormed ==
  /\ Root \in disk
  /\ \A n \in disk \ {Root} :
       /\ Parent(n) \in disk
       /\ \A i \in 1 .. n[Len(n)] - 1 : Append(Parent(n), i) \in disk
  /\ \A n \in Node : row[n] # NoRow => n \in disk

\* A complete root means that the whole tree is: every node is complete, and
\* none was accepted against an older deliverable of a dependency.  A reopened
\* child, a failed one or a crash must not leave a root that says otherwise
\* (surface_root_status reports the root's own status once it is complete).
RootDelivered ==
  row[Root] = COMPLETE => disk \cap Stale = {} /\ \A n \in disk : row[n] = COMPLETE

\* An ancestor of n is in the batch too, and may reopen what n depends on.
UnderReview(n) == \E m \in Batch : IsBelow(n, m)

\* A pending node only runs when every subtask its contract depends on is
\* accepted: the order of the batches, of the nodes in a batch and of the
\* workers in it never overtakes a dependency, unless an ancestor that was
\* reopened runs beside it and reopens the dependency in turn.
DependenciesFirst ==
  \A n \in Node : wpc[n] \in Active /\ snap[n] = PENDING /\ ~UnderReview(n) =>
    \A d \in contract[n] : row[d] = COMPLETE

\* A complete node whose worker is gone (or waits to be joined) has its edits in
\* the shared history, through all of complete, hold, commit, cherry-pick,
\* conflict and fallback to the serial path.
AcceptedIsCommitted ==
  \A n \in Node : row[n] = COMPLETE /\ wpc[n] \in {"idle", "queued", "done"} => n \notin owed

\* Why it holds when git accepts every commit and nothing kills the process: the
\* worker of n is in a step of the phase the loop is in; a serial batch has one
\* worker at a time; a node that is still worked on, or held back, is not
\* complete; and the edits of an active worker are all in its own root.
PhaseOK ==
  \A n \in Node :
    /\ pc \in {"down", "select", "done"} => wpc[n] = "idle"
    /\ pc = "serial" => wpc[n] \in {"idle", "queued"} \cup (Active \ {"recorded"})
    /\ pc = "parallel" => wpc[n] \in {"idle", "queued", "done"} \cup Active
    /\ pc = "integrate" => wpc[n] \in {"idle", "done", "picked"}
OneAtATime ==
  pc = "serial" => \A m, n \in Node : wpc[m] \in Active /\ wpc[n] \in Active => m = n
OpenWhileWorked ==
  \A n \in Node :
    \/ wpc[n] \in {"running", "splitting", "delivered"}
    \/ wpc[n] = "settled" /\ pc = "parallel"
    => row[n] # COMPLETE
EditsInRoot ==
  \A n \in owed :
    /\ wpc[n] \in Active => n \in (IF pc = "serial" THEN tree ELSE wt)
    /\ wpc[n] # "picked"
Accountable ==
  PhaseOK /\ OneAtATime /\ OpenWhileWorked /\ EditsInRoot /\ AcceptedIsCommitted

\* Between batches no row says running, unless the run was interrupted: a
\* running row is selected by nothing, so only the next run would free it.
NoZombieRunning ==
  pc \in {"select", "done"} /\ ~interrupted => \A n \in Node : row[n] # RUNNING

\* Why it holds: a running row belongs to a worker, or to one that has been joined
\* without a failure and whose commit waits to be integrated; a serial worker past
\* complete() has given it up.
Occupied ==
  pc # "down" /\ ~interrupted => \A n \in Node : row[n] = RUNNING =>
    /\ wpc[n] \in Active \cup {"done", "picked"}
    /\ wpc[n] = "done" => n \in branch
    /\ wpc[n] \in {"done", "picked"} => outcome[n] = "ok"
    /\ pc = "serial" => wpc[n] \notin {"complete", "settled"}

\* Between batches every worktree and integrated branch of the batch is gone,
\* whichever way each node of it ended, and a new run starts without any.
NoLeakedWorktree == pc \in {"select", "serial", "done"} => wt = {} /\ branch = {}

\* Why it holds: outside a crash only nodes of the batch have a worktree or a
\* branch, and a picked node no longer has a branch.
Sheltered ==
  /\ NoLeakedWorktree
  /\ pc # "down" => wt \cup branch \subseteq Batch
  /\ \A n \in Node : wpc[n] = "picked" => n \notin branch

\* A crash leaves no complete node whose only copy of the work is a worktree or
\* a node branch, which the next run deletes.
WorkSurvivesCrash ==
  pc = "down" => \A n \in Node : row[n] = COMPLETE => n \notin wt \cup branch

\* A run that ends with a failed node anywhere in the tree reports failed.
FailureSurfaces ==
  pc = "done" /\ (\E n \in disk : row[n] = FAILED) => SurfaceRootStatus(disk, row) = FAILED

\* A node is accepted when its row says so, no worker can still take it back,
\* and it is not due for re-verification.
Accepted == {n \in disk : row[n] = COMPLETE /\ wpc[n] = "idle"} \ Stale

\* Without reopen and retry the run loop implements the promise of Delivery:
\* acceptance moves strictly upwards and neither a crash, a conflict nor a
\* failure beside it ever undoes one (no node runs twice after completing).
Promise == INSTANCE Delivery WITH tree <- disk, accepted <- Accepted
DeliveryHolds == Promise!DeliverySpec

\* A gate or the critic of some node never returns.
Unjudged == \E n \in Node : <>[]Judging(n)

\* A headless run ends, whatever its nodes do, unless a gate or a critic hangs.
HeadlessEnds == Unjudged \/ (pc = "select" ~> pc \in {"done", "down"})

\* The goal is delivered unless a node failed, the step limit was reached, or a gate
\* or a critic hangs, however often the process was killed on the way.
Resolved ==
  \/ Unjudged
  \/ <>(row[Root] = COMPLETE \/ (\E n \in Node : row[n] = FAILED) \/ steps >= MaxSteps)

=============================================================================
