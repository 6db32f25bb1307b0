# A TLA+ model of fractal-harness

fractal-harness turns one goal into a tree of nodes, runs a coding agent on each
node, and accepts the work from the leaves upwards. This directory holds
specifications of its run loop, of the attempts of a node, of escalation, and of
what goes on around them: the programs it waits for, the butler's turns, steering,
memory, and the topology of splits. TLC checks them on small instances, TLAPS proves
their main invariants for all. Line numbers refer to `src/src/*.rs`.

## 1. The system

### Components

| component | state | operations |
|---|---|---|
| Task tree and selection (`scheduler.rs`, `store.rs`) | none of its own | `next_nodes`, `deps_satisfied`, `aggregatable`, `stale_ids`, `batch_is_independent`, `surface_root_status` |
| Run loop (`scheduler.rs`) | the batch, `RunReport`, `INTERRUPTED` | `run`, `run_batch_parallel`, `run_one_node` |
| Store (`store.rs`) | `tree/` (a directory, contract and artifacts per node), the `nodes` table, budget, steer queue, global entries, digest | `add_children`, `complete`, `set_status`, `reconcile`, `retry`, `reopen_children`, `amend`, ... |
| Git integration (`git.rs`) | the shared working tree, a worktree and a branch per parallel node | `commit_node_work`, `integrate_commit`, `create_worktree`, `remove_worktree`, `cleanup_worktrees`, `reset_uncommitted` |
| Steering (`tui.rs`, `butler.rs`, `store.rs`) | `steer_queue` | `enqueue_steer`, `drain_steer_queue`, `retry`, `add_constraint_and_propagate` |
| Observers (`main.rs`, `butler.rs`) | none | `reconcile`, then `walk` or `generate_digest` |
| Escalation (`scheduler.rs`) | suspended rows | `find_escalation_point`, `suspend_branch`, `run_escalation_owner`, `resume_ancestors`, `resolve_sibling`, `replan_branch` |
| Node attempts, gates, critic (`scheduler.rs`, `runner.rs`, `verify.rs`) | the attempt counter and the feedback of one node | the attempt loop of `run_one_node`, `decide`, `run_gates`, `call_critic` |
| Agent process (`runner.rs`) | the child process, its output channel | `run_node`, `collect_stream` |
| Budget (`store.rs`) | `budget` | split fee and shares, `debit_call`, `budget_remaining` |
| Global store, memory digest (`store.rs`) | `global_entries`, `memory_digest` | `note_global`, `retrieve_global`, digest rewrite |
| Butler turns (`butler.rs`, `dashboard.rs`) | `conversation.json`, `last-plan.json`, the sessions of a process | `begin_turn`, `update_turn`, `recover_interrupted`, `resume` |
| TUI, dashboard, command line | views | read the store; one retry key, a constraint prompt |

`PROJECT.json` says of each whether it is modelled, and why not where it is not.

### How they interact

`run` is one thread. It reconciles the index with the directories, drops old
worktrees, and then repeats: drain the steer queue, `walk` the tree, select with
`next_nodes`, run the first `FRACTAL_PARALLEL` nodes. A batch of one, or one with
a dependency inside, runs on the shared tree, one node after the other. An
independent batch gets a worktree and a thread per node; the threads share the
SQLite file and the directories, and are joined before anything else happens.
Then the commits are cherry-picked onto the shared tree in batch order.

The TUI is a second thread with its own connection. `fractal status`,
`fractal digest` and every butler turn are processes of their own, and they
*write*: they call `reconcile`. Nothing but SQLite's single statements makes any
of this atomic: `with_conn` opens no transaction.

A worker asks its agent up to `FRACTAL_MAX_ATTEMPTS` times. The agent, the gates and
the critic are programs that the worker starts and waits for, each in a way of its own;
the agent's answer is a file or a line of its transcript. A completion passes the gates,
then the critic, then `complete` and git; anything else comes back as feedback.

The dashboard, in a run or in a server of its own, takes requests for the butler on
threads of their own. They share `conversation.json` with `fractal ask`, and the
tools of the butler's agent write contracts, queue retries and split nodes.

### What is hard

* A status is written in several statements, by several actors, next to git
  operations that succeed or fail on their own. `complete()` alone is an UPDATE
  and a second write for the fingerprints; in a parallel batch the row then goes
  back to running, the commit is made on a branch, and the row is complete again
  only after the cherry-pick.
* The directories, the index and git each survive a crash, each at its own point.
* Reopen and retry bring nodes back, below ancestors that may be complete.
* Observers repair what is not broken, with what they read some time ago.
* A running row is never selected, so whoever leaves one stops the tree.
* An agent may leave processes behind, which go on writing: into the tree, into the
  decision file, into the pipe somebody waits on.
* What a node has spent is charged while it decides what its children may spend.
* Files that several threads and processes rewrite whole have no lock, or one that
  only the threads of one process see.

### What makes it correct

| component | properties |
|---|---|
| selection | `DependenciesFirst`, `RootDelivered`, `FailureSurfaces` |
| run loop | `HeadlessEnds`, `Resolved`, `NoZombieRunning`, refinement of `Delivery` |
| store | `TreeWellFormed`, `DeliveryHolds` under crashes |
| git integration | `AcceptedIsCommitted`, `NoLeakedWorktree`, `WorkSurvivesCrash` |
| observers | `AcceptedIsCommitted`, `NoZombieRunning`, `DeliveryHolds` beside a run |
| escalation | `SuspendedHasCause`, `NoneWedged`, `RunsEnd` |
| attempts, gates and critic, budget | `CommitIsOwnWork`, `FailedStaysOut`, `SplitWithinAllowance`, `AttemptsEnd` |
| programs and their output | `NothingLeftRunning`, `PassIsProven`, `NeverBlockedByOutput`, `WaitEnds` |
| butler turns | `OneAgent`, `PlanIsOwn`, `NoPhantom`, `SettledStays`, `EveryTurnSettles` |
| steering | `BranchConstrained`, `GoalShown` |
| memory and global entries | `ForgeryShows`, `EntryIsOwn` |
| topology of splits | `Schedulable`, `SameMeaning` |

## 2. The modules

`TaskTree` - node ids as paths (root-02-01 is `<<2, 1>>`), the six statuses and
the pure rules of selection. `Delivery`, `Scheduler` and `Escalation` extend it.

`Delivery` - the abstract specification: a tree grows below open nodes, nodes are
accepted after their subtasks, and what is accepted stays accepted. It knows no
batches, agents, worktrees, crashes or observers.

`Scheduler` - the run loop over one project. Its variables, by the code that
holds them:

| variables | in the code |
|---|---|
| `disk`, `contract`, `fp` | the directories, `depends_on` of contract.md, `Store::fingerprint` |
| `row`, `deps`, `depFp` | the columns of the table `nodes` |
| `steer` | queued retries |
| `tree`, `wt`, `branch` | nodes with uncommitted edits in the shared tree or their worktree, or with an unintegrated commit |
| `owed` | a ghost: nodes whose latest run made edits that no commit of the shared history contains |
| `pc`, `steps`, `interrupted` | where `run` is, `report.steps`, `INTERRUPTED` |
| `wpc`, `snap`, `hasKids`, `outcome`, `planned` | where `run_one_node` is, the `Node` it was given, `has_children`, its sub-report, the children `add_children` is inserting |
| `dirs`, `rows` | what an observer's `reconcile` has read |
| `runs`, `retries`, `observers` | counters of the bounds |

Its actions:

| actions | code |
|---|---|
| `Start` | the prologue of `run`, 141-165 |
| `Select`, `Wait`, `Finish`, `Join` | one pass of the loop, 167-260, the join and the end of a batch |
| `Begin` | `run_one_node` marks the node running and reads `has_children`, 759-820 |
| `Edit` | the agent (external) |
| `Split`, `Materialise`, `Insert`, `SplitDone` | SPLIT accepted: 1114-1218 and `add_children`, one directory, then one row, then the parent |
| `Deliver`, `MarkComplete`, `Record`, `Hold`, `Commit` | COMPLETE accepted: the gates and the critic, the two writes of `complete`, the hold, the commit, 1232-1460 |
| `Reopen`, `Fail`, `Checkpoint`, `Abandon` | the other ways a node ends, 1500-1618 and 817-820 |
| `Pick`, `Conclude`, `Conflict` | integration, 426-500 |
| `Crash`, `Interrupt`, `UserRetry` | a kill, q or Ctrl-C, the retry key and the butler's retry |
| `Observe`, `Read`, `Repair` | `reconcile` in another process: list, read, write |

`Escalation` - what a worker does whose agent answers ESCALATE, beside the other
workers of its batch, which go on, and may escalate too. It is a second view of
the run loop, not a part of `Scheduler`: it keeps selection, batches, attempts
and the status column, and leaves git, deliverables, steering and torn splits
out. Beside the variables that mean what they mean in `Scheduler`:

| variables | in the code |
|---|---|
| `attempt`, `aggregating` | locals of `run_one_node` |
| `owner`, `cursor` | the answer of `find_escalation_point`; `cur` of `suspend_branch` and `resume_ancestors`, the branch root of `replan_branch` |
| `doomed` | the children `replan_branch` still has to delete |
| `cutOff` | a ghost: nodes that were suspended when the process was killed |
| `leftover` | a ghost: nodes of which a row, a directory or a worker has outlived their deletion: `delete_node` leaves the rows below and stops no worker |
| `replanned` | a ghost: nodes of which a ruling has deleted children |

| actions | code |
|---|---|
| `Escalate` | the entry is logged, the owner found; the root fails, 906-942 |
| `Suspend`, `Ask` | `suspend_branch` row by row, then the owner is marked running, 944-975 and 1655-1664 |
| `Rule` | the owner has answered and is split again, 976-1007 |
| `Refuse` | an unusable ruling fails the node |
| `Resume`, `Proceed` | amend or overrule: `resume_ancestors` row by row, the next attempt, 1669-1681 |
| `Depend`, `Pause` | resolved by a sibling: `add_depends_on`, the node is pending, 1008-1052 |
| `Replan`, `Prune`, `Pruned` | the parent is asked too; `delete_node` per child; the parent is pending, 1053-1078 and 1698-1706 |
| `Split`, `Complete`, `Fail`, `Integrate` | the other answers, in one step each |

Ctrl-C is not in this module: the check of `INTERRUPTED` at the top of the attempt loop
(817-820) returns with the row still running, which only the next run's `reconcile` puts
right. `NoneWedged` and `RunsEnd` are of runs that nobody interrupts; `Abandon` of
`Scheduler` is that step.

`delete_node` removes a directory and one row in one step here. What an owner
writes, into contracts or files, and the lock that keeps two owners from writing
at once are left out: nothing here depends on them.

`NodeAttempts` - the attempt loop of `run_one_node` for the workers of one batch,
serial or parallel: a third view of the run loop. An edit is its author's, and
either written by the agent or, late, by a process the agent left behind. What a
worker commits, and what its critic was shown, are sets of such edits.

| variables | in the code |
|---|---|
| `parallel`, `contract` | `work_root` is a worktree; has the node children, gates, criteria |
| `job` | where the worker is, with the locals `attempt`, `pre_split_remaining`, `contested`, `manual`, and how it ended |
| `tree`, `commits` | the uncommitted edits of each tree; what `commit_node_work` has staged |
| `evidence` | what `critic_evidence` has shown the critic |
| `file`, `orphan` | `.fractal_decision_<node>`; a process of the agent lives on |
| `criticDir` | `fractal_critic_<pid>`, one for all workers of the process |
| `ledger` | calls, fee and children of the budget row |

| actions | code |
|---|---|
| `Begin`, `Attempt` | the allowance that refuses a node, the top of the loop, 759-880 |
| `AgentMissing`, `AgentEnds`, `OrphanWrites` | `decide` and the charge of the call; what a process left behind writes later |
| `Split`, `Reopen`, `Escalate`, `Stray`, `Refuse` | what is done with the decision: the split fee and the shares of `add_children`, the refusals with feedback |
| `Gates`, `OpenCritic`, `SpawnCritic`, `CriticAnswers` | `run_gates`, `verify_node`, `call_critic` |
| `Accept`, `Commit`, `Exhausted`, `Settle` | `complete`, `commit_node_work`, the checkpoint, the reset or the end of the worktree |

`Processes` - one program the harness has started and waits for: an agent
(`collect_stream`), a gate (`run_gate`), a launch gate (`run_launch_gate`) or the
critic (`call_critic`). `program` and `descendant` are processes of one group,
`pipe`, `channel` and `collected` the lines on their way, `harness` what the waiting
thread is at. `Writes`, `Forks`, `Exits` and `DescendantExits` are the program's
(external); `Tick`, `Interrupt` and `Read` the clock, Ctrl-C and the reader threads;
`PollAgent`, `PollGate`, `ReadGate`, `PollLaunch` and `CriticReturns` the four waits.

`Conversation` - the butler's turns (`begin_turn`, `update_turn`,
`recover_interrupted`, `run_session`). `conversation` is the file, which `Truncate`
and `Write` change in two steps; `lock` is `TURN_LOCK` of each process with what its
holder has read; `session` the turns of each process, claimed, running or settling.
`Start` (with the recovery of a server), `Claim`, `Run`, `Plan` (the agent's tool),
`AgentEnds`, `Settle`; `Exit` is a kill at any point. The agent is an ordinary child
(runner.rs:1105-1122) and outlives it: `orphans` are the turns whose agents did, which go
on using their tools. `lost` are the turns that killed processes have left since a server
last started. Servers and ask processes live side by side.

`Steering` - constraints and contracts. `terms` are the contract files, `goal` the
column, `law` a ghost: the constraints each place owes to the commands applied.
`Type` is the terminal, `DrainSelect` and `DrainDelete` the two statements of
`drain_steer_queue`, `Apply` with `ReadTerms`, `WriteTerms` and `EndEdit` a
propagation, a contract at a time; `SplitReads` and `SplitWrites` the inheritance of
`add_children`: a child carries its parent's constraints beside those its subtask proposed
(store.rs:612-617), which are owed from then on too. `Rules` is an owner's amendment, `Tool` the butler's tools. What is above a
node is the least set with the node and the parent of all it has (the code compares path
prefixes); an edit holds the set of contracts it has yet to visit, and takes the foremost
of the walk.

`Memory` - a node's remembered lines with their digest (`Check`, `AppendLine`,
`Hash`, `Record`, and `Forge` of an outsider), and the global entries (`Propose`,
`Count`, `Supersede`, `Insert`, `WriteEntry`); `Kill` ends a writer anywhere.

`SplitTopology` - the names of dependencies: `Canonical` is the map in which
`reject_split_topology` judges a split, `IdMap` the one in which `add_children` stores
it. A map is the set of its insertions with their order, and the last one of a name
counts, as in a `HashMap`. `Split` takes every proposal within the bounds, `Complete`
follows `next_nodes`.

`MCServices` composes the last five for TLC: they share no state, so a behaviour is
one of one part. `MCScheduler`, `MCEscalation` and `MCAttempts` give the others their
trees and batches. `SchedulerProofs`, `TreeProofs`, `EscalationProofs`,
`AttemptsProofs`, `ProcessesProofs`, `ConversationProofs`, `MemoryProofs` and
`ServicesProofs` hold the theorems.

Steps that are finer in the code than in the model: the `set_status` calls of
`Reopen` and `UserRetry`, the rows of one drain, and the writes of one `Repair`
are one step; so are the two writes of `Fail` and the reset after it. The read
and the delete of `drain_steer_queue` are one step; a queued retry lost between
them behaves like the butler's retry, which is not queued. In `NodeAttempts`
the gates of a node are one step with one outcome, and a critic's directory is made
anew in one; in `Steering` the contracts and rows of one split are written in one step,
and a goal's column with the end of its edit.

## 3. The runs

The runs of `Scheduler` are on trees with a root and two children (`TwoLevels`), or
these and a grandchild (`ThreeLevels`), with batches of two. Two children are enough for a
dependency, a batch, and a worker beside another; the grandchild gives an inner
node that splits, is reopened and aggregates. `MaxSteps` lets every node run at
least once and some again. Two runs are one crash or interrupt and its recovery.
One retry, one observer at a time. What three grandchildren add is said below; the
properties of the tree's shape and of the order are proved for every tree.

`escalated` runs on `FourLevels`, a branch of the depth `MAX_DEPTH` allows with two
nodes at its end: the least at which an owner may be two levels above the parent
and another worker is below the same parent. Two attempts per worker, so that a
ruling may send a node on once. Six steps are the branch and a batch after it; the
run after a kill has one more.

`attempts` has two workers, a leaf without gates and a node with children and gates:
between them they take every branch of the loop. A serial batch has two attempts, so
that the second finds what the first left; in worktrees one attempt is enough to
overlap two workers. The allowance of 6 with calls of 2 and a fee of 1 lets a node
split before and after a refused attempt, and refuses it at the end. One agent leaves a
process behind, which writes once. Three workers and worktrees of any number are
proved, not run.

`services`: three lines and a pipe of two, so that a pipe fills; a limit of 2 ticks. Two
servers and an ask process, two requests and one turn kept, so that turns roll off, and
three starts: all three live side by side, or one starts again after a kill. A root and two children, two texts, a split that proposes any of them, one
typed command beside every tool and ruling; two writers of three remembered lines and
two notes, so that two count the same number. Two subtasks per split with two ids, and
three children, so that a parent splits twice.

| run | shows | distinct states |
|---|---|---|
| `observed` | beside a process that reconciles, and a user who retries: complete means committed, no running row is left | 1 340 000 |
| `durable` | three levels, two runs: dependencies first, complete means committed, no running row left | 313 000 |
| `recovery` | crashes, failures, reopens, changing fingerprints: unless a gate or a critic hangs, a headless run ends and the goal is delivered or a failure is on record; a complete root means a complete tree | 146 000 |
| `promise` | three levels, crashes, conflicts, refusing git, interrupts: the loop implements `Delivery`, the tree keeps its shape, worktrees end with their batch | 710 000 |
| `attempts` | whose edits are committed and judged, what a failed node leaves, what a split grants, and that every worker returns | 479 000 |
| `services` | the five parts around the loop, each with its threads, processes and kills | 263 000 |
| `escalated` | two workers escalate beside each other: nobody is left running or suspended without a cause, and every run ends, unless an attempt hangs | 363 000 |

`CHECK_DEADLOCK FALSE` everywhere: a system stops after its last run, request or
command.

Five runs show where the code does not do what the repository says of it:

| run | what happens |
|---|---|
| `crash_window` | killed between `complete()` and the `set_status(RUNNING)` that holds the node back, a complete node's only copy is a worktree, which the next run prunes: what the comment at scheduler.rs:1407 rules out |
| `hidden_failure` | a reopened inner node is pending beside its children; it is accepted while one of them fails, the root aggregates, and the report says complete (comment at 503) |
| `onlooker` | `fractal status` reads a row as running, the node is accepted, `status` writes pending: the node runs twice (dashboard.rs:489, phase-0 AC0.3) |
| `abandoned` | an owner above the parent rules replan: the parent plans again, and the nodes between them stay suspended (SPEC.md:72, comment at 1653) |
| `stranded` | killed while an escalation is settled, the branch stays suspended: `reconcile` leaves suspended rows alone, and nothing selects them again (phase-0 AC0.3) |

Each property of a passing run has a mutant in `PROJECT.json`: a mistake in the
code's place (the operators named ...Faulty) that TLC then finds.

The properties are stated under the conditions of their run, and not beyond
them; what lies beyond was looked at with TLC by changing one constant.

* `AcceptedIsCommitted` needs git to accept commits (`GitFails = FALSE`: the
  code deliberately completes a node whose commit was refused) and no crash
  (`crash_window`).
* `DependenciesFirst` needs no crash: with `Crashes = TRUE` in `durable` a split that is
  killed between directories and rows loses its `depends_on`, and the child overtakes
  its dependency. And it excepts a node whose ancestor is in the same batch: a reopened
  inner node is pending beside its children, and among three of them may reopen the
  dependency of one that is running. Both are against phase-1, AC1.1.
* `RootDelivered` is checked on two levels (`hidden_failure` needs three) and
  without retries, and `DeliveryHolds` without reopen, retry (they exist to undo
  acceptance) and observers (`onlooker`).
* `SuspendedHasCause` needs no crash (`stranded`; `cutOff` holds what a kill has left)
  and excuses a failure, which is the user's to retry, and a replan, after which the
  code resumes nothing (`abandoned`). A replan also lets a sibling that escalates late
  suspend the replanned node itself: its own row is gone, and the next `set_status` on
  its way up is that node's. And it excuses the names of deleted nodes that somebody has
  outlived (`leftover`): a row below a deleted node, which a later split keeps; and a
  worker, which suspends the new node above its own and then has no row, or none on
  disk, to mark failed.
* `CommitIsOwnWork` is of parallel batches. On the shared tree a node that splits,
  reopens, pauses or is interrupted leaves its edits to the next commit, and so does an
  owner that is asked to rule. `FailedStaysOut` is of what the agent wrote before it
  ended: what a process it left behind writes later is the next node's to commit. A node
  whose rejected work was committed as a checkpoint (`kept`) is excepted, as the code
  means it to be; but a node that ends by an escalation or an error of `complete`, after
  an attempt the critic rejected, has that work reset, which scheduler.rs:809 promises
  only of used-up attempts.
* `SplitWithinAllowance` allows for the deciding call, which the code says it does not
  hold against a split (scheduler.rs:1175).
* `PassIsProven` says that the output of a gate that passed was read to its end, of which
  the outcome keeps the tail (`truncate_tail`, verify.rs:569), and nothing of a gate that fails: one that writes more than its pipe
  holds never exits, is killed at the limit and fails, whatever its exit code would have
  been (verify.rs:556). `WaitEnds` names the two waits without a limit: a gate's for
  the end of file while a descendant has the output open, and a critic's.
  `NothingLeftRunning` does not speak of what a launcher forked that exits early itself.
* `Beside = FALSE`: a server starts while no turn is under way in another process. With
  `TRUE` it fails a live turn (dashboard.rs:147) and lets the next be claimed beside it:
  TLC violates `SettledStays` and `OneAgent`.
* `Races = FALSE`: no process uses `conversation.json` between another's read of it and its
  write. With `TRUE` two of them find no working turn and both claim, or one reads the
  truncated file of another as no turns: TLC violates `OneAgent` and `PlanIsOwn`. The file
  is "the cross-process guard" (butler.rs:30-33) as far as a working turn that has been
  written is seen by every other process, which `OneAgent` checks; check and write are not one.
* `OneAgent` counts the agent of a killed process while its turn is shown as working: until
  then the file keeps others out. Once a server has failed the turn
  (butler.rs:201-219), an orphan and the next agent steer beside each other, which nothing
  in the code prevents; and what an orphan writes to last-plan.json is taken for the next
  turn's plan, so `PlanIsOwn` excepts the plans of orphans, and no others. `NoPhantom`
  excepts a turn left by a process that was killed after the last server started: it is
  shown as working, and refuses every request, until a server starts again.
* `MidRun = FALSE`: the butler's tools run while the loop is off. With `TRUE` a tool
  that rewrites a contract overwrites what the loop has just added, and a child split
  meanwhile keeps its parent's old terms. One worker, for the same reason: with two, an
  owner's amendment races the split of another node.
* `MidWrite = FALSE`: an outsider writes while the harness does not. With `TRUE` a line
  added between an append and its hash is vouched for.
* `Spaces = FALSE`: with `TRUE` a dependency on the empty name, which the check passes
  over, is stored, and its child waits for ever.
* `typed` commands may be lost: one that is queued between the select and the delete of a
  drain is deleted unread. `BranchConstrained` is of what was applied. A split
  may propose again what was amended before: its children are bound by it, as the code has it.
* `HeadlessEnds`, `Resolved` and `RunsEnd` except a gate or a critic that never returns:
  see below.
* `AttemptsEnd` holds by the attempt counter, so it says nothing of the directory that critics
  share; what is lost by it is an attempt. `RootDelivered` says nothing of
  reopened grandchildren (`hidden_failure`), `SuspendedHasCause` nothing of a node that is
  retried after its escalation failed, and `GoalShown` nothing of an edit that is killed between
  contract and column: `Escalation` has no retry and `Steering` no kill.

### Fairness

In `Scheduler`, `FairSpec` is weakly fair for the loop, for each worker and for
integration, and starts a new run after a crash. The first is the thread scheduler; the second
holds because an agent's call has a time limit and its attempts are counted. It stops
where a worker may be waiting for a gate or for the critic (`Judging`): `run_gate` waits for
the end of the output (verify.rs:557) and `call_critic` for the end of the program
(runner.rs:1162, 1183), and neither has a limit. `HeadlessEnds` and `Resolved` therefore
except a run in which some node stays there for ever (`Unjudged`); everything else that a
worker does must end. The last is the user, and `Resolved` speaks of a user who
does restart. Nothing is assumed of the user's retries, of interrupts, crashes
or observers. An unfair agent may edit and never decide; the time limit is what
excludes it. `FairSpec` of `Escalation` asks less, only that somebody who can
move does, and nothing of the user: `RunsEnd` lets a kill end a run. An attempt that is
not used up may hang in a gate or a critic (`Answered`), and `RunsEnd` excepts that.

`NodeAttempts` is fair to each worker's own steps and to its agent, which
`FRACTAL_TIMEOUT` bounds (`WaitEnds` of `Processes` is why). Gates and critic are not:
`AttemptsEnd` excepts a worker whose gate or critic never returns.

`Processes` is fair to the reader threads and to the polls. A program owes
nothing: it may write, fork and exit, or not. That time passes is assumed in `WaitEnds`
only: `NeverBlockedByOutput` is not to hold because the limit kills a blocked agent.

`Conversation` is fair to the steps of each process, the end of its agent included,
which `FRACTAL_TIMEOUT` forces (`collect_stream`). It asks nothing of an agent that outlives
its process. Nobody has to make a request, and a kill may come at any time.

## 4. The proofs

The theorems hold for every finite tree, every bound and every setting of the
switches, from the assumptions named in the modules: node ids are a prefix-closed
finite set of paths, `MaxParallel` and the attempts are at least 1
(`NodeAssumption`, `LimitAssumption`, `EscalationAssumption`), a call costs
something (`AttemptsAssumption`), a pipe holds a line (`ProcessesAssumption`), a walk lists
the places, each with its parent (`SteeringAssumption`), and the bounds are numbers. `SchedulerProofs`:

* `TypeCorrect`: `Spec => []TypeOK`.
* `AcceptedCommitted`: `Spec => []AcceptedIsCommitted` if git accepts commits and
  nothing kills the process. The property alone is not inductive: whether a
  commit clears what a node owes depends on where its edits are, and that on who
  else works. `Accountable` adds four facts: a worker is only in steps of the
  loop's phase; a serial batch has one active worker; a node still worked on or
  held back is not complete; an active worker's owed edits are in its own root.
* `WorktreesRemoved`: `Spec => []NoLeakedWorktree`, crashes included. `Sheltered`
  adds that outside a crash worktrees and branches belong to nodes of the batch,
  so that the last node to be retired leaves none.
* `NoZombies`: `Spec => []NoZombieRunning`. `Occupied` adds who holds a running
  row: an active worker, or one that was joined without a failure and whose
  commit waits for integration.

`TreeProofs`:

* `TreeKeepsShape`: `Spec => []TreeWellFormed`, crashes and observers included. The
  property is not inductive: a directory that a split will make must have its place
  too. `Grown` adds that what is planned continues the numbers there are, that an
  observer has listed only what is on disk, and so has a worker.
* `DependenciesComeFirst`: `Alone => (Spec => []DependenciesFirst)`, where `Alone` is no
  kill, no retry and no observer. `InOrder` adds why: rows carry what contracts say; a
  row is missing only while its split is at work; a node that waits or works on its
  first acceptance has dependencies nobody works on, and they are complete unless an
  ancestor of the batch may have reopened them; and a serial batch takes the deepest
  first, so that an ancestor comes last.
* `LoopDelivers`: `Upward => (Spec => DeliveryHolds)`, the refinement of `Delivery`, where
  `Upward` is no reopen, no retry and no observer; kills, conflicts, interrupts and a git
  that refuses are included. Making a directory is a `Decompose`, and every other step
  accepts what it adds to `Accepted`, perhaps nothing. `Upright` says why that set only
  grows, and from the leaves: a node that has been started depends on accepted nodes only
  (`Based`), so that no deliverable an acceptance was recorded against changes; a node
  that is complete, or can become so without running again, has accepted children
  (`Founded`); a row that is pending or missing has no children (`Leafy`), so that a run
  after a kill adopts leaves only.
* `CompleteRoot`: `Upward => (Spec => []RootDelivered)`, on trees of any depth
  (`hidden_failure` shows that it takes a reopen to break it). `Founded` speaks of the
  children only; `Deep` says the same of all that is below, and `Rooted` that every
  ancestor of a directory is one and the root depends on nothing.

`EscalationProofs`:

* `TypeCorrect`: `Spec => []TypeOK`, from `Typed`, which adds that a worker that
  escalates has an attempt left: a ruling uses one up.
* `NobodyWedged`: `Spec => []NoneWedged`, crashes included. `Attended` adds who
  marks a row running: the node's own worker, up to the first row it suspends, or
  any worker that is asking the node as its owner. The second is why two workers
  with one owner do no harm: when the first ruling sets the owner to split, the
  row is no longer running, and the other worker has nothing left to put right.
* `NoneSuspendedForNothing`: `Spec => []SuspendedHasCause`, crashes included. A suspended
  row is put right by the worker that suspended it, while others suspend, resume, replan
  or delete the same nodes. `Steady` has the reason. Where no ruling has deleted
  anything from the branch of a node (`Whole`), a suspended one has a failed node at or
  below it, or some worker has suspended it and will see to it (`Accounted`, with
  `Holds` saying for each stage of an escalation which nodes those are). For a step that
  ends an escalation one must know that the worker's own mark lands and stands:
  what is below a node that waits, is at work or is settled is complete
  (`ChildrenFirst`), so nobody below a failed node can unmark it; and a directory without
  a row, or a worker without a directory, was deleted with its branch up to a child of
  a replanned node (`Explained`, `Severed`). `Standing` has the shape this needs: a
  directory is inside its parent's, and a worker's cursor is between its node and its owner.
  An earlier formulation, without the workers in `leftover`, was true of two workers;
  with three, TLC found it false while the invariant was being looked for: a worker
  outlives its node, the node above splits again beside it, and it suspends what is
  above its new namesake and has nothing to mark failed. As it is stated now, TLC agrees
  on that instance too (a root with two children and two below the second, batches of
  three, one attempt, seven steps, no kill: 1 750 000 states); it is no run of the
  project, since the theorem covers it.

`AttemptsProofs`, for batches of any size:

* `TypeCorrect`: no column of the ledger becomes negative, for every offer.
* `GrantsWithinAllowance`: `Spec => []SplitWithinAllowance`. `BInv` adds what an attempt
  remembers: `pre` is what is left while the agent is asked, and misses only the call's
  tokens while it is decided; nothing is granted before a worker settles. That the shares
  of a split fit what is left (`open * (left \div open) <= left`) is a lemma of its own.
* `OwnWork`: `Spec => []CommitIsOwnWork`. `OInv`: a worktree has its own node's edits only.
* `FailedIsDiscarded`: `Spec => []FailedStaysOut`. `FInv` adds for the serial batch that
  one worker is at work, and that a failed node's early edits are in no tree and were
  shown to nobody else.

`ProcessesProofs` has the invariant `IInv`: `Awaited` says that a harness that has
returned has either seen the program end or killed it, `Collected` that no line is lost
between pipe and harness but an agent's. `ConversationProofs` assumes that no
server starts beside a turn and that no two processes use the file at once, and proves `CInv`,
for any number of processes side by side: at most one of them has a turn under way
(`OneEngaged`), and while it has, its turn is the last and works, in the file or in what
the process is about to write (`LastIsOwn`), so that no other can be claimed; and in the file only
the last turn may be working (`OnlyLastWorks`), so that of the orphans at most one is shown.
`DInv` adds, for `NoPhantom` and `SettledStays`, that turns of one
number are one turn, that what a process is about to write keeps every settled turn of the
file (`SettledKept`), and that after a recovery every working turn is some session's or
was left by a kill since (`AllServed`). Its `TypeCorrect` needs neither condition.
`MemoryProofs`: `MInv` (what was hashed or stored was the memory
once and is no longer than it; a line of an outsider makes the memory longer than the
digest, and nobody is at work until it is remarked) and `EInv` (a number that was counted
is at most one past the last row, and who writes a file has inserted the row of that
number itself); for `TypeCorrect`, `Counted` adds that no two notes under way have one number
and that no number exceeds the notes asked for.

`ServicesProofs` carries these to the behaviours of `services`: `NothingRuns`,
`PassProven`, `OneAgentAtATime`, `PlanStaysOwn`, `NoPhantomTurn` and `SettledOnce` (assuming
`~Beside` and `~Races`), `ForgeryIsSeen` (assuming `~MidWrite`), `EntryStaysOwn`, and `TypeCorrect` of all
five, with every switch. A behaviour of `MCServices` is one of
`Conversation` and of `Memory`, whose specifications it implements; a part that rests has
a program that is over, so for `Processes` the invariant is shown again from its step lemma. It also holds the
theorems of steering and of splits:

* `GoalStaysShown`: `Spec => []GoalShown` if the tools rest during a run (`~MidRun`), with any
  number of workers. `SInv`: a change holds what the file of its next node still says
  (`InStep`), who writes depends on where the loop is, and is alone (`OneWriter`), and
  only one worker can create the children of a node (`Unborn`).
* `BranchStaysConstrained`: `Spec => []BranchConstrained`, on every tree, with `~MidRun` and
  one worker. `LInv` says how the contracts differ from what they owe while a change is
  half made (`LawInStep`: in the places left to visit), and that a place without a node
  owes what its parent does, and a node has its parent's (`HeirsInStep`), so that an heir
  is given what it owes, and what a split proposes is owed by its child and below only. The
  two conditions are those of the run, and each is needed: section 3 says what happens
  without.
* `SplitsSchedulable`: `Spec => []Schedulable` without empty names (`~Spaces`), for splits of
  any width, one after another. `Layered`: of any children, one depends on none of them.
  An edge of what is stored is an edge of what was judged, and where the check found
  no cycle, any set of subtasks has one without an edge into the set (`SomeIsFree`).
* `NamesKeepMeaning`: `Spec => []SameMeaning`. For each kind of name, the insertion of it that
  counts is found in both maps, and the two are of one child.

The strengthenings were checked with TLC before they were proved.
Observers are part of the theorems of `Scheduler` but the last three: the lemmas on
`ReconciledRow` show that a repair, however old
what it has read, writes neither complete nor running.

Induction over data is out of reach, since the library's induction theorems take an
operator as a parameter, which no installed prover instantiates. Where a proof needs a
minimum (the child through which a node is above another, the foremost node of a walk,
`SomeIsFree`), that strict inclusion of finite sets is well founded (`WFMin` and
`FS_StrictSubsetOrderingWellFounded`, cited as facts about sets) serves instead. `Above`
and `Reached` are therefore closures ("in every set that ...") and not recursive.

Only model-checked: `RootDelivered` with reopens, which holds on two levels only
(`hidden_failure`), and everything that is liveness, which is out of the prover's reach:
`HeadlessEnds`, `Resolved`, `RunsEnd`, `AttemptsEnd`, `WaitEnds`, `NeverBlockedByOutput`,
`EveryTurnSettles`. The other invariants, action properties and the refinement of the
passing runs are proved, each under the conditions named with its theorem.

## 5. What is not modelled

* Gate detection (`verify.rs`) is a table lookup over project files, without state.
* Rendering, scrolling, HTTP, the JSON views, argument parsing, `doctor`: they change no
  shared state.
* Texts: prompts, feedback, evidence, what an answer is parsed from. A decision is its
  verb, a verdict pass or fail. That texts are cut at byte offsets, which may be inside a
  character, is in the list of hazards only.
* Errors of SQLite and of the file system, but for a kill between two writes.
* Two `fractal run` on one project: the code has no lock against them, and no document says
  that they may overlap.
* The compaction of a pruned child's log, `add_interface`, the shell scripts under `bin/`.
* In `Scheduler` no row is ever suspended: escalation is checked in its own module, so
  nothing is shown of an escalation beside a commit, a retry, a Ctrl-C or an observer.
* The end of an agent that has outlived its process, which nothing in the code sees to.
* A ledger row that outlives a retry or a reopening of its node.

## 6. What a next step would be

1. The composition of `Escalation` with the commits of `Scheduler`: a node that is
   replanned while its commit waits for integration.
2. `NodeAttempts` as an implementation of the worker of `Scheduler` (`Deliver`, `Fail`,
   `Checkpoint`), with sets of authors in place of its sets of nodes.
3. What `Escalation` does and no document judges: rows that `delete_node` leaves behind,
   pruned nodes whose workers recreate their directory, owners that are replanned
   by somebody else, and cycles of `depends_on` that rulings close.
