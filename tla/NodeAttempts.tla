---------------------------- MODULE NodeAttempts ----------------------------
(***************************************************************************)
(* run_one_node: the attempts of the workers of one batch.  An attempt     *)
(* asks the agent, reads its decision, and acts on it; a completion is     *)
(* held to the contract's gates, then to the critic, then written,         *)
(* committed and settled.  In a parallel batch each worker has a worktree  *)
(* of its own; in a serial one they take turns on the shared tree.         *)
(*                                                                         *)
(* Scheduler has the status column and what follows a batch; Escalation    *)
(* has the rulings.  Here an escalation only resumes, pauses or fails the  *)
(* node.  An edit is its author's: whose agent wrote it, and whether a     *)
(* process the agent left behind wrote it after the agent had ended.       *)
(*                                                                         *)
(* An operator named ...Faulty is a deliberate mistake: put in place of    *)
(* the definition it precedes, it makes a property of a run fail.          *)
(***************************************************************************)
EXTENDS Integers, FiniteSets

CONSTANTS
  Worker,        \* the nodes of the batch
  Batches,       \* which of them have children, gates and acceptance criteria
  MaxAttempts,   \* FRACTAL_MAX_ATTEMPTS, for a serial and for a parallel batch
  Allowance,     \* the tokens granted to each node
  SplitFee,      \* FRACTAL_SPLIT_FEE
  CallTokens,    \* FRACTAL_CALL_TOKENS, of a call of the agent or of the critic
  Offers,        \* bound: the allocations a split may propose, pairs of numbers
  GitFails,      \* git may refuse a commit
  LateVerbs,     \* bound: the decisions that may still come from a process
  Leavers        \* bound: the workers whose agents leave a process behind

Verb == {"complete", "empty", "split", "reopen", "escalate", "stray", "other"}

\* The tree of a serial batch, and in an edit the owner who made it there.
Shared == "shared"

ASSUME AttemptsAssumption ==
  /\ Shared \notin Worker
  /\ Batches \subseteq [Worker -> [parent : BOOLEAN, gated : BOOLEAN, judged : BOOLEAN]]
  /\ MaxAttempts \in [BOOLEAN -> Nat \ {0}] /\ CallTokens \in Nat \ {0}
  /\ {Allowance, SplitFee} \subseteq Nat /\ Offers \subseteq Nat \X Nat
  /\ LateVerbs \subseteq Verb /\ Leavers \subseteq Worker /\ GitFails \in BOOLEAN

VARIABLES
  parallel,      \* the batch runs in worktrees
  contract,      \* has it children, gates, acceptance criteria
  job,           \* where the worker is
  tree,          \* the uncommitted edits of its worktree, or of the shared tree
  commits,       \* the edits it has committed
  evidence,      \* the edits the gates and the critic were shown last
  file,          \* .fractal_decision_<node> in its tree
  orphan,        \* the agent has left a process behind
  criticDir,     \* fractal_critic_<pid>, one for the process, exists
  ledger,        \* calls, fee and children of its budget row
  interrupted    \* INTERRUPTED

settings == <<parallel, contract>>
worked == <<tree, commits, evidence>>
vars == <<settings, job, worked, file, orphan, criticDir, ledger, interrupted>>

Author == Worker \cup {Shared}     \* Shared: the owner of an assumption, asked to rule
Edit == [by : Author, late : BOOLEAN]
Silent == "silent"
PC == {"queued", "attempt", "asking", "decide", "opening", "spawning", "judging",
       "accepted", "commit", "exhausted", "settle", "out"}
Outcome == {"none", "complete", "failed", "left"}
Job == [pc : PC, verb : Verb \cup {Silent}, attempt : Nat,
        pre : Int, contested : BOOLEAN, manual : BOOLEAN,
        outcome : Outcome, kept : BOOLEAN]
Ledger == [calls : Nat, fee : Nat, children : Nat]

\* Faulty: the worker stays on the shared tree.
PlaceFaulty(w) == Shared

\* The tree w works in: work_root.
Place(w) == IF parallel THEN w ELSE Shared

\* The type of the state.
TypeOK ==
  /\ parallel \in BOOLEAN /\ contract \in Batches
  /\ job \in [Worker -> Job] /\ ledger \in [Worker -> Ledger]
  /\ tree \in [Author -> SUBSET Edit]
  /\ commits \in [Worker -> SUBSET Edit] /\ evidence \in [Worker -> SUBSET Edit]
  /\ file \in [Worker -> Verb \cup {Silent}]
  /\ orphan \in [Worker -> BOOLEAN] /\ criticDir \in BOOLEAN /\ interrupted \in BOOLEAN

-----------------------------------------------------------------------------
Init ==
  /\ parallel \in BOOLEAN /\ contract \in Batches
  /\ job = [w \in Worker |->
              [pc |-> "queued", verb |-> Silent, attempt |-> 0, pre |-> 0,
               contested |-> FALSE, manual |-> FALSE, outcome |-> "none", kept |-> FALSE]]
  /\ tree = [a \in Author |-> {}]
  /\ commits = [w \in Worker |-> {}] /\ evidence = [w \in Worker |-> {}]
  /\ file = [w \in Worker |-> Silent] /\ orphan = [w \in Worker |-> FALSE]
  /\ criticDir = FALSE /\ interrupted = FALSE
  /\ ledger = [w \in Worker |-> [calls |-> 0, fee |-> 0, children |-> 0]]

Goes(w, pc) == job' = [job EXCEPT ![w] = [@ EXCEPT !.pc = pc, !.verb = Silent, !.pre = 0]]
At(w, pc) == job[w].pc = pc

\* The worker returns; what it did not reach in its tree is settled by the caller.
Ends(w, outcome) ==
  job' = [job EXCEPT ![w] = [@ EXCEPT !.pc = "settle", !.verb = Silent, !.pre = 0,
                                      !.attempt = 0, !.outcome = outcome]]

\* The next attempt.
Again(w) == Goes(w, "attempt")

\* budget_remaining: one split-fee is set aside.
Remaining(w) ==
  Allowance - ledger[w].calls - ledger[w].fee - ledger[w].children - SplitFee

\* charge_call: the model was called, whatever it answered.
Charge(w) == ledger' = [ledger EXCEPT ![w].calls = @ + CallTokens]

\* A node whose allowance is spent fails before it runs, unless it aggregates.
Begin(w) ==
  /\ At(w, "queued") /\ ~interrupted
  /\ parallel \/ \A v \in Worker : job[v].pc \in {"queued", "out"}
  /\ IF ~contract[w].parent /\ Remaining(w) <= 0 THEN Ends(w, "failed") ELSE Again(w)
  /\ UNCHANGED <<settings, worked, file, orphan, criticDir, ledger, interrupted>>

\* Faulty: the attempts are not counted.
AttemptFaulty(w) ==
  /\ At(w, "attempt")
  /\ \/ interrupted /\ Ends(w, "left")
     \/ ~interrupted /\ job' = [job EXCEPT ![w].pc = "asking", ![w].pre = Remaining(w)]
  /\ UNCHANGED <<settings, worked, file, orphan, criticDir, ledger, interrupted>>

\* The top of the loop: the allowance is read before the call is charged.
Attempt(w) ==
  /\ At(w, "attempt")
  /\ \/ interrupted /\ Ends(w, "left")
     \/ ~interrupted /\ job[w].attempt = MaxAttempts[parallel] /\ Goes(w, "exhausted")
     \/ /\ ~interrupted /\ job[w].attempt < MaxAttempts[parallel]
        /\ job' = [job EXCEPT ![w] = [job[w] EXCEPT !.pc = "asking", !.pre = Remaining(w),
                                                    !.attempt = job[w].attempt + 1]]
  /\ UNCHANGED <<settings, worked, file, orphan, criticDir, ledger, interrupted>>

\* The agent writes in its tree.
Edits(w, late) ==
  tree' = [tree EXCEPT ![Place(w)] = @ \cup {[by |-> w, late |-> late]}]

\* It cannot be started: nothing is charged.
AgentMissing(w) ==
  /\ At(w, "asking") /\ Again(w)
  /\ UNCHANGED <<settings, worked, file, orphan, criticDir, ledger, interrupted>>

\* It exits, or is killed at its timeout or at the interrupt, and has edited the tree
\* or not: nobody looks before.  Its decision is the file, else the transcript; the file is
\* consumed and the call charged before the kill, which discards the decision, counts.
AgentEnds(w) ==
  /\ At(w, "asking")
  /\ \E said \in Verb \cup {Silent}, killed \in BOOLEAN, left \in SUBSET (Leavers \cap {w}) :
       LET verb == IF file[w] # Silent THEN file[w] ELSE said IN
       /\ orphan' = [orphan EXCEPT ![w] = left # {}]
       /\ IF killed \/ verb = Silent THEN Again(w)
          ELSE job' = [job EXCEPT ![w].pc = "decide", ![w].verb = verb]
  /\ UNCHANGED tree \/ Edits(w, FALSE)
  /\ file' = [file EXCEPT ![w] = Silent]
  /\ Charge(w)
  /\ UNCHANGED <<settings, commits, evidence, criticDir, interrupted>>

\* A process it left behind writes a decision or an edit later.
OrphanWrites(w) ==
  /\ orphan[w] /\ orphan' = [orphan EXCEPT ![w] = FALSE]
  /\ \/ /\ ~At(w, "out") /\ \E verb \in LateVerbs : file' = [file EXCEPT ![w] = verb]
        /\ UNCHANGED tree
     \/ Edits(w, TRUE) /\ UNCHANGED file
  /\ UNCHANGED <<settings, job, commits, evidence, criticDir, ledger, interrupted>>

-----------------------------------------------------------------------------
(* What the decision says is done. *)

Decided(w, verb) == At(w, "decide") /\ job[w].verb = verb

\* Faulty: the check uses what is left when the node began, whatever it has spent.
FitsFaulty(w, offer) == SplitFee + offer[1] + offer[2] <= Allowance - SplitFee

\* The fee and the proposed allocations fit what the attempt began with.
Fits(w, offer) == SplitFee + offer[1] + offer[2] <= job[w].pre

\* Faulty: what is left may be negative.
GrantedFaulty(w, offer) ==
  LET open == Cardinality({i \in {1, 2} : offer[i] = 0})
  IN  IF open = 0 THEN offer[1] + offer[2]
      ELSE offer[1] + offer[2] + open * ((Remaining(w) - offer[1] - offer[2]) \div open)

\* The deciding call's own tokens are not held against the split, but the children
\* that propose no allocation share what is left after them.
Granted(w, offer) ==
  LET explicit == offer[1] + offer[2]
      open == Cardinality({i \in {1, 2} : offer[i] = 0})
      left == IF Remaining(w) > explicit
                THEN Remaining(w) - explicit ELSE 0
  IN  IF open = 0 THEN explicit ELSE explicit + open * (left \div open)

\* add_children: the fee is paid and a ledger row opened for each child.
Split(w) ==
  /\ Decided(w, "split") /\ ~contract[w].parent
  /\ \E offer \in Offers :
       /\ Fits(w, offer)
       /\ ledger' = [ledger EXCEPT ![w].fee = @ + SplitFee,
                                   ![w].children = @ + Granted(w, offer)]
  /\ Ends(w, "left")
  /\ UNCHANGED <<settings, worked, file, orphan, criticDir, interrupted>>

\* reopen_children: the node is split again.
Reopen(w) ==
  /\ Decided(w, "reopen") /\ contract[w].parent
  /\ Ends(w, "left")
  /\ UNCHANGED <<settings, worked, file, orphan, criticDir, ledger, interrupted>>

\* The owner edits the shared tree while it rules; in a parallel batch its edits are
\* committed under its own name at once.  The ruling resumes, pauses or fails w.
Escalate(w) ==
  /\ Decided(w, "escalate")
  /\ \/ Again(w) \/ Ends(w, "left") \/ Ends(w, "failed")
  /\ tree' \in {tree} \cup
       (IF parallel THEN {}
        ELSE {[tree EXCEPT ![Shared] = @ \cup {[by |-> Shared, late |-> FALSE]}]})
  /\ UNCHANGED <<settings, commits, evidence, file, orphan, criticDir, ledger, interrupted>>

\* escalate_resolve from a node nobody asked is terminal.
Stray(w) ==
  /\ Decided(w, "stray") /\ Ends(w, "failed")
  /\ UNCHANGED <<settings, worked, file, orphan, criticDir, ledger, interrupted>>

\* A leaf without an own gate must have changed something.
Unproven(w) == ~contract[w].parent /\ tree[Place(w)] = {} /\ ~contract[w].gated

Completes(w) == Decided(w, "complete") \/ (Decided(w, "empty") /\ contract[w].parent)

\* Refused with feedback: a split too deep, ill formed, over budget or by a node that
\* has split; a reopen by a leaf or that matches no child; an empty or unproven
\* completion; a note, which is only stored; and anything else.
Refuse(w) ==
  /\ At(w, "decide")
  /\ \/ job[w].verb \in {"split", "reopen", "other"}
     \/ Decided(w, "empty") /\ ~contract[w].parent
     \/ Completes(w) /\ Unproven(w)
  /\ Again(w)
  /\ UNCHANGED <<settings, worked, file, orphan, criticDir, ledger, interrupted>>

-----------------------------------------------------------------------------
(* A completion is verified, written and committed. *)

\* The gates run in order and stop at the first that fails; one that cannot be
\* executed is left to the critic.  Their own runtime files are ignored.
Gates(w) ==
  /\ Completes(w) /\ contract[w].gated
  /\ \E ran \in {"passed", "manual", "failed"} :
       job' = [job EXCEPT ![w] =
                 [@ EXCEPT !.pc = IF ran = "failed" THEN "attempt" ELSE "opening",
                           !.verb = Silent, !.pre = 0, !.manual = @ \/ ran = "manual"]]
  /\ UNCHANGED <<settings, worked, file, orphan, criticDir, ledger, interrupted>>

\* verify_node collects the evidence; call_critic creates the directory,
OpenCritic(w) ==
  /\ At(w, "opening") \/ (Completes(w) /\ ~contract[w].gated /\ ~Unproven(w))
  /\ evidence' = [evidence EXCEPT ![w] = tree[Place(w)]]
  /\ criticDir' = TRUE
  /\ Goes(w, "spawning")
  /\ UNCHANGED <<settings, tree, commits, file, orphan, ledger, interrupted>>

\* and starts the critic in it: an error if there is none to start, or if another
\* worker's critic has just removed the directory.
SpawnCritic(w) ==
  /\ At(w, "spawning")
  /\ \/ criticDir /\ Goes(w, "judging")
     \/ Again(w)
  /\ UNCHANGED <<settings, worked, file, orphan, criticDir, ledger, interrupted>>

\* A verdict must grade the node's own criteria, if it has any.
Counts(w, own) == own \/ ~contract[w].judged

\* The critic answers, in its own time; what cannot be read is a FAIL.
CriticAnswers(w) ==
  /\ At(w, "judging")
  /\ \E pass, own \in BOOLEAN :
       job' = IF pass /\ Counts(w, own) THEN [job EXCEPT ![w].pc = "accepted"]
              ELSE [job EXCEPT ![w].pc = "attempt", ![w].contested = TRUE]
  /\ criticDir' = FALSE
  /\ Charge(w)
  /\ UNCHANGED <<settings, worked, file, orphan, interrupted>>

\* complete() writes the declared artifacts into the tree, after the verdict; an
\* error there ends the worker.
Accept(w) ==
  /\ At(w, "accepted")
  /\ \/ (UNCHANGED tree \/ Edits(w, FALSE)) /\ Goes(w, "commit")
     \/ Edits(w, FALSE) /\ Ends(w, "failed")
     \/ UNCHANGED tree /\ Ends(w, "failed")
  /\ UNCHANGED <<settings, commits, evidence, file, orphan, criticDir, ledger, interrupted>>

\* commit_node_work stages everything there is in the tree, if git lets it.
Commits(w) ==
  \/ /\ commits' = [commits EXCEPT ![w] = @ \cup tree[Place(w)]]
     /\ tree' = [tree EXCEPT ![Place(w)] = {}]
  \/ GitFails /\ UNCHANGED <<tree, commits>>

Commit(w) ==
  /\ At(w, "commit") /\ Commits(w) /\ Ends(w, "complete")
  /\ UNCHANGED <<settings, evidence, file, orphan, criticDir, ledger, interrupted>>

\* The attempts are used up.  Work the critic rejected, or whose gate could not be
\* executed, is committed as a checkpoint.
Exhausted(w) ==
  /\ At(w, "exhausted")
  /\ IF (job[w].contested \/ job[w].manual) /\ tree[Place(w)] # {}
       THEN Commits(w) ELSE UNCHANGED <<tree, commits>>
  /\ job' = [job EXCEPT ![w] = [@ EXCEPT !.pc = "settle", !.attempt = 0,
                                         !.outcome = "failed",
                                         !.kept = tree' # tree]]
  /\ UNCHANGED <<settings, evidence, file, orphan, criticDir, ledger, interrupted>>

\* Faulty: a failed node's edits stay.
DiscardsFaulty(w) == parallel

\* A worktree goes with all it holds.  The shared tree is reset for a failed node,
\* but not for one that split, reopened, paused or was interrupted.
Discards(w) == parallel \/ (job[w].outcome = "failed" /\ ~job[w].kept)

Settle(w) ==
  /\ At(w, "settle")
  /\ job' = [job EXCEPT ![w] = [@ EXCEPT !.pc = "out", !.contested = FALSE,
                                         !.manual = FALSE]]
  /\ tree' = IF Discards(w) THEN [tree EXCEPT ![Place(w)] = {}] ELSE tree
  /\ orphan' = [orphan EXCEPT ![w] = @ /\ ~parallel]
  /\ evidence' = [evidence EXCEPT ![w] = {}] /\ file' = [file EXCEPT ![w] = Silent]
  /\ UNCHANGED <<settings, commits, criticDir, ledger, interrupted>>

Interrupt ==
  /\ ~interrupted /\ interrupted' = TRUE
  /\ UNCHANGED <<settings, job, worked, file, orphan, criticDir, ledger>>

-----------------------------------------------------------------------------
\* The harness's own steps, and the call that FRACTAL_TIMEOUT bounds.  A gate or a
\* critic may take for ever (see Processes).
Work(w) ==
  \/ Begin(w) \/ Attempt(w) \/ AgentMissing(w) \/ AgentEnds(w)
  \/ Split(w) \/ Reopen(w) \/ Escalate(w) \/ Stray(w) \/ Refuse(w)
  \/ OpenCritic(w) \/ SpawnCritic(w)
  \/ Accept(w) \/ Commit(w) \/ Exhausted(w) \/ Settle(w)

Next ==
  \/ \E w \in Worker : Work(w) \/ Gates(w) \/ CriticAnswers(w) \/ OrphanWrites(w)
  \/ Interrupt

Spec == Init /\ [][Next]_vars

FairSpec == Spec /\ \A w \in Worker : WF_vars(Work(w))

-----------------------------------------------------------------------------
\* In a parallel batch a node commits its own edits only (scheduler.rs: "any single
\* node's contribution stays attributable"), whatever the others' agents do meanwhile.
CommitIsOwnWork ==
  parallel => \A w \in Worker : \A e \in commits[w] \cup evidence[w] : e.by = w

\* What a failed node's agent wrote before it ended never reaches another node's
\* commit: "a terminally failed node must not leave its half-written work where a
\* later node could see it".
FailedStaysOut ==
  \A v, w \in Worker :
    v # w /\ At(w, "out") /\ job[w].outcome = "failed" /\ ~job[w].kept =>
      [by |-> w, late |-> FALSE] \notin commits[v] \cup evidence[v]

\* Whatever its attempts have spent, a node that splits grants its children at most
\* what is left of its own allowance, but for the deciding call, which the split-fee
\* set aside may not cover.
SplitWithinAllowance ==
  \A w \in Worker : ledger[w].children > 0 =>
    ledger[w].calls + ledger[w].fee + ledger[w].children
      <= Allowance + (IF CallTokens > SplitFee THEN CallTokens - SplitFee ELSE 0)

\* Every worker of a batch returns, unless a gate or a critic never does.
AttemptsEnd ==
  \/ \A w \in Worker : <>(At(w, "out") \/ (interrupted /\ At(w, "queued")))
  \/ \E w \in Worker : <>[](At(w, "judging") \/ (Completes(w) /\ contract[w].gated))

=============================================================================
