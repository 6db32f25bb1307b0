----------------------------- MODULE MCServices -----------------------------
(***************************************************************************)
(* What goes on around the run loop, for TLC: the programs it waits for,   *)
(* the butler's turns, steering, what is remembered, and the topology of a *)
(* split.  The parts share no state, so a behaviour is one of one part.    *)
(***************************************************************************)
EXTENDS Naturals, Sequences

CONSTANTS
  Lines, Capacity, Limit,
  Server, Ask, MaxTurns, Requests, Starts, Beside, Races,
  Walk, ParentOf, AtStart, Worker, Text, Goal, Commands, MidRun,
  Scribe, MemoryLines, Notes, MidWrite,
  Given, Spaces, Width, MaxKids

VARIABLES
  part,
  style, output, server, program, descendant, written, pipe, channel, collected, clock,
  asked, harness, end,
  conversation, torn, up, lock, session, plan, recorded, orphans, lost,
  claimed, starts,
  nodes, terms, goal, law, queue, typed, taken, loop, edit, heir,
  memory, forged, digest, scribe, entries, entryFile, note, requested,
  kids, done

\* The modules of the theorems, so that ServicesProofs can cite them.
P == INSTANCE ProcessesProofs
C == INSTANCE ConversationProofs
S == INSTANCE Steering
M == INSTANCE MemoryProofs
T == INSTANCE SplitTopology

ASSUME ServicesAssumption ==
  /\ P!ProcessesAssumption /\ C!ConversationAssumption /\ S!SteeringAssumption
  /\ M!MemoryAssumption /\ T!TopologyAssumption

programs == <<style, output, server, program, descendant, written, pipe, channel, collected,
              clock, asked, harness, end>>
turns == <<conversation, torn, up, lock, session, plan, recorded, orphans, lost, claimed,
           starts>>
steering == <<nodes, terms, goal, law, queue, typed, taken, loop, edit, heir>>
remembered == <<memory, forged, digest, scribe, entries, entryFile, note, requested>>
topology == <<kids, done>>
vars == <<part, programs, turns, steering, remembered, topology>>

\* The root, and the two children it may be split into.
Family == <<"root", "left", "right">>
FamilyParent == [n \in {"left", "right"} |-> "root"]
Alone == {"root"}

\* A part that is not the behaviour's rests.
Resting ==
  /\ part # "programs" =>
       /\ style = "gate" /\ output = 0 /\ ~server /\ program = "succeeded"
       /\ harness = "returned" /\ end = "passed"
  /\ part = "programs" => program = "running" /\ harness = "polling" /\ end = "none"

ProgramsInit ==
  /\ style \in P!Style /\ output \in 0 .. Lines /\ server \in BOOLEAN
  /\ program \in {"running", "succeeded"} /\ descendant = "none"
  /\ written = 0 /\ pipe = 0 /\ channel = 0 /\ collected = 0
  /\ clock = 0 /\ asked = FALSE /\ harness \in {"polling", "returned"}
  /\ end \in {"none", "passed"}

Init ==
  /\ part \in {"programs", "turns", "steering", "memory", "topology"}
  /\ ProgramsInit /\ Resting /\ C!Init /\ S!Init /\ M!Init /\ T!Init

Programs == part = "programs" /\ UNCHANGED <<part, turns, steering, remembered, topology>>
Turns == part = "turns" /\ UNCHANGED <<part, programs, steering, remembered, topology>>
Steered == part = "steering" /\ UNCHANGED <<part, programs, turns, remembered, topology>>
Noted == part = "memory" /\ UNCHANGED <<part, programs, turns, steering, topology>>
Divided == part = "topology" /\ UNCHANGED <<part, programs, turns, steering, remembered>>

Next ==
  \/ Programs /\ P!Writes
  \/ Programs /\ P!Forks
  \/ Programs /\ P!Exits
  \/ Programs /\ P!DescendantExits
  \/ Programs /\ P!Tick
  \/ Programs /\ P!Interrupt
  \/ Programs /\ P!Read
  \/ Programs /\ P!PollAgent
  \/ Programs /\ P!PollGate
  \/ Programs /\ P!ReadGate
  \/ Programs /\ P!PollLaunch
  \/ Programs /\ P!CriticReturns
  \/ \E p \in C!Process : Turns /\ C!Start(p)
  \/ \E p \in C!Process : Turns /\ C!Claim(p)
  \/ \E p \in C!Process : Turns /\ C!Exit(p)
  \/ \E p \in C!Process : Turns /\ C!Truncate(p)
  \/ \E p \in C!Process : Turns /\ C!Write(p)
  \/ \E p \in C!Process, t \in 1 .. Requests : Turns /\ C!Run(p, t)
  \/ \E t \in 1 .. Requests : Turns /\ C!Plan(t)
  \/ \E p \in C!Process, t \in 1 .. Requests : Turns /\ C!AgentEnds(p, t)
  \/ \E p \in C!Process, t \in 1 .. Requests : Turns /\ C!Settle(p, t)
  \/ \E w \in S!Writer : Steered /\ S!ReadTerms(w)
  \/ \E w \in S!Writer : Steered /\ S!WriteTerms(w)
  \/ \E w \in S!Writer : Steered /\ S!EndEdit(w)
  \/ \E n \in S!Place : Steered /\ S!Tool(n)
  \/ \E n \in S!Place, text \in Text : Steered /\ S!Type(n, text)
  \/ Steered /\ S!StartRun
  \/ Steered /\ S!DrainSelect
  \/ Steered /\ S!DrainDelete
  \/ Steered /\ S!Apply
  \/ Steered /\ S!StartBatch
  \/ Steered /\ S!EndBatch
  \/ \E w \in Worker : Steered /\ S!SplitWrites(w)
  \/ \E w \in Worker, n \in S!Place : Steered /\ S!SplitReads(w, n)
  \/ \E w \in Worker, n \in S!Place, old, new \in Text :
       Steered /\ old # new /\ S!Rules(w, n, old, new)
  \/ \E s \in Scribe : Noted /\ M!Check(s)
  \/ \E s \in Scribe : Noted /\ M!AppendLine(s)
  \/ \E s \in Scribe : Noted /\ M!Hash(s)
  \/ \E s \in Scribe : Noted /\ M!Record(s)
  \/ \E s \in Scribe, old \in M!Live \cup {0} : Noted /\ M!Propose(s, old)
  \/ \E s \in Scribe : Noted /\ M!Count(s)
  \/ \E s \in Scribe : Noted /\ M!Supersede(s)
  \/ \E s \in Scribe : Noted /\ M!Insert(s)
  \/ \E s \in Scribe : Noted /\ M!WriteEntry(s)
  \/ \E s \in Scribe : Noted /\ M!Kill(s)
  \/ Noted /\ M!Forge
  \/ Divided /\ T!Split
  \/ \E i \in 1 .. MaxKids : Divided /\ T!Complete(i)

Spec == Init /\ [][Next]_vars

FairSpec == Spec /\ P!Fairness /\ C!Fairness

-----------------------------------------------------------------------------
\* The type of each part's state.
TypeOK == P!TypeOK /\ C!TypeOK /\ S!TypeOK /\ M!TypeOK /\ T!TypeOK

\* Processes: nothing the harness started outlives its answer.
NothingLeftRunning == P!NothingLeftRunning

\* Processes: a gate that passed exited with success, and all its output was read.
PassIsProven == P!PassIsProven

\* Processes: an agent is never blocked by its own output, whatever its limit.
NeverBlockedByOutput == P!NeverBlockedByOutput

\* Processes: while time passes a wait ends, but for a gate's descendant and for a critic.
WaitEnds == P!WaitEnds

\* Conversation: one butler's agent at a time, but for one that outlived its process.
OneAgent == C!OneAgent

\* Conversation: a turn's plan is its own session's, or of an agent that outlived its process.
PlanIsOwn == C!PlanIsOwn

\* Conversation: what is shown as working is at work, or was killed since a recovery.
NoPhantom == C!NoPhantom

\* Conversation: a settled turn stays as it was settled.
SettledStays == C!SettledStays

\* Conversation: a claimed request is settled while its process lives.
EveryTurnSettles == C!EveryTurnSettles

\* Steering: every node is under the constraints applied to its branch.
BranchConstrained == S!BranchConstrained

\* Steering: the goal that is shown is the contract's.
GoalShown == S!GoalShown

\* Memory: an outsider's line shows, or was noted.
ForgeryShows == M!ForgeryShows

\* Memory: the file of a global entry holds its row's note.
EntryIsOwn == M!EntryIsOwn

\* SplitTopology: an accepted split can be run to its end.
Schedulable == T!Schedulable

\* SplitTopology: the names of a split mean to the store what they were judged by.
SameMeaning == part = "topology" => T!SameMeaning

=============================================================================
