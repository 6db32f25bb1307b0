----------------------------- MODULE Processes -----------------------------
(***************************************************************************)
(* The programs the harness starts and waits for, one at a time here: the  *)
(* agent of a node or of the butler (collect_stream), a gate that should   *)
(* end (run_gate), a gate that launches the application (run_launch_gate), *)
(* and the critic (call_critic).  A program writes lines, may start a      *)
(* process that outlives it and holds its output open, and exits or never  *)
(* does.  The harness polls it against a clock, and how it reads the       *)
(* output differs between the four: through two reader threads, only after *)
(* the exit, from a log file, or until the end of file.                    *)
(*                                                                         *)
(* An operator named ...Faulty is a deliberate mistake: put in place of    *)
(* the definition it precedes, it makes a property of a run fail.          *)
(***************************************************************************)
EXTENDS Naturals

CONSTANTS
  Lines,     \* bound: the lines a program writes, of both its outputs
  Capacity,  \* the lines a pipe holds
  Limit      \* FRACTAL_TIMEOUT, GATE_TIMEOUT_SECS or FRACTAL_LAUNCH_TIMEOUT

\* What the constants must be.
ProcessesAssumption ==
  Lines \in Nat /\ Capacity \in Nat \ {0} /\ Limit \in Nat \ {0}

VARIABLES
  style,         \* which of the four
  output,        \* the lines the program writes before it can exit
  server,        \* it never exits by itself
  program,       \* the process the harness has started
  descendant,    \* a process of its process group, which has its output open
  written,       \* lines written so far
  pipe,          \* lines in the pipe, or in the log file
  channel,       \* lines the reader threads have sent and nobody received
  collected,     \* lines the harness has
  clock, asked,  \* the time it runs; Ctrl-C was pressed
  harness, end   \* polling, reading to the end of file, or returned, and how

settings == <<style, output, server>>
processes == <<program, descendant>>
flow == <<written, pipe, channel, collected>>
vars == <<settings, processes, flow, clock, asked, harness, end>>

Style == {"agent", "gate", "launch", "critic"}
Exited == {"succeeded", "failed", "cannotRun"}

\* The type of the state.
TypeOK ==
  /\ style \in Style /\ output \in 0 .. Lines /\ server \in BOOLEAN
  /\ program \in {"running", "killed", "succeeded", "failed", "cannotRun"}
  /\ descendant \in {"none", "running", "gone"}
  /\ written \in Nat /\ pipe \in Nat /\ channel \in Nat /\ collected \in Nat
  /\ clock \in Nat /\ asked \in BOOLEAN
  /\ harness \in {"polling", "reading", "returned"}
  /\ end \in {"none", "exited", "timedOut", "interrupted", "passed", "failed",
             "manual"}

Init ==
  /\ style \in Style /\ output \in 0 .. Lines /\ server \in BOOLEAN
  /\ program = "running" /\ descendant = "none"
  /\ written = 0 /\ pipe = 0 /\ channel = 0 /\ collected = 0
  /\ clock = 0 /\ asked = FALSE /\ harness = "polling" /\ end = "none"

-----------------------------------------------------------------------------
(* The program. *)

\* A full pipe blocks its writer; a log file takes everything.
Room == style = "launch" \/ pipe < Capacity

Writes ==
  /\ Room /\ written < Lines
  /\ \/ program = "running" /\ written < output
     \/ descendant = "running"
  /\ written' = written + 1 /\ pipe' = pipe + 1
  /\ UNCHANGED <<settings, processes, channel, collected, clock, asked, harness, end>>

Forks ==
  /\ program = "running" /\ descendant = "none"
  /\ descendant' = "running"
  /\ UNCHANGED <<settings, program, flow, clock, asked, harness, end>>

Exits ==
  /\ program = "running" /\ ~server /\ written >= output
  /\ program' \in Exited
  /\ UNCHANGED <<settings, descendant, flow, clock, asked, harness, end>>

DescendantExits ==
  /\ descendant = "running" /\ descendant' = "gone"
  /\ UNCHANGED <<settings, program, flow, clock, asked, harness, end>>

-----------------------------------------------------------------------------
(* The harness. *)

\* Faulty: the clock stops at the limit, which is then never exceeded.
TickFaulty ==
  /\ harness = "polling" /\ style # "critic" /\ clock < Limit
  /\ clock' = clock + 1
  /\ UNCHANGED <<settings, processes, flow, asked, harness, end>>

\* The clock matters to who polls it, up to the limit.
Tick ==
  /\ harness = "polling" /\ style # "critic" /\ clock <= Limit
  /\ clock' = clock + 1
  /\ UNCHANGED <<settings, processes, flow, asked, harness, end>>

\* Ctrl-C, which only an agent's run looks at.
Interrupt ==
  /\ ~asked /\ style = "agent" /\ asked' = TRUE
  /\ UNCHANGED <<settings, processes, flow, clock, harness, end>>

\* Faulty: the pipe is read once the program is over.
ReadsFaulty == style = "agent" /\ program # "running"

\* Who reads while the program runs: the agent's reader threads, which nobody joins,
\* and the critic's output().  A gate's pipe is read after its exit.
Reads == style \in {"agent", "critic"} \/ harness = "reading"

Read ==
  /\ Reads /\ pipe > 0 /\ pipe' = pipe - 1
  /\ IF style = "agent" THEN channel' = channel + 1 /\ UNCHANGED collected
     ELSE harness # "returned" /\ collected' = collected + 1 /\ UNCHANGED channel
  /\ UNCHANGED <<settings, processes, written, clock, asked, harness, end>>

\* try_recv until it is empty.
Drain == collected' = collected + channel /\ channel' = 0

Returns(how) == harness' = "returned" /\ end' = how

\* One turn of the loop in collect_stream: interrupt, timeout, exit.  A kill reaches
\* the program only, and what the readers have not sent yet is not waited for.
PollAgent ==
  /\ style = "agent" /\ harness = "polling"
  /\ Drain
  /\ \/ /\ asked /\ Returns("interrupted")
        /\ program' = IF program = "running" THEN "killed" ELSE program
     \/ /\ ~asked /\ clock > Limit /\ Returns("timedOut")
        /\ program' = IF program = "running" THEN "killed" ELSE program
     \/ /\ ~asked /\ clock <= Limit /\ program # "running" /\ Returns("exited")
        /\ UNCHANGED program
  /\ UNCHANGED <<settings, descendant, written, pipe, clock, asked>>

\* run_gate: an exit is read to the end of file first, a timeout kills the shell.
PollGate ==
  /\ style = "gate" /\ harness = "polling"
  /\ \/ program # "running" /\ harness' = "reading" /\ UNCHANGED <<program, end>>
     \/ /\ program = "running" /\ clock > Limit /\ program' = "killed"
        /\ Returns("failed")
  /\ UNCHANGED <<settings, descendant, flow, clock, asked>>

\* The end of file: every process that has the output open is gone.
EndOfFile == pipe = 0 /\ program # "running" /\ descendant # "running"

\* Faulty: the output of a gate that was read is a success.
VerdictFaulty == "passed"

\* The exit codes 126 and 127 leave a plain gate to the critic.
Verdict ==
  IF program = "succeeded" THEN "passed"
  ELSE IF program = "cannotRun" /\ style = "gate" THEN "manual" ELSE "failed"

\* The output is read to its end; the outcome keeps its tail (truncate_tail).
ReadGate ==
  /\ harness = "reading" /\ EndOfFile /\ Returns(Verdict)
  /\ UNCHANGED <<settings, processes, flow, clock, asked>>

\* Faulty: only the launcher is killed.
GroupKilledFaulty == descendant

\* kill_process_group.
GroupKilled == IF descendant = "running" THEN "gone" ELSE descendant

\* run_launch_gate: an exit before the window has its own verdict, and still running
\* at its end is a success.
PollLaunch ==
  /\ style = "launch" /\ harness = "polling"
  /\ \/ program # "running" /\ Returns(Verdict) /\ UNCHANGED processes
     \/ /\ program = "running" /\ clock >= Limit /\ Returns("passed")
        /\ program' = "killed" /\ descendant' = GroupKilled
  /\ collected' = pipe
  /\ UNCHANGED <<settings, written, pipe, channel, clock, asked>>

\* The critic's output(): no clock, until the end of file.
CriticReturns ==
  /\ style = "critic" /\ harness = "polling" /\ EndOfFile /\ Returns("exited")
  /\ UNCHANGED <<settings, processes, flow, clock, asked>>

-----------------------------------------------------------------------------
Next ==
  \/ Writes \/ Forks \/ Exits \/ DescendantExits \/ Tick \/ Interrupt \/ Read
  \/ PollAgent \/ PollGate \/ ReadGate \/ PollLaunch \/ CriticReturns

\* The harness's threads run; a program owes nothing.
Fairness ==
  /\ WF_vars(Read) /\ WF_vars(PollAgent) /\ WF_vars(PollGate)
  /\ WF_vars(ReadGate) /\ WF_vars(PollLaunch) /\ WF_vars(CriticReturns)

\* Time passes.
TimePasses == WF_vars(Tick)

Spec == Init /\ [][Next]_vars

FairSpec == Spec /\ Fairness

-----------------------------------------------------------------------------
\* "No executor is ever left running after the harness stops", and an application that
\* passed its launch window is gone with everything it started.
NothingLeftRunning ==
  harness = "returned" =>
    /\ program # "running"
    /\ style = "launch" /\ program = "killed" => descendant # "running"

\* A gate that passed exited with success and all its output was read, whichever of its
\* processes wrote it (run_gate keeps the tail); one that was killed did not pass.
PassIsProven ==
  style = "gate" /\ end = "passed" => program = "succeeded" /\ collected = written

\* An agent that writes more than a pipe holds is not blocked by its own output: it
\* can exit or go on writing, and need not wait for its time limit.
NeverBlockedByOutput ==
  [](style = "agent" /\ harness = "polling" => <>(Room \/ harness = "returned"))

\* While time passes, the wait ends: an agent's and a launch's always, a plain gate's
\* unless a process it left behind holds its output, and the critic's unless the critic
\* itself never ends.
WaitEnds == TimePasses =>
  \/ <>(harness = "returned")
  \/ style = "gate" /\ <>[](harness = "reading" /\ descendant = "running")
  \/ style = "critic" /\ <>[](program = "running" \/ descendant = "running")

=============================================================================
