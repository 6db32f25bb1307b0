--------------------------- MODULE ProcessesProofs ---------------------------
(* Theorems about the programs the harness waits for, however much they write, *)
(* whatever the pipe holds and the limit is.                                    *)
EXTENDS Processes, TLAPS

-----------------------------------------------------------------------------
(* What is true beside the two properties.  A program that is over starts      *)
(* nothing more and a gate's lines are in its pipe or collected, so that what  *)
(* holds at the return stays.                                                  *)

Awaited ==
  /\ harness = "returned" => program # "running"
  /\ harness = "reading" => style = "gate" /\ program # "running"
  /\ harness # "returned" => end = "none"
  /\ style = "launch" /\ program = "killed" => descendant # "running"

Collected ==
  style = "gate" =>
    /\ written = pipe + collected
    /\ end = "passed" => program = "succeeded" /\ pipe = 0 /\ descendant # "running"

IInv == TypeOK /\ Awaited /\ Collected

-----------------------------------------------------------------------------
LEMMA InitHolds == Init => IInv
<1> SUFFICES ASSUME Init PROVE IInv
    OBVIOUS
<1> USE DEF Init
<1>1. TypeOK
  BY DEF TypeOK, Style
<1>2. Awaited
  BY DEF Awaited
<1>3. Collected
  <2>1. written = 0 /\ pipe = 0 /\ collected = 0 /\ end = "none"
    OBVIOUS
  <2>2. written = pipe + collected
    BY ONLY <2>1, SMT
  <2> QED BY <2>1, <2>2 DEF Collected
<1> QED BY <1>1, <1>2, <1>3 DEF IInv

\* The steps of a program and of what it has started.
LEMMA ProgramHolds == ASSUME ProcessesAssumption PROVE
  IInv /\ (Writes \/ Forks \/ Exits \/ DescendantExits) => IInv'
<1> SUFFICES ASSUME IInv, Writes \/ Forks \/ Exits \/ DescendantExits PROVE IInv'
    OBVIOUS
<1> USE DEF IInv, TypeOK, Awaited, Collected, Exited, settings, processes, flow
<1>c. Lines \in Nat /\ Capacity \in Nat /\ Limit \in Nat
  BY DEF ProcessesAssumption
<1>n. written \in Nat /\ pipe \in Nat /\ channel \in Nat /\ collected \in Nat /\ clock \in Nat
  OBVIOUS
<1>1. CASE Writes
  <2>1. TypeOK'
    BY <1>1, <1>c, <1>n DEF Writes, Room
  <2>2. Awaited'
    BY <1>1 DEF Writes, Room
  <2>3. Collected'
    BY <1>1, <1>c, <1>n DEF Writes, Room
  <2> QED BY <2>1, <2>2, <2>3
<1>2. CASE Forks
  BY <1>2 DEF Forks
<1>3. CASE Exits
  BY <1>3 DEF Exits, Exited
<1>4. CASE DescendantExits
  BY <1>4 DEF DescendantExits
<1> QED BY <1>1, <1>2, <1>3, <1>4

\* The steps of the harness and of its clock.
LEMMA HarnessHolds == ASSUME ProcessesAssumption PROVE
  /\ IInv
  /\ Tick \/ Interrupt \/ Read \/ PollAgent \/ PollGate \/ ReadGate \/ PollLaunch
       \/ CriticReturns
  => IInv'
<1> SUFFICES ASSUME IInv,
                    Tick \/ Interrupt \/ Read \/ PollAgent \/ PollGate \/ ReadGate
                      \/ PollLaunch \/ CriticReturns
             PROVE  IInv'
    OBVIOUS
<1> USE DEF IInv, TypeOK, Awaited, Collected, Exited, settings, processes, flow, Style
<1>c. Lines \in Nat /\ Capacity \in Nat /\ Limit \in Nat
  BY DEF ProcessesAssumption
<1>n. written \in Nat /\ pipe \in Nat /\ channel \in Nat /\ collected \in Nat /\ clock \in Nat
  OBVIOUS
<1>1. CASE Tick
  BY <1>1 DEF Tick
<1>2. CASE Interrupt
  BY <1>2 DEF Interrupt
<1>3. CASE Read
  BY <1>3 DEF Read, Reads
<1>4. CASE PollAgent
  <2>1. TypeOK'
    BY <1>4, <1>c, <1>n DEF PollAgent, Drain, Returns
  <2>2. Awaited'
    BY <1>4 DEF PollAgent, Drain, Returns
  <2>3. Collected'
    BY <1>4, <1>c, <1>n DEF PollAgent, Drain, Returns
  <2> QED BY <2>1, <2>2, <2>3
<1>5. CASE PollGate
  BY <1>5 DEF PollGate, Returns
<1>6. CASE ReadGate
  <2>1. TypeOK'
    BY <1>6, <1>c, <1>n DEF ReadGate, EndOfFile, Returns, Verdict
  <2>2. Awaited'
    BY <1>6 DEF ReadGate, EndOfFile, Returns, Verdict
  <2>3. Collected'
    BY <1>6, <1>c, <1>n DEF ReadGate, EndOfFile, Returns, Verdict
  <2> QED BY <2>1, <2>2, <2>3
<1>7. CASE PollLaunch
  <2>1. TypeOK'
    BY <1>7, <1>c, <1>n DEF PollLaunch, Returns, Verdict, GroupKilled
  <2>2. Awaited'
    BY <1>7 DEF PollLaunch, Returns, Verdict, GroupKilled
  <2>3. Collected'
    BY <1>7, <1>c, <1>n DEF PollLaunch, Returns, Verdict, GroupKilled
  <2> QED BY <2>1, <2>2, <2>3
<1>8. CASE CriticReturns
  BY <1>8 DEF CriticReturns, EndOfFile, Returns
<1> QED BY <1>1, <1>2, <1>3, <1>4, <1>5, <1>6, <1>7, <1>8

\* No step breaks it.
LEMMA NextHolds == ASSUME ProcessesAssumption PROVE IInv /\ [Next]_vars => IInv'
<1> SUFFICES ASSUME IInv, [Next]_vars PROVE IInv'
    OBVIOUS
<1>1. CASE UNCHANGED vars
  BY <1>1 DEF vars, settings, processes, flow, IInv, TypeOK, Awaited, Collected
<1>2. CASE Next
  BY <1>2, ProgramHolds, HarnessHolds DEF Next
<1> QED BY <1>1, <1>2

\* Every variable keeps its type.
THEOREM TypeCorrect == ASSUME ProcessesAssumption PROVE Spec => []TypeOK
<1>1. Init => IInv
  BY InitHolds
<1>2. IInv /\ [Next]_vars => IInv'
  BY NextHolds
<1>3. IInv => TypeOK
  BY DEF IInv
<1> QED BY <1>1, <1>2, <1>3, PTL DEF Spec

\* Whatever the harness has stopped waiting for is not running, and a launched
\* application that passed is gone with its process group (collect_stream, run_gate,
\* run_launch_gate).
THEOREM NothingRuns == ASSUME ProcessesAssumption PROVE Spec => []NothingLeftRunning
<1>1. Init => IInv
  BY InitHolds
<1>2. IInv /\ [Next]_vars => IInv'
  BY NextHolds
<1>3. IInv => NothingLeftRunning
  BY DEF IInv, Awaited, NothingLeftRunning
<1> QED BY <1>1, <1>2, <1>3, PTL DEF Spec

\* A gate passes by its exit code, and all its processes wrote has been read
\* (run_gate).
THEOREM PassProven == ASSUME ProcessesAssumption PROVE Spec => []PassIsProven
<1>1. Init => IInv
  BY InitHolds
<1>2. IInv /\ [Next]_vars => IInv'
  BY NextHolds
<1>3. IInv => PassIsProven
  BY DEF IInv, TypeOK, Collected, PassIsProven
<1> QED BY <1>1, <1>2, <1>3, PTL DEF Spec

=============================================================================
