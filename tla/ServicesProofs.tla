--------------------------- MODULE ServicesProofs ---------------------------
(* The theorems of the parts, of a behaviour of the services: every step is one *)
(* of one part, and the others stand still.                                     *)
EXTENDS MCServices, FiniteSetTheorems, SequenceTheorems, TLAPS

-----------------------------------------------------------------------------
(* The programs.  A part that rests has a program that is over, so that what is *)
(* proved of a waiting harness is shown from its invariant.                     *)

LEMMA ProgramsStart == Init => P!IInv
<1> SUFFICES ASSUME Init PROVE P!IInv
    OBVIOUS
<1>1. ProgramsInit /\ Resting
  BY DEF Init
<1>2. P!TypeOK
  BY <1>1 DEF ProgramsInit, P!TypeOK
<1>3. \/ harness = "polling" /\ program = "running" /\ end = "none"
      \/ harness = "returned" /\ program = "succeeded" /\ end = "passed"
  BY <1>1 DEF Resting
<1>4. P!Awaited
  BY <1>3 DEF P!Awaited
<1>5. written = 0 /\ pipe = 0 /\ collected = 0 /\ descendant = "none"
  BY <1>1 DEF ProgramsInit
<1>6. P!Collected
  <2>1. written = pipe + collected
    BY <1>5
  <2> QED BY <1>3, <1>5, <2>1 DEF P!Collected
<1> QED BY <1>2, <1>4, <1>6 DEF P!IInv

LEMMA ProgramsStep == [Next]_vars => [P!Next]_(P!vars)
<1> USE DEF Programs, Turns, Steered, Noted, Divided
<1>1. CASE Next /\ Programs
  BY <1>1 DEF Next, P!Next
<1>2. CASE (Next /\ ~Programs) \/ UNCHANGED vars
  BY <1>2 DEF Next, vars, programs, P!vars, P!settings, P!processes, P!flow
<1> QED BY <1>1, <1>2

LEMMA ProgramsHold == P!IInv /\ [Next]_vars => P!IInv'
BY ProgramsStep, P!NextHolds, ServicesAssumption

\* No program outlives the answer of the harness: collect_stream, run_gate,
\* run_launch_gate, call_critic.
THEOREM NothingRuns == Spec => []NothingLeftRunning
<1>1. P!IInv => NothingLeftRunning
  BY DEF P!IInv, P!Awaited, P!NothingLeftRunning, NothingLeftRunning
<1> QED BY <1>1, ProgramsStart, ProgramsHold, PTL DEF Spec

\* A gate that passed exited with success, and all its output was read: run_gate.
THEOREM PassProven == Spec => []PassIsProven
<1>1. P!IInv => PassIsProven
  BY DEF P!IInv, P!TypeOK, P!Collected, P!PassIsProven, PassIsProven
<1> QED BY <1>1, ProgramsStart, ProgramsHold, PTL DEF Spec

-----------------------------------------------------------------------------
(* The turns and what is remembered: their behaviours are the parts'. *)

LEMMA TurnsImplemented == Spec => C!Spec
<1>1. Init => C!Init
  BY DEF Init
<1>2. [Next]_vars => [C!Next]_(C!vars)
  <2> USE DEF Programs, Turns, Steered, Noted, Divided
  <2>1. CASE Next /\ Turns
    BY <2>1 DEF Next, C!Next
  <2>2. CASE (Next /\ ~Turns) \/ UNCHANGED vars
    BY <2>2 DEF Next, vars, turns, C!vars, C!store, C!left
  <2> QED BY <2>1, <2>2
<1> QED BY <1>1, <1>2, PTL DEF Spec, C!Spec

\* The tree has one steering agent at a time, but for one that outlived its process and
\* whose turn a server has failed since: begin_turn.
THEOREM OneAgentAtATime == ASSUME ~Beside, ~Races PROVE Spec => []OneAgent
<1>1. C!Spec => []C!OneAgent
  BY C!OneAgentAtATime, ServicesAssumption
<1> QED BY <1>1, TurnsImplemented, PTL DEF OneAgent

\* A turn is shown with its own session's plan, with none, or with that of an agent that
\* outlived its process: run_session, finish.
THEOREM PlanStaysOwn == ASSUME ~Beside, ~Races PROVE Spec => []PlanIsOwn
<1>1. C!Spec => []C!PlanIsOwn
  BY C!PlanStaysOwn, ServicesAssumption
<1> QED BY <1>1, TurnsImplemented, PTL DEF PlanIsOwn

\* A turn that is shown as working is at work, or was left by a process killed since a
\* server last recovered the file: recover_interrupted, begin_turn.
THEOREM NoPhantomTurn == ASSUME ~Beside, ~Races PROVE Spec => []NoPhantom
<1>1. C!Spec => []C!NoPhantom
  BY C!NoPhantomTurn, ServicesAssumption DEF ServicesAssumption
<1> QED BY <1>1, TurnsImplemented, PTL DEF NoPhantom

\* A turn that was settled stays as it was settled: update_turn, recover_interrupted.
THEOREM SettledOnce == ASSUME ~Beside, ~Races PROVE Spec => SettledStays
<1>1. C!Spec => C!SettledStays
  BY C!SettledOnce, ServicesAssumption DEF ServicesAssumption
<1> QED BY <1>1, TurnsImplemented, PTL DEF SettledStays

LEMMA MemoryImplemented == Spec => M!Spec
<1>1. Init => M!Init
  BY DEF Init
<1>2. [Next]_vars => [M!Next]_(M!vars)
  <2> USE DEF Programs, Turns, Steered, Noted, Divided
  <2>1. CASE Next /\ Noted
    <3>1. ASSUME NEW s \in Scribe, NEW old \in M!Live \cup {0}, M!Propose(s, old)
          PROVE  M!Next
      BY <3>1 DEF M!Next, M!None
    <3> QED BY <2>1, <3>1 DEF Next, M!Next
  <2>2. CASE (Next /\ ~Noted) \/ UNCHANGED vars
    BY <2>2 DEF Next, vars, remembered, M!vars, M!remembered, M!shared
  <2> QED BY <2>1, <2>2
<1> QED BY <1>1, <1>2, PTL DEF Spec, M!Spec

\* What an outsider adds to a node's memory while the harness does not write shows
\* until it is noted: append_decision, memory_intact, record_memory_digest.
THEOREM ForgeryIsSeen == ASSUME ~MidWrite PROVE Spec => []ForgeryShows
<1>1. M!Spec => []M!ForgeryShows
  BY M!ForgeryIsSeen
<1> QED BY <1>1, MemoryImplemented, PTL DEF ForgeryShows

\* The file of a global entry holds its own row's note: note_global, next_global_id.
THEOREM EntryStaysOwn == Spec => []EntryIsOwn
<1>1. M!Spec => []M!EntryIsOwn
  BY M!EntryStaysOwn, ServicesAssumption
<1> QED BY <1>1, MemoryImplemented, PTL DEF EntryIsOwn

-----------------------------------------------------------------------------
(* Numbers.  The induction theorems of the library take an operator, which the  *)
(* provers cannot instantiate; that strict inclusion of finite sets is well     *)
(* founded serves instead.                                                      *)

\* A set of numbers has a least element.
LEMMA Least ==
  ASSUME NEW set \in SUBSET Nat, set # {}
  PROVE  \E i \in set : \A j \in set : i <= j
<1> DEFINE Below(i) == 0 .. i
           all == {Below(i) : i \in set}
           R == StrictSubsetOrdering(Nat)
<1>1. \A i \in Nat : Below(i) \in FiniteSubsetsOf(Nat)
  BY FS_Interval DEF FiniteSubsetsOf
<1>2. all \subseteq FiniteSubsetsOf(Nat) /\ all # {}
  BY <1>1
<1>3. IsWellFoundedOn(R, FiniteSubsetsOf(Nat))
  BY FS_StrictSubsetOrderingWellFounded
<1> HIDE DEF all, R
<1>4. PICK x \in all : \A y \in all : ~ (<<y, x>> \in R)
  BY <1>2, <1>3, WFMin
<1>5. PICK i \in set : x = Below(i)
  BY <1>4 DEF all
<1>6. ASSUME NEW j \in set, ~(i <= j) PROVE FALSE
  <2>1. j \in Nat /\ i \in Nat /\ j < i
    BY <1>6
  <2>2. Below(j) \in SUBSET Nat /\ Below(i) \in SUBSET Nat /\ Below(j) \subseteq Below(i)
        /\ i \in Below(i) /\ i \notin Below(j)
    BY <2>1
  <2> HIDE DEF Below
  <2>3. <<Below(j), Below(i)>> \in R
    BY <2>2 DEF R, StrictSubsetOrdering
  <2> QED BY <1>4, <1>5, <2>3 DEF all
<1> QED BY <1>6

-----------------------------------------------------------------------------
(* Steering, while the butler's tools rest during a run. *)

\* A change is of constraints or of a goal, at a node there is, by who may make it, and
\* holds what the file of its next node still says.
InStep(w) ==
  LET e == edit[w] IN
    /\ e.at \in nodes /\ e.todo \subseteq nodes
    /\ e.op \in {"add", "amend"} => e.new \in Text
    /\ e.op = "goal" => w = "tool" /\ e.new \in Goal /\ e.todo \subseteq {e.at}
                        /\ (e.todo = {} => terms[e.at].goal = e.new)
    /\ e.held # S!Unread => e.todo # {} /\ e.held = terms[S!Foremost(e.todo)]

EditsInStep == \A w \in S!Writer : edit[w] # S!NoEdit => InStep(w)

\* Who writes depends on where the loop is, and is alone.
OneWriter ==
  /\ loop # "apply" => edit["loop"] = S!NoEdit
  /\ loop # "off" => edit["tool"] = S!NoEdit
  /\ loop # "batch" => \A w \in Worker : edit[w] = S!NoEdit /\ heir[w] = S!NoSplit
  /\ \A v, w \in Worker : edit[v] # S!NoEdit /\ edit[w] # S!NoEdit => v = w

\* Nobody else creates the children of a split, and a node that is not there has the
\* goal it will be given.
Unborn ==
  /\ \A w \in Worker : heir[w] # S!NoSplit =>
       /\ heir[w].of \in nodes /\ S!Children(heir[w].of) \cap nodes = {}
       /\ \A v \in Worker : heir[v] # S!NoSplit /\ heir[v].of = heir[w].of => v = w
  /\ \A n \in S!Place \ nodes : goal[n] = S!First

\* The column is behind the file only where a goal is being changed.
GoalInStep ==
  \A n \in nodes :
    \/ goal[n] = terms[n].goal
    \/ LET e == edit["tool"] IN e # S!NoEdit /\ e.op = "goal" /\ e.at = n /\ e.todo = {}

CommandsInStep == {queue, taken} \subseteq Seq([at : nodes, text : Text])

SInv ==
  /\ S!TypeOK /\ EditsInStep /\ OneWriter /\ Unborn /\ GoalInStep /\ CommandsInStep

LEMMA SteeringFacts ==
  ASSUME ServicesAssumption
  PROVE  /\ Worker \cap {"loop", "tool"} = {} /\ Commands \in Nat /\ AtStart \subseteq S!Place
         /\ Walk \in Seq(S!Place)
BY DEF ServicesAssumption, S!SteeringAssumption

\* The first node of a change is one of its nodes.
LEMMA ForemostIn ==
  ASSUME ServicesAssumption, NEW todo \in SUBSET S!Place, todo # {}
  PROVE  S!Foremost(todo) \in todo
<1>1. \A n \in S!Place : S!Position(n) \in Nat
  <2>1. DOMAIN Walk = 1 .. Len(Walk) /\ Len(Walk) \in Nat
    BY SteeringFacts
  <2>2. \A n \in S!Place : \E i \in DOMAIN Walk : Walk[i] = n
    BY DEF S!Place, S!ToSet
  <2> QED BY <2>1, <2>2 DEF S!Position
<1>2. PICK i \in {S!Position(n) : n \in todo} : \A j \in {S!Position(n) : n \in todo} : i <= j
  <2> DEFINE all == {S!Position(n) : n \in todo}
  <2>1. all \in SUBSET Nat /\ all # {}
    BY <1>1
  <2> HIDE DEF all
  <2>2. \E i \in all : \A j \in all : i <= j
    BY <2>1, Least
  <2> QED BY <2>2 DEF all
<1>3. PICK n \in todo : i = S!Position(n)
  BY <1>2
<1>4. n \in todo /\ \A m \in todo : S!Position(n) <= S!Position(m)
  BY <1>2, <1>3
<1> QED BY <1>4 DEF S!Foremost

LEMMA NotTerms == S!Unread \notin S!Terms /\ S!NoEdit \notin S!Edit
<1>1. \A t \in S!Terms : "constraints" \in DOMAIN t
  BY DEF S!Terms
<1>2. "constraints" \notin DOMAIN S!Unread
  BY DEF S!Unread
<1>3. \A e \in S!Edit : "todo" \in DOMAIN e
  BY DEF S!Edit
<1>4. "todo" \notin DOMAIN S!NoEdit
  BY DEF S!NoEdit
<1> QED BY <1>1, <1>2, <1>3, <1>4

\* What a change makes of a contract is a contract.
LEMMA ChangedIs ==
  ASSUME NEW e \in S!Edit, NEW t \in S!Terms,
         e.op \in {"add", "amend"} => e.new \in Text, e.op = "goal" => e.new \in Goal
  PROVE  /\ S!Changed(e, t) \in S!Terms
         /\ e.op \in {"add", "amend"} => S!Changed(e, t).goal = t.goal
         /\ e.op = "goal" => S!Changed(e, t).goal = e.new
<1>1. e.op \in {"add", "amend", "goal"}
  BY DEF S!Edit
<1> QED BY <1>1 DEF S!Changed, S!Terms, S!Replace

\* A step that leaves the files, the rows and the changes alone.
LEMMA StillInStep ==
  ASSUME EditsInStep, Unborn, GoalInStep, UNCHANGED <<nodes, terms, goal, edit, heir>>
  PROVE  EditsInStep' /\ Unborn' /\ GoalInStep'
BY DEF EditsInStep, InStep, Unborn, GoalInStep

\* The writers that are in the middle of a change are no more than they were.
LEMMA SameWriters ==
  ASSUME OneWriter, UNCHANGED <<loop, heir>>,
         \A v \in S!Writer : edit'[v] # S!NoEdit => edit[v] # S!NoEdit
  PROVE  OneWriter'
<1>1. Worker \subseteq S!Writer /\ {"loop", "tool"} \subseteq S!Writer
  BY DEF S!Writer
<1> QED BY <1>1 DEF OneWriter

LEMMA OneEdit ==
  ASSUME S!TypeOK, NEW w \in S!Writer, NEW e, edit' = [edit EXCEPT ![w] = e]
  PROVE  edit'[w] = e /\ \A v \in S!Writer \ {w} : edit'[v] = edit[v]
BY DEF S!TypeOK

\* A change of a contract.
LEMMA IsEdit ==
  ASSUME S!TypeOK, NEW w \in S!Writer, edit[w] # S!NoEdit
  PROVE  edit[w] \in S!Edit
BY DEF S!TypeOK

LEMMA EditTyped ==
  ASSUME S!TypeOK, NEW w \in S!Writer, NEW e \in S!Edit \cup {S!NoEdit},
         edit' = [edit EXCEPT ![w] = e]
  PROVE  edit' \in [S!Writer -> S!Edit \cup {S!NoEdit}]
<1> DEFINE Edits == S!Edit \cup {S!NoEdit}
<1>1. edit \in [S!Writer -> Edits] /\ e \in Edits
  BY DEF S!TypeOK
<1> HIDE DEF Edits
<1>2. edit' \in [S!Writer -> Edits]
  BY <1>1
<1> QED BY <1>2 DEF Edits

LEMMA ReadHolds ==
  ASSUME ServicesAssumption, SInv, NEW w \in S!Writer, S!ReadTerms(w)
  PROVE  SInv'
<1> DEFINE e == edit[w]
           n == S!Foremost(e.todo)
           f == [e EXCEPT !.held = terms[n]]
<1> USE DEF SInv
<1>1. /\ e # S!NoEdit /\ e \in S!Edit /\ e.todo # {} /\ e.todo \in SUBSET S!Place
      /\ edit' = [edit EXCEPT ![w] = f]
      /\ UNCHANGED <<nodes, goal, terms, law, queue, typed, taken, loop, heir>>
  <2>1. e # S!NoEdit /\ e.todo # {} /\ edit' = [edit EXCEPT ![w] = f]
    BY DEF S!ReadTerms
  <2>2. e \in S!Edit
    BY <2>1, IsEdit
  <2>3. e.todo \in SUBSET S!Place
    BY <2>2 DEF S!Edit
  <2> QED BY <2>1, <2>2, <2>3 DEF S!ReadTerms, S!index, S!inbox
<1>2. n \in e.todo /\ n \in S!Place
  BY <1>1, ForemostIn
<1>3. terms[n] \in S!Terms
  BY <1>2 DEF S!TypeOK
<1>4. /\ f \in S!Edit /\ f.op = e.op /\ f.at = e.at /\ f.new = e.new /\ f.todo = e.todo
      /\ f.held = terms[n]
  BY <1>1, <1>3 DEF S!Edit
<1> HIDE DEF f
<1>5. f # S!NoEdit
  BY <1>4, NotTerms
<1>6. edit'[w] = f /\ \A v \in S!Writer \ {w} : edit'[v] = edit[v]
  BY <1>1, OneEdit
<1>7. S!TypeOK'
  <2>1. edit' \in [S!Writer -> S!Edit \cup {S!NoEdit}]
    BY <1>1, <1>4, EditTyped
  <2> QED BY <1>1, <2>1 DEF S!TypeOK
<1>8. EditsInStep'
  <2>1. InStep(w)
    BY <1>1 DEF EditsInStep
  <2>2. InStep(w)'
    <3> HIDE DEF e
    <3>1. edit[w] = e
      BY DEF e
    <3>2. n = S!Foremost(f.todo)
      BY <1>4
    <3> QED BY <1>1, <1>2, <1>4, <1>6, <2>1, <3>1, <3>2 DEF InStep
  <2>3. ASSUME NEW v \in S!Writer \ {w}, edit'[v] # S!NoEdit PROVE InStep(v)'
    <3>1. edit'[v] = edit[v] /\ InStep(v)
      BY <1>6, <2>3 DEF EditsInStep
    <3> QED BY <1>1, <3>1 DEF InStep
  <2> QED BY <2>2, <2>3 DEF EditsInStep
<1>9. OneWriter'
  BY <1>1, <1>6, SameWriters
<1>10. Unborn' /\ CommandsInStep'
  BY <1>1 DEF Unborn, CommandsInStep
<1>11. GoalInStep'
  <2>1. "tool" \in S!Writer
    BY DEF S!Writer
  <2>2. CASE w = "tool"
    BY <1>1, <1>4, <1>5, <1>6, <2>1, <2>2 DEF GoalInStep
  <2>3. CASE w # "tool"
    BY <1>1, <1>6, <2>1, <2>3 DEF GoalInStep
  <2> QED BY <2>2, <2>3
<1> QED BY <1>7, <1>8, <1>9, <1>10, <1>11

\* One change is made at a time.
LEMMA AloneInStep ==
  ASSUME OneWriter, NEW v \in S!Writer, NEW w \in S!Writer, edit[v] # S!NoEdit, edit[w] # S!NoEdit
  PROVE  v = w
<1>1. /\ v \in Worker \/ v = "loop" \/ v = "tool"
      /\ w \in Worker \/ w = "loop" \/ w = "tool"
  BY DEF S!Writer
<1> QED BY <1>1 DEF OneWriter

LEMMA WriteHolds ==
  ASSUME ServicesAssumption, SInv, NEW w \in S!Writer, S!WriteTerms(w)
  PROVE  SInv'
<1> DEFINE e == edit[w]
           n == S!Foremost(e.todo)
           t == S!Changed(e, e.held)
           f == [e EXCEPT !.held = S!Unread, !.todo = @ \ {n}]
<1> USE DEF SInv
<1>1. /\ e # S!NoEdit /\ e.held # S!Unread /\ edit' = [edit EXCEPT ![w] = f]
      /\ terms' = IF t = e.held THEN terms ELSE [terms EXCEPT ![n] = t]
      /\ UNCHANGED <<nodes, goal, law, queue, typed, taken, loop, heir>>
  BY DEF S!WriteTerms, S!index, S!inbox
<1>2. e \in S!Edit
  BY <1>1, IsEdit
<1>3. InStep(w) /\ e.todo # {} /\ e.held = terms[n] /\ e.todo \subseteq nodes
  BY <1>1 DEF EditsInStep, InStep
<1>4. n \in e.todo /\ n \in S!Place /\ n \in nodes
  <2>1. e.todo \in SUBSET S!Place
    BY <1>2 DEF S!Edit
  <2> QED BY <2>1, <1>3, ForemostIn
<1>5. terms[n] \in S!Terms
  BY <1>4 DEF S!TypeOK
<1>6. /\ e.op \in {"add", "amend"} => e.new \in Text
      /\ e.op = "goal" => e.new \in Goal /\ w = "tool" /\ e.todo \subseteq {e.at}
      /\ e.at \in nodes /\ e.op \in {"add", "amend", "goal"}
  BY <1>2, <1>3 DEF InStep, S!Edit
<1>7. /\ t \in S!Terms
      /\ e.op \in {"add", "amend"} => t.goal = terms[n].goal
      /\ e.op = "goal" => t.goal = e.new
  BY <1>2, <1>3, <1>5, <1>6, ChangedIs
<1>8. f \in S!Edit /\ f.op = e.op /\ f.at = e.at /\ f.new = e.new /\ f.todo = e.todo \ {n}
      /\ f.held = S!Unread
  BY <1>2, <1>4 DEF S!Edit
<1> HIDE DEF f, t
<1>9. f # S!NoEdit
  BY <1>8, NotTerms
<1>10. edit'[w] = f /\ \A v \in S!Writer \ {w} : edit'[v] = edit[v]
  BY <1>1, OneEdit
<1>11. \A v \in S!Writer \ {w} : edit[v] = S!NoEdit
  BY <1>1, AloneInStep
<1>12. terms' \in [S!Place -> S!Terms] /\ terms'[n] = t
       /\ \A m \in S!Place \ {n} : terms'[m] = terms[m]
  BY <1>1, <1>3, <1>4, <1>7 DEF S!TypeOK
<1>13. S!TypeOK'
  <2>1. edit' \in [S!Writer -> S!Edit \cup {S!NoEdit}]
    BY <1>1, <1>8, EditTyped
  <2> QED BY <1>1, <1>12, <2>1 DEF S!TypeOK
<1>14. EditsInStep'
  <2>1. e.op = "goal" => f.todo = {} /\ e.at = n
    BY <1>4, <1>6, <1>8
  <2>2. InStep(w)'
    <3>1. nodes' = nodes
      BY <1>1
    <3> QED BY <3>1, <1>6, <1>7, <1>8, <1>10, <1>12, <1>3, <2>1 DEF InStep
  <2> QED BY <1>10, <1>11, <2>2 DEF EditsInStep
<1>15. OneWriter'
  BY <1>1, <1>10, SameWriters
<1>16. Unborn' /\ CommandsInStep'
  BY <1>1 DEF Unborn, CommandsInStep
<1>17. GoalInStep'
  <2>1. "tool" \in S!Writer /\ nodes \subseteq S!Place
    BY DEF S!Writer, S!TypeOK
  <2>2. ASSUME NEW m \in nodes PROVE goal[m] = terms[m].goal
    <3>1. CASE w = "tool"
      BY <3>1, <1>3 DEF GoalInStep
    <3>2. CASE w # "tool"
      BY <3>2, <2>1, <1>11 DEF GoalInStep
    <3> QED BY <3>1, <3>2
  <2>3. ASSUME NEW m \in nodes \ {n} PROVE goal'[m] = terms'[m].goal
    BY <1>1, <1>12, <2>1, <2>2
  <2>4. CASE e.op \in {"add", "amend"}
    BY <1>1, <1>7, <1>12, <2>2, <2>3, <2>4 DEF GoalInStep
  <2>5. CASE e.op = "goal"
    <3>1. edit'["tool"] = f /\ f.todo = {} /\ f.at = n /\ f.op = "goal"
      BY <1>4, <1>6, <1>8, <1>10, <2>5
    <3> QED BY <1>1, <1>9, <2>3, <3>1 DEF GoalInStep
  <2> QED BY <1>6, <2>4, <2>5
<1> QED BY <1>13, <1>14, <1>15, <1>16, <1>17

LEMMA EndHolds ==
  ASSUME ServicesAssumption, SInv, NEW w \in S!Writer, S!EndEdit(w)
  PROVE  SInv'
<1> DEFINE e == edit[w]
           owed(n) == CASE e.op = "add"   -> law[n] \cup {e.new}
                        [] e.op = "amend" -> S!Replace(law[n], e.old, e.new)
                        [] e.op = "goal"  -> law[n]
<1> USE DEF SInv
<1>1. /\ e # S!NoEdit /\ e.todo = {} /\ edit' = [edit EXCEPT ![w] = S!NoEdit]
      /\ goal' = S!Column(e)
      /\ law' = [n \in S!Place |-> IF n \notin S!Branch(e.at) THEN law[n] ELSE owed(n)]
      /\ UNCHANGED <<nodes, terms, queue, typed, taken, loop, heir>>
  BY DEF S!EndEdit
<1>2. e \in S!Edit /\ InStep(w)
  BY <1>1, IsEdit DEF EditsInStep
<1>3. /\ e.op \in {"add", "amend"} => e.new \in Text
      /\ e.op = "goal" => e.new \in Goal /\ w = "tool" /\ terms[e.at].goal = e.new
      /\ e.at \in nodes /\ e.op \in {"add", "amend", "goal"} /\ nodes \subseteq S!Place
  BY <1>1, <1>2 DEF InStep, S!Edit, S!TypeOK
<1>4. edit'[w] = S!NoEdit /\ \A v \in S!Writer \ {w} : edit'[v] = edit[v]
  BY <1>1, OneEdit
<1>5. \A v \in S!Writer : edit'[v] = S!NoEdit
  BY <1>1, <1>4, AloneInStep
<1>6. /\ goal' \in [S!Place -> Goal \cup {S!First}]
      /\ \A m \in S!Place : goal'[m] = IF e.op = "goal" /\ m = e.at THEN e.new ELSE goal[m]
  BY <1>1, <1>3 DEF S!Column, S!TypeOK
<1>7. law' \in [S!Place -> SUBSET Text]
  <2>1. ASSUME NEW n \in S!Place PROVE law[n] \in SUBSET Text /\ owed(n) \in SUBSET Text
    BY <1>3 DEF S!TypeOK, S!Replace
  <2> HIDE DEF owed, e
  <2> QED BY <1>1, <2>1
<1>8. S!TypeOK'
  <2>1. edit' \in [S!Writer -> S!Edit \cup {S!NoEdit}]
    BY <1>1, EditTyped
  <2> QED BY <1>1, <1>6, <1>7, <2>1 DEF S!TypeOK
<1>9. EditsInStep' /\ OneWriter'
  BY <1>1, <1>5, SameWriters DEF EditsInStep
<1>10. Unborn' /\ CommandsInStep'
  BY <1>1, <1>3, <1>6 DEF Unborn, CommandsInStep
<1>11. GoalInStep'
  <2>1. "tool" \in S!Writer
    BY DEF S!Writer
  <2>2. ASSUME NEW m \in nodes, ~(e.op = "goal" /\ m = e.at) PROVE goal[m] = terms[m].goal
    <3>1. CASE w = "tool"
      BY <2>2, <3>1 DEF GoalInStep
    <3>2. CASE w # "tool"
      BY <1>1, <2>1, <3>2, AloneInStep DEF GoalInStep
    <3> QED BY <3>1, <3>2
  <2> QED BY <1>1, <1>3, <1>6, <2>2 DEF GoalInStep
<1> QED BY <1>8, <1>9, <1>10, <1>11

\* A change begins, by the one writer the loop's state lets write.
LEMMA BeginHolds ==
  ASSUME ServicesAssumption, S!TypeOK, EditsInStep, OneWriter, GoalInStep,
         NEW w \in S!Writer, NEW op \in {"add", "amend", "goal"}, NEW n \in nodes,
         NEW old \in Text \cup Goal, NEW new \in Text \cup Goal, NEW todo \in SUBSET nodes,
         S!Begins(w, op, n, old, new, todo),
         UNCHANGED <<nodes, goal, terms, law, loop, heir>>,
         op \in {"add", "amend"} => new \in Text,
         op = "goal" => w = "tool" /\ new \in Goal /\ todo = {n},
         \/ w = "loop" /\ loop = "apply"
         \/ w = "tool" /\ loop = "off"
         \/ w \in Worker /\ loop = "batch" /\ \A v \in Worker : edit[v] = S!NoEdit
  PROVE  /\ edit' \in [S!Writer -> S!Edit \cup {S!NoEdit}]
         /\ EditsInStep' /\ OneWriter' /\ GoalInStep'
<1> DEFINE f == [op |-> op, at |-> n, old |-> old, new |-> new, todo |-> todo,
                 held |-> S!Unread]
<1>1. edit[w] = S!NoEdit /\ edit' = [edit EXCEPT ![w] = f]
  BY DEF S!Begins
<1>2. f \in S!Edit /\ f.op = op /\ f.at = n /\ f.new = new /\ f.todo = todo
      /\ f.held = S!Unread
  <2>1. nodes \subseteq S!Place
    BY DEF S!TypeOK
  <2> QED BY <2>1 DEF S!Edit
<1> HIDE DEF f
<1>3. edit'[w] = f /\ \A v \in S!Writer \ {w} : edit'[v] = edit[v]
  BY <1>1, OneEdit
<1>4. edit' \in [S!Writer -> S!Edit \cup {S!NoEdit}]
  BY <1>1, <1>2, EditTyped
<1>5. EditsInStep'
  <2>1. InStep(w)'
    <3>1. op = "goal" => todo # {}
      OBVIOUS
    <3> QED BY <1>2, <1>3, <3>1 DEF InStep
  <2>2. ASSUME NEW v \in S!Writer \ {w}, edit'[v] # S!NoEdit PROVE InStep(v)'
    <3>1. edit'[v] = edit[v] /\ InStep(v)
      BY <1>3, <2>2 DEF EditsInStep
    <3> QED BY <3>1 DEF InStep
  <2> QED BY <2>1, <2>2 DEF EditsInStep
<1>6. OneWriter'
  <2>1. Worker \cap {"loop", "tool"} = {} /\ Worker \subseteq S!Writer
        /\ {"loop", "tool"} \subseteq S!Writer
    BY SteeringFacts DEF S!Writer
  <2> QED BY <1>3, <2>1 DEF OneWriter
<1>7. GoalInStep'
  <2>1. "tool" \in S!Writer
    BY DEF S!Writer
  <2>2. CASE w = "tool"
    BY <1>1, <2>2 DEF GoalInStep
  <2>3. CASE w # "tool"
    BY <1>3, <2>1, <2>3 DEF GoalInStep
  <2> QED BY <2>2, <2>3
<1> QED BY <1>4, <1>5, <1>6, <1>7

LEMMA ToolHolds ==
  ASSUME ServicesAssumption, ~MidRun, SInv, NEW n \in S!Place, S!Tool(n)
  PROVE  SInv'
<1> USE DEF SInv
<1>1. /\ loop = "off" /\ n \in nodes /\ "tool" \in S!Writer
      /\ UNCHANGED <<nodes, goal, terms, law, queue, typed, taken, loop, heir>>
  BY DEF S!Tool, S!Writer, S!index, S!inbox
<1>2. S!Reach(n) \in SUBSET nodes /\ {n} \in SUBSET nodes
  BY <1>1 DEF S!Reach
<1>3. PICK op \in {"add", "amend", "goal"}, old \in Text \cup Goal, new \in Text \cup Goal,
           todo \in SUBSET nodes :
        /\ S!Begins("tool", op, n, old, new, todo)
        /\ op \in {"add", "amend"} => new \in Text
        /\ op = "goal" => new \in Goal /\ todo = {n}
  <2>1. CASE \E text \in Text : S!Begins("tool", "add", n, text, text, S!Reach(n))
    BY <1>2, <2>1
  <2>2. CASE \E old \in Text : \E new \in Text \ {old} :
               S!Begins("tool", "amend", n, old, new, S!Reach(n))
    BY <1>2, <2>2
  <2>3. CASE \E g \in Goal : S!Begins("tool", "goal", n, g, g, {n})
    BY <1>2, <2>3
  <2> QED BY <2>1, <2>2, <2>3 DEF S!Tool
<1>4. /\ edit' \in [S!Writer -> S!Edit \cup {S!NoEdit}]
      /\ EditsInStep' /\ OneWriter' /\ GoalInStep'
  BY <1>1, <1>3, BeginHolds
<1> QED BY <1>1, <1>4 DEF S!TypeOK, Unborn, CommandsInStep

LEMMA RulesHolds ==
  ASSUME ServicesAssumption, SInv, NEW w \in Worker, NEW n \in S!Place,
         NEW old \in Text, NEW new \in Text, S!Rules(w, n, old, new)
  PROVE  SInv'
<1> USE DEF SInv
<1>1. /\ loop = "batch" /\ n \in nodes /\ w \in S!Writer /\ S!Reach(n) \in SUBSET nodes
      /\ \A v \in Worker : edit[v] = S!NoEdit
      /\ S!Begins(w, "amend", n, old, new, S!Reach(n))
      /\ UNCHANGED <<nodes, goal, terms, law, queue, typed, taken, loop, heir>>
  BY DEF S!Rules, S!Writer, S!index, S!inbox, S!Reach
<1>2. /\ edit' \in [S!Writer -> S!Edit \cup {S!NoEdit}]
      /\ EditsInStep' /\ OneWriter' /\ GoalInStep'
  BY <1>1, BeginHolds
<1> QED BY <1>1, <1>2 DEF S!TypeOK, Unborn, CommandsInStep

LEMMA HeadIn ==
  ASSUME NEW set, NEW s \in Seq(set), s # <<>>
  PROVE  Head(s) \in set /\ Tail(s) \in Seq(set)
OBVIOUS

LEMMA ApplyHolds ==
  ASSUME ServicesAssumption, SInv, S!Apply
  PROVE  SInv'
<1> DEFINE n == Head(taken).at
           text == Head(taken).text
<1> USE DEF SInv
<1>1. /\ loop = "apply" /\ taken # <<>> /\ taken' = Tail(taken)
      /\ "loop" \in S!Writer /\ S!Reach(n) \in SUBSET nodes
      /\ S!Begins("loop", "add", n, text, text, S!Reach(n))
      /\ UNCHANGED <<nodes, goal, terms, law, queue, typed, loop, heir>>
  BY DEF S!Apply, S!Writer, S!index, S!Reach
<1>2. n \in nodes /\ text \in Text /\ taken' \in Seq([at : nodes, text : Text])
      /\ taken' \in Seq(S!Command)
  <2>1. taken \in Seq([at : nodes, text : Text]) /\ nodes \subseteq S!Place
        /\ taken \in Seq(S!Command)
    BY DEF CommandsInStep, S!TypeOK
  <2>2. Head(taken) \in [at : nodes, text : Text] /\ Tail(taken) \in Seq([at : nodes, text : Text])
        /\ Tail(taken) \in Seq(S!Command)
    BY <1>1, <2>1, HeadIn
  <2> QED BY <1>1, <2>2
<1>3. /\ edit' \in [S!Writer -> S!Edit \cup {S!NoEdit}]
      /\ EditsInStep' /\ OneWriter' /\ GoalInStep'
  BY <1>1, <1>2, BeginHolds
<1> QED BY <1>1, <1>2, <1>3 DEF S!TypeOK, Unborn, CommandsInStep

LEMMA TypeHolds ==
  ASSUME ServicesAssumption, SInv, NEW n \in S!Place, NEW text \in Text, S!Type(n, text)
  PROVE  SInv'
<1> DEFINE new == [at |-> n, text |-> text]
<1> USE DEF SInv
<1>1. /\ typed < Commands /\ typed' = typed + 1 /\ n \in nodes /\ queue' = Append(queue, new)
      /\ UNCHANGED <<nodes, goal, terms, law, taken, loop, edit, heir>>
  BY DEF S!Type, S!index
<1>2. new \in S!Command /\ new \in [at : nodes, text : Text]
  BY <1>1 DEF S!Command
<1> HIDE DEF new
<1>3. queue' \in Seq(S!Command) /\ queue' \in Seq([at : nodes, text : Text])
  BY <1>1, <1>2 DEF S!TypeOK, CommandsInStep
<1>4. typed' \in 0 .. Commands
  BY <1>1, SteeringFacts DEF S!TypeOK
<1>5. S!TypeOK' /\ CommandsInStep'
  BY <1>1, <1>3, <1>4 DEF S!TypeOK, CommandsInStep
<1> QED BY <1>1, <1>5, StillInStep, SameWriters

\* The steps of the loop itself: it goes on only when those before are done.
LEMMA LoopHolds ==
  ASSUME ServicesAssumption, ~MidRun, SInv,
         \/ S!StartRun \/ S!DrainSelect \/ S!DrainDelete \/ S!StartBatch \/ S!EndBatch
  PROVE  SInv'
<1> USE DEF SInv
<1>1. /\ UNCHANGED <<nodes, goal, terms, law, typed, edit, heir>>
      /\ {queue', taken'} \subseteq {queue, taken, <<>>}
      /\ loop' \in {"off", "select", "delete", "apply", "batch"}
      /\ \/ loop = "off" /\ loop' = "select" /\ edit["tool"] = S!NoEdit
         \/ loop = "select" /\ loop' \in {"batch", "delete"}
         \/ loop = "delete" /\ loop' = "apply"
         \/ loop = "apply" /\ loop' = "batch" /\ edit["loop"] = S!NoEdit
         \/ /\ loop = "batch" /\ loop' \in {"select", "off"}
            /\ \A w \in Worker : edit[w] = S!NoEdit /\ heir[w] = S!NoSplit
  BY DEF S!StartRun, S!DrainSelect, S!DrainDelete, S!StartBatch, S!EndBatch, S!index, S!inbox,
         S!Steered
<1>2. OneWriter'
  BY <1>1 DEF OneWriter
<1>3. S!TypeOK' /\ CommandsInStep'
  <2>1. \A set : {queue, taken} \subseteq Seq(set) => {queue', taken'} \subseteq Seq(set)
    <3>1. \A set : <<>> \in Seq(set)
      OBVIOUS
    <3> QED BY <1>1, <3>1
  <2>2. CommandsInStep'
    BY <1>1, <2>1 DEF CommandsInStep
  <2> QED BY <1>1, <2>1, <2>2 DEF S!TypeOK
<1> QED BY <1>1, <1>2, <1>3, StillInStep

\* What a split has read.
LEMMA NotSplit == \A of, set : [of |-> of, constraints |-> set] # S!NoSplit
<1>1. \A of, set : "constraints" \in DOMAIN [of |-> of, constraints |-> set]
  OBVIOUS
<1>2. "constraints" \notin DOMAIN S!NoSplit
  BY DEF S!NoSplit
<1> QED BY <1>1, <1>2

LEMMA SplitReadHolds ==
  ASSUME ServicesAssumption, SInv, NEW w \in Worker, NEW n \in S!Place, S!SplitReads(w, n)
  PROVE  SInv'
<1> DEFINE read == [of |-> n, constraints |-> terms[n].constraints]
           Heirs == [of : S!Place, constraints : SUBSET Text] \cup {S!NoSplit}
<1> USE DEF SInv
<1>1. /\ loop = "batch" /\ heir[w] = S!NoSplit /\ n \in nodes /\ S!Children(n) \cap nodes = {}
      /\ \A v \in Worker : heir[v] = S!NoSplit \/ heir[v].of # n
      /\ heir' = [heir EXCEPT ![w] = read]
      /\ UNCHANGED <<nodes, goal, terms, law, queue, typed, taken, loop, edit>>
  BY DEF S!SplitReads, S!index, S!inbox
<1>2. read \in Heirs /\ read.of = n /\ heir \in [Worker -> Heirs]
  BY DEF S!TypeOK, S!Terms
<1> HIDE DEF read, Heirs
<1>3. /\ heir' \in [Worker -> Heirs] /\ heir'[w] = read
      /\ \A v \in Worker \ {w} : heir'[v] = heir[v]
  BY <1>1, <1>2
<1>4. S!TypeOK' /\ CommandsInStep'
  BY <1>1, <1>3 DEF S!TypeOK, CommandsInStep, Heirs
<1>5. Unborn'
  BY <1>1, <1>2, <1>3 DEF Unborn
<1>6. OneWriter'
  BY <1>1 DEF OneWriter
<1> QED BY <1>1, <1>4, <1>5, <1>6 DEF EditsInStep, InStep, GoalInStep

\* What splits add to what is owed is constraints.
LEMMA LawTyped ==
  ASSUME S!TypeOK, NEW born, NEW own \in [born -> SUBSET Text],
         law' = [n \in S!Place |-> law[n] \cup UNION {own[b] : b \in born \cap S!Above(n)}]
  PROVE  law' \in [S!Place -> SUBSET Text]
<1>1. ASSUME NEW n \in S!Place
      PROVE  law[n] \cup UNION {own[b] : b \in born \cap S!Above(n)} \in SUBSET Text
  <2>1. UNION {own[b] : b \in born \cap S!Above(n)} \subseteq Text
    OBVIOUS
  <2> QED BY <2>1 DEF S!TypeOK
<1> QED BY <1>1

LEMMA SplitWriteHolds ==
  ASSUME ServicesAssumption, SInv, NEW w \in Worker, S!SplitWrites(w)
  PROVE  SInv'
<1> DEFINE h == heir[w]
           born == S!Children(h.of)
           Heirs == [of : S!Place, constraints : SUBSET Text] \cup {S!NoSplit}
<1> USE DEF SInv
<1>0. PICK own \in [born -> SUBSET Text] :
        /\ terms' = [n \in S!Place |->
                      IF n \in born
                        THEN [goal |-> S!First, constraints |-> h.constraints \cup own[n]]
                        ELSE terms[n]]
        /\ law' = [n \in S!Place |-> law[n] \cup UNION {own[b] : b \in born \cap S!Above(n)}]
  BY DEF S!SplitWrites
<1>1. /\ h # S!NoSplit /\ nodes' = nodes \cup born
      /\ heir' = [heir EXCEPT ![w] = S!NoSplit]
      /\ UNCHANGED <<goal, queue, typed, taken, loop, edit>>
  BY DEF S!SplitWrites, S!inbox
<1>2. /\ h \in [of : S!Place, constraints : SUBSET Text] /\ heir \in [Worker -> Heirs]
      /\ nodes \subseteq S!Place
  BY <1>1 DEF S!TypeOK
<1>3. h.of \in nodes /\ born \cap nodes = {} /\ born \subseteq S!Place
      /\ \A v \in Worker : heir[v] # S!NoSplit /\ heir[v].of = h.of => v = w
  BY <1>1 DEF Unborn, S!Children
<1>4. law' \in [S!Place -> SUBSET Text]
  BY <1>0, LawTyped
<1>5. heir' \in [Worker -> Heirs] /\ heir'[w] = S!NoSplit
      /\ \A v \in Worker \ {w} : heir'[v] = heir[v]
  <2> HIDE DEF h, Heirs
  <2>1. S!NoSplit \in Heirs
    BY DEF Heirs
  <2> QED BY <1>1, <1>2, <2>1
<1>6. /\ terms' \in [S!Place -> S!Terms]
      /\ \A n \in nodes : terms'[n] = terms[n]
      /\ \A n \in born : terms'[n].goal = S!First
  BY <1>0, <1>2, <1>3 DEF S!TypeOK, S!Terms
<1>7. \A v \in Worker : heir'[v] # S!NoSplit => v # w /\ heir'[v] = heir[v]
  BY <1>5
<1>8. Unborn'
  <2>1. ASSUME NEW v \in Worker, heir'[v] # S!NoSplit
        PROVE  /\ heir'[v].of \in nodes' /\ S!Children(heir'[v].of) \cap nodes' = {}
               /\ \A u \in Worker : heir'[u] # S!NoSplit /\ heir'[u].of = heir'[v].of => u = v
    <3>1. v # w /\ heir'[v] = heir[v] /\ heir[v] # S!NoSplit
      BY <1>7, <2>1
    <3>2. heir[v].of \in nodes /\ S!Children(heir[v].of) \cap nodes = {} /\ heir[v].of # h.of
          /\ \A u \in Worker : heir[u] # S!NoSplit /\ heir[u].of = heir[v].of => u = v
      BY <1>3, <3>1 DEF Unborn
    <3>3. S!Children(heir[v].of) \cap born = {}
      BY <3>2 DEF S!Children
    <3> QED BY <1>1, <1>7, <3>1, <3>2, <3>3
  <2>2. \A n \in S!Place \ nodes' : goal'[n] = S!First
    BY <1>1 DEF Unborn
  <2> QED BY <2>1, <2>2 DEF Unborn
<1>9. EditsInStep'
  <2>1. ASSUME NEW v \in S!Writer, edit'[v] # S!NoEdit PROVE InStep(v)'
    <3>1. edit'[v] = edit[v] /\ InStep(v) /\ edit[v] \in S!Edit
      BY <1>1, <2>1, IsEdit DEF EditsInStep
    <3>2. edit[v].todo \in SUBSET S!Place /\ edit[v].todo \subseteq nodes /\ edit[v].at \in nodes
      BY <3>1 DEF InStep, S!Edit
    <3>3. edit[v].todo # {} => S!Foremost(edit[v].todo) \in nodes
      BY <3>2, ForemostIn
    <3> QED BY <1>1, <1>6, <3>1, <3>2, <3>3 DEF InStep
  <2> QED BY <2>1 DEF EditsInStep
<1>10. GoalInStep'
  <2>1. ASSUME NEW n \in born PROVE goal[n] = S!First
    BY <1>3, <2>1 DEF Unborn
  <2>2. ASSUME NEW n \in nodes, goal[n] = terms[n].goal PROVE goal'[n] = terms'[n].goal
    BY <1>1, <1>6, <2>2
  <2>3. \A n \in born : goal'[n] = terms'[n].goal
    <3>1. goal' = goal
      BY <1>1
    <3> QED BY <1>6, <2>1, <3>1
  <2>4. nodes' = nodes \cup born /\ edit' = edit
    BY <1>1
  <2> HIDE DEF born
  <2> QED BY <2>2, <2>3, <2>4 DEF GoalInStep
<1>11. OneWriter'
  BY <1>1, <1>7 DEF OneWriter
<1>12. S!TypeOK'
  BY <1>1, <1>2, <1>3, <1>4, <1>5, <1>6 DEF S!TypeOK, Heirs
<1>13. CommandsInStep'
  <2>1. [at : nodes, text : Text] \subseteq [at : nodes', text : Text]
    BY <1>1
  <2>2. \A set1, set2 : set1 \subseteq set2 => Seq(set1) \subseteq Seq(set2)
    OBVIOUS
  <2>3. Seq([at : nodes, text : Text]) \subseteq Seq([at : nodes', text : Text])
    BY <2>1, <2>2
  <2> QED BY <1>1, <2>3 DEF CommandsInStep
<1> QED BY <1>8, <1>9, <1>10, <1>11, <1>12, <1>13

\* What a change makes of a node's constraints.
Owed(e, set) ==
  CASE e.op = "add"   -> set \cup {e.new}
    [] e.op = "amend" -> S!Replace(set, e.old, e.new)
    [] e.op = "goal"  -> set

\* The contracts say what they owe, and under a change that is half made what they will,
\* but for the nodes that it has still to visit.
LawInStep ==
  /\ (\A w \in S!Writer : edit[w] = S!NoEdit) => \A n \in nodes : terms[n].constraints = law[n]
  /\ \A w \in S!Writer : edit[w] # S!NoEdit =>
       /\ edit[w].todo \subseteq S!Branch(edit[w].at)
       /\ \A n \in nodes :
            terms[n].constraints = IF n \in S!Branch(edit[w].at) \ edit[w].todo
                                   THEN Owed(edit[w], law[n]) ELSE law[n]

\* Between the read of a split and its write nothing changes the parent; a node that is
\* not there owes what its parent does, and the parents of those that are there are too.
HeirsInStep ==
  /\ \A w \in Worker : heir[w] # S!NoSplit =>
       /\ heir[w].constraints = law[heir[w].of]
       /\ \A v \in S!Writer : edit[v] = S!NoEdit
  /\ \A n \in S!Place \ (nodes \cup {Head(Walk)}) : law[n] = law[ParentOf[n]]
  /\ \A n \in nodes \ {Head(Walk)} : ParentOf[n] \in nodes

LInv == SInv /\ LawInStep /\ HeirsInStep

\* What is above a node is the node and what is above its parent.
LEMMA AboveIs ==
  ASSUME ServicesAssumption, NEW n \in S!Place \ {Head(Walk)}
  PROVE  S!Above(n) = {n} \cup S!Above(ParentOf[n])
<1>1. ParentOf[n] \in S!Place
  BY DEF ServicesAssumption, S!SteeringAssumption
<1>2. ASSUME NEW m \in S!Above(ParentOf[n]) PROVE m \in S!Above(n)
  <2>1. ASSUME NEW set \in SUBSET S!Place, n \in set, S!Upward(set) PROVE m \in set
    <3>1. ParentOf[n] \in set
      BY <2>1 DEF S!Upward
    <3> QED BY <1>2, <2>1, <3>1 DEF S!Above
  <2>2. m \in S!Place
    BY <1>2 DEF S!Above
  <2> QED BY <2>1, <2>2 DEF S!Above
<1>3. n \in S!Above(n)
  BY DEF S!Above
<1>4. ASSUME NEW m \in S!Above(n), m # n PROVE m \in S!Above(ParentOf[n])
  <2>1. ASSUME NEW set \in SUBSET S!Place, ParentOf[n] \in set, S!Upward(set) PROVE m \in set
    <3>1. n \in set \cup {n} /\ S!Upward(set \cup {n}) /\ set \cup {n} \in SUBSET S!Place
      BY <2>1 DEF S!Upward
    <3>2. m \in set \cup {n}
      BY <3>1 DEF S!Above
    <3> QED BY <1>4, <3>2
  <2>2. m \in S!Place
    BY DEF S!Above
  <2> QED BY <2>1, <2>2 DEF S!Above
<1> QED BY <1>2, <1>3, <1>4

LEMMA OwnBranch ==
  ASSUME NEW n \in S!Place
  PROVE  n \in S!Branch(n)
BY DEF S!Branch, S!Above

\* A node is on the branch of another if its parent is.
LEMMA BranchIs ==
  ASSUME ServicesAssumption, NEW at \in S!Place, NEW n \in S!Place \ {Head(Walk), at}
  PROVE  ParentOf[n] \in S!Place /\ (n \in S!Branch(at) <=> ParentOf[n] \in S!Branch(at))
<1>1. ParentOf[n] \in S!Place
  BY DEF ServicesAssumption, S!SteeringAssumption
<1> QED BY <1>1, AboveIs DEF S!Branch

LEMMA OwedIs ==
  ASSUME NEW e \in S!Edit, NEW t \in S!Terms
  PROVE  S!Changed(e, t).constraints = Owed(e, t.constraints)
<1>1. e.op \in {"add", "amend", "goal"}
  BY DEF S!Edit
<1> QED BY <1>1 DEF S!Changed, S!Terms, Owed

\* The steps that leave what is owed as it is.
LEMMA StillOwed ==
  ASSUME LawInStep, HeirsInStep, UNCHANGED <<nodes, terms, law, edit, heir>>
  PROVE  LawInStep' /\ HeirsInStep'
BY DEF LawInStep, HeirsInStep, Owed

LEMMA ReadOwes ==
  ASSUME ServicesAssumption, LInv, NEW w \in S!Writer, S!ReadTerms(w)
  PROVE  LawInStep' /\ HeirsInStep'
<1> DEFINE e == edit[w]
           f == [e EXCEPT !.held = terms[S!Foremost(e.todo)]]
<1>1. /\ e # S!NoEdit /\ edit' = [edit EXCEPT ![w] = f] /\ e \in S!Edit
      /\ UNCHANGED <<nodes, terms, law, heir>> /\ LInv
  BY IsEdit DEF S!ReadTerms, S!index, LInv, SInv
<1>2. /\ f.op = e.op /\ f.at = e.at /\ f.old = e.old /\ f.new = e.new /\ f.todo = e.todo
      /\ "todo" \in DOMAIN f
  BY <1>1 DEF S!Edit
<1> HIDE DEF f
<1>3. f # S!NoEdit
  <2>1. "todo" \notin DOMAIN S!NoEdit
    BY DEF S!NoEdit
  <2> QED BY <1>2, <2>1
<1>4. edit'[w] = f /\ \A v \in S!Writer \ {w} : edit'[v] = edit[v] /\ edit[v] = S!NoEdit
  BY <1>1, OneEdit, AloneInStep DEF LInv, SInv
<1>5. \A set : Owed(f, set) = Owed(e, set)
  BY <1>2 DEF Owed
<1>6. LawInStep'
  BY <1>1, <1>2, <1>3, <1>4, <1>5 DEF LInv, LawInStep
<1>7. HeirsInStep'
  BY <1>1 DEF LInv, HeirsInStep
<1> QED BY <1>6, <1>7

LEMMA WriteOwes ==
  ASSUME ServicesAssumption, LInv, NEW w \in S!Writer, S!WriteTerms(w)
  PROVE  LawInStep' /\ HeirsInStep'
<1> DEFINE e == edit[w]
           n == S!Foremost(e.todo)
           t == S!Changed(e, e.held)
           f == [e EXCEPT !.held = S!Unread, !.todo = @ \ {n}]
<1>1. /\ e # S!NoEdit /\ e.held # S!Unread /\ edit' = [edit EXCEPT ![w] = f] /\ e \in S!Edit
      /\ terms' = IF t = e.held THEN terms ELSE [terms EXCEPT ![n] = t]
      /\ UNCHANGED <<nodes, law, heir>> /\ S!TypeOK
  BY IsEdit DEF S!WriteTerms, S!index, LInv, SInv
<1>2. InStep(w) /\ e.todo # {} /\ e.held = terms[n] /\ e.todo \subseteq nodes
  BY <1>1 DEF LInv, SInv, EditsInStep, InStep
<1>3. n \in e.todo /\ n \in S!Place /\ n \in nodes /\ nodes \subseteq S!Place
  <2>1. e.todo \in SUBSET S!Place
    BY <1>1 DEF S!Edit
  <2> QED BY <2>1, <1>1, <1>2, ForemostIn DEF S!TypeOK
<1>4. terms[n] \in S!Terms
  BY <1>1, <1>3 DEF S!TypeOK
<1>5. t.constraints = Owed(e, terms[n].constraints)
  BY <1>1, <1>2, <1>4, OwedIs
<1>6. /\ f.op = e.op /\ f.at = e.at /\ f.old = e.old /\ f.new = e.new /\ f.todo = e.todo \ {n}
      /\ "todo" \in DOMAIN f
  BY <1>1 DEF S!Edit
<1> HIDE DEF f, t
<1>7. f # S!NoEdit
  <2>1. "todo" \notin DOMAIN S!NoEdit
    BY DEF S!NoEdit
  <2> QED BY <1>6, <2>1
<1>8. edit'[w] = f /\ \A v \in S!Writer \ {w} : edit'[v] = edit[v] /\ edit[v] = S!NoEdit
  BY <1>1, OneEdit, AloneInStep DEF LInv, SInv
<1>9. \A set : Owed(f, set) = Owed(e, set)
  BY <1>6 DEF Owed
<1>10. terms'[n] = t /\ \A m \in nodes \ {n} : terms'[m] = terms[m]
  BY <1>1, <1>2, <1>3 DEF S!TypeOK
<1>11. LawInStep'
  <2>1. /\ e.todo \subseteq S!Branch(e.at)
        /\ \A m \in nodes : terms[m].constraints = IF m \in S!Branch(e.at) \ e.todo
                                                   THEN Owed(e, law[m]) ELSE law[m]
    BY <1>1 DEF LInv, LawInStep
  <2>2. t.constraints = Owed(e, law[n]) /\ n \in S!Branch(e.at)
    BY <1>3, <1>5, <2>1
  <2> HIDE DEF e, n
  <2>3. ASSUME NEW m \in nodes
        PROVE  terms'[m].constraints = IF m \in S!Branch(f.at) \ f.todo
                                       THEN Owed(f, law[m]) ELSE law[m]
    <3>1. CASE m = n
      BY <1>6, <1>9, <1>10, <2>2, <3>1
    <3>2. CASE m # n
      BY <1>6, <1>9, <1>10, <2>1, <3>2
    <3> QED BY <3>1, <3>2
  <2> QED BY <1>1, <1>6, <1>7, <1>8, <2>1, <2>3 DEF LawInStep
<1>12. HeirsInStep'
  BY <1>1 DEF LInv, HeirsInStep
<1> QED BY <1>11, <1>12

LEMMA EndOwes ==
  ASSUME ServicesAssumption, LInv, NEW w \in S!Writer, S!EndEdit(w)
  PROVE  LawInStep' /\ HeirsInStep'
<1> DEFINE e == edit[w]
<1>1. /\ e # S!NoEdit /\ e.todo = {} /\ edit' = [edit EXCEPT ![w] = S!NoEdit] /\ e \in S!Edit
      /\ law' = [n \in S!Place |-> IF n \notin S!Branch(e.at) THEN law[n] ELSE Owed(e, law[n])]
      /\ UNCHANGED <<nodes, terms, heir>> /\ S!TypeOK
  BY IsEdit DEF S!EndEdit, LInv, SInv, Owed
<1>2. e.at \in nodes /\ e.at \in S!Place /\ nodes \subseteq S!Place
  BY <1>1 DEF LInv, SInv, EditsInStep, InStep, S!TypeOK
<1>3. \A v \in S!Writer : edit'[v] = S!NoEdit
  BY <1>1, OneEdit, AloneInStep DEF LInv, SInv
<1>4. \A n \in nodes : terms[n].constraints = IF n \in S!Branch(e.at)
                                              THEN Owed(e, law[n]) ELSE law[n]
  BY <1>1 DEF LInv, LawInStep
<1>5. LawInStep'
  BY <1>1, <1>2, <1>3, <1>4 DEF LawInStep
<1>6. \A v \in Worker : heir[v] = S!NoSplit
  BY <1>1 DEF LInv, HeirsInStep
<1>7. ASSUME NEW n \in S!Place \ (nodes \cup {Head(Walk)}) PROVE law'[n] = law'[ParentOf[n]]
  <2>1. law[n] = law[ParentOf[n]]
    BY DEF LInv, HeirsInStep
  <2>2. ParentOf[n] \in S!Place /\ (n \in S!Branch(e.at) <=> ParentOf[n] \in S!Branch(e.at))
    BY <1>2, BranchIs
  <2> QED BY <1>1, <2>1, <2>2
<1>8. \A n \in nodes' \ {Head(Walk)} : ParentOf[n] \in nodes'
  BY <1>1 DEF LInv, HeirsInStep
<1> QED BY <1>1, <1>5, <1>6, <1>7, <1>8 DEF HeirsInStep

LEMMA BeginOwes ==
  ASSUME ServicesAssumption, LInv, \A v \in S!Writer : edit[v] = S!NoEdit,
         \A v \in Worker : heir[v] = S!NoSplit,
         NEW w \in S!Writer, NEW op \in {"add", "amend", "goal"}, NEW n \in S!Place,
         NEW old \in Text \cup Goal, NEW new \in Text \cup Goal, NEW todo \in SUBSET nodes,
         todo = S!Reach(n) \/ (todo = {n} /\ op = "goal"),
         S!Begins(w, op, n, old, new, todo), UNCHANGED <<nodes, terms, law, heir>>
  PROVE  LawInStep' /\ HeirsInStep'
<1> DEFINE f == [op |-> op, at |-> n, old |-> old, new |-> new, todo |-> todo,
                 held |-> S!Unread]
<1>1. S!TypeOK /\ edit' = [edit EXCEPT ![w] = f]
  BY DEF S!Begins, LInv, SInv
<1>2. f.op = op /\ f.at = n /\ f.todo = todo
  OBVIOUS
<1> HIDE DEF f
<1>3. edit'[w] = f /\ \A v \in S!Writer \ {w} : edit'[v] = S!NoEdit
  BY <1>1, OneEdit
<1>4. \A m \in nodes : terms[m].constraints = law[m]
  BY DEF LInv, LawInStep
<1>5. CASE f = S!NoEdit
  BY <1>3, <1>4, <1>5 DEF LInv, LawInStep, HeirsInStep
<1>6. CASE f # S!NoEdit
  <2>1. todo \subseteq S!Branch(n)
    BY OwnBranch DEF S!Reach
  <2>2. ASSUME NEW m \in nodes
        PROVE  law[m] = IF m \in S!Branch(n) \ todo THEN Owed(f, law[m]) ELSE law[m]
    BY <1>2 DEF S!Reach, Owed
  <2>3. LawInStep'
    BY <1>2, <1>3, <1>4, <1>6, <2>1, <2>2 DEF LawInStep
  <2> QED BY <2>3 DEF LInv, HeirsInStep
<1> QED BY <1>5, <1>6

LEMMA ToolOwes ==
  ASSUME ServicesAssumption, ~MidRun, LInv, NEW n \in S!Place, S!Tool(n)
  PROVE  LawInStep' /\ HeirsInStep'
<1>1. /\ loop = "off" /\ "tool" \in S!Writer /\ UNCHANGED <<nodes, terms, law, heir>>
  BY DEF S!Tool, S!Writer, S!index
<1>2. S!Reach(n) \in SUBSET nodes /\ {n} \in SUBSET nodes
  BY DEF S!Tool, S!Reach
<1>3. PICK op \in {"add", "amend", "goal"}, old \in Text \cup Goal, new \in Text \cup Goal,
           todo \in SUBSET nodes :
        /\ S!Begins("tool", op, n, old, new, todo)
        /\ todo = S!Reach(n) \/ (todo = {n} /\ op = "goal")
  <2>1. CASE \E text \in Text : S!Begins("tool", "add", n, text, text, S!Reach(n))
    BY <1>2, <2>1
  <2>2. CASE \E old \in Text : \E new \in Text \ {old} :
               S!Begins("tool", "amend", n, old, new, S!Reach(n))
    BY <1>2, <2>2
  <2>3. CASE \E g \in Goal : S!Begins("tool", "goal", n, g, g, {n})
    BY <1>2, <2>3
  <2> QED BY <2>1, <2>2, <2>3 DEF S!Tool
<1>4. edit["tool"] = S!NoEdit
  BY <1>3 DEF S!Begins
<1>5. /\ \A v \in S!Writer : edit[v] = S!NoEdit
      /\ \A v \in Worker : heir[v] = S!NoSplit
  BY <1>1, <1>4 DEF LInv, SInv, OneWriter, S!Writer
<1> QED BY <1>1, <1>3, <1>5, BeginOwes

LEMMA ApplyOwes ==
  ASSUME ServicesAssumption, LInv, S!Apply
  PROVE  LawInStep' /\ HeirsInStep'
<1> DEFINE n == Head(taken).at
           text == Head(taken).text
<1>1. /\ loop = "apply" /\ "loop" \in S!Writer /\ UNCHANGED <<nodes, terms, law, heir>>
      /\ S!Begins("loop", "add", n, text, text, S!Reach(n)) /\ taken # <<>>
  BY DEF S!Apply, S!Writer, S!index
<1>2. n \in S!Place /\ text \in Text /\ S!Reach(n) \in SUBSET nodes
  <2>1. taken \in Seq(S!Command)
    BY DEF LInv, SInv, S!TypeOK
  <2>2. Head(taken) \in S!Command
    BY <1>1, <2>1, HeadIn
  <2> QED BY <2>2 DEF S!Command, S!Reach
<1>3. edit["loop"] = S!NoEdit
  BY <1>1 DEF S!Begins
<1>4. /\ \A v \in S!Writer : edit[v] = S!NoEdit
      /\ \A v \in Worker : heir[v] = S!NoSplit
  BY <1>1, <1>3 DEF LInv, SInv, OneWriter, S!Writer
<1> QED BY <1>1, <1>2, <1>4, BeginOwes

LEMMA RulesOwes ==
  ASSUME ServicesAssumption, \A v, w \in Worker : v = w, LInv, NEW w \in Worker,
         NEW n \in S!Place, NEW old \in Text, NEW new \in Text, S!Rules(w, n, old, new)
  PROVE  LawInStep' /\ HeirsInStep'
<1>1. /\ loop = "batch" /\ w \in S!Writer /\ UNCHANGED <<nodes, terms, law, heir>>
      /\ heir[w] = S!NoSplit /\ \A v \in Worker : edit[v] = S!NoEdit
  BY DEF S!Rules, S!Writer, S!index
<1>2. S!Begins(w, "amend", n, old, new, S!Reach(n)) /\ S!Reach(n) \in SUBSET nodes
  BY DEF S!Rules, S!Reach
<1>3. /\ \A v \in S!Writer : edit[v] = S!NoEdit
      /\ \A v \in Worker : heir[v] = S!NoSplit
  BY <1>1 DEF LInv, SInv, OneWriter, S!Writer
<1> QED BY <1>1, <1>2, <1>3, BeginOwes

LEMMA SplitReadOwes ==
  ASSUME ServicesAssumption, \A v, w \in Worker : v = w, LInv, NEW w \in Worker,
         NEW n \in S!Place, S!SplitReads(w, n)
  PROVE  LawInStep' /\ HeirsInStep'
<1> DEFINE read == [of |-> n, constraints |-> terms[n].constraints]
<1>1. /\ loop = "batch" /\ edit[w] = S!NoEdit /\ n \in nodes
      /\ heir' = [heir EXCEPT ![w] = read]
      /\ UNCHANGED <<nodes, terms, law, edit>>
  BY DEF S!SplitReads, S!index
<1>2. \A v \in S!Writer : edit[v] = S!NoEdit
  BY <1>1 DEF LInv, SInv, OneWriter, S!Writer
<1>3. terms[n].constraints = law[n]
  BY <1>1, <1>2 DEF LInv, LawInStep
<1>4. heir'[w] = read
  BY <1>1 DEF LInv, SInv, S!TypeOK
<1>5. LawInStep'
  BY <1>1 DEF LInv, LawInStep, Owed
<1>6. \A v \in Worker : heir'[v].constraints = law[heir'[v].of]
  BY <1>3, <1>4
<1> QED BY <1>1, <1>2, <1>5, <1>6 DEF LInv, HeirsInStep

\* Nothing above a node that is there is not there.
LEMMA AboveThere ==
  ASSUME S!TypeOK, HeirsInStep, NEW n \in nodes
  PROVE  S!Above(n) \subseteq nodes
<1>1. nodes \in SUBSET S!Place /\ S!Upward(nodes)
  BY DEF S!TypeOK, HeirsInStep, S!Upward
<1> QED BY <1>1 DEF S!Above

LEMMA SplitWriteOwes ==
  ASSUME ServicesAssumption, LInv, NEW w \in Worker, S!SplitWrites(w)
  PROVE  LawInStep' /\ HeirsInStep'
<1> DEFINE h == heir[w]
           born == S!Children(h.of)
<1>0. PICK own \in [born -> SUBSET Text] :
        /\ terms' = [n \in S!Place |->
                      IF n \in born
                        THEN [goal |-> S!First, constraints |-> h.constraints \cup own[n]]
                        ELSE terms[n]]
        /\ law' = [n \in S!Place |-> law[n] \cup UNION {own[b] : b \in born \cap S!Above(n)}]
  BY DEF S!SplitWrites
<1> DEFINE New(n) == UNION {own[b] : b \in born \cap S!Above(n)}
<1>1. /\ h # S!NoSplit /\ nodes' = nodes \cup born
      /\ heir' = [heir EXCEPT ![w] = S!NoSplit] /\ edit' = edit
  BY DEF S!SplitWrites
<1>2. /\ \A v \in S!Writer : edit[v] = S!NoEdit
      /\ h.constraints = law[h.of] /\ born \cap nodes = {} /\ h.of \in nodes
  BY <1>1 DEF LInv, HeirsInStep, SInv, Unborn
<1>3. /\ nodes \subseteq S!Place /\ born \subseteq S!Place /\ S!TypeOK
      /\ \A n \in born : n # Head(Walk) /\ ParentOf[n] = h.of
  BY DEF LInv, SInv, S!TypeOK, S!Children
<1>4. \A n \in nodes : New(n) = {}
  BY <1>2, <1>3, AboveThere DEF LInv
<1>5. \A n \in born : New(n) = own[n]
  <2>1. ASSUME NEW n \in born PROVE born \cap S!Above(n) = {n}
    <3>1. S!Above(n) = {n} \cup S!Above(h.of)
      BY <1>3, AboveIs
    <3>2. S!Above(h.of) \subseteq nodes
      BY <1>2, <1>3, AboveThere DEF LInv
    <3> HIDE DEF born
    <3> QED BY <1>2, <3>1, <3>2
  <2> QED BY <2>1
<1>6. ASSUME NEW n \in S!Place \ (nodes' \cup {Head(Walk)})
      PROVE  ParentOf[n] \in S!Place /\ New(n) = New(ParentOf[n])
  <2>1. ParentOf[n] \in S!Place
    BY DEF ServicesAssumption, S!SteeringAssumption
  <2>2. S!Above(n) = {n} \cup S!Above(ParentOf[n]) /\ n \notin born
    BY <1>1, AboveIs
  <2>3. born \cap S!Above(n) = born \cap S!Above(ParentOf[n])
    BY <2>2
  <2> QED BY <2>1, <2>3
<1>7. \A n \in S!Place : law'[n] = law[n] \cup New(n)
  BY <1>0
<1> HIDE DEF New
<1>8. \A n \in nodes : law'[n] = law[n]
  BY <1>3, <1>4, <1>7
<1>9. ASSUME NEW n \in born PROVE terms'[n].constraints = law'[n]
  <2>1. n \in S!Place \ (nodes \cup {Head(Walk)}) /\ ParentOf[n] = h.of
    BY <1>2, <1>3
  <2>2. law[n] = law[h.of]
    BY <2>1 DEF LInv, HeirsInStep
  <2>3. terms'[n].constraints = h.constraints \cup own[n]
    BY <1>0, <2>1
  <2> QED BY <1>2, <1>5, <1>7, <2>1, <2>2, <2>3
<1>10. \A n \in nodes : terms'[n].constraints = law'[n]
  <2>1. \A n \in nodes : terms'[n] = terms[n]
    BY <1>0, <1>2, <1>3
  <2> QED BY <1>2, <1>8, <2>1 DEF LInv, LawInStep
<1>11. LawInStep'
  BY <1>1, <1>2, <1>9, <1>10 DEF LawInStep
<1>12. ASSUME NEW v \in Worker, heir'[v] # S!NoSplit
       PROVE  heir'[v].constraints = law'[heir'[v].of]
  <2>1. heir'[v] = heir[v]
    BY <1>1, <1>12 DEF LInv, SInv, S!TypeOK
  <2>2. heir[v].of \in nodes /\ heir[v].constraints = law[heir[v].of]
    BY <1>12, <2>1 DEF LInv, HeirsInStep, SInv, Unborn
  <2> QED BY <1>8, <2>1, <2>2
<1>13. ASSUME NEW n \in S!Place \ (nodes' \cup {Head(Walk)}) PROVE law'[n] = law'[ParentOf[n]]
  <2>1. law[n] = law[ParentOf[n]]
    BY <1>1 DEF LInv, HeirsInStep
  <2> QED BY <1>6, <1>7, <2>1
<1>14. \A n \in nodes' \ {Head(Walk)} : ParentOf[n] \in nodes'
  BY <1>1, <1>2, <1>3 DEF LInv, HeirsInStep
<1> QED BY <1>1, <1>2, <1>11, <1>12, <1>13, <1>14 DEF HeirsInStep

LEMMA SteeringImplemented == Spec => S!Spec
<1>1. Init => S!Init
  BY DEF Init
<1>2. [Next]_vars => [S!Next]_(S!vars)
  <2> USE DEF Programs, Turns, Steered, Noted, Divided
  <2>1. CASE Next /\ Steered
    <3>1. ASSUME NEW w \in Worker, NEW n \in S!Place, NEW old \in Text, NEW new \in Text,
                 old # new, S!Rules(w, n, old, new)
          PROVE  S!Next
      BY <3>1 DEF S!Next
    <3> QED BY <2>1, <3>1 DEF Next, S!Next
  <2>2. CASE (Next /\ ~Steered) \/ UNCHANGED vars
    BY <2>2 DEF Next, vars, steering, S!vars, S!index, S!inbox
  <2> QED BY <2>1, <2>2
<1> QED BY <1>1, <1>2, PTL DEF Spec, S!Spec

LEMMA SteeringStarts == S!Init => LInv
<1> SUFFICES ASSUME S!Init PROVE LInv
    OBVIOUS
<1>1. AtStart \subseteq S!Place /\ Commands \in Nat
  BY ServicesAssumption, SteeringFacts
<1>2. S!TypeOK
  <2>1. \A set : <<>> \in Seq(set)
    OBVIOUS
  <2> QED BY <1>1, <2>1 DEF S!Init, S!TypeOK, S!Terms
<1>3. /\ \A w \in S!Writer : edit[w] = S!NoEdit
      /\ \A w \in Worker : heir[w] = S!NoSplit
  BY DEF S!Init
<1>4. \A n \in S!Place : terms[n].goal = goal[n] /\ terms[n].constraints = law[n]
                         /\ goal[n] = S!First
  BY DEF S!Init
<1>5. AtStart \subseteq S!Place /\ nodes = AtStart
  BY <1>1 DEF S!Init
<1>6. CommandsInStep
  <2>1. \A set : <<>> \in Seq(set)
    OBVIOUS
  <2> QED BY <2>1 DEF S!Init, CommandsInStep
<1>7. EditsInStep /\ OneWriter /\ Unborn /\ GoalInStep
  <2>1. {"loop", "tool"} \cup Worker \subseteq S!Writer
    BY DEF S!Writer
  <2> QED BY <1>3, <1>4, <1>5, <2>1 DEF EditsInStep, OneWriter, Unborn, GoalInStep
<1>8. LawInStep
  BY <1>3, <1>4, <1>5 DEF LawInStep
<1>9. HeirsInStep
  <2>1. \A n \in S!Place \ {Head(Walk)} : ParentOf[n] \in S!Place
    BY ServicesAssumption DEF ServicesAssumption, S!SteeringAssumption
  <2>2. \A n \in S!Place \ (nodes \cup {Head(Walk)}) : law[n] = law[ParentOf[n]]
    BY <2>1 DEF S!Init
  <2>3. \A n \in nodes \ {Head(Walk)} : ParentOf[n] \in nodes
    BY <1>5, ServicesAssumption DEF ServicesAssumption, S!SteeringAssumption
  <2> QED BY <1>3, <2>2, <2>3 DEF HeirsInStep
<1> QED BY <1>2, <1>6, <1>7, <1>8, <1>9 DEF LInv, SInv

LEMMA SteeringHolds ==
  ASSUME ~MidRun
  PROVE  SInv /\ [S!Next]_(S!vars) => SInv'
<1> SUFFICES ASSUME SInv, [S!Next]_(S!vars) PROVE SInv'
    OBVIOUS
<1> USE ServicesAssumption
<1>1. ASSUME NEW w \in S!Writer, S!ReadTerms(w) \/ S!WriteTerms(w) \/ S!EndEdit(w) PROVE SInv'
  BY <1>1, ReadHolds, WriteHolds, EndHolds
<1>2. ASSUME NEW n \in S!Place, S!Tool(n) PROVE SInv'
  BY <1>2, ToolHolds
<1>3. ASSUME NEW n \in S!Place, NEW text \in Text, S!Type(n, text) PROVE SInv'
  BY <1>3, TypeHolds
<1>4. CASE S!StartRun \/ S!DrainSelect \/ S!DrainDelete \/ S!StartBatch \/ S!EndBatch
  BY <1>4, LoopHolds
<1>5. CASE S!Apply
  BY <1>5, ApplyHolds
<1>6. ASSUME NEW w \in Worker, S!SplitWrites(w) PROVE SInv'
  BY <1>6, SplitWriteHolds
<1>7. ASSUME NEW w \in Worker, NEW n \in S!Place, S!SplitReads(w, n) PROVE SInv'
  BY <1>7, SplitReadHolds
<1>8. ASSUME NEW w \in Worker, NEW n \in S!Place, NEW old \in Text, NEW new \in Text,
             S!Rules(w, n, old, new)
      PROVE  SInv'
  BY <1>8, RulesHolds
<1>9. CASE UNCHANGED S!vars
  BY <1>9, StillInStep, SameWriters
     DEF SInv, S!TypeOK, S!vars, S!index, S!inbox, CommandsInStep
<1> QED BY <1>1, <1>2, <1>3, <1>4, <1>5, <1>6, <1>7, <1>8, <1>9 DEF S!Next

LEMMA LawHolds ==
  ASSUME ~MidRun, \A v, w \in Worker : v = w
  PROVE  LInv /\ [S!Next]_(S!vars) => LInv'
<1> SUFFICES ASSUME LInv, [S!Next]_(S!vars) PROVE LawInStep' /\ HeirsInStep'
    BY SteeringHolds DEF LInv
<1> USE ServicesAssumption
<1>1. ASSUME NEW w \in S!Writer, S!ReadTerms(w) \/ S!WriteTerms(w) \/ S!EndEdit(w)
      PROVE  LawInStep' /\ HeirsInStep'
  BY <1>1, ReadOwes, WriteOwes, EndOwes
<1>2. ASSUME NEW n \in S!Place, S!Tool(n) PROVE LawInStep' /\ HeirsInStep'
  BY <1>2, ToolOwes
<1>3. CASE \E n \in S!Place, text \in Text : S!Type(n, text)
  BY <1>3, StillOwed DEF S!Type, S!index, LInv
<1>4. CASE S!StartRun \/ S!DrainSelect \/ S!DrainDelete \/ S!StartBatch \/ S!EndBatch
  BY <1>4, StillOwed DEF S!StartRun, S!DrainSelect, S!DrainDelete, S!StartBatch, S!EndBatch,
     S!index, S!inbox, LInv
<1>5. CASE S!Apply
  BY <1>5, ApplyOwes
<1>6. ASSUME NEW w \in Worker, S!SplitWrites(w) PROVE LawInStep' /\ HeirsInStep'
  BY <1>6, SplitWriteOwes
<1>7. ASSUME NEW w \in Worker, NEW n \in S!Place, S!SplitReads(w, n)
      PROVE  LawInStep' /\ HeirsInStep'
  BY <1>7, SplitReadOwes
<1>8. ASSUME NEW w \in Worker, NEW n \in S!Place, NEW old \in Text, NEW new \in Text,
             S!Rules(w, n, old, new)
      PROVE  LawInStep' /\ HeirsInStep'
  BY <1>8, RulesOwes
<1>9. CASE UNCHANGED S!vars
  BY <1>9, StillOwed DEF S!vars, S!index, S!inbox, LInv
<1> QED BY <1>1, <1>2, <1>3, <1>4, <1>5, <1>6, <1>7, <1>8, <1>9 DEF S!Next

\* While the butler's tools rest during a run, the goal that status and the walk show is
\* the contract's, whenever no change is half made: write_contract, add_children.
THEOREM GoalStaysShown == ASSUME ~MidRun PROVE Spec => []GoalShown
<1>1. S!Init => SInv
  BY SteeringStarts DEF LInv
<1>2. SInv => GoalShown
  <2> SUFFICES ASSUME SInv, S!Quiet, NEW n \in nodes PROVE goal[n] = terms[n].goal
      BY DEF GoalShown, S!GoalShown
  <2>1. "tool" \in S!Writer
    BY DEF S!Writer
  <2> QED BY <2>1 DEF SInv, GoalInStep, S!Quiet
<1> QED BY <1>1, <1>2, SteeringHolds, SteeringImplemented, PTL DEF S!Spec

\* With one worker, and while the butler's tools rest during a run, a node is bound by
\* exactly what was applied, or proposed by a split, at it or above it, as amended since:
\* add_constraint_and_propagate, amend_inherited_constraint, add_children.
THEOREM BranchStaysConstrained ==
  ASSUME ~MidRun, \A v, w \in Worker : v = w
  PROVE  Spec => []BranchConstrained
<1>1. LInv => BranchConstrained
  BY DEF LInv, LawInStep, BranchConstrained, S!BranchConstrained, S!Quiet
<1> QED BY <1>1, SteeringStarts, LawHolds, SteeringImplemented, PTL DEF S!Spec

\* The type of the state, with the butler's tools running at any time: a change holds a
\* contract only while a node is left for it.
Changing(w) ==
  /\ edit[w].op \in {"add", "amend"} => edit[w].new \in Text
  /\ edit[w].op = "goal" => edit[w].new \in Goal
  /\ edit[w].held # S!Unread => edit[w].todo # {}

STyped == S!TypeOK /\ \A w \in S!Writer : edit[w] # S!NoEdit => Changing(w)

LEMMA SteeringTyped == STyped /\ [S!Next]_(S!vars) => STyped'
<1> SUFFICES ASSUME STyped, [S!Next]_(S!vars) PROVE STyped'
    OBVIOUS
<1> USE ServicesAssumption
<1> DEFINE Typing(w, e) == /\ e \in S!Edit
                           /\ e.op \in {"add", "amend"} => e.new \in Text
                           /\ e.op = "goal" => e.new \in Goal
                           /\ e.held # S!Unread => e.todo # {}
<1>1. ASSUME NEW w \in S!Writer, NEW e, edit' = [edit EXCEPT ![w] = e],
             e = S!NoEdit \/ Typing(w, e)
      PROVE  /\ edit' \in [S!Writer -> S!Edit \cup {S!NoEdit}]
             /\ \A v \in S!Writer : edit'[v] # S!NoEdit => Changing(v)'
  <2>1. edit' \in [S!Writer -> S!Edit \cup {S!NoEdit}]
    BY <1>1, EditTyped DEF STyped
  <2>2. edit'[w] = e /\ \A v \in S!Writer \ {w} : edit'[v] = edit[v]
    BY <1>1, OneEdit DEF STyped
  <2> QED BY <1>1, <2>1, <2>2 DEF STyped, Changing
<1>2. ASSUME NEW w \in S!Writer, S!ReadTerms(w) PROVE STyped'
  <2> DEFINE e == edit[w]
             n == S!Foremost(e.todo)
             f == [e EXCEPT !.held = terms[n]]
  <2>1. /\ e # S!NoEdit /\ e.todo # {} /\ edit' = [edit EXCEPT ![w] = f] /\ e \in S!Edit
        /\ UNCHANGED <<nodes, goal, terms, law, queue, typed, taken, loop, heir>>
    BY <1>2, IsEdit DEF S!ReadTerms, S!index, S!inbox, STyped
  <2>2. n \in S!Place
    <3>1. e.todo \in SUBSET S!Place
      BY <2>1 DEF S!Edit
    <3> QED BY <2>1, <3>1, ForemostIn
  <2>3. terms[n] \in S!Terms
    BY <2>2 DEF STyped, S!TypeOK
  <2>4. Typing(w, f)
    BY <2>1, <2>3 DEF S!Edit, STyped, Changing
  <2> HIDE DEF f, Typing
  <2> QED BY <1>1, <2>1, <2>4 DEF STyped, S!TypeOK
<1>3. ASSUME NEW w \in S!Writer, S!WriteTerms(w) PROVE STyped'
  <2> DEFINE e == edit[w]
             n == S!Foremost(e.todo)
             t == S!Changed(e, e.held)
             f == [e EXCEPT !.held = S!Unread, !.todo = @ \ {n}]
  <2>1. /\ e # S!NoEdit /\ e.held # S!Unread /\ edit' = [edit EXCEPT ![w] = f] /\ e \in S!Edit
        /\ terms' = IF t = e.held THEN terms ELSE [terms EXCEPT ![n] = t]
        /\ UNCHANGED <<nodes, goal, law, queue, typed, taken, loop, heir>>
    BY <1>3, IsEdit DEF S!WriteTerms, S!index, S!inbox, STyped
  <2>2. Typing(w, e) /\ e.todo # {} /\ e.held \in S!Terms
    BY <2>1 DEF STyped, Changing, S!Edit
  <2>3. t \in S!Terms
    BY <2>2, ChangedIs
  <2>4. Typing(w, f)
    BY <2>2 DEF S!Edit
  <2> HIDE DEF f, t, Typing
  <2>5. terms' \in [S!Place -> S!Terms]
    BY <2>1, <2>3 DEF STyped, S!TypeOK
  <2> QED BY <1>1, <2>1, <2>4, <2>5 DEF STyped, S!TypeOK
<1>4. ASSUME NEW w \in S!Writer, S!EndEdit(w) PROVE STyped'
  <2> DEFINE e == edit[w]
  <2>1. /\ e # S!NoEdit /\ e \in S!Edit /\ edit' = [edit EXCEPT ![w] = S!NoEdit]
        /\ goal' = S!Column(e)
        /\ law' = [n \in S!Place |-> IF n \notin S!Branch(e.at) THEN law[n] ELSE Owed(e, law[n])]
        /\ UNCHANGED <<nodes, terms, queue, typed, taken, loop, heir>>
    BY <1>4, IsEdit DEF S!EndEdit, STyped, Owed
  <2>2. Typing(w, e)
    BY <2>1 DEF STyped, Changing
  <2>3. goal' \in [S!Place -> Goal \cup {S!First}]
    BY <2>1, <2>2 DEF STyped, S!TypeOK, S!Column
  <2>4. law' \in [S!Place -> SUBSET Text]
    <3>1. \A n \in S!Place : law[n] \in SUBSET Text /\ Owed(e, law[n]) \in SUBSET Text
      BY <2>2 DEF STyped, S!TypeOK, S!Replace, S!Edit, Owed
    <3> QED BY <2>1, <3>1
  <2> QED BY <1>1, <2>1, <2>3, <2>4 DEF STyped, S!TypeOK
<1>5. ASSUME NEW w \in S!Writer, NEW op \in {"add", "amend", "goal"}, NEW n \in S!Place,
             NEW old \in Text \cup Goal, NEW new \in Text \cup Goal, NEW todo \in SUBSET S!Place,
             S!Begins(w, op, n, old, new, todo),
             op \in {"add", "amend"} => new \in Text, op = "goal" => new \in Goal
      PROVE  /\ edit' \in [S!Writer -> S!Edit \cup {S!NoEdit}]
             /\ \A v \in S!Writer : edit'[v] # S!NoEdit => Changing(v)'
  <2> DEFINE f == [op |-> op, at |-> n, old |-> old, new |-> new, todo |-> todo,
                   held |-> S!Unread]
  <2>1. Typing(w, f) /\ edit' = [edit EXCEPT ![w] = f]
    BY <1>5 DEF S!Begins, S!Edit
  <2> HIDE DEF f, Typing
  <2> QED BY <1>1, <2>1
<1>6. \A n \in S!Place : S!Reach(n) \in SUBSET S!Place
  BY DEF STyped, S!TypeOK, S!Reach
<1>7. ASSUME NEW n \in S!Place, S!Tool(n) PROVE STyped'
  <2>1. UNCHANGED <<nodes, goal, terms, law, queue, typed, taken, loop, heir>>
        /\ "tool" \in S!Writer /\ {n} \in SUBSET S!Place
    BY <1>7 DEF S!Tool, S!Writer, S!index, S!inbox
  <2>2. /\ edit' \in [S!Writer -> S!Edit \cup {S!NoEdit}]
        /\ \A v \in S!Writer : edit'[v] # S!NoEdit => Changing(v)'
    <3>1. CASE \E text \in Text : S!Begins("tool", "add", n, text, text, S!Reach(n))
      BY <1>5, <1>6, <2>1, <3>1
    <3>2. CASE \E old \in Text : \E new \in Text \ {old} :
                 S!Begins("tool", "amend", n, old, new, S!Reach(n))
      BY <1>5, <1>6, <2>1, <3>2
    <3>3. CASE \E g \in Goal : S!Begins("tool", "goal", n, g, g, {n})
      BY <1>5, <1>6, <2>1, <3>3
    <3> QED BY <1>7, <3>1, <3>2, <3>3 DEF S!Tool
  <2> QED BY <2>1, <2>2 DEF STyped, S!TypeOK
<1>8. ASSUME NEW w \in Worker, NEW n \in S!Place, NEW old \in Text, NEW new \in Text,
             S!Rules(w, n, old, new)
      PROVE  STyped'
  <2>1. /\ UNCHANGED <<nodes, goal, terms, law, queue, typed, taken, loop, heir>>
        /\ w \in S!Writer /\ S!Begins(w, "amend", n, old, new, S!Reach(n))
    BY <1>8 DEF S!Rules, S!Writer, S!index, S!inbox
  <2>2. /\ edit' \in [S!Writer -> S!Edit \cup {S!NoEdit}]
        /\ \A v \in S!Writer : edit'[v] # S!NoEdit => Changing(v)'
    BY <1>5, <1>6, <2>1
  <2> QED BY <2>1, <2>2 DEF STyped, S!TypeOK
<1>9. CASE S!Apply
  <2> DEFINE n == Head(taken).at
             text == Head(taken).text
  <2>1. /\ UNCHANGED <<nodes, goal, terms, law, queue, typed, loop, heir>>
        /\ "loop" \in S!Writer /\ S!Begins("loop", "add", n, text, text, S!Reach(n))
        /\ taken # <<>> /\ taken' = Tail(taken)
    BY <1>9 DEF S!Apply, S!Writer, S!index
  <2>2. taken \in Seq(S!Command)
    BY DEF STyped, S!TypeOK
  <2>3. Head(taken) \in S!Command /\ taken' \in Seq(S!Command)
    BY <2>1, <2>2, HeadIn
  <2>4. n \in S!Place /\ text \in Text
    BY <2>3 DEF S!Command
  <2> HIDE DEF n, text
  <2>5. /\ edit' \in [S!Writer -> S!Edit \cup {S!NoEdit}]
        /\ \A v \in S!Writer : edit'[v] # S!NoEdit => Changing(v)'
    BY <1>5, <1>6, <2>1, <2>4
  <2> QED BY <2>1, <2>3, <2>5 DEF STyped, S!TypeOK
<1>10. ASSUME NEW n \in S!Place, NEW text \in Text, S!Type(n, text) PROVE STyped'
  <2>1. /\ typed < Commands /\ typed' = typed + 1
        /\ queue' = Append(queue, [at |-> n, text |-> text])
        /\ UNCHANGED <<nodes, goal, terms, law, taken, loop, edit, heir>>
    BY <1>10 DEF S!Type, S!index
  <2>2. [at |-> n, text |-> text] \in S!Command
    BY DEF S!Command
  <2>3. queue' \in Seq(S!Command) /\ typed' \in 0 .. Commands
    BY <2>1, <2>2, SteeringFacts DEF STyped, S!TypeOK
  <2> QED BY <2>1, <2>3 DEF STyped, S!TypeOK, Changing
<1>11. CASE \/ S!StartRun \/ S!DrainSelect \/ S!DrainDelete \/ S!StartBatch \/ S!EndBatch
            \/ UNCHANGED S!vars
  <2>1. /\ UNCHANGED <<nodes, goal, terms, law, typed, edit, heir>>
        /\ {queue', taken'} \subseteq {queue, taken, <<>>}
        /\ loop' \in {"off", "select", "delete", "apply", "batch"}
    BY <1>11 DEF S!StartRun, S!DrainSelect, S!DrainDelete, S!StartBatch, S!EndBatch, S!index,
       S!inbox, S!vars, STyped, S!TypeOK
  <2>2. <<>> \in Seq(S!Command)
    OBVIOUS
  <2>3. {queue', taken'} \subseteq Seq(S!Command)
    BY <2>1, <2>2 DEF STyped, S!TypeOK
  <2> QED BY <2>1, <2>3 DEF STyped, S!TypeOK, Changing
<1>12. ASSUME NEW w \in Worker, NEW n \in S!Place, S!SplitReads(w, n) PROVE STyped'
  <2> DEFINE read == [of |-> n, constraints |-> terms[n].constraints]
             Heirs == [of : S!Place, constraints : SUBSET Text] \cup {S!NoSplit}
  <2>1. /\ heir' = [heir EXCEPT ![w] = read]
        /\ UNCHANGED <<nodes, goal, terms, law, queue, typed, taken, loop, edit>>
    BY <1>12 DEF S!SplitReads, S!index, S!inbox
  <2>2. read \in Heirs /\ heir \in [Worker -> Heirs]
    BY DEF STyped, S!TypeOK, S!Terms
  <2>3. heir' \in [Worker -> Heirs]
    <3> HIDE DEF read, Heirs
    <3> QED BY <2>1, <2>2
  <2> QED BY <2>1, <2>3 DEF STyped, S!TypeOK, Changing
<1>13. ASSUME NEW w \in Worker, S!SplitWrites(w) PROVE STyped'
  <2> DEFINE h == heir[w]
             born == S!Children(h.of)
             Heirs == [of : S!Place, constraints : SUBSET Text] \cup {S!NoSplit}
  <2>0. PICK own \in [born -> SUBSET Text] :
          /\ nodes' = nodes \cup born
          /\ terms' = [n \in S!Place |->
                         IF n \in born
                           THEN [goal |-> S!First, constraints |-> h.constraints \cup own[n]]
                           ELSE terms[n]]
          /\ law' = [n \in S!Place |->
                       law[n] \cup UNION {own[b] : b \in born \cap S!Above(n)}]
    BY <1>13 DEF S!SplitWrites
  <2>1. /\ h # S!NoSplit /\ heir' = [heir EXCEPT ![w] = S!NoSplit]
        /\ UNCHANGED <<goal, queue, typed, taken, loop, edit>>
    BY <1>13 DEF S!SplitWrites, S!inbox
  <2>2. /\ h \in [of : S!Place, constraints : SUBSET Text] /\ heir \in [Worker -> Heirs]
        /\ S!NoSplit \in Heirs
    BY <2>1 DEF STyped, S!TypeOK
  <2>3. /\ born \subseteq S!Place
        /\ \A n \in born :
             [goal |-> S!First, constraints |-> h.constraints \cup own[n]] \in S!Terms
    BY <2>0, <2>2 DEF S!Terms, S!Children
  <2>4. heir' \in [Worker -> Heirs]
    <3> HIDE DEF h, Heirs
    <3> QED BY <2>1, <2>2
  <2>5. terms' \in [S!Place -> S!Terms] /\ nodes' \subseteq S!Place
    <3> HIDE DEF h, born
    <3> QED BY <2>0, <2>3 DEF STyped, S!TypeOK
  <2>6. law' \in [S!Place -> SUBSET Text]
    <3> HIDE DEF h, born
    <3> QED BY <2>0, <2>3, LawTyped DEF STyped, S!TypeOK
  <2> QED BY <2>1, <2>4, <2>5, <2>6 DEF STyped, S!TypeOK, Changing
<1> QED BY <1>2, <1>3, <1>4, <1>7, <1>8, <1>9, <1>10, <1>11, <1>12, <1>13 DEF S!Next

LEMMA SteeringIsTyped == Spec => []S!TypeOK
<1>1. S!Init => STyped
  BY SteeringStarts DEF LInv, SInv, STyped, S!Init
<1>2. STyped => S!TypeOK
  BY DEF STyped
<1> QED BY <1>1, <1>2, SteeringTyped, SteeringImplemented, PTL DEF S!Spec

-----------------------------------------------------------------------------
(* The topology of a split. *)

\* Names are told apart by what they look like.
LEMMA NamesApart ==
  /\ \A i, j : /\ T!Id(i) = T!Id(j) => i = j
               /\ T!Position(i) = T!Position(j) => i = j
               /\ T!Padded(i) = T!Padded(j) => i = j
               /\ T!Id(i) # T!Position(j) /\ T!Id(i) # T!Padded(j) /\ T!Position(i) # T!Padded(j)
               /\ T!Unnamed(i) # T!Id(j) /\ T!Unnamed(i) # T!Position(j)
               /\ T!Unnamed(i) # T!Padded(j) /\ T!Unnamed(i) # T!Own(j)
               /\ T!Own(i) # T!Id(j) /\ T!Own(i) # T!Position(j) /\ T!Own(i) # T!Padded(j)
               /\ T!Own(i) = T!Own(j) => i = j
  /\ \A i : T!Blank # T!Id(i) /\ T!Blank # T!Position(i) /\ T!Blank # T!Padded(i)
            /\ T!Blank # T!Unnamed(i) /\ T!Blank # T!Own(i)
BY DEF T!Id, T!Position, T!Padded, T!Unnamed, T!Own, T!Blank

LEMMA InsertIs ==
  \A at, name, value : /\ T!Insert(at, name, value).at = at
                       /\ T!Insert(at, name, value).name = name
                       /\ T!Insert(at, name, value).value = value
BY DEF T!Insert

\* The entry of a name that is behind all its others is the one that counts.
LEMMA LookupIs ==
  ASSUME NEW map, NEW x \in map, x.at \in Nat,
         \A y \in map : y.name = x.name => y = x \/ (y.at \in Nat /\ y.at < x.at)
  PROVE  T!Bound(map, x.name) /\ T!Lookup(map, x.name) = x.value
<1> DEFINE z == T!LastOf(map, x.name)
<1>1. \A y \in map : y.name = x.name => y.at <= x.at
  OBVIOUS
<1>2. z \in map /\ z.name = x.name /\ \A y \in map : y.name = x.name => y.at <= z.at
  BY <1>1 DEF T!LastOf
<1> HIDE DEF z
<1>3. z = x
  BY <1>2
<1> QED BY <1>3 DEF T!Bound, T!Lookup, z

\* The subtasks of a split are numbered.
LEMMA ProposalIs ==
  ASSUME NEW p \in T!Proposal
  PROVE  /\ \E k \in Nat : p \in [1 .. k -> T!Subtask] /\ DOMAIN p = 1 .. k
         /\ \A i \in DOMAIN p : /\ p[i].id \in {T!Own(x) : x \in Given} \cup {T!Blank}
                                /\ p[i].dependsOn \subseteq T!Name
         /\ \A i, j \in DOMAIN p : i # j /\ p[i].id # T!Blank => p[i].id # p[j].id
<1>1. PICK k \in 1 .. Width : p \in [1 .. k -> T!Subtask]
  BY DEF T!Proposal
<1>2. k \in Nat /\ DOMAIN p = 1 .. k
  <2>1. Width \in Nat
    BY ServicesAssumption DEF ServicesAssumption, T!TopologyAssumption
  <2> QED BY <1>1, <2>1
<1>3. \A i \in DOMAIN p : p[i] \in T!Subtask
  BY <1>1
<1>4. \A i \in DOMAIN p : /\ p[i].id \in {T!Own(x) : x \in Given} \cup {T!Blank}
                          /\ p[i].dependsOn \subseteq T!Name
  BY <1>3 DEF T!Subtask
<1> QED BY <1>1, <1>2, <1>4 DEF T!Proposal

\* The key of a subtask is its own id, or one nobody can name.
LEMMA KeyIs ==
  ASSUME NEW p \in T!Proposal, NEW i \in DOMAIN p
  PROVE  \/ p[i].id = T!Blank /\ T!Key(p, i) = T!Unnamed(i)
         \/ p[i].id # T!Blank /\ T!Key(p, i) = p[i].id /\ \E x \in Given : p[i].id = T!Own(x)
BY ProposalIs DEF T!Key

\* What the two maps insert.
LEMMA Inserted ==
  ASSUME NEW e \in Nat, NEW p \in T!Proposal
  PROVE  /\ \A y : y \in T!Existing(e) <=>
                     \E i \in 1 .. e : \/ y = T!Insert(0, T!Id(i), T!Id(i))
                                       \/ y = T!Insert(0, T!Padded(i), T!Id(i))
         /\ \A y : y \in T!Canonical(e, p) <=>
                     \/ y \in T!Existing(e)
                     \/ \E i \in DOMAIN p : y \in T!Keyed(p, i)
         /\ \A y : y \in T!IdMap(e, p) <=>
                     \/ y \in T!Existing(e)
                     \/ \E i \in DOMAIN p : y \in T!Entries(e, p, i)
BY DEF T!Existing, T!Canonical, T!IdMap

\* A position, or a padded one, is the subtask's in both maps.
LEMMA NumberMeans ==
  ASSUME NEW e \in Nat, NEW p \in T!Proposal, NEW i \in DOMAIN p,
         NEW n \in {T!Position(i), T!Padded(i)}
  PROVE  /\ T!Bound(T!Canonical(e, p), n) /\ T!Lookup(T!Canonical(e, p), n) = T!Key(p, i)
         /\ T!Bound(T!IdMap(e, p), n) /\ T!Lookup(T!IdMap(e, p), n) = T!Id(e + i)
<1>1. i \in Nat /\ i > 0
  BY ProposalIs
<1>2. \A j \in DOMAIN p : T!Key(p, j) # n /\ p[j].id # n
  BY KeyIs, NamesApart
<1>3. \A j : (T!Position(j) = n \/ T!Padded(j) = n) => j = i
  BY NamesApart
<1>4. \A j : T!Id(j) # n
  BY NamesApart
<1>5. \A y \in T!Existing(e) : y.name = n => y.at = 0
  BY Inserted, InsertIs
<1>6. PICK x \in T!Keyed(p, i) : x.name = n /\ x.value = T!Key(p, i) /\ x.at \in Nat /\ x.at > 0
  <2>1. CASE n = T!Position(i)
    BY <1>1, <2>1, InsertIs DEF T!Keyed
  <2>2. CASE n = T!Padded(i)
    BY <1>1, <2>2, InsertIs DEF T!Keyed
  <2> QED BY <2>1, <2>2
<1>7. \A j \in DOMAIN p : \A y \in T!Keyed(p, j) : y.name = n => y = x
  <2>1. ASSUME NEW j \in DOMAIN p, NEW y \in T!Keyed(p, j), y.name = n PROVE y = x
    <3>1. \/ y = T!Insert(3 * j, T!Position(j), T!Key(p, j)) /\ n = T!Position(j)
          \/ y = T!Insert(3 * j + 1, T!Padded(j), T!Key(p, j)) /\ n = T!Padded(j)
      BY <1>2, <2>1, InsertIs DEF T!Keyed
    <3>2. \/ x = T!Insert(3 * i, T!Position(i), T!Key(p, i)) /\ n = T!Position(i)
          \/ x = T!Insert(3 * i + 1, T!Padded(i), T!Key(p, i)) /\ n = T!Padded(i)
      BY <1>2, <1>6, InsertIs DEF T!Keyed
    <3>3. j = i
      BY <1>3, <3>1
    <3> QED BY <3>1, <3>2, <3>3, NamesApart
  <2> QED BY <2>1
<1>8. x \in T!Canonical(e, p)
      /\ \A y \in T!Canonical(e, p) : y.name = n => y = x \/ (y.at \in Nat /\ y.at < x.at)
  BY <1>5, <1>6, <1>7, Inserted
<1>9. T!Bound(T!Canonical(e, p), n) /\ T!Lookup(T!Canonical(e, p), n) = T!Key(p, i)
  BY <1>6, <1>8, LookupIs
<1>10. PICK z \in T!Entries(e, p, i) : z.name = n /\ z.value = T!Id(e + i) /\ z.at \in Nat
                                       /\ z.at > 0
  <2>1. CASE n = T!Position(i)
    BY <1>1, <2>1, InsertIs DEF T!Entries
  <2>2. CASE n = T!Padded(i)
    BY <1>1, <2>2, InsertIs DEF T!Entries
  <2> QED BY <2>1, <2>2
<1>11. \A j \in DOMAIN p : \A y \in T!Entries(e, p, j) : y.name = n => y = z
  <2>1. ASSUME NEW j \in DOMAIN p, NEW y \in T!Entries(e, p, j), y.name = n PROVE y = z
    <3>1. \/ y = T!Insert(4 * j + 1, T!Position(j), T!Id(e + j)) /\ n = T!Position(j)
          \/ y = T!Insert(4 * j + 2, T!Padded(j), T!Id(e + j)) /\ n = T!Padded(j)
      BY <1>2, <1>4, <2>1, InsertIs DEF T!Entries
    <3>2. \/ z = T!Insert(4 * i + 1, T!Position(i), T!Id(e + i)) /\ n = T!Position(i)
          \/ z = T!Insert(4 * i + 2, T!Padded(i), T!Id(e + i)) /\ n = T!Padded(i)
      BY <1>2, <1>4, <1>10, InsertIs DEF T!Entries
    <3>3. j = i
      BY <1>3, <3>1
    <3> QED BY <3>1, <3>2, <3>3, NamesApart
  <2> QED BY <2>1
<1>12. z \in T!IdMap(e, p)
       /\ \A y \in T!IdMap(e, p) : y.name = n => y = z \/ (y.at \in Nat /\ y.at < z.at)
  BY <1>5, <1>10, <1>11, Inserted
<1>13. T!Bound(T!IdMap(e, p), n) /\ T!Lookup(T!IdMap(e, p), n) = T!Id(e + i)
  BY <1>10, <1>12, LookupIs
<1> QED BY <1>9, <1>13

\* An id the agent gave is its subtask's in both.
LEMMA OwnMeans ==
  ASSUME NEW e \in Nat, NEW p \in T!Proposal, NEW i \in DOMAIN p, p[i].id # T!Blank
  PROVE  /\ T!Bound(T!Canonical(e, p), p[i].id)
         /\ T!Lookup(T!Canonical(e, p), p[i].id) = T!Key(p, i)
         /\ T!Bound(T!IdMap(e, p), p[i].id) /\ T!Lookup(T!IdMap(e, p), p[i].id) = T!Id(e + i)
<1> DEFINE n == p[i].id
           x == T!Insert(3 * i + 2, T!Key(p, i), T!Key(p, i))
           z == T!Insert(4 * i, n, T!Id(e + i))
<1>1. i \in Nat /\ T!Key(p, i) = n /\ \E g \in Given : n = T!Own(g)
  BY ProposalIs, KeyIs
<1>2. \A j : T!Id(j) # n /\ T!Position(j) # n /\ T!Padded(j) # n /\ T!Unnamed(j) # n
  BY <1>1, NamesApart
<1>3. \A j \in DOMAIN p : p[j].id = n => j = i
  BY ProposalIs
<1>4. \A j \in DOMAIN p : T!Key(p, j) = n => j = i
  BY <1>2, <1>3, KeyIs
<1>5. \A y \in T!Existing(e) : y.name # n
  BY <1>2, Inserted, InsertIs
<1>6. x.name = n /\ x.value = T!Key(p, i) /\ x.at \in Nat
      /\ z.name = n /\ z.value = T!Id(e + i) /\ z.at \in Nat
  BY <1>1, InsertIs
<1>7. x \in T!Canonical(e, p) /\ \A y \in T!Canonical(e, p) : y.name = n => y = x
  <2>1. x \in T!Keyed(p, i)
    BY DEF T!Keyed
  <2>2. ASSUME NEW j \in DOMAIN p, NEW y \in T!Keyed(p, j), y.name = n PROVE y = x
    <3>1. y = T!Insert(3 * j + 2, T!Key(p, j), T!Key(p, j)) /\ T!Key(p, j) = n
      BY <1>2, <2>2, InsertIs DEF T!Keyed
    <3> QED BY <1>4, <3>1
  <2> HIDE DEF n, x
  <2> QED BY <1>5, <2>1, <2>2, Inserted
<1>8. z \in T!IdMap(e, p) /\ \A y \in T!IdMap(e, p) : y.name = n => y = z
  <2>1. z \in T!Entries(e, p, i)
    BY DEF T!Entries
  <2>2. ASSUME NEW j \in DOMAIN p, NEW y \in T!Entries(e, p, j), y.name = n PROVE y = z
    <3>1. y = T!Insert(4 * j, p[j].id, T!Id(e + j)) /\ p[j].id = n
      BY <1>2, <2>2, InsertIs DEF T!Entries
    <3> QED BY <1>3, <3>1
  <2> HIDE DEF n, z
  <2> QED BY <1>5, <2>1, <2>2, Inserted
<1> HIDE DEF n, x, z
<1>9. /\ T!Bound(T!Canonical(e, p), n) /\ T!Lookup(T!Canonical(e, p), n) = T!Key(p, i)
      /\ T!Bound(T!IdMap(e, p), n) /\ T!Lookup(T!IdMap(e, p), n) = T!Id(e + i)
  <2>1. /\ T!Bound(T!Canonical(e, p), x.name) /\ T!Lookup(T!Canonical(e, p), x.name) = x.value
        /\ T!Bound(T!IdMap(e, p), z.name) /\ T!Lookup(T!IdMap(e, p), z.name) = z.value
    BY <1>6, <1>7, <1>8, LookupIs
  <2> QED BY <1>6, <2>1
<1> QED BY <1>9 DEF n

\* A child's own id is the child's in both, and so is its padded number, unless a subtask
\* has that number.
LEMMA ChildMeans ==
  ASSUME NEW e \in Nat, NEW p \in T!Proposal, NEW i \in 1 .. e,
         NEW n \in {T!Id(i), T!Padded(i)}, n = T!Id(i) \/ i \notin DOMAIN p
  PROVE  /\ T!Bound(T!Canonical(e, p), n) /\ T!Lookup(T!Canonical(e, p), n) = T!Id(i)
         /\ T!Bound(T!IdMap(e, p), n) /\ T!Lookup(T!IdMap(e, p), n) = T!Id(i)
<1> DEFINE x == T!Insert(0, n, T!Id(i))
<1>1. x.name = n /\ x.value = T!Id(i) /\ x.at \in Nat
  BY InsertIs
<1>2. \A j \in DOMAIN p : /\ j \in Nat /\ j > 0 /\ e + j # i
                          /\ T!Key(p, j) # n /\ p[j].id # n /\ T!Position(j) # n
                          /\ T!Padded(j) # n /\ T!Id(e + j) # n
  <2>1. \A j \in DOMAIN p : T!Key(p, j) # n /\ p[j].id # n /\ T!Position(j) # n
    BY KeyIs, NamesApart
  <2>2. \A j \in DOMAIN p : j \in Nat /\ j > 0 /\ e + j # i
    BY ProposalIs
  <2>3. \A j \in DOMAIN p : T!Padded(j) # n /\ T!Id(e + j) # n
    BY <2>2, NamesApart
  <2> QED BY <2>1, <2>2, <2>3
<1>3. x \in T!Existing(e) /\ \A y \in T!Existing(e) : y.name = n => y = x
  <2>1. x \in T!Existing(e)
    BY Inserted
  <2>2. ASSUME NEW y \in T!Existing(e), y.name = n PROVE y = x
    <3>1. PICK j \in 1 .. e : \/ y = T!Insert(0, T!Id(j), T!Id(j)) /\ n = T!Id(j)
                              \/ y = T!Insert(0, T!Padded(j), T!Id(j)) /\ n = T!Padded(j)
      BY <2>2, Inserted, InsertIs
    <3>2. j = i
      BY <3>1, NamesApart
    <3> QED BY <3>1, <3>2
  <2> QED BY <2>1, <2>2
<1>4. \A j \in DOMAIN p : \A y \in T!Keyed(p, j) : y.name # n
  BY <1>2, InsertIs DEF T!Keyed
<1>5. \A j \in DOMAIN p : \A y \in T!Entries(e, p, j) : y.name # n
  BY <1>2, InsertIs DEF T!Entries
<1> HIDE DEF x
<1>6. /\ x \in T!Canonical(e, p) /\ \A y \in T!Canonical(e, p) : y.name = n => y = x
      /\ x \in T!IdMap(e, p)
  BY <1>3, <1>4, Inserted
<1>7. \A y \in T!IdMap(e, p) : y.name = n => y = x
  BY <1>3, <1>5, Inserted
<1>8. /\ T!Bound(T!Canonical(e, p), x.name) /\ T!Lookup(T!Canonical(e, p), x.name) = x.value
      /\ T!Bound(T!IdMap(e, p), x.name) /\ T!Lookup(T!IdMap(e, p), x.name) = x.value
  <2>1. /\ x \in T!Canonical(e, p) /\ x.at \in Nat
        /\ \A y \in T!Canonical(e, p) : y.name = x.name => y = x \/ (y.at \in Nat /\ y.at < x.at)
    BY <1>1, <1>6
  <2>2. /\ x \in T!IdMap(e, p) /\ x.at \in Nat
        /\ \A y \in T!IdMap(e, p) : y.name = x.name => y = x \/ (y.at \in Nat /\ y.at < x.at)
    BY <1>1, <1>6, <1>7
  <2> QED BY <2>1, <2>2, LookupIs
<1> QED BY <1>1, <1>8

\* What a dependency of an accepted split resolves to.
LEMMA Resolved ==
  ASSUME NEW e \in Nat, NEW p \in T!Proposal, ~T!Unknown(e, p),
         NEW i \in DOMAIN p, NEW n \in T!Named(p, i)
  PROVE  \/ \E j \in DOMAIN p : /\ T!Lookup(T!Canonical(e, p), n) = T!Key(p, j)
                                /\ T!Stored(e, p, n) = T!Id(e + j)
         \/ \E k \in 1 .. e : /\ T!Lookup(T!Canonical(e, p), n) = T!Id(k)
                              /\ T!Stored(e, p, n) = T!Id(k)
<1>1. PICK x \in T!Canonical(e, p) : x.name = n
  BY DEF T!Unknown, T!Bound
<1>2. n \in T!Name /\ n # T!Blank
  BY ProposalIs DEF T!Named
<1>3. \A j : T!Unnamed(j) # n
  <2>1. \/ \E g \in Given : n = T!Own(g)
        \/ \E m : n = T!Position(m) \/ n = T!Padded(m) \/ n = T!Id(m)
    BY <1>2 DEF T!Name
  <2> QED BY <2>1, NamesApart
<1>4. \/ \E j \in DOMAIN p : n \in {T!Position(j), T!Padded(j)}
      \/ \E j \in DOMAIN p : n = p[j].id
      \/ \E k \in 1 .. e : n \in {T!Id(k), T!Padded(k)} /\ (n = T!Id(k) \/ k \notin DOMAIN p)
  <2>1. CASE x \in T!Existing(e)
    BY <1>1, <2>1, Inserted, InsertIs
  <2>2. ASSUME NEW j \in DOMAIN p, x \in T!Keyed(p, j)
        PROVE  n \in {T!Position(j), T!Padded(j), p[j].id}
    BY <1>1, <1>3, <2>2, InsertIs, KeyIs DEF T!Keyed
  <2> QED BY <1>1, <2>1, <2>2, Inserted
<1>5. CASE \E j \in DOMAIN p : n \in {T!Position(j), T!Padded(j)}
  BY <1>5, NumberMeans DEF T!Stored
<1>6. CASE \E j \in DOMAIN p : n = p[j].id
  BY <1>2, <1>6, OwnMeans DEF T!Stored
<1>7. CASE \E k \in 1 .. e : n \in {T!Id(k), T!Padded(k)} /\ (n = T!Id(k) \/ k \notin DOMAIN p)
  BY <1>7, ChildMeans DEF T!Stored
<1> QED BY <1>4, <1>5, <1>6, <1>7

\* Blank is no name of either map.
LEMMA BlankStays ==
  ASSUME NEW e \in Nat, NEW p \in T!Proposal
  PROVE  T!Stored(e, p, T!Blank) = T!Blank
<1>1. \A y \in T!IdMap(e, p) : y.name # T!Blank
  <2>1. \A y \in T!Existing(e) : y.name # T!Blank
    BY Inserted, InsertIs, NamesApart
  <2>2. \A j \in DOMAIN p : \A y \in T!Entries(e, p, j) : y.name # T!Blank
    BY InsertIs, NamesApart DEF T!Entries
  <2> QED BY <2>1, <2>2, Inserted
<1> QED BY <1>1 DEF T!Stored, T!Bound

\* Where nothing reaches itself, some subtask of any set depends on none of the set.
LEMMA SomeIsFree ==
  ASSUME NEW e \in Nat, NEW p \in T!Proposal, ~T!Cyclic(e, p),
         NEW set \in SUBSET DOMAIN p, set # {}
  PROVE  \E i \in set : \A j \in set : ~T!Edge(e, p, i, j)
<1> DEFINE Reach(i) == T!Reached(e, p, i)
           all == {Reach(i) : i \in set}
           R == StrictSubsetOrdering(DOMAIN p)
<1>1. IsFiniteSet(DOMAIN p)
  BY ProposalIs, FS_Interval
<1>2. \A i : Reach(i) \in SUBSET DOMAIN p
  BY DEF T!Reached
<1>3. all \subseteq FiniteSubsetsOf(DOMAIN p) /\ all # {}
  <2>1. \A i : IsFiniteSet(Reach(i))
    BY <1>1, <1>2, FS_Subset
  <2> QED BY <1>2, <2>1 DEF FiniteSubsetsOf
<1>4. IsWellFoundedOn(R, FiniteSubsetsOf(DOMAIN p))
  BY FS_StrictSubsetOrderingWellFounded
<1> HIDE DEF all, R
<1>5. PICK x \in all : \A y \in all : ~ (<<y, x>> \in R)
  BY <1>3, <1>4, WFMin
<1>6. PICK i \in set : x = Reach(i)
  BY DEF all
<1>7. ASSUME NEW j \in set, T!Edge(e, p, i, j) PROVE FALSE
  <2>1. j \in Reach(i)
    BY <1>7 DEF T!Reached
  <2>2. j \notin Reach(j)
    BY DEF T!Cyclic
  <2>3. Reach(j) \subseteq Reach(i)
    <3>1. ASSUME NEW m \in Reach(j), NEW closed \in SUBSET DOMAIN p,
                 \A a, b \in DOMAIN p : a \in closed \cup {i} /\ T!Edge(e, p, a, b) => b \in closed
          PROVE  m \in closed
      <4>1. j \in closed
        BY <1>7, <3>1
      <4>2. \A a, b \in DOMAIN p : a \in closed \cup {j} /\ T!Edge(e, p, a, b) => b \in closed
        BY <3>1, <4>1
      <4> QED BY <4>2 DEF T!Reached
    <3> QED BY <1>2, <3>1 DEF T!Reached
  <2>4. <<Reach(j), Reach(i)>> \in R
    BY <1>2, <2>1, <2>2, <2>3 DEF R, StrictSubsetOrdering
  <2>5. Reach(j) \in all
    BY DEF all
  <2> QED BY <1>5, <1>6, <2>4, <2>5
<1> QED BY <1>7

\* The dependencies stored are children there are, and of any children one depends on none
\* of them.
StoredTyped == kids \in Seq(SUBSET T!Name) /\ Len(kids) <= MaxKids /\ done \subseteq DOMAIN kids

Layered ==
  /\ \A i \in DOMAIN kids : kids[i] \subseteq {T!Id(j) : j \in DOMAIN kids}
  /\ \A set \in SUBSET DOMAIN kids : set # {} =>
       \E i \in set : \A j \in set : T!Id(j) \notin kids[i]

LEMMA TopologyStarts == T!Init => StoredTyped /\ Layered
<1> SUFFICES ASSUME T!Init PROVE StoredTyped /\ Layered
    OBVIOUS
<1>1. kids = <<>> /\ done = {} /\ MaxKids \in Nat
  BY ServicesAssumption DEF T!Init, ServicesAssumption, T!TopologyAssumption
<1>2. kids \in Seq(SUBSET T!Name) /\ Len(kids) = 0 /\ DOMAIN kids = {}
  BY <1>1
<1> QED BY <1>1, <1>2 DEF StoredTyped, Layered

\* What an accepted split adds.
LEMMA SplitAdds ==
  ASSUME StoredTyped, NEW p \in T!Proposal, ~T!Rejects(Len(kids), p),
         kids' = kids \o [i \in DOMAIN p |->
                            {T!Stored(Len(kids), p, n) : n \in p[i].dependsOn}]
  PROVE  \E k \in Nat :
           /\ Len(kids) \in Nat /\ DOMAIN kids = 1 .. Len(kids)
           /\ DOMAIN p = 1 .. k /\ DOMAIN kids' = 1 .. (Len(kids) + k)
           /\ Len(kids') = Len(kids) + k
           /\ \A i \in DOMAIN kids : kids'[i] = kids[i]
           /\ \A i \in DOMAIN p : kids'[Len(kids) + i] =
                                    {T!Stored(Len(kids), p, n) : n \in p[i].dependsOn}
<1> DEFINE new == [i \in DOMAIN p |-> {T!Stored(Len(kids), p, n) : n \in p[i].dependsOn}]
           All == {new[i] : i \in DOMAIN p} \cup SUBSET T!Name
<1>1. PICK k \in Nat : DOMAIN p = 1 .. k
  BY ProposalIs
<1>2. kids \in Seq(All) /\ new \in Seq(All) /\ Len(new) = k
  <2>1. kids \in Seq(SUBSET T!Name)
    BY DEF StoredTyped
  <2>2. SUBSET T!Name \subseteq All
    OBVIOUS
  <2>3. new \in [1 .. k -> All]
    BY <1>1
  <2> HIDE DEF new, All
  <2> QED BY <2>1, <2>2, <2>3
<1>3. \A i \in DOMAIN p : new[i] = {T!Stored(Len(kids), p, n) : n \in p[i].dependsOn}
  OBVIOUS
<1>4. kids' = kids \o new
  OBVIOUS
<1> HIDE DEF new, All
<1>5. /\ Len(kids) \in Nat /\ DOMAIN kids = 1 .. Len(kids)
      /\ DOMAIN (kids \o new) = 1 .. (Len(kids) + k)
      /\ Len(kids \o new) = Len(kids) + k
      /\ \A i \in 1 .. Len(kids) : (kids \o new)[i] = kids[i]
      /\ \A i \in 1 .. k : (kids \o new)[Len(kids) + i] = new[i]
  <2>1. /\ kids \o new \in Seq(All)
        /\ Len(kids \o new) = Len(kids) + Len(new)
        /\ \A i \in 1 .. Len(kids) + Len(new) :
             (kids \o new)[i] = IF i <= Len(kids) THEN kids[i] ELSE new[i - Len(kids)]
    BY <1>2, ConcatProperties
  <2>2. /\ DOMAIN (kids \o new) = 1 .. (Len(kids) + k)
        /\ DOMAIN kids = 1 .. Len(kids)
    BY <1>2, <2>1
  <2> QED BY <1>2, <2>1, <2>2
<1> QED BY <1>1, <1>3, <1>4, <1>5

LEMMA SplitTyped ==
  ASSUME StoredTyped, T!Split
  PROVE  StoredTyped'
<1>1. PICK p \in T!Proposal :
        /\ Len(kids) + Len(p) <= MaxKids /\ ~T!Rejects(Len(kids), p)
        /\ kids' = kids \o [i \in DOMAIN p |->
                              {T!Stored(Len(kids), p, n) : n \in p[i].dependsOn}]
        /\ done' = done
  BY DEF T!Split
<1>2. PICK k \in Nat :
        /\ Len(kids) \in Nat /\ DOMAIN kids = 1 .. Len(kids)
        /\ DOMAIN p = 1 .. k /\ DOMAIN kids' = 1 .. (Len(kids) + k)
        /\ Len(kids') = Len(kids) + k
        /\ \A i \in DOMAIN kids : kids'[i] = kids[i]
        /\ \A i \in DOMAIN p : kids'[Len(kids) + i] =
                                 {T!Stored(Len(kids), p, n) : n \in p[i].dependsOn}
  BY <1>1, SplitAdds
<1>3. Len(p) = k
  BY <1>2, ProposalIs
<1>4. Len(kids) + k <= MaxKids /\ MaxKids \in Nat
  BY <1>1, <1>3, ServicesAssumption DEF ServicesAssumption, T!TopologyAssumption
<1>5. \A j \in 1 .. MaxKids : T!Id(j) \in T!Name
  BY DEF T!Name
<1>6. ASSUME NEW i \in DOMAIN p, NEW n \in p[i].dependsOn
      PROVE  T!Stored(Len(kids), p, n) \in T!Name
  <2>1. CASE n = T!Blank
    BY <1>2, <1>6, <2>1, BlankStays, ProposalIs
  <2>2. CASE n # T!Blank
    <3>1. n \in T!Named(p, i) /\ ~T!Unknown(Len(kids), p)
      BY <1>1, <1>6, <2>2 DEF T!Named, T!Rejects
    <3>2. \/ \E j \in DOMAIN p : T!Stored(Len(kids), p, n) = T!Id(Len(kids) + j)
          \/ \E j \in 1 .. Len(kids) : T!Stored(Len(kids), p, n) = T!Id(j)
      BY <1>2, <3>1, Resolved
    <3>3. \A j \in DOMAIN p : Len(kids) + j \in 1 .. MaxKids
      BY <1>2, <1>4
    <3>4. \A j \in 1 .. Len(kids) : j \in 1 .. MaxKids
      BY <1>2, <1>4
    <3> QED BY <1>5, <3>2, <3>3, <3>4
  <2> QED BY <2>1, <2>2
<1> DEFINE new == [i \in DOMAIN p |-> {T!Stored(Len(kids), p, n) : n \in p[i].dependsOn}]
<1>7. kids \o new \in Seq(SUBSET T!Name)
  <2>1. new \in [1 .. k -> SUBSET T!Name]
    BY <1>2, <1>6
  <2> HIDE DEF new
  <2>2. new \in Seq(SUBSET T!Name) /\ kids \in Seq(SUBSET T!Name)
    BY <2>1 DEF StoredTyped
  <2> QED BY <2>2, ConcatProperties
<1> QED BY <1>1, <1>2, <1>3, <1>4, <1>7 DEF StoredTyped

LEMMA SplitLayers ==
  ASSUME ~Spaces, StoredTyped, Layered, T!Split
  PROVE  Layered'
<1>1. PICK p \in T!Proposal :
        /\ ~T!Rejects(Len(kids), p)
        /\ kids' = kids \o [i \in DOMAIN p |->
                              {T!Stored(Len(kids), p, n) : n \in p[i].dependsOn}]
  BY DEF T!Split
<1> DEFINE e == Len(kids)
<1>2. PICK k \in Nat :
        /\ e \in Nat /\ DOMAIN kids = 1 .. e /\ DOMAIN p = 1 .. k /\ DOMAIN kids' = 1 .. (e + k)
        /\ \A i \in DOMAIN kids : kids'[i] = kids[i]
        /\ \A i \in DOMAIN p : kids'[e + i] = {T!Stored(e, p, n) : n \in p[i].dependsOn}
  BY <1>1, SplitAdds
<1>3. ~T!Unknown(e, p) /\ ~T!Cyclic(e, p)
  BY <1>1 DEF T!Rejects
<1> HIDE DEF e
<1>4. \A i \in DOMAIN p : p[i].dependsOn = T!Named(p, i)
  <2>1. T!Blank \notin T!Name
    BY NamesApart DEF T!Name
  <2> QED BY <2>1, ProposalIs DEF T!Named
<1>5. ASSUME NEW i \in DOMAIN p, NEW d \in kids'[e + i]
      PROVE  \/ \E j \in DOMAIN p : d = T!Id(e + j) /\ T!Edge(e, p, i, j)
             \/ \E j \in 1 .. e : d = T!Id(j)
  <2>1. PICK n \in T!Named(p, i) : d = T!Stored(e, p, n)
    BY <1>2, <1>4, <1>5
  <2> QED BY <1>2, <1>3, <2>1, Resolved DEF T!Edge
<1>6. ASSUME NEW i \in 1 .. (e + k), i \notin 1 .. e
      PROVE  i - e \in DOMAIN p /\ i = e + (i - e)
  BY <1>2, <1>6
<1>7. ASSUME NEW i \in DOMAIN kids' PROVE kids'[i] \subseteq {T!Id(j) : j \in DOMAIN kids'}
  <2>1. CASE i \in 1 .. e
    BY <1>2, <2>1 DEF Layered
  <2>2. CASE i \notin 1 .. e
    <3>1. ASSUME NEW d \in kids'[i] PROVE d \in {T!Id(j) : j \in DOMAIN kids'}
      <4>1. \/ \E j \in DOMAIN p : d = T!Id(e + j)
            \/ \E j \in 1 .. e : d = T!Id(j)
        <5>1. i - e \in DOMAIN p /\ d \in kids'[e + (i - e)]
          BY <1>2, <1>6, <1>7, <2>2, <3>1
        <5> QED BY <1>5, <5>1
      <4>2. \A j \in DOMAIN p : e + j \in DOMAIN kids'
        BY <1>2
      <4>3. \A j \in 1 .. e : j \in DOMAIN kids'
        BY <1>2
      <4> QED BY <4>1, <4>2, <4>3
    <3> QED BY <3>1
  <2> QED BY <2>1, <2>2
<1>8. ASSUME NEW set \in SUBSET DOMAIN kids', set # {}
      PROVE  \E i \in set : \A j \in set : T!Id(j) \notin kids'[i]
  <2>1. CASE set \cap (1 .. e) # {}
    <3>1. PICK i \in set \cap (1 .. e) : \A j \in set \cap (1 .. e) : T!Id(j) \notin kids[i]
      BY <1>2, <2>1 DEF Layered
    <3>2. kids[i] \subseteq {T!Id(j) : j \in 1 .. e} /\ kids'[i] = kids[i]
      BY <1>2 DEF Layered
    <3>3. ASSUME NEW j \in set, T!Id(j) \in kids'[i] PROVE FALSE
      <4>1. PICK m \in 1 .. e : T!Id(j) = T!Id(m)
        BY <3>2, <3>3
      <4>2. j = m
        BY <4>1, NamesApart
      <4> QED BY <3>1, <3>2, <3>3, <4>2
    <3> QED BY <3>1, <3>3
  <2>2. CASE set \cap (1 .. e) = {}
    <3> DEFINE new == {i \in DOMAIN p : e + i \in set}
    <3>1. \A i \in set : i - e \in DOMAIN p /\ i = e + (i - e)
      BY <1>2, <1>6, <2>2
    <3>2. new # {}
      BY <1>8, <3>1
    <3>3. PICK i \in new : \A j \in new : ~T!Edge(e, p, i, j)
      BY <1>2, <1>3, <3>2, SomeIsFree
    <3>4. ASSUME NEW j \in set, T!Id(j) \in kids'[e + i] PROVE FALSE
      <4>1. \/ \E m \in DOMAIN p : T!Id(j) = T!Id(e + m) /\ T!Edge(e, p, i, m)
            \/ \E m \in 1 .. e : T!Id(j) = T!Id(m)
        BY <1>5, <3>4
      <4>2. \/ \E m \in DOMAIN p : j = e + m /\ T!Edge(e, p, i, m)
            \/ j \in 1 .. e
        BY <4>1, NamesApart
      <4> QED BY <2>2, <3>3, <4>2
    <3> QED BY <3>4
  <2> QED BY <2>1, <2>2
<1> QED BY <1>7, <1>8 DEF Layered

LEMMA TopologyImplemented == Spec => T!Spec
<1>1. Init => T!Init
  BY DEF Init
<1>2. [Next]_vars => [T!Next]_(T!vars)
  <2> USE DEF Programs, Turns, Steered, Noted, Divided
  <2>1. CASE Next /\ Divided
    BY <2>1 DEF Next, T!Next
  <2>2. CASE (Next /\ ~Divided) \/ UNCHANGED vars
    BY <2>2 DEF Next, vars, topology, T!vars
  <2> QED BY <2>1, <2>2
<1> QED BY <1>1, <1>2, PTL DEF Spec, T!Spec

LEMMA TopologyTyped == StoredTyped /\ [T!Next]_(T!vars) => StoredTyped'
<1> SUFFICES ASSUME StoredTyped, [T!Next]_(T!vars) PROVE StoredTyped'
    OBVIOUS
<1>1. CASE T!Split
  BY <1>1, SplitTyped
<1>2. CASE \E i \in 1 .. MaxKids : T!Complete(i)
  BY <1>2 DEF T!Complete, StoredTyped
<1>3. CASE UNCHANGED T!vars
  BY <1>3 DEF T!vars, StoredTyped
<1> QED BY <1>1, <1>2, <1>3 DEF T!Next

LEMMA TopologyHolds ==
  ASSUME ~Spaces
  PROVE  StoredTyped /\ Layered /\ [T!Next]_(T!vars) => StoredTyped' /\ Layered'
<1> SUFFICES ASSUME StoredTyped, Layered, [T!Next]_(T!vars) PROVE Layered'
    BY TopologyTyped
<1>1. CASE T!Split
  BY <1>1, SplitLayers
<1>2. CASE \E i \in 1 .. MaxKids : T!Complete(i)
  BY <1>2 DEF T!Complete, Layered
<1>3. CASE UNCHANGED T!vars
  BY <1>3 DEF T!vars, Layered
<1> QED BY <1>1, <1>2, <1>3 DEF T!Next

\* A split that was accepted can be run to its end, with all its parent was split into
\* before, where no dependency is an empty name: reject_split_topology, add_children.
THEOREM SplitsSchedulable == ASSUME ~Spaces PROVE Spec => []Schedulable
<1>1. StoredTyped /\ Layered => Schedulable
  <2> SUFFICES ASSUME StoredTyped, Layered, done # DOMAIN kids
               PROVE  \E i \in DOMAIN kids \ done : kids[i] \subseteq {T!Id(j) : j \in done}
      BY DEF Schedulable, T!Schedulable
  <2> DEFINE left == DOMAIN kids \ done
  <2>1. left # {} /\ left \in SUBSET DOMAIN kids
    BY DEF StoredTyped
  <2>2. PICK i \in left : \A j \in left : T!Id(j) \notin kids[i]
    BY <2>1 DEF Layered
  <2>3. kids[i] \subseteq {T!Id(j) : j \in done}
    BY <2>2 DEF Layered
  <2> QED BY <2>3
<1> QED BY <1>1, TopologyStarts, TopologyHolds, TopologyImplemented, PTL DEF T!Spec

\* The names of an accepted split mean to the store the subtask, or the child, that they
\* meant when it was judged: reject_split_topology, add_children.
THEOREM NamesKeepMeaning == Spec => []SameMeaning
<1>1. StoredTyped => T!SameMeaning
  <2> SUFFICES ASSUME StoredTyped, NEW p \in T!Proposal, ~T!Rejects(Len(kids), p),
                      NEW i \in DOMAIN p, NEW n \in T!Named(p, i)
               PROVE  LET key == T!Lookup(T!Canonical(Len(kids), p), n)
                          id == T!Stored(Len(kids), p, n)
                      IN  \/ \E j \in DOMAIN p : key = T!Key(p, j) /\ id = T!Id(Len(kids) + j)
                          \/ \E k \in DOMAIN kids : key = T!Id(k) /\ id = T!Id(k)
      BY DEF T!SameMeaning
  <2>1. Len(kids) \in Nat /\ DOMAIN kids = 1 .. Len(kids) /\ ~T!Unknown(Len(kids), p)
    BY DEF StoredTyped, T!Rejects
  <2> QED BY <2>1, Resolved
<1>2. StoredTyped => SameMeaning
  BY <1>1 DEF SameMeaning
<1>3. T!Init => StoredTyped
  BY TopologyStarts
<1> QED BY <1>2, <1>3, TopologyTyped, TopologyImplemented, PTL DEF T!Spec

LEMMA TopologyIsTyped == Spec => []T!TypeOK
<1>1. StoredTyped => T!TypeOK
  BY DEF StoredTyped, T!TypeOK
<1>2. T!Init => StoredTyped
  BY TopologyStarts
<1> QED BY <1>1, <1>2, TopologyTyped, TopologyImplemented, PTL DEF T!Spec

-----------------------------------------------------------------------------
\* Type correctness of every part, whatever the switches of the constants are: each of
\* them keeps its files and rows in their form, and its counters within their bounds.
THEOREM TypeCorrect == Spec => []TypeOK
<1>1. Spec => []P!TypeOK
  <2>1. P!IInv => P!TypeOK
    BY DEF P!IInv
  <2> QED BY <2>1, ProgramsStart, ProgramsHold, PTL DEF Spec
<1>2. Spec => []C!TypeOK
  <2>1. C!Spec => []C!TypeOK
    BY C!TypeCorrect, ServicesAssumption DEF ServicesAssumption
  <2> QED BY <2>1, TurnsImplemented, PTL
<1>3. Spec => []M!TypeOK
  <2>1. M!Spec => []M!TypeOK
    BY M!TypeCorrect, ServicesAssumption DEF ServicesAssumption
  <2> QED BY <2>1, MemoryImplemented, PTL
<1> QED BY <1>1, <1>2, <1>3, SteeringIsTyped, TopologyIsTyped, PTL DEF TypeOK

=============================================================================
