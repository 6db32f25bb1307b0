------------------------------ MODULE Steering ------------------------------
(***************************************************************************)
(* Constraints and contracts.  A constraint typed in the terminal is       *)
(* queued and applied by the run loop between two batches; the butler's    *)
(* tools (constraint, amend, edit_contract) and an owner's ruling write at *)
(* once.  All of them walk the tree and then read and write one            *)
(* contract.md after the other, with no lock, and a split gives its        *)
(* children what it reads in their parent's, beside what it proposed.      *)
(*                                                                         *)
(* Statuses, crashes and retries are Scheduler's.  No node is deleted      *)
(* here, and a walk lists a node before those below it.                    *)
(*                                                                         *)
(* An operator named ...Faulty is a deliberate mistake: put in place of    *)
(* the definition it precedes, it makes a property of a run fail.          *)
(***************************************************************************)
EXTENDS Naturals, Sequences, SequencesExt

CONSTANTS
  Walk,      \* every node there may be, in the order of a walk
  ParentOf,  \* the parent of each node but the first
  AtStart,   \* the nodes there are at the start
  Worker,    \* the workers of a batch
  Text,      \* constraints
  Goal,      \* goals an edit may give
  Commands,  \* bound: commands typed
  MidRun     \* the butler's tools may run while the loop does

Place == ToSet(Walk)

\* What the constants must be.
SteeringAssumption ==
  /\ Walk \in Seq(Place) /\ AtStart \subseteq Place
  /\ ParentOf \in [Place \ {Head(Walk)} -> Place]
  /\ \A n \in AtStart \ {Head(Walk)} : ParentOf[n] \in AtStart
  /\ Worker \cap {"loop", "tool"} = {}
  /\ Commands \in Nat /\ MidRun \in BOOLEAN

VARIABLES
  nodes,     \* the rows of the index
  terms,     \* contract.md of each node: its goal and its constraints
  goal,      \* the goal column of each row
  law,       \* the constraints each place owes to the commands and splits so far
  queue,     \* steer_queue
  typed,     \* the commands typed so far
  taken,     \* what the loop has drained and not applied
  loop,      \* off, or what the loop is at
  edit,      \* the change each writer is making
  heir       \* the constraints the split of each worker has read

index == <<nodes, goal>>
inbox == <<queue, typed, taken>>
vars == <<index, terms, law, inbox, loop, edit, heir>>

Writer == Worker \cup {"loop", "tool"}
NoEdit == [op |-> "none"]
NoSplit == [of |-> "none"]
Command == [at : Place, text : Text]
First == "given"     \* the goal every node starts with
Terms == [goal : Goal \cup {First}, constraints : SUBSET Text]
Unread == [goal |-> "unread"]
Edit == [op : {"add", "amend", "goal"}, at : Place, old : Text \cup Goal, new : Text \cup Goal,
         todo : SUBSET Place, held : Terms \cup {Unread}]

\* The type of the state.
TypeOK ==
  /\ nodes \subseteq Place /\ terms \in [Place -> Terms] /\ goal \in [Place -> Goal \cup {First}]
  /\ law \in [Place -> SUBSET Text]
  /\ {queue, taken} \subseteq Seq(Command) /\ typed \in 0 .. Commands
  /\ loop \in {"off", "select", "delete", "apply", "batch"}
  /\ edit \in [Writer -> Edit \cup {NoEdit}]
  /\ heir \in [Worker -> [of : Place, constraints : SUBSET Text] \cup {NoSplit}]

Init ==
  /\ nodes = AtStart /\ terms = [n \in Place |-> [goal |-> First, constraints |-> {}]]
  /\ goal = [n \in Place |-> First] /\ law = [n \in Place |-> {}]
  /\ queue = <<>> /\ typed = 0 /\ taken = <<>>
  /\ loop = "off" /\ edit = [w \in Writer |-> NoEdit] /\ heir = [w \in Worker |-> NoSplit]

-----------------------------------------------------------------------------
\* A set with the parent of every node that it has.
Upward(set) == \A m \in set \ {Head(Walk)} : ParentOf[m] \in set

\* A node, its parent, and so on up: a path prefix.
Above(n) == {m \in Place : \A set \in SUBSET Place : n \in set /\ Upward(set) => m \in set}

Branch(n) == {m \in Place : n \in Above(m)}
Children(n) == {m \in Place \ {Head(Walk)} : ParentOf[m] = n}

\* Faulty: the node itself, and not what is below it.
ReachFaulty(n) == {n}

\* The nodes a change at n visits, of those the walk finds.
Reach(n) == nodes \cap Branch(n)

Position(n) == CHOOSE i \in DOMAIN Walk : Walk[i] = n

\* The first of them in the walk.
Foremost(todo) == CHOOSE n \in todo : \A m \in todo : Position(n) <= Position(m)

Replace(set, old, new) == IF old \in set THEN (set \ {old}) \cup {new} ELSE set

\* What an edit makes of a contract.
Changed(e, t) ==
  CASE e.op = "add"   -> [t EXCEPT !.constraints = @ \cup {e.new}]
    [] e.op = "amend" -> [t EXCEPT !.constraints = Replace(@, e.old, e.new)]
    [] e.op = "goal"  -> [t EXCEPT !.goal = e.new]

Begins(w, op, n, old, new, todo) ==
  /\ edit[w] = NoEdit
  /\ edit' = [edit EXCEPT ![w] = [op |-> op, at |-> n, old |-> old, new |-> new,
                                  todo |-> todo, held |-> Unread]]

\* The contract of the next node is read,
ReadTerms(w) ==
  /\ edit[w] # NoEdit /\ edit[w].todo # {} /\ edit[w].held = Unread
  /\ edit' = [edit EXCEPT ![w].held = terms[Foremost(edit[w].todo)]]
  /\ UNCHANGED <<index, terms, law, inbox, loop, heir>>

\* and written whole, unless there is nothing to change.
WriteTerms(w) ==
  /\ edit[w] # NoEdit /\ edit[w].held # Unread
  /\ LET n == Foremost(edit[w].todo)
         t == Changed(edit[w], edit[w].held)
     IN  /\ terms' = IF t = edit[w].held THEN terms ELSE [terms EXCEPT ![n] = t]
         /\ edit' = [edit EXCEPT ![w].held = Unread, ![w].todo = @ \ {n}]
  /\ UNCHANGED <<index, law, inbox, loop, heir>>

\* Faulty: the column is not kept in step.
ColumnFaulty(e) == goal

\* write_contract updates the goal column too.
Column(e) == IF e.op = "goal" THEN [goal EXCEPT ![e.at] = e.new] ELSE goal

\* The change is made: from now on its branch owes it.
EndEdit(w) ==
  /\ edit[w] # NoEdit /\ edit[w].todo = {}
  /\ goal' = Column(edit[w])
  /\ law' = [n \in Place |->
               IF n \notin Branch(edit[w].at) THEN law[n]
               ELSE CASE edit[w].op = "add"   -> law[n] \cup {edit[w].new}
                      [] edit[w].op = "amend" -> Replace(law[n], edit[w].old, edit[w].new)
                      [] edit[w].op = "goal"  -> law[n]]
  /\ edit' = [edit EXCEPT ![w] = NoEdit]
  /\ UNCHANGED <<nodes, terms, queue, typed, taken, loop, heir>>

-----------------------------------------------------------------------------
(* The terminal and the run loop. *)

\* Enter in the prompt of s or m.
Type(n, text) ==
  /\ typed < Commands /\ typed' = typed + 1
  /\ n \in nodes /\ queue' = Append(queue, [at |-> n, text |-> text])
  /\ UNCHANGED <<index, terms, law, taken, loop, edit, heir>>

StartRun ==
  /\ loop = "off" /\ (MidRun \/ edit["tool"] = NoEdit) /\ loop' = "select"
  /\ UNCHANGED <<index, terms, law, inbox, edit, heir>>

\* drain_steer_queue: the queue is selected,
DrainSelect ==
  /\ loop = "select" /\ taken' = queue
  /\ loop' = IF queue = <<>> THEN "batch" ELSE "delete"
  /\ UNCHANGED <<index, terms, law, queue, typed, edit, heir>>

\* and deleted.
DrainDelete ==
  /\ loop = "delete" /\ queue' = <<>> /\ loop' = "apply"
  /\ UNCHANGED <<index, terms, law, typed, taken, edit, heir>>

\* The commands are applied in their order.
Apply ==
  /\ loop = "apply" /\ taken # <<>>
  /\ Begins("loop", "add", Head(taken).at, Head(taken).text, Head(taken).text,
            Reach(Head(taken).at))
  /\ taken' = Tail(taken)
  /\ UNCHANGED <<index, terms, law, queue, typed, loop, heir>>

Steered == loop = "apply" /\ taken = <<>> /\ edit["loop"] = NoEdit

StartBatch ==
  /\ Steered /\ loop' = "batch"
  /\ UNCHANGED <<index, terms, law, inbox, edit, heir>>

EndBatch ==
  /\ loop = "batch" /\ \A w \in Worker : edit[w] = NoEdit /\ heir[w] = NoSplit
  /\ loop' \in {"select", "off"}
  /\ UNCHANGED <<index, terms, law, inbox, edit, heir>>

-----------------------------------------------------------------------------
(* The workers of a batch, and the butler's tools. *)

\* add_children reads the parent's constraints,
SplitReads(w, n) ==
  /\ loop = "batch" /\ edit[w] = NoEdit /\ heir[w] = NoSplit
  /\ n \in nodes /\ Children(n) # {} /\ Children(n) \cap nodes = {}
  /\ \A v \in Worker : heir[v] = NoSplit \/ heir[v].of # n
  /\ heir' = [heir EXCEPT ![w] = [of |-> n, constraints |-> terms[n].constraints]]
  /\ UNCHANGED <<index, terms, law, inbox, loop, edit>>

\* merges them into those that the split proposed for each child, writes the children's
\* contracts and inserts their rows.  A child, and what is below it, owes its own too.
SplitWrites(w) ==
  /\ heir[w] # NoSplit
  /\ LET born == Children(heir[w].of) IN
     \E own \in [born -> SUBSET Text] :
       /\ nodes' = nodes \cup born
       /\ terms' = [n \in Place |->
                      IF n \in born
                        THEN [goal |-> First, constraints |-> heir[w].constraints \cup own[n]]
                        ELSE terms[n]]
       /\ law' = [n \in Place |-> law[n] \cup UNION {own[b] : b \in born \cap Above(n)}]
  /\ heir' = [heir EXCEPT ![w] = NoSplit]
  /\ UNCHANGED <<goal, inbox, loop, edit>>

\* The ruling of an owner, one at a time, amends the assumption its branch inherited.
Rules(w, n, old, new) ==
  /\ loop = "batch" /\ heir[w] = NoSplit /\ \A v \in Worker : edit[v] = NoEdit
  /\ n \in nodes /\ Children(n) \cap nodes # {} /\ old \in terms[n].constraints
  /\ Begins(w, "amend", n, old, new, Reach(n))
  /\ UNCHANGED <<index, terms, law, inbox, loop, heir>>

\* A butler-tool process.
Tool(n) ==
  /\ loop = "off" \/ MidRun
  /\ n \in nodes
  /\ \/ \E text \in Text : Begins("tool", "add", n, text, text, Reach(n))
     \/ \E old \in Text : \E new \in Text \ {old} : Begins("tool", "amend", n, old, new, Reach(n))
     \/ \E g \in Goal : Begins("tool", "goal", n, g, g, {n})
  /\ UNCHANGED <<index, terms, law, inbox, loop, heir>>

Next ==
  \/ \E w \in Writer : ReadTerms(w) \/ WriteTerms(w) \/ EndEdit(w)
  \/ \E n \in Place : Tool(n) \/ \E text \in Text : Type(n, text)
  \/ StartRun \/ DrainSelect \/ DrainDelete \/ Apply \/ StartBatch \/ EndBatch
  \/ \E w \in Worker :
       \/ SplitWrites(w)
       \/ \E n \in Place : SplitReads(w, n)
       \/ \E n \in Place, old \in Text : \E new \in Text \ {old} : Rules(w, n, old, new)

Spec == Init /\ [][Next]_vars

-----------------------------------------------------------------------------
\* Nobody is in the middle of a change.
Quiet == \A w \in Writer : edit[w] = NoEdit /\ (w \in Worker => heir[w] = NoSplit)

\* A node is bound by exactly what was applied to it or above it, and what splits
\* proposed for it or a node above it, each as amended since: a constraint binds the
\* nodes split off later too, and an amended one none, unless a later split proposes it.
BranchConstrained ==
  Quiet => \A n \in nodes : terms[n].constraints = law[n]

\* store.rs: "status/walk and the contract file never disagree about a node's goal".
GoalShown == Quiet => \A n \in nodes : goal[n] = terms[n].goal

=============================================================================
