---------------------------- MODULE Conversation ----------------------------
(***************************************************************************)
(* The butler's turns.  Every request is a turn of conversation.json,      *)
(* claimed as working before the butler's agent runs and settled as done   *)
(* or failed after it.  Requests come from HTTP threads of a process that  *)
(* serves the dashboard (serve, or a run with its own) and from ask        *)
(* processes.  TURN_LOCK orders the threads of one process; between        *)
(* processes there is only the file, which every change reads whole and    *)
(* writes whole, truncating it first.  The agent is an ordinary child of   *)
(* its process, and outlives it when it is killed.                         *)
(*                                                                         *)
(* A turn is named by its number: the ids hold the length and the time.    *)
(*                                                                         *)
(* An operator named ...Faulty is a deliberate mistake: put in place of    *)
(* the definition it precedes, it makes a property of a run fail.          *)
(***************************************************************************)
EXTENDS Naturals, Sequences, FiniteSets, SequencesExt

CONSTANTS
  Server,     \* processes that serve the dashboard
  Ask,        \* fractal ask processes
  MaxTurns,   \* MAX_TURNS
  Requests,   \* bound: requests made
  Starts,     \* bound: processes started
  Beside,     \* a server may start while a turn is under way
  Races       \* a process may use the file while another one changes it

Process == Server \cup Ask
Nobody == "nobody"

\* What the constants must be.
ConversationAssumption ==
  /\ MaxTurns \in Nat \ {0} /\ {Requests, Starts} \subseteq Nat
  /\ {Beside, Races} \subseteq BOOLEAN
  /\ Nobody \notin Process /\ Server \cap Ask = {}

VARIABLES
  conversation,  \* the turns in the file
  torn,          \* the file is truncated: its writer has not written yet
  up,            \* the processes that live
  lock,          \* what holds TURN_LOCK of each process, and what it has read
  session,       \* the sessions of each process: [turn, stage]
  plan,          \* the session that wrote last-plan.json, or 0
  recorded,      \* the plan of each settled turn: the session it came from
  orphans,       \* turns whose agents were running when their processes were killed
  lost,          \* turns that processes killed since a server's last start left
  claimed,       \* turns claimed so far
  starts         \* bound: processes started

store == <<conversation, torn>>
left == <<orphans, lost>>
vars == <<store, up, lock, session, plan, recorded, left, claimed, starts>>

Turn == [id : 1 .. Requests, status : {"working", "done", "failed"}]
Stage == {"claimed", "running", "settling"}
Free == [by |-> 0, view |-> <<>>, stage |-> "free"]

\* The type of the state.
TypeOK ==
  /\ conversation \in Seq(Turn) /\ Len(conversation) <= MaxTurns
  /\ torn \in BOOLEAN /\ up \subseteq Process
  /\ lock \in [Process -> [by : 0 .. Requests, view : Seq(Turn),
                           stage : {"free", "recover", "claim", "settle", "write"}]]
  /\ session \in [Process -> SUBSET [turn : 1 .. Requests, stage : Stage]]
  /\ plan \in 0 .. Requests /\ recorded \in [1 .. Requests -> 0 .. Requests]
  /\ {orphans, lost} \subseteq SUBSET (1 .. Requests)
  /\ claimed \in 0 .. Requests /\ starts \in 0 .. Starts

Init ==
  /\ conversation = <<>> /\ torn = FALSE /\ up = {}
  /\ lock = [p \in Process |-> Free] /\ session = [p \in Process |-> {}]
  /\ plan = 0 /\ recorded = [t \in 1 .. Requests |-> 0] /\ orphans = {} /\ lost = {}
  /\ claimed = 0 /\ starts = 0

-----------------------------------------------------------------------------
(* The file. *)

\* read_conversation: a file that cannot be parsed has no turns.
Read == IF torn THEN <<>> ELSE conversation

Working(turns) == {i \in DOMAIN turns : turns[i].status = "working"}
WorkingIds(turns) == {turns[i].id : i \in Working(turns)}

\* Faulty: one turn too many is kept.
RecentFaulty(turns) ==
  IF Len(turns) > MaxTurns + 1 THEN SubSeq(turns, Len(turns) - MaxTurns, Len(turns)) ELSE turns

\* Older turns roll off.
Recent(turns) ==
  IF Len(turns) > MaxTurns THEN SubSeq(turns, Len(turns) - MaxTurns + 1, Len(turns)) ELSE turns

\* Faulty: every turn is failed.
FailFaulty(turns) == [i \in DOMAIN turns |-> [turns[i] EXCEPT !.status = "failed"]]

Fail(turns) ==
  [i \in DOMAIN turns |->
     IF i \in Working(turns) THEN [turns[i] EXCEPT !.status = "failed"] ELSE turns[i]]

\* Takes the lock of p for what it is about to write.
Takes(p, by, view, stage) ==
  /\ lock[p] = Free /\ (Races \/ \A q \in Process : lock[q] = Free)
  /\ lock' = [lock EXCEPT ![p] = [by |-> by, view |-> view, stage |-> stage]]

\* fs::write truncates the file,
Truncate(p) ==
  /\ lock[p].stage \in {"recover", "claim", "settle"}
  /\ torn' = TRUE
  /\ lock' = [lock EXCEPT ![p] = [by |-> lock[p].by, view |-> lock[p].view,
                                  stage |-> "write"]]
  /\ UNCHANGED <<conversation, up, session, plan, recorded, left, claimed, starts>>

\* Faulty: the lock is kept.
WriteFaulty(p) ==
  /\ lock[p].stage = "write"
  /\ conversation' = lock[p].view /\ torn' = FALSE
  /\ UNCHANGED <<up, lock, session, plan, recorded, left, claimed, starts>>

\* and writes it.
Write(p) ==
  /\ lock[p].stage = "write"
  /\ conversation' = lock[p].view /\ torn' = FALSE
  /\ lock' = [lock EXCEPT ![p] = Free]
  /\ UNCHANGED <<up, session, plan, recorded, left, claimed, starts>>

-----------------------------------------------------------------------------
\* Faulty: a server serves what it finds.
RecoveredFaulty(p) == Read

\* recover_interrupted, before a server takes its first request.
Recovered(p) == IF p \in Server THEN Fail(Read) ELSE Read

\* A turn is under way in p.
Engaged(p) == session[p] # {} \/ lock[p] # Free

Start(p) ==
  /\ p \notin up /\ starts < Starts
  /\ p \in Server => (Beside \/ \A q \in Process : ~Engaged(q))
  /\ up' = up \cup {p} /\ starts' = starts + 1
  /\ IF Recovered(p) # Read THEN Takes(p, 0, Recovered(p), "recover") ELSE UNCHANGED lock
  /\ lost' = IF p \in Server THEN {} ELSE lost
  /\ UNCHANGED <<store, session, plan, recorded, orphans, claimed>>

\* Faulty: a turn is claimed beside the last.
BusyFaulty(turns) == FALSE

\* The last turn is still working.
Busy(turns) == turns # <<>> /\ Last(turns).status = "working"

\* begin_turn: refused while the last turn works, else appended as working.  An ask
\* process makes one at a time.
Claim(p) ==
  /\ p \in up /\ claimed < Requests /\ ~Busy(Read)
  /\ p \in Ask => session[p] = {}
  /\ Takes(p, claimed + 1,
           Recent(Append(Read, [id |-> claimed + 1, status |-> "working"])), "claim")
  /\ claimed' = claimed + 1
  /\ session' = [session EXCEPT ![p] = @ \cup {[turn |-> claimed + 1, stage |-> "claimed"]}]
  /\ UNCHANGED <<store, up, plan, recorded, left, starts>>

Moves(p, t, from, to) ==
  /\ [turn |-> t, stage |-> from] \in session[p]
  /\ session' = [session EXCEPT ![p] = (@ \ {[turn |-> t, stage |-> from]})
                                         \cup {[turn |-> t, stage |-> to]}]

\* Faulty: the plan of the last session stays.
RunFaulty(p, t) ==
  /\ lock[p].by # t /\ Moves(p, t, "claimed", "running")
  /\ UNCHANGED <<store, up, lock, plan, recorded, left, claimed, starts>>

\* run_session, once begin_turn has returned: last-plan.json is removed and the
\* agent started.
Run(p, t) ==
  /\ lock[p].by # t /\ Moves(p, t, "claimed", "running")
  /\ plan' = 0
  /\ UNCHANGED <<store, up, lock, recorded, left, claimed, starts>>

\* The turns whose agents run in p,
Running(p) == {t \in 1 .. Requests : [turn |-> t, stage |-> "running"] \in session[p]}

\* and those of all the agents that live.
Agents == orphans \cup UNION {Running(p) : p \in Process}

\* The plan tool of an agent, whatever became of the process that started it.
Plan(t) ==
  /\ t \in Agents /\ plan' = t
  /\ UNCHANGED <<store, up, lock, session, recorded, left, claimed, starts>>

\* The agent ends, and the plan there is is taken for its own.
AgentEnds(p, t) ==
  /\ Moves(p, t, "running", "settling")
  /\ recorded' = [recorded EXCEPT ![t] = plan]
  /\ UNCHANGED <<store, up, lock, plan, left, claimed, starts>>

\* update_turn, which does nothing for a turn that is not there any more.
Settle(p, t) ==
  /\ [turn |-> t, stage |-> "settling"] \in session[p] /\ lock[p] = Free
  /\ session' = [session EXCEPT ![p] = @ \ {[turn |-> t, stage |-> "settling"]}]
  /\ IF \E i \in DOMAIN Read : Read[i].id = t
       THEN \E status \in {"done", "failed"} :
              Takes(p, t, [i \in DOMAIN Read |->
                             IF Read[i].id = t THEN [Read[i] EXCEPT !.status = status]
                             ELSE Read[i]], "settle")
       ELSE UNCHANGED lock
  /\ UNCHANGED <<store, up, plan, recorded, left, claimed, starts>>

\* A process is killed, or an ask process that is done exits.  The agent it had started
\* goes on; what the file says of its turns, or of those it was changing, stays.
Exit(p) ==
  /\ p \in up /\ up' = up \ {p}
  /\ lock' = [lock EXCEPT ![p] = Free] /\ session' = [session EXCEPT ![p] = {}]
  /\ orphans' = orphans \cup Running(p)
  /\ lost' = lost \cup {s.turn : s \in session[p]}
                  \cup (IF lock[p] = Free THEN {} ELSE WorkingIds(conversation))
  /\ UNCHANGED <<store, plan, recorded, claimed, starts>>

-----------------------------------------------------------------------------
Work(p) ==
  \/ Truncate(p) \/ Write(p)
  \/ \E t \in 1 .. Requests : Run(p, t) \/ AgentEnds(p, t) \/ Settle(p, t)

Next ==
  \/ \E p \in Process :
       \/ Start(p) \/ Claim(p) \/ Exit(p) \/ Truncate(p) \/ Write(p)
       \/ \E t \in 1 .. Requests : Run(p, t) \/ AgentEnds(p, t) \/ Settle(p, t)
  \/ \E t \in 1 .. Requests : Plan(t)

Spec == Init /\ [][Next]_vars

Fairness == \A p \in Process : WF_vars(Work(p))

FairSpec == Spec /\ Fairness

-----------------------------------------------------------------------------
\* The file shows turn t as working.
Shown(t) == ~torn /\ t \in WorkingIds(conversation)

\* butler.rs: "the tree has one steering agent at a time".  The file is the guard, between
\* processes too; the agent of a killed process is beside the next one only when its
\* turn is no longer shown as working.
OneAgent == Cardinality({t \in Agents : t \in orphans => Shown(t)}) <= 1

\* A turn is never shown with the plan of another one's session, but for an agent's
\* that outlived its process.
PlanIsOwn == \A t \in 1 .. Requests : recorded[t] \in {0, t} \cup orphans

\* Once a server has recovered the file, every turn that it shows as working is at work,
\* unless its process was killed since: no phantom run, and no request refused for ever.
NoPhantom ==
  ~torn /\ (\A p \in Process : lock[p].stage # "recover") =>
    \A t \in WorkingIds(conversation) :
      t \in lost \/ \E p \in up : lock[p].by = t \/ \E s \in session[p] : s.turn = t

\* A turn that was settled is never settled again.
SettledStays ==
  [][\A i \in DOMAIN conversation, j \in DOMAIN conversation' :
       /\ conversation[i].id = conversation'[j].id
       /\ conversation[i].status # "working"
       => conversation'[j] = conversation[i]]_conversation

\* While its process lives, a request that was claimed is settled.
EveryTurnSettles ==
  \A t \in 1 .. Requests :
    (\E p \in Process : \E s \in session[p] : s.turn = t)
      ~> (\A p \in Process : \A s \in session[p] : s.turn # t)

=============================================================================
