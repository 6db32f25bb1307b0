------------------------- MODULE ConversationProofs -------------------------
(* Theorems about the butler's turns, for any number of requests, turns kept and *)
(* processes, when no server starts while a turn is under way and no two         *)
(* processes change the file at once.                                            *)
EXTENDS Conversation, FiniteSetTheorems, SequenceTheorems, TLAPS

-----------------------------------------------------------------------------
(* The type of what the argument is about. *)

Turns == Seq([id : Nat, status : {"working", "done", "failed"}])
Held == [by : Nat, view : Turns,
         stage : {"free", "recover", "claim", "settle", "write"}]

Typed ==
  /\ conversation \in Turns /\ torn \in BOOLEAN /\ claimed \in Nat
  /\ lock \in [Process -> Held]
  /\ session \in [Process -> SUBSET [turn : Nat \ {0}, stage : Stage]]
  /\ recorded \in [1 .. Requests -> Nat] /\ orphans \subseteq 1 .. Requests

(* One process at most has a turn under way or changes the file.  It has at most *)
(* one session, and while it has one, its turn is the last and works: in the     *)
(* file, or in what the process is writing.  No turn but the last ever works.    *)

WorksOn(turns, t) ==
  /\ turns # <<>> /\ turns[Len(turns)].id = t
  /\ turns[Len(turns)].status = "working"

OneEngaged ==
  /\ \A p, q \in Process : Engaged(p) /\ Engaged(q) => p = q
  /\ \A p \in Process \ up : ~Engaged(p)

OneSession == \A p \in Process : \A r, s \in session[p] : r = s

LastIsOwn ==
  \A p \in Process : \A s \in session[p] :
    \/ lock[p] = Free /\ ~torn /\ WorksOn(conversation, s.turn)
    \/ /\ lock[p].stage \in {"claim", "write"} /\ lock[p].by = s.turn
       /\ WorksOn(lock[p].view, s.turn)

Released == \A p \in Process : lock[p].stage = "free" => lock[p] = Free

\* The claim is written before the agent starts.
Begun == \A p \in Process : \A s \in session[p] : s.stage # "claimed" => lock[p] = Free

WorkingLast(turns) == \A i \in Working(turns) : i = Len(turns)

OnlyLastWorks ==
  /\ WorkingLast(conversation)
  /\ \A p \in Process : lock[p] # Free => WorkingLast(lock[p].view)

PlanOfRunning ==
  \A p \in Process : \A s \in session[p] :
    s.stage = "running" => plan \in {0, s.turn} \cup orphans

CInv ==
  /\ Typed /\ OneEngaged /\ OneSession /\ LastIsOwn /\ Released /\ Begun /\ OnlyLastWorks
  /\ PlanOfRunning /\ PlanIsOwn

-----------------------------------------------------------------------------
(* What is written is a sequence of turns, and ends as it should. *)

LEMMA ReadType == ASSUME Typed PROVE Read \in Turns
<1>1. <<>> \in Turns
  BY DEF Turns
<1> QED BY <1>1 DEF Read, Typed

LEMMA FailType == ASSUME NEW turns \in Turns PROVE Fail(turns) \in Turns
<1> DEFINE T == [id : Nat, status : {"working", "done", "failed"}]
           F(i) == IF i \in Working(turns) THEN [turns[i] EXCEPT !.status = "failed"]
                   ELSE turns[i]
<1>1. turns \in [1 .. Len(turns) -> T] /\ Len(turns) \in Nat /\ DOMAIN turns = 1 .. Len(turns)
  <2> HIDE DEF F
  <2>1. turns \in Seq(T)
    BY DEF Turns
  <2> HIDE DEF T
  <2> QED BY <2>1, LenProperties
<1>2. \A i \in 1 .. Len(turns) : F(i) \in T
  BY <1>1
<1>3. Fail(turns) = [i \in 1 .. Len(turns) |-> F(i)]
  BY <1>1 DEF Fail
<1> HIDE DEF F, T
<1>4. Fail(turns) \in [1 .. Len(turns) -> T]
  BY <1>2, <1>3
<1> QED BY <1>1, <1>4 DEF Turns, T

LEMMA TurnsAre ==
  ASSUME NEW turns \in Turns
  PROVE  /\ DOMAIN turns = 1 .. Len(turns) /\ Len(turns) \in Nat
         /\ \A i \in DOMAIN turns :
              turns[i] \in [id : Nat, status : {"working", "done", "failed"}]
<1> DEFINE T == [id : Nat, status : {"working", "done", "failed"}]
<1>1. turns \in Seq(T)
  BY DEF Turns
<1> HIDE DEF T
<1>2. turns \in [1 .. Len(turns) -> T] /\ DOMAIN turns = 1 .. Len(turns) /\ Len(turns) \in Nat
  BY <1>1, LenProperties
<1> QED BY <1>2 DEF T

\* However many turns roll off, the new one is the last, the others are old ones, and
\* there are no more than are kept.
LEMMA RecentIs ==
  ASSUME NEW turns \in Turns, NEW x \in [id : Nat, status : {"working", "done", "failed"}],
         MaxTurns \in Nat \ {0}, NEW new, new = Recent(Append(turns, x))
  PROVE  /\ new \in Turns /\ Len(new) \in 1 .. MaxTurns /\ new[Len(new)] = x
         /\ \A j \in DOMAIN new : j # Len(new) => \E i \in DOMAIN turns : new[j] = turns[i]
<1> DEFINE T == [id : Nat, status : {"working", "done", "failed"}]
           all == Append(turns, x)
           n == Len(turns) + 1
<1>1. all \in Seq(T) /\ Len(all) = n /\ n \in Nat \ {0} /\ all[n] = x
      /\ turns \in Seq(T) /\ \A i \in 1 .. Len(turns) : all[i] = turns[i]
  BY AppendProperties DEF Turns
<1> HIDE DEF T, all
<1>2. all \in [1 .. n -> T] /\ DOMAIN all = 1 .. n /\ DOMAIN turns = 1 .. Len(turns)
      /\ Len(turns) \in Nat
  BY <1>1, LenProperties
<1>3. \A i \in 1 .. n : i # n => \E k \in DOMAIN turns : all[i] = turns[k]
  BY <1>1, <1>2
<1> HIDE DEF n
<1>4. CASE n <= MaxTurns
  <2>1. new = all
    BY <1>1, <1>4 DEF Recent, all
  <2>2. Len(new) \in 1 .. MaxTurns
    BY <2>1, <1>1, <1>4
  <2> QED BY <2>1, <2>2, <1>1, <1>2, <1>3 DEF Turns, T
<1>5. CASE n > MaxTurns
  <2> DEFINE m == n - MaxTurns + 1
  <2>1. new = SubSeq(all, m, n)
    BY <1>1, <1>5 DEF Recent, all
  <2>2. m \in 1 .. n /\ m \in Int /\ n \in Int /\ m <= n /\ n - m + 1 = MaxTurns
    BY <1>1, <1>5
  <2>3. \A i \in m .. n : all[i] \in T
    BY <2>2, <1>2
  <2> HIDE DEF m
  <2>4. /\ new \in Seq(T) /\ Len(new) = n - m + 1
        /\ \A i \in 1 .. n - m + 1 : new[i] = all[m + i - 1]
    <3>1. /\ SubSeq(all, m, n) \in Seq(T) /\ Len(SubSeq(all, m, n)) = n - m + 1
          /\ \A i \in 1 .. n - m + 1 : SubSeq(all, m, n)[i] = all[m + i - 1]
      BY <2>2, <2>3, SubSeqProperties
    <3> QED BY <2>1, <3>1
  <2>5. DOMAIN new = 1 .. Len(new)
    BY <2>4, LenProperties
  <2>6. Len(new) = MaxTurns /\ m + MaxTurns - 1 = n
    BY <2>2, <2>4
  <2>7. \A i \in 1 .. MaxTurns : m + i - 1 \in 1 .. n /\ (i # MaxTurns => m + i - 1 # n)
    BY <2>2
  <2>8. new[Len(new)] = x
    BY <2>2, <2>4, <2>6, <1>1
  <2>9. \A j \in DOMAIN new : j # Len(new) => \E i \in DOMAIN turns : new[j] = turns[i]
    <3> SUFFICES ASSUME NEW j \in 1 .. MaxTurns, j # MaxTurns
                 PROVE  \E i \in DOMAIN turns : new[j] = turns[i]
        BY <2>5, <2>6
    <3>1. new[j] = all[m + j - 1]
      BY <2>2, <2>4
    <3>2. m + j - 1 \in 1 .. n /\ m + j - 1 # n
      BY <2>7
    <3> QED BY <3>1, <3>2, <1>3
  <2> QED BY <2>4, <2>6, <2>8, <2>9 DEF Turns, T
<1> QED BY <1>1, <1>4, <1>5

\* Recovery leaves no turn that works.
LEMMA FailSettles ==
  ASSUME NEW turns \in Turns PROVE Fail(turns) \in Turns /\ Working(Fail(turns)) = {}
<1>1. DOMAIN Fail(turns) = DOMAIN turns
      /\ \A i \in DOMAIN turns :
           Fail(turns)[i] = IF turns[i].status = "working"
                              THEN [turns[i] EXCEPT !.status = "failed"] ELSE turns[i]
  BY DEF Fail, Working
<1>2. \A i \in DOMAIN turns : Fail(turns)[i].status # "working"
  BY <1>1, TurnsAre
<1> QED BY <1>1, <1>2, FailType DEF Working

LEMMA SettledType ==
  ASSUME NEW turns \in Turns, NEW t, NEW status \in {"done", "failed"},
         NEW new, new = [i \in DOMAIN turns |->
                           IF turns[i].id = t THEN [turns[i] EXCEPT !.status = status]
                           ELSE turns[i]]
  PROVE  new \in Turns
<1> DEFINE T == [id : Nat, status : {"working", "done", "failed"}]
           F(i) == IF turns[i].id = t THEN [turns[i] EXCEPT !.status = status]
                   ELSE turns[i]
<1>1. turns \in [1 .. Len(turns) -> T] /\ Len(turns) \in Nat /\ DOMAIN turns = 1 .. Len(turns)
  <2> HIDE DEF F
  <2>1. turns \in Seq(T)
    BY DEF Turns
  <2> HIDE DEF T
  <2> QED BY <2>1, LenProperties
<1>2. \A i \in 1 .. Len(turns) : F(i) \in T
  BY <1>1
<1>3. new = [i \in 1 .. Len(turns) |-> F(i)]
  BY <1>1
<1> HIDE DEF F, T
<1>4. new \in [1 .. Len(turns) -> T]
  BY <1>2, <1>3
<1> QED BY <1>1, <1>4 DEF Turns, T

LEMMA SameLength ==
  ASSUME NEW turns \in Turns, NEW new \in Turns, DOMAIN new = DOMAIN turns
  PROVE  Len(new) = Len(turns)
<1> DEFINE a == Len(new)
           b == Len(turns)
<1>1. a \in Nat /\ b \in Nat /\ 1 .. a = 1 .. b
  BY TurnsAre
<1> SUFFICES a = b
    OBVIOUS
<1> HIDE DEF a, b
<1>2. (a \in 1 .. b \/ a = 0) /\ (b \in 1 .. a \/ b = 0)
  BY <1>1
<1> QED BY <1>1, <1>2

\* To settle a turn makes no other one work.
LEMMA SettledLast ==
  ASSUME NEW turns \in Turns, WorkingLast(turns), NEW t, NEW status \in {"done", "failed"},
         NEW new \in Turns,
         new = [i \in DOMAIN turns |->
                  IF turns[i].id = t THEN [turns[i] EXCEPT !.status = status] ELSE turns[i]]
  PROVE  WorkingLast(new)
<1>1. DOMAIN new = DOMAIN turns
      /\ \A i \in DOMAIN turns : new[i].status = "working" => turns[i].status = "working"
  BY TurnsAre
<1> QED BY <1>1, SameLength DEF WorkingLast, Working

-----------------------------------------------------------------------------
(* The steps. *)

\* A process with a turn under way, or that writes, lives; and it is the only one.
LEMMA OnlyOne ==
  ASSUME CInv, NEW p \in Process, session[p] # {} \/ lock[p] # Free
  PROVE  /\ p \in up /\ \A q \in Process \ {p} : lock[q] = Free /\ session[q] = {}
BY DEF CInv, OneEngaged, Engaged

\* Nobody has a turn under way, and what is left to show is what starts.
LEMMA AtRest ==
  ASSUME Typed', Released', PlanIsOwn', WorkingLast(conversation'), NEW p \in Process,
         \A q \in Process : session'[q] = {}, \A q \in Process \ {p} : lock'[q] = Free,
         lock'[p] # Free => p \in up' /\ WorkingLast(lock'[p].view)
  PROVE  CInv'
<1>1. OneEngaged'
  BY DEF OneEngaged, Engaged
<1>2. OnlyLastWorks'
  BY DEF OnlyLastWorks, WorkingLast, Working
<1> QED BY <1>1, <1>2 DEF CInv, OneSession, LastIsOwn, Begun, PlanOfRunning

LEMMA StartHolds ==
  ASSUME CInv, ~Beside, NEW p \in Process, Start(p)
  PROVE  CInv'
<1>t. Typed
  BY DEF CInv
<1>1. /\ up' = up \cup {p}
      /\ UNCHANGED <<conversation, torn, session, plan, recorded, orphans, claimed>>
      /\ \/ UNCHANGED lock
         \/ /\ p \in Server
            /\ lock' = [lock EXCEPT ![p] = [by |-> 0, view |-> Fail(Read), stage |-> "recover"]]
  BY DEF Start, Takes, Recovered, store
<1>2. CASE UNCHANGED lock
  BY <1>1, <1>2 DEF CInv, Typed, OneEngaged, Engaged, OneSession, LastIsOwn, Released, Begun,
     OnlyLastWorks, WorkingLast, Working, PlanOfRunning, PlanIsOwn, WorksOn
<1>3. CASE p \in Server /\ lock' = [lock EXCEPT ![p] = [by |-> 0, view |-> Fail(Read),
                                                       stage |-> "recover"]]
  <2>1. \A q \in Process : lock[q] = Free /\ session[q] = {}
    BY <1>3 DEF Start, Engaged
  <2>2. Fail(Read) \in Turns /\ Working(Fail(Read)) = {}
    BY <1>t, ReadType, FailSettles
  <2>3. /\ lock'[p].view = Fail(Read) /\ lock'[p].stage = "recover"
        /\ \A q \in Process \ {p} : lock'[q] = Free
    BY <1>3, <1>t, <2>1 DEF Typed
  <2>4. Typed'
    BY <1>t, <1>1, <1>3, <2>2 DEF Typed, Held
  <2>5. Released' /\ PlanIsOwn' /\ WorkingLast(conversation')
    BY <1>1, <2>3 DEF CInv, Released, PlanIsOwn, OnlyLastWorks, WorkingLast, Working
  <2>6. WorkingLast(lock'[p].view)
    BY <2>2, <2>3 DEF WorkingLast
  <2>7. \A q \in Process : session'[q] = {}
    BY <1>1, <2>1
  <2> QED BY <1>1, <2>3, <2>4, <2>5, <2>6, <2>7, AtRest
<1> QED BY <1>1, <1>2, <1>3

\* A turn is claimed only while nobody has one, and the file shows none at work.
LEMMA ClaimAlone ==
  ASSUME CInv, ~Races, NEW p \in Process, Claim(p)
  PROVE  /\ \A q \in Process : lock[q] = Free /\ session[q] = {}
         /\ Working(Read) = {}
<1>1. \A q \in Process : lock[q] = Free
  BY DEF Claim, Takes
<1>2. ASSUME NEW q \in Process, NEW s \in session[q] PROVE FALSE
  <2>1. ~torn /\ WorksOn(conversation, s.turn)
    BY <1>1, <1>2 DEF CInv, LastIsOwn, Free
  <2> QED BY <2>1 DEF Claim, Busy, Read, WorksOn, Last
<1>3. WorkingLast(Read)
  BY DEF CInv, OnlyLastWorks, WorkingLast, Read, Working
<1>4. Read \in Turns
  BY ReadType DEF CInv
<1>5. ASSUME NEW i \in Working(Read) PROVE FALSE
  <2>1. i = Len(Read) /\ Read[i].status = "working" /\ i \in DOMAIN Read
    BY <1>3, <1>5 DEF WorkingLast, Working
  <2>2. Read # <<>>
    BY <2>1
  <2> QED BY <2>1, <2>2 DEF Claim, Busy, Last
<1> QED BY <1>1, <1>2, <1>5

LEMMA ClaimHolds ==
  ASSUME CInv, ~Races, MaxTurns \in Nat \ {0}, NEW p \in Process, Claim(p)
  PROVE  CInv'
<1> DEFINE t == claimed + 1
           x == [id |-> claimed + 1, status |-> "working"]
           view == Recent(Append(Read, [id |-> claimed + 1, status |-> "working"]))
           new == [turn |-> t, stage |-> "claimed"]
<1>t. Typed /\ PlanIsOwn /\ p \in up /\ t \in Nat \ {0}
  BY DEF CInv, Claim, Typed
<1>0. \A q \in Process : lock[q] = Free /\ session[q] = {}
  BY ClaimAlone
<1>1. view \in Turns /\ WorksOn(view, t) /\ WorkingLast(view)
  <2>1. /\ Read \in Turns /\ x \in [id : Nat, status : {"working", "done", "failed"}]
        /\ x.id = t /\ x.status = "working" /\ Working(Read) = {}
    BY <1>t, ReadType, ClaimAlone
  <2> HIDE DEF x
  <2>2. /\ view \in Turns /\ Len(view) \in 1 .. MaxTurns /\ view[Len(view)] = x
        /\ \A j \in DOMAIN view : j # Len(view) => \E i \in DOMAIN Read : view[j] = Read[i]
    BY <2>1, RecentIs DEF x
  <2> HIDE DEF view
  <2>3. WorkingLast(view)
    BY <2>1, <2>2 DEF WorkingLast, Working
  <2>4. view # <<>>
    BY <2>2
  <2> QED BY <2>1, <2>2, <2>3, <2>4 DEF WorksOn
<1>2. new \in [turn : Nat \ {0}, stage : Stage] /\ new.turn = t /\ new.stage = "claimed"
  BY <1>t DEF Stage
<1>3. /\ lock' = [lock EXCEPT ![p] = [by |-> t, view |-> view, stage |-> "claim"]]
      /\ session' = [session EXCEPT ![p] = @ \cup {new}] /\ claimed' = t
      /\ UNCHANGED <<conversation, torn, up, plan, recorded, orphans>>
  BY DEF Claim, Takes, store, left
<1> HIDE DEF t, view, new
<1>4. /\ session'[p] = {new} /\ \A q \in Process \ {p} : lock'[q] = Free /\ session'[q] = {}
      /\ lock'[p].stage = "claim" /\ lock'[p].by = t /\ lock'[p].view = view
  BY <1>0, <1>3, <1>t DEF Typed
<1>5. Typed'
  BY <1>1, <1>2, <1>3, <1>t DEF Typed, Held
<1>6. OneEngaged' /\ OneSession'
  BY <1>3, <1>4, <1>t DEF OneEngaged, Engaged, OneSession
<1>7. LastIsOwn' /\ Released' /\ Begun'
  BY <1>1, <1>2, <1>4 DEF LastIsOwn, Released, Begun, Free
<1>8. PlanOfRunning' /\ PlanIsOwn'
  BY <1>2, <1>3, <1>4, <1>t DEF PlanOfRunning, PlanIsOwn
<1>9. OnlyLastWorks'
  BY <1>1, <1>3, <1>4 DEF CInv, OnlyLastWorks, WorkingLast, Working
<1> QED BY <1>5, <1>6, <1>7, <1>8, <1>9 DEF CInv

\* The only session goes on to another stage, its claim written.
LEMMA StageHolds ==
  ASSUME CInv, NEW p \in Process, NEW t \in Nat \ {0}, NEW from, NEW to \in Stage,
         Moves(p, t, from, to), to = "running" => plan' = 0, lock[p] = Free,
         UNCHANGED <<conversation, torn, up, lock, orphans, claimed>>,
         recorded' \in [1 .. Requests -> Nat], PlanIsOwn'
  PROVE  CInv'
<1> DEFINE old == [turn |-> t, stage |-> from]
           new == [turn |-> t, stage |-> to]
<1>1. old \in session[p] /\ old.turn = t /\ new.turn = t /\ new.stage = to
      /\ new \in [turn : Nat \ {0}, stage : Stage]
      /\ session' = [session EXCEPT ![p] = (@ \ {old}) \cup {new}]
  BY DEF Moves
<1> HIDE DEF old, new
<1>2. session[p] = {old} /\ session'[p] = {new} /\ p \in up
      /\ \A q \in Process \ {p} : session[q] = {} /\ session'[q] = {} /\ lock[q] = Free
  BY <1>1, OnlyOne DEF CInv, OneSession, Typed
<1>3. Typed'
  BY <1>1 DEF CInv, Typed
<1>4. OneEngaged' /\ OneSession' /\ Released' /\ Begun' /\ OnlyLastWorks'
  BY <1>2 DEF CInv, OneEngaged, Engaged, OneSession, Released, Begun, OnlyLastWorks,
              WorkingLast, Working
<1>5. LastIsOwn'
  <2>1. ~torn /\ WorksOn(conversation, t)
    BY <1>1 DEF CInv, LastIsOwn, Free
  <2> QED BY <1>1, <1>2, <2>1 DEF LastIsOwn, WorksOn
<1>6. PlanOfRunning'
  BY <1>1, <1>2 DEF PlanOfRunning
<1> QED BY <1>3, <1>4, <1>5, <1>6 DEF CInv

LEMMA RunHolds ==
  ASSUME CInv, NEW p \in Process, NEW t \in Nat \ {0}, Run(p, t)
  PROVE  CInv'
<1> DEFINE old == [turn |-> t, stage |-> "claimed"]
<1>1. /\ Moves(p, t, "claimed", "running") /\ plan' = 0 /\ lock[p].by # t
      /\ old \in session[p] /\ old.turn = t
      /\ UNCHANGED <<conversation, torn, up, lock, claimed, recorded, orphans>>
  BY DEF Run, Moves, store, left
<1> HIDE DEF old
<1>2. recorded' \in [1 .. Requests -> Nat] /\ PlanIsOwn'
  BY <1>1 DEF CInv, Typed, PlanIsOwn
<1>3. lock[p] = Free
  BY <1>1 DEF CInv, LastIsOwn
<1> QED BY <1>1, <1>2, <1>3, StageHolds DEF Stage

LEMMA EndsHolds ==
  ASSUME CInv, NEW p \in Process, NEW t \in Nat \ {0}, AgentEnds(p, t)
  PROVE  CInv'
<1> DEFINE old == [turn |-> t, stage |-> "running"]
<1>1. /\ Moves(p, t, "running", "settling") /\ recorded' = [recorded EXCEPT ![t] = plan]
      /\ UNCHANGED <<conversation, torn, up, lock, claimed, orphans>>
      /\ old \in session[p] /\ old.turn = t /\ old.stage = "running"
  BY DEF AgentEnds, Moves, store, left
<1> HIDE DEF old
<1>2. plan \in {0, t} \cup orphans /\ lock[p] = Free
  BY <1>1 DEF CInv, PlanOfRunning, Begun
<1>3. recorded' \in [1 .. Requests -> Nat] /\ PlanIsOwn'
  <2>1. plan \in Nat /\ recorded \in [1 .. Requests -> Nat]
    BY <1>2 DEF CInv, Typed
  <2>2. recorded' \in [1 .. Requests -> Nat]
    BY <1>1, <2>1
  <2>3. \A u \in 1 .. Requests : recorded'[u] = IF u = t THEN plan ELSE recorded[u]
    BY <1>1, <2>1
  <2>4. \A u \in 1 .. Requests : recorded[u] \in {0, u} \cup orphans
    BY DEF CInv, PlanIsOwn
  <2>5. PlanIsOwn'
    BY <1>1, <1>2, <2>3, <2>4 DEF PlanIsOwn
  <2> QED BY <2>2, <2>5
<1> QED BY <1>1, <1>2, <1>3, StageHolds DEF Stage

LEMMA PlanHolds ==
  ASSUME CInv, NEW t \in Nat \ {0}, Plan(t)
  PROVE  CInv'
<1>1. /\ plan' = t /\ t \in Agents
      /\ UNCHANGED <<conversation, torn, up, lock, session, recorded, orphans, claimed>>
  BY DEF Plan, store, left
<1>2. PlanOfRunning'
  <2> SUFFICES ASSUME NEW p \in Process, NEW s \in session[p], s.stage = "running",
                      t \notin orphans
               PROVE  t = s.turn
      BY <1>1 DEF PlanOfRunning
  <2> DEFINE old == [turn |-> t, stage |-> "running"]
  <2>0. PICK q \in Process : t \in Running(q)
    BY <1>1 DEF Agents
  <2>1. old \in session[q]
    BY <2>0 DEF Running
  <2>2. old.turn = t
    OBVIOUS
  <2> HIDE DEF old
  <2>3. q = p
    BY <2>1, OnlyOne
  <2> QED BY <2>1, <2>2, <2>3 DEF CInv, OneSession
<1>3. /\ Typed' /\ OneEngaged' /\ OneSession' /\ LastIsOwn' /\ Released' /\ Begun'
      /\ OnlyLastWorks' /\ PlanIsOwn'
  BY <1>1 DEF CInv, Typed, OneEngaged, Engaged, OneSession, LastIsOwn, Released, Begun,
              OnlyLastWorks, WorkingLast, Working, PlanIsOwn, WorksOn
<1> QED BY <1>2, <1>3 DEF CInv

LEMMA SettleHolds ==
  ASSUME CInv, NEW p \in Process, NEW t \in Nat \ {0}, Settle(p, t)
  PROVE  CInv'
<1> DEFINE old == [turn |-> t, stage |-> "settling"]
<1>1. /\ old \in session[p] /\ session' = [session EXCEPT ![p] = @ \ {old}]
      /\ lock[p] = Free
      /\ UNCHANGED <<conversation, torn, up, plan, recorded, orphans, claimed>>
  BY DEF Settle, store, left
<1> HIDE DEF old
<1>2. /\ p \in up /\ session'[p] = {}
      /\ \A q \in Process \ {p} : lock[q] = Free /\ session'[q] = {}
  BY <1>1, OnlyOne DEF CInv, OneSession, Typed
<1>3. PICK view \in Turns :
        /\ WorkingLast(view)
        /\ \/ UNCHANGED lock
           \/ lock' = [lock EXCEPT ![p] = [by |-> t, view |-> view, stage |-> "settle"]]
  <2> DEFINE Settled(status) == [i \in DOMAIN Read |->
                                   IF Read[i].id = t THEN [Read[i] EXCEPT !.status = status]
                                   ELSE Read[i]]
  <2>1. Read \in Turns /\ WorkingLast(Read)
    BY ReadType DEF CInv, OnlyLastWorks, Read, WorkingLast, Working
  <2>2. \/ UNCHANGED lock
        \/ \E status \in {"done", "failed"} :
             lock' = [lock EXCEPT ![p] =
                        [by |-> t, view |-> Settled(status), stage |-> "settle"]]
    BY DEF Settle, Takes
  <2>3. \A status \in {"done", "failed"} : Settled(status) \in Turns
    BY <2>1, SettledType
  <2>4. \A status \in {"done", "failed"} : WorkingLast(Settled(status))
    BY <2>1, <2>3, SettledLast
  <2> HIDE DEF Settled
  <2> QED BY <2>1, <2>2, <2>3, <2>4
<1>4. \A q \in Process \ {p} : lock'[q] = Free
  BY <1>2, <1>3 DEF CInv, Typed
<1>5. lock'[p] = Free \/ (lock'[p].stage = "settle" /\ lock'[p].view = view)
  BY <1>1, <1>3 DEF CInv, Typed
<1>6. Typed'
  <2>1. [by |-> t, view |-> view, stage |-> "settle"] \in Held
    BY DEF Held
  <2>2. lock' \in [Process -> Held]
    BY <1>3, <2>1 DEF CInv, Typed
  <2> QED BY <1>1, <2>2 DEF CInv, Typed
<1>7. Released' /\ PlanIsOwn' /\ WorkingLast(conversation')
  BY <1>1, <1>4, <1>5 DEF CInv, Released, PlanIsOwn, OnlyLastWorks, WorkingLast, Working
<1>8. \A q \in Process : session'[q] = {}
  BY <1>2
<1>9. p \in up' /\ (lock'[p] # Free => WorkingLast(lock'[p].view))
  BY <1>1, <1>2, <1>3, <1>5
<1> QED BY <1>4, <1>6, <1>7, <1>8, <1>9, AtRest

LEMMA TruncateHolds ==
  ASSUME CInv, NEW p \in Process, Truncate(p)
  PROVE  CInv'
<1>1. /\ lock[p].stage \in {"recover", "claim", "settle"} /\ torn' = TRUE
      /\ lock' = [lock EXCEPT ![p] = [by |-> lock[p].by, view |-> lock[p].view,
                                      stage |-> "write"]]
      /\ UNCHANGED <<conversation, up, session, plan, recorded, orphans, claimed>>
  BY DEF Truncate, left
<1>2. lock[p] # Free /\ lock[p] \in Held
  BY <1>1 DEF Free, CInv, Typed
<1>3. p \in up /\ \A q \in Process \ {p} : lock'[q] = Free /\ session[q] = {}
  BY <1>1, <1>2, OnlyOne DEF CInv, Typed
<1>4. lock'[p].stage = "write" /\ lock'[p].by = lock[p].by /\ lock'[p].view = lock[p].view
  BY <1>1 DEF CInv, Typed
<1>5. Typed'
  BY <1>1, <1>2 DEF CInv, Typed, Held
<1>6. OneEngaged' /\ Released' /\ OneSession' /\ PlanOfRunning' /\ PlanIsOwn' /\ Begun'
  BY <1>1, <1>2, <1>3, <1>4 DEF CInv, OneEngaged, Engaged, Released, OneSession,
     PlanOfRunning, PlanIsOwn, Begun, Free
<1>7. LastIsOwn'
  BY <1>1, <1>2, <1>3, <1>4 DEF CInv, LastIsOwn, WorksOn
<1>8. OnlyLastWorks'
  BY <1>1, <1>2, <1>3, <1>4 DEF CInv, OnlyLastWorks, WorkingLast, Working
<1> QED BY <1>5, <1>6, <1>7, <1>8 DEF CInv

LEMMA WriteHolds ==
  ASSUME CInv, NEW p \in Process, Write(p)
  PROVE  CInv'
<1>1. /\ lock[p].stage = "write" /\ torn' = FALSE /\ conversation' = lock[p].view
      /\ lock' = [lock EXCEPT ![p] = Free]
      /\ UNCHANGED <<up, session, plan, recorded, orphans, claimed>>
  BY DEF Write, left
<1>2. lock[p] # Free /\ lock[p] \in Held
  BY <1>1 DEF Free, CInv, Typed
<1>3. p \in up /\ lock'[p] = Free
      /\ \A q \in Process \ {p} : lock'[q] = Free /\ session[q] = {}
  BY <1>1, <1>2, OnlyOne DEF CInv, Typed
<1>4. Free \in Held
  BY DEF Free, Held, Turns
<1>5. Typed'
  BY <1>1, <1>2, <1>4 DEF CInv, Typed, Held
<1>6. OneEngaged' /\ Released' /\ OneSession' /\ PlanOfRunning' /\ PlanIsOwn' /\ Begun'
  BY <1>1, <1>3 DEF CInv, OneEngaged, Engaged, Released, OneSession, PlanOfRunning,
     PlanIsOwn, Begun
<1>7. LastIsOwn'
  BY <1>1, <1>2, <1>3 DEF CInv, LastIsOwn, WorksOn
<1>8. OnlyLastWorks'
  BY <1>1, <1>2, <1>3 DEF CInv, OnlyLastWorks, WorkingLast, Working
<1> QED BY <1>5, <1>6, <1>7, <1>8 DEF CInv

LEMMA ExitHolds ==
  ASSUME CInv, NEW p \in Process, Exit(p)
  PROVE  CInv'
<1>1. /\ p \in up /\ up' = up \ {p} /\ lock' = [lock EXCEPT ![p] = Free]
      /\ session' = [session EXCEPT ![p] = {}] /\ orphans' = orphans \cup Running(p)
      /\ UNCHANGED <<conversation, torn, plan, recorded, claimed>>
  BY DEF Exit, store
<1>2. Typed /\ Running(p) \subseteq 1 .. Requests /\ Free \in Held
  BY DEF CInv, Running, Free, Held, Turns
<1>3. /\ lock'[p] = Free /\ session'[p] = {}
      /\ \A q \in Process \ {p} : lock'[q] = lock[q] /\ session'[q] = session[q]
  BY <1>1, <1>2 DEF Typed
<1>4. Typed'
  BY <1>1, <1>2 DEF Typed
<1>5. OneEngaged' /\ OneSession' /\ Released' /\ Begun'
  BY <1>1, <1>3 DEF CInv, OneEngaged, Engaged, OneSession, Released, Begun
<1>6. LastIsOwn' /\ OnlyLastWorks'
  BY <1>1, <1>3 DEF CInv, LastIsOwn, WorksOn, OnlyLastWorks, WorkingLast, Working
<1>7. PlanOfRunning' /\ PlanIsOwn'
  BY <1>1, <1>3 DEF CInv, PlanOfRunning, PlanIsOwn
<1> QED BY <1>4, <1>5, <1>6, <1>7 DEF CInv

LEMMA NextHolds ==
  ASSUME ConversationAssumption, ~Beside, ~Races
  PROVE  CInv /\ [Next]_vars => CInv'
<1> SUFFICES ASSUME CInv, [Next]_vars PROVE CInv'
    OBVIOUS
<1>1. MaxTurns \in Nat \ {0} /\ 1 .. Requests \subseteq Nat \ {0}
  BY DEF ConversationAssumption
<1>2. CASE UNCHANGED vars
  <2>1. UNCHANGED <<conversation, torn, up, lock, session, plan, recorded, orphans, claimed>>
    BY <1>2 DEF vars, store, left
  <2> QED BY <2>1 DEF CInv, Typed, OneEngaged, Engaged, OneSession, LastIsOwn, Released,
                      Begun, OnlyLastWorks, WorkingLast, Working, PlanOfRunning, PlanIsOwn,
                      WorksOn
<1>3. CASE Next
  BY <1>1, <1>3, StartHolds, ClaimHolds, ExitHolds, TruncateHolds, WriteHolds, RunHolds,
     PlanHolds, EndsHolds, SettleHolds DEF Next
<1> QED BY <1>2, <1>3

LEMMA InitHolds == ASSUME ConversationAssumption PROVE Init => CInv
<1> SUFFICES ASSUME Init PROVE CInv
    OBVIOUS
<1>1. Free \in Held /\ <<>> \in Turns /\ Free.stage = "free"
  BY DEF Free, Held, Turns
<1>2. \A p \in Process : lock[p] = Free /\ session[p] = {}
  BY DEF Init
<1>3. Typed
  BY <1>1 DEF Init, Typed
<1>4. OneEngaged /\ PlanIsOwn /\ OnlyLastWorks
  BY <1>2 DEF Init, OneEngaged, Engaged, PlanIsOwn, OnlyLastWorks, WorkingLast, Working
<1> QED BY <1>1, <1>2, <1>3, <1>4 DEF CInv, OneSession, LastIsOwn, Released, Begun,
     PlanOfRunning

-----------------------------------------------------------------------------
\* The tree has one steering agent at a time, but for one that outlived its process and
\* whose turn is no longer shown as working: begin_turn refuses a request while the last
\* turn of the file works, whichever process claimed it.
THEOREM OneAgentAtATime ==
  ASSUME ConversationAssumption, ~Beside, ~Races PROVE Spec => []OneAgent
<1> DEFINE Guarded == {t \in Agents : t \in orphans => Shown(t)}
<1>1. CInv => OneAgent
  <2> SUFFICES ASSUME CInv PROVE OneAgent
      OBVIOUS
  <2>1. \A t \in Guarded : ~torn /\ t = conversation[Len(conversation)].id
    <3> SUFFICES ASSUME NEW t \in Guarded
                 PROVE  ~torn /\ t = conversation[Len(conversation)].id
        OBVIOUS
    <3>1. CASE t \in orphans
      BY <3>1 DEF Shown, WorkingIds, CInv, OnlyLastWorks, WorkingLast
    <3>2. CASE t \notin orphans
      <4> DEFINE own == [turn |-> t, stage |-> "running"]
      <4>0. PICK p \in Process : t \in Running(p)
        BY <3>2 DEF Agents
      <4>1. own \in session[p]
        BY <4>0 DEF Running
      <4>2. own.turn = t /\ own.stage = "running"
        OBVIOUS
      <4> HIDE DEF own
      <4>3. lock[p] = Free
        BY <4>1, <4>2 DEF CInv, Begun
      <4> QED BY <4>1, <4>2, <4>3 DEF CInv, LastIsOwn, WorksOn, Free
    <3> QED BY <3>1, <3>2
  <2> HIDE DEF Guarded
  <2>2. CASE Guarded = {}
    BY <2>2, FS_EmptySet DEF OneAgent, Guarded
  <2>3. CASE Guarded # {}
    <3>1. PICK t \in Guarded : TRUE
      BY <2>3
    <3>2. Guarded = {t}
      BY <2>1, <3>1
    <3>3. Cardinality({t}) = 1
      BY FS_Singleton
    <3> QED BY <3>2, <3>3 DEF OneAgent, Guarded
  <2> QED BY <2>2, <2>3
<1> QED BY <1>1, InitHolds, NextHolds, PTL DEF Spec

\* A turn is shown with its own session's plan, with none, or with that of an agent that
\* outlived its process: run_session, finish.
THEOREM PlanStaysOwn ==
  ASSUME ConversationAssumption, ~Beside, ~Races PROVE Spec => []PlanIsOwn
<1>1. CInv => PlanIsOwn
  BY DEF CInv
<1> QED BY <1>1, InitHolds, NextHolds, PTL DEF Spec

-----------------------------------------------------------------------------
(* What a process is about to write, and what the file says of older turns.    *)

\* Turns of one number are one turn, and a claimed number is new.
Numbered(turns) ==
  /\ \A i \in DOMAIN turns : turns[i].id <= claimed
  /\ \A i, j \in DOMAIN turns : turns[i].id = turns[j].id => turns[i] = turns[j]

\* A settled turn of the old turns is the same in the new ones, if it is still there.
Keeps(old, new) ==
  \A i \in DOMAIN old, j \in DOMAIN new :
    old[i].id = new[j].id /\ old[i].status # "working" => new[j] = old[i]

SettledKept ==
  /\ Numbered(conversation)
  /\ \A p \in Process : lock[p] # Free =>
       Numbered(lock[p].view) /\ Keeps(conversation, lock[p].view)

\* A session has turn t, or a process that was killed since a recovery had it;
Known(t) == t \in lost \/ \E p \in Process : \E s \in session[p] : s.turn = t

\* or it is about to be settled.
Written(t) == \E p \in Process : lock[p] # Free /\ lock[p].by = t

\* What the file shows as working is so, but while a server recovers it; and what is to
\* be written says so too.
AllServed ==
  /\ (\A p \in Process : lock[p].stage # "recover") =>
       \A t \in WorkingIds(Read) : Known(t) \/ Written(t)
  /\ \A p \in Process : lock[p] # Free => \A t \in WorkingIds(lock[p].view) : Known(t)

DInv == CInv /\ SettledKept /\ AllServed

\* A view is numbered, keeps what is settled, and works on the given turns only.
Faithful(view, ids) ==
  Numbered(view) /\ Keeps(conversation, view) /\ WorkingIds(view) \subseteq ids

\* What is read is the file or nothing.
LEMMA ReadIs ==
  ASSUME Typed
  PROVE  \A i \in DOMAIN Read : i \in DOMAIN conversation /\ Read[i] = conversation[i]
<1>1. DOMAIN <<>> = {}
  OBVIOUS
<1> QED BY <1>1 DEF Read

\* Recovery fails whatever works, and nothing else.
LEMMA FailFaithful ==
  ASSUME Typed, Numbered(conversation)
  PROVE  Faithful(Fail(Read), {})
<1> DEFINE T == [id : Nat, status : {"working", "done", "failed"}]
           view == Fail(Read)
<1>1. \A i \in DOMAIN Read : i \in DOMAIN conversation /\ Read[i] = conversation[i]
                             /\ Read[i] \in T
  BY ReadIs, ReadType, TurnsAre
<1>2. /\ DOMAIN view = DOMAIN Read
      /\ \A i \in DOMAIN Read :
           view[i] = IF Read[i].status = "working" THEN [Read[i] EXCEPT !.status = "failed"]
                     ELSE Read[i]
  BY DEF Fail, Working
<1> HIDE DEF view
<1>3. \A i \in DOMAIN view : view[i].id = Read[i].id /\ view[i].status # "working"
                             /\ (Read[i].status # "working" => view[i] = Read[i])
  BY <1>1, <1>2
<1>4. Numbered(view)
  BY <1>1, <1>2, <1>3 DEF Numbered
<1>5. Keeps(conversation, view)
  BY <1>1, <1>2, <1>3 DEF Numbered, Keeps
<1>6. WorkingIds(view) = {}
  BY <1>3 DEF WorkingIds, Working
<1> QED BY <1>4, <1>5, <1>6 DEF Faithful, view

\* To settle a turn that works leaves the others as they are.
LEMMA SettleFaithful ==
  ASSUME Typed, Numbered(conversation), NEW t,
         NEW k \in DOMAIN Read, Read[k].id = t, Read[k].status = "working",
         NEW status \in {"done", "failed"},
         NEW view, view = [i \in DOMAIN Read |->
                             IF Read[i].id = t THEN [Read[i] EXCEPT !.status = status]
                             ELSE Read[i]]
  PROVE  Faithful(view, WorkingIds(Read) \ {t})
<1> DEFINE T == [id : Nat, status : {"working", "done", "failed"}]
<1>1. \A i \in DOMAIN Read : i \in DOMAIN conversation /\ Read[i] = conversation[i]
                             /\ Read[i] \in T
  BY ReadIs, ReadType, TurnsAre
<1>2. \A i \in DOMAIN Read : Read[i].id = t => Read[i].status = "working"
  BY <1>1 DEF Numbered
<1>3. /\ DOMAIN view = DOMAIN Read
      /\ \A i \in DOMAIN Read :
           view[i] = IF Read[i].id = t THEN [Read[i] EXCEPT !.status = status] ELSE Read[i]
  OBVIOUS
<1>4. \A i \in DOMAIN view :
        /\ view[i].id = Read[i].id /\ (Read[i].status # "working" => view[i] = Read[i])
        /\ view[i].status = "working" => Read[i].id # t /\ view[i] = Read[i]
  BY <1>1, <1>2, <1>3
<1>5. Numbered(view)
  BY <1>1, <1>3, <1>4 DEF Numbered
<1>6. Keeps(conversation, view)
  BY <1>1, <1>3, <1>4 DEF Numbered, Keeps
<1>7. WorkingIds(view) \subseteq WorkingIds(Read) \ {t}
  BY <1>3, <1>4 DEF WorkingIds, Working
<1> QED BY <1>5, <1>6, <1>7 DEF Faithful

\* A claimed turn is new, and the only one that works more than before.
LEMMA ClaimFaithful ==
  ASSUME Typed, Numbered(conversation), MaxTurns \in Nat \ {0},
         claimed' = claimed + 1,
         NEW view, view = Recent(Append(Read, [id |-> claimed + 1, status |-> "working"]))
  PROVE  /\ Keeps(conversation, view)
         /\ WorkingIds(view) \subseteq WorkingIds(Read) \cup {claimed + 1}
         /\ \A i \in DOMAIN view : view[i].id <= claimed'
         /\ \A i, j \in DOMAIN view : view[i].id = view[j].id => view[i] = view[j]
<1> DEFINE x == [id |-> claimed + 1, status |-> "working"]
<1>1. x \in [id : Nat, status : {"working", "done", "failed"}] /\ x.id = claimed + 1
      /\ claimed \in Nat
  BY DEF Typed
<1> HIDE DEF x
<1>2. \A j \in DOMAIN view : view[j] = x \/ \E i \in DOMAIN Read : view[j] = Read[i]
  BY <1>1, ReadType, RecentIs DEF x
<1>3. \A i \in DOMAIN Read : i \in DOMAIN conversation /\ Read[i] = conversation[i]
  BY ReadIs
<1>4. \A i \in DOMAIN conversation :
        conversation[i].id <= claimed /\ conversation[i].id \in Nat
  <2>1. conversation \in Turns
    BY DEF Typed
  <2> QED BY <2>1, TurnsAre DEF Numbered
<1>5. \A j \in DOMAIN view :
        view[j] = x \/ \E i \in DOMAIN conversation : view[j] = conversation[i]
  BY <1>2, <1>3
<1>6. \A i \in DOMAIN conversation : conversation[i].id # x.id
  BY <1>1, <1>4
<1>7. Keeps(conversation, view)
  BY <1>5, <1>6 DEF Keeps, Numbered
<1>8. WorkingIds(view) \subseteq WorkingIds(Read) \cup {claimed + 1}
  BY <1>1, <1>2 DEF WorkingIds, Working
<1>9. \A i \in DOMAIN view : view[i].id <= claimed'
  BY <1>1, <1>4, <1>5
<1>10. \A i, j \in DOMAIN view : view[i].id = view[j].id => view[i] = view[j]
  BY <1>5, <1>6 DEF Numbered
<1> QED BY <1>7, <1>8, <1>9, <1>10

\* Nothing is written or read, and every turn that was served still is.
LEMMA StandsServed ==
  ASSUME SettledKept, AllServed, \A t : Known(t) => Known(t)',
         UNCHANGED <<conversation, torn, lock, claimed>>
  PROVE  SettledKept' /\ AllServed'
<1>1. SettledKept'
  BY DEF SettledKept, Numbered, Keeps
<1>2. WorkingIds(Read)' = WorkingIds(Read)
  BY DEF Read, WorkingIds, Working
<1>3. \A q \in Process : WorkingIds(lock[q].view)' = WorkingIds(lock[q].view)
  BY DEF WorkingIds, Working
<1>4. \A t : Written(t)' = Written(t)
  BY DEF Written, Process
<1> QED BY <1>1, <1>2, <1>3, <1>4 DEF AllServed

LEMMA StartServes ==
  ASSUME DInv, ~Beside, NEW p \in Process, Start(p)
  PROVE  SettledKept' /\ AllServed'
<1>1. /\ Typed /\ Numbered(conversation)
      /\ UNCHANGED <<conversation, torn, session, claimed>> /\ Read' = Read
      /\ lost' = IF p \in Server THEN {} ELSE lost
  BY DEF DInv, SettledKept, CInv, Start, store, Read
<1>2. WorkingIds(Read)' = WorkingIds(Read)
  BY <1>1 DEF WorkingIds, Working
<1>3. CASE p \in Server
  <2>1. /\ \A q \in Process : lock[q] = Free /\ session[q] = {}
        /\ IF Fail(Read) # Read
             THEN lock' = [lock EXCEPT ![p] = [by |-> 0, view |-> Fail(Read), stage |-> "recover"]]
             ELSE lock' = lock
    BY <1>3 DEF Start, Engaged, Takes, Recovered
  <2>2. Faithful(Fail(Read), {})
    BY <1>1, FailFaithful
  <2>3. CASE Fail(Read) # Read
    <3>1. /\ lock'[p].view = Fail(Read) /\ lock'[p].stage = "recover"
          /\ \A q \in Process \ {p} : lock'[q] = Free
      BY <1>1, <2>1, <2>3 DEF Typed
    <3>2. SettledKept'
      BY <1>1, <2>2, <3>1 DEF SettledKept, Faithful, Numbered, Keeps
    <3>3. WorkingIds(lock'[p].view) = {}
      BY <2>2, <3>1 DEF Faithful
    <3>4. AllServed'
      BY <3>1, <3>3 DEF AllServed, WorkingIds, Working
    <3> QED BY <3>2, <3>4
  <2>4. CASE Fail(Read) = Read
    <3>1. \A q \in Process : lock'[q] = Free
      BY <2>1, <2>4
    <3>2. SettledKept'
      BY <1>1, <3>1 DEF SettledKept, Numbered
    <3>3. WorkingIds(Read)' = {}
      BY <1>2, <2>2, <2>4 DEF Faithful
    <3>4. AllServed'
      BY <3>1, <3>3 DEF AllServed
    <3> QED BY <3>2, <3>4
  <2> QED BY <2>3, <2>4
<1>4. CASE p \notin Server
  <2>1. lock' = lock /\ lost' = lost
    BY <1>1, <1>4 DEF Start, Recovered
  <2>2. \A t : Known(t) => Known(t)'
    BY <1>1, <2>1 DEF Known
  <2> QED BY <1>1, <2>1, <2>2, StandsServed DEF DInv
<1> QED BY <1>3, <1>4

LEMMA ClaimServes ==
  ASSUME DInv, ~Races, MaxTurns \in Nat \ {0}, NEW p \in Process, Claim(p)
  PROVE  SettledKept' /\ AllServed'
<1> DEFINE t == claimed + 1
           view == Recent(Append(Read, [id |-> claimed + 1, status |-> "working"]))
           new == [turn |-> t, stage |-> "claimed"]
<1>1. CInv /\ Typed /\ Numbered(conversation)
  BY DEF DInv, SettledKept, CInv
<1>2. /\ \A q \in Process : lock[q] = Free /\ session[q] = {}
      /\ Working(Read) = {}
  BY <1>1, ClaimAlone
<1>3. /\ lock' = [lock EXCEPT ![p] = [by |-> t, view |-> view, stage |-> "claim"]]
      /\ session' = [session EXCEPT ![p] = @ \cup {new}]
      /\ claimed' = t /\ UNCHANGED <<conversation, torn, lost>> /\ Read' = Read
  BY DEF Claim, Takes, store, left, Read
<1>4. new.turn = t
  OBVIOUS
<1>5. /\ Keeps(conversation, view) /\ WorkingIds(view) \subseteq WorkingIds(Read) \cup {claimed + 1}
      /\ \A i \in DOMAIN view : view[i].id <= claimed'
      /\ \A i, j \in DOMAIN view : view[i].id = view[j].id => view[i] = view[j]
  BY <1>1, <1>3, ClaimFaithful
<1>6. \A i \in DOMAIN conversation : conversation[i].id <= t
  <2>1. claimed \in Nat /\ \A i \in DOMAIN conversation : conversation[i].id \in Nat
    BY <1>1, TurnsAre DEF Typed
  <2> QED BY <1>1, <2>1 DEF Numbered
<1>7. WorkingIds(Read) = {} /\ WorkingIds(view) \subseteq {t}
  BY <1>2, <1>5 DEF WorkingIds
<1> HIDE DEF view, new
<1>8. /\ new \in session'[p] /\ lock'[p].view = view
      /\ \A q \in Process \ {p} : lock'[q] = Free
  BY <1>1, <1>2, <1>3 DEF Typed
<1>9. SettledKept'
  BY <1>1, <1>3, <1>5, <1>6, <1>8 DEF SettledKept, Numbered, Keeps
<1>10. AllServed'
  <2>1. WorkingIds(Read)' = {} /\ WorkingIds(lock'[p].view) \subseteq {t}
    BY <1>3, <1>7, <1>8 DEF WorkingIds, Working
  <2>2. \A u : u = t => Known(u)'
    BY <1>4, <1>8 DEF Known
  <2> QED BY <1>8, <2>1, <2>2 DEF AllServed, WorkingIds, Working
<1> QED BY <1>9, <1>10

\* A session goes on, and no turn with it.
LEMMA StageServes ==
  ASSUME DInv, NEW p \in Process, NEW t, NEW from, NEW to,
         Moves(p, t, from, to), UNCHANGED <<conversation, torn, lock, claimed, lost>>
  PROVE  SettledKept' /\ AllServed'
<1> DEFINE old == [turn |-> t, stage |-> from]
           new == [turn |-> t, stage |-> to]
<1>1. old.turn = t /\ new.turn = t /\ old \in session[p]
      /\ session' = [session EXCEPT ![p] = (@ \ {old}) \cup {new}]
  BY DEF Moves
<1> HIDE DEF old, new
<1>2. \A q \in Process : session'[q] = IF q = p THEN (session[p] \ {old}) \cup {new}
                                                ELSE session[q]
  BY <1>1 DEF DInv, CInv, Typed
<1>3. \A u : Known(u) => Known(u)'
  <2> SUFFICES ASSUME NEW u, Known(u), u \notin lost
               PROVE  \E q \in Process : \E s \in session'[q] : s.turn = u
      BY DEF Known
  <2>1. PICK q \in Process : \E s \in session[q] : s.turn = u
    BY DEF Known
  <2>2. PICK s \in session[q] : s.turn = u
    BY <2>1
  <2>3. CASE s = old
    BY <1>1, <1>2, <2>2, <2>3
  <2>4. CASE s # old
    BY <1>2, <2>2, <2>4
  <2> QED BY <2>3, <2>4
<1> QED BY <1>3, StandsServed DEF DInv

LEMMA SettleServes ==
  ASSUME DInv, NEW p \in Process, NEW t \in Nat \ {0}, Settle(p, t)
  PROVE  SettledKept' /\ AllServed'
<1> DEFINE old == [turn |-> t, stage |-> "settling"]
<1>1. /\ CInv /\ Typed /\ Numbered(conversation) /\ lock[p] = Free
      /\ old \in session[p] /\ old.turn = t
      /\ session' = [session EXCEPT ![p] = @ \ {old}]
      /\ UNCHANGED <<conversation, torn, claimed, lost>> /\ Read' = Read
  BY DEF DInv, SettledKept, CInv, Settle, store, left, Read
<1> HIDE DEF old
<1>2. /\ session[p] = {old} /\ \A q \in Process \ {p} : lock[q] = Free /\ session[q] = {}
  BY <1>1, OnlyOne DEF CInv, OneSession, Typed
<1>3. ~torn /\ WorksOn(conversation, t)
  BY <1>1 DEF CInv, LastIsOwn, Free
<1>4. PICK k \in DOMAIN Read : Read[k].id = t /\ Read[k].status = "working"
  <2>1. Len(conversation) \in DOMAIN conversation
    <3>1. conversation \in Turns /\ conversation # <<>>
      BY <1>1, <1>3 DEF Typed, WorksOn
    <3> DEFINE T == [id : Nat, status : {"working", "done", "failed"}]
    <3>2. conversation \in Seq(T)
      BY <3>1 DEF Turns
    <3> HIDE DEF T
    <3> QED BY <3>1, <3>2, EmptySeq, LenProperties
  <2> QED BY <1>3, <2>1 DEF Read, WorksOn
<1> DEFINE Settled(status) == [i \in DOMAIN Read |->
                                 IF Read[i].id = t THEN [Read[i] EXCEPT !.status = status]
                                 ELSE Read[i]]
<1>5. PICK status \in {"done", "failed"} :
        lock' = [lock EXCEPT ![p] = [by |-> t, view |-> Settled(status), stage |-> "settle"]]
  BY <1>4 DEF Settle, Takes
<1> DEFINE view == Settled(status)
<1>6. Faithful(view, WorkingIds(Read) \ {t})
  BY <1>1, <1>4, SettleFaithful
<1>7. /\ lock'[p].view = view /\ lock'[p].by = t /\ lock'[p].stage = "settle"
      /\ \A q \in Process \ {p} : lock'[q] = Free
  BY <1>1, <1>2, <1>5 DEF Typed
<1> HIDE DEF view, Settled
<1>8. SettledKept'
  BY <1>1, <1>6, <1>7 DEF SettledKept, Faithful, Numbered, Keeps
<1>9. AllServed'
  <2>1. WorkingIds(Read)' = WorkingIds(Read) /\ WorkingIds(lock[p].view)' = WorkingIds(view)
    BY <1>1, <1>7 DEF WorkingIds, Working
  <2>2. \A u \in WorkingIds(Read) : u = t \/ u \in lost
    <3>1. \A q \in Process : lock[q] = Free /\ lock[q].stage # "recover"
      BY <1>1, <1>2 DEF Free
    <3>2. \A u \in WorkingIds(Read) : Known(u)
      BY <3>1 DEF DInv, AllServed, Written
    <3> QED BY <1>1, <1>2, <3>2 DEF Known
  <2>3. \A u \in lost : Known(u)'
    BY <1>1 DEF Known
  <2>4. Written(t)'
    BY <1>7 DEF Written, Free
  <2> QED BY <1>6, <1>7, <2>1, <2>2, <2>3, <2>4 DEF AllServed, Faithful
<1> QED BY <1>8, <1>9

LEMMA TruncateServes ==
  ASSUME DInv, NEW p \in Process, Truncate(p)
  PROVE  SettledKept' /\ AllServed'
<1>1. /\ CInv /\ lock[p].stage \in {"recover", "claim", "settle"} /\ torn' = TRUE
      /\ lock' = [lock EXCEPT ![p] = [by |-> lock[p].by, view |-> lock[p].view,
                                      stage |-> "write"]]
      /\ UNCHANGED <<conversation, session, claimed, lost>>
  BY DEF DInv, Truncate, left
<1>2. lock[p] # Free
  BY <1>1 DEF Free
<1>3. \A q \in Process \ {p} : lock'[q] = Free
  BY <1>1, <1>2, OnlyOne DEF CInv, Typed
<1>4. lock'[p].view = lock[p].view
  BY <1>1 DEF CInv, Typed
<1>5. SettledKept'
  BY <1>1, <1>2, <1>3, <1>4 DEF DInv, SettledKept, Numbered, Keeps
<1>6. AllServed'
  <2>1. WorkingIds(Read)' = {}
    BY <1>1 DEF Read, WorkingIds, Working
  <2>2. \A u : Known(u) => Known(u)'
    BY <1>1 DEF Known
  <2>3. \A u \in WorkingIds(lock'[p].view) : Known(u)
    BY <1>2, <1>4 DEF DInv, AllServed
  <2> QED BY <1>3, <2>1, <2>2, <2>3 DEF AllServed, WorkingIds, Working
<1> QED BY <1>5, <1>6

LEMMA WriteServes ==
  ASSUME DInv, NEW p \in Process, Write(p)
  PROVE  SettledKept' /\ AllServed'
<1>1. /\ CInv /\ lock[p].stage = "write" /\ torn' = FALSE /\ conversation' = lock[p].view
      /\ lock' = [lock EXCEPT ![p] = Free] /\ Read' = conversation'
      /\ UNCHANGED <<session, claimed, lost>>
  BY DEF DInv, Write, left, Read
<1>2. lock[p] # Free
  BY <1>1 DEF Free
<1>3. \A q \in Process : lock'[q] = Free
  BY <1>1, <1>2, OnlyOne DEF CInv, Typed
<1>4. SettledKept'
  BY <1>1, <1>2, <1>3 DEF DInv, SettledKept, Numbered
<1>5. AllServed'
  <2>1. WorkingIds(Read)' = WorkingIds(lock[p].view)
    BY <1>1 DEF WorkingIds, Working
  <2>2. \A u \in WorkingIds(lock[p].view) : Known(u)'
    BY <1>1, <1>2 DEF DInv, AllServed, Known
  <2> QED BY <1>3, <2>1, <2>2 DEF AllServed
<1> QED BY <1>4, <1>5

LEMMA ExitServes ==
  ASSUME DInv, NEW p \in Process, Exit(p)
  PROVE  SettledKept' /\ AllServed'
<1>1. /\ CInv /\ Typed /\ lock' = [lock EXCEPT ![p] = Free]
      /\ session' = [session EXCEPT ![p] = {}]
      /\ lost' = lost \cup {s.turn : s \in session[p]}
                      \cup (IF lock[p] = Free THEN {} ELSE WorkingIds(conversation))
      /\ UNCHANGED <<conversation, torn, claimed>> /\ Read' = Read
  BY DEF DInv, CInv, Exit, store, Read
<1>2. /\ lock'[p] = Free /\ \A q \in Process \ {p} : lock'[q] = lock[q]
      /\ \A q \in Process \ {p} : session'[q] = session[q]
  BY <1>1 DEF Typed
<1>3. SettledKept'
  BY <1>1, <1>2 DEF DInv, SettledKept, Numbered, Keeps
<1>4. \A u : Known(u) => Known(u)'
  <2> SUFFICES ASSUME NEW u, Known(u), u \notin lost'
               PROVE  \E q \in Process : \E s \in session'[q] : s.turn = u
      BY DEF Known
  <2>1. PICK q \in Process : \E s \in session[q] : s.turn = u
    BY <1>1 DEF Known
  <2>2. q # p
    BY <1>1, <2>1
  <2> QED BY <1>2, <2>1, <2>2
<1>5. AllServed'
  <2>1. WorkingIds(Read)' = WorkingIds(Read) /\ WorkingIds(Read) \subseteq WorkingIds(conversation)
    <3>1. WorkingIds(<<>>) = {}
      BY DEF WorkingIds, Working
    <3> QED BY <1>1, <3>1 DEF WorkingIds, Working, Read
  <2>2. \A q \in Process : lock'[q] # Free => lock[q] # Free /\ lock'[q] = lock[q]
    BY <1>2
  <2>3. \A q \in Process : lock'[q] # Free => \A u \in WorkingIds(lock'[q].view) : Known(u)'
    BY <1>4, <2>2 DEF DInv, AllServed
  <2>4. CASE lock[p] = Free
    <3>1. lock' = lock
      BY <1>1, <2>4 DEF Typed
    <3>2. \A u : Written(u) => Written(u)'
      BY <3>1 DEF Written
    <3> QED BY <1>4, <2>1, <2>3, <3>1, <3>2 DEF DInv, AllServed, WorkingIds, Working
  <2>5. CASE lock[p] # Free
    <3>1. \A u \in WorkingIds(Read) : Known(u)'
      BY <1>1, <2>1, <2>5 DEF Known
    <3> QED BY <2>1, <2>3, <3>1 DEF AllServed, WorkingIds, Working
  <2> QED BY <2>4, <2>5
<1> QED BY <1>3, <1>5

LEMMA NextServes ==
  ASSUME ConversationAssumption, ~Beside, ~Races
  PROVE  DInv /\ [Next]_vars => DInv'
<1> SUFFICES ASSUME DInv, [Next]_vars PROVE SettledKept' /\ AllServed'
    BY NextHolds DEF DInv
<1>1. MaxTurns \in Nat \ {0} /\ 1 .. Requests \subseteq Nat \ {0}
  BY DEF ConversationAssumption
<1>2. ASSUME UNCHANGED <<conversation, torn, lock, session, claimed, lost>>
      PROVE  SettledKept' /\ AllServed'
  BY <1>2, StandsServed DEF DInv, Known
<1>3. CASE UNCHANGED vars
  BY <1>2, <1>3 DEF vars, store, left
<1>4. ASSUME NEW t, Plan(t) PROVE SettledKept' /\ AllServed'
  BY <1>2, <1>4 DEF Plan, store, left
<1>5. ASSUME NEW p \in Process, NEW t \in Nat \ {0}, Run(p, t) \/ AgentEnds(p, t)
      PROVE  SettledKept' /\ AllServed'
  <2>1. /\ UNCHANGED <<conversation, torn, lock, claimed, lost>>
        /\ \E from, to : Moves(p, t, from, to)
    BY <1>5 DEF Run, AgentEnds, store, left
  <2> QED BY <2>1, StageServes
<1>6. CASE Next
  BY <1>1, <1>4, <1>5, <1>6, StartServes, ClaimServes, ExitServes, TruncateServes, WriteServes,
     SettleServes DEF Next
<1> QED BY <1>3, <1>6

LEMMA InitServes == ASSUME ConversationAssumption PROVE Init => DInv
<1> SUFFICES ASSUME Init PROVE SettledKept /\ AllServed
    BY InitHolds DEF DInv
<1>1. DOMAIN conversation = {} /\ DOMAIN Read = {} /\ \A p \in Process : lock[p] = Free
  BY DEF Init, Read
<1> QED BY <1>1 DEF SettledKept, AllServed, Numbered, WorkingIds, Working

-----------------------------------------------------------------------------
\* What the file shows as working is at work, or was left by a process killed since a
\* server last recovered it: recover_interrupted fails what a killed process left, and
\* begin_turn and update_turn keep the rest.
THEOREM NoPhantomTurn ==
  ASSUME ConversationAssumption, ~Beside, ~Races PROVE Spec => []NoPhantom
<1>1. DInv => NoPhantom
  <2> SUFFICES ASSUME DInv, ~torn, \A q \in Process : lock[q].stage # "recover",
                      NEW t \in WorkingIds(conversation), t \notin lost
               PROVE  \E p \in up : lock[p].by = t \/ \E s \in session[p] : s.turn = t
      BY DEF NoPhantom
  <2>1. t \in WorkingIds(Read)
    BY DEF Read
  <2>2. PICK p \in Process : \/ lock[p] # Free /\ lock[p].by = t
                             \/ \E s \in session[p] : s.turn = t
    BY <2>1 DEF DInv, AllServed, Known, Written
  <2>3. p \in up
    BY <2>2, OnlyOne DEF DInv
  <2> QED BY <2>2, <2>3
<1> QED BY <1>1, InitServes, NextServes, PTL DEF Spec

\* A turn that was settled is never settled again, and loses nothing but its place:
\* update_turn, recover_interrupted.
THEOREM SettledOnce ==
  ASSUME ConversationAssumption, ~Beside, ~Races PROVE Spec => SettledStays
<1>1. DInv /\ [Next]_vars =>
        [\A i \in DOMAIN conversation, j \in DOMAIN conversation' :
           /\ conversation[i].id = conversation'[j].id
           /\ conversation[i].status # "working"
           => conversation'[j] = conversation[i]]_conversation
  <2> SUFFICES ASSUME DInv, [Next]_vars, conversation' # conversation
               PROVE  Keeps(conversation, conversation')
      BY DEF Keeps
  <2>1. PICK p \in Process : Write(p)
    BY DEF Next, vars, store, Start, Claim, Exit, Truncate, Run, Plan, AgentEnds, Settle
  <2>2. lock[p] # Free /\ conversation' = lock[p].view
    BY <2>1 DEF Write, Free
  <2> QED BY <2>2 DEF DInv, SettledKept
<1> QED BY <1>1, InitServes, NextServes, PTL DEF Spec, SettledStays

-----------------------------------------------------------------------------
(* The type of the whole state, whatever processes overlap: every file and every *)
(* view keeps at most MaxTurns turns of the requests made.                       *)

\* What may be in the file.
Kept == {turns \in Seq(Turn) : Len(turns) <= MaxTurns}

ViewsKept == \A p \in Process : lock[p].view \in Kept

CTyped == TypeOK /\ ViewsKept

\* Turns of requests that were made are what may be in the file.
LEMMA KeptIs ==
  ASSUME NEW turns
  PROVE  turns \in Kept <=>
           /\ turns \in Turns /\ Len(turns) <= MaxTurns
           /\ \A i \in DOMAIN turns : turns[i].id \in 1 .. Requests
<1> DEFINE T == [id : Nat, status : {"working", "done", "failed"}]
<1>1. Turn \subseteq T
  BY DEF Turn
<1>2. ASSUME turns \in Seq(Turn)
      PROVE  turns \in Turns /\ \A i \in DOMAIN turns : turns[i].id \in 1 .. Requests
  <2>1. turns \in [1 .. Len(turns) -> Turn] /\ Len(turns) \in Nat
        /\ DOMAIN turns = 1 .. Len(turns)
    BY <1>2, LenProperties
  <2> HIDE DEF T
  <2>2. turns \in Seq(T)
    BY <1>1, <2>1
  <2> QED BY <2>1, <2>2 DEF Turns, T, Turn
<1>3. ASSUME turns \in Turns, \A i \in DOMAIN turns : turns[i].id \in 1 .. Requests
      PROVE  turns \in Seq(Turn)
  <2>1. \A i \in DOMAIN turns : turns[i] \in Turn
    BY <1>3, TurnsAre DEF Turn
  <2>2. turns \in Seq(T)
    BY <1>3 DEF Turns
  <2> HIDE DEF T
  <2>3. turns \in [1 .. Len(turns) -> T] /\ Len(turns) \in Nat /\ DOMAIN turns = 1 .. Len(turns)
    BY <2>2, LenProperties
  <2> QED BY <2>1, <2>3
<1> QED BY <1>2, <1>3 DEF Kept

\* Turns changed in place are kept as they were.
LEMMA ChangedKept ==
  ASSUME NEW turns \in Kept, NEW new \in Turns, DOMAIN new = DOMAIN turns,
         \A i \in DOMAIN turns : new[i].id = turns[i].id
  PROVE  new \in Kept
<1>1. /\ turns \in Turns /\ Len(turns) <= MaxTurns
      /\ \A i \in DOMAIN turns : turns[i].id \in 1 .. Requests
  BY KeptIs
<1>2. Len(new) = Len(turns)
  BY <1>1, SameLength
<1>3. \A i \in DOMAIN new : new[i].id \in 1 .. Requests
  BY <1>1
<1> QED BY <1>1, <1>2, <1>3, KeptIs

LEMMA ReadKept == ASSUME ConversationAssumption, CTyped PROVE Read \in Kept
<1>1. <<>> \in Kept
  BY DEF Kept, ConversationAssumption
<1>2. conversation \in Kept
  BY DEF CTyped, TypeOK, Kept
<1> QED BY <1>1, <1>2 DEF Read

LEMMA FailKept == ASSUME NEW turns \in Kept PROVE Fail(turns) \in Kept
<1>1. turns \in Turns
  BY KeptIs
<1>2. Fail(turns) \in Turns
  BY <1>1, FailType
<1>3. DOMAIN Fail(turns) = DOMAIN turns
      /\ \A i \in DOMAIN turns : Fail(turns)[i].id = turns[i].id
  BY <1>1, TurnsAre DEF Fail
<1> QED BY <1>2, <1>3, ChangedKept

LEMMA SettleKept ==
  ASSUME NEW turns \in Kept, NEW t, NEW status \in {"done", "failed"},
         NEW new, new = [i \in DOMAIN turns |->
                           IF turns[i].id = t THEN [turns[i] EXCEPT !.status = status]
                           ELSE turns[i]]
  PROVE  new \in Kept
<1>1. turns \in Turns
  BY KeptIs
<1>2. new \in Turns
  BY <1>1, SettledType
<1>3. DOMAIN new = DOMAIN turns /\ \A i \in DOMAIN turns : new[i].id = turns[i].id
  BY <1>1, TurnsAre
<1> QED BY <1>2, <1>3, ChangedKept

\* What is kept when a turn is claimed may be in the file.
LEMMA RecentKept ==
  ASSUME ConversationAssumption, NEW turns \in Kept, NEW t \in 1 .. Requests,
         NEW new, new = Recent(Append(turns, [id |-> t, status |-> "working"]))
  PROVE  new \in Kept
<1> DEFINE x == [id |-> t, status |-> "working"]
<1>1. /\ turns \in Turns /\ MaxTurns \in Nat \ {0} /\ x.id = t
      /\ x \in [id : Nat, status : {"working", "done", "failed"}]
      /\ \A i \in DOMAIN turns : turns[i].id \in 1 .. Requests
  BY KeptIs DEF ConversationAssumption
<1> HIDE DEF x
<1>2. /\ new \in Turns /\ Len(new) \in 1 .. MaxTurns /\ new[Len(new)] = x
      /\ \A j \in DOMAIN new : j # Len(new) => \E i \in DOMAIN turns : new[j] = turns[i]
  BY <1>1, RecentIs DEF x
<1>3. \A j \in DOMAIN new : new[j].id \in 1 .. Requests
  BY <1>1, <1>2
<1> QED BY <1>1, <1>2, <1>3, KeptIs

\* A lock that is taken for a view that may be written is typed.
LEMMA TakenTyped ==
  ASSUME TypeOK, ViewsKept, NEW p \in Process, NEW by \in 0 .. Requests, NEW view \in Kept,
         NEW stage \in {"free", "recover", "claim", "settle", "write"},
         lock' = [lock EXCEPT ![p] = [by |-> by, view |-> view, stage |-> stage]]
  PROVE  /\ lock' \in [Process -> [by : 0 .. Requests, view : Seq(Turn),
                                   stage : {"free", "recover", "claim", "settle", "write"}]]
         /\ ViewsKept'
<1>1. view \in Seq(Turn)
  BY DEF Kept
<1>2. \A q \in Process : lock'[q] = IF q = p THEN [by |-> by, view |-> view, stage |-> stage]
                                             ELSE lock[q]
  BY DEF TypeOK
<1>3. \A q \in Process : lock'[q].view \in Kept
  BY <1>2 DEF ViewsKept
<1> QED BY <1>1, <1>3 DEF TypeOK, ViewsKept, Kept, Turn

LEMMA FreeKept == ASSUME ConversationAssumption
                  PROVE  <<>> \in Kept /\ 0 \in 0 .. Requests
BY DEF Kept, ConversationAssumption

LEMMA NextTyped ==
  ASSUME ConversationAssumption PROVE CTyped /\ [Next]_vars => CTyped'
<1> SUFFICES ASSUME CTyped, [Next]_vars PROVE CTyped'
    OBVIOUS
<1> USE DEF CTyped
<1>0. Requests \in Nat /\ Starts \in Nat /\ 0 \in 0 .. Requests
  BY DEF ConversationAssumption
<1>l. ASSUME NEW p \in Process, lock' = [lock EXCEPT ![p] = Free]
      PROVE  /\ lock' \in [Process -> [by : 0 .. Requests, view : Seq(Turn),
                                       stage : {"free", "recover", "claim", "settle", "write"}]]
             /\ ViewsKept'
  BY <1>l, TakenTyped, FreeKept DEF Free
<1>1. ASSUME NEW p \in Process, Start(p) PROVE CTyped'
  <2>1. Recovered(p) \in Kept
    BY ReadKept, FailKept DEF Recovered
  <2>2. /\ lock' \in [Process -> [by : 0 .. Requests, view : Seq(Turn),
                                  stage : {"free", "recover", "claim", "settle", "write"}]]
        /\ ViewsKept'
    <3>1. CASE lock' = [lock EXCEPT ![p] = [by |-> 0, view |-> Recovered(p),
                                            stage |-> "recover"]]
      BY <1>0, <2>1, <3>1, TakenTyped
    <3>2. CASE lock' = lock
      BY <3>2 DEF TypeOK, ViewsKept
    <3> QED BY <1>1, <3>1, <3>2 DEF Start, Takes
  <2>3. up' \subseteq Process /\ starts' \in 0 .. Starts
    BY <1>0, <1>1 DEF Start, TypeOK
  <2>4. /\ UNCHANGED <<conversation, torn, session, plan, recorded, orphans, claimed>>
        /\ lost' \subseteq lost
    BY <1>1 DEF Start, store
  <2> QED BY <2>2, <2>3, <2>4 DEF TypeOK
<1>2. ASSUME NEW p \in Process, Claim(p) PROVE CTyped'
  <2> DEFINE view == Recent(Append(Read, [id |-> claimed + 1, status |-> "working"]))
  <2>1. claimed + 1 \in 1 .. Requests /\ claimed + 1 \in 0 .. Requests
    BY <1>0, <1>2 DEF Claim, TypeOK
  <2>2. view \in Kept
    BY <2>1, ReadKept, RecentKept
  <2>3. lock' = [lock EXCEPT ![p] = [by |-> claimed + 1, view |-> view, stage |-> "claim"]]
    BY <1>2 DEF Claim, Takes
  <2> HIDE DEF view
  <2>4. /\ lock' \in [Process -> [by : 0 .. Requests, view : Seq(Turn),
                                  stage : {"free", "recover", "claim", "settle", "write"}]]
        /\ ViewsKept'
    BY <2>1, <2>2, <2>3, TakenTyped
  <2>5. session' \in [Process -> SUBSET [turn : 1 .. Requests, stage : Stage]]
    BY <1>2, <2>1 DEF Claim, TypeOK, Stage
  <2>6. /\ claimed' \in 0 .. Requests
        /\ UNCHANGED <<conversation, torn, up, plan, recorded, left, starts>>
    BY <1>2, <2>1 DEF Claim, store
  <2> QED BY <2>4, <2>5, <2>6 DEF left, TypeOK
<1>3. ASSUME NEW p \in Process, Exit(p) PROVE CTyped'
  <2>1. /\ lock' = [lock EXCEPT ![p] = Free] /\ session' = [session EXCEPT ![p] = {}]
        /\ up' = up \ {p} /\ UNCHANGED <<conversation, torn, plan, recorded, claimed, starts>>
        /\ orphans' = orphans \cup Running(p)
        /\ lost' \subseteq lost \cup {s.turn : s \in session[p]} \cup WorkingIds(conversation)
    BY <1>3 DEF Exit, store
  <2>2. WorkingIds(conversation) \subseteq 1 .. Requests
    BY KeptIs DEF TypeOK, Kept, WorkingIds, Working
  <2>3. {s.turn : s \in session[p]} \subseteq 1 .. Requests
    BY DEF TypeOK
  <2>4. lost' \subseteq 1 .. Requests /\ orphans' \subseteq 1 .. Requests
    BY <2>1, <2>2, <2>3 DEF TypeOK, Running
  <2> QED BY <2>1, <2>4, <1>l DEF TypeOK
<1>4. ASSUME NEW p \in Process, Truncate(p) PROVE CTyped'
  <2>1. lock[p].by \in 0 .. Requests /\ lock[p].view \in Kept
    BY DEF TypeOK, ViewsKept
  <2>2. /\ lock' \in [Process -> [by : 0 .. Requests, view : Seq(Turn),
                                  stage : {"free", "recover", "claim", "settle", "write"}]]
        /\ ViewsKept'
    BY <1>4, <2>1, TakenTyped DEF Truncate
  <2> QED BY <1>4, <2>2 DEF Truncate, left, TypeOK
<1>5. ASSUME NEW p \in Process, Write(p) PROVE CTyped'
  <2>1. lock[p].view \in Seq(Turn) /\ Len(lock[p].view) <= MaxTurns
    BY DEF ViewsKept, Kept
  <2>2. /\ conversation' = lock[p].view /\ torn' = FALSE /\ lock' = [lock EXCEPT ![p] = Free]
        /\ UNCHANGED <<up, session, plan, recorded, left, claimed, starts>>
    BY <1>5 DEF Write
  <2> QED BY <2>1, <2>2, <1>l DEF left, TypeOK
<1>6. ASSUME NEW p \in Process, NEW t \in 1 .. Requests, NEW from, NEW to \in Stage,
             Moves(p, t, from, to)
      PROVE  session' \in [Process -> SUBSET [turn : 1 .. Requests, stage : Stage]]
  BY <1>6 DEF Moves, TypeOK
<1>7. ASSUME NEW p \in Process, NEW t \in 1 .. Requests, Run(p, t) PROVE CTyped'
  <2>1. session' \in [Process -> SUBSET [turn : 1 .. Requests, stage : Stage]]
    BY <1>6, <1>7 DEF Run, Stage
  <2> QED BY <1>0, <1>7, <2>1 DEF Run, store, left, TypeOK, ViewsKept
<1>8. ASSUME NEW t \in 1 .. Requests, Plan(t) PROVE CTyped'
  BY <1>0, <1>8 DEF Plan, store, left, TypeOK, ViewsKept
<1>9. ASSUME NEW p \in Process, NEW t \in 1 .. Requests, AgentEnds(p, t) PROVE CTyped'
  <2>1. session' \in [Process -> SUBSET [turn : 1 .. Requests, stage : Stage]]
    BY <1>6, <1>9 DEF AgentEnds, Stage
  <2> QED BY <1>9, <2>1 DEF AgentEnds, store, left, TypeOK, ViewsKept
<1>10. ASSUME NEW p \in Process, NEW t \in 1 .. Requests, Settle(p, t) PROVE CTyped'
  <2> DEFINE Settled(status) == [i \in DOMAIN Read |->
                                   IF Read[i].id = t THEN [Read[i] EXCEPT !.status = status]
                                   ELSE Read[i]]
  <2>1. \A status \in {"done", "failed"} : Settled(status) \in Kept
    BY ReadKept, SettleKept
  <2>2. \/ UNCHANGED lock
        \/ \E status \in {"done", "failed"} :
             lock' = [lock EXCEPT ![p] =
                        [by |-> t, view |-> Settled(status), stage |-> "settle"]]
    BY <1>10 DEF Settle, Takes
  <2> HIDE DEF Settled
  <2>3. /\ lock' \in [Process -> [by : 0 .. Requests, view : Seq(Turn),
                                  stage : {"free", "recover", "claim", "settle", "write"}]]
        /\ ViewsKept'
    <3>1. CASE lock' = lock
      BY <3>1 DEF TypeOK, ViewsKept
    <3>2. ASSUME NEW status \in {"done", "failed"},
                 lock' = [lock EXCEPT ![p] =
                            [by |-> t, view |-> Settled(status), stage |-> "settle"]]
          PROVE  /\ lock' \in [Process -> [by : 0 .. Requests, view : Seq(Turn),
                                  stage : {"free", "recover", "claim", "settle", "write"}]]
                 /\ ViewsKept'
      <4>1. t \in 0 .. Requests
        BY <1>0
      <4> QED BY <2>1, <3>2, <4>1, TakenTyped
    <3> QED BY <2>2, <3>1, <3>2
  <2>4. session' \in [Process -> SUBSET [turn : 1 .. Requests, stage : Stage]]
    BY <1>10 DEF Settle, TypeOK
  <2> QED BY <1>10, <2>3, <2>4 DEF Settle, store, left, TypeOK
<1>11. CASE UNCHANGED vars
  BY <1>11 DEF vars, store, left, TypeOK, ViewsKept
<1> QED BY <1>1, <1>2, <1>3, <1>4, <1>5, <1>7, <1>8, <1>9, <1>10, <1>11 DEF Next

\* Type correctness, however processes overlap: conversation.json never has more than
\* MAX_TURNS turns, and each is of a request that was made.
THEOREM TypeCorrect == ASSUME ConversationAssumption PROVE Spec => []TypeOK
<1>1. Init => CTyped
  <2> SUFFICES ASSUME Init PROVE CTyped
      OBVIOUS
  <2>1. <<>> \in Kept /\ <<>> \in Seq(Turn)
    BY FreeKept DEF Kept
  <2>2. Requests \in Nat /\ Starts \in Nat /\ MaxTurns \in Nat
    BY DEF ConversationAssumption
  <2>3. \A p \in Process : lock[p].view = <<>>
    BY DEF Init, Free
  <2>4. lock \in [Process -> [by : 0 .. Requests, view : Seq(Turn),
                              stage : {"free", "recover", "claim", "settle", "write"}]]
    BY <2>1, <2>2 DEF Init, Free
  <2>5. ViewsKept
    BY <2>1, <2>3 DEF ViewsKept
  <2>6. conversation \in Seq(Turn) /\ Len(conversation) <= MaxTurns
    BY <2>1 DEF Init, Kept
  <2>7. session \in [Process -> SUBSET [turn : 1 .. Requests, stage : Stage]]
    BY DEF Init
  <2>8. recorded \in [1 .. Requests -> 0 .. Requests]
    BY <2>2 DEF Init
  <2>9. torn \in BOOLEAN /\ up \subseteq Process /\ {orphans, lost} \subseteq SUBSET (1 .. Requests)
    BY DEF Init
  <2>10. plan \in 0 .. Requests /\ claimed \in 0 .. Requests
         /\ starts \in 0 .. Starts
    BY <2>2 DEF Init
  <2> QED BY <2>4, <2>5, <2>6, <2>7, <2>8, <2>9, <2>10 DEF CTyped, TypeOK
<1>2. CTyped => TypeOK
  BY DEF CTyped
<1> QED BY <1>1, <1>2, NextTyped, PTL DEF Spec

=============================================================================
