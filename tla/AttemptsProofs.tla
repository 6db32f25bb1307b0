--------------------------- MODULE AttemptsProofs ---------------------------
(* Theorems about the attempts of a batch, for any number of workers, attempts *)
(* and tokens.                                                                *)
EXTENDS NodeAttempts, FiniteSetTheorems, TLAPS

-----------------------------------------------------------------------------
(* How a job moves. *)

\* Only w's job changes, and it stays one.
Moves(w) ==
  job' \in [Worker -> Job] /\ \A v \in Worker \ {w} : job'[v] = job[v]

\* What the job is worth to the others stays.
Same(w) == job'[w].outcome = job[w].outcome /\ job'[w].kept = job[w].kept

LEMMA ReplacedMoves ==
  ASSUME job \in [Worker -> Job], NEW w \in Worker, NEW j \in Job,
         job' = [job EXCEPT ![w] = j]
  PROVE  Moves(w) /\ job'[w] = j
BY DEF Moves

LEMMA GoesMoves ==
  ASSUME job \in [Worker -> Job], NEW w \in Worker, NEW pc \in PC, Goes(w, pc)
  PROVE  Moves(w) /\ Same(w) /\ job'[w].pc = pc
<1> DEFINE zero == 0
           j == [job[w] EXCEPT !.pc = pc, !.verb = Silent, !.pre = zero]
<1>0. zero \in Int
  OBVIOUS
<1>2. job' = [job EXCEPT ![w] = j]
  BY DEF Goes
<1> HIDE DEF zero
<1>1. /\ j \in Job /\ j.pc = pc
      /\ j.outcome = job[w].outcome /\ j.kept = job[w].kept
  BY <1>0 DEF Job
<1> HIDE DEF j
<1> QED BY <1>1, <1>2, ReplacedMoves DEF Same

LEMMA EndsMoves ==
  ASSUME job \in [Worker -> Job], NEW w \in Worker, NEW outcome \in Outcome, Ends(w, outcome)
  PROVE  Moves(w) /\ job'[w].pc = "settle" /\ job'[w].outcome = outcome
<1> DEFINE zero == 0
           j == [job[w] EXCEPT !.pc = "settle", !.verb = Silent, !.pre = zero,
                               !.attempt = zero, !.outcome = outcome]
<1>0. zero \in Int /\ zero \in Nat
  OBVIOUS
<1>2. job' = [job EXCEPT ![w] = j]
  BY DEF Ends
<1> HIDE DEF zero
<1>1. j \in Job /\ j.pc = "settle" /\ j.outcome = outcome
  BY <1>0 DEF Job, PC
<1> HIDE DEF j
<1> QED BY <1>1, <1>2, ReplacedMoves

\* An attempt begins, and remembers what is left.
LEMMA AttemptMoves ==
  ASSUME TypeOK, NEW w \in Worker, Attempt(w)
  PROVE  Moves(w) /\ job'[w].pc \in {"settle", "exhausted", "asking"}
         /\ (job'[w].pc = "asking" => job'[w].pre = Remaining(w))
<1>j. job \in [Worker -> Job] /\ Remaining(w) \in Int
  BY AttemptsAssumption DEF TypeOK, Ledger, Remaining
<1>1. CASE Ends(w, "left")
  BY <1>1, <1>j, EndsMoves DEF Outcome
<1>2. CASE Goes(w, "exhausted")
  BY <1>2, <1>j, GoesMoves DEF PC
<1>3. CASE job' = [job EXCEPT ![w] = [job[w] EXCEPT !.pc = "asking", !.pre = Remaining(w),
                                                    !.attempt = job[w].attempt + 1]]
  <2> DEFINE next == job[w].attempt + 1
             pre == Remaining(w)
             j == [job[w] EXCEPT !.pc = "asking", !.pre = pre, !.attempt = next]
  <2>0. next \in Nat /\ pre \in Int
    BY <1>j DEF Job
  <2>2. job' = [job EXCEPT ![w] = j]
    BY <1>3, Zenon
  <2> HIDE DEF next, pre
  <2>1. j \in Job /\ j.pc = "asking" /\ j.pre = pre
    BY <1>j, <2>0 DEF Job, PC
  <2> HIDE DEF j
  <2> USE DEF pre
  <2> QED BY <1>j, <2>1, <2>2, ReplacedMoves
<1> QED BY <1>1, <1>2, <1>3, Zenon DEF Attempt

\* The agent ends, and a decision counts or not.
LEMMA AgentMoves ==
  ASSUME TypeOK, NEW w \in Worker, AgentEnds(w)
  PROVE  Moves(w) /\ Same(w) /\ job'[w].pc \in {"attempt", "decide"}
         /\ (job'[w].pc = "decide" => job'[w].pre = job[w].pre)
<1>j. job \in [Worker -> Job] /\ file \in [Worker -> Verb \cup {Silent}]
  BY DEF TypeOK
<1>1. CASE Again(w)
  BY <1>1, <1>j, GoesMoves DEF PC, Again
<1>2. ASSUME NEW verb \in Verb \cup {Silent},
             job' = [job EXCEPT ![w].pc = "decide", ![w].verb = verb]
      PROVE  Moves(w) /\ Same(w) /\ job'[w].pc = "decide" /\ job'[w].pre = job[w].pre
  <2> DEFINE j == [job[w] EXCEPT !.pc = "decide", !.verb = verb]
  <2>1. /\ j \in Job /\ j.pc = "decide" /\ j.pre = job[w].pre
        /\ j.outcome = job[w].outcome /\ j.kept = job[w].kept
    BY <1>j DEF Job, PC
  <2>2. job' = [job EXCEPT ![w] = j]
    BY <1>2, <1>j
  <2> HIDE DEF j
  <2> QED BY <1>j, <2>1, <2>2, ReplacedMoves DEF Same
<1>3. \/ Again(w)
      \/ \E verb \in Verb \cup {Silent} :
           job' = [job EXCEPT ![w].pc = "decide", ![w].verb = verb]
  BY <1>j DEF AgentEnds
<1> QED BY <1>1, <1>2, <1>3

\* The gates have run.
LEMMA GatesMove ==
  ASSUME TypeOK, NEW w \in Worker, Gates(w)
  PROVE  Moves(w) /\ Same(w) /\ job'[w].pc \in {"attempt", "opening"}
<1>j. job \in [Worker -> Job]
  BY DEF TypeOK
<1>1. PICK pc \in {"attempt", "opening"}, manual \in BOOLEAN :
        job' = [job EXCEPT ![w] = [@ EXCEPT !.pc = pc, !.verb = Silent, !.pre = 0,
                                            !.manual = manual]]
  <2>1. PICK ran \in {"passed", "manual", "failed"} :
          job' = [job EXCEPT ![w] =
                    [@ EXCEPT !.pc = IF ran = "failed" THEN "attempt" ELSE "opening",
                              !.verb = Silent, !.pre = 0, !.manual = @ \/ ran = "manual"]]
    BY DEF Gates
  <2>2. (job[w].manual \/ ran = "manual") \in BOOLEAN
    OBVIOUS
  <2> QED BY <2>1, <2>2, Zenon
<1> DEFINE zero == 0
           j == [job[w] EXCEPT !.pc = pc, !.verb = Silent, !.pre = zero, !.manual = manual]
<1>0. zero \in Int
  OBVIOUS
<1>3. job' = [job EXCEPT ![w] = j]
  BY <1>1
<1> HIDE DEF zero
<1>2. /\ j \in Job /\ j.pc = pc
      /\ j.outcome = job[w].outcome /\ j.kept = job[w].kept
  BY <1>0, <1>j DEF Job, PC
<1> HIDE DEF j
<1> QED BY <1>j, <1>2, <1>3, ReplacedMoves DEF Same

\* The critic has answered.
LEMMA CriticMoves ==
  ASSUME TypeOK, NEW w \in Worker, CriticAnswers(w)
  PROVE  Moves(w) /\ Same(w) /\ job'[w].pc \in {"attempt", "accepted"}
<1>j. job \in [Worker -> Job]
  BY DEF TypeOK
<1>1. CASE job' = [job EXCEPT ![w].pc = "accepted"]
  <2> DEFINE j == [job[w] EXCEPT !.pc = "accepted"]
  <2>1. /\ j \in Job /\ j.pc = "accepted"
        /\ j.outcome = job[w].outcome /\ j.kept = job[w].kept
    BY <1>j DEF Job, PC
  <2>2. job' = [job EXCEPT ![w] = j]
    BY <1>1
  <2> HIDE DEF j
  <2> QED BY <1>j, <2>1, <2>2, ReplacedMoves DEF Same
<1>2. CASE job' = [job EXCEPT ![w].pc = "attempt", ![w].contested = TRUE]
  <2> DEFINE j == [job[w] EXCEPT !.pc = "attempt", !.contested = TRUE]
  <2>1. /\ j \in Job /\ j.pc = "attempt"
        /\ j.outcome = job[w].outcome /\ j.kept = job[w].kept
    BY <1>j DEF Job, PC
  <2>2. job' = [job EXCEPT ![w] = j]
    BY <1>2, <1>j
  <2> HIDE DEF j
  <2> QED BY <1>j, <2>1, <2>2, ReplacedMoves DEF Same
<1> QED BY <1>1, <1>2 DEF CriticAnswers

\* The attempts are used up.
LEMMA ExhaustedMoves ==
  ASSUME TypeOK, NEW w \in Worker, Exhausted(w)
  PROVE  Moves(w) /\ job'[w].pc = "settle" /\ job'[w].outcome = "failed"
<1>j. job \in [Worker -> Job]
  BY DEF TypeOK
<1> DEFINE changed == tree' # tree
           j == [job[w] EXCEPT !.pc = "settle", !.attempt = 0, !.outcome = "failed",
                               !.kept = changed]
<1>1. job' = [job EXCEPT ![w] = j]
  BY DEF Exhausted
<1>2. changed \in BOOLEAN
  OBVIOUS
<1> HIDE DEF changed
<1>3. j \in Job /\ j.pc = "settle" /\ j.outcome = "failed"
  BY <1>j, <1>2 DEF Job, PC, Outcome
<1> HIDE DEF j
<1> QED BY <1>j, <1>1, <1>3, ReplacedMoves

\* The worker is out.
LEMMA SettleMoves ==
  ASSUME TypeOK, NEW w \in Worker, Settle(w)
  PROVE  Moves(w) /\ Same(w) /\ job'[w].pc = "out"
<1>j. job \in [Worker -> Job]
  BY DEF TypeOK
<1> DEFINE j == [job[w] EXCEPT !.pc = "out", !.contested = FALSE, !.manual = FALSE]
<1>1. /\ j \in Job /\ j.pc = "out"
      /\ j.outcome = job[w].outcome /\ j.kept = job[w].kept
  BY <1>j DEF Job, PC
<1>2. job' = [job EXCEPT ![w] = j]
  BY DEF Settle
<1> HIDE DEF j
<1> QED BY <1>j, <1>1, <1>2, ReplacedMoves DEF Same


\* A step that neither calls the model nor looks at the ledger.
Plain(w) ==
  \/ Begin(w) \/ AgentMissing(w) \/ Reopen(w) \/ Escalate(w) \/ Stray(w) \/ Refuse(w)
  \/ OpenCritic(w) \/ SpawnCritic(w) \/ Accept(w) \/ Commit(w)

LEMMA PlainMoves ==
  ASSUME TypeOK, NEW w \in Worker, Plain(w)
  PROVE  /\ Moves(w) /\ job[w].pc \notin {"settle", "out"}
         /\ job'[w].pc \in {"attempt", "spawning", "judging", "commit", "settle"}
         /\ UNCHANGED ledger
<1>j. job \in [Worker -> Job]
  BY DEF TypeOK
<1>1. \/ Again(w) \/ Goes(w, "spawning") \/ Goes(w, "judging") \/ Goes(w, "commit")
      \/ \E outcome \in {"failed", "left", "complete"} : Ends(w, outcome)
  BY DEF Plain, Begin, AgentMissing, Reopen, Escalate, Stray, Refuse, OpenCritic,
         SpawnCritic, Accept, Commit
<1>2. job[w].pc \notin {"settle", "out"} /\ UNCHANGED ledger
  BY DEF Plain, Begin, AgentMissing, Reopen, Escalate, Stray, Refuse, OpenCritic,
         SpawnCritic, Accept, Commit, Completes, Decided, At
<1>3. CASE Again(w)
  BY <1>j, <1>2, <1>3, GoesMoves DEF Again, PC
<1>4. ASSUME NEW pc \in {"spawning", "judging", "commit"}, Goes(w, pc)
      PROVE  Moves(w) /\ job'[w].pc = pc
  BY <1>j, <1>4, GoesMoves DEF PC
<1>5. ASSUME NEW outcome \in {"failed", "left", "complete"}, Ends(w, outcome)
      PROVE  Moves(w) /\ job'[w].pc = "settle"
  BY <1>j, <1>5, EndsMoves DEF Outcome
<1> QED BY <1>1, <1>2, <1>3, <1>4, <1>5

LEMMA SplitMoves ==
  ASSUME TypeOK, NEW w \in Worker, Split(w)
  PROVE  Moves(w) /\ job[w].pc = "decide" /\ job'[w].pc = "settle"
<1>1. job \in [Worker -> Job] /\ Ends(w, "left") /\ job[w].pc = "decide"
  BY DEF TypeOK, Split, Decided, At
<1> QED BY <1>1, EndsMoves DEF Outcome

\* What any step of a worker does to its job.
LEMMA StepMoves ==
  ASSUME TypeOK, NEW w \in Worker, Work(w) \/ Gates(w) \/ CriticAnswers(w)
  PROVE  /\ Moves(w) /\ job[w].pc # "out" /\ job'[w].pc # "queued"
         /\ job'[w].pc = "out" => Settle(w)
<1>1. CASE Plain(w)
  BY <1>1, PlainMoves
<1>2. CASE Attempt(w)
  BY <1>2, AttemptMoves DEF Attempt, At
<1>3. CASE AgentEnds(w)
  BY <1>3, AgentMoves DEF AgentEnds, At
<1>4. CASE Split(w)
  BY <1>4, SplitMoves
<1>5. CASE Exhausted(w)
  BY <1>5, ExhaustedMoves DEF Exhausted, At
<1>6. CASE Settle(w)
  BY <1>6, SettleMoves DEF Settle, At
<1>7. CASE Gates(w)
  BY <1>7, GatesMove DEF Gates, Completes, Decided, At
<1>8. CASE CriticAnswers(w)
  BY <1>8, CriticMoves DEF CriticAnswers, At
<1> QED BY <1>1, <1>2, <1>3, <1>4, <1>5, <1>6, <1>7, <1>8 DEF Work, Plain

-----------------------------------------------------------------------------
(* The ledger. *)

LEMMA RowReplaced ==
  ASSUME ledger \in [Worker -> Ledger], NEW w \in Worker, NEW r \in Ledger,
         ledger' = [ledger EXCEPT ![w] = r]
  PROVE  /\ ledger' \in [Worker -> Ledger] /\ ledger'[w] = r
         /\ \A v \in Worker \ {w} : ledger'[v] = ledger[v]
OBVIOUS

\* A call is charged to its node only.
LEMMA ChargeAdds ==
  ASSUME ledger \in [Worker -> Ledger], NEW w \in Worker, Charge(w)
  PROVE  /\ ledger' \in [Worker -> Ledger]
         /\ ledger'[w].calls = ledger[w].calls + CallTokens
         /\ ledger'[w].fee = ledger[w].fee /\ ledger'[w].children = ledger[w].children
         /\ \A v \in Worker \ {w} : ledger'[v] = ledger[v]
<1> DEFINE calls == ledger[w].calls + CallTokens
           r == [ledger[w] EXCEPT !.calls = calls]
<1>1. ledger' = [ledger EXCEPT ![w] = r]
  BY DEF Charge
<1>2. calls \in Nat
  BY AttemptsAssumption DEF Ledger
<1> HIDE DEF calls
<1>3. /\ r \in Ledger /\ r.calls = calls
      /\ r.fee = ledger[w].fee /\ r.children = ledger[w].children
  BY <1>2 DEF Ledger
<1> HIDE DEF r
<1>4. ledger'[w].calls = calls
  BY <1>1, <1>3, RowReplaced
<1> QED BY <1>1, <1>3, <1>4, RowReplaced DEF calls

\* What is granted is a number, and no more than was proposed or than is left.
LEMMA GrantedBound ==
  ASSUME ledger \in [Worker -> Ledger], NEW w \in Worker, NEW offer \in Nat \X Nat
  PROVE  /\ Granted(w, offer) \in Nat
         /\ \/ Granted(w, offer) <= offer[1] + offer[2]
            \/ Granted(w, offer) <= Remaining(w)
<1> DEFINE open == Cardinality({i \in {1, 2} : offer[i] = 0})
           explicit == offer[1] + offer[2]
           left == IF Remaining(w) > explicit THEN Remaining(w) - explicit ELSE 0
<1>1. open \in {0, 1, 2}
  <2>1. \/ {i \in {1, 2} : offer[i] = 0} = {}
        \/ {i \in {1, 2} : offer[i] = 0} = {1}
        \/ {i \in {1, 2} : offer[i] = 0} = {2}
        \/ {i \in {1, 2} : offer[i] = 0} = 1 .. 2
    OBVIOUS
  <2>2. Cardinality({}) = 0 /\ Cardinality({1}) = 1 /\ Cardinality({2}) = 1
    BY FS_EmptySet, FS_Singleton
  <2>3. Cardinality(1 .. 2) = 2
    <3>1. \A a, b \in Int : a <= b => Cardinality(a .. b) = b - a + 1
      BY FS_Interval
    <3>2. 1 \in Int /\ 2 \in Int /\ 1 <= 2 /\ 2 - 1 + 1 = 2
      OBVIOUS
    <3> QED BY <3>1, <3>2
  <2> QED BY <2>1, <2>2, <2>3
<1>2. explicit \in Nat /\ Remaining(w) \in Int
  BY AttemptsAssumption DEF Ledger, Remaining
<1>3. Granted(w, offer) = IF open = 0 THEN explicit
                          ELSE explicit + open * (left \div open)
  BY DEF Granted
<1> HIDE DEF open, explicit
<1>4. left \in Nat /\ (left = 0 \/ left + explicit = Remaining(w))
  BY <1>2
<1> HIDE DEF left
<1>5. open # 0 => open * (left \div open) \in Nat /\ open * (left \div open) <= left
  <2>1. 1 * (left \div 1) \in Nat /\ 1 * (left \div 1) <= left
    BY <1>4
  <2>2. 2 * (left \div 2) \in Nat /\ 2 * (left \div 2) <= left
    BY <1>4
  <2> QED BY <1>1, <2>1, <2>2
<1> DEFINE shared == open * (left \div open)
<1> HIDE DEF shared
<1>6. CASE open = 0
  BY <1>2, <1>3, <1>6 DEF explicit
<1>7. CASE open # 0
  <2>1. Granted(w, offer) = explicit + shared /\ shared \in Nat /\ shared <= left
    BY <1>3, <1>5, <1>7 DEF shared
  <2>2. Granted(w, offer) \in Nat
        /\ (Granted(w, offer) <= explicit \/ Granted(w, offer) <= Remaining(w))
    BY <2>1, <1>2, <1>4
  <2> QED BY <2>2 DEF explicit
<1> QED BY <1>6, <1>7

-----------------------------------------------------------------------------
(* The type of the state. *)

LEMMA PlaceType == ASSUME TypeOK, NEW w \in Worker PROVE Place(w) \in Author
BY DEF Place, Author

LEMMA EditsType ==
  ASSUME TypeOK, NEW w \in Worker, NEW late \in BOOLEAN, Edits(w, late)
  PROVE  tree' \in [Author -> SUBSET Edit]
<1>1. [by |-> w, late |-> late] \in Edit /\ tree \in [Author -> SUBSET Edit]
  BY DEF Edit, Author, TypeOK
<1> QED BY <1>1, PlaceType DEF Edits

LEMMA CommitsType ==
  ASSUME TypeOK, NEW w \in Worker, Commits(w)
  PROVE  tree' \in [Author -> SUBSET Edit] /\ commits' \in [Worker -> SUBSET Edit]
BY PlaceType DEF TypeOK, Commits

\* What is left in a tree after a step is well typed, and so is what was committed.
LEMMA WorkType ==
  ASSUME TypeOK, NEW w \in Worker,
         Work(w) \/ Gates(w) \/ CriticAnswers(w) \/ OrphanWrites(w)
  PROVE  /\ tree' \in [Author -> SUBSET Edit] /\ commits' \in [Worker -> SUBSET Edit]
         /\ evidence' \in [Worker -> SUBSET Edit]
<1>t. /\ tree \in [Author -> SUBSET Edit] /\ commits \in [Worker -> SUBSET Edit]
      /\ evidence \in [Worker -> SUBSET Edit] /\ Place(w) \in Author
  BY PlaceType DEF TypeOK
<1>1. CASE Plain(w) /\ ~Escalate(w) /\ ~Accept(w) /\ ~Commit(w) /\ ~OpenCritic(w)
  BY <1>1, <1>t DEF Plain, Begin, AgentMissing, Reopen, Stray, Refuse, SpawnCritic, worked
<1>2. CASE Escalate(w)
  <2>1. UNCHANGED <<commits, evidence>>
        /\ \/ tree' = tree
           \/ tree' = [tree EXCEPT ![Shared] = @ \cup {[by |-> Shared, late |-> FALSE]}]
    BY <1>2 DEF Escalate
  <2>2. [by |-> Shared, late |-> FALSE] \in Edit /\ Shared \in Author
    BY DEF Edit, Author
  <2> QED BY <1>t, <2>1, <2>2
<1>3. CASE Accept(w)
  BY <1>3, <1>t, EditsType DEF Accept
<1>4. CASE Commit(w)
  BY <1>4, <1>t, CommitsType DEF Commit
<1>5. CASE OpenCritic(w)
  BY <1>5, <1>t DEF OpenCritic
<1>6. CASE Attempt(w) \/ Split(w) \/ Gates(w) \/ CriticAnswers(w)
  BY <1>6, <1>t DEF Attempt, Split, Gates, CriticAnswers, worked
<1>7. CASE AgentEnds(w)
  BY <1>7, <1>t, EditsType DEF AgentEnds
<1>8. CASE Exhausted(w)
  <2>1. UNCHANGED evidence /\ (Commits(w) \/ UNCHANGED <<tree, commits>>)
    BY <1>8 DEF Exhausted
  <2> QED BY <2>1, <1>t, CommitsType
<1>9. CASE Settle(w)
  <2>1. /\ tree' = tree \/ tree' = [tree EXCEPT ![Place(w)] = {}]
        /\ UNCHANGED commits /\ evidence' = [evidence EXCEPT ![w] = {}]
    BY <1>9 DEF Settle
  <2> QED BY <2>1, <1>t
<1>10. CASE OrphanWrites(w)
  BY <1>10, <1>t, EditsType DEF OrphanWrites
<1> QED BY <1>1, <1>2, <1>3, <1>4, <1>5, <1>6, <1>7, <1>8, <1>9, <1>10 DEF Work, Plain

LEMMA SplitPays ==
  ASSUME TypeOK, NEW w \in Worker, Split(w)
  PROVE  \E offer \in Nat \X Nat :
           /\ Fits(w, offer) /\ ledger' \in [Worker -> Ledger]
           /\ ledger'[w].calls = ledger[w].calls
           /\ ledger'[w].fee = ledger[w].fee + SplitFee
           /\ ledger'[w].children = ledger[w].children + Granted(w, offer)
           /\ \A v \in Worker \ {w} : ledger'[v] = ledger[v]
<1>l. ledger \in [Worker -> Ledger] /\ Offers \subseteq Nat \X Nat /\ SplitFee \in Nat
  BY AttemptsAssumption DEF TypeOK
<1>1. PICK offer \in Nat \X Nat :
        /\ Fits(w, offer)
        /\ ledger' = [ledger EXCEPT ![w].fee = @ + SplitFee,
                                    ![w].children = @ + Granted(w, offer)]
  BY <1>l DEF Split
<1> DEFINE fee == ledger[w].fee + SplitFee
           children == ledger[w].children + Granted(w, offer)
           r == [ledger[w] EXCEPT !.fee = fee, !.children = children]
<1>2. ledger' = [ledger EXCEPT ![w] = r]
  BY <1>1, <1>l
<1>3. fee \in Nat /\ children \in Nat
  BY <1>l, GrantedBound DEF Ledger
<1> HIDE DEF fee, children
<1>4. /\ r \in Ledger /\ r.calls = ledger[w].calls
      /\ r.fee = fee /\ r.children = children
  BY <1>3, <1>l DEF Ledger
<1> HIDE DEF r
<1>5. /\ ledger' \in [Worker -> Ledger] /\ ledger'[w].calls = ledger[w].calls
      /\ ledger'[w].fee = fee /\ ledger'[w].children = children
      /\ \A v \in Worker \ {w} : ledger'[v] = ledger[v]
  BY <1>2, <1>4, <1>l, RowReplaced
<1> QED BY <1>1, <1>5 DEF fee, children

LEMMA TypeHolds == TypeOK /\ [Next]_vars => TypeOK'
<1> SUFFICES ASSUME TypeOK, [Next]_vars PROVE TypeOK'
    OBVIOUS
<1>1. CASE UNCHANGED vars
  BY <1>1 DEF vars, settings, worked, TypeOK
<1>2. CASE Interrupt
  BY <1>2 DEF Interrupt, settings, worked, TypeOK
<1>3. ASSUME NEW w \in Worker, Work(w) \/ Gates(w) \/ CriticAnswers(w) PROVE TypeOK'
  <2>1. job' \in [Worker -> Job]
    BY <1>3, StepMoves DEF Moves
  <2>2. ledger' \in [Worker -> Ledger]
    <3>1. UNCHANGED ledger \/ Charge(w) \/ Split(w)
      BY <1>3 DEF Work, Begin, Attempt, AgentMissing, AgentEnds, Reopen, Escalate, Stray,
                  Refuse, OpenCritic, SpawnCritic, Accept, Commit, Exhausted, Settle,
                  Gates, CriticAnswers
    <3> QED BY <3>1, ChargeAdds, SplitPays DEF TypeOK
  <2>3. UNCHANGED <<settings, interrupted>> /\ criticDir' \in BOOLEAN
    BY <1>3 DEF TypeOK, Work, Begin, Attempt, AgentMissing, AgentEnds, Split, Reopen,
                Escalate, Stray, Refuse, OpenCritic, SpawnCritic, Accept, Commit,
                Exhausted, Settle, Gates, CriticAnswers
  <2>4. file' = file \/ file' = [file EXCEPT ![w] = Silent]
    BY <1>3 DEF Work, Begin, Attempt, AgentMissing, AgentEnds, Split, Reopen,
                Escalate, Stray, Refuse, OpenCritic, SpawnCritic, Accept, Commit,
                Exhausted, Settle, Gates, CriticAnswers
  <2>5. orphan' = orphan \/ \E left \in BOOLEAN : orphan' = [orphan EXCEPT ![w] = left]
    <3>1. CASE AgentEnds(w)
      BY <3>1 DEF AgentEnds
    <3>2. CASE Settle(w)
      BY <3>2 DEF Settle, TypeOK
    <3>3. CASE ~AgentEnds(w) /\ ~Settle(w)
      BY <1>3, <3>3 DEF Work, Begin, Attempt, AgentMissing, Split, Reopen,
                Escalate, Stray, Refuse, OpenCritic, SpawnCritic, Accept, Commit,
                Exhausted, Gates, CriticAnswers
    <3> QED BY <3>1, <3>2, <3>3
  <2> QED BY <1>3, <2>1, <2>2, <2>3, <2>4, <2>5, WorkType DEF TypeOK, settings
<1>4. ASSUME NEW w \in Worker, OrphanWrites(w) PROVE TypeOK'
  <2>1. /\ UNCHANGED <<settings, job, criticDir, ledger, interrupted>>
        /\ orphan' = [orphan EXCEPT ![w] = FALSE]
        /\ file' = file \/ \E verb \in LateVerbs : file' = [file EXCEPT ![w] = verb]
    BY <1>4 DEF OrphanWrites
  <2> QED BY <1>4, <2>1, WorkType, AttemptsAssumption DEF TypeOK, settings
<1> QED BY <1>1, <1>2, <1>3, <1>4 DEF Next

LEMMA TypeStarts == Init => TypeOK
<1> SUFFICES ASSUME Init PROVE TypeOK
    OBVIOUS
<1>1. job \in [Worker -> Job]
  BY DEF Init, Job, PC, Outcome
<1>2. ledger \in [Worker -> Ledger]
  BY DEF Init, Ledger
<1> QED BY <1>1, <1>2 DEF Init, TypeOK

\* Every variable keeps its type.
THEOREM TypeCorrect == Spec => []TypeOK
BY TypeStarts, TypeHolds, PTL DEF Spec

-----------------------------------------------------------------------------
(* The allowance.  A split is final for its worker, so that until it settles     *)
(* nothing was granted; what the attempt began with is what is left while the    *)
(* agent is asked, and misses the deciding call's tokens while it is decided.    *)

Bound == Allowance + (IF CallTokens > SplitFee THEN CallTokens - SplitFee ELSE 0)
Spent(w) == ledger[w].calls + ledger[w].fee + ledger[w].children

Budgeted(w) ==
  /\ job[w].pc \notin {"settle", "out"} => ledger[w].fee = 0 /\ ledger[w].children = 0
  /\ job[w].pc = "asking" => job[w].pre = Remaining(w)
  /\ job[w].pc = "decide" => job[w].pre = Remaining(w) + CallTokens
  /\ ledger[w].children > 0 => Spent(w) <= Bound

BInv == TypeOK /\ \A w \in Worker : Budgeted(w)

\* Who does not move keeps its budget.
LEMMA OthersBudgeted ==
  ASSUME NEW v \in Worker, Budgeted(v), job'[v] = job[v], ledger'[v] = ledger[v]
  PROVE  Budgeted(v)'
BY DEF Budgeted, Spent, Bound, Remaining

LEMMA StepBudgeted ==
  ASSUME BInv, NEW w \in Worker, Work(w) \/ Gates(w) \/ CriticAnswers(w)
  PROVE  Budgeted(w)' /\ \A v \in Worker \ {w} : ledger'[v] = ledger[v]
<1>t. TypeOK /\ Budgeted(w) /\ ledger \in [Worker -> Ledger]
  BY DEF BInv, TypeOK
<1>n. /\ ledger[w].calls \in Nat /\ ledger[w].fee \in Nat /\ ledger[w].children \in Nat
      /\ Allowance \in Nat /\ SplitFee \in Nat /\ CallTokens \in Nat
  BY <1>t, AttemptsAssumption DEF Ledger
<1>1. ASSUME UNCHANGED ledger, job'[w].pc \notin {"asking", "decide"},
             job[w].pc \notin {"settle", "out"} \/ job'[w].pc = "out"
      PROVE  Budgeted(w)' /\ \A v \in Worker \ {w} : ledger'[v] = ledger[v]
  BY <1>1, <1>t DEF Budgeted, Spent, Bound
<1>2. CASE Plain(w)
  BY <1>1, <1>2, <1>t, PlainMoves
<1>3. CASE Attempt(w)
  <2>1. UNCHANGED ledger /\ job[w].pc = "attempt"
    BY <1>3 DEF Attempt, At
  <2>2. CASE job'[w].pc = "asking"
    <3>1. Remaining(w)' = Remaining(w)
      BY <2>1 DEF Remaining
    <3> QED BY <1>3, <1>t, <2>1, <2>2, <3>1, AttemptMoves DEF Budgeted, Spent, Bound
  <2> QED BY <1>1, <1>3, <1>t, <2>1, <2>2, AttemptMoves
<1>4. CASE AgentEnds(w)
  <2>1. Charge(w) /\ job[w].pc = "asking"
    BY <1>4 DEF AgentEnds, At
  <2>2. /\ ledger'[w].calls = ledger[w].calls + CallTokens
        /\ ledger'[w].fee = 0 /\ ledger'[w].children = 0
        /\ \A v \in Worker \ {w} : ledger'[v] = ledger[v]
    BY <2>1, <1>t, ChargeAdds DEF Budgeted
  <2>3. Remaining(w)' = Remaining(w) - CallTokens /\ Remaining(w) \in Int
    BY <2>1, <2>2, <1>n, <1>t DEF Remaining, Budgeted
  <2>4. /\ job'[w].pc \in {"attempt", "decide"}
        /\ job'[w].pc = "decide" => job'[w].pre = Remaining(w)
    BY <1>4, <1>t, <2>1, AgentMoves DEF Budgeted
  <2>5. Remaining(w) = Remaining(w)' + CallTokens
    BY <2>3, <1>n
  <2> QED BY <2>2, <2>4, <2>5 DEF Budgeted
<1>5. CASE Split(w)
  <2>1. PICK offer \in Nat \X Nat :
          /\ Fits(w, offer) /\ ledger' \in [Worker -> Ledger]
          /\ ledger'[w].calls = ledger[w].calls
          /\ ledger'[w].fee = ledger[w].fee + SplitFee
          /\ ledger'[w].children = ledger[w].children + Granted(w, offer)
          /\ \A v \in Worker \ {w} : ledger'[v] = ledger[v]
    BY <1>5, <1>t, SplitPays
  <2>2. job[w].pc = "decide" /\ job'[w].pc = "settle"
    BY <1>5, <1>t, SplitMoves
  <2>3. /\ ledger[w].fee = 0 /\ ledger[w].children = 0
        /\ job[w].pre = Remaining(w) + CallTokens
    BY <2>2, <1>t DEF Budgeted
  <2>4. Remaining(w) = Allowance - ledger[w].calls - SplitFee
    BY <2>3, <1>n DEF Remaining
  <2>5. SplitFee + offer[1] + offer[2] <= Allowance - ledger[w].calls - SplitFee + CallTokens
    BY <2>1, <2>3, <2>4 DEF Fits
  <2>6. /\ Granted(w, offer) \in Nat
        /\ \/ Granted(w, offer) <= offer[1] + offer[2]
           \/ Granted(w, offer) <= Allowance - ledger[w].calls - SplitFee
    BY <1>t, <2>4, GrantedBound
  <2> DEFINE granted == Granted(w, offer)
  <2> HIDE DEF granted
  <2>7. Spent(w)' = ledger[w].calls + SplitFee + granted
    BY <2>1, <2>3, <2>6, <1>n DEF Spent, granted
  <2>8. granted \in Nat /\ offer[1] \in Nat /\ offer[2] \in Nat
        /\ \/ granted <= offer[1] + offer[2]
           \/ granted <= Allowance - ledger[w].calls - SplitFee
    BY <2>6 DEF granted
  <2>9. ledger[w].calls + SplitFee + granted <= Bound
    BY <2>5, <2>8, <1>n DEF Bound
  <2> QED BY <2>1, <2>2, <2>7, <2>9 DEF Budgeted, Bound
<1>6. CASE Exhausted(w)
  BY <1>1, <1>6, <1>t, ExhaustedMoves DEF Exhausted, At
<1>7. CASE Settle(w)
  BY <1>1, <1>7, <1>t, SettleMoves DEF Settle
<1>8. CASE Gates(w)
  BY <1>1, <1>8, <1>t, GatesMove DEF Gates, Completes, Decided, At
<1>9. CASE CriticAnswers(w)
  <2>1. Charge(w) /\ job[w].pc = "judging" /\ job'[w].pc \in {"attempt", "accepted"}
    BY <1>9, <1>t, CriticMoves DEF CriticAnswers, At
  <2> QED BY <2>1, <1>t, ChargeAdds DEF Budgeted
<1> QED BY <1>2, <1>3, <1>4, <1>5, <1>6, <1>7, <1>8, <1>9 DEF Work, Plain

LEMMA BudgetHolds == BInv /\ [Next]_vars => BInv'
<1> SUFFICES ASSUME BInv, [Next]_vars PROVE BInv'
    OBVIOUS
<1>t. TypeOK /\ TypeOK'
  BY TypeHolds DEF BInv
<1>1. ASSUME NEW w \in Worker, Work(w) \/ Gates(w) \/ CriticAnswers(w), NEW v \in Worker
      PROVE  Budgeted(v)'
  <2>1. \A u \in Worker \ {w} : job'[u] = job[u] /\ ledger'[u] = ledger[u]
    BY <1>1, <1>t, StepMoves, StepBudgeted DEF Moves
  <2> QED BY <1>1, <2>1, StepBudgeted, OthersBudgeted DEF BInv
<1>2. ASSUME UNCHANGED <<job, ledger>>, NEW v \in Worker PROVE Budgeted(v)'
  BY <1>2, OthersBudgeted DEF BInv
<1>3. CASE \E w \in Worker : OrphanWrites(w)
  BY <1>t, <1>2, <1>3 DEF OrphanWrites, BInv
<1>4. CASE Interrupt \/ UNCHANGED vars
  BY <1>t, <1>2, <1>4 DEF Interrupt, vars, BInv
<1> QED BY <1>t, <1>1, <1>3, <1>4 DEF Next, BInv

\* A node grants its children no more than what is left of its own allowance, but for
\* the deciding call: budget_remaining, add_children, charge_call.
THEOREM GrantsWithinAllowance == Spec => []SplitWithinAllowance
<1>1. Init => BInv
  <2> SUFFICES ASSUME Init PROVE BInv
      OBVIOUS
  <2>1. \A w \in Worker : job[w].pc = "queued" /\ ledger[w].fee = 0 /\ ledger[w].children = 0
    BY DEF Init
  <2> QED BY <2>1, TypeStarts DEF BInv, Budgeted
<1>2. BInv /\ [Next]_vars => BInv'
  BY BudgetHolds
<1>3. BInv => SplitWithinAllowance
  BY DEF BInv, Budgeted, Spent, Bound, SplitWithinAllowance
<1> QED BY <1>1, <1>2, <1>3, PTL DEF Spec

-----------------------------------------------------------------------------
(* Whose work is where. *)

Idles(w) == job[w].pc \in {"queued", "out"}
Early(w) == [by |-> w, late |-> FALSE]

\* What a step of w does to the trees: an edit of its own or of the owner it asks,
\* which is early only while w is at work; or nothing is left.
TreeStep(w) ==
  \/ tree' = tree
  \/ \E e \in Edit : /\ tree' = [tree EXCEPT ![Place(w)] = @ \cup {e}]
                     /\ e.by = w \/ (e.by = Shared /\ ~parallel)
                     /\ e.late \/ ~Idles(w)
  \/ tree' = [tree EXCEPT ![Place(w)] = {}]

\* To what it has committed, and to what it shows as evidence.
ShownStep(w) ==
  /\ \/ commits' = commits
     \/ ~Idles(w) /\ commits' = [commits EXCEPT ![w] = @ \cup tree[Place(w)]]
  /\ \/ evidence' = evidence
     \/ ~Idles(w) /\ evidence' = [evidence EXCEPT ![w] = tree[Place(w)]]
     \/ evidence' = [evidence EXCEPT ![w] = {}]

LEMMA EditsStep ==
  ASSUME TypeOK, NEW w \in Worker, NEW late \in BOOLEAN, Edits(w, late), late \/ ~Idles(w)
  PROVE  TreeStep(w)
<1> DEFINE e == [by |-> w, late |-> late]
<1>1. e \in Edit /\ e.by = w /\ e.late = late
  BY DEF Edit, Author
<1>2. tree' = [tree EXCEPT ![Place(w)] = @ \cup {e}]
  BY DEF Edits
<1> HIDE DEF e
<1> QED BY <1>1, <1>2 DEF TreeStep

LEMMA WorkSteps ==
  ASSUME TypeOK, NEW w \in Worker,
         Work(w) \/ Gates(w) \/ CriticAnswers(w) \/ OrphanWrites(w)
  PROVE  TreeStep(w) /\ ShownStep(w)
<1>1. CASE Plain(w) /\ ~Escalate(w) /\ ~Accept(w) /\ ~Commit(w) /\ ~OpenCritic(w)
  BY <1>1 DEF Plain, Begin, AgentMissing, Reopen, Stray, Refuse, SpawnCritic, worked,
              TreeStep, ShownStep
<1>2. CASE Escalate(w)
  <2> DEFINE e == [by |-> Shared, late |-> FALSE]
  <2>1. UNCHANGED <<commits, evidence>> /\ ~Idles(w)
        /\ \/ tree' = tree
           \/ ~parallel /\ tree' = [tree EXCEPT ![Shared] = @ \cup {e}]
    BY <1>2 DEF Escalate, Decided, At, Idles
  <2>2. e \in Edit /\ e.by = Shared
    BY DEF Edit, Author
  <2> HIDE DEF e
  <2> QED BY <2>1, <2>2 DEF TreeStep, ShownStep, Place
<1>3. CASE Accept(w)
  <2>1. ~Idles(w) /\ UNCHANGED <<commits, evidence>> /\ (UNCHANGED tree \/ Edits(w, FALSE))
    BY <1>3 DEF Accept, At, Idles
  <2> QED BY <2>1, EditsStep DEF TreeStep, ShownStep
<1>4. CASE Commit(w)
  BY <1>4 DEF Commit, Commits, At, Idles, TreeStep, ShownStep
<1>5. CASE OpenCritic(w)
  BY <1>5 DEF OpenCritic, Completes, Decided, At, Idles, TreeStep, ShownStep
<1>6. CASE Attempt(w) \/ Split(w) \/ Gates(w) \/ CriticAnswers(w)
  BY <1>6 DEF Attempt, Split, Gates, CriticAnswers, worked, TreeStep, ShownStep
<1>7. CASE AgentEnds(w)
  <2>1. ~Idles(w) /\ UNCHANGED <<commits, evidence>> /\ (UNCHANGED tree \/ Edits(w, FALSE))
    BY <1>7 DEF AgentEnds, At, Idles
  <2> QED BY <2>1, EditsStep DEF TreeStep, ShownStep
<1>8. CASE Exhausted(w)
  <2>1. ~Idles(w) /\ UNCHANGED evidence /\ (Commits(w) \/ UNCHANGED <<tree, commits>>)
    BY <1>8 DEF Exhausted, At, Idles
  <2> QED BY <2>1 DEF Commits, TreeStep, ShownStep
<1>9. CASE Settle(w)
  <2>1. /\ tree' = tree \/ tree' = [tree EXCEPT ![Place(w)] = {}]
        /\ UNCHANGED commits /\ evidence' = [evidence EXCEPT ![w] = {}]
    BY <1>9 DEF Settle
  <2> QED BY <2>1 DEF TreeStep, ShownStep
<1>10. CASE OrphanWrites(w)
  <2>1. UNCHANGED <<commits, evidence>> /\ (UNCHANGED tree \/ Edits(w, TRUE))
    BY <1>10 DEF OrphanWrites
  <2> QED BY <2>1, EditsStep DEF TreeStep, ShownStep
<1> QED BY <1>1, <1>2, <1>3, <1>4, <1>5, <1>6, <1>7, <1>8, <1>9, <1>10 DEF Work, Plain

\* Worktrees hold their own node's edits only.
OwnTrees ==
  parallel => \A w \in Worker : \A e \in tree[w] \cup commits[w] \cup evidence[w] : e.by = w

OInv == TypeOK /\ OwnTrees

LEMMA OwnHolds == OInv /\ [Next]_vars => OInv'
<1> SUFFICES ASSUME OInv, [Next]_vars PROVE OInv'
    OBVIOUS
<1>t. TypeOK /\ TypeOK'
  BY TypeHolds DEF OInv
<1>1. ASSUME NEW w \in Worker,
             Work(w) \/ Gates(w) \/ CriticAnswers(w) \/ OrphanWrites(w)
      PROVE  OwnTrees'
  <2>1. UNCHANGED parallel
    BY <1>1 DEF settings, Work, Begin, Attempt, AgentMissing, AgentEnds, Split, Reopen,
                Escalate, Stray, Refuse, OpenCritic, SpawnCritic, Accept, Commit,
                Exhausted, Settle, Gates, CriticAnswers, OrphanWrites
  <2> SUFFICES ASSUME parallel, NEW v \in Worker,
                      NEW e \in tree'[v] \cup commits'[v] \cup evidence'[v]
               PROVE  e.by = v
      BY <2>1 DEF OwnTrees
  <2>2. Place(w) = w /\ w \in Author /\ v \in Author
    BY DEF Place, Author
  <2>3. /\ tree \in [Author -> SUBSET Edit] /\ commits \in [Worker -> SUBSET Edit]
        /\ evidence \in [Worker -> SUBSET Edit]
    BY <1>t DEF TypeOK
  <2>4. \A u \in Worker : \A d \in tree[u] \cup commits[u] \cup evidence[u] : d.by = u
    BY DEF OInv, OwnTrees
  <2>5. e \in tree'[v] => e.by = v
    BY <1>1, <1>t, <2>2, <2>3, <2>4, WorkSteps DEF TreeStep
  <2>6. e \in commits'[v] => e.by = v
    BY <1>1, <1>t, <2>2, <2>3, <2>4, WorkSteps DEF ShownStep
  <2>7. e \in evidence'[v] => e.by = v
    BY <1>1, <1>t, <2>2, <2>3, <2>4, WorkSteps DEF ShownStep
  <2> QED BY <2>5, <2>6, <2>7
<1>2. CASE Interrupt \/ UNCHANGED vars
  <2>0. UNCHANGED parallel
    BY <1>2 DEF Interrupt, vars, settings
  <2>1. UNCHANGED <<tree, commits, evidence>>
    BY <1>2 DEF Interrupt, vars, worked
  <2>2. OwnTrees /\ parallel \in BOOLEAN
    BY DEF OInv, TypeOK
  <2>3. OwnTrees'
    <3> SUFFICES ASSUME parallel PROVE \A w \in Worker :
                   \A e \in tree'[w] \cup commits'[w] \cup evidence'[w] : e.by = w
        BY <2>0 DEF OwnTrees
    <3> QED BY <2>1, <2>2 DEF OwnTrees
  <2> QED BY <1>t, <2>3 DEF OInv
<1> QED BY <1>t, <1>1, <1>2 DEF Next, OInv

LEMMA OwnStarts == Init => OInv
<1> SUFFICES ASSUME Init PROVE OInv
    OBVIOUS
<1>1. \A w \in Worker : tree[w] = {} /\ commits[w] = {} /\ evidence[w] = {}
  BY DEF Init, Author
<1> QED BY <1>1, TypeStarts DEF OInv, OwnTrees

\* In a parallel batch a node commits, and is judged on, its own edits only: work_root,
\* commit_node_work, critic_evidence.
THEOREM OwnWork == Spec => []CommitIsOwnWork
<1>1. OInv => CommitIsOwnWork
  BY DEF OInv, OwnTrees, CommitIsOwnWork
<1> QED BY <1>1, OwnStarts, OwnHolds, PTL DEF Spec

-----------------------------------------------------------------------------
(* A failed node's work.  On the shared tree one worker is at work at a time.    *)
(* Whoever has not begun, or failed and left nothing to keep, has nothing there; *)
(* and nobody else has shown or committed what a node wrote that is at work or   *)
(* out of it that way.                                                           *)

Contained(w) == job[w].pc = "out" => job[w].outcome = "failed" /\ ~job[w].kept

OneAtWork == \A v, w \in Worker : v # w => Idles(v) \/ Idles(w)

NothingLeft ==
  \A w \in Worker : Idles(w) /\ Contained(w) => Early(w) \notin tree[Shared]

NothingShown ==
  \A v, w \in Worker :
    v # w /\ Contained(w) => Early(w) \notin commits[v] \cup evidence[v]

Apart == ~parallel => OneAtWork /\ NothingLeft /\ NothingShown

FInv == OInv /\ Apart

\* A step of w on the shared tree.
LEMMA ApartStep ==
  ASSUME FInv, NEW w \in Worker, ~parallel, ~parallel',
         Work(w) \/ Gates(w) \/ CriticAnswers(w)
  PROVE  (OneAtWork /\ NothingLeft /\ NothingShown)'
<1>t. /\ TypeOK /\ OneAtWork /\ NothingLeft /\ NothingShown
      /\ tree \in [Author -> SUBSET Edit] /\ Shared \in Author /\ Shared \notin Worker
      /\ commits \in [Worker -> SUBSET Edit] /\ evidence \in [Worker -> SUBSET Edit]
  BY AttemptsAssumption DEF FInv, OInv, Apart, TypeOK, Author
<1>m. /\ \A v \in Worker \ {w} : job'[v] = job[v]
      /\ job[w].pc # "out" /\ job'[w].pc # "queued"
      /\ job'[w].pc = "out" => Settle(w)
  BY <1>t, StepMoves DEF Moves
<1>s. TreeStep(w) /\ ShownStep(w) /\ Place(w) = Shared
  BY <1>t, WorkSteps DEF Place
<1>o. \A v \in Worker \ {w} : Idles(v)
  <2>1. CASE Begin(w)
    BY <2>1 DEF Begin, Idles
  <2>2. CASE ~Begin(w)
    <3>1. job[w].pc # "queued"
      BY <2>2 DEF Work, Attempt, AgentMissing, AgentEnds, Split, Reopen, Escalate, Stray,
                  Refuse, OpenCritic, SpawnCritic, Accept, Commit, Exhausted, Settle,
                  Gates, CriticAnswers, Completes, Decided, At
    <3> QED BY <3>1, <1>m, <1>t DEF OneAtWork, Idles
  <2> QED BY <2>1, <2>2
<1>1. OneAtWork'
  BY <1>o, <1>m DEF OneAtWork, Idles
<1>2. NothingLeft'
  <2> SUFFICES ASSUME NEW u \in Worker, Idles(u)', Contained(u)',
                      Early(u) \in tree'[Shared]
               PROVE  FALSE
      BY DEF NothingLeft, Early
  <2>1. CASE u = w
    <3>1. Settle(w) /\ job'[w].outcome = "failed" /\ ~job'[w].kept
      BY <2>1, <1>m DEF Idles, Contained
    <3>2. Discards(w)
      BY <3>1, <1>t, SettleMoves DEF Discards, Same
    <3>3. tree' = [tree EXCEPT ![Shared] = {}]
      BY <3>1, <3>2, <1>s DEF Settle
    <3> QED BY <3>3, <1>t
  <2>2. CASE u # w
    <3>1. Idles(u) /\ Contained(u) /\ Early(u) \notin tree[Shared]
      BY <2>2, <1>m, <1>t DEF Idles, Contained, NothingLeft
    <3>2. Early(u).by = u /\ u # Shared
      BY <1>t DEF Early
    <3>3. tree'[Shared] \subseteq tree[Shared] \cup {e \in Edit : e.by \in {w, Shared}}
      BY <1>s, <1>t DEF TreeStep
    <3> QED BY <2>2, <3>1, <3>2, <3>3
  <2> QED BY <2>1, <2>2
<1>3. NothingShown'
  <2> SUFFICES ASSUME NEW v \in Worker, NEW u \in Worker, v # u, Contained(u)',
                      Early(u) \in commits'[v] \cup evidence'[v]
               PROVE  FALSE
      BY DEF NothingShown, Early
  <2>1. Contained(u)
    BY <1>m DEF Contained
  <2>2. Early(u) \notin commits[v] \cup evidence[v]
    BY <2>1, <1>t DEF NothingShown
  <2>3. v = w
    BY <2>2, <1>s, <1>t DEF ShownStep
  <2>4. Early(u) \in tree[Shared]
    BY <2>2, <2>3, <1>s, <1>t DEF ShownStep
  <2> QED BY <2>1, <2>3, <2>4, <1>o, <1>t DEF NothingLeft
<1> QED BY <1>1, <1>2, <1>3

LEMMA ApartHolds == FInv /\ [Next]_vars => FInv'
<1> SUFFICES ASSUME FInv, [Next]_vars PROVE FInv'
    OBVIOUS
<1>t. TypeOK /\ OInv'
  BY OwnHolds DEF FInv, OInv
<1>1. ASSUME NEW w \in Worker, Work(w) \/ Gates(w) \/ CriticAnswers(w) PROVE Apart'
  <2>1. UNCHANGED parallel
    BY <1>1 DEF settings, Work, Begin, Attempt, AgentMissing, AgentEnds, Split, Reopen,
                Escalate, Stray, Refuse, OpenCritic, SpawnCritic, Accept, Commit,
                Exhausted, Settle, Gates, CriticAnswers
  <2> QED BY <1>1, <2>1, ApartStep DEF Apart
<1>2. ASSUME NEW w \in Worker, OrphanWrites(w) PROVE Apart'
  <2> SUFFICES ASSUME ~parallel PROVE (OneAtWork /\ NothingLeft /\ NothingShown)'
      BY <1>2 DEF OrphanWrites, settings, Apart
  <2>t. /\ OneAtWork /\ NothingLeft /\ NothingShown
        /\ tree \in [Author -> SUBSET Edit] /\ Shared \in Author
    BY <1>t DEF FInv, Apart, TypeOK, Author
  <2>1. UNCHANGED <<job, commits, evidence>> /\ (UNCHANGED tree \/ Edits(w, TRUE))
    BY <1>2 DEF OrphanWrites, worked
  <2>2. OneAtWork' /\ NothingShown'
    BY <2>t, <2>1 DEF OneAtWork, NothingShown, Idles, Contained, Early
  <2>3. \A u \in Worker : Early(u) \in tree'[Shared] => Early(u) \in tree[Shared]
    BY <2>t, <2>1 DEF Edits, Place, Early
  <2>4. NothingLeft'
    BY <2>t, <2>1, <2>3 DEF NothingLeft, Idles, Contained, Early
  <2> QED BY <2>2, <2>4
<1>3. CASE Interrupt \/ UNCHANGED vars
  <2>0. UNCHANGED parallel
    BY <1>3 DEF Interrupt, vars, settings
  <2>1. UNCHANGED <<job, tree, commits, evidence>>
    BY <1>3 DEF Interrupt, vars, worked
  <2>2. Apart
    BY DEF FInv
  <2>3. /\ OneAtWork => OneAtWork'
        /\ NothingLeft => NothingLeft'
        /\ NothingShown => NothingShown'
    BY <2>1 DEF OneAtWork, NothingLeft, NothingShown, Idles, Contained, Early
  <2>4. Apart'
    <3> SUFFICES ASSUME ~parallel PROVE OneAtWork' /\ NothingLeft' /\ NothingShown'
        BY <2>0 DEF Apart
    <3> QED BY <2>2, <2>3 DEF Apart
  <2> QED BY <1>t, <2>4 DEF FInv
<1> QED BY <1>t, <1>1, <1>2, <1>3 DEF Next, FInv

LEMMA ApartStarts == Init => FInv
<1> SUFFICES ASSUME Init PROVE FInv
    OBVIOUS
<1>1. /\ \A w \in Worker : job[w].pc = "queued" /\ commits[w] = {} /\ evidence[w] = {}
      /\ tree[Shared] = {}
  BY DEF Init, Author
<1> QED BY <1>1, OwnStarts DEF FInv, Apart, OneAtWork, NothingLeft, NothingShown, Idles

\* What a failed node's agent wrote before it ended is in nobody else's commit and was
\* nobody else's evidence: run_one_node, settle_worker, reset_worktree.
THEOREM FailedIsDiscarded == Spec => []FailedStaysOut
<1>1. FInv => FailedStaysOut
  <2> SUFFICES ASSUME FInv, NEW v \in Worker, NEW w \in Worker, v # w, At(w, "out"),
                      job[w].outcome = "failed", ~job[w].kept
               PROVE  Early(w) \notin commits[v] \cup evidence[v]
      BY DEF FailedStaysOut, Early
  <2>1. CASE parallel
    <3>1. Early(w).by = w
      BY DEF Early
    <3> QED BY <2>1, <3>1 DEF FInv, OInv, OwnTrees
  <2>2. CASE ~parallel
    BY <2>2 DEF FInv, Apart, NothingShown, Contained
  <2>3. parallel \in BOOLEAN
    BY DEF FInv, OInv, TypeOK
  <2> QED BY <2>1, <2>2
<1> QED BY <1>1, ApartStarts, ApartHolds, PTL DEF Spec

=============================================================================
