----------------------------- MODULE TreeProofs -----------------------------
(* Theorems about the tree on disk, the order of its nodes, the promise of      *)
(* Delivery and a complete root, for every finite set of node ids.              *)
EXTENDS SchedulerProofs, SequenceTheorems

-----------------------------------------------------------------------------
(* Node ids are sequences. *)

Path == Seq(Nat \ {0})

\* The i-th child of n.
LEMMA ChildOf ==
  ASSUME NEW n \in Path, NEW i \in Nat \ {0}
  PROVE  /\ Append(n, i) # Root /\ Parent(Append(n, i)) = n
         /\ Append(n, i)[Len(Append(n, i))] = i
<1> DEFINE c == Append(n, i)
<1>1. /\ c \in Path /\ c # <<>> /\ Len(c) = Len(n) + 1
      /\ (\A k \in 1 .. Len(n) : c[k] = n[k]) /\ c[Len(n) + 1] = i
  BY AppendProperties DEF Path
<1>2. SubSeq(c, 1, Len(c) - 1) = n
  <2>0. Len(n) \in Nat
    BY DEF Path
  <2>1. /\ SubSeq(c, 1, Len(n)) \in Path
        /\ Len(SubSeq(c, 1, Len(n))) = Len(n)
        /\ \A k \in 1 .. Len(n) : SubSeq(c, 1, Len(n))[k] = c[k]
    BY <1>1, <2>0 DEF Path
  <2>2. SubSeq(c, 1, Len(n)) = n
    BY <1>1, <2>0, <2>1, SeqEqual DEF Path
  <2>3. Len(c) - 1 = Len(n)
    BY <1>1, <2>0
  <2> QED BY <2>2, <2>3
<1> QED BY <1>1, <1>2 DEF Parent, Root

\* What is below a sibling of n, or is one, shares n's ancestors.
LEMMA SiblingsBelow ==
  ASSUME NEW n \in Path, NEW d \in Path, NEW c \in Path, NEW m \in Path,
         n # Root, d # Root, c # Root, Parent(d) = Parent(n), Parent(c) = m,
         d = c \/ IsBelow(d, c)
  PROVE  IsBelow(n, m)
<1>0. /\ Len(n) \in Nat \ {0} /\ Len(d) \in Nat \ {0} /\ Len(c) \in Nat \ {0}
      /\ Len(m) \in Nat
  BY EmptySeq DEF Path, Root
<1>1. Len(Parent(n)) = Len(n) - 1 /\ Len(Parent(d)) = Len(d) - 1 /\ Len(m) = Len(c) - 1
  <2>1. ASSUME NEW s \in Path, Len(s) \in Nat \ {0} PROVE Len(Parent(s)) = Len(s) - 1
    <3> DEFINE last == Len(s) - 1
    <3>0. last \in Int /\ \A i \in 1 .. last : s[i] \in Nat \ {0}
      BY <2>1 DEF Path
    <3>1. Len(SubSeq(s, 1, last)) = IF 1 <= last THEN last - 1 + 1 ELSE 0
      <4> HIDE DEF last
      <4> QED BY <3>0, SubSeqProperties
    <3>2. Parent(s) = SubSeq(s, 1, last) /\ last = Len(s) - 1
      BY DEF Parent
    <3>3. last \in Nat
      BY <2>1
    <3>4. Len(SubSeq(s, 1, last)) = last
      <4> HIDE DEF last
      <4> QED BY <3>1, <3>3
    <3> HIDE DEF last
    <3> QED BY <3>2, <3>4, Zenon
  <2> QED BY <1>0, <2>1
<1>2. Len(n) = Len(d) /\ Len(d) >= Len(c) /\ Len(m) < Len(n)
  BY <1>0, <1>1 DEF IsBelow
<1>3. \A k \in 1 .. Len(m) : n[k] = m[k]
  <2> SUFFICES ASSUME NEW k \in 1 .. Len(m) PROVE n[k] = m[k]
      OBVIOUS
  <2>1. Parent(n)[k] = n[k]
    BY <1>0, <1>2 DEF Parent, Path
  <2>2. Parent(d)[k] = d[k]
    BY <1>0, <1>2 DEF Parent, Path
  <2>3. m[k] = c[k]
    BY <1>0, <1>1 DEF Parent, Path
  <2>4. d[k] = c[k]
    <3>1. CASE IsBelow(d, c)
      <4>1. SubSeq(d, 1, Len(c))[k] = d[k]
        BY <1>0, <1>1, <1>2 DEF Path
      <4> QED BY <3>1, <4>1 DEF IsBelow
    <3> QED BY <3>1
  <2> QED BY <2>1, <2>2, <2>3, <2>4
<1>4. SubSeq(n, 1, Len(m)) = m
  <2>1. /\ SubSeq(n, 1, Len(m)) \in Path /\ Len(SubSeq(n, 1, Len(m))) = Len(m)
        /\ \A k \in 1 .. Len(m) : SubSeq(n, 1, Len(m))[k] = n[k]
    BY <1>0, <1>2 DEF Path
  <2> QED BY <1>0, <1>3, <2>1, SeqEqual DEF Path
<1> QED BY <1>0, <1>2, <1>4 DEF IsBelow

-----------------------------------------------------------------------------
(* The tree on disk.  Directories are made in the order of their numbers, and    *)
(* what a split still plans continues the numbers there are; a directory is      *)
(* never removed, so that what an observer has listed is still there.            *)

Shaped == \A n \in disk \ {Root} :
  /\ Parent(n) \in disk
  /\ \A i \in 1 .. n[Len(n)] - 1 : Append(Parent(n), i) \in disk

Continued == \A c \in planned :
  /\ c # Root /\ Parent(c) \in disk
  /\ \A i \in 1 .. c[Len(c)] - 1 : Append(Parent(c), i) \in disk \cup planned

RowsOnDisk == \A n \in Node : row[n] # NoRow => n \in disk

Grown ==
  /\ Root \in disk /\ Shaped /\ Continued /\ RowsOnDisk
  /\ dirs \subseteq disk /\ \A n \in Node : wpc[n] # "idle" => n \in disk

LEMMA NodesAreIds ==
  /\ Node \subseteq Path /\ Root \in Node
  /\ \A n \in Node : n # Root => n[Len(n)] \in Nat \ {0}
<1> SUFFICES ASSUME NEW n \in Node, n # Root PROVE n[Len(n)] \in Nat \ {0}
    BY NodeAssumption DEF Path
<1>1. n \in Path
  BY NodeAssumption DEF Path
<1>2. Len(n) \in Nat \ {0}
  BY <1>1, EmptySeq DEF Path, Root
<1> QED BY <1>1, <1>2 DEF Path

\* set_status and reconcile make no row for what has no directory.
LEMMA NoNewRow ==
  ASSUME RowsOnDisk, dirs \subseteq disk
  PROVE  /\ \A S, st : \A n \in Node : SetStatus(row, S, st)[n] # NoRow => n \in disk
         /\ \A d \in SUBSET disk : \A r : \A n \in Node :
              ReconciledRow(d, r)[n] # NoRow => n \in disk
<1>1. ASSUME NEW S, NEW st, NEW n \in Node, SetStatus(row, S, st)[n] # NoRow PROVE n \in disk
  BY <1>1 DEF SetStatus, RowsOnDisk
<1>2. ASSUME NEW d \in SUBSET disk, NEW r, NEW n \in Node, ReconciledRow(d, r)[n] # NoRow
      PROVE  n \in disk
  BY <1>2 DEF ReconciledRow, Adopted, Repaired, Deleted, RowsOnDisk
<1> QED BY <1>1, <1>2

\* add_children makes the lowest directory there is to make.
LEMMA MaterialiseGrows ==
  ASSUME TypeOK, Grown, NEW n \in Node, Materialise(n)
  PROVE  Shaped' /\ Continued'
<1>1. n \in disk /\ disk \subseteq disk' /\ planned' = planned
  BY DEF Materialise, Grown, workerVars
<1>2. ASSUME NEW c \in Eldest(Unmade(n))
      PROVE  /\ c \in planned /\ Parent(c) = n /\ c # Root
             /\ \A i \in 1 .. c[Len(c)] - 1 : Append(n, i) \in disk
  <2>1. c \in planned /\ c # Root /\ Parent(c) = n /\ c \in Node
        /\ \A d \in Unmade(n) : c[Len(c)] <= d[Len(d)]
    BY <1>2 DEF Eldest, Unmade, Kids
  <2>2. ASSUME NEW i \in 1 .. c[Len(c)] - 1 PROVE Append(n, i) \in disk
    <3>1. c[Len(c)] \in Nat \ {0}
      BY <2>1, NodesAreIds
    <3>2. i \in Nat \ {0} /\ i < c[Len(c)]
      BY <3>1
    <3>3. n \in Path
      BY NodesAreIds
    <3>4. /\ Append(n, i) # Root /\ Parent(Append(n, i)) = n
          /\ Append(n, i)[Len(Append(n, i))] = i
      BY <3>2, <3>3, ChildOf
    <3>5. Append(n, i) \in disk \cup planned
      BY <2>1, Zenon DEF Grown, Continued
    <3>6. CASE Append(n, i) \notin disk
      <4>1. Append(n, i) \in Unmade(n)
        BY <3>4, <3>5, <3>6 DEF Unmade, Kids, TypeOK
      <4>2. c[Len(c)] <= i
        BY <2>1, <3>4, <4>1, Zenon
      <4> QED BY <3>1, <3>2, <4>2
    <3> QED BY <3>6
  <2> QED BY <2>1, <2>2
<1>3. disk' = disk \cup Eldest(Unmade(n))
  BY DEF Materialise
<1>4. Shaped'
  <2> SUFFICES ASSUME NEW c \in disk' \ {Root}
               PROVE  /\ Parent(c) \in disk'
                      /\ \A i \in 1 .. c[Len(c)] - 1 : Append(Parent(c), i) \in disk'
      BY DEF Shaped
  <2>1. CASE c \in disk
    BY <1>1, <2>1 DEF Grown, Shaped
  <2>2. CASE c \in Eldest(Unmade(n))
    BY <1>1, <1>2, <2>2
  <2> QED BY <1>3, <2>1, <2>2
<1>5. Continued'
  BY <1>1 DEF Grown, Continued
<1> QED BY <1>4, <1>5

\* A split proposes the numbers that follow.
LEMMA SplitContinues ==
  ASSUME TypeOK, Grown, NEW n \in Node, Split(n)
  PROVE  Continued'
<1>1. n \in disk /\ disk' = disk
  BY DEF Split, Step, Grown
<1>2. PICK new \in NewKids(n) : planned' = planned \cup new
  BY DEF Split
<1>3. ASSUME NEW c \in new
      PROVE  /\ c # Root /\ Parent(c) = n
             /\ \A i \in 1 .. c[Len(c)] - 1 : Append(n, i) \in disk \cup new
  BY <1>2 DEF NewKids, Kids
<1> QED BY <1>1, <1>2, <1>3 DEF Grown, Continued

LEMMA WorkerGrows ==
  ASSUME TypeOK, Grown, NEW n \in Node, Worker(n)
  PROVE  Grown'
<1> USE DEF Grown, storeVars, gitVars, runVars, outsideVars, workerVars
<1>r. \A S, st : \A m \in Node : SetStatus(row, S, st)[m] # NoRow => m \in disk
  BY NoNewRow
<1>w. ASSUME NEW m \in Node, wpc'[m] # "idle" PROVE wpc[m] # "idle"
  BY <1>w DEF Worker, TypeOK, Begin, Edit, Split, Materialise, Insert, SplitDone, Deliver,
              MarkComplete, Record, Hold, Commit, Fail, Checkpoint, Reopen, Abandon,
              Step, Return, Release
<1>1. CASE Materialise(n)
  <2>1. disk \subseteq disk'
    BY <1>1 DEF Materialise
  <2> QED BY <1>1, <2>1, MaterialiseGrows DEF Materialise, RowsOnDisk
<1>2. CASE Split(n)
  BY <1>2, <1>w, SplitContinues DEF Split, Shaped, RowsOnDisk
<1>3. CASE Insert(n)
  <2>1. PICK c \in Eldest(Unlisted(n)) :
          planned' = planned \ {c} /\ \A m \in Node : row'[m] # NoRow => row[m] # NoRow \/ m = c
    BY <1>3 DEF Insert, TypeOK
  <2>2. c \in disk
    BY <1>3 DEF Insert, Eldest, Unlisted, Unmade
  <2> QED BY <1>3, <1>w, <2>1, <2>2 DEF Insert, Shaped, Continued, RowsOnDisk
<1>4. CASE ~Materialise(n) /\ ~Split(n) /\ ~Insert(n)
  <2>1. UNCHANGED <<disk, planned, dirs>>
    BY <1>4 DEF Worker, Begin, Edit, SplitDone, Deliver, MarkComplete, Record, Hold, Commit,
                Fail, Checkpoint, Reopen, Abandon, Step, Return, Release
  <2>2. RowsOnDisk'
    BY <1>4, <1>r, <2>1
       DEF Worker, Begin, Edit, SplitDone, Deliver, MarkComplete, Record, Hold, Held, Commit,
           Fail, Checkpoint, Reopen, Abandon, Step, Return, Release, RowsOnDisk, SetStatus
  <2> QED BY <1>w, <2>1, <2>2 DEF Shaped, Continued
<1> QED BY <1>1, <1>2, <1>3, <1>4

LEMMA OthersGrow ==
  ASSUME TypeOK, Grown,
         \/ Start \/ Loop
         \/ \E n \in Node : Integration(n) \/ UserRetry(n)
         \/ Crash \/ Interrupt \/ Observe \/ Read \/ Repair
  PROVE  Grown'
<1> USE DEF Grown, storeVars, gitVars, runVars, outsideVars, workerVars
<1>r. /\ \A S, st : \A m \in Node : SetStatus(row, S, st)[m] # NoRow => m \in disk
      /\ \A d \in SUBSET disk : \A r : \A m \in Node : ReconciledRow(d, r)[m] # NoRow => m \in disk
  BY NoNewRow
<1>1. CASE Start
  <2>1. \A m \in Node : row'[m] # NoRow => ReconciledRow(disk, row)[m] # NoRow
    BY <1>1 DEF Start, SetStatus
  <2> QED BY <1>1, <1>r, <2>1 DEF Start, Shaped, Continued, RowsOnDisk
<1>2. CASE Finish \/ Wait \/ Join
  BY <1>2, <1>r DEF Finish, Wait, Join, Drained, Shaped, Continued, RowsOnDisk
<1>3. CASE Select
  <2>1. Chosen(Drained) \subseteq disk
    BY DEF Chosen, FirstOf, Ready, NextNodes, StaleIds
  <2>2. \A n \in Node : wpc'[n] # "idle" => n \in disk
    BY <1>3, <2>1 DEF Select
  <2> QED BY <1>3, <1>r, <2>2 DEF Select, Drained, Shaped, Continued, RowsOnDisk
<1>4. ASSUME NEW n \in Node, Integration(n) \/ UserRetry(n) PROVE Grown'
  <2>1. UNCHANGED <<disk, planned, dirs>>
    BY <1>4 DEF Integration, Pick, Conclude, Conflict, Step, Retire, Release, UserRetry
  <2>2. \A m \in Node : wpc'[m] # "idle" => wpc[m] # "idle"
    BY <1>4 DEF Integration, Pick, Conclude, Conflict, Step, Retire, Release, UserRetry, TypeOK
  <2>3. RowsOnDisk'
    BY <1>4, <1>r, <2>1
       DEF Integration, Pick, Conclude, Conflict, Landed, UserRetry, RowsOnDisk
  <2> QED BY <2>1, <2>2, <2>3 DEF Shaped, Continued
<1>5. CASE Crash \/ Interrupt \/ Observe \/ Read
  BY <1>5 DEF Crash, Interrupt, Observe, Read, Shaped, Continued, RowsOnDisk
<1>6. CASE Repair
  BY <1>6, <1>r DEF Repair, Shaped, Continued, RowsOnDisk
<1> QED BY <1>1, <1>2, <1>3, <1>4, <1>5, <1>6 DEF Loop

LEMMA InitGrown == Init => Grown
<1> SUFFICES ASSUME Init PROVE Grown
    OBVIOUS
<1>1. Shaped /\ Continued /\ RowsOnDisk
  BY DEF Init, Shaped, Continued, RowsOnDisk
<1> QED BY <1>1, NodesAreIds DEF Init, Grown

\* The tree on disk keeps its shape and the index knows only what is on disk, through
\* splits, crashes between their writes, runs that repair them and stale observers.
THEOREM TreeKeepsShape == Spec => []TreeWellFormed
<1>1. TypeOK /\ Grown /\ [Next]_vars => Grown'
  <2>1. CASE UNCHANGED vars
    BY <2>1 DEF Grown, Shaped, Continued, RowsOnDisk, vars, storeVars, workerVars, outsideVars
  <2>2. CASE Next
    BY <2>2, WorkerGrows, OthersGrow DEF Next
  <2> QED BY <2>1, <2>2
<1>2. Grown => TreeWellFormed
  BY DEF Grown, Shaped, RowsOnDisk, TreeWellFormed
<1> QED BY <1>1, <1>2, InitGrown, TypeCorrect, PTL DEF Spec

-----------------------------------------------------------------------------
(* The order of the nodes, while nothing kills the process, retries a node or    *)
(* looks on.  The rows then carry what the contracts say, a row is missing only  *)
(* while a split is at work, and a worker's dependencies are not of its batch.   *)

Alone == /\ Crashes = FALSE /\ MaxRetries = 0 /\ MaxObservers = 0

Undisturbed ==
  /\ steer = {} /\ retries = 0 /\ observers = 0
  /\ dirs = {} /\ \A n \in Node : rows[n] = NoRow

\* Where nobody retries, the queue changes nothing.
LEMMA NothingQueued == TypeOK /\ Undisturbed => Drained = row
<1> SUFFICES ASSUME TypeOK, Undisturbed PROVE Drained = row
    OBVIOUS
<1>1. {Subtree(n) : n \in steer \cap disk} = {}
  BY DEF Undisturbed
<1>2. UNION {Subtree(n) : n \in steer \cap disk} = {}
  BY <1>1
<1>3. \A S : S = {} => SetStatus(row, S, PENDING) = row
  BY DEF SetStatus, TypeOK
<1> QED BY <1>2, <1>3 DEF Drained

Listed ==
  /\ \A n \in Node : \A d \in contract[n] : n # Root /\ d \in Kids(Parent(n))
  /\ \A n \in Node : row[n] # NoRow => deps[n] = contract[n]
  /\ \A n \in disk \ planned : row[n] # NoRow
  /\ \A c \in planned : row[c] = NoRow /\ wpc[Parent(c)] = "splitting"

\* n is at work, or about to be, on a first acceptance.
Waiting(n) == wpc[n] \in {"queued"} \cup Active /\ snap[n] = PENDING

Guarded == \A n \in Node : Waiting(n) =>
  \A d \in contract[n] : wpc[d] = "idle" /\ (UnderReview(n) \/ row[d] = COMPLETE)

\* The loop of a serial batch takes the deepest first.
DeepestFirst == pc = "serial" =>
  \A m, n \in Node : wpc[m] \in Active /\ IsBelow(n, m) => ~Waiting(n)

InOrder == Undisturbed /\ Listed /\ Guarded /\ DeepestFirst

\* Statuses that are not PENDING are different from it.
LEMMA NotPending ==
  /\ PENDING # COMPLETE /\ PENDING # SPLIT /\ NoRow \notin Status
  /\ {PENDING, RUNNING, SPLIT, COMPLETE, FAILED} \subseteq Status
BY DEF PENDING, RUNNING, SPLIT, COMPLETE, FAILED, SUSPENDED, NoRow, Status

\* set_status gives and takes no row.
LEMMA RowsStay ==
  ASSUME NEW S, NEW st \in Status, NEW n \in Node
  PROVE  SetStatus(row, S, st)[n] = NoRow <=> row[n] = NoRow
BY NotPending DEF SetStatus

\* What a batch loses takes nobody's excuse away: a serial worker that ends has
\* nobody below it who is still at work.
LEMMA StillGuarded ==
  ASSUME TypeOK, Placed, InOrder, NEW n \in Node, wpc[n] # "idle",
         pc \in {"serial", "parallel"}, pc' = pc,
         \A m \in Node \ {n} : wpc'[m] = wpc[m] /\ snap'[m] = snap[m],
         wpc'[n] # "idle" => snap'[n] = snap[n],
         wpc'[n] \in {"idle", "queued", "done"} \cup Active,
         wpc'[n] = "idle" => pc = "serial",
         wpc[n] \notin {"queued"} \cup Active => wpc'[n] \notin {"queued"} \cup Active,
         pc = "serial" => \A m \in Node : IsBelow(m, n) => ~Waiting(m),
         NEW k \in Node, Waiting(k)', UnderReview(k)
  PROVE  UnderReview(k)' /\ Waiting(k)
<1>1. PICK m \in Batch : IsBelow(k, m)
  BY DEF UnderReview
<1>2. Waiting(k)
  BY DEF Waiting, Active, TypeOK
<1>3. wpc'[m] # "idle"
  BY <1>1, <1>2 DEF Batch
<1> QED BY <1>1, <1>2, <1>3 DEF UnderReview, Batch

\* Where a worker may be before and after a step.
LEMMA WorkerMoves ==
  ASSUME TypeOK, Placed, InOrder, NEW n \in Node, Worker(n)
  PROVE  /\ wpc[n] \in {"queued"} \cup Active /\ pc \in {"serial", "parallel"} /\ pc' = pc
         /\ \A m \in Node \ {n} : wpc'[m] = wpc[m] /\ snap'[m] = snap[m]
         /\ wpc'[n] # "idle" => snap'[n] = snap[n]
         /\ wpc'[n] \in {"idle", "done"} \cup Active
         /\ wpc'[n] = "idle" => pc = "serial"
         /\ pc = "serial" => \A m \in Node : IsBelow(m, n) => ~Waiting(m)
<1> USE DEF TypeOK, storeVars, gitVars, runVars, outsideVars, workerVars, Active
<1>1. wpc[n] \in {"queued"} \cup Active
  BY DEF Worker, Begin, Edit, Split, Materialise, Insert, SplitDone, Deliver,
         MarkComplete, Record, Hold, Commit, Fail, Checkpoint, Reopen, Abandon, Step
<1>2. pc \in {"serial", "parallel"} /\ pc' = pc
  <2>1. pc \in {"serial", "parallel"}
    BY <1>1 DEF Placed, PhaseOK, PC
  <2>2. pc' = pc
    BY DEF Worker, Begin, Edit, Split, Materialise, Insert, SplitDone, Deliver,
           MarkComplete, Record, Hold, Commit, Fail, Checkpoint, Reopen, Abandon
  <2> QED BY <2>1, <2>2
<1>3. /\ \A m \in Node \ {n} : wpc'[m] = wpc[m] /\ snap'[m] = snap[m]
      /\ wpc'[n] # "idle" => snap'[n] = snap[n]
      /\ wpc'[n] \in {"idle", "done"} \cup Active
      /\ wpc'[n] = "idle" => pc = "serial"
  BY <1>1, <1>2
     DEF Worker, Begin, Edit, Split, Materialise, Insert, SplitDone, Deliver,
         MarkComplete, Record, Hold, Commit, Fail, Checkpoint, Reopen, Abandon,
         Step, Return, Release
<1>4. ASSUME pc = "serial", NEW m \in Node, IsBelow(m, n) PROVE ~Waiting(m)
  <2>1. CASE wpc[n] \in Active
    BY <1>4, <2>1 DEF InOrder, DeepestFirst
  <2>2. CASE wpc[n] = "queued"
    <3>1. \A k \in Batch \ {n} : wpc[k] = "queued" /\ ~Earlier(k, n)
      BY <1>4, <2>2 DEF Worker, Begin, Edit, Split, Materialise, Insert, SplitDone, Deliver,
             MarkComplete, Record, Hold, Commit, Fail, Checkpoint, Reopen, Abandon, Step
    <3>2. Len(m) > Len(n) /\ Len(m) # Len(n) /\ m # n
      BY <1>4, NodesAreIds DEF IsBelow, Path
    <3>3. snap[m] = PENDING => Earlier(m, n)
      BY <3>2, NotPending DEF Earlier, RunsBefore
    <3>4. Waiting(m) => m \in Batch \ {n}
      BY <3>2 DEF Waiting, Batch
    <3> QED BY <3>1, <3>3, <3>4 DEF Waiting
  <2> QED BY <1>1, <2>1, <2>2
<1> QED BY <1>1, <1>2, <1>3, <1>4

\* Which acceptances a worker takes back: its own, and those below the children it
\* reopens.
LEMMA WorkerUndoes ==
  ASSUME TypeOK, NEW n \in Node, Worker(n), NEW d \in Node, d # n,
         row[d] = COMPLETE, row'[d] # COMPLETE
  PROVE  \E c \in Kids(n) : c # Root /\ (d = c \/ IsBelow(d, c)) /\ Reopen(n)
<1> USE DEF TypeOK, storeVars, gitVars, runVars, outsideVars, workerVars
<1>1. \A S, st : d \notin S => SetStatus(row, S, st)[d] = row[d]
  BY DEF SetStatus
<1>2. Reopen(n)
  BY <1>1, NotPending
     DEF Worker, Begin, Edit, Split, Materialise, Insert, SplitDone, Deliver, MarkComplete,
         Record, Hold, Held, Commit, Fail, Checkpoint, Abandon
<1>3. PICK named \in SUBSET (Kids(n) \cap disk) :
        row' = SetStatus(SetStatus(row, UNION {Subtree(c) : c \in named}, PENDING), {n}, SPLIT)
  BY <1>2 DEF Reopen
<1>4. \A r : SetStatus(r, {n}, SPLIT)[d] = r[d]
  BY DEF SetStatus
<1>5. row'[d] = SetStatus(row, UNION {Subtree(c) : c \in named}, PENDING)[d]
  BY <1>3, <1>4
<1>6. d \in UNION {Subtree(c) : c \in named}
  BY <1>1, <1>5
<1>7. PICK c \in named : d \in Subtree(c)
  BY <1>6
<1> QED BY <1>2, <1>7 DEF Subtree, Kids

LEMMA WorkerListed ==
  ASSUME TypeOK, Grown, Placed, InOrder, NEW n \in Node, Worker(n)
  PROVE  Undisturbed' /\ Listed'
<1> USE DEF TypeOK, InOrder, storeVars, gitVars, runVars, outsideVars, workerVars
<1>0. Undisturbed'
  BY DEF Undisturbed, Worker, Begin, Edit, Split, Materialise, Insert, SplitDone, Deliver,
         MarkComplete, Record, Hold, Commit, Fail, Checkpoint, Reopen, Abandon
<1>1. CASE Split(n)
  <2>1. PICK new \in NewKids(n) :
          /\ planned' = planned \cup new
          /\ \E D \in [new -> SUBSET new] :
               contract' = [c \in Node |-> IF c \in new THEN D[c] ELSE contract[c]]
    BY <1>1 DEF Split
  <2>2. PICK D \in [new -> SUBSET new] :
          contract' = [c \in Node |-> IF c \in new THEN D[c] ELSE contract[c]]
    BY <2>1
  <2>3. new \subseteq Kids(n) /\ new \cap disk = {}
    BY DEF NewKids
  <2>4. /\ UNCHANGED <<disk, row, deps>> /\ wpc'[n] = "splitting"
        /\ \A m \in Node \ {n} : wpc'[m] = wpc[m]
    BY <1>1 DEF Split, Step
  <2>5. \A c \in new : row[c] = NoRow /\ Parent(c) = n /\ c # Root /\ c \in Node
    BY <2>3 DEF Kids, Grown, RowsOnDisk
  <2>6. ASSUME NEW c \in Node, NEW d \in contract'[c] PROVE c # Root /\ d \in Kids(Parent(c))
    <3>1. CASE c \in new
      BY <2>2, <2>3, <2>5, <2>6, <3>1
    <3>2. CASE c \notin new
      BY <2>2, <2>6, <3>2 DEF Listed
    <3> QED BY <3>1, <3>2
  <2>7. \A c \in Node : row'[c] # NoRow => deps'[c] = contract'[c]
    BY <2>2, <2>4, <2>5 DEF Listed
  <2>8. \A c \in disk' \ planned' : row'[c] # NoRow
    BY <2>1, <2>4 DEF Listed
  <2>9. \A c \in planned' : row'[c] = NoRow /\ wpc'[Parent(c)] = "splitting"
    <3>1. \A c \in planned : Parent(c) \in Node
      BY DEF Grown, Continued
    <3> QED BY <2>1, <2>4, <2>5, <3>1 DEF Listed
  <2> QED BY <1>0, <2>6, <2>7, <2>8, <2>9 DEF Listed
<1>2. CASE Materialise(n)
  <2>1. Eldest(Unmade(n)) \subseteq planned
    BY DEF Eldest, Unmade
  <2> QED BY <1>0, <1>2, <2>1 DEF Materialise, Listed
<1>3. CASE Insert(n)
  <2>1. PICK c \in Eldest(Unlisted(n)) :
          /\ planned' = planned \ {c}
          /\ IF row[c] # NoRow THEN UNCHANGED <<row, deps>>
             ELSE /\ row' = [row EXCEPT ![c] = PENDING]
                  /\ deps' = [deps EXCEPT ![c] = contract[c]]
    BY <1>3 DEF Insert
  <2>2. c \in planned /\ c \in Node /\ row[c] = NoRow
    BY <2>1 DEF Eldest, Unlisted, Listed
  <2>3. /\ row' = [row EXCEPT ![c] = PENDING] /\ deps' = [deps EXCEPT ![c] = contract[c]]
        /\ UNCHANGED <<disk, contract, wpc>>
    BY <1>3, <2>1, <2>2 DEF Insert
  <2> QED BY <1>0, <2>1, <2>2, <2>3, NotPending DEF Listed
<1>4. CASE ~Split(n) /\ ~Materialise(n) /\ ~Insert(n)
  <2>1. UNCHANGED <<disk, contract, deps>> /\ planned' = planned
    BY <1>4 DEF Worker, Begin, Edit, SplitDone, Deliver, MarkComplete, Record, Hold, Commit,
                Fail, Checkpoint, Reopen, Abandon, Step, Return, Release
  <2>2. \A m \in Node : row'[m] = NoRow <=> row[m] = NoRow
    <3>1. ASSUME NEW S, NEW st \in Status, NEW m \in Node
          PROVE  SetStatus(row, S, st)[m] = NoRow <=> row[m] = NoRow
      BY RowsStay
    <3>2. CASE Reopen(n)
      <4>1. PICK S : row' = SetStatus(SetStatus(row, S, PENDING), {n}, SPLIT)
        BY <3>2 DEF Reopen
      <4> QED BY <4>1, NotPending DEF SetStatus
    <3>3. CASE ~Reopen(n)
      <4>1. \/ row' = row
            \/ row' = SetStatus(row, {n}, RUNNING) \/ row' = SetStatus(row, {n}, SPLIT)
            \/ row' = SetStatus(row, {n}, COMPLETE) \/ row' = SetStatus(row, {n}, FAILED)
        BY <1>4, <3>3 DEF Worker, Begin, Edit, SplitDone, Deliver, MarkComplete, Record, Hold,
             Held, Commit, Fail, Checkpoint, Abandon
      <4> QED BY <3>1, <4>1, NotPending
    <3> QED BY <3>2, <3>3
  <2>3. \A c \in planned : wpc'[Parent(c)] = "splitting"
    <3> SUFFICES ASSUME NEW c \in planned PROVE wpc'[Parent(c)] = "splitting"
        OBVIOUS
    <3>0. Parent(c) \in Node /\ wpc[Parent(c)] = "splitting"
      BY DEF Grown, Continued, Listed
    <3>1. CASE Parent(c) # n
      BY <3>0, <3>1, WorkerMoves
    <3>2. CASE Parent(c) = n
      <4>1. c \in Unlisted(n)
        BY <3>2 DEF Unlisted, Kids, Grown, Continued
      <4>2. ~SplitDone(n)
        BY <4>1 DEF SplitDone
      <4> QED BY <1>4, <3>0, <3>2, <4>2
           DEF Worker, Begin, Edit, Deliver, MarkComplete, Record, Hold, Commit,
               Fail, Checkpoint, Reopen, Abandon, Step
    <3> QED BY <3>1, <3>2
  <2> QED BY <1>0, <2>1, <2>2, <2>3 DEF Listed
<1> QED BY <1>1, <1>2, <1>3, <1>4

LEMMA WorkerInOrder ==
  ASSUME TypeOK, Grown, Placed, InOrder, NEW n \in Node, Worker(n)
  PROVE  InOrder'
<1>1. Undisturbed' /\ Listed'
  BY WorkerListed
<1>2. /\ wpc[n] \in {"queued"} \cup Active /\ pc \in {"serial", "parallel"} /\ pc' = pc
      /\ \A m \in Node \ {n} : wpc'[m] = wpc[m] /\ snap'[m] = snap[m]
      /\ wpc'[n] # "idle" => snap'[n] = snap[n]
      /\ wpc'[n] \in {"idle", "done"} \cup Active
      /\ wpc'[n] = "idle" => pc = "serial"
      /\ pc = "serial" => \A m \in Node : IsBelow(m, n) => ~Waiting(m)
  BY WorkerMoves
<1>3. \A m \in Node : Waiting(m)' => Waiting(m)
  BY <1>2 DEF Waiting, Active
<1>4. DeepestFirst'
  BY <1>2, <1>3 DEF DeepestFirst, InOrder
<1>5. ASSUME NEW k \in Node, Waiting(k)', UnderReview(k) PROVE UnderReview(k)'
  <2>1. wpc[n] # "idle"
    BY <1>2 DEF Active
  <2> QED BY <1>2, <1>5, <2>1, StillGuarded DEF Active
<1>6. \A k \in Node : Waiting(k)' => contract'[k] = contract[k]
  <2> SUFFICES ASSUME NEW k \in Node, Waiting(k)' PROVE contract'[k] = contract[k]
      OBVIOUS
  <2>1. k \in disk
    BY <1>3 DEF Waiting, Grown, Active
  <2>2. CASE Split(n)
    <3>1. PICK new \in NewKids(n) : \E D \in [new -> SUBSET new] :
            contract' = [c \in Node |-> IF c \in new THEN D[c] ELSE contract[c]]
      BY <2>2 DEF Split
    <3> QED BY <2>1, <3>1 DEF NewKids
  <2>3. CASE ~Split(n)
    BY <2>3 DEF storeVars, Worker, Begin, Edit, Materialise, Insert, SplitDone, Deliver,
         MarkComplete, Record, Hold, Commit, Fail, Checkpoint, Reopen, Abandon
  <2> QED BY <2>2, <2>3
<1>7. ASSUME NEW k \in Node, Waiting(k)', NEW d \in contract[k]
      PROVE  wpc'[d] = "idle" /\ (UnderReview(k)' \/ row'[d] = COMPLETE)
  <2>1. /\ d \in Node /\ d # Root /\ k # Root /\ Parent(d) = Parent(k)
    BY <1>7 DEF InOrder, Listed, Kids, TypeOK
  <2>2. wpc[d] = "idle" /\ (UnderReview(k) \/ row[d] = COMPLETE)
    BY <1>3, <1>7 DEF InOrder, Guarded
  <2>3. d # n /\ wpc'[d] = "idle"
    BY <1>2, <2>1, <2>2 DEF Active
  <2>4. CASE row[d] = COMPLETE /\ row'[d] # COMPLETE
    <3>1. PICK c \in Kids(n) : c # Root /\ (d = c \/ IsBelow(d, c)) /\ Reopen(n)
      BY <2>1, <2>3, <2>4, WorkerUndoes
    <3>2. IsBelow(k, n)
      BY <2>1, <3>1, NodesAreIds, SiblingsBelow DEF Kids
    <3>3. pc = "parallel"
      BY <1>2, <1>3, <1>7, <3>2
    <3>4. wpc'[n] = "done"
      BY <3>1, <3>3 DEF Reopen, Return, TypeOK
    <3> QED BY <2>3, <3>2, <3>4 DEF UnderReview, Batch
  <2> QED BY <1>5, <1>7, <2>2, <2>3, <2>4
<1>8. Guarded'
  BY <1>6, <1>7 DEF Guarded
<1> QED BY <1>1, <1>4, <1>8 DEF InOrder

\* Where nobody splits, every directory has a row.
LEMMA AllHaveRows ==
  ASSUME TypeOK, Grown, Listed, \A n \in Node : wpc[n] = "idle"
  PROVE  planned = {} /\ \A n \in Node : n \in disk <=> row[n] # NoRow
<1>1. planned = {}
  <2> SUFFICES ASSUME NEW c \in planned PROVE FALSE
      OBVIOUS
  <2>1. Parent(c) \in disk /\ wpc[Parent(c)] = "splitting"
    BY DEF Grown, Continued, Listed
  <2>2. disk \subseteq Node
    BY DEF TypeOK
  <2> QED BY <2>1, <2>2
<1> QED BY <1>1 DEF Grown, Listed, RowsOnDisk

\* Then reconcile adopts and deletes nothing.
LEMMA StartInOrder ==
  ASSUME TypeOK, Grown, Placed, InOrder, Start
  PROVE  InOrder'
<1> USE DEF InOrder
<1>1. (\A n \in Node : wpc[n] = "idle") /\ wpc' = wpc /\ pc' = "select"
  BY DEF Start, workerVars, Placed, PhaseOK
<1>2. planned = {} /\ \A n \in Node : n \in disk <=> row[n] # NoRow
  BY <1>1, AllHaveRows
<1>3. Adopted(disk, row) = {} /\ Deleted(disk, row) = {}
  BY <1>2 DEF Adopted, Deleted, TypeOK
<1>4. deps' = deps
  BY <1>3 DEF Start, ReconciledDeps, TypeOK
<1>5. \A n \in Node : row'[n] = NoRow <=> row[n] = NoRow
  <2> SUFFICES ASSUME NEW n \in Node PROVE row'[n] = NoRow <=> row[n] = NoRow
      OBVIOUS
  <2>1. ReconciledRow(disk, row)[n] = NoRow <=> row[n] = NoRow
    BY <1>2, <1>3, NotPending DEF ReconciledRow, Repaired, Topology, TypeOK
  <2> QED BY <2>1, NotPending DEF Start, SetStatus
<1>6. Listed' /\ Undisturbed'
  <2>1. UNCHANGED <<disk, contract, deps, planned, wpc, steer, dirs, rows, retries, observers>>
    BY <1>1, <1>4 DEF Start, workerVars
  <2>2. Undisturbed'
    BY <2>1 DEF Undisturbed
  <2>3. Listed'
    BY <1>2, <1>5, <2>1 DEF Listed, TypeOK
  <2> QED BY <2>2, <2>3
<1>7. Guarded' /\ DeepestFirst'
  BY <1>1 DEF Guarded, DeepestFirst, Waiting, Active
<1> QED BY <1>6, <1>7

LEMMA SelectInOrder ==
  ASSUME TypeOK, Grown, Placed, InOrder, Select
  PROVE  InOrder'
<1> USE DEF InOrder
<1>1. \A n \in Node : wpc[n] = "idle"
  BY DEF Select, Placed, PhaseOK
<1>2. planned = {} /\ \A n \in Node : n \in disk <=> row[n] # NoRow
  BY <1>1, AllHaveRows
<1>3. Drained = row
  BY NothingQueued
<1> DEFINE batch == Chosen(row)
<1>4. /\ wpc' = [n \in Node |-> IF n \in batch THEN "queued" ELSE "idle"]
      /\ snap' = [n \in Node |-> IF n \in batch THEN Seen(row, n) ELSE PENDING]
      /\ UNCHANGED <<row, disk, contract, deps, planned>> /\ steer' = {}
      /\ UNCHANGED outsideVars
  BY <1>3 DEF Select
<1>5. ASSUME NEW n \in batch, Seen(row, n) = PENDING
      PROVE  n \in disk /\ \A d \in deps[n] : row[d] = COMPLETE /\ d \notin batch
  <2> DEFINE stale == StaleIds(disk, row, deps, fp, depFp)
             ready == {m \in disk : /\ Seen(row, m) = PENDING
                              /\ DepsSatisfied(m, disk, row, deps, stale)}
             agg == {m \in disk : Seen(row, m) = SPLIT /\ Aggregatable(m, disk, row, stale)}
  <2>1. batch \subseteq Ready(row)
    BY DEF Chosen, FirstOf
  <2>2. Ready(row) = IF stale # {} THEN stale ELSE IF ready # {} THEN ready ELSE agg
    BY Zenon DEF Ready, NextNodes
  <2>3. \A m \in stale : Seen(row, m) = COMPLETE
    BY DEF StaleIds
  <2>4. \A m \in agg : Seen(row, m) = SPLIT
    OBVIOUS
  <2>5. Ready(row) = ready
    <3> HIDE DEF stale, ready, agg
    <3> QED BY <1>5, <2>1, <2>2, <2>3, <2>4, NotPending
  <2>6. ASSUME NEW d \in deps[n] PROVE Seen(row, d) = COMPLETE
    BY <2>1, <2>5, <2>6 DEF DepsSatisfied
  <2>7. \A d : Seen(row, d) = COMPLETE => row[d] = COMPLETE /\ d \notin ready
    BY NotPending DEF Seen
  <2>8. n \in disk
    BY <2>1, <2>5
  <2> QED BY <2>1, <2>5, <2>6, <2>7, <2>8
<1> HIDE DEF batch
<1>6. Guarded'
  <2> SUFFICES ASSUME NEW n \in Node, Waiting(n)', NEW d \in contract'[n]
               PROVE  wpc'[d] = "idle" /\ row'[d] = COMPLETE
      BY DEF Guarded
  <2>1. n \in batch /\ Seen(row, n) = PENDING
    BY <1>4 DEF Waiting, Active
  <2>2. d \in deps[n] /\ d \in Node
    BY <1>2, <1>4, <1>5, <2>1 DEF Listed, TypeOK
  <2> QED BY <1>4, <1>5, <2>1, <2>2
<1>7. DeepestFirst'
  BY <1>4 DEF DeepestFirst, Active
<1>8. Listed' /\ Undisturbed'
  BY <1>2, <1>4 DEF Listed, Undisturbed, outsideVars
<1> QED BY <1>6, <1>7, <1>8

LEMMA OthersInOrder ==
  ASSUME TypeOK, Grown, Placed, InOrder, Alone,
         \/ Start \/ Loop
         \/ \E n \in Node : Integration(n) \/ UserRetry(n)
         \/ Crash \/ Interrupt \/ Observe \/ Read \/ Repair
  PROVE  InOrder'
<1> USE DEF InOrder, storeVars, gitVars, workerVars, runVars, outsideVars
<1>1. CASE Start
  BY <1>1, StartInOrder
<1>2. CASE Select
  BY <1>2, SelectInOrder
<1>3. CASE Finish \/ Wait
  <2>3. Drained = row
    BY NothingQueued
  <2>4. /\ UNCHANGED <<disk, contract, deps, row, planned, wpc, snap, outsideVars>>
        /\ steer' \in {steer, {}} /\ pc' \in {"done", "select"}
    BY <1>3, <2>3 DEF Finish, Wait
  <2>5. Undisturbed' /\ Listed'
    BY <2>4 DEF Undisturbed, Listed
  <2>6. Guarded' /\ DeepestFirst'
    BY <2>4 DEF Guarded, DeepestFirst, Waiting, UnderReview, Batch
  <2> QED BY <2>5, <2>6
<1>4. CASE Join
  <2>1. Undisturbed' /\ Listed' /\ Guarded'
    BY <1>4 DEF Join, Undisturbed, Listed, Guarded, Waiting, UnderReview, Batch
  <2>2. DeepestFirst'
    BY <1>4 DEF Join, DeepestFirst
  <2> QED BY <2>1, <2>2
<1>5. ASSUME NEW n \in Node, Integration(n) PROVE InOrder'
  <2>1. /\ pc = "integrate" /\ pc' = pc
        /\ UNCHANGED <<disk, contract, deps, planned, steer, outsideVars>>
    BY <1>5 DEF Integration, Pick, Conclude, Conflict, Turn, Retire, Release
  <2>2. \A m \in Node : /\ wpc[m] \in {"idle", "done", "picked"}
                        /\ wpc'[m] \in {"idle", "done", "picked"}
    BY <1>5, <2>1
       DEF Integration, Pick, Conclude, Conflict, Step, Retire, Release, TypeOK, Placed, PhaseOK
  <2>3. planned = {}
    <3> SUFFICES ASSUME NEW c \in planned PROVE FALSE
        OBVIOUS
    <3>1. Parent(c) \in Node /\ wpc[Parent(c)] = "splitting"
      BY DEF Grown, Continued, Listed, TypeOK
    <3> QED BY <2>2, <3>1
  <2>4. \A m \in Node : row'[m] = NoRow <=> row[m] = NoRow
    BY <1>5, NotPending DEF Integration, Pick, Conclude, Conflict, Landed, SetStatus
  <2>5. Listed' /\ Undisturbed'
    BY <2>1, <2>3, <2>4 DEF Listed, Undisturbed, TypeOK
  <2>6. Guarded' /\ DeepestFirst'
    BY <2>1, <2>2 DEF Guarded, DeepestFirst, Waiting, Active
  <2> QED BY <2>5, <2>6
<1>6. ASSUME NEW n \in Node PROVE ~UserRetry(n)
  BY DEF UserRetry, Alone, Undisturbed
<1>7. ~Crash /\ ~Observe /\ ~Read /\ ~Repair
  BY DEF Crash, Observe, Read, Repair, Alone, Undisturbed
<1>8. CASE Interrupt
  BY <1>8 DEF Interrupt, Undisturbed, Listed, Guarded, DeepestFirst, Waiting, UnderReview, Batch
<1> QED BY <1>1, <1>2, <1>3, <1>4, <1>5, <1>6, <1>7, <1>8 DEF Loop

\* No node starts on, or goes on with, its first acceptance before what its contract
\* depends on is accepted, but for an ancestor of the same batch that reopens it: by
\* next_nodes, the order of a serial batch, batch_is_independent and the worker's guards.
THEOREM DependenciesComeFirst == Alone => (Spec => []DependenciesFirst)
<1> SUFFICES ASSUME Alone PROVE Spec => []DependenciesFirst
    OBVIOUS
<1>1. Init => InOrder /\ Placed
  <2> SUFFICES ASSUME Init PROVE InOrder /\ Placed
      OBVIOUS
  <2>1. Undisturbed /\ Guarded /\ DeepestFirst
    BY DEF Init, Undisturbed, Guarded, DeepestFirst, Waiting, Active
  <2>2. Listed
    BY NodesAreIds DEF Init, Listed, PENDING, NoRow
  <2>3. Placed
    BY DEF Init, Placed, PhaseOK, Sheltered, NoLeakedWorktree, Active
  <2> QED BY <2>1, <2>2, <2>3 DEF InOrder
<1>2. TypeOK /\ Grown /\ Placed /\ InOrder /\ [Next]_vars => (Grown /\ Placed /\ InOrder)'
  <2> SUFFICES ASSUME TypeOK, Grown, Placed, InOrder, [Next]_vars
               PROVE  (Grown /\ Placed /\ InOrder)'
      OBVIOUS
  <2>1. CASE UNCHANGED vars
    <3> USE DEF vars, storeVars, gitVars, workerVars, runVars, outsideVars
    <3>1. Grown'
      BY <2>1 DEF Grown, Shaped, Continued, RowsOnDisk
    <3>2. Placed'
      BY <2>1 DEF Placed, PhaseOK, Sheltered, NoLeakedWorktree, Batch
    <3>3. InOrder'
      BY <2>1 DEF InOrder, Undisturbed, Listed, Guarded, DeepestFirst, Waiting, UnderReview, Batch
    <3> QED BY <3>1, <3>2, <3>3
  <2>2. CASE Next
    <3>1. ASSUME NEW n \in Node, Worker(n) PROVE (Grown /\ Placed /\ InOrder)'
      BY <3>1, WorkerGrows, WorkerPlaced, WorkerInOrder
    <3> QED BY <2>2, <3>1, OthersGrow, OthersPlaced, OthersInOrder DEF Next
  <2> QED BY <2>1, <2>2
<1>3. InOrder => DependenciesFirst
  BY DEF InOrder, Guarded, Waiting, DependenciesFirst
<1> QED BY <1>1, <1>2, <1>3, InitGrown, TypeCorrect, PTL DEF Spec

-----------------------------------------------------------------------------
(* The refinement of Delivery, while nobody reopens or retries a node or looks   *)
(* on.  Crashes, conflicts, interrupts and a git that refuses are included.      *)

Upward == "reopen" \notin Verbs /\ MaxRetries = 0 /\ MaxObservers = 0

\* A node that never ran, or whose row is missing, has no children: a split makes
\* its children below a running node.
Leafy == \A n \in disk : row[n] \in {PENDING, NoRow} => Kids(n) \cap disk = {}

\* During a run only what a split is inserting lacks a row.
Adoptable ==
  /\ pc # "down" => \A n \in disk : row[n] = NoRow => n \in planned
  /\ \A c \in planned : row[c] = NoRow /\ wpc[Parent(c)] = "splitting"

\* The row of a node at work.
Marked == \A n \in Node :
  /\ wpc[n] \in {"running", "splitting", "delivered"} => row[n] = RUNNING
  /\ wpc[n] # "idle" => row[n] # NoRow

Branched == pc # "down" => \A n \in branch : wpc[n] = "done"

\* A node that has been started depends on accepted nodes only.
Based == \A n \in Node :
  wpc[n] # "idle" \/ row[n] \notin {NoRow, PENDING} => deps[n] \subseteq Accepted

\* n is, or may yet be, complete without running again: then its children are accepted.
Sound(n) ==
  \/ wpc[n] \in {"queued", "picked"} \cup (Active \ {"splitting"})
  \/ wpc[n] = "done" /\ n \in branch
  \/ row[n] = COMPLETE

Founded == \A n \in Node : Sound(n) => Kids(n) \cap disk \subseteq Accepted

Upright == Undisturbed /\ Leafy /\ Adoptable /\ Marked /\ Branched /\ Based /\ Founded

\* What a step may do to the acceptances.
Rises ==
  /\ Accepted \subseteq Accepted'
  /\ \A n \in Node : Sound(n)' => Kids(n) \cap disk \subseteq Accepted

\* The statuses differ from each other.
LEMMA AllDiffer ==
  /\ PENDING \notin {RUNNING, SPLIT, COMPLETE, FAILED, NoRow}
  /\ RUNNING \notin {SPLIT, COMPLETE, FAILED, NoRow}
  /\ SPLIT \notin {COMPLETE, FAILED, NoRow}
  /\ COMPLETE \notin {FAILED, NoRow} /\ FAILED # NoRow
BY DEF PENDING, RUNNING, SPLIT, COMPLETE, FAILED, NoRow

\* Nor does anybody reset, repair or reopen anything.
LEMMA NobodyLooks ==
  ASSUME Undisturbed, Upward
  PROVE  ~Observe /\ ~Read /\ ~Repair /\ \A n \in Node : ~UserRetry(n) /\ ~Reopen(n)
BY DEF Undisturbed, Upward, Observe, Read, Repair, UserRetry, Reopen

\* An acceptance stands while the node, and what it depends on, are left alone.
LEMMA AcceptedStay ==
  ASSUME TypeOK, Based, disk \subseteq disk',
         \A m \in Accepted : /\ row'[m] = row[m] /\ deps'[m] = deps[m] /\ depFp'[m] = depFp[m]
                             /\ fp'[m] = fp[m] /\ wpc'[m] = "idle"
  PROVE  Accepted \subseteq Accepted'
<1> SUFFICES ASSUME NEW m \in Accepted PROVE m \in Accepted'
    OBVIOUS
<1>1. m \in disk /\ row[m] = COMPLETE /\ wpc[m] = "idle" /\ m \notin Stale
  BY DEF Accepted
<1>2. deps[m] \subseteq Accepted
  BY <1>1, AllDiffer DEF Based, TypeOK
<1>3. \A d \in deps[m] : d \in disk /\ fp'[d] = fp[d]
  BY <1>2 DEF Accepted
<1>4. \A d \in deps[m] : <<d, fp[d]>> \in depFp[m]
  BY <1>1, <1>3, AllDiffer DEF Stale, StaleIds, Seen
<1>5. m \notin Stale'
  BY <1>3, <1>4 DEF Stale, StaleIds
<1> QED BY <1>1, <1>5 DEF Accepted

\* What a worker leaves alone, and the only way it touches another node: it gives a
\* planned child its row.
LEMMA WorkerChanges ==
  ASSUME TypeOK, Placed, Upright, Upward, NEW n \in Node, Worker(n)
  PROVE  /\ wpc[n] \in {"queued"} \cup Active /\ pc # "down" /\ pc' = pc
         /\ \A m \in Node \ {n} : wpc'[m] = wpc[m] /\ fp'[m] = fp[m] /\ depFp'[m] = depFp[m]
         /\ \A m \in Node \ {n} : m \in branch' <=> m \in branch
         /\ deps'[n] = deps[n]
         /\ \A m \in Node \ {n} :
              \/ row'[m] = row[m] /\ deps'[m] = deps[m]
              \/ row[m] = NoRow /\ row'[m] = PENDING /\ m \in disk
<1> USE DEF TypeOK, Upright, storeVars, gitVars, runVars, outsideVars, workerVars, Active
<1>0. ~Reopen(n)
  BY NobodyLooks
<1>1. wpc[n] \in {"queued"} \cup Active
  BY DEF Worker, Begin, Edit, Split, Materialise, Insert, SplitDone, Deliver,
         MarkComplete, Record, Hold, Commit, Fail, Checkpoint, Reopen, Abandon, Step
<1>2. pc # "down" /\ pc' = pc
  <2>1. pc # "down"
    BY <1>1 DEF Placed, PhaseOK
  <2>2. pc' = pc
    BY DEF Worker, Begin, Edit, Split, Materialise, Insert, SplitDone, Deliver,
           MarkComplete, Record, Hold, Commit, Fail, Checkpoint, Reopen, Abandon
  <2> QED BY <2>1, <2>2
<1>3. \A m \in Node \ {n} : wpc'[m] = wpc[m]
  BY DEF Worker, Begin, Edit, Split, Materialise, Insert, SplitDone, Deliver,
         MarkComplete, Record, Hold, Commit, Fail, Checkpoint, Reopen, Abandon,
         Step, Return, Release
<1>4. \A m \in Node \ {n} : /\ fp'[m] = fp[m] /\ depFp'[m] = depFp[m]
                            /\ m \in branch' <=> m \in branch
  BY DEF Worker, Begin, Edit, Split, Materialise, Insert, SplitDone, Deliver,
         MarkComplete, Record, Hold, Commit, CommitEdits, Fail, Checkpoint, Reopen, Abandon
<1>5. CASE Insert(n)
  <2>1. PICK c \in Eldest(Unlisted(n)) :
          IF row[c] # NoRow THEN UNCHANGED <<row, deps>>
          ELSE /\ row' = [row EXCEPT ![c] = PENDING]
               /\ deps' = [deps EXCEPT ![c] = contract[c]]
    BY <1>5 DEF Insert
  <2>2. c \in planned /\ c \in disk /\ c \in Node /\ row[c] = NoRow
    BY <1>5 DEF Insert, Unmade, Unlisted, Eldest, Adoptable
  <2>3. c # n
    BY <1>5, <2>2, AllDiffer DEF Insert, Marked
  <2> QED BY <1>1, <1>2, <1>3, <1>4, <2>1, <2>2, <2>3
<1>6. CASE ~Insert(n)
  <2>1. deps' = deps
    BY <1>6 DEF Worker, Begin, Edit, Split, Materialise, SplitDone, Deliver,
           MarkComplete, Record, Hold, Commit, Fail, Checkpoint, Reopen, Abandon
  <2>2. row' = row \/ \E st : row' = SetStatus(row, {n}, st)
    BY <1>0, <1>6 DEF Worker, Begin, Edit, Split, Materialise, SplitDone, Deliver,
           MarkComplete, Record, Hold, Held, Commit, Fail, Checkpoint, Abandon
  <2>3. \A m \in Node \ {n} : row'[m] = row[m]
    BY <2>2 DEF SetStatus
  <2> QED BY <1>1, <1>2, <1>3, <1>4, <2>1, <2>3
<1> QED BY <1>5, <1>6

\* The row of the worker's own node follows its place.
LEMMA WorkerOwnRow ==
  ASSUME TypeOK, Placed, Upright, Upward, NEW n \in Node, Worker(n)
  PROVE  /\ row'[n] # NoRow
         /\ row'[n] = PENDING => row[n] = PENDING
         /\ wpc'[n] \in {"running", "splitting", "delivered"} => row'[n] = RUNNING
         /\ wpc'[n] = "splitting" => wpc[n] \in {"running", "splitting"}
         /\ wpc[n] = "splitting" => \/ wpc'[n] = "splitting"
                                    \/ wpc'[n] \in {"idle", "done"} /\ row'[n] = SPLIT
         /\ wpc'[n] # "picked"
         /\ n \in branch' => wpc'[n] = "done" /\ wpc[n] # "splitting"
<1> USE DEF TypeOK, Upright, storeVars, gitVars, runVars, outsideVars, workerVars, Active
<1>0. wpc[n] \in {"queued"} \cup Active /\ n \notin branch
  BY WorkerChanges DEF Branched
<1>1. row[n] # NoRow /\ \A st : SetStatus(row, {n}, st)[n] = st
  BY <1>0 DEF Marked, SetStatus
<1>a. CASE Begin(n)
  BY <1>0, <1>1, <1>a, AllDiffer DEF Begin, Step, Return, Release
<1>b. CASE Edit(n) \/ Split(n) \/ Materialise(n)
  BY <1>0, <1>1, <1>b, AllDiffer DEF Edit, Split, Materialise, Step, Marked
<1>c. CASE Insert(n)
  <2>1. row'[n] = row[n] \/ row[n] = NoRow
    BY <1>c DEF Insert
  <2> QED BY <1>0, <1>1, <1>c, <2>1, AllDiffer DEF Insert, Marked
<1>d. CASE SplitDone(n)
  BY <1>0, <1>1, <1>d, AllDiffer DEF SplitDone, Return, Release
<1>e. CASE Deliver(n) \/ MarkComplete(n) \/ Record(n) \/ Hold(n)
  BY <1>0, <1>1, <1>e, AllDiffer DEF Deliver, MarkComplete, Record, Hold, Held, Step, Marked
<1>f. CASE Commit(n)
  BY <1>0, <1>1, <1>f, AllDiffer DEF Commit, CommitEdits, Return, Release
<1>g. CASE Fail(n) \/ Checkpoint(n) \/ Abandon(n)
  BY <1>0, <1>1, <1>g, AllDiffer DEF Fail, Checkpoint, CommitEdits, Abandon, Return, Release
<1>h. ~Reopen(n)
  BY NobodyLooks
<1> QED BY <1>a, <1>b, <1>c, <1>d, <1>e, <1>f, <1>g, <1>h DEF Worker

\* What a split plans and makes.
LEMMA WorkerPlans ==
  ASSUME TypeOK, Grown, Placed, Upright, Upward, NEW n \in Node, Worker(n)
  PROVE  /\ disk \subseteq disk'
         /\ \A c \in disk' \ disk : c \in planned \cap Kids(n) /\ wpc[n] = "splitting"
         /\ Adoptable'
<1> USE DEF TypeOK, Upright, storeVars, gitVars, runVars, outsideVars, workerVars
<1>0. /\ wpc[n] \in {"queued"} \cup Active /\ pc # "down"
      /\ \A m \in Node \ {n} : /\ wpc'[m] = wpc[m]
                               /\ row'[m] = row[m] \/ (row[m] = NoRow /\ row'[m] = PENDING)
      /\ row'[n] # NoRow
  BY WorkerChanges, WorkerOwnRow
<1>p. \A c \in planned : c \in Node /\ c # Root /\ Parent(c) \in Node
  BY DEF Grown, Continued
<1>1. CASE Split(n)
  <2>1. PICK new \in NewKids(n) : planned' = planned \cup new
    BY <1>1 DEF Split
  <2>2. new \subseteq Kids(n) /\ new \cap disk = {}
    BY DEF NewKids
  <2>3. UNCHANGED <<disk, row>> /\ wpc'[n] = "splitting"
    BY <1>1 DEF Split, Step
  <2>4. \A c \in new : row[c] = NoRow /\ Parent(c) = n
    BY <2>2 DEF Kids, Grown, RowsOnDisk
  <2>5. Adoptable'
    BY <1>0, <1>p, <2>1, <2>3, <2>4 DEF Adoptable
  <2> QED BY <2>3, <2>5
<1>2. CASE Materialise(n)
  <2>1. Eldest(Unmade(n)) \subseteq planned \cap Kids(n)
    BY DEF Eldest, Unmade
  <2>2. Adoptable'
    BY <1>2, <2>1 DEF Materialise, Adoptable
  <2> QED BY <1>2, <2>1, <2>2 DEF Materialise
<1>3. CASE Insert(n)
  <2>1. PICK c \in Eldest(Unlisted(n)) :
          /\ planned' = planned \ {c}
          /\ IF row[c] # NoRow THEN UNCHANGED <<row, deps>>
             ELSE row' = [row EXCEPT ![c] = PENDING]
    BY <1>3 DEF Insert
  <2>2. c \in planned /\ c \in Node
    BY DEF Eldest, Unlisted
  <2>3. row' = [row EXCEPT ![c] = PENDING] /\ UNCHANGED <<disk, wpc>>
    BY <1>3, <2>1, <2>2 DEF Insert, Adoptable
  <2>4. Adoptable'
    BY <1>0, <2>1, <2>2, <2>3, AllDiffer DEF Adoptable
  <2> QED BY <2>3, <2>4
<1>4. CASE ~Split(n) /\ ~Materialise(n) /\ ~Insert(n)
  <2>1. UNCHANGED <<disk, planned>>
    BY <1>4 DEF Worker, Begin, Edit, SplitDone, Deliver, MarkComplete, Record, Hold, Commit,
                Fail, Checkpoint, Reopen, Abandon, Step, Return, Release
  <2>2. ~Reopen(n)
    BY NobodyLooks
  <2>3. \A m \in Node : row'[m] = NoRow <=> row[m] = NoRow
    <3>1. row' = row \/ \E st \in Status : row' = SetStatus(row, {n}, st)
      BY <1>4, <2>2, NotPending
         DEF Worker, Begin, Edit, SplitDone, Deliver, MarkComplete, Record, Hold, Held, Commit,
             Fail, Checkpoint, Abandon
    <3> QED BY <3>1, RowsStay
  <2>4. ASSUME NEW c \in planned PROVE wpc'[Parent(c)] = "splitting"
    <3>1. wpc[Parent(c)] = "splitting"
      BY DEF Adoptable
    <3>2. CASE Parent(c) # n
      BY <1>0, <1>p, <3>1, <3>2
    <3>3. CASE Parent(c) = n
      <4>1. c \in Unlisted(n)
        BY <1>p, <3>3 DEF Unlisted, Kids
      <4>2. ~SplitDone(n)
        BY <4>1 DEF SplitDone
      <4> QED BY <1>4, <2>2, <3>1, <3>3, <4>2
           DEF Worker, Begin, Edit, Deliver, MarkComplete, Record, Hold, Commit,
               Fail, Checkpoint, Abandon, Step
    <3> QED BY <3>2, <3>3
  <2>5. Adoptable'
    BY <1>0, <2>1, <2>3, <2>4 DEF Adoptable
  <2> QED BY <2>1, <2>5
<1> QED BY <1>1, <1>2, <1>3, <1>4

LEMMA WorkerUpright ==
  ASSUME TypeOK, Grown, Placed, Upright, Upward, NEW n \in Node, Worker(n)
  PROVE  Upright' /\ Rises
<1> USE DEF TypeOK, Upright
<1>1. /\ wpc[n] \in {"queued"} \cup Active /\ pc # "down" /\ pc' = pc
      /\ \A m \in Node \ {n} : wpc'[m] = wpc[m] /\ fp'[m] = fp[m] /\ depFp'[m] = depFp[m]
      /\ \A m \in Node \ {n} : m \in branch' <=> m \in branch
      /\ deps'[n] = deps[n]
      /\ \A m \in Node \ {n} :
           \/ row'[m] = row[m] /\ deps'[m] = deps[m]
           \/ row[m] = NoRow /\ row'[m] = PENDING /\ m \in disk
  BY WorkerChanges
<1>2. /\ row'[n] # NoRow
      /\ row'[n] = PENDING => row[n] = PENDING
      /\ wpc'[n] \in {"running", "splitting", "delivered"} => row'[n] = RUNNING
      /\ wpc'[n] = "splitting" => wpc[n] \in {"running", "splitting"}
      /\ wpc[n] = "splitting" => \/ wpc'[n] = "splitting"
                                 \/ wpc'[n] \in {"idle", "done"} /\ row'[n] = SPLIT
      /\ wpc'[n] # "picked"
      /\ n \in branch' => wpc'[n] = "done" /\ wpc[n] # "splitting"
  BY WorkerOwnRow
<1>3. /\ disk \subseteq disk'
      /\ \A c \in disk' \ disk : c \in planned \cap Kids(n) /\ wpc[n] = "splitting"
      /\ Adoptable'
  BY WorkerPlans
<1>4. branch' \subseteq Node /\ disk' \subseteq Node
  BY <1>3, WorkerType
<1>5. wpc[n] # "idle" /\ n \notin Accepted
  BY <1>1 DEF Active, Accepted
<1>6. Accepted \subseteq Accepted'
  <2>1. ASSUME NEW m \in Accepted
        PROVE  /\ row'[m] = row[m] /\ deps'[m] = deps[m] /\ depFp'[m] = depFp[m]
               /\ fp'[m] = fp[m] /\ wpc'[m] = "idle"
    <3>1. m \in Node \ {n} /\ row[m] = COMPLETE /\ wpc[m] = "idle"
      BY <1>5 DEF Accepted
    <3> QED BY <1>1, <3>1, AllDiffer
  <2> QED BY <1>3, <2>1, AcceptedStay
<1>7. Undisturbed'
  BY DEF Undisturbed, Worker, Begin, Edit, Split, Materialise, Insert, SplitDone, Deliver,
         MarkComplete, Record, Hold, Commit, Fail, Checkpoint, Reopen, Abandon,
         storeVars, outsideVars
<1>8. Leafy'
  <2> SUFFICES ASSUME NEW m \in disk', row'[m] \in {PENDING, NoRow}, NEW k \in Kids(m) \cap disk'
               PROVE  FALSE
      BY DEF Leafy
  <2>1. m \in Node /\ k \in Node /\ k # Root /\ Parent(k) = m
    BY <1>4 DEF Kids
  <2>2. m = n => row[n] = PENDING
    BY <1>2, AllDiffer
  <2>3. m # n => row[m] \in {PENDING, NoRow}
    BY <1>1, <2>1
  <2>4. CASE k \in disk
    <3>1. m \in disk
      BY <2>1, <2>4 DEF Grown, Shaped
    <3> QED BY <2>2, <2>3, <2>4, <3>1 DEF Leafy
  <2>5. CASE k \notin disk
    <3>1. m = n /\ wpc[n] = "splitting"
      BY <1>3, <2>1, <2>5 DEF Kids
    <3> QED BY <2>2, <3>1, AllDiffer DEF Marked
  <2> QED BY <2>4, <2>5
<1>9. Marked'
  BY <1>1, <1>2, AllDiffer DEF Marked
<1>10. Branched'
  BY <1>1, <1>2, <1>4 DEF Branched
<1>11. Based'
  <2> SUFFICES ASSUME NEW m \in Node, wpc'[m] # "idle" \/ row'[m] \notin {NoRow, PENDING}
               PROVE  deps'[m] \subseteq Accepted
      BY <1>6 DEF Based
  <2>1. CASE m = n
    BY <1>1, <1>5, <2>1 DEF Based
  <2>2. CASE m # n
    BY <1>1, <2>2 DEF Based, Marked
  <2> QED BY <2>1, <2>2
<1>12. ASSUME NEW m \in Node, Sound(m)' PROVE Sound(m) /\ Kids(m) \cap disk' \subseteq disk
  <2>1. CASE m = n
    BY <1>1, <1>2, <1>3, <1>12, <2>1, AllDiffer DEF Sound, Active
  <2>2. CASE m # n
    <3>1. Sound(m)
      BY <1>1, <1>12, <2>2, AllDiffer DEF Sound
    <3>2. Kids(m) \cap disk' \subseteq disk
      BY <1>3, <2>2 DEF Kids
    <3> QED BY <3>1, <3>2
  <2> QED BY <2>1, <2>2
<1>13. Founded'
  BY <1>6, <1>12 DEF Founded
<1>14. Rises
  BY <1>6, <1>12 DEF Rises, Founded
<1> QED BY <1>3, <1>7, <1>8, <1>9, <1>10, <1>11, <1>13, <1>14

\* Integration makes complete only what its worker had finished.
LEMMA IntegrationUpright ==
  ASSUME TypeOK, Grown, Placed, Upright, NEW n \in Node, Integration(n)
  PROVE  Upright' /\ Rises
<1> USE DEF TypeOK, Upright
<1>1. /\ wpc[n] \in {"done", "picked"} /\ pc' = pc
      /\ UNCHANGED <<disk, fp, deps, depFp, planned, steer, dirs, rows, retries, observers>>
      /\ \A m \in Node \ {n} : row'[m] = row[m] /\ wpc'[m] = wpc[m]
      /\ branch' = branch \ {n}
  <2> USE DEF Step, Retire, Release, storeVars, outsideVars, runVars
  <2>1. \A r, st : \A m \in Node \ {n} : SetStatus(r, {n}, st)[m] = r[m]
    BY DEF SetStatus
  <2>2. CASE Pick(n)
    BY <2>2 DEF Pick
  <2>3. CASE Conclude(n)
    BY <2>1, <2>3 DEF Conclude, Landed, Placed, Sheltered
  <2>4. CASE Conflict(n)
    BY <2>1, <2>4 DEF Conflict
  <2> QED BY <2>2, <2>3, <2>4 DEF Integration
<1>2. row[n] # NoRow /\ \A st : SetStatus(row, {n}, st)[n] = st
  BY <1>1 DEF Marked, SetStatus
<1>3. /\ wpc'[n] \in {"idle", "picked"}
      /\ row'[n] \in {row[n], COMPLETE, FAILED}
      /\ wpc'[n] = "picked" => wpc[n] = "done" /\ n \in branch
      /\ row'[n] = COMPLETE => Sound(n)
  BY <1>1, <1>2, AllDiffer
     DEF Integration, Pick, Conclude, Conflict, Step, Retire, Release, Landed, Sound, storeVars
<1>4. Accepted \subseteq Accepted'
  <2>1. n \notin Accepted /\ Accepted \subseteq Node
    BY <1>1 DEF Accepted
  <2> QED BY <1>1, <2>1, AcceptedStay DEF Accepted
<1>5. Undisturbed'
  BY <1>1 DEF Undisturbed
<1>6. Leafy' /\ Adoptable'
  <2>1. \A m \in Node : row'[m] \in {PENDING, NoRow} => row'[m] = row[m]
    BY <1>1, <1>3, AllDiffer
  <2>2. \A c \in planned : c \in Node /\ Parent(c) \in Node \ {n} /\ c # n
    BY <1>1, <1>2 DEF Adoptable, Grown, Continued
  <2>3. Leafy'
    BY <1>1, <2>1 DEF Leafy
  <2>4. Adoptable'
    BY <1>1, <1>2, <1>3, <2>2, AllDiffer DEF Adoptable
  <2> QED BY <2>3, <2>4
<1>7. Marked' /\ Branched'
  BY <1>1, <1>2, <1>3, AllDiffer DEF Marked, Branched
<1>8. \A m \in Node : Sound(m)' => Sound(m)
  BY <1>1, <1>3, AllDiffer DEF Sound, Active
<1>9. Based' /\ Founded'
  BY <1>1, <1>2, <1>3, <1>4, <1>8, AllDiffer DEF Based, Founded
<1>10. Rises
  BY <1>4, <1>8 DEF Rises, Founded
<1> QED BY <1>5, <1>6, <1>7, <1>9, <1>10

\* Between batches and between runs nobody is at work and no split is open.
LEMMA Quiet ==
  ASSUME TypeOK, Grown, Placed, Upright, pc \in {"down", "select", "done"}
  PROVE  /\ planned = {} /\ \A n \in Node : wpc[n] = "idle"
         /\ pc # "down" => branch = {} /\ \A n \in disk : row[n] # NoRow
<1>1. \A n \in Node : wpc[n] = "idle"
  BY DEF Placed, PhaseOK
<1>2. planned = {}
  BY <1>1 DEF Upright, Adoptable, Grown, Continued, TypeOK
<1> QED BY <1>1, <1>2 DEF Upright, Adoptable, Branched, TypeOK

\* A new run adopts leaves as pending nodes, and turns what was running back into a
\* pending leaf or a split node.
LEMMA StartUpright ==
  ASSUME TypeOK, Grown, Placed, Upright, Start
  PROVE  Upright' /\ Rises
<1> USE DEF TypeOK, Upright
<1>1. planned = {} /\ \A n \in Node : wpc[n] = "idle"
  BY Quiet DEF Start
<1>2. /\ UNCHANGED <<disk, fp, planned, wpc, steer, dirs, rows, retries, observers>>
      /\ pc' = "select" /\ branch' = {}
  BY DEF Start, workerVars
<1>3. Deleted(disk, row) = {}
  BY DEF Deleted, Grown, RowsOnDisk
<1>4. ASSUME NEW n \in Node
      PROVE  LET now == ReconciledRow(disk, row)[n]
             IN  /\ n \notin disk => now = NoRow
                 /\ n \in disk => now = IF row[n] = NoRow THEN PENDING
                                        ELSE IF row[n] = RUNNING THEN Topology(n)
                                        ELSE row[n]
                 /\ n \in disk /\ row[n] # NoRow =>
                      deps'[n] = deps[n] /\ depFp'[n] = depFp[n]
  <2>1. CASE n \notin disk
    BY <1>3, <2>1 DEF ReconciledRow, Adopted, Repaired, Grown, RowsOnDisk
  <2>2. CASE n \in disk /\ row[n] \in {NoRow, PENDING}
    <3>1. Topology(n) = PENDING
      BY <2>2 DEF Topology, Leafy
    <3> QED BY <1>3, <2>2, <3>1, AllDiffer
            DEF Start, ReconciledRow, ReconciledDeps, ReconciledDepFp, Adopted, Repaired
  <2>3. CASE n \in disk /\ row[n] \notin {NoRow, PENDING}
    <3>1. Topology(n) # RUNNING
      BY AllDiffer DEF Topology
    <3> QED BY <1>3, <2>3, <3>1, AllDiffer
            DEF Start, ReconciledRow, ReconciledDeps, ReconciledDepFp, Adopted, Repaired
  <2> QED BY <2>1, <2>2, <2>3
<1>5. ASSUME NEW n \in Node
      PROVE  /\ n \notin disk => row'[n] = NoRow
             /\ n \in disk => row'[n] = IF row[n] = NoRow THEN PENDING
                                        ELSE IF row[n] = RUNNING THEN Topology(n)
                                        ELSE row[n]
  <2>1. ReconciledRow(disk, row)[n] # RUNNING
    BY <1>4, AllDiffer DEF Topology
  <2>2. row'[n] = ReconciledRow(disk, row)[n]
    BY <2>1 DEF Start, SetStatus
  <2> QED BY <1>4, <2>2
<1>6. \A n \in Node : row'[n] = COMPLETE <=> row[n] = COMPLETE
  BY <1>5, AllDiffer DEF Topology, Grown, RowsOnDisk
<1>7. Accepted \subseteq Accepted'
  <2>1. ASSUME NEW m \in Accepted
        PROVE  /\ row'[m] = row[m] /\ deps'[m] = deps[m] /\ depFp'[m] = depFp[m]
               /\ fp'[m] = fp[m] /\ wpc'[m] = "idle"
    <3>1. m \in disk /\ m \in Node /\ row[m] = COMPLETE /\ wpc[m] = "idle"
      BY DEF Accepted
    <3> QED BY <1>2, <1>4, <1>6, <3>1, AllDiffer
  <2> QED BY <1>2, <2>1, AcceptedStay
<1>8. Undisturbed' /\ Adoptable' /\ Marked' /\ Branched'
  BY <1>1, <1>2, <1>5, AllDiffer DEF Undisturbed, Adoptable, Marked, Branched, Topology
<1>9. Leafy'
  BY <1>2, <1>5, AllDiffer DEF Leafy, Topology
<1>10. Based'
  <2> SUFFICES ASSUME NEW m \in Node, row'[m] \notin {NoRow, PENDING}
               PROVE  deps'[m] \subseteq Accepted
      BY <1>1, <1>2, <1>7 DEF Based
  <2>1. m \in disk /\ row[m] \notin {NoRow, PENDING}
    BY <1>5, AllDiffer
  <2> QED BY <1>4, <2>1 DEF Based
<1>11. Founded' /\ Rises
  BY <1>1, <1>2, <1>6, <1>7 DEF Founded, Rises, Sound, Active
<1> QED BY <1>8, <1>9, <1>10, <1>11

\* What next_nodes selects is not accepted, and its dependencies and children are.
LEMMA ChosenFounded ==
  ASSUME TypeOK, Upright, \A n \in Node : wpc[n] = "idle", \A n \in disk : row[n] # NoRow,
         NEW n \in Chosen(row)
  PROVE  /\ n \in disk /\ row[n] # NoRow /\ n \notin Accepted
         /\ deps[n] \subseteq Accepted /\ Kids(n) \cap disk \subseteq Accepted
<1> DEFINE stale == StaleIds(disk, row, deps, fp, depFp)
           ready == {m \in disk : /\ Seen(row, m) = PENDING
                              /\ DepsSatisfied(m, disk, row, deps, stale)}
           agg == {m \in disk : Seen(row, m) = SPLIT /\ Aggregatable(m, disk, row, stale)}
<1>1. n \in Ready(row)
  BY DEF Chosen, FirstOf
<1>2. Ready(row) = IF stale # {} THEN stale ELSE IF ready # {} THEN ready ELSE agg
  BY Zenon DEF Ready, NextNodes
<1>3. n \in stale \/ n \in ready \/ n \in agg
  <2> HIDE DEF stale, ready, agg
  <2> QED BY <1>1, <1>2
<1>4. \A m \in disk : Seen(row, m) = row[m] /\ m \in Node
  BY DEF Seen, TypeOK
<1>5. \A m \in disk : row[m] = COMPLETE /\ m \notin stale => m \in Accepted
  BY <1>4 DEF Accepted, Stale
<1>6. CASE n \in stale
  <2>1. n \in disk /\ row[n] = COMPLETE /\ n \notin Accepted
    BY <1>4, <1>6 DEF StaleIds, Accepted, Stale
  <2>2. deps[n] \subseteq Accepted
    BY <1>4, <2>1, AllDiffer DEF Upright, Based
  <2>3. Kids(n) \cap disk \subseteq Accepted
    BY <1>4, <2>1 DEF Upright, Founded, Sound
  <2> QED BY <2>1, <2>2, <2>3, AllDiffer
<1>7. CASE n \in ready
  <2>1. n \in disk /\ row[n] = PENDING /\ n \notin Accepted
    BY <1>4, <1>7, AllDiffer DEF Accepted
  <2>2. deps[n] \subseteq Accepted
    <3>1. \A d \in deps[n] : d \in disk /\ Seen(row, d) = COMPLETE /\ d \notin stale
      BY <1>7 DEF DepsSatisfied
    <3> HIDE DEF stale
    <3> QED BY <1>4, <1>5, <3>1
  <2>3. Kids(n) \cap disk = {}
    BY <2>1 DEF Upright, Leafy
  <2> QED BY <2>1, <2>2, <2>3, AllDiffer
<1>8. CASE n \in agg
  <2>1. n \in disk /\ row[n] = SPLIT /\ n \notin Accepted
    BY <1>4, <1>8, AllDiffer DEF Accepted
  <2>2. deps[n] \subseteq Accepted
    BY <1>4, <2>1, AllDiffer DEF Upright, Based
  <2>3. Kids(n) \cap disk \subseteq Accepted
    <3>1. \A c \in Kids(n) \cap disk : Seen(row, c) = COMPLETE /\ c \notin stale
      BY <1>8, Zenon DEF Aggregatable
    <3> HIDE DEF stale
    <3> QED BY <1>4, <1>5, <3>1
  <2> QED BY <2>1, <2>2, <2>3, AllDiffer
<1> QED BY <1>3, <1>6, <1>7, <1>8

LEMMA SelectUpright ==
  ASSUME TypeOK, Grown, Placed, Upright, Select
  PROVE  Upright' /\ Rises
<1> USE DEF TypeOK, Upright
<1>1. /\ planned = {} /\ branch = {} /\ \A n \in Node : wpc[n] = "idle"
      /\ \A n \in disk : row[n] # NoRow
  BY Quiet DEF Select
<1>2. Drained = row
  BY NothingQueued
<1> DEFINE batch == Chosen(row)
<1>3. /\ wpc' = [n \in Node |-> IF n \in batch THEN "queued" ELSE "idle"]
      /\ UNCHANGED <<row, disk, fp, deps, depFp, planned, branch>> /\ steer' = {}
      /\ UNCHANGED outsideVars
  BY <1>2 DEF Select, gitVars
<1>4. \A n \in batch : /\ n \in disk /\ row[n] # NoRow /\ n \notin Accepted
                       /\ deps[n] \subseteq Accepted /\ Kids(n) \cap disk \subseteq Accepted
  BY <1>1, ChosenFounded
<1> HIDE DEF batch
<1>5. Accepted \subseteq Accepted'
  <2>1. \A m \in Accepted : m \in Node /\ wpc'[m] = "idle"
    BY <1>3, <1>4 DEF Accepted
  <2> QED BY <1>3, <2>1, AcceptedStay
<1>6. Undisturbed' /\ Leafy' /\ Adoptable' /\ Marked' /\ Branched'
  BY <1>1, <1>3, <1>4 DEF Undisturbed, Leafy, Adoptable, Marked, Branched, outsideVars
<1>7. Based'
  BY <1>1, <1>3, <1>4, <1>5 DEF Based
<1>8. Founded'
  BY <1>1, <1>3, <1>4, <1>5 DEF Founded, Sound, Active
<1>9. Rises
  BY <1>1, <1>3, <1>4, <1>5 DEF Rises, Founded, Sound, Active
<1> QED BY <1>6, <1>7, <1>8, <1>9

\* The rest of the loop, an interrupt and a kill change no row.
LEMMA RestUpright ==
  ASSUME TypeOK, Grown, Placed, Upright, Finish \/ Wait \/ Join \/ Crash \/ Interrupt
  PROVE  Upright' /\ Rises
<1> USE DEF TypeOK, Upright, storeVars, gitVars, workerVars, runVars, outsideVars
<1>1. /\ UNCHANGED <<row, disk, fp, deps, depFp, branch, dirs, rows, retries, observers>>
      /\ steer' \in {steer, {}}
  BY NothingQueued DEF Finish, Wait, Join, Crash, Interrupt
<1>2. \/ wpc' = wpc /\ planned' = planned
      \/ wpc' = [n \in Node |-> "idle"] /\ planned' = {}
  BY DEF Finish, Wait, Join, Crash, Interrupt
<1>3. pc' # "down" => pc # "down" /\ wpc' = wpc /\ planned' = planned
  BY DEF Finish, Wait, Join, Crash, Interrupt
<1>4. \A n \in Node : wpc'[n] \in {wpc[n], "idle"}
  BY <1>2
<1>5. Accepted \subseteq Accepted'
  <2>1. \A m \in Accepted : m \in Node /\ wpc'[m] = "idle"
    BY <1>4 DEF Accepted
  <2> QED BY <1>1, <2>1, AcceptedStay
<1>6. Undisturbed' /\ Leafy' /\ Adoptable' /\ Marked' /\ Branched'
  BY <1>1, <1>2, <1>3, <1>4 DEF Undisturbed, Leafy, Adoptable, Marked, Branched
<1>7. \A n \in Node : Sound(n)' => Sound(n)
  BY <1>1, <1>4 DEF Sound, Active
<1>8. Based' /\ Founded'
  BY <1>1, <1>4, <1>5, <1>7 DEF Based, Founded
<1>9. Rises
  BY <1>5, <1>7 DEF Rises, Founded
<1> QED BY <1>6, <1>8, <1>9

LEMMA OthersUpright ==
  ASSUME TypeOK, Grown, Placed, Upright, Upward,
         \/ Start \/ Loop
         \/ \E n \in Node : Integration(n) \/ UserRetry(n)
         \/ Crash \/ Interrupt \/ Observe \/ Read \/ Repair
  PROVE  disk' = disk /\ Upright' /\ Rises
<1>1. ~Observe /\ ~Read /\ ~Repair /\ \A n \in Node : ~UserRetry(n)
  BY NobodyLooks DEF Upright
<1>2. Upright' /\ Rises
  BY <1>1, StartUpright, SelectUpright, RestUpright, IntegrationUpright DEF Loop
<1>3. disk' = disk
  BY <1>1 DEF Start, Loop, Finish, Wait, Select, Join, Integration, Pick, Conclude, Conflict,
              Crash, Interrupt, storeVars
<1> QED BY <1>2, <1>3

\* A child is known by its parent and its number, so that add_children makes one
\* directory at a time.
LEMMA OneEldest ==
  ASSUME NEW n \in Node, NEW S \in SUBSET Kids(n), NEW c \in Eldest(S), NEW d \in Eldest(S)
  PROVE  c = d
<1>1. /\ c \in Node /\ c # Root /\ Parent(c) = n /\ d \in Node /\ d # Root /\ Parent(d) = n
      /\ c[Len(c)] <= d[Len(d)] /\ d[Len(d)] <= c[Len(c)]
  BY DEF Eldest, Kids
<1>2. c[Len(c)] = d[Len(d)]
  BY <1>1, NodesAreIds
<1>3. ASSUME NEW s \in Path, s # Root
      PROVE  Len(s) \in Nat \ {0} /\ s = Append(Parent(s), s[Len(s)])
  <2>1. Len(s) \in Nat \ {0}
    BY <1>3, EmptySeq DEF Path, Root
  <2> DEFINE last == Len(s) - 1
             p == SubSeq(s, 1, last)
             i == s[Len(s)]
  <2>2. /\ p \in Seq(Nat \ {0}) /\ Len(p) = Len(s) - 1
        /\ \A k \in 1 .. Len(s) - 1 : p[k] = s[k]
    <3>1. last \in Nat /\ last = Len(s) - 1 /\ \A k \in 1 .. last : s[k] \in Nat \ {0}
      BY <2>1 DEF Path
    <3> HIDE DEF last
    <3>2. /\ p \in Seq(Nat \ {0})
          /\ Len(p) = IF 1 <= last THEN last - 1 + 1 ELSE 0
          /\ \A k \in 1 .. last - 1 + 1 : p[k] = s[1 + k - 1]
      BY <3>1, SubSeqProperties DEF Path
    <3> QED BY <3>1, <3>2
  <2>3. i \in Nat \ {0}
    BY <2>1 DEF Path
  <2> HIDE DEF last, p, i
  <2>4. /\ Append(p, i) \in Seq(Nat \ {0}) /\ Len(Append(p, i)) = Len(p) + 1
        /\ \A k \in 1 .. Len(p) : Append(p, i)[k] = p[k]
        /\ Append(p, i)[Len(p) + 1] = i
    BY <2>2, <2>3, AppendProperties
  <2>5. \A k \in 1 .. Len(s) : s[k] = Append(p, i)[k]
    BY <2>1, <2>2, <2>4 DEF i
  <2>6. s = Append(p, i)
    BY <2>1, <2>2, <2>4, <2>5, SeqEqual DEF Path
  <2> QED BY <2>1, <2>6 DEF last, p, i, Parent
<1>4. c = Append(n, c[Len(c)]) /\ d = Append(n, d[Len(d)])
  BY <1>1, <1>3, NodesAreIds
<1> QED BY <1>2, <1>4

\* Making a directory decomposes its parent.
LEMMA MaterialiseDecomposes ==
  ASSUME TypeOK, Upright, Upward, Placed, NEW n \in Node, Materialise(n),
         Accepted \subseteq Accepted'
  PROVE  \/ UNCHANGED <<disk, Accepted>>
         \/ /\ n \in disk \ Accepted /\ Accepted' = Accepted
            /\ \E c \in Kids(n) \ disk : disk' = disk \cup {c}
<1>1. /\ UNCHANGED <<row, deps, depFp, fp, wpc>> /\ disk' = disk \cup Eldest(Unmade(n))
      /\ wpc[n] = "splitting"
  BY DEF Materialise, workerVars
<1>2. Unmade(n) \in SUBSET Kids(n) /\ Unmade(n) \subseteq planned \ disk
  BY DEF Unmade
<1>3. \A c \in Eldest(Unmade(n)) : c \in Kids(n) \ disk /\ c \in planned
  BY <1>2 DEF Eldest
<1>4. Accepted' \subseteq Accepted
  <2> SUFFICES ASSUME NEW m \in Accepted' PROVE m \in Accepted
      OBVIOUS
  <2>1. m \in disk' /\ row[m] = COMPLETE /\ wpc[m] = "idle" /\ m \notin Stale'
    BY <1>1 DEF Accepted
  <2>2. m \in disk
    BY <1>1, <1>3, <2>1, AllDiffer DEF Upright, Adoptable
  <2>3. m \notin Stale
    BY <1>1, <2>1 DEF Stale, StaleIds, Seen
  <2> QED BY <2>1, <2>2, <2>3 DEF Accepted
<1>5. n \notin Accepted
  BY <1>1 DEF Accepted
<1>6. CASE Eldest(Unmade(n)) = {}
  BY <1>1, <1>4, <1>6
<1>7. ASSUME NEW c \in Eldest(Unmade(n))
      PROVE  c \in Kids(n) \ disk /\ disk' = disk \cup {c}
  BY <1>1, <1>2, <1>3, OneEldest
<1> QED BY <1>4, <1>5, <1>6, <1>7

\* Every step of the loop is a step of the promise, or none.
LEMMA StepDelivers ==
  ASSUME TypeOK, Grown, Placed, Upright, Upward, [Next]_vars
  PROVE  Upright' /\ [Promise!DeliveryNext]_<<disk, Accepted>>
<1>1. CASE UNCHANGED vars
  BY <1>1 DEF Upright, Undisturbed, Leafy, Adoptable, Marked, Branched, Based, Founded, Sound,
       Accepted, Stale, vars, storeVars, gitVars, workerVars, runVars, outsideVars
<1>2. ASSUME disk' = disk, Rises PROVE Promise!DeliveryNext
  <2> DEFINE S == Accepted' \ Accepted
  <2>1. S \subseteq disk \ Accepted /\ Accepted' = Accepted \cup S
    BY <1>2 DEF Accepted, Rises
  <2>2. \A m \in S : m \in Node /\ row'[m] = COMPLETE /\ wpc'[m] = "idle"
    BY <1>2 DEF Accepted, TypeOK
  <2>3. \A m \in S : Kids(m) \cap disk \subseteq Accepted
    BY <1>2, <2>2 DEF Rises, Sound
  <2>4. Promise!Accept(S)
    <3> HIDE DEF S
    <3> QED BY <1>2, <2>1, <2>3
            DEF Promise!Accept, Promise!Kids, Promise!Parent, Promise!Root, Kids, Parent, Root
  <2>5. S \in SUBSET disk
    BY <2>1
  <2> HIDE DEF S
  <2> QED BY <2>4, <2>5 DEF Promise!DeliveryNext
<1>3. ASSUME NEW n \in Node, Worker(n) PROVE Upright' /\ [Promise!DeliveryNext]_<<disk, Accepted>>
  <2>1. Upright' /\ Rises
    BY <1>3, WorkerUpright
  <2>2. CASE Materialise(n)
    <3>1. CASE UNCHANGED <<disk, Accepted>>
      BY <2>1, <3>1
    <3>2. CASE /\ n \in disk \ Accepted /\ Accepted' = Accepted
               /\ \E c \in Kids(n) \ disk : disk' = disk \cup {c}
      <4>1. Promise!Decompose(n)
        BY <3>2
             DEF Promise!Decompose, Promise!Kids, Promise!Parent, Promise!Root, Kids, Parent, Root
      <4> QED BY <2>1, <3>2, <4>1 DEF Promise!DeliveryNext
    <3> QED BY <2>1, <2>2, <3>1, <3>2, MaterialiseDecomposes DEF Rises
  <2>3. CASE ~Materialise(n)
    <3>1. disk' = disk
      BY <1>3, <2>3 DEF Worker, Begin, Edit, Split, Insert, SplitDone, Deliver, MarkComplete,
           Record, Hold, Commit, Fail, Checkpoint, Reopen, Abandon, storeVars
    <3> QED BY <1>2, <2>1, <3>1
  <2> QED BY <2>2, <2>3
<1>4. CASE Next
  BY <1>2, <1>3, <1>4, OthersUpright DEF Next
<1> QED BY <1>1, <1>4

LEMMA InitUpright == Init => Placed /\ Upright /\ Promise!DeliveryInit
<1> SUFFICES ASSUME Init PROVE Placed /\ Upright /\ Promise!DeliveryInit
    OBVIOUS
<1>1. Placed
  BY DEF Init, Placed, PhaseOK, Sheltered, NoLeakedWorktree, Active
<1>2. Accepted = {} /\ \A n \in Node : ~Sound(n)
  BY AllDiffer, NodesAreIds DEF Init, Accepted, Sound, Active
<1>3. Leafy
  <2>1. Root \notin Kids(Root)
    BY DEF Kids
  <2> QED BY <2>1 DEF Init, Leafy
<1>4. Upright
  BY <1>2, <1>3, NodesAreIds, AllDiffer
     DEF Init, Upright, Undisturbed, Adoptable, Marked, Branched, Based, Founded
<1>5. Promise!DeliveryInit
  BY <1>2 DEF Init, Promise!DeliveryInit, Promise!Root, Root
<1> QED BY <1>1, <1>4, <1>5

\* Without reopen, retry and onlookers the loop keeps the promise of Delivery, for every
\* tree, batch size, step limit and number of runs, whatever is killed, conflicts, is
\* interrupted or refused by git: acceptance moves upwards, and stands.
THEOREM LoopDelivers == Upward => (Spec => DeliveryHolds)
<1> SUFFICES ASSUME Upward PROVE Spec => DeliveryHolds
    OBVIOUS
<1>1. Init => Placed /\ Upright /\ Promise!DeliveryInit
  BY InitUpright
<1>2. TypeOK /\ Grown /\ Placed /\ Upright /\ [Next]_vars
        => (Grown /\ Placed /\ Upright)' /\ [Promise!DeliveryNext]_<<disk, Accepted>>
  <2> SUFFICES ASSUME TypeOK, Grown, Placed, Upright, [Next]_vars
               PROVE  (Grown /\ Placed /\ Upright)' /\ [Promise!DeliveryNext]_<<disk, Accepted>>
      OBVIOUS
  <2>1. Upright' /\ [Promise!DeliveryNext]_<<disk, Accepted>>
    BY StepDelivers
  <2>2. (Grown /\ Placed)'
    <3>1. CASE UNCHANGED vars
      BY <3>1 DEF Grown, Shaped, Continued, RowsOnDisk, Placed, PhaseOK, Sheltered,
           NoLeakedWorktree, Batch, vars, storeVars, gitVars, workerVars, runVars, outsideVars
    <3>2. CASE Next
      BY <3>2, WorkerGrows, OthersGrow, WorkerPlaced, OthersPlaced DEF Next
    <3> QED BY <3>1, <3>2
  <2> QED BY <2>1, <2>2
<1> QED BY <1>1, <1>2, InitGrown, TypeCorrect, PTL DEF Spec, DeliveryHolds, Promise!DeliverySpec

-----------------------------------------------------------------------------
(* A complete root is the root of a complete tree, under the same conditions.    *)

\* Every ancestor of a directory is one, and the root depends on nothing.
Rooted ==
  /\ \A n \in disk : \A i \in 0 .. Len(n) : SubSeq(n, 1, i) \in disk
  /\ deps[Root] = {}

\* Founded, all the way down.
Deep == \A n \in Node : Sound(n) => \A m \in disk : IsBelow(m, n) => m \in Accepted

\* The prefix of length i of an id.
LEMMA PrefixOf ==
  ASSUME NEW s \in Path, NEW i \in 0 .. Len(s)
  PROVE  /\ SubSeq(s, 1, i) \in Path /\ Len(SubSeq(s, 1, i)) = i
         /\ \A k \in 1 .. i : SubSeq(s, 1, i)[k] = s[k]
<1>1. Len(s) \in Nat /\ i \in Nat /\ \A k \in 1 .. i : s[k] \in Nat \ {0}
  BY DEF Path
<1>2. /\ SubSeq(s, 1, i) \in Seq(Nat \ {0})
      /\ Len(SubSeq(s, 1, i)) = IF 1 <= i THEN i - 1 + 1 ELSE 0
      /\ \A k \in 1 .. i - 1 + 1 : SubSeq(s, 1, i)[k] = s[1 + k - 1]
  BY <1>1, SubSeqProperties
<1> QED BY <1>1, <1>2 DEF Path

\* A prefix of a prefix.
LEMMA PrefixAgain ==
  ASSUME NEW s \in Path, NEW i \in 0 .. Len(s), NEW j \in 0 .. i
  PROVE  SubSeq(SubSeq(s, 1, i), 1, j) = SubSeq(s, 1, j)
<1> DEFINE p == SubSeq(s, 1, i)
<1>1. p \in Path /\ Len(p) = i /\ \A k \in 1 .. i : p[k] = s[k]
  BY PrefixOf
<1>2. j \in 0 .. Len(s) /\ j \in 0 .. Len(p) /\ i \in Nat /\ j \in Nat /\ j <= i
  BY <1>1 DEF Path
<1> HIDE DEF p
<1>3. /\ SubSeq(p, 1, j) \in Path /\ Len(SubSeq(p, 1, j)) = j
      /\ \A k \in 1 .. j : SubSeq(p, 1, j)[k] = p[k]
  BY <1>1, <1>2, PrefixOf
<1>4. /\ SubSeq(s, 1, j) \in Path /\ Len(SubSeq(s, 1, j)) = j
      /\ \A k \in 1 .. j : SubSeq(s, 1, j)[k] = s[k]
  BY <1>2, PrefixOf
<1>5. \A k \in 1 .. j : SubSeq(p, 1, j)[k] = SubSeq(s, 1, j)[k]
  BY <1>1, <1>2, <1>3, <1>4
<1>6. SubSeq(p, 1, j) = SubSeq(s, 1, j)
  BY <1>3, <1>4, <1>5, SeqEqual DEF Path
<1> QED BY <1>6 DEF p

\* What is below n is a child of n, or below one.
LEMMA BelowChild ==
  ASSUME NEW n \in Path, NEW m \in Path, IsBelow(m, n)
  PROVE  LET k == SubSeq(m, 1, Len(n) + 1)
         IN  /\ Len(n) + 1 \in 0 .. Len(m) /\ k # Root /\ Parent(k) = n
             /\ m = k \/ IsBelow(m, k)
<1> DEFINE i == Len(n) + 1
           k == SubSeq(m, 1, i)
<1>1. Len(n) \in Nat /\ Len(m) \in Nat /\ Len(m) > Len(n) /\ SubSeq(m, 1, Len(n)) = n
  BY DEF IsBelow, Path
<1>2. i \in 0 .. Len(m) /\ i \in Nat \ {0} /\ i - 1 = Len(n) /\ Len(n) \in 0 .. i
  BY <1>1
<1> HIDE DEF i
<1>3. k \in Path /\ Len(k) = i /\ \A j \in 1 .. i : k[j] = m[j]
  BY <1>2, PrefixOf
<1>4. Parent(k) = n
  <2>1. SubSeq(k, 1, Len(n)) = SubSeq(m, 1, Len(n))
    BY <1>2, PrefixAgain
  <2> QED BY <1>1, <1>2, <1>3, <2>1 DEF Parent
<1>5. k # Root
  BY <1>2, <1>3 DEF Root
<1>6. m = k \/ IsBelow(m, k)
  <2>1. CASE Len(m) = i
    <3>1. \A j \in 1 .. Len(m) : m[j] = k[j]
      BY <1>3, <2>1
    <3> QED BY <1>3, <2>1, <3>1, SeqEqual DEF Path
  <2>2. CASE Len(m) # i
    BY <1>1, <1>2, <1>3, <2>2 DEF IsBelow
  <2> QED BY <2>1, <2>2
<1> QED BY <1>2, <1>4, <1>5, <1>6 DEF i

\* What a child is below, its parent is, or is below.
LEMMA AboveChild ==
  ASSUME NEW c \in Path, c # Root, NEW k \in Path, IsBelow(c, k)
  PROVE  Parent(c) = k \/ IsBelow(Parent(c), k)
<1> DEFINE i == Len(c) - 1
<1>1. Len(c) \in Nat /\ Len(k) \in Nat /\ Len(c) > Len(k) /\ SubSeq(c, 1, Len(k)) = k
  BY DEF IsBelow, Path
<1>2. /\ i \in 0 .. Len(c) /\ i \in Nat /\ Len(k) \in 0 .. i
      /\ Len(k) = i \/ i > Len(k)
  BY <1>1
<1>3. Parent(c) = SubSeq(c, 1, i)
  BY DEF Parent
<1> HIDE DEF i
<1>4. Len(Parent(c)) = i
  BY <1>2, <1>3, PrefixOf
<1>5. SubSeq(Parent(c), 1, Len(k)) = k
  BY <1>1, <1>2, <1>3, PrefixAgain
<1>6. CASE Len(k) = i
  BY <1>1, <1>3, <1>6
<1>7. CASE i > Len(k)
  <2>1. Len(Parent(c)) > Len(k)
    BY <1>4, <1>7, Zenon
  <2> QED BY <1>5, <2>1, Zenon DEF IsBelow
<1> QED BY <1>2, <1>6, <1>7

\* Directories come below directories.
LEMMA StepRooted ==
  ASSUME TypeOK, Grown, Placed, Upright, Upward, Rooted, Next
  PROVE  Rooted'
<1> USE DEF TypeOK, storeVars, gitVars, workerVars, runVars, outsideVars
<1>1. ASSUME NEW n \in Node, Worker(n) PROVE Rooted'
  <2>1. /\ disk \subseteq disk' /\ disk' \subseteq Node
        /\ \A c \in disk' \ disk : c \in planned \cap Kids(n) /\ n \in disk
    BY <1>1, WorkerPlans, WorkerType DEF Grown
  <2>2. ASSUME NEW c \in disk' \ disk, NEW i \in 0 .. Len(c) PROVE SubSeq(c, 1, i) \in disk'
    <3>1. c \in Path /\ c # Root /\ Parent(c) = n /\ n \in disk
      BY <2>1, NodesAreIds DEF Kids
    <3>2. Len(c) \in Nat \ {0} /\ i \in Nat
      BY <3>1, EmptySeq DEF Path, Root
    <3>3. CASE i = Len(c)
      <4>1. /\ SubSeq(c, 1, i) \in Path /\ Len(SubSeq(c, 1, i)) = i
            /\ \A k \in 1 .. i : SubSeq(c, 1, i)[k] = c[k]
        BY <3>1, PrefixOf
      <4>2. SubSeq(c, 1, i) = c
        BY <3>1, <3>2, <3>3, <4>1, SeqEqual DEF Path
      <4> QED BY <4>2
    <3>4. CASE i # Len(c)
      <4> DEFINE l == Len(c) - 1
      <4>1. l \in 0 .. Len(c) /\ i \in 0 .. l
        BY <3>2, <3>4
      <4>2. n = SubSeq(c, 1, l)
        BY <3>1 DEF Parent
      <4> HIDE DEF l
      <4>3. SubSeq(n, 1, i) = SubSeq(c, 1, i) /\ Len(n) = l
        BY <3>1, <4>1, <4>2, PrefixAgain, PrefixOf
      <4> QED BY <2>1, <3>1, <4>1, <4>3 DEF Rooted
    <3> QED BY <3>3, <3>4
  <2>3. deps'[Root] = {}
    <3>1. CASE Insert(n)
      <4>1. PICK c \in Eldest(Unlisted(n)) :
              deps' = deps \/ deps' = [deps EXCEPT ![c] = contract[c]]
        BY <3>1 DEF Insert
      <4>2. c # Root
        BY DEF Eldest, Unlisted, Kids
      <4> QED BY <4>1, <4>2, NodesAreIds DEF Rooted
    <3>2. CASE ~Insert(n)
      BY <1>1, <3>2 DEF Rooted, Worker, Begin, Edit, Split, Materialise, SplitDone, Deliver,
           MarkComplete, Record, Hold, Commit, Fail, Checkpoint, Reopen, Abandon
    <3> QED BY <3>1, <3>2
  <2> QED BY <2>1, <2>2, <2>3 DEF Rooted
<1>2. CASE Start
  BY <1>2, NodesAreIds DEF Start, ReconciledDeps, Rooted
<1>3. CASE Loop \/ Crash \/ Interrupt \/ \E n \in Node : Integration(n)
  BY <1>3 DEF Loop, Finish, Wait, Select, Join, Crash, Interrupt, Integration, Pick, Conclude,
       Conflict, Rooted
<1> QED BY <1>1, <1>2, <1>3, NobodyLooks DEF Next, Upright

\* A node whose children are accepted has everything below it accepted.
LEMMA KidsSuffice ==
  ASSUME TypeOK, Rooted, Deep, NEW n \in Node, Kids(n) \cap disk \subseteq Accepted,
         NEW m \in disk, IsBelow(m, n)
  PROVE  m \in Accepted
<1> DEFINE k == SubSeq(m, 1, Len(n) + 1)
<1>1. n \in Path /\ m \in Path /\ m \in Node
  BY NodesAreIds DEF TypeOK
<1>2. Len(n) + 1 \in 0 .. Len(m) /\ k # Root /\ Parent(k) = n /\ (m = k \/ IsBelow(m, k))
  BY <1>1, BelowChild
<1>3. k \in disk /\ k \in Node
  BY <1>2 DEF Rooted, TypeOK
<1> HIDE DEF k
<1>4. k \in Accepted
  BY <1>2, <1>3 DEF Kids
<1>5. Sound(k)
  BY <1>4 DEF Accepted, Sound
<1> QED BY <1>2, <1>3, <1>4, <1>5 DEF Deep

LEMMA StepDeep ==
  ASSUME TypeOK, Grown, Placed, Upright, Upward, Rooted, Deep, Next
  PROVE  Deep'
<1> SUFFICES ASSUME NEW n \in Node, Sound(n)', NEW m \in disk', IsBelow(m, n)
             PROVE  m \in Accepted'
    BY DEF Deep
<1>1. Rises
  BY WorkerUpright, OthersUpright DEF Next
<1>2. \A k \in disk : IsBelow(k, n) => k \in Accepted
  BY <1>1, KidsSuffice DEF Rises
<1>3. CASE m \in disk
  BY <1>1, <1>2, <1>3 DEF Rises
<1>4. CASE m \notin disk
  <2>1. PICK w \in Node : Worker(w)
    BY <1>4, OthersUpright DEF Next
  <2>2. m \in planned \cap Kids(w) /\ wpc[w] = "splitting"
    BY <1>4, <2>1, WorkerPlans
  <2>3. w \in disk /\ w \notin Accepted /\ row[w] = RUNNING /\ w \notin branch
    BY <2>1, <2>2, WorkerChanges DEF Grown, Accepted, Upright, Marked, Branched
  <2>4. m \in Path /\ n \in Path /\ m # Root /\ Parent(m) = w
    BY <2>2, NodesAreIds DEF Kids
  <2>5. w = n
    BY <1>2, <2>3, <2>4, AboveChild
  <2>6. UNCHANGED <<row, wpc, branch>>
    BY <1>4, <2>1 DEF Worker, Begin, Edit, Split, Materialise, Insert, SplitDone, Deliver,
         MarkComplete, Record, Hold, Commit, Fail, Checkpoint, Reopen, Abandon,
         storeVars, gitVars, workerVars
  <2>7. ~Sound(n)'
    BY <2>2, <2>3, <2>5, <2>6, AllDiffer DEF Sound, Active
  <2> QED BY <2>7
<1> QED BY <1>3, <1>4

\* Without reopen, retry and onlookers a complete root means that every node of the tree
\* is complete, none against an older deliverable of a dependency, on trees of any depth
\* and whatever is killed, conflicts, fails, is interrupted or refused by git.
THEOREM CompleteRoot == Upward => (Spec => []RootDelivered)
<1> SUFFICES ASSUME Upward PROVE Spec => []RootDelivered
    OBVIOUS
<1> DEFINE Inv == Grown /\ Placed /\ Upright /\ Rooted /\ Deep
<1>1. Init => Inv
  <2> SUFFICES ASSUME Init PROVE Inv
      OBVIOUS
  <2>1. Placed /\ Upright
    BY InitUpright
  <2>2. Rooted
    <3>1. \A i \in 0 .. Len(Root) : SubSeq(Root, 1, i) = Root
      BY DEF Root
    <3> QED BY <3>1, NodesAreIds DEF Init, Rooted
  <2>3. Deep
    <3>1. ~IsBelow(Root, Root) /\ \A n \in Node : ~Sound(n)
      BY NodesAreIds, AllDiffer DEF IsBelow, Init, Sound, Active
    <3> QED BY <3>1 DEF Deep
  <2> QED BY <2>1, <2>2, <2>3, InitGrown
<1>2. TypeOK /\ Inv /\ [Next]_vars => Inv'
  <2>1. CASE UNCHANGED vars
    BY <2>1 DEF Grown, Shaped, Continued, RowsOnDisk, Placed, PhaseOK, Sheltered, NoLeakedWorktree,
         Batch, Upright, Undisturbed, Leafy, Adoptable, Marked, Branched, Based, Founded, Sound,
         Accepted, Stale, Rooted, Deep, vars, storeVars, gitVars, workerVars, runVars, outsideVars
  <2>2. ASSUME TypeOK, Inv, Next PROVE Inv'
    <3>1. Upright'
      BY <2>2, WorkerUpright, OthersUpright DEF Next
    <3>2. (Grown /\ Placed)'
      BY <2>2, WorkerGrows, OthersGrow, WorkerPlaced, OthersPlaced DEF Next
    <3> QED BY <2>2, <3>1, <3>2, StepRooted, StepDeep
  <2> QED BY <2>1, <2>2
<1>3. TypeOK /\ Inv => RootDelivered
  <2> SUFFICES ASSUME TypeOK, Inv, row[Root] = COMPLETE
               PROVE  disk \cap Stale = {} /\ \A n \in disk : row[n] = COMPLETE
      BY DEF RootDelivered
  <2>1. \A m \in disk : m # Root => IsBelow(m, Root)
    <3> SUFFICES ASSUME NEW m \in disk, m # Root PROVE IsBelow(m, Root)
        OBVIOUS
    <3>1. m \in Path /\ Len(m) \in Nat \ {0}
      BY NodesAreIds, EmptySeq DEF TypeOK, Path, Root
    <3> QED BY <3>1 DEF IsBelow, Root, Path
  <2>2. Sound(Root) /\ Root \in Node
    BY NodesAreIds DEF Sound
  <2>3. \A m \in disk : m # Root => m \in Accepted
    BY <2>1, <2>2 DEF Deep
  <2>4. Root \notin Stale
    BY DEF Rooted, Stale, StaleIds
  <2> QED BY <2>3, <2>4 DEF Accepted
<1> HIDE DEF Inv
<1> QED BY <1>1, <1>2, <1>3, TypeCorrect, PTL DEF Spec

=============================================================================
