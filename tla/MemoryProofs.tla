---------------------------- MODULE MemoryProofs ----------------------------
(* Theorems about a node's memory and the global entries, for any number of   *)
(* writers and however long both grow.                                        *)
EXTENDS Memory, FiniteSetTheorems, SequenceTheorems, TLAPS

-----------------------------------------------------------------------------
(* A node's memory.  It only grows, and what was hashed or stored was the memory *)
(* once, so that it is no longer.  A line of an outsider nobody has remarked on  *)
(* makes it longer than the digest, and nobody is at work until it is remarked.  *)

Remembered ==
  /\ memory \in Seq(Line) /\ forged \in BOOLEAN
  /\ scribe \in [Scribe -> [pc : {"idle", "append", "hash", "record"}, hash : Seq(Line)]]
  /\ digest # NoDigest => digest \in Seq(Line) /\ Len(digest) <= Len(memory)
  /\ \A s \in Scribe : scribe[s].pc = "record" => Len(scribe[s].hash) <= Len(memory)

Unremarked ==
  forged => /\ digest # NoDigest /\ Len(digest) < Len(memory)
            /\ \A s \in Scribe : scribe[s].pc = "idle"

MInv == Remembered /\ Unremarked

LEMMA MemoryStarts == Init => MInv
<1> SUFFICES ASSUME Init PROVE MInv
    OBVIOUS
<1>1. <<>> \in Seq(Line)
  OBVIOUS
<1>2. Remembered
  <2>1. scribe = [s \in Scribe |-> [pc |-> "idle", hash |-> <<>>]]
    BY DEF Init, Idle
  <2>2. memory = <<>> /\ forged = FALSE /\ digest = NoDigest
    BY DEF Init
  <2> QED BY <1>1, <2>1, <2>2 DEF Remembered
<1>3. Unremarked
  BY DEF Init, Unremarked
<1> QED BY <1>2, <1>3 DEF MInv

LEMMA MemoryHolds == ASSUME ~MidWrite PROVE MInv /\ [Next]_vars => MInv'
<1> SUFFICES ASSUME MInv, [Next]_vars PROVE MInv'
    OBVIOUS
<1> USE DEF MInv, Remembered, Unremarked
<1>l. {"harness", "outsider", "tampered"} \subseteq Line
  BY DEF Line
<1>a. \A x \in Line : Append(memory, x) \in Seq(Line)
                      /\ Len(Append(memory, x)) = Len(memory) + 1
  OBVIOUS
<1>n. Len(memory) \in Nat /\ (digest # NoDigest => Len(digest) \in Nat)
      /\ \A s \in Scribe : Len(scribe[s].hash) \in Nat
  OBVIOUS
<1>1. CASE UNCHANGED remembered
  BY <1>1 DEF remembered
<1>2. ASSUME NEW s \in Scribe, Check(s) PROVE MInv'
  <2>1. scribe[s].pc = "idle" /\ digest' = digest
        /\ scribe' = [scribe EXCEPT ![s] = [pc |-> "append", hash |-> <<>>]]
    BY <1>2 DEF Check
  <2>2. CASE Intact
    <3>1. UNCHANGED <<memory, forged>>
      BY <1>2, <2>2 DEF Check
    <3>2. ~forged
      BY <2>2, <1>n DEF Intact
    <3> QED BY <2>1, <3>1, <3>2
  <2>3. CASE ~Intact
    <3>1. memory' = Append(memory, "tampered") /\ forged' = FALSE
      BY <1>2, <2>3 DEF Check
    <3>2. memory' \in Seq(Line) /\ Len(memory') = Len(memory) + 1
      BY <3>1, <1>l, <1>a
    <3>3. Remembered'
      <4>1. scribe' \in [Scribe -> [pc : {"idle", "append", "hash", "record"},
                                   hash : Seq(Line)]]
        BY <2>1
      <4>2. digest' # NoDigest => digest' \in Seq(Line) /\ Len(digest') <= Len(memory')
        BY <2>1, <3>2, <1>n
      <4>3. ASSUME NEW x \in Scribe, scribe'[x].pc = "record"
            PROVE  Len(scribe'[x].hash) <= Len(memory')
        <5>1. x # s /\ scribe'[x] = scribe[x]
          BY <2>1, <4>3
        <5> QED BY <5>1, <3>2, <4>3, <1>n
      <4> QED BY <3>1, <3>2, <4>1, <4>2, <4>3
    <3>4. Unremarked'
      BY <3>1
    <3> QED BY <3>3, <3>4
  <2> QED BY <2>2, <2>3
<1>3. ASSUME NEW s \in Scribe, AppendLine(s) PROVE MInv'
  BY <1>3, <1>l, <1>a, <1>n DEF AppendLine
<1>4. ASSUME NEW s \in Scribe, Hash(s) PROVE MInv'
  BY <1>4, <1>n DEF Hash
<1>5. ASSUME NEW s \in Scribe, Record(s) PROVE MInv'
  BY <1>5, <1>n DEF Record, Idle
<1>6. CASE Forge
  BY <1>6, <1>l, <1>a, <1>n DEF Forge, Idle
<1>7. ASSUME NEW s \in Scribe, Kill(s) PROVE MInv'
  BY <1>7, <1>n DEF Kill, Idle
<1>8. ASSUME NEW s \in Scribe,
             \/ Count(s) \/ Supersede(s) \/ Insert(s) \/ WriteEntry(s)
             \/ \E old \in Live \cup {None} : Propose(s, old)
      PROVE UNCHANGED remembered
  BY <1>8 DEF Count, Supersede, Insert, WriteEntry, Propose
<1>9. CASE UNCHANGED vars
  BY <1>1, <1>9 DEF vars
<1> QED BY <1>1, <1>2, <1>3, <1>4, <1>5, <1>6, <1>7, <1>8, <1>9 DEF Next

\* A line of anyone else shows as tampered, or was noted, when outsiders write only
\* while the harness does not: memory_intact, append_decision, record_memory_digest.
THEOREM ForgeryIsSeen == ASSUME ~MidWrite PROVE Spec => []ForgeryShows
<1>1. Init => MInv
  BY MemoryStarts
<1>2. MInv /\ [Next]_vars => MInv'
  BY MemoryHolds
<1>3. MInv => ForgeryShows
  <2> SUFFICES ASSUME MInv, forged, digest = memory PROVE FALSE
      BY DEF ForgeryShows, Intact, MInv, Unremarked
  <2>1. Len(memory) \in Nat /\ Len(memory) < Len(memory)
    BY DEF MInv, Remembered, Unremarked
  <2> QED BY <2>1
<1> QED BY <1>1, <1>2, <1>3, PTL DEF Spec

-----------------------------------------------------------------------------
(* The global entries.  Rows are added at the end and keep their note; a number  *)
(* that was counted is at most one past the last row; and a scribe that is       *)
(* writing a file has inserted the row of that number itself.                    *)

Row == [id : Nat, superseded : Nat]

Listed ==
  /\ entries \in Seq(Row) /\ requested \in Nat
  /\ entryFile \in [1 .. Notes -> Nat]
  /\ note \in [Scribe -> [pc : {"idle", "count", "supersede", "insert", "file"},
                          id : Nat, eid : Nat, supersedes : Nat]]

Numbered ==
  \A s \in Scribe :
    /\ note[s].pc \in {"supersede", "insert"} => note[s].eid \in 1 .. Len(entries) + 1
    /\ note[s].pc \in {"count", "supersede"} => note[s].supersedes \in 0 .. Len(entries)
    /\ note[s].pc = "supersede" => note[s].supersedes # None
    /\ note[s].pc = "file" => /\ note[s].eid \in 1 .. Len(entries)
                              /\ entries[note[s].eid].id = note[s].id

EInv == Listed /\ Numbered /\ EntryIsOwn

LEMMA EntriesStart == Init => EInv
BY DEF Init, EInv, Listed, Numbered, EntryIsOwn, NoNote, None

\* The rows may grow and be superseded, and what is known of them stays.
LEMMA RowsKeep ==
  ASSUME EInv, entries' \in Seq(Row), Len(entries') >= Len(entries),
         \A e \in 1 .. Len(entries) : entries'[e].id = entries[e].id,
         UNCHANGED <<entryFile, requested>>
  PROVE  EntryIsOwn'
BY DEF EInv, Listed, EntryIsOwn

LEMMA EntriesHold == ASSUME Notes \in Nat PROVE EInv /\ [Next]_vars => EInv'
<1> SUFFICES ASSUME EInv, [Next]_vars PROVE EInv'
    OBVIOUS
<1> USE DEF EInv, Listed, Numbered
<1>n. Len(entries) \in Nat /\ DOMAIN entries = 1 .. Len(entries)
  OBVIOUS
<1>1. CASE UNCHANGED shared
  BY <1>1 DEF shared, EntryIsOwn
<1>2. ASSUME NEW s \in Scribe, NEW old \in Live \cup {None}, Propose(s, old) PROVE EInv'
  <2>1. old \in 0 .. Len(entries)
    BY <1>n DEF Live, None
  <2>2. Listed' /\ Numbered'
    BY <1>2, <1>n, <2>1 DEF Propose
  <2> QED BY <1>2, <2>2 DEF Propose, EntryIsOwn
<1>3. ASSUME NEW s \in Scribe, Count(s) PROVE EInv'
  <2>1. Listed' /\ Numbered'
    BY <1>3, <1>n DEF Count, Noting, None
  <2> QED BY <1>3, <2>1 DEF Count, EntryIsOwn
<1>4. ASSUME NEW s \in Scribe, Supersede(s) PROVE EInv'
  <2> DEFINE k == note[s].supersedes
             row == [id |-> entries[k].id, superseded |-> note[s].id]
  <2>1. k \in 1 .. Len(entries)
    BY <1>4, <1>n DEF Supersede, None
  <2>2. entries[k] \in Row /\ row \in Row /\ row.id = entries[k].id
    <3>1. entries[k] \in Row
      BY <2>1, ElementOfSeq
    <3>2. note[s].id \in Nat /\ entries[k].id \in Nat
      BY <3>1 DEF Row
    <3> QED BY <3>1, <3>2 DEF Row
  <2>3. entries' = [entries EXCEPT ![k] = row]
    BY <1>4 DEF Supersede
  <2> HIDE DEF k, row
  <2>4. /\ entries' \in Seq(Row) /\ Len(entries') = Len(entries)
        /\ \A e \in 1 .. Len(entries) : entries'[e].id = entries[e].id
    BY <2>1, <2>2, <2>3, <1>n, ExceptSeq
  <2>5. EntryIsOwn'
    BY <1>4, <2>4, <1>n, RowsKeep DEF Supersede
  <2>6. Listed' /\ Numbered'
    BY <1>4, <2>4, <1>n DEF Supersede, Noting
  <2> QED BY <2>5, <2>6
<1>5. ASSUME NEW s \in Scribe, Insert(s) PROVE EInv'
  <2>1. CASE Taken(s)
    <3>1. note' = [note EXCEPT ![s] = NoNote] /\ UNCHANGED <<entries, entryFile, requested>>
      BY <1>5, <2>1 DEF Insert
    <3>2. Listed' /\ Numbered'
      BY <3>1, <1>n DEF NoNote
    <3> QED BY <3>1, <3>2 DEF EntryIsOwn
  <2>2. CASE ~Taken(s)
    <3> DEFINE row == [id |-> note[s].id, superseded |-> None]
    <3>1. row \in Row /\ row.id = note[s].id
      BY <1>5 DEF Insert, Row, None
    <3>2. entries' = Append(entries, row)
          /\ note' = [note EXCEPT ![s] = Noting(s, "file", note[s].eid)]
          /\ UNCHANGED <<entryFile, requested>> /\ note[s].eid = Len(entries) + 1
          /\ note[s].pc = "insert"
      BY <1>5, <1>n, <2>2 DEF Insert, Taken
    <3> HIDE DEF row
    <3>3. /\ entries' \in Seq(Row) /\ Len(entries') = Len(entries) + 1
          /\ \A e \in 1 .. Len(entries) : entries'[e].id = entries[e].id
          /\ entries'[Len(entries) + 1] = row
      BY <3>1, <3>2, <1>n, AppendProperties
    <3>4. EntryIsOwn'
      BY <3>2, <3>3, <1>n, RowsKeep
    <3>5. Listed'
      BY <3>2, <3>3, <1>n DEF Noting
    <3>6. Numbered'
      BY <3>1, <3>2, <3>3, <1>n DEF Noting
    <3> QED BY <3>4, <3>5, <3>6
  <2> QED BY <2>1, <2>2
<1>6. ASSUME NEW s \in Scribe, WriteEntry(s) PROVE EInv'
  <2>1. Listed' /\ Numbered'
    BY <1>6, <1>n DEF WriteEntry, NoNote
  <2>2. EntryIsOwn'
    BY <1>6, <1>n DEF WriteEntry, EntryIsOwn
  <2> QED BY <2>1, <2>2
<1>7. ASSUME NEW s \in Scribe, Kill(s) PROVE EInv'
  <2>1. Listed' /\ Numbered'
    BY <1>7, <1>n DEF Kill, NoNote
  <2> QED BY <1>7, <2>1 DEF Kill, EntryIsOwn
<1>8. ASSUME NEW s \in Scribe, Check(s) \/ AppendLine(s) \/ Hash(s) \/ Record(s)
      PROVE UNCHANGED shared
  BY <1>8 DEF Check, AppendLine, Hash, Record
<1>9. CASE Forge \/ UNCHANGED vars
  BY <1>1, <1>9 DEF Forge, vars
<1> QED BY <1>1, <1>2, <1>3, <1>4, <1>5, <1>6, <1>7, <1>8, <1>9 DEF Next

\* Two workers that counted the same number never leave one's text under the other's
\* row, and a replaced entry keeps its own: note_global and next_global_id.
THEOREM EntryStaysOwn == ASSUME MemoryAssumption PROVE Spec => []EntryIsOwn
<1>0. Notes \in Nat
  BY DEF MemoryAssumption
<1>1. Init => EInv
  BY EntriesStart
<1>2. EInv /\ [Next]_vars => EInv'
  BY <1>0, EntriesHold
<1>3. EInv => EntryIsOwn
  BY DEF EInv
<1> QED BY <1>1, <1>2, <1>3, PTL DEF Spec

-----------------------------------------------------------------------------
(* Type correctness.  A number is counted from the rows, and there are fewer rows *)
(* than requests while one is still to be inserted: the rows are of different     *)
(* requests, and not of one that is under way.                                    *)

Entry == [id : 1 .. Notes, superseded : 0 .. Notes]
Ids == {entries[e].id : e \in DOMAIN entries}
UnderWay(s) == note[s].pc \in {"count", "supersede", "insert"}

Counted ==
  /\ Ids \subseteq 1 .. requested /\ Cardinality(Ids) = Len(entries)
  /\ \A s \in Scribe : UnderWay(s) => note[s].id \in (1 .. requested) \ Ids
  /\ \A s, t \in Scribe : UnderWay(s) /\ UnderWay(t) /\ note[s].id = note[t].id => s = t

TInv == TypeOK /\ EInv /\ Counted

LEMMA FewerRows ==
  ASSUME TInv
  PROVE  /\ Len(entries) \in Nat /\ Len(entries) <= requested
         /\ \A s \in Scribe : UnderWay(s) => Len(entries) + 1 <= requested
<1>1. requested \in Nat /\ Ids \subseteq 1 .. requested /\ Cardinality(Ids) = Len(entries)
      /\ Len(entries) \in Nat
  BY DEF TInv, EInv, Listed, Counted
<1>2. IsFiniteSet(1 .. requested) /\ Cardinality(1 .. requested) = requested
  <2>1. 1 \in Int /\ requested \in Int
    BY <1>1
  <2>2. /\ IsFiniteSet(1 .. requested)
        /\ Cardinality(1 .. requested) = IF 1 > requested THEN 0 ELSE requested - 1 + 1
    BY <2>1, FS_Interval
  <2> QED BY <1>1, <2>2
<1>3. IsFiniteSet(Ids) /\ Len(entries) <= requested
  BY <1>1, <1>2, FS_Subset
<1>4. ASSUME NEW s \in Scribe, UnderWay(s) PROVE Len(entries) + 1 <= requested
  <2>1. note[s].id \notin Ids /\ Ids \cup {note[s].id} \subseteq 1 .. requested
    BY <1>1, <1>4 DEF TInv, Counted
  <2>2. Cardinality(Ids \cup {note[s].id}) = Len(entries) + 1
    BY <1>1, <1>3, <2>1, FS_AddElement
  <2>3. Cardinality(Ids \cup {note[s].id}) <= requested
    BY <1>2, <2>1, FS_Subset
  <2> QED BY <2>2, <2>3
<1> QED BY <1>1, <1>3, <1>4

LEMMA TypedStart == ASSUME MemoryAssumption PROVE Init => TInv
<1> SUFFICES ASSUME Init PROVE TInv
    OBVIOUS
<1>1. Notes \in Nat
  BY DEF MemoryAssumption
<1>2. \A set : <<>> \in Seq(set)
  OBVIOUS
<1>3. Len(<<>>) = 0 /\ DOMAIN <<>> = {}
  OBVIOUS
<1>4. TypeOK
  <2>1. memory \in Seq(Line) /\ digest \in Seq(Line) \cup {NoDigest}
        /\ entries \in Seq([id : 1 .. Notes, superseded : 0 .. Notes])
    BY <1>2 DEF Init
  <2>2. scribe \in [Scribe -> [pc : {"idle", "append", "hash", "record"}, hash : Seq(Line)]]
    BY <1>2 DEF Init, Idle
  <2>3. /\ entryFile \in [1 .. Notes -> 0 .. Notes] /\ requested \in 0 .. Notes
        /\ note \in [Scribe -> [pc : {"idle", "count", "supersede", "insert", "file"},
                                id : 0 .. Notes, eid : 0 .. Notes, supersedes : 0 .. Notes]]
    BY <1>1 DEF Init, NoNote, None
  <2>4. forged \in BOOLEAN
    BY DEF Init
  <2> QED BY <2>1, <2>2, <2>3, <2>4 DEF TypeOK
<1>5. Ids = {} /\ Len(entries) = 0 /\ \A s \in Scribe : ~UnderWay(s)
  BY <1>3 DEF Init, Ids, UnderWay, NoNote
<1>6. Counted
  BY <1>5, FS_EmptySet DEF Counted
<1> QED BY <1>4, <1>6, EntriesStart DEF TInv

\* The memory, its digest and its scribes.
LEMMA MemoryTyped ==
  ASSUME TInv, [Next]_vars
  PROVE  /\ memory' \in Seq(Line) /\ forged' \in BOOLEAN /\ digest' \in Seq(Line) \cup {NoDigest}
         /\ scribe' \in [Scribe -> [pc : {"idle", "append", "hash", "record"}, hash : Seq(Line)]]
<1> DEFINE Pen == [pc : {"idle", "append", "hash", "record"}, hash : Seq(Line)]
<1>1. /\ memory \in Seq(Line) /\ forged \in BOOLEAN /\ digest \in Seq(Line) \cup {NoDigest}
      /\ scribe \in [Scribe -> Pen]
  BY DEF TInv, TypeOK
<1>2. \A x \in Line : Append(memory, x) \in Seq(Line)
  BY <1>1
<1>3. {"harness", "outsider", "tampered"} \subseteq Line
  BY DEF Line
<1>4. /\ \A pc \in {"idle", "append", "hash", "record"} : \A hash \in Seq(Line) :
           [pc |-> pc, hash |-> hash] \in Pen
      /\ <<>> \in Seq(Line) /\ Idle \in Pen
  BY DEF Idle
<1>5. \A s \in Scribe : scribe[s].hash \in Seq(Line)
  BY <1>1
<1> HIDE DEF Pen
<1>6. ASSUME NEW s \in Scribe, Check(s) \/ AppendLine(s) \/ Hash(s) \/ Record(s) \/ Kill(s)
      PROVE  /\ memory' \in Seq(Line) /\ forged' \in BOOLEAN
             /\ digest' \in Seq(Line) \cup {NoDigest} /\ scribe' \in [Scribe -> Pen]
  <2>1. \E pen \in Pen : scribe' = [scribe EXCEPT ![s] = pen]
    BY <1>1, <1>4, <1>6 DEF Check, AppendLine, Hash, Record, Kill
  <2>2. scribe' \in [Scribe -> Pen]
    BY <1>1, <2>1
  <2> QED BY <1>1, <1>2, <1>3, <1>5, <1>6, <2>2 DEF Check, AppendLine, Hash, Record, Kill
<1>7. CASE Forge
  <2>1. forged' \in BOOLEAN
    BY <1>7 DEF Forge
  <2>2. memory' \in Seq(Line) /\ digest' = digest /\ scribe' = scribe
    BY <1>2, <1>3, <1>7 DEF Forge
  <2> QED BY <1>1, <2>1, <2>2 DEF Pen
<1>8. CASE UNCHANGED remembered
  <2>1. forged' = forged
    BY <1>8 DEF remembered
  <2>2. memory' = memory /\ digest' = digest /\ scribe' = scribe
    BY <1>8 DEF remembered
  <2>3. forged' \in BOOLEAN
    BY <1>1, <2>1
  <2>4. /\ memory' \in Seq(Line) /\ digest' \in Seq(Line) \cup {NoDigest}
        /\ scribe' \in [Scribe -> Pen]
    BY <1>1, <2>2
  <2> QED BY <2>3, <2>4 DEF Pen
<1>9. ASSUME NEW s \in Scribe,
             \/ Count(s) \/ Supersede(s) \/ Insert(s) \/ WriteEntry(s)
             \/ \E old \in Live \cup {None} : Propose(s, old)
      PROVE  UNCHANGED remembered
  BY <1>9 DEF Count, Supersede, Insert, WriteEntry, Propose
<1> QED BY <1>6, <1>7, <1>8, <1>9 DEF Next, vars, Pen

\* The rows, their files and the notes under way.
EntriesTyped ==
  /\ entries \in Seq(Entry) /\ entryFile \in [1 .. Notes -> 0 .. Notes] /\ requested \in 0 .. Notes
  /\ note \in [Scribe -> [pc : {"idle", "count", "supersede", "insert", "file"},
                          id : 0 .. Notes, eid : 0 .. Notes, supersedes : 0 .. Notes]]

\* A scribe that goes on with its note, or gives it up.
LEMMA StillCounted ==
  ASSUME Counted, NEW s \in Scribe, NEW x, note \in [Scribe -> {note[t] : t \in Scribe} \cup {x}],
         note' = [note EXCEPT ![s] = x],
         (x.id = note[s].id /\ UnderWay(s)) \/ x.pc \notin {"count", "supersede", "insert"},
         Ids' = Ids, Len(entries') = Len(entries), requested' = requested
  PROVE  Counted'
<1>1. note'[s] = x /\ \A t \in Scribe \ {s} : note'[t] = note[t]
  OBVIOUS
<1> QED BY <1>1 DEF Counted, UnderWay

LEMMA EntriesStayTyped ==
  ASSUME MemoryAssumption, TInv, [Next]_vars
  PROVE  EntriesTyped' /\ Counted'
<1> DEFINE Task == [pc : {"idle", "count", "supersede", "insert", "file"},
                    id : 0 .. Notes, eid : 0 .. Notes, supersedes : 0 .. Notes]
<1>1. Notes \in Nat /\ EntriesTyped /\ Counted /\ EInv /\ note \in [Scribe -> Task]
  BY DEF MemoryAssumption, TInv, TypeOK, EntriesTyped, Entry
<1>2. /\ Len(entries) \in Nat /\ Len(entries) <= requested /\ requested <= Notes
      /\ DOMAIN entries = 1 .. Len(entries) /\ requested \in Nat
      /\ \A s \in Scribe : UnderWay(s) => Len(entries) + 1 <= requested
  BY <1>1, FewerRows DEF EntriesTyped
<1>3. CASE UNCHANGED shared
  BY <1>1, <1>3 DEF shared, EntriesTyped, Counted, UnderWay, Ids
<1>4. \A s \in Scribe : /\ note[s].id \in 0 .. Notes /\ note[s].eid \in 0 .. Notes
                        /\ note[s].supersedes \in 0 .. Notes
  BY <1>1
<1>5. \A set : note \in [Scribe -> {note[t] : t \in Scribe} \cup set]
  BY <1>1
<1>6. ASSUME NEW s \in Scribe, NEW old \in Live \cup {None}, Propose(s, old)
      PROVE  EntriesTyped' /\ Counted'
  <2> DEFINE x == [pc |-> "count", id |-> requested + 1, eid |-> 0, supersedes |-> old]
  <2>1. /\ note[s] = NoNote /\ requested < Notes /\ requested' = requested + 1
        /\ note' = [note EXCEPT ![s] = x] /\ UNCHANGED <<entries, entryFile>>
    BY <1>6 DEF Propose
  <2>2. old \in 0 .. Notes
    BY <1>1, <1>2 DEF Live, None
  <2>3. x \in Task /\ x.id = requested + 1 /\ x.pc = "count"
    BY <1>1, <1>2, <2>1, <2>2
  <2> HIDE DEF x
  <2>4. note' \in [Scribe -> Task]
    <3> HIDE DEF Task
    <3> QED BY <1>1, <2>1, <2>3
  <2>5. note'[s] = x /\ \A t \in Scribe \ {s} : note'[t] = note[t]
    BY <1>1, <2>1
  <2>6. Ids' = Ids
    BY <2>1 DEF Ids
  <2>7. Counted'
    BY <1>1, <1>2, <2>1, <2>3, <2>5, <2>6 DEF Counted, UnderWay
  <2>8. requested' \in 0 .. Notes
    BY <1>1, <1>2, <2>1
  <2> QED BY <1>1, <2>1, <2>4, <2>7, <2>8 DEF EntriesTyped
<1>7. ASSUME NEW s \in Scribe, Count(s) PROVE EntriesTyped' /\ Counted'
  <2> DEFINE x == Noting(s, IF note[s].supersedes = None THEN "insert" ELSE "supersede",
                         Len(entries) + 1)
  <2>1. note' = [note EXCEPT ![s] = x] /\ UNCHANGED <<entries, entryFile, requested>>
        /\ UnderWay(s)
    BY <1>7 DEF Count, UnderWay
  <2>2. Len(entries) + 1 \in 0 .. Notes
    BY <1>1, <1>2, <2>1
  <2>3. x \in Task /\ x.id = note[s].id
    BY <1>4, <2>2 DEF Noting
  <2> HIDE DEF x
  <2>4. note' \in [Scribe -> Task]
    <3> HIDE DEF Task
    <3> QED BY <1>1, <2>1, <2>3
  <2>5. Ids' = Ids
    BY <2>1 DEF Ids
  <2>6. Counted'
    BY <1>1, <1>5, <2>1, <2>3, <2>5, StillCounted
  <2> QED BY <1>1, <2>1, <2>4, <2>6 DEF EntriesTyped
<1>8. ASSUME NEW s \in Scribe, Supersede(s) PROVE EntriesTyped' /\ Counted'
  <2> DEFINE k == note[s].supersedes
             row == [id |-> entries[k].id, superseded |-> note[s].id]
             x == Noting(s, "insert", note[s].eid)
  <2>1. /\ note' = [note EXCEPT ![s] = x] /\ entries' = [entries EXCEPT ![k] = row]
        /\ UNCHANGED <<entryFile, requested>> /\ UnderWay(s)
    BY <1>8 DEF Supersede, UnderWay
  <2>2. k \in 1 .. Len(entries)
    BY <1>1, <1>2, <1>8 DEF Supersede, EInv, Numbered, None
  <2>3. x \in Task /\ x.id = note[s].id
    BY <1>4 DEF Noting
  <2>4. row \in Entry /\ row.id = entries[k].id
    <3>1. entries[k] \in Entry
      BY <1>1, <2>2, ElementOfSeq DEF EntriesTyped
    <3> QED BY <1>4, <3>1 DEF Entry
  <2> HIDE DEF x, k, row
  <2>5. note' \in [Scribe -> Task]
    <3> HIDE DEF Task
    <3> QED BY <1>1, <2>1, <2>3
  <2>6. /\ entries' \in Seq(Entry) /\ Len(entries') = Len(entries)
        /\ \A e \in 1 .. Len(entries) : entries'[e].id = entries[e].id
    <3>1. entries \in Seq(Entry)
      BY <1>1 DEF EntriesTyped
    <3>2. /\ entries' \in Seq(Entry) /\ Len(entries') = Len(entries)
          /\ \A e \in 1 .. Len(entries) : entries'[e] = IF e = k THEN row ELSE entries[e]
      BY <2>1, <2>2, <2>4, <3>1, ExceptSeq
    <3> QED BY <2>4, <3>2
  <2>7. DOMAIN entries' = DOMAIN entries
    BY <1>2, <2>1
  <2>8. Ids' = Ids
    BY <1>2, <2>6, <2>7 DEF Ids
  <2>9. Counted'
    BY <1>1, <1>5, <2>1, <2>3, <2>6, <2>8, StillCounted
  <2> QED BY <1>1, <2>1, <2>5, <2>6, <2>9 DEF EntriesTyped
<1>9. ASSUME NEW s \in Scribe, Insert(s), Taken(s) PROVE EntriesTyped' /\ Counted'
  <2>1. note' = [note EXCEPT ![s] = NoNote] /\ UNCHANGED <<entries, entryFile, requested>>
    BY <1>9 DEF Insert
  <2>2. NoNote \in Task /\ NoNote.pc = "idle"
    BY <1>1 DEF NoNote
  <2>3. note' \in [Scribe -> Task] /\ Ids' = Ids
    <3> HIDE DEF Task
    <3> QED BY <1>1, <2>1, <2>2 DEF Ids
  <2>4. Counted'
    BY <1>1, <1>5, <2>1, <2>2, <2>3, StillCounted
  <2> QED BY <1>1, <2>1, <2>3, <2>4 DEF EntriesTyped
<1>10. ASSUME NEW s \in Scribe, Insert(s), ~Taken(s) PROVE EntriesTyped' /\ Counted'
  <2> DEFINE row == [id |-> note[s].id, superseded |-> None]
             x == Noting(s, "file", note[s].eid)
  <2>1. /\ entries' = Append(entries, row) /\ note' = [note EXCEPT ![s] = x]
        /\ UNCHANGED <<entryFile, requested>> /\ UnderWay(s)
    BY <1>10 DEF Insert, UnderWay
  <2>2. note[s].id \in (1 .. requested) \ Ids
    BY <1>1, <2>1 DEF Counted
  <2>3. row \in Entry /\ row.id = note[s].id
    BY <1>1, <1>2, <2>2 DEF Entry, None
  <2>4. x \in Task /\ x.id = note[s].id /\ x.pc = "file"
    BY <1>4 DEF Noting
  <2> HIDE DEF row, x
  <2>5. note' \in [Scribe -> Task]
    <3> HIDE DEF Task
    <3> QED BY <1>1, <2>1, <2>4
  <2>6. entries \in Seq(Entry)
    BY <1>1 DEF EntriesTyped
  <2>7. /\ entries' \in Seq(Entry) /\ Len(entries') = Len(entries) + 1
        /\ \A e \in 1 .. Len(entries) : entries'[e] = entries[e]
        /\ entries'[Len(entries) + 1] = row
    BY <2>1, <2>3, <2>6, AppendProperties
  <2>8. DOMAIN entries' = 1 .. Len(entries) + 1
    BY <1>2, <2>7
  <2>9. Ids' = Ids \cup {note[s].id}
    BY <1>2, <2>3, <2>7, <2>8 DEF Ids
  <2>10. Cardinality(Ids') = Len(entries')
    <3>1. IsFiniteSet(1 .. requested)
      BY <1>2, FS_Interval
    <3>2. IsFiniteSet(Ids)
      BY <1>1, <3>1, FS_Subset DEF Counted
    <3>3. Cardinality(Ids \cup {note[s].id}) = Cardinality(Ids) + 1
      BY <2>2, <3>2, FS_AddElement
    <3> QED BY <1>1, <2>7, <2>9, <3>3 DEF Counted
  <2>11. note'[s] = x /\ \A t \in Scribe \ {s} : note'[t] = note[t]
    BY <1>1, <2>1
  <2>12. Ids' \subseteq 1 .. requested'
    BY <1>1, <2>1, <2>2, <2>9 DEF Counted
  <2>13. ASSUME NEW t \in Scribe, UnderWay(t)'
         PROVE  t # s /\ UnderWay(t) /\ note'[t] = note[t]
                /\ note'[t].id \in (1 .. requested') \ Ids'
    <3>1. t # s /\ note'[t] = note[t] /\ UnderWay(t)
      BY <2>4, <2>11, <2>13 DEF UnderWay
    <3>2. note[t].id # note[s].id /\ note[t].id \in (1 .. requested) \ Ids
      BY <1>1, <2>1, <3>1 DEF Counted
    <3> QED BY <2>1, <2>9, <3>1, <3>2
  <2>14. Counted'
    <3>1. \A t, u \in Scribe : UnderWay(t)' /\ UnderWay(u)' /\ note'[t].id = note'[u].id => t = u
      BY <1>1, <2>13 DEF Counted
    <3> QED BY <2>10, <2>12, <2>13, <3>1 DEF Counted
  <2> QED BY <1>1, <2>1, <2>5, <2>7, <2>14 DEF EntriesTyped
<1>11. ASSUME NEW s \in Scribe, WriteEntry(s) PROVE EntriesTyped' /\ Counted'
  <2>1. /\ note' = [note EXCEPT ![s] = NoNote] /\ UNCHANGED <<entries, requested>>
        /\ entryFile' = [entryFile EXCEPT ![note[s].eid] = note[s].id]
    BY <1>11 DEF WriteEntry
  <2>2. NoNote \in Task /\ NoNote.pc = "idle"
    BY <1>1 DEF NoNote
  <2>3. note' \in [Scribe -> Task] /\ Ids' = Ids
    <3> HIDE DEF Task
    <3> QED BY <1>1, <2>1, <2>2 DEF Ids
  <2>4. Counted'
    BY <1>1, <1>5, <2>1, <2>2, <2>3, StillCounted
  <2>5. entryFile' \in [1 .. Notes -> 0 .. Notes]
    BY <1>1, <1>4, <2>1 DEF EntriesTyped
  <2> QED BY <1>1, <2>1, <2>3, <2>4, <2>5 DEF EntriesTyped
<1>12. ASSUME NEW s \in Scribe, Kill(s) PROVE EntriesTyped' /\ Counted'
  <2>1. note' = [note EXCEPT ![s] = NoNote] /\ UNCHANGED <<entries, entryFile, requested>>
    BY <1>12 DEF Kill
  <2>2. NoNote \in Task /\ NoNote.pc = "idle"
    BY <1>1 DEF NoNote
  <2>3. note' \in [Scribe -> Task] /\ Ids' = Ids
    <3> HIDE DEF Task
    <3> QED BY <1>1, <2>1, <2>2 DEF Ids
  <2>4. Counted'
    BY <1>1, <1>5, <2>1, <2>2, <2>3, StillCounted
  <2> QED BY <1>1, <2>1, <2>3, <2>4 DEF EntriesTyped
<1>13. ASSUME NEW s \in Scribe, Check(s) \/ AppendLine(s) \/ Hash(s) \/ Record(s)
       PROVE  UNCHANGED shared
  BY <1>13 DEF Check, AppendLine, Hash, Record
<1>14. CASE Forge \/ UNCHANGED vars
  BY <1>3, <1>14 DEF Forge, vars
<1> QED BY <1>3, <1>6, <1>7, <1>8, <1>9, <1>10, <1>11, <1>12, <1>13, <1>14 DEF Next

\* Type correctness: no number is counted, and no row or file written, past the notes that
\* were asked for, however the scribes interleave and are killed: next_global_id.
THEOREM TypeCorrect == ASSUME MemoryAssumption PROVE Spec => []TypeOK
<1>1. Init => TInv
  BY TypedStart
<1>2. TInv /\ [Next]_vars => TInv'
  <2> SUFFICES ASSUME TInv, [Next]_vars PROVE TInv'
      OBVIOUS
  <2>1. TypeOK'
    BY MemoryTyped, EntriesStayTyped DEF TypeOK, EntriesTyped, Entry
  <2>2. EInv'
    BY EntriesHold DEF TInv, MemoryAssumption
  <2> QED BY <2>1, <2>2, EntriesStayTyped DEF TInv
<1>3. TInv => TypeOK
  BY DEF TInv
<1> QED BY <1>1, <1>2, <1>3, PTL DEF Spec

=============================================================================
