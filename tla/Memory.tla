------------------------------- MODULE Memory -------------------------------
(***************************************************************************)
(* What the harness remembers.  A node's memory is decisions.md and        *)
(* log/events.jsonl, appended to by append_decision and append_log; the    *)
(* digest of what was written last is in the index, so that a line of      *)
(* anyone else shows.  The global entries are shared rules the agents      *)
(* ask to note, a row of global_entries and a file each.                   *)
(*                                                                         *)
(* The memory is one node's.  Its writers are threads and processes that   *)
(* take no lock, but SQLite's for one statement.                           *)
(*                                                                         *)
(* An operator named ...Faulty is a deliberate mistake: put in place of    *)
(* the definition it precedes, it makes a property of a run fail.          *)
(***************************************************************************)
EXTENDS Naturals, Sequences

CONSTANTS
  Scribe,     \* the threads and processes of the harness that write
  MemoryLines,  \* bound: lines of the memory, and lines of outsiders
  Notes,      \* bound: global entries asked for
  MidWrite    \* an outsider may write while a scribe does

\* What the constants must be.
MemoryAssumption == {MemoryLines, Notes} \subseteq Nat /\ MidWrite \in BOOLEAN

VARIABLES
  memory,     \* who wrote each line of the memory
  forged,     \* a line of an outsider that nobody has remarked on
  digest,     \* the memory the index vouches for, or nothing yet
  scribe,     \* what each scribe is at, and the memory it has hashed
  entries,    \* the rows of global_entries, by their number
  entryFile,  \* the note in the entry.md of each number, or none
  note,       \* what each scribe is noting: [pc, number, replaces]
  requested   \* the notes asked for so far

remembered == <<memory, forged, digest, scribe>>
shared == <<entries, entryFile, note, requested>>
vars == <<remembered, shared>>

Line == {"harness", "outsider", "tampered"}
NoDigest == <<"none">>
Idle == [pc |-> "idle", hash |-> <<>>]
NoNote == [pc |-> "idle", id |-> 0, eid |-> 0, supersedes |-> 0]
None == 0

\* The type of the state.
TypeOK ==
  /\ memory \in Seq(Line) /\ forged \in BOOLEAN /\ digest \in Seq(Line) \cup {NoDigest}
  /\ scribe \in [Scribe -> [pc : {"idle", "append", "hash", "record"}, hash : Seq(Line)]]
  /\ entries \in Seq([id : 1 .. Notes, superseded : 0 .. Notes])
  /\ entryFile \in [1 .. Notes -> 0 .. Notes] /\ requested \in 0 .. Notes
  /\ note \in [Scribe -> [pc : {"idle", "count", "supersede", "insert", "file"},
                          id : 0 .. Notes, eid : 0 .. Notes, supersedes : 0 .. Notes]]

Init ==
  /\ memory = <<>> /\ forged = FALSE /\ digest = NoDigest
  /\ scribe = [s \in Scribe |-> Idle]
  /\ entries = <<>> /\ entryFile = [e \in 1 .. Notes |-> None]
  /\ note = [s \in Scribe |-> NoNote] /\ requested = 0

-----------------------------------------------------------------------------
(* A node's memory. *)

\* memory_intact: a node with no digest yet counts as intact.
Intact == digest = NoDigest \/ digest = memory

\* Faulty: an append vouches for whatever it finds.
CheckFaulty(s) ==
  /\ scribe[s].pc = "idle" /\ Len(memory) < MemoryLines
  /\ scribe' = [scribe EXCEPT ![s] = [pc |-> "append", hash |-> <<>>]]
  /\ UNCHANGED <<memory, forged, digest, shared>>

\* The memory is compared with the digest first, and a difference noted.
Check(s) ==
  /\ scribe[s].pc = "idle" /\ Len(memory) < MemoryLines
  /\ scribe' = [scribe EXCEPT ![s] = [pc |-> "append", hash |-> <<>>]]
  /\ IF Intact THEN UNCHANGED <<memory, forged>>
     ELSE memory' = Append(memory, "tampered") /\ forged' = FALSE
  /\ UNCHANGED <<digest, shared>>

AppendLine(s) ==
  /\ scribe[s].pc = "append" /\ memory' = Append(memory, "harness")
  /\ scribe' = [scribe EXCEPT ![s] = [pc |-> "hash", hash |-> <<>>]]
  /\ UNCHANGED <<forged, digest, shared>>

\* record_memory_digest reads the files again,
Hash(s) ==
  /\ scribe[s].pc = "hash"
  /\ scribe' = [scribe EXCEPT ![s] = [pc |-> "record", hash |-> memory]]
  /\ UNCHANGED <<memory, forged, digest, shared>>

\* and stores their digest.
Record(s) ==
  /\ scribe[s].pc = "record" /\ digest' = scribe[s].hash
  /\ scribe' = [scribe EXCEPT ![s] = Idle]
  /\ UNCHANGED <<memory, forged, shared>>

\* An agent adds a line.
Forge ==
  /\ MidWrite \/ \A s \in Scribe : scribe[s] = Idle
  /\ digest # NoDigest /\ Len(memory) < MemoryLines
  /\ memory' = Append(memory, "outsider") /\ forged' = TRUE
  /\ UNCHANGED <<digest, scribe, shared>>

-----------------------------------------------------------------------------
(* The global entries. *)

Live == {e \in DOMAIN entries : entries[e].superseded = None}

\* What s is noting, once it is at pc and has counted eid.
Noting(s, pc, eid) ==
  [pc |-> pc, id |-> note[s].id, eid |-> eid, supersedes |-> note[s].supersedes]

\* An agent asks for a note, which may replace an entry it was shown.
Propose(s, old) ==
  /\ note[s] = NoNote /\ requested < Notes /\ requested' = requested + 1
  /\ note' = [note EXCEPT ![s] = [pc |-> "count", id |-> requested + 1, eid |-> 0,
                                  supersedes |-> old]]
  /\ UNCHANGED <<remembered, entries, entryFile>>

\* next_global_id counts the rows.
Count(s) ==
  /\ note[s].pc = "count"
  /\ note' = [note EXCEPT ![s] =
                Noting(s, IF note[s].supersedes = None THEN "insert" ELSE "supersede",
                       Len(entries) + 1)]
  /\ UNCHANGED <<remembered, entries, entryFile, requested>>

Supersede(s) ==
  /\ note[s].pc = "supersede"
  /\ entries' = [entries EXCEPT ![note[s].supersedes] =
                   [id |-> @.id, superseded |-> note[s].id]]
  /\ note' = [note EXCEPT ![s] = Noting(s, "insert", note[s].eid)]
  /\ UNCHANGED <<remembered, entryFile, requested>>

\* Faulty: a row that is there is no error.
TakenFaulty(s) == FALSE

\* The number is the primary key.
Taken(s) == note[s].eid \in DOMAIN entries

Insert(s) ==
  /\ note[s].pc = "insert"
  /\ IF Taken(s) THEN note' = [note EXCEPT ![s] = NoNote] /\ UNCHANGED entries
     ELSE /\ entries' = Append(entries, [id |-> note[s].id, superseded |-> None])
          /\ note' = [note EXCEPT ![s] = Noting(s, "file", note[s].eid)]
  /\ UNCHANGED <<remembered, entryFile, requested>>

WriteEntry(s) ==
  /\ note[s].pc = "file"
  /\ entryFile' = [entryFile EXCEPT ![note[s].eid] = note[s].id]
  /\ note' = [note EXCEPT ![s] = NoNote]
  /\ UNCHANGED <<remembered, entries, requested>>

-----------------------------------------------------------------------------
\* The thread or process is killed.
Kill(s) ==
  /\ scribe[s] # Idle \/ note[s] # NoNote
  /\ scribe' = [scribe EXCEPT ![s] = Idle] /\ note' = [note EXCEPT ![s] = NoNote]
  /\ UNCHANGED <<memory, forged, digest, entries, entryFile, requested>>

Next ==
  \/ \E s \in Scribe :
       \/ Check(s) \/ AppendLine(s) \/ Hash(s) \/ Record(s)
       \/ Count(s) \/ Supersede(s) \/ Insert(s) \/ WriteEntry(s) \/ Kill(s)
       \/ \E old \in Live \cup {None} : Propose(s, old)
  \/ Forge

Spec == Init /\ [][Next]_vars

-----------------------------------------------------------------------------
\* "A node's memory is only ever written by the harness": what an outsider did between
\* two writes shows as tampered, or was noted, whatever scribe was killed half-way.
ForgeryShows == forged => ~Intact

\* The file of a global entry is the row's: two workers that counted the same number
\* never leave one's text under the other's row.
EntryIsOwn ==
  \A e \in 1 .. Notes : entryFile[e] # None =>
    e \in DOMAIN entries /\ entries[e].id = entryFile[e]

=============================================================================
