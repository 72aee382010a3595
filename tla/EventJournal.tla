----------------------------- MODULE EventJournal -----------------------------
(***************************************************************************)
(* The task event store of APP3-APP6 (task_state.py, TaskEventStore): an   *)
(* append-only JSONL file whose records are numbered and hash-chained, and *)
(* the list of records the process keeps in memory.  An append reads the   *)
(* tail of the list, writes and fsyncs one line, and only then extends the *)
(* list; nothing locks the three steps, and the operator server calls them *)
(* from one thread per HTTP request.                                       *)
(*                                                                         *)
(* A hash is a number that is fresh for each record built (SHA-256 over a  *)
(* record that holds its own time stamp).  A line is its record and        *)
(* whether it still parses as JSON.                                        *)
(***************************************************************************)
EXTENDS Naturals, Sequences

CONSTANTS Writers,        \* request threads that append
          Events,         \* payloads
          MaxBuilds,      \* bound on the records ever built
          CrashLeaves,    \* what a crash during a write may leave on disk
          DiskErrors      \* whether write, flush or fsync may raise OSError

\* What an interrupted or failed write may leave at the end of the file: no
\* byte, a part of the line, the line without its newline, the whole line.
Leftovers == {"nothing", "torn", "unterminated", "whole"}

ASSUME ConstantsAssumption == /\ MaxBuilds \in Nat
                              /\ CrashLeaves \subseteq Leftovers
                              /\ DiskErrors \in BOOLEAN

VARIABLES file,           \* the lines on disk
          terminated,     \* the file is empty or ends with a newline
          mem,            \* self._events
          phase,          \* "running", "stopped", or "refused" by _load
          pc,             \* pc[w]: where w is inside _append
          draft,          \* draft[w]: the record w has built
          acked,          \* records whose _append has returned
          builds          \* records built so far; the next hash is builds + 1

vars == <<file, terminated, mem, phase, pc, draft, acked, builds>>

-----------------------------------------------------------------------------
ZeroHash == 0

Record == [sequence : Nat, event : Events, previous_hash : Nat, hash : Nat]

Line == [record : Record, whole : BOOLEAN]

\* The hash a new record chains to.
LastHash(events) == IF events = <<>> THEN ZeroHash ELSE events[Len(events)].hash

\* The checks of _load, line by line: JSON parses, the sequence is the
\* position, the previous hash is the hash of the line before.
Verifies(lines) ==
    \A i \in DOMAIN lines :
        /\ lines[i].whole
        /\ lines[i].record.sequence = i
        /\ lines[i].record.previous_hash =
               IF i = 1 THEN ZeroHash ELSE lines[i - 1].record.hash

\* The list _load returns when every check passes.
Loaded(lines) == [i \in 1 .. Len(lines) |-> lines[i].record]

\* The lines after a write of r that left `left` on disk.  A file that does
\* not end with a newline takes the new record on its last line, which then
\* no longer parses.
Written(lines, r, left) ==
    IF left = "nothing" THEN lines
    ELSE IF terminated THEN Append(lines, [record |-> r, whole |-> left # "torn"])
    ELSE [lines EXCEPT ![Len(lines)].whole = FALSE]

\* Whether the file ends with a newline after that write.
Terminated(left) == IF left = "nothing" THEN terminated ELSE left = "whole"

-----------------------------------------------------------------------------
Init == /\ file = <<>>
        /\ terminated = TRUE
        /\ mem = <<>>
        /\ phase = "stopped"
        /\ pc = [w \in Writers |-> "idle"]
        /\ draft = [w \in Writers |-> <<>>]
        /\ acked = {}
        /\ builds = 0

\* Mutant of Start: the lines are kept as read, not the records they hold.
StartKeepsLines == /\ phase = "stopped"
                   /\ phase' = "running" /\ mem' = file
                   /\ UNCHANGED <<file, terminated, pc, draft, acked, builds>>

\* TaskEventStore(path): load and verify the file, or refuse to start.
Start == /\ phase = "stopped"
         /\ IF Verifies(file)
              THEN phase' = "running" /\ mem' = Loaded(file)
              ELSE phase' = "refused" /\ UNCHANGED mem
         /\ UNCHANGED <<file, terminated, pc, draft, acked, builds>>

\* Mutant of Build: the sequence counts from zero.
BuildFromZero(w, e) ==
    /\ phase = "running" /\ pc[w] = "idle" /\ builds < MaxBuilds
    /\ builds' = builds + 1
    /\ draft' = [draft EXCEPT ![w] = [sequence      |-> Len(mem),
                                      event         |-> e,
                                      previous_hash |-> LastHash(mem),
                                      hash          |-> builds + 1]]
    /\ pc' = [pc EXCEPT ![w] = "built"]
    /\ UNCHANGED <<file, terminated, mem, phase, acked>>

\* _append reads the last hash and the length of the list in memory.
Build(w, e) ==
    /\ phase = "running"
    /\ pc[w] = "idle"
    /\ builds < MaxBuilds
    /\ builds' = builds + 1
    /\ draft' = [draft EXCEPT ![w] = [sequence      |-> Len(mem) + 1,
                                      event         |-> e,
                                      previous_hash |-> LastHash(mem),
                                      hash          |-> builds + 1]]
    /\ pc' = [pc EXCEPT ![w] = "built"]
    /\ UNCHANGED <<file, terminated, mem, phase, acked>>

\* Mutant of Write: no flush and fsync before _append goes on.
WriteUnsynced(w) ==
    /\ pc[w] = "built"
    /\ pc' = [pc EXCEPT ![w] = "written"]
    /\ UNCHANGED <<file, terminated, mem, phase, draft, acked, builds>>

\* Mutant of Write: the file is opened with "w".
WriteTruncates(w) ==
    /\ pc[w] = "built"
    /\ file' = <<[record |-> draft[w], whole |-> TRUE]>>
    /\ terminated' = TRUE
    /\ pc' = [pc EXCEPT ![w] = "written"]
    /\ UNCHANGED <<mem, phase, draft, acked, builds>>

\* The line is written, flushed and fsynced.
Write(w) ==
    /\ pc[w] = "built"
    /\ file' = Written(file, draft[w], "whole")
    /\ terminated' = Terminated("whole")
    /\ pc' = [pc EXCEPT ![w] = "written"]
    /\ UNCHANGED <<mem, phase, draft, acked, builds>>

\* Mutant of Remember: the record is returned but not kept.
RememberNothing(w) ==
    /\ pc[w] = "written"
    /\ acked' = acked \cup {draft[w]}
    /\ pc' = [pc EXCEPT ![w] = "idle"]
    /\ UNCHANGED <<file, terminated, mem, phase, draft, builds>>

\* self._events.append(record), and _append returns.
Remember(w) ==
    /\ pc[w] = "written"
    /\ mem' = Append(mem, draft[w])
    /\ acked' = acked \cup {draft[w]}
    /\ pc' = [pc EXCEPT ![w] = "idle"]
    /\ UNCHANGED <<file, terminated, phase, draft, builds>>

\* The write raises: the exception leaves _append and the process goes on.
WriteFails(w) ==
    /\ DiskErrors
    /\ pc[w] = "built"
    /\ \E left \in Leftovers : /\ file' = Written(file, draft[w], left)
                               /\ terminated' = Terminated(left)
    /\ pc' = [pc EXCEPT ![w] = "idle"]
    /\ UNCHANGED <<mem, phase, draft, acked, builds>>

\* The process dies: every thread and the list in memory are gone.
Die == /\ phase' = "stopped"
       /\ mem' = <<>>
       /\ pc' = [w \in Writers |-> "idle"]
       /\ UNCHANGED <<draft, acked, builds>>

\* It dies with no write in progress.
Crash == /\ phase = "running"
         /\ Die
         /\ UNCHANGED <<file, terminated>>

\* It dies while w's write is in progress.
CrashInWrite(w) ==
    /\ pc[w] = "built"
    /\ \E left \in CrashLeaves : /\ file' = Written(file, draft[w], left)
                                 /\ terminated' = Terminated(left)
    /\ Die

Next == \/ Start
        \/ Crash
        \/ \E w \in Writers : \/ \E e \in Events : Build(w, e)
                              \/ Write(w)
                              \/ Remember(w)
                              \/ WriteFails(w)
                              \/ CrashInWrite(w)

Spec == Init /\ [][Next]_vars

-----------------------------------------------------------------------------
\* Types of the file, the list and the writers.
TypeOK == /\ file \in Seq(Line)
          /\ terminated \in BOOLEAN
          /\ mem \in Seq(Record)
          /\ phase \in {"running", "stopped", "refused"}
          /\ pc \in [Writers -> {"idle", "built", "written"}]
          /\ draft \in [Writers -> Record \cup {<<>>}]
          /\ acked \subseteq Record
          /\ builds \in Nat

\* A restart always gets its records back: _load never refuses the file the
\* store itself wrote (docs/app3-execution-evidence.md, Restart/resume).
RestartReconstructs == phase # "refused"

\* No record whose append has returned is lost unnoticed: however writers race,
\* writes fail and crashes tear the file, a file that _load accepts has every
\* one of them on the line its sequence number names.
LossDetected ==
    Verifies(file) =>
        \A r \in acked : /\ r.sequence \in 1 .. Len(file)
                         /\ file[r.sequence] = [record |-> r, whole |-> TRUE]

\* Between appends the process answers from exactly what is on disk, so that
\* a restart changes no answer.
MemoryMirrorsDisk ==
    (phase = "running" /\ \A w \in Writers : pc[w] # "written")
        => mem = Loaded(file)

\* No step removes, reorders or replaces a record on disk.
AppendOnly ==
    [][/\ Len(file) <= Len(file')
       /\ \A i \in 1 .. Len(file) : file'[i].record = file[i].record]_vars

\* The journal implements the abstract log: an append is one durable
\* extension followed by one publication, whatever crashes in between.
Log == INSTANCE AppendLog WITH log     <- Loaded(file),
                               view    <- mem,
                               Records <- Record

\* Every behaviour of the store is one of the log (task_state.py:245-278).
LogSpec == Log!Spec
=============================================================================
