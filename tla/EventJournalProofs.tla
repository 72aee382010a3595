-------------------------- MODULE EventJournalProofs --------------------------
(***************************************************************************)
(* What holds of EventJournal for any writers, payloads and bounds: its    *)
(* types, that no record is replaced and none lost unnoticed; and, for one *)
(* writer whose writes are either absent or complete on disk, that a       *)
(* restart is never refused and the abstract log is implemented.           *)
(***************************************************************************)
EXTENDS EventJournal, SequenceTheorems, TLAPS

-----------------------------------------------------------------------------
(* Types.                                                                   *)

\* A writer past Build has a record in hand.
Drafted == \A w \in Writers : pc[w] # "idle" => draft[w] \in Record

LEMMA LastHashType ==
    ASSUME NEW s \in Seq(Record)
    PROVE  LastHash(s) \in Nat
<1>1. CASE s = <<>>
  BY <1>1 DEF LastHash, ZeroHash
<1>2. CASE s # <<>>
  <2>1. Len(s) \in 1 .. Len(s)
    BY <1>2
  <2>2. s[Len(s)] \in Record
    BY <2>1
  <2> QED BY <1>2, <2>2 DEF LastHash, Record
<1> QED BY <1>1, <1>2

LEMMA WrittenType ==
    ASSUME NEW lines \in Seq(Line), NEW r \in Record, NEW left \in Leftovers
    PROVE  Written(lines, r, left) \in Seq(Line)
<1>1. [record |-> r, whole |-> left # "torn"] \in Line
  BY DEF Line
<1>2. Append(lines, [record |-> r, whole |-> left # "torn"]) \in Seq(Line)
  BY <1>1
<1>3. [lines EXCEPT ![Len(lines)].whole = FALSE] \in Seq(Line)
  <2> DEFINE n == Len(lines)
             cut == [lines EXCEPT ![n].whole = FALSE]
  <2>1. lines \in [1 .. n -> Line]
    BY LenProperties
  <2>2. \A i \in 1 .. n : [lines[i] EXCEPT !.whole = FALSE] \in Line
    <3> SUFFICES ASSUME NEW i \in 1 .. n
                 PROVE  [lines[i] EXCEPT !.whole = FALSE] \in Line
      OBVIOUS
    <3>1. lines[i] \in Line
      BY <2>1
    <3> QED BY <3>1 DEF Line
  <2>3. cut \in [1 .. n -> Line]
    <3>1. DOMAIN cut = 1 .. n
      BY <2>1
    <3>2. \A i \in 1 .. n : cut[i] = IF i = n THEN [lines[i] EXCEPT !.whole = FALSE]
                                             ELSE lines[i]
      BY <2>1
    <3>3. \A i \in 1 .. n : cut[i] \in Line
      BY <2>1, <2>2, <3>2
    <3>4. cut = [i \in 1 .. n |-> cut[i]]
      BY <3>1
    <3> HIDE DEF cut
    <3> QED BY <3>3, <3>4
  <2>4. n \in Nat
    BY LenProperties
  <2> QED BY <2>3, <2>4
<1> QED BY <1>2, <1>3 DEF Written

LEMMA LoadedType ==
    ASSUME NEW lines \in Seq(Line)
    PROVE  /\ Loaded(lines) \in Seq(Record)
           /\ Len(Loaded(lines)) = Len(lines)
           /\ \A i \in 1 .. Len(lines) : Loaded(lines)[i] = lines[i].record
<1>1. \A i \in 1 .. Len(lines) : lines[i].record \in Record
  <2>1. \A i \in 1 .. Len(lines) : lines[i] \in Line
    BY ElementOfSeq
  <2> QED BY <2>1 DEF Line
<1> QED BY <1>1 DEF Loaded

LEMMA BuildType ==
    ASSUME TypeOK, Drafted, NEW w \in Writers, NEW e \in Events, Build(w, e)
    PROVE  TypeOK' /\ Drafted'
<1> DEFINE r == [sequence |-> Len(mem) + 1, event |-> e,
                 previous_hash |-> LastHash(mem), hash |-> builds + 1]
<1>1. r \in Record
  <2>1. mem \in Seq(Record) /\ builds \in Nat
    BY DEF TypeOK
  <2>2. LastHash(mem) \in Nat /\ Len(mem) + 1 \in Nat
    BY <2>1, LastHashType, LenProperties
  <2> QED BY <2>1, <2>2 DEF Record
<1>2. draft' = [draft EXCEPT ![w] = r] /\ pc' = [pc EXCEPT ![w] = "built"]
  BY DEF Build
<1>3. draft' \in [Writers -> Record \cup {<<>>}] /\ Drafted'
  BY <1>1, <1>2 DEF TypeOK, Drafted
<1> QED BY <1>2, <1>3 DEF Build, TypeOK

\* A write, complete or not, leaves lines of the right type.
LEMMA WritingType ==
    ASSUME TypeOK, Drafted, NEW w \in Writers, pc[w] = "built",
           NEW left \in Leftovers, file' = Written(file, draft[w], left),
           terminated' = Terminated(left)
    PROVE  file' \in Seq(Line) /\ terminated' \in BOOLEAN
<1>1. draft[w] \in Record
  BY DEF Drafted
<1> QED BY <1>1, WrittenType DEF TypeOK, Terminated

LEMMA NextTypes ==
    ASSUME TypeOK, Drafted, [Next]_vars
    PROVE  TypeOK' /\ Drafted'
<1>1. CASE Start
  <2>1. mem' \in Seq(Record) /\ phase' \in {"running", "stopped", "refused"}
    BY <1>1, LoadedType DEF Start, TypeOK
  <2> QED BY <1>1, <2>1 DEF Start, TypeOK, Drafted
<1>2. CASE Crash
  BY <1>2 DEF Crash, Die, TypeOK, Drafted
<1>3. ASSUME NEW w \in Writers, NEW e \in Events, Build(w, e)
      PROVE  TypeOK' /\ Drafted'
  BY <1>3, BuildType
<1>4. ASSUME NEW w \in Writers, Write(w)
      PROVE  TypeOK' /\ Drafted'
  <2>1. file' \in Seq(Line) /\ terminated' \in BOOLEAN
    BY <1>4, WritingType DEF Write, Leftovers
  <2> QED BY <1>4, <2>1 DEF Write, TypeOK, Drafted
<1>5. ASSUME NEW w \in Writers, Remember(w)
      PROVE  TypeOK' /\ Drafted'
  <2>1. draft[w] \in Record
    BY <1>5 DEF Remember, Drafted
  <2>2. Append(mem, draft[w]) \in Seq(Record)
    BY <2>1 DEF TypeOK
  <2> QED BY <1>5, <2>1, <2>2 DEF Remember, TypeOK, Drafted
<1>6. ASSUME NEW w \in Writers, WriteFails(w)
      PROVE  TypeOK' /\ Drafted'
  <2>1. file' \in Seq(Line) /\ terminated' \in BOOLEAN
    BY <1>6, WritingType DEF WriteFails
  <2> QED BY <1>6, <2>1 DEF WriteFails, TypeOK, Drafted
<1>7. ASSUME NEW w \in Writers, CrashInWrite(w)
      PROVE  TypeOK' /\ Drafted'
  <2>1. file' \in Seq(Line) /\ terminated' \in BOOLEAN
    BY <1>7, WritingType, ConstantsAssumption DEF CrashInWrite
  <2> QED BY <1>7, <2>1 DEF CrashInWrite, Die, TypeOK, Drafted
<1>8. CASE UNCHANGED vars
  BY <1>8 DEF vars, TypeOK, Drafted
<1> QED BY <1>1, <1>2, <1>3, <1>4, <1>5, <1>6, <1>7, <1>8 DEF Next

LEMMA InitTypes == Init => TypeOK /\ Drafted
BY DEF Init, TypeOK, Drafted

\* Whatever races, crashes and fails, every line on disk and every record in
\* memory has the shape _append gives it (task_state.py, TaskEventStore).
THEOREM JournalTypeCorrect == Spec => []TypeOK
<1>1. Spec => [](TypeOK /\ Drafted)
  BY InitTypes, NextTypes, PTL DEF Spec
<1> QED BY <1>1, PTL

-----------------------------------------------------------------------------
(* Any writers and any faults.  Lines are only added, records are never     *)
(* replaced, and a damaged line stays damaged: an acknowledged record is    *)
(* either on a whole line or in a file that is not accepted any more.       *)

Damaged(lines) == \E i \in 1 .. Len(lines) : ~lines[i].whole

Kept(lines, r) ==
    \/ Damaged(lines)
    \/ \E i \in 1 .. Len(lines) : lines[i] = [record |-> r, whole |-> TRUE]

Grown(lines, more) ==
    /\ Len(lines) <= Len(more)
    /\ \A i \in 1 .. Len(lines) :
           /\ more[i].record = lines[i].record
           /\ ~lines[i].whole => ~more[i].whole

LossInv == /\ terminated \/ Len(file) > 0
           /\ \A r \in acked : Kept(file, r)
           /\ \A w \in Writers : pc[w] = "written" => Kept(file, draft[w])

\* What one write, complete or not, makes of the lines.
LEMMA WrittenGrows ==
    ASSUME NEW lines \in Seq(Line), NEW r \in Record, NEW left \in Leftovers,
           terminated \/ Len(lines) > 0
    PROVE  LET more == Written(lines, r, left)
           IN /\ Grown(lines, more)
              /\ left = "whole" => Kept(more, r)
              /\ Terminated(left) \/ Len(more) > 0
<1> DEFINE n == Len(lines)
           l == [record |-> r, whole |-> left # "torn"]
<1>1. n \in Nat /\ lines \in [1 .. n -> Line]
  BY LenProperties
<1>2. CASE left = "nothing"
  BY <1>1, <1>2 DEF Written, Terminated, Grown
<1>3. CASE left # "nothing" /\ terminated
  <2> DEFINE more == Append(lines, l)
  <2>1. l \in Line
    BY DEF Line
  <2>2. Len(more) = n + 1 /\ (\A i \in 1 .. n : more[i] = lines[i]) /\ more[n + 1] = l
    BY <2>1, AppendProperties
  <2>3. Written(lines, r, left) = more
    BY <1>3 DEF Written
  <2> HIDE DEF more
  <2>4. Grown(lines, more)
    BY <1>1, <2>2 DEF Grown
  <2>5. left = "whole" => Kept(more, r)
    <3> SUFFICES ASSUME left = "whole" PROVE Kept(more, r)
      OBVIOUS
    <3>1. l = [record |-> r, whole |-> TRUE]
      OBVIOUS
    <3>2. n + 1 \in 1 .. Len(more)
      BY <1>1, <2>2
    <3> QED BY <2>2, <3>1, <3>2 DEF Kept
  <2> QED BY <1>1, <2>2, <2>3, <2>4, <2>5
<1>4. CASE left # "nothing" /\ ~terminated
  <2> DEFINE more == [lines EXCEPT ![n].whole = FALSE]
  <2>1. Written(lines, r, left) = more
    BY <1>4 DEF Written
  <2>2. more \in Seq(Line)
    BY <2>1, WrittenType
  <2>3. DOMAIN more = 1 .. n
    BY <1>1
  <2>4. Len(more) = n
    BY <1>1, <2>2, <2>3, LenProperties
  <2>5. n \in 1 .. n
    BY <1>1, <1>4
  <2>6. \A i \in 1 .. n : lines[i] \in Line
    BY <1>1
  <2>7. \A i \in 1 .. n : /\ more[i].record = lines[i].record
                          /\ ~lines[i].whole => ~more[i].whole
    <3> SUFFICES ASSUME NEW i \in 1 .. n
                 PROVE  /\ more[i].record = lines[i].record
                        /\ ~lines[i].whole => ~more[i].whole
      OBVIOUS
    <3>1. CASE i = n
      <4>1. more[i] = [lines[i] EXCEPT !.whole = FALSE]
        BY <1>1, <3>1
      <4> QED BY <4>1, <2>6 DEF Line
    <3>2. CASE i # n
      <4>1. more[i] = lines[i]
        BY <1>1, <3>2
      <4> QED BY <4>1
    <3> QED BY <3>1, <3>2
  <2>8. ~more[n].whole
    <3>1. more[n] = [lines[n] EXCEPT !.whole = FALSE]
      BY <1>1, <2>5
    <3> QED BY <3>1, <2>5, <2>6 DEF Line
  <2> HIDE DEF more
  <2>9. Damaged(more)
    BY <2>4, <2>5, <2>8 DEF Damaged
  <2>10. Grown(lines, more)
    <3>1. Len(lines) <= Len(more)
      BY <1>1, <2>4
    <3> QED BY <2>7, <3>1 DEF Grown
  <2>11. Kept(more, r)
    BY <2>9 DEF Kept
  <2>12. Len(more) > 0
    BY <1>1, <2>4, <2>5
  <2> QED BY <2>1, <2>10, <2>11, <2>12
<1> QED BY <1>2, <1>3, <1>4

\* A record kept in lines is kept in what they grow into.
LEMMA KeptGrows ==
    ASSUME NEW lines \in Seq(Line), NEW more \in Seq(Line), Grown(lines, more),
           NEW r, Kept(lines, r)
    PROVE  Kept(more, r)
<1>1. Len(lines) \in Nat /\ Len(more) \in Nat
  BY LenProperties
<1>2. CASE Damaged(lines)
  <2>1. Damaged(more)
    BY <1>1, <1>2 DEF Damaged, Grown
  <2> QED BY <2>1 DEF Kept
<1>3. CASE ~Damaged(lines)
  <2>1. PICK i \in 1 .. Len(lines) : lines[i] = [record |-> r, whole |-> TRUE]
    BY <1>3 DEF Kept
  <2>2. i \in 1 .. Len(more) /\ more[i].record = r
    BY <1>1, <2>1 DEF Grown
  <2>3. more[i] \in Line
    BY <2>2, ElementOfSeq
  <2>4. CASE more[i].whole
    <3>1. more[i] = [record |-> r, whole |-> TRUE]
      BY <2>2, <2>3, <2>4 DEF Line
    <3> QED BY <2>2, <3>1 DEF Kept
  <2>5. CASE ~more[i].whole
    BY <2>2, <2>5 DEF Kept, Damaged
  <2> QED BY <2>4, <2>5
<1> QED BY <1>2, <1>3

LEMMA SameGrown ==
    ASSUME NEW lines \in Seq(Line)
    PROVE  Grown(lines, lines)
BY LenProperties DEF Grown

\* Whatever step is taken, the file grows.
LEMMA FileGrows ==
    ASSUME TypeOK, Drafted, LossInv, [Next]_vars
    PROVE  Grown(file, file') /\ (terminated' \/ Len(file') > 0)
<1>1. CASE file' = file /\ terminated' = terminated
  BY <1>1, SameGrown DEF TypeOK, LossInv
<1>2. ASSUME NEW w \in Writers, pc[w] = "built", NEW left \in Leftovers,
             file' = Written(file, draft[w], left), terminated' = Terminated(left)
      PROVE  Grown(file, file') /\ (terminated' \/ Len(file') > 0)
  BY <1>2, WrittenGrows DEF TypeOK, Drafted, LossInv
<1>3. ASSUME NEW w \in Writers, Write(w)
      PROVE  Grown(file, file') /\ (terminated' \/ Len(file') > 0)
  BY <1>2, <1>3 DEF Write, Leftovers
<1>4. ASSUME NEW w \in Writers, WriteFails(w)
      PROVE  Grown(file, file') /\ (terminated' \/ Len(file') > 0)
  BY <1>2, <1>4 DEF WriteFails
<1>5. ASSUME NEW w \in Writers, CrashInWrite(w)
      PROVE  Grown(file, file') /\ (terminated' \/ Len(file') > 0)
  BY <1>2, <1>5, ConstantsAssumption DEF CrashInWrite
<1>6. ASSUME NEW w \in Writers, NEW e \in Events, Build(w, e)
      PROVE  Grown(file, file') /\ (terminated' \/ Len(file') > 0)
  BY <1>1, <1>6 DEF Build
<1>7. ASSUME NEW w \in Writers, Remember(w)
      PROVE  Grown(file, file') /\ (terminated' \/ Len(file') > 0)
  BY <1>1, <1>7 DEF Remember
<1>8. CASE Start \/ Crash \/ UNCHANGED vars
  BY <1>1, <1>8 DEF Start, Crash, vars
<1> QED BY <1>3, <1>4, <1>5, <1>6, <1>7, <1>8 DEF Next

LEMMA LossNext ==
    ASSUME TypeOK, Drafted, LossInv, TypeOK', [Next]_vars
    PROVE  LossInv'
<1>1. /\ Grown(file, file') /\ (terminated' \/ Len(file') > 0)
      /\ file \in Seq(Line) /\ file' \in Seq(Line)
  BY FileGrows DEF TypeOK
<1>2. \A r : Kept(file, r) => Kept(file', r)
  BY <1>1, KeptGrows
<1>3. (\A r \in acked : Kept(file', r))
  BY <1>2 DEF LossInv
<1>4. \A w \in Writers : pc[w] = "written" => Kept(file', draft[w])
  BY <1>2 DEF LossInv
<1>5. CASE Start \/ Crash \/ UNCHANGED vars
  BY <1>1, <1>3, <1>4, <1>5 DEF Start, Crash, Die, vars, LossInv
<1>6. ASSUME NEW w \in Writers, NEW e \in Events, Build(w, e)
      PROVE  LossInv'
  BY <1>1, <1>3, <1>4, <1>6 DEF Build, LossInv, TypeOK
<1>7. ASSUME NEW w \in Writers, Write(w)
      PROVE  LossInv'
  <2>1. Kept(file', draft[w])
    BY <1>7, WrittenGrows DEF Write, LossInv, TypeOK, Drafted, Leftovers
  <2> QED BY <1>1, <1>3, <1>4, <1>7, <2>1 DEF Write, LossInv, TypeOK
<1>8. ASSUME NEW w \in Writers, Remember(w)
      PROVE  LossInv'
  BY <1>1, <1>3, <1>4, <1>8 DEF Remember, LossInv, TypeOK
<1>9. ASSUME NEW w \in Writers, WriteFails(w)
      PROVE  LossInv'
  BY <1>1, <1>3, <1>4, <1>9 DEF WriteFails, LossInv, TypeOK
<1>10. ASSUME NEW w \in Writers, CrashInWrite(w)
       PROVE  LossInv'
  BY <1>1, <1>3, <1>4, <1>10 DEF CrashInWrite, Die, LossInv
<1> QED BY <1>5, <1>6, <1>7, <1>8, <1>9, <1>10 DEF Next

LEMMA LossAlways == Spec => [](TypeOK /\ Drafted /\ LossInv)
<1>1. Init => LossInv
  BY DEF Init, LossInv
<1> QED BY <1>1, InitTypes, NextTypes, LossNext, PTL DEF Spec

\* However threads race, writes fail and crashes tear the file, a file that
\* _load accepts holds every record whose append returned (task_state.py).
THEOREM LossIsDetected == Spec => []LossDetected
<1>1. TypeOK /\ LossInv => LossDetected
  <2> SUFFICES ASSUME TypeOK, LossInv, Verifies(file), NEW r \in acked
               PROVE  /\ r.sequence \in 1 .. Len(file)
                      /\ file[r.sequence] = [record |-> r, whole |-> TRUE]
    BY DEF LossDetected
  <2>1. file \in Seq(Line) /\ DOMAIN file = 1 .. Len(file)
    BY LenProperties DEF TypeOK
  <2>2. ~Damaged(file)
    BY <2>1 DEF Verifies, Damaged
  <2>3. PICK i \in 1 .. Len(file) : file[i] = [record |-> r, whole |-> TRUE]
    BY <2>2 DEF LossInv, Kept
  <2>4. file[i].record.sequence = i
    BY <2>1 DEF Verifies
  <2> QED BY <2>3, <2>4
<1> QED BY <1>1, LossAlways, PTL

\* ... and no step of any of them replaces a record on disk.
THEOREM JournalAppendsOnly == Spec => AppendOnly
<1>1. TypeOK /\ Drafted /\ LossInv /\ [Next]_vars =>
          [/\ Len(file) <= Len(file')
           /\ \A i \in 1 .. Len(file) : file'[i].record = file[i].record]_vars
  <2> SUFFICES ASSUME TypeOK, Drafted, LossInv, [Next]_vars
               PROVE  /\ Len(file) <= Len(file')
                      /\ \A i \in 1 .. Len(file) : file'[i].record = file[i].record
    OBVIOUS
  <2> QED BY FileGrows DEF Grown
<1> QED BY <1>1, LossAlways, PTL DEF Spec, AppendOnly

-----------------------------------------------------------------------------
(* One writer.  The invariant follows an append: the record built continues *)
(* the list in memory, which is what the file holds until the line is       *)
(* written; then the file is one record ahead.                              *)

\* One thread appends, no write raises, and a crash leaves all of the line it
\* interrupts on disk or none of it.
Solo == /\ \E w : Writers = {w}
        /\ CrashLeaves \subseteq {"nothing", "whole"}
        /\ ~DiskErrors

\* r can follow the records of s.
Continues(s, r) == r.sequence = Len(s) + 1 /\ r.previous_hash = LastHash(s)

InStep(w) == /\ pc[w] \in {"idle", "built"} => mem = Loaded(file)
             /\ pc[w] = "built" => Continues(mem, draft[w])
             /\ pc[w] = "written" => Loaded(file) = Append(mem, draft[w])

SoloInv == /\ terminated
           /\ Verifies(file)
           /\ phase # "refused"
           /\ phase = "stopped" => mem = <<>> /\ \A w \in Writers : pc[w] = "idle"
           /\ phase = "running" => \A w \in Writers : InStep(w)

\* The last hash of a loaded file is the one of its last line.
LEMMA LoadedHash ==
    ASSUME NEW lines \in Seq(Line)
    PROVE  LastHash(Loaded(lines)) =
               IF Len(lines) = 0 THEN ZeroHash ELSE lines[Len(lines)].record.hash
<1>1. Len(lines) \in Nat
  BY LenProperties
<1>2. CASE Len(lines) = 0
  <2>1. Loaded(lines) = <<>>
    BY <1>2, LoadedType, EmptySeq
  <2> QED BY <1>2, <2>1 DEF LastHash
<1>3. CASE Len(lines) # 0
  <2>1. Len(Loaded(lines)) = Len(lines) /\ Len(<<>>) = 0
    BY LoadedType
  <2>2. Loaded(lines) # <<>>
    BY <1>3, <2>1
  <2>3. Len(lines) \in 1 .. Len(lines)
    BY <1>1, <1>3
  <2>4. Loaded(lines)[Len(lines)] = lines[Len(lines)].record
    BY <2>3, LoadedType
  <2> QED BY <1>3, <2>1, <2>2, <2>4 DEF LastHash
<1> QED BY <1>2, <1>3

\* A line that continues a file that loads makes one that loads, with one
\* record more.
LEMMA LineAdded ==
    ASSUME NEW lines \in Seq(Line), Verifies(lines), NEW r \in Record,
           Continues(Loaded(lines), r)
    PROVE  LET more == Append(lines, [record |-> r, whole |-> TRUE])
           IN Verifies(more) /\ Loaded(more) = Append(Loaded(lines), r)
<1> DEFINE l == [record |-> r, whole |-> TRUE]
           n == Len(lines)
           more == Append(lines, l)
<1>1. l \in Line /\ l.record = r /\ l.whole
  BY DEF Line
<1>2. n \in Nat /\ DOMAIN lines = 1 .. n
  BY LenProperties
<1>3. /\ more \in Seq(Line) /\ Len(more) = n + 1
      /\ \A i \in 1 .. n : more[i] = lines[i]
      /\ more[n + 1] = l
  BY <1>1, AppendProperties
<1>4. DOMAIN more = 1 .. n + 1
  BY <1>3, LenProperties
<1> HIDE DEF more, l, n
<1>5. /\ r.sequence = n + 1
      /\ r.previous_hash = IF n = 0 THEN ZeroHash ELSE lines[n].record.hash
  BY LoadedHash, LoadedType DEF Continues, n
<1>6. Verifies(more)
  <2> SUFFICES ASSUME NEW i \in 1 .. n + 1
               PROVE  /\ more[i].whole
                      /\ more[i].record.sequence = i
                      /\ more[i].record.previous_hash =
                             IF i = 1 THEN ZeroHash ELSE more[i - 1].record.hash
    BY <1>4 DEF Verifies
  <2>1. CASE i = n + 1
    <3>1. more[i].whole /\ more[i].record = r
      BY <1>1, <1>3, <2>1
    <3>2. n # 0 => more[i - 1] = lines[n]
      BY <1>2, <1>3, <2>1
    <3> QED BY <1>2, <1>5, <2>1, <3>1, <3>2
  <2>2. CASE i # n + 1
    <3>1. i \in 1 .. n
      BY <1>2, <2>2
    <3>2. more[i] = lines[i] /\ (i # 1 => more[i - 1] = lines[i - 1])
      BY <1>2, <1>3, <3>1
    <3>3. /\ lines[i].whole /\ lines[i].record.sequence = i
          /\ lines[i].record.previous_hash =
                 IF i = 1 THEN ZeroHash ELSE lines[i - 1].record.hash
      BY <3>1, <1>2 DEF Verifies
    <3> QED BY <3>2, <3>3
  <2> QED BY <2>1, <2>2
<1>7. Loaded(more) = Append(Loaded(lines), r)
  <2>1. /\ Loaded(lines) \in Seq(Record) /\ Len(Loaded(lines)) = n
        /\ \A i \in 1 .. n : Loaded(lines)[i] = lines[i].record
    BY LoadedType DEF n
  <2>2. /\ Loaded(more) \in Seq(Record) /\ Len(Loaded(more)) = n + 1
        /\ \A i \in 1 .. n + 1 : Loaded(more)[i] = more[i].record
    BY <1>3, LoadedType
  <2> DEFINE s == Append(Loaded(lines), r)
  <2>3. /\ s \in Seq(Record) /\ Len(s) = n + 1
        /\ \A i \in 1 .. n : s[i] = lines[i].record
        /\ s[n + 1] = r
    BY <2>1, AppendProperties
  <2> HIDE DEF s
  <2>4. \A i \in 1 .. n + 1 : Loaded(more)[i] = s[i]
    BY <1>1, <1>2, <1>3, <2>2, <2>3
  <2>5. Loaded(more) = s
    BY <2>2, <2>3, <2>4, SeqEqual
  <2> QED BY <2>5 DEF s
<1> QED BY <1>6, <1>7 DEF more, l

LEMMA SoloNext ==
    ASSUME Solo, TypeOK, Drafted, SoloInv, [Next]_vars
    PROVE  SoloInv'
<1>1. CASE Start
  <2>1. Verifies(file) /\ phase = "stopped" /\ \A w \in Writers : pc[w] = "idle"
    BY <1>1 DEF Start, SoloInv
  <2>2. phase' = "running" /\ mem' = Loaded(file) /\ UNCHANGED <<file, terminated, pc, draft>>
    BY <1>1, <2>1 DEF Start
  <2>3. Verifies(file)' /\ Loaded(file)' = Loaded(file)
    BY <2>1, <2>2
  <2> QED BY <2>1, <2>2, <2>3 DEF SoloInv, InStep
<1>2. CASE Crash
  <2>1. /\ phase' = "stopped" /\ mem' = <<>> /\ \A w \in Writers : pc'[w] = "idle"
        /\ file' = file /\ terminated' = terminated
    BY <1>2 DEF Crash, Die
  <2> QED BY <2>1 DEF SoloInv
<1>3. ASSUME NEW w \in Writers, NEW e \in Events, Build(w, e)
      PROVE  SoloInv'
  <2>1. /\ phase = "running" /\ pc[w] = "idle"
        /\ UNCHANGED <<file, terminated, mem, phase>>
        /\ pc'[w] = "built"
        /\ draft'[w].sequence = Len(mem) + 1
        /\ draft'[w].previous_hash = LastHash(mem)
    BY <1>3 DEF Build, TypeOK
  <2>2. mem = Loaded(file)
    BY <2>1 DEF SoloInv, InStep
  <2>3. InStep(w)'
    BY <2>1, <2>2 DEF InStep, Continues
  <2> QED BY <2>1, <2>3 DEF SoloInv, Solo
<1>4. ASSUME NEW w \in Writers, Write(w)
      PROVE  SoloInv'
  <2>1. /\ pc[w] = "built" /\ pc'[w] = "written" /\ terminated /\ Verifies(file)
        /\ UNCHANGED <<mem, phase, draft>>
    BY <1>4 DEF Write, TypeOK, SoloInv
  <2>2. phase = "running"
    BY <2>1 DEF SoloInv, TypeOK
  <2>3. mem = Loaded(file) /\ Continues(mem, draft[w]) /\ draft[w] \in Record
    BY <2>1, <2>2 DEF SoloInv, InStep, Drafted
  <2>4. file' = Append(file, [record |-> draft[w], whole |-> TRUE]) /\ terminated'
    BY <1>4, <2>1 DEF Write, Written, Terminated
  <2>5. Verifies(file') /\ Loaded(file') = Append(Loaded(file), draft[w])
    BY <2>1, <2>3, <2>4, LineAdded DEF TypeOK
  <2>6. InStep(w)'
    BY <2>1, <2>3, <2>5 DEF InStep
  <2> QED BY <2>1, <2>2, <2>4, <2>5, <2>6 DEF SoloInv, Solo
<1>5. ASSUME NEW w \in Writers, Remember(w)
      PROVE  SoloInv'
  <2>1. /\ pc[w] = "written" /\ pc'[w] = "idle" /\ mem' = Append(mem, draft[w])
        /\ UNCHANGED <<file, terminated, phase, draft>>
    BY <1>5 DEF Remember, TypeOK
  <2>2. phase = "running"
    BY <2>1 DEF SoloInv, TypeOK
  <2>3. mem' = Loaded(file)
    BY <2>1, <2>2 DEF SoloInv, InStep
  <2>4. InStep(w)'
    BY <2>1, <2>3 DEF InStep
  <2> QED BY <2>1, <2>2, <2>4 DEF SoloInv, Solo
<1>6. ASSUME NEW w \in Writers, WriteFails(w)
      PROVE  SoloInv'
  BY <1>6 DEF WriteFails, Solo
<1>7. ASSUME NEW w \in Writers, CrashInWrite(w)
      PROVE  SoloInv'
  <2>1. PICK left \in {"nothing", "whole"} :
            /\ file' = Written(file, draft[w], left)
            /\ terminated' = Terminated(left)
    BY <1>7 DEF CrashInWrite, Solo
  <2>2. /\ pc[w] = "built" /\ terminated /\ Verifies(file)
        /\ phase' = "stopped" /\ mem' = <<>> /\ \A v \in Writers : pc'[v] = "idle"
    BY <1>7 DEF CrashInWrite, Die, SoloInv
  <2>3. phase = "running"
    BY <2>2 DEF SoloInv, TypeOK
  <2>4. mem = Loaded(file) /\ Continues(mem, draft[w]) /\ draft[w] \in Record
    BY <2>2, <2>3 DEF SoloInv, InStep, Drafted
  <2>5. CASE left = "nothing"
    <3>1. file' = file /\ terminated' = terminated
      BY <2>1, <2>5 DEF Written, Terminated
    <3> QED BY <3>1, <2>2 DEF SoloInv
  <2>6. CASE left = "whole"
    <3>1. file' = Append(file, [record |-> draft[w], whole |-> TRUE]) /\ terminated'
      BY <2>1, <2>2, <2>6 DEF Written, Terminated
    <3>2. Verifies(file')
      BY <2>2, <2>4, <3>1, LineAdded DEF TypeOK
    <3> QED BY <3>1, <3>2, <2>2 DEF SoloInv
  <2> QED BY <2>5, <2>6
<1>8. CASE UNCHANGED vars
  BY <1>8 DEF vars, SoloInv, InStep
<1> QED BY <1>1, <1>2, <1>3, <1>4, <1>5, <1>6, <1>7, <1>8 DEF Next

LEMMA SoloInit == Init => SoloInv
BY EmptySeq DEF Init, SoloInv, Verifies

LEMMA SoloAlways ==
    ASSUME Solo
    PROVE  Spec => [](TypeOK /\ Drafted /\ SoloInv)
BY InitTypes, NextTypes, SoloInit, SoloNext, PTL DEF Spec

\* With one writer and writes that are all or nothing, _load accepts whatever
\* _append wrote, whenever the process died (task_state.py).
THEOREM SoloReconstructs ==
    ASSUME Solo
    PROVE  Spec => []RestartReconstructs
<1>1. SoloInv => RestartReconstructs
  BY DEF SoloInv, RestartReconstructs
<1> QED BY <1>1, SoloAlways, PTL

\* ... and between appends the process answers from what is on disk.
THEOREM SoloMirrors ==
    ASSUME Solo
    PROVE  Spec => []MemoryMirrorsDisk
<1>1. TypeOK /\ SoloInv => MemoryMirrorsDisk
  BY DEF SoloInv, InStep, MemoryMirrorsDisk, Solo, TypeOK
<1> QED BY <1>1, SoloAlways, PTL

-----------------------------------------------------------------------------
(* The journal of one writer implements the abstract log.                   *)

\* A record that continues the log extends it by one step of AppendLog.
LEMMA OneMoreRecord ==
    ASSUME mem \in Seq(Record), mem = Loaded(file),
           NEW r \in Record, r.sequence = Len(mem) + 1,
           Loaded(file)' = Append(mem, r)
    PROVE  Log!OneMore
<1>1. Len(mem) \in Nat
  BY LenProperties
<1> DEFINE more == Append(mem, r)
<1>2. /\ Len(more) = Len(mem) + 1
      /\ \A i \in 1 .. Len(mem) : more[i] = mem[i]
      /\ more[Len(mem) + 1] = r
  BY AppendProperties
<1> HIDE DEF more
<1>3. Loaded(file)' = more
  BY DEF more
<1> QED BY <1>1, <1>2, <1>3 DEF Log!OneMore

\* Every step of the journal is a step of the log or none: the write extends
\* it, the list in memory and the start publish it, a death forgets the view.
LEMMA StepOfLog ==
    ASSUME Solo, TypeOK, Drafted, SoloInv, TypeOK', SoloInv', [Next]_vars
    PROVE  [Log!Next]_(Log!vars)
<1>1. CASE Start
  <2>1. mem' = Loaded(file) /\ file' = file
    BY <1>1 DEF Start, SoloInv
  <2>2. Loaded(file)' = Loaded(file)
    BY <2>1
  <2>3. CASE mem = Loaded(file)
    BY <2>1, <2>2, <2>3 DEF Log!vars
  <2>4. CASE mem # Loaded(file)
    BY <2>1, <2>2, <2>4 DEF Log!Publish, Log!Next
  <2> QED BY <2>3, <2>4
<1>2. CASE Crash
  <2>1. mem' = <<>> /\ Loaded(file)' = Loaded(file)
    BY <1>2 DEF Crash, Die
  <2> QED BY <2>1 DEF Log!Forget, Log!Next
<1>3. ASSUME NEW w \in Writers, NEW e \in Events, Build(w, e)
      PROVE  [Log!Next]_(Log!vars)
  <2>1. mem' = mem /\ Loaded(file)' = Loaded(file)
    BY <1>3 DEF Build
  <2> QED BY <2>1 DEF Log!vars
<1>4. ASSUME NEW w \in Writers, Write(w)
      PROVE  [Log!Next]_(Log!vars)
  <2>1. /\ pc[w] = "built" /\ pc'[w] = "written" /\ mem' = mem /\ phase' = phase
        /\ draft' = draft
    BY <1>4 DEF Write, TypeOK
  <2>2. phase = "running"
    BY <2>1 DEF SoloInv, TypeOK
  <2>3. /\ mem \in Seq(Record) /\ mem = Loaded(file)
        /\ draft[w] \in Record /\ draft[w].sequence = Len(mem) + 1
    BY <2>1, <2>2 DEF TypeOK, Drafted, SoloInv, InStep, Continues
  <2>4. Loaded(file)' = Append(mem, draft[w])
    BY <2>1, <2>2 DEF SoloInv, InStep
  <2>5. Log!OneMore
    BY <2>3, <2>4, OneMoreRecord
  <2> QED BY <2>1, <2>5 DEF Log!Extend, Log!Next
<1>5. ASSUME NEW w \in Writers, Remember(w)
      PROVE  [Log!Next]_(Log!vars)
  <2>1. /\ pc[w] = "written" /\ mem' = Append(mem, draft[w]) /\ file' = file
    BY <1>5 DEF Remember
  <2>2. phase = "running"
    BY <2>1 DEF SoloInv, TypeOK
  <2>3. mem' = Loaded(file) /\ Loaded(file)' = Loaded(file)
    BY <2>1, <2>2 DEF SoloInv, InStep
  <2>4. CASE mem = Loaded(file)
    BY <2>3, <2>4 DEF Log!vars
  <2>5. CASE mem # Loaded(file)
    BY <2>3, <2>5 DEF Log!Publish, Log!Next
  <2> QED BY <2>4, <2>5
<1>6. ASSUME NEW w \in Writers, WriteFails(w)
      PROVE  [Log!Next]_(Log!vars)
  BY <1>6 DEF WriteFails, Solo
<1>7. ASSUME NEW w \in Writers, CrashInWrite(w)
      PROVE  [Log!Next]_(Log!vars)
  <2>1. PICK left \in {"nothing", "whole"} : file' = Written(file, draft[w], left)
    BY <1>7 DEF CrashInWrite, Solo
  <2>2. pc[w] = "built" /\ terminated /\ mem' = <<>> /\ Verifies(file)
    BY <1>7 DEF CrashInWrite, Die, SoloInv
  <2>3. phase = "running"
    BY <2>2 DEF SoloInv, TypeOK
  <2>4. /\ mem \in Seq(Record) /\ mem = Loaded(file) /\ file \in Seq(Line)
        /\ Continues(mem, draft[w])
        /\ draft[w] \in Record /\ draft[w].sequence = Len(mem) + 1
    BY <2>2, <2>3 DEF TypeOK, Drafted, SoloInv, InStep, Continues
  <2>5. CASE left = "nothing"
    <3>1. Loaded(file)' = Loaded(file)
      BY <2>1, <2>5 DEF Written
    <3> QED BY <3>1, <2>2 DEF Log!Forget, Log!Next
  <2>6. CASE left = "whole"
    <3>1. file' = Append(file, [record |-> draft[w], whole |-> TRUE])
      BY <2>1, <2>2, <2>6 DEF Written
    <3>2. Loaded(file') = Append(Loaded(file), draft[w])
      BY <2>2, <2>4, <3>1, LineAdded
    <3>3. Log!OneMore
      BY <2>4, <3>2, OneMoreRecord
    <3> QED BY <3>3, <2>2 DEF Log!ExtendAndForget, Log!Next
  <2> QED BY <2>5, <2>6
<1>8. CASE UNCHANGED vars
  <2>1. mem' = mem /\ Loaded(file)' = Loaded(file)
    BY <1>8 DEF vars
  <2> QED BY <2>1 DEF Log!vars
<1> QED BY <1>1, <1>2, <1>3, <1>4, <1>5, <1>6, <1>7, <1>8 DEF Next

\* A journal written by one thread, whose writes are all or nothing, is an
\* append-only log that loses no record and reorders none (task_state.py).
THEOREM SoloImplementsLog ==
    ASSUME Solo
    PROVE  Spec => LogSpec
<1>1. Init => Log!Init
  BY LoadedType, EmptySeq DEF Init, Log!Init, Loaded
<1>2. Solo OBVIOUS
<1>3. /\ TypeOK /\ Drafted /\ SoloInv /\ (TypeOK /\ Drafted /\ SoloInv)' /\ [Next]_vars
          => [Log!Next]_(Log!vars)
  BY <1>2, StepOfLog
<1> QED BY <1>1, <1>3, SoloAlways, PTL DEF Spec, LogSpec, Log!Spec
=============================================================================
