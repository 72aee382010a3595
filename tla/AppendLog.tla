------------------------------ MODULE AppendLog ------------------------------
(***************************************************************************)
(* What the hash-chained journals promise their users: a log that only     *)
(* grows, one record at a time, each record carrying its own position, and *)
(* a view of it that is empty while the process is down and otherwise      *)
(* trails the log by at most the record being written.  EventJournal       *)
(* (task_state.py) and RunJournal (journal.py) are checked against it.     *)
(***************************************************************************)
EXTENDS Naturals, Sequences

CONSTANT Records          \* every record a log may hold

VARIABLES log,            \* the durable records, in order
          view            \* the records the running process answers from

vars == <<log, view>>

Init == log = <<>> /\ view = <<>>

\* One record becomes durable at the end of the log; only a process that has
\* seen the whole log may add to it, and the record names the position it
\* takes.
OneMore == /\ view = log
           /\ Len(log') = Len(log) + 1
           /\ \A i \in 1 .. Len(log) : log'[i] = log[i]
           /\ log'[Len(log')] \in Records
           /\ log'[Len(log')].sequence = Len(log')

Extend == OneMore /\ UNCHANGED view

\* The process learns of what is durable, after an append or at start.
Publish == /\ view # log
           /\ view' = log
           /\ UNCHANGED log

\* The process dies: its view is lost, the log is not.
Forget == /\ view' = <<>>
          /\ UNCHANGED log

\* The process dies in the middle of an append that reached the disk.
ExtendAndForget == OneMore /\ view' = <<>>

Next == Extend \/ Publish \/ Forget \/ ExtendAndForget

Spec == Init /\ [][Next]_vars
=============================================================================
