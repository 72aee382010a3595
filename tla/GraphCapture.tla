---------------------------- MODULE GraphCapture ----------------------------
(***************************************************************************)
(* The operator graph store of APP8E (app8_graph_state.py) and the         *)
(* simulator whose history it keeps.  capture_supervision registers the    *)
(* graph, compares what is stored with the events it is given, and appends *)
(* the rest one fsynced record at a time; the process may die between any  *)
(* two of them, and a new simulator of the same graph starts from nothing. *)
(*                                                                         *)
(* A record is on disk and in the list of the store, or in neither: the    *)
(* file under the list is that of EventJournal, written by one thread.     *)
(***************************************************************************)
EXTENDS Supervision

CONSTANT MaxGraphEvents   \* _MAX_GRAPH_EVENTS

ASSUME MaxAssumption == MaxGraphEvents \in Nat

VARIABLES registered,     \* the graph has its registration record
          stored,         \* its event records, in order
          capturing       \* a capture_supervision is appending

store   == <<registered, stored>>
allVars == <<vars, store, capturing>>

-----------------------------------------------------------------------------
CaptureInit == Init /\ registered = FALSE /\ stored = <<>> /\ capturing = FALSE

\* The host drives the simulator; a capture is a call of the same thread.
Simulate == ~capturing /\ Next /\ UNCHANGED <<store, capturing>>

Register == /\ ~capturing /\ ~registered
            /\ registered' = TRUE
            /\ UNCHANGED <<vars, stored, capturing>>

\* Mutant of Matches: histories of the same length are taken for the same.
MatchesLength == Len(stored) <= Len(events)

\* The stored events are the first of those given, by fingerprint.
Matches == /\ Len(stored) <= Len(events)
           /\ \A i \in 1 .. Len(stored) : stored[i] = events[i]

\* A capture of anything else raises.
Capture == /\ ~capturing /\ registered /\ Matches
           /\ capturing' = TRUE
           /\ UNCHANGED <<vars, store>>

\* Mutant of CaptureEvent: it goes on past the events the store already has.
CaptureFirst ==
    /\ capturing /\ Len(stored) < Len(events)
    /\ Len(stored) < MaxGraphEvents
    /\ stored' = Append(stored, events[1])
    /\ UNCHANGED <<vars, registered, capturing>>

\* Mutant of CaptureEvent: the limit is not looked at.
CaptureUnlimited ==
    /\ capturing /\ Len(stored) < Len(events)
    /\ stored' = Append(stored, events[Len(stored) + 1])
    /\ UNCHANGED <<vars, registered, capturing>>

\* append_supervision_event of the next one.
CaptureEvent ==
    /\ capturing /\ Len(stored) < Len(events)
    /\ Len(stored) < MaxGraphEvents
    /\ stored' = Append(stored, events[Len(stored) + 1])
    /\ UNCHANGED <<vars, registered, capturing>>

\* Nothing is left to append, or the next record raises at the limit.
CaptureReturns ==
    /\ capturing
    /\ Len(stored) = Len(events) \/ Len(stored) >= MaxGraphEvents
    /\ capturing' = FALSE
    /\ UNCHANGED <<vars, store>>

\* The process dies and is started again: the store reloads its records, the
\* host builds the same graph and a simulator of it without events.
Restart == /\ events' = <<>>
           /\ settled' = [n \in Nodes |-> "none"]
           /\ evidence' = [n \in Nodes |-> FALSE]
           /\ reserved' = 0
           /\ capturing' = FALSE
           /\ UNCHANGED <<graph, store>>

CaptureNext == \/ Simulate
               \/ Register \/ Capture \/ CaptureEvent \/ CaptureReturns
               \/ Restart

CaptureSpec == CaptureInit /\ [][CaptureNext]_allVars

-----------------------------------------------------------------------------
\* Types, and the event limit of one graph (app8_graph_state.py:407).
CaptureTypeOK == /\ TypeOK
                 /\ registered \in BOOLEAN
                 /\ stored \in Seq(Event)
                 /\ Len(stored) <= MaxGraphEvents
                 /\ capturing \in BOOLEAN

\* What is stored is always a history the operator can look at: graph_view
\* replays it without raising, even when it was captured from several
\* simulators.
StoredReplays == Replay(graph, stored).accepted

\* ... and in what is stored, too, nodes come after their dependencies.
StoredInOrder == InOrder(stored)

\* A capture that returns below the limit leaves the supplied history in the
\* store, all of it and nothing else.
CaptureFaithful ==
    [][capturing /\ ~capturing' /\ events' = events /\ Len(events) < MaxGraphEvents
           => stored' = events]_allVars
=============================================================================
