-------------------------- MODULE GraphCaptureProofs --------------------------
(***************************************************************************)
(* Theorems about GraphCapture for every set of graphs, however large, and *)
(* every result a host may report: types, the order of dependencies in the *)
(* simulator's history and in what the store keeps of several simulators,  *)
(* and what a capture that returns has stored.                             *)
(***************************************************************************)
EXTENDS GraphCapture, SequenceTheorems, TLAPS

\* The event a schedule and the event a result append.
Scheduled(n)        == [sequence |-> Len(events) + 1, type |-> "scheduled",
                        node |-> n, evidence |-> FALSE]
Reported(n, result) == [sequence |-> Len(events) + 1, type |-> result.outcome,
                        node |-> n, evidence |-> result.evidence]

LEMMA GraphType ==
    ASSUME TypeOK
    PROVE  /\ graph.deps \in [Nodes -> SUBSET Nodes]
           /\ graph.gated \subseteq Nodes
           /\ graph.cost \in [Nodes -> Nat]
           /\ graph.limit \in Nat
<1>1. graph \in Graph
  BY GraphsAssumption DEF TypeOK
<1> QED BY <1>1 DEF Graph

LEMMA ScheduledType ==
    ASSUME TypeOK, NEW n \in Nodes
    PROVE  Scheduled(n) \in Event
<1>1. Len(events) + 1 \in Nat
  BY LenProperties DEF TypeOK
<1> QED BY <1>1 DEF Scheduled, Event, EventTypes

LEMMA ReportedType ==
    ASSUME TypeOK, NEW n \in Nodes, NEW result \in Results
    PROVE  Reported(n, result) \in Event
<1>1. Len(events) + 1 \in Nat
  BY LenProperties DEF TypeOK
<1>2. result \in [outcome : Terminal, evidence : BOOLEAN]
  BY ResultsAssumption
<1>3. result.outcome \in Terminal /\ result.evidence \in BOOLEAN
  BY <1>2
<1> QED BY <1>1, <1>3 DEF Reported, Event, EventTypes

-----------------------------------------------------------------------------
(* Types.                                                                   *)

LEMMA SimulatorTypes ==
    ASSUME TypeOK, Next
    PROVE  TypeOK'
<1>1. CASE ScheduleNext
  <2>1. PICK n \in Candidates :
            /\ events' = Append(events, Scheduled(n))
            /\ settled' = [settled EXCEPT ![n] = "running"]
            /\ reserved' = reserved + graph.cost[n]
    BY <1>1 DEF ScheduleNext, Scheduled
  <2>2. n \in Nodes
    BY DEF Candidates
  <2>3. events' \in Seq(Event)
    BY <2>1, <2>2, ScheduledType, AppendProperties DEF TypeOK
  <2>4. reserved' \in Nat
    BY <2>1, <2>2, GraphType DEF TypeOK
  <2>5. settled' \in [Nodes -> {"none", "running"} \cup Terminal]
    BY <2>1 DEF TypeOK
  <2>6. graph' \in Graphs /\ evidence' \in [Nodes -> BOOLEAN]
    BY <1>1 DEF ScheduleNext, TypeOK
  <2> QED BY <2>3, <2>4, <2>5, <2>6 DEF TypeOK
<1>2. CASE \E n \in Nodes, result \in Results : RecordResult(n, result)
  <2>1. PICK n \in Nodes, result \in Results : RecordResult(n, result)
    BY <1>2
  <2>2. result.outcome \in Terminal /\ result.evidence \in BOOLEAN
    BY ResultsAssumption
  <2>3. events' \in Seq(Event)
    BY <2>1, ReportedType, AppendProperties DEF RecordResult, Reported, TypeOK
  <2>4. settled' \in [Nodes -> {"none", "running"} \cup Terminal]
    BY <2>1, <2>2 DEF RecordResult, TypeOK
  <2>5. evidence' \in [Nodes -> BOOLEAN]
    BY <2>1, <2>2 DEF RecordResult, TypeOK
  <2>6. graph' \in Graphs /\ reserved' \in Nat
    BY <2>1 DEF RecordResult, TypeOK
  <2> QED BY <2>3, <2>4, <2>5, <2>6 DEF TypeOK
<1> QED BY <1>1, <1>2 DEF Next

LEMMA KeptTypes == TypeOK /\ UNCHANGED vars => TypeOK'
  BY DEF TypeOK, vars

\* A capture appends an event of the history it was given, below the limit.
LEMMA StoreGrows ==
    ASSUME CaptureTypeOK, CaptureEvent
    PROVE  /\ stored' \in Seq(Event)
           /\ Len(stored') = Len(stored) + 1
           /\ \A i \in 1 .. Len(stored) : stored'[i] = stored[i]
           /\ stored'[Len(stored) + 1] = events[Len(stored) + 1]
           /\ Len(stored') <= MaxGraphEvents
<1>1. stored \in Seq(Event) /\ events \in Seq(Event)
  BY DEF CaptureTypeOK, TypeOK
<1>2. Len(stored) \in Nat /\ Len(events) \in Nat
  BY <1>1, LenProperties
<1>3. Len(stored) + 1 \in 1 .. Len(events)
  BY <1>2 DEF CaptureEvent
<1>4. events[Len(stored) + 1] \in Event
  BY <1>1, <1>3, ElementOfSeq
<1>5. stored' = Append(stored, events[Len(stored) + 1])
  BY DEF CaptureEvent
<1>6. /\ stored' \in Seq(Event)
      /\ Len(stored') = Len(stored) + 1
      /\ \A i \in 1 .. Len(stored) : stored'[i] = stored[i]
      /\ stored'[Len(stored) + 1] = events[Len(stored) + 1]
  BY <1>1, <1>4, <1>5, AppendProperties
<1>7. Len(stored') <= MaxGraphEvents
  BY <1>2, <1>6, MaxAssumption DEF CaptureEvent
<1> QED BY <1>6, <1>7

LEMMA CaptureNextTypes ==
    ASSUME CaptureTypeOK, [CaptureNext]_allVars
    PROVE  CaptureTypeOK'
<1>1. CASE Simulate
  BY <1>1, SimulatorTypes DEF Simulate, CaptureTypeOK, store
<1>2. CASE Register
  BY <1>2, KeptTypes DEF Register, CaptureTypeOK
<1>3. CASE Capture
  BY <1>3, KeptTypes DEF Capture, CaptureTypeOK, store
<1>4. CASE CaptureEvent
  BY <1>4, KeptTypes, StoreGrows DEF CaptureEvent, CaptureTypeOK
<1>5. CASE CaptureReturns
  BY <1>5, KeptTypes DEF CaptureReturns, CaptureTypeOK, store
<1>6. CASE Restart
  <2>1. TypeOK'
    BY <1>6, EmptySeq DEF Restart, CaptureTypeOK, TypeOK
  <2> QED BY <1>6, <2>1 DEF Restart, CaptureTypeOK, store
<1>7. CASE UNCHANGED allVars
  BY <1>7, KeptTypes DEF allVars, store, CaptureTypeOK
<1> QED BY <1>1, <1>2, <1>3, <1>4, <1>5, <1>6, <1>7 DEF CaptureNext

LEMMA CaptureInitTypes == CaptureInit => CaptureTypeOK
<1> SUFFICES ASSUME CaptureInit PROVE CaptureTypeOK
  OBVIOUS
<1>1. <<>> \in Seq(Event) /\ Len(<<>>) = 0
  BY EmptySeq
<1>2. TypeOK
  BY <1>1 DEF CaptureInit, Init, TypeOK
<1>3. stored \in Seq(Event) /\ Len(stored) = 0
  BY <1>1 DEF CaptureInit
<1>4. Len(stored) <= MaxGraphEvents
  BY <1>3, MaxAssumption
<1>5. registered \in BOOLEAN /\ capturing \in BOOLEAN
  BY DEF CaptureInit
<1> QED BY <1>2, <1>3, <1>4, <1>5 DEF CaptureTypeOK

\* The graph store and the simulator keep their types, and the store its limit.
THEOREM CaptureTypeCorrect == CaptureSpec => []CaptureTypeOK
  BY CaptureInitTypes, CaptureNextTypes, PTL DEF CaptureSpec

-----------------------------------------------------------------------------
(* Order.  A node of which no event tells has not been scheduled, and one   *)
(* that passed has the event that says so: then whatever is scheduled next  *)
(* comes after its dependencies, and a longer history keeps the order.      *)

\* The event at i of a log is in order, given those before it.
InOrderAt(log, i) ==
    log[i].type = "scheduled" =>
        /\ log[i].node \notin graph.gated
        /\ \A d \in graph.deps[log[i].node] : \E j \in 1 .. i - 1 :
              log[j].node = d /\ log[j].type = "pass" /\ log[j].evidence
        /\ \A j \in 1 .. i - 1 :
              log[j].type = "scheduled" => log[j].node # log[i].node

LEMMA InOrderEach ==
    ASSUME NEW log
    PROVE  InOrder(log) <=> \A i \in 1 .. Len(log) : InOrderAt(log, i)
  BY DEF InOrder, InOrderAt

Unscheduled(n) == \A i \in 1 .. Len(events) :
                      events[i].type = "scheduled" => events[i].node # n

PassedEvent(n) == \E i \in 1 .. Len(events) :
                      /\ events[i].node = n
                      /\ events[i].type = "pass"
                      /\ events[i].evidence

HistoryInv == /\ \A n \in Nodes : settled[n] = "none" => Unscheduled(n)
              /\ \A n \in Nodes : settled[n] = "pass" => PassedEvent(n)
              /\ InOrder(events)

\* A log that agrees with another one up to i is in order there as well.
LEMMA SameOrder ==
    ASSUME NEW log, NEW more, NEW i \in Nat, InOrderAt(log, i),
           \A j \in 1 .. i : more[j] = log[j], i >= 1
    PROVE  InOrderAt(more, i)
<1>1. more[i] = log[i] /\ \A j \in 1 .. i - 1 : more[j] = log[j]
  OBVIOUS
<1> QED BY <1>1 DEF InOrderAt

LEMMA AddedInOrder ==
    ASSUME NEW log, NEW more, Len(log) \in Nat, Len(more) = Len(log) + 1,
           \A i \in 1 .. Len(log) : more[i] = log[i],
           InOrder(log), InOrderAt(more, Len(log) + 1)
    PROVE  InOrder(more)
<1>1. SUFFICES ASSUME NEW i \in 1 .. Len(more) PROVE InOrderAt(more, i)
  BY InOrderEach
<1>2. CASE i \in 1 .. Len(log)
  <2>1. InOrderAt(log, i)
    BY <1>2, InOrderEach
  <2>2. \A j \in 1 .. i : more[j] = log[j]
    BY <1>2
  <2> QED BY <1>2, <2>1, <2>2, SameOrder
<1>3. CASE i = Len(log) + 1
  BY <1>3
<1> QED BY <1>1, <1>2, <1>3

\* What an event added to the history leaves as it was.
LEMMA HistoryGrows ==
    ASSUME TypeOK, NEW e \in Event, events' = Append(events, e)
    PROVE  /\ Len(events) \in Nat
           /\ Len(events') = Len(events) + 1
           /\ \A i \in 1 .. Len(events) : events'[i] = events[i]
           /\ events'[Len(events) + 1] = e
  BY AppendProperties, LenProperties DEF TypeOK

LEMMA PassedKept ==
    ASSUME TypeOK, NEW e \in Event, events' = Append(events, e),
           NEW n \in Nodes, PassedEvent(n)
    PROVE  PassedEvent(n)'
<1>1. PICK i \in 1 .. Len(events) : /\ events[i].node = n
                                    /\ events[i].type = "pass"
                                    /\ events[i].evidence
  BY DEF PassedEvent
<1>2. i \in 1 .. Len(events') /\ events'[i] = events[i]
  BY HistoryGrows
<1> QED BY <1>1, <1>2 DEF PassedEvent

LEMMA UnscheduledKept ==
    ASSUME TypeOK, NEW e \in Event, events' = Append(events, e),
           NEW n \in Nodes, Unscheduled(n), e.type = "scheduled" => e.node # n
    PROVE  Unscheduled(n)'
<1>1. SUFFICES ASSUME NEW i \in 1 .. Len(events'), events'[i].type = "scheduled"
               PROVE  events'[i].node # n
  BY DEF Unscheduled
<1>2. CASE i \in 1 .. Len(events)
  BY <1>1, <1>2, HistoryGrows DEF Unscheduled
<1>3. CASE i = Len(events) + 1
  BY <1>1, <1>3, HistoryGrows
<1> QED BY <1>2, <1>3, HistoryGrows

LEMMA ScheduleHistory ==
    ASSUME TypeOK, HistoryInv, ScheduleNext
    PROVE  HistoryInv'
<1>1. PICK n \in Candidates : /\ events' = Append(events, Scheduled(n))
                              /\ settled' = [settled EXCEPT ![n] = "running"]
  BY DEF ScheduleNext, Scheduled
<1>2. n \in Nodes /\ Ready(n) /\ n \notin graph.gated
  BY DEF Candidates
<1>3. Scheduled(n) \in Event
  BY <1>2, ScheduledType
<1>4. graph' = graph
  BY DEF ScheduleNext
<1>5. /\ settled'[n] = "running"
      /\ \A m \in Nodes : m # n => settled'[m] = settled[m]
  BY <1>1, <1>2 DEF TypeOK
<1>6. ASSUME NEW m \in Nodes, settled'[m] = "none"
      PROVE  Unscheduled(m)'
  <2>1. m # n /\ Unscheduled(m)
    BY <1>5, <1>6 DEF HistoryInv
  <2>2. Scheduled(n).node # m
    BY <2>1 DEF Scheduled
  <2> QED BY <1>1, <1>3, <2>1, <2>2, UnscheduledKept
<1>7. ASSUME NEW m \in Nodes, settled'[m] = "pass"
      PROVE  PassedEvent(m)'
  <2>1. m # n /\ PassedEvent(m)
    BY <1>5, <1>7 DEF HistoryInv
  <2> QED BY <1>1, <1>3, <2>1, PassedKept
<1>8. InOrderAt(events', Len(events) + 1)
  <2>1. /\ Len(events) \in Nat
        /\ \A i \in 1 .. Len(events) : events'[i] = events[i]
        /\ events'[Len(events) + 1] = Scheduled(n)
    BY <1>1, <1>3, HistoryGrows
  <2>2. (Len(events) + 1) - 1 = Len(events)
    BY <2>1
  <2>3. Scheduled(n).node = n
    BY DEF Scheduled
  <2>4. ASSUME NEW d \in graph.deps[n]
        PROVE  \E j \in 1 .. Len(events) : /\ events'[j].node = d
                                            /\ events'[j].type = "pass"
                                            /\ events'[j].evidence
    <3>1. d \in Nodes /\ settled[d] = "pass"
      BY <1>2, <2>4, GraphType DEF Ready
    <3>2. PassedEvent(d)
      BY <3>1 DEF HistoryInv
    <3> QED BY <2>1, <3>2 DEF PassedEvent
  <2>5. \A j \in 1 .. Len(events) :
            events'[j].type = "scheduled" => events'[j].node # n
    <3>1. Unscheduled(n)
      BY <1>2 DEF Ready, Waiting, HistoryInv
    <3> QED BY <2>1, <3>1 DEF Unscheduled
  <2> QED BY <1>2, <2>1, <2>2, <2>3, <2>4, <2>5 DEF InOrderAt
<1>9. InOrder(events')
  BY <1>1, <1>3, <1>8, HistoryGrows, AddedInOrder DEF HistoryInv
<1>10. InOrder(events)'
  BY <1>4, <1>9 DEF InOrder
<1> QED BY <1>6, <1>7, <1>10 DEF HistoryInv

LEMMA ResultHistory ==
    ASSUME TypeOK, HistoryInv, NEW n \in Nodes, NEW result \in Results,
           RecordResult(n, result)
    PROVE  HistoryInv'
<1>1. events' = Append(events, Reported(n, result))
  BY DEF RecordResult, Reported
<1>2. Reported(n, result) \in Event
  BY ReportedType
<1>3. result.outcome \in Terminal /\ result.evidence \in BOOLEAN
  BY ResultsAssumption
<1>4. /\ settled'[n] = result.outcome
      /\ \A m \in Nodes : m # n => settled'[m] = settled[m]
  BY DEF RecordResult, TypeOK
<1>5. graph' = graph
  BY DEF RecordResult
<1>6. Reported(n, result).type # "scheduled"
  BY <1>3 DEF Reported, Terminal
<1>7. ASSUME NEW m \in Nodes, settled'[m] = "none"
      PROVE  Unscheduled(m)'
  <2>1. m # n /\ Unscheduled(m)
    BY <1>3, <1>4, <1>7 DEF HistoryInv, Terminal
  <2> QED BY <1>1, <1>2, <1>6, <2>1, UnscheduledKept
<1>8. ASSUME NEW m \in Nodes, settled'[m] = "pass"
      PROVE  PassedEvent(m)'
  <2>1. CASE m = n
    <3>1. result.outcome = "pass" /\ result.evidence
      BY <1>4, <1>8, <2>1 DEF RecordResult, Reportable
    <3>2. /\ Len(events) + 1 \in 1 .. Len(events')
          /\ events'[Len(events) + 1] = Reported(n, result)
      BY <1>1, <1>2, HistoryGrows
    <3>3. /\ Reported(n, result).node = n
          /\ Reported(n, result).type = "pass"
          /\ Reported(n, result).evidence
      BY <3>1 DEF Reported
    <3> QED BY <2>1, <3>2, <3>3 DEF PassedEvent
  <2>2. CASE m # n
    <3>1. PassedEvent(m)
      BY <1>4, <1>8, <2>2 DEF HistoryInv
    <3> QED BY <1>1, <1>2, <3>1, PassedKept
  <2> QED BY <2>1, <2>2
<1>9. InOrderAt(events', Len(events) + 1)
  BY <1>1, <1>2, <1>6, HistoryGrows DEF InOrderAt
<1>10. InOrder(events')
  BY <1>1, <1>2, <1>9, HistoryGrows, AddedInOrder DEF HistoryInv
<1>11. InOrder(events)'
  BY <1>5, <1>10 DEF InOrder
<1> QED BY <1>7, <1>8, <1>11 DEF HistoryInv

LEMMA SimulatorHistory ==
    ASSUME TypeOK, HistoryInv, Next
    PROVE  HistoryInv'
  BY ScheduleHistory, ResultHistory DEF Next

LEMMA HistoryKept == HistoryInv /\ UNCHANGED vars => HistoryInv'
  BY DEF HistoryInv, Unscheduled, PassedEvent, InOrder, vars

\* A simulator without events.
LEMMA EmptyHistory ==
    ASSUME events = <<>>, \A n \in Nodes : settled[n] = "none"
    PROVE  HistoryInv
<1>1. Len(events) = 0
  BY EmptySeq
<1>2. 1 .. Len(events) = {}
  BY <1>1
<1> QED BY <1>2 DEF HistoryInv, Unscheduled, InOrder

-----------------------------------------------------------------------------
(* Captures.  While one is under way what is stored is the beginning of the *)
(* history it was given, so that what it adds keeps the order; a restart    *)
(* forgets the history and not the order.                                   *)

CaptureInv == /\ CaptureTypeOK
              /\ HistoryInv
              /\ capturing => Matches
              /\ InOrder(stored)

LEMMA CaptureEventInv ==
    ASSUME CaptureInv, CaptureEvent
    PROVE  Matches' /\ InOrder(stored)'
<1>1. /\ Matches
      /\ UNCHANGED <<graph, events>>
  BY DEF CaptureInv, CaptureEvent, vars
<1>2. /\ Len(stored) \in Nat /\ Len(events) \in Nat
      /\ Len(stored) + 1 \in 1 .. Len(events)
  BY LenProperties DEF CaptureInv, CaptureTypeOK, TypeOK, CaptureEvent
<1>3. /\ Len(stored') = Len(stored) + 1
      /\ \A i \in 1 .. Len(stored) : stored'[i] = stored[i]
      /\ stored'[Len(stored) + 1] = events[Len(stored) + 1]
  BY StoreGrows DEF CaptureInv
<1>4. \A i \in 1 .. Len(stored) + 1 : stored'[i] = events[i]
  <2>1. SUFFICES ASSUME NEW i \in 1 .. Len(stored) + 1
                 PROVE  stored'[i] = events[i]
    OBVIOUS
  <2>2. CASE i \in 1 .. Len(stored)
    BY <1>1, <1>3, <2>2 DEF Matches
  <2>3. CASE i = Len(stored) + 1
    BY <1>3, <2>3
  <2> QED BY <1>2, <2>2, <2>3
<1>5. Matches'
  BY <1>1, <1>2, <1>3, <1>4 DEF Matches
<1>6. InOrderAt(events, Len(stored) + 1)
  BY <1>2, InOrderEach DEF CaptureInv, HistoryInv
<1>7. InOrderAt(stored', Len(stored) + 1)
  BY <1>2, <1>4, <1>6, SameOrder
<1>8. InOrder(stored')
  BY <1>2, <1>3, <1>7, AddedInOrder DEF CaptureInv
<1>9. InOrder(stored)'
  BY <1>1, <1>8 DEF InOrder
<1> QED BY <1>5, <1>9

LEMMA StoreKept ==
    ASSUME InOrder(stored), UNCHANGED <<graph, stored>>
    PROVE  InOrder(stored)'
  BY DEF InOrder

LEMMA CaptureNextInv ==
    ASSUME CaptureInv, [CaptureNext]_allVars
    PROVE  CaptureInv'
<1>1. CaptureTypeOK'
  BY CaptureNextTypes DEF CaptureInv
<1>2. HistoryInv' /\ (capturing => Matches)' /\ InOrder(stored)'
  <2>1. CASE Simulate
    <3>1. graph' = graph
      BY <2>1 DEF Simulate, Next, ScheduleNext, RecordResult
    <3>2. HistoryInv'
      BY <2>1, SimulatorHistory DEF Simulate, CaptureInv, CaptureTypeOK
    <3>3. ~capturing'
      BY <2>1 DEF Simulate
    <3>4. InOrder(stored)'
      BY <2>1, <3>1, StoreKept DEF Simulate, store, CaptureInv
    <3> QED BY <3>2, <3>3, <3>4
  <2>2. CASE Register
    <3>1. UNCHANGED <<vars, stored, capturing>> /\ ~capturing
      BY <2>2 DEF Register
    <3>2. HistoryInv' /\ InOrder(stored)'
      BY <3>1, HistoryKept, StoreKept DEF CaptureInv, vars
    <3> QED BY <3>1, <3>2
  <2>3. CASE Capture
    <3>1. UNCHANGED <<vars, stored>> /\ Matches
      BY <2>3 DEF Capture, store
    <3>2. HistoryInv' /\ InOrder(stored)'
      BY <3>1, HistoryKept, StoreKept DEF CaptureInv, vars
    <3>3. Matches'
      BY <3>1 DEF Matches, vars
    <3> QED BY <3>2, <3>3
  <2>4. CASE CaptureEvent
    <3>1. HistoryInv'
      BY <2>4, HistoryKept DEF CaptureEvent, CaptureInv
    <3> QED BY <2>4, <3>1, CaptureEventInv
  <2>5. CASE CaptureReturns
    <3>1. UNCHANGED <<vars, stored>> /\ ~capturing'
      BY <2>5 DEF CaptureReturns, store
    <3>2. HistoryInv' /\ InOrder(stored)'
      BY <3>1, HistoryKept, StoreKept DEF CaptureInv, vars
    <3> QED BY <3>1, <3>2
  <2>6. CASE Restart
    <3>1. /\ UNCHANGED <<graph, stored>>
          /\ ~capturing'
          /\ events' = <<>>
          /\ \A n \in Nodes : settled'[n] = "none"
      BY <2>6 DEF Restart, store
    <3>2. HistoryInv'
      <4>1. Len(events') = 0
        BY <3>1, EmptySeq
      <4>2. 1 .. Len(events') = {}
        BY <4>1
      <4> QED BY <3>1, <4>2 DEF HistoryInv, Unscheduled, InOrder
    <3>3. InOrder(stored)'
      BY <3>1, StoreKept DEF CaptureInv
    <3> QED BY <3>1, <3>2, <3>3
  <2>7. CASE UNCHANGED allVars
    <3>1. UNCHANGED <<vars, stored, capturing>>
      BY <2>7 DEF allVars, store
    <3>2. HistoryInv' /\ InOrder(stored)'
      BY <3>1, HistoryKept, StoreKept DEF CaptureInv, vars
    <3>3. (capturing => Matches)'
      BY <3>1 DEF CaptureInv, Matches, vars
    <3> QED BY <3>2, <3>3
  <2> QED BY <2>1, <2>2, <2>3, <2>4, <2>5, <2>6, <2>7 DEF CaptureNext
<1> QED BY <1>1, <1>2 DEF CaptureInv

LEMMA CaptureInitInv == CaptureInit => CaptureInv
<1> SUFFICES ASSUME CaptureInit PROVE CaptureInv
  OBVIOUS
<1>1. CaptureTypeOK
  BY CaptureInitTypes
<1>2. events = <<>> /\ \A n \in Nodes : settled[n] = "none"
  BY DEF CaptureInit, Init
<1>3. HistoryInv
  BY <1>2, EmptyHistory
<1>4. stored = events /\ ~capturing
  BY <1>2 DEF CaptureInit
<1>5. InOrder(stored)
  BY <1>3, <1>4 DEF HistoryInv
<1> QED BY <1>1, <1>3, <1>4, <1>5 DEF CaptureInv

LEMMA CaptureAlways == CaptureSpec => []CaptureInv
  BY CaptureInitInv, CaptureNextInv, PTL DEF CaptureSpec

\* In every graph, a node starts only after all its dependencies have passed
\* with evidence, once, and never when a human must start it.
THEOREM HistoryInOrder == CaptureSpec => []DependenciesFirst
<1>1. CaptureInv => DependenciesFirst
  BY DEF CaptureInv, HistoryInv, DependenciesFirst
<1> QED BY <1>1, CaptureAlways, PTL

\* So it is in the store, of however many simulators, cut off wherever, its
\* events were captured.
THEOREM StoreInOrder == CaptureSpec => []StoredInOrder
<1>1. CaptureInv => StoredInOrder
  BY DEF CaptureInv, StoredInOrder
<1> QED BY <1>1, CaptureAlways, PTL

\* A capture that returns below the limit has stored the history it was given.
THEOREM CaptureIsFaithful == CaptureSpec => CaptureFaithful
<1>1. ASSUME CaptureInv, CaptureNext, capturing, ~capturing', events' = events,
             Len(events) < MaxGraphEvents
      PROVE  stored' = events
  <2>1. /\ stored \in Seq(Event) /\ events \in Seq(Event)
        /\ Len(stored) \in Nat /\ Len(events) \in Nat
        /\ Len(stored) <= Len(events)
        /\ \A i \in 1 .. Len(stored) : stored[i] = events[i]
    BY <1>1, LenProperties DEF CaptureInv, CaptureTypeOK, TypeOK, Matches
  <2>2. stored' = stored /\ Len(stored) = Len(events)
    <3>1. CASE CaptureReturns
      <4>1. Len(stored) = Len(events) \/ Len(stored) >= MaxGraphEvents
        BY <3>1 DEF CaptureReturns
      <4> QED BY <1>1, <2>1, <3>1, <4>1, MaxAssumption DEF CaptureReturns, store
    <3>2. CASE Restart
      <4>1. Len(events) = 0
        BY <1>1, <3>2, EmptySeq DEF Restart
      <4> QED BY <2>1, <3>2, <4>1 DEF Restart, store
    <3> QED BY <1>1, <3>1, <3>2
            DEF CaptureNext, Simulate, Register, Capture, CaptureEvent
  <2> QED BY <2>1, <2>2, SeqEqual
<1>2. CaptureInv /\ [CaptureNext]_allVars =>
          [capturing /\ ~capturing' /\ events' = events /\ Len(events) < MaxGraphEvents
               => stored' = events]_allVars
  BY <1>1
<1> QED BY <1>2, CaptureAlways, PTL DEF CaptureSpec, CaptureFaithful
=============================================================================
