------------------------- MODULE FrameBoundaryProofs -------------------------
(***************************************************************************)
(* What holds of the frame boundary for any number of surfaces, requests   *)
(* and events.                                                             *)
(*                                                                         *)
(* Conservation is not inductive by itself: the layout run overwrites      *)
(* WaylandCommands and the protocol sync overwrites WaylandIngress, so     *)
(* nothing is lost only because each is empty of one-shot payloads by      *)
(* then.  Drained says when.                                               *)
(***************************************************************************)
EXTENDS FrameBoundary, TLAPS, SequenceTheorems, FiniteSetTheorems

\* Which queue is empty in which phase.
Drained ==
  /\ mWin = <<>>
  /\ phase \in {"mainExtract", "protocol", "layout"} => cmds.win = <<>>
  /\ phase \in {"mainExtract", "protocol"} => sWin \in Seq(Windows)
  /\ phase \in {"layout", "present"} => eventQueue = <<>>

\* The shell knows no window that the server does not, and asks for no other.
ServerAhead ==
  /\ \A i \in DOMAIN emitted :
       emitted[i].kind = "created" /\ emitted[i].surface \in Windows =>
         winState[emitted[i].surface] # "new"
  /\ \A i \in DOMAIN issued : winState[issued[i]] # "new"

IInv == TypeOK /\ Drained /\ RequestsConserved /\ EventsConserved

-----------------------------------------------------------------------------
(* Sequences.                                                              *)

\* A sequence is a prefix of each of its extensions.
LEMMA PrefixOfConcat ==
  ASSUME NEW S, NEW s \in Seq(S), NEW t \in Seq(S)
  PROVE  IsPrefix(s, s \o t)
<1>1. Len(s) \in Nat /\ Len(t) \in Nat
  BY LenProperties
<1>2. s \o t \in Seq(S) /\ Len(s \o t) = Len(s) + Len(t)
  BY ConcatProperties
<1>3. SubSeq(s, 1, Len(s)) = SubSeq(s \o t, 1, Len(s))
  <2>1. CASE Len(s) = 0
    BY <2>1, SubSeqEmpty
  <2>2. CASE Len(s) # 0
    <3>1. Len(s) \in 1..Len(s) /\ 1 \in 1..Len(s)
      BY <1>1, <2>2
    <3>2. QED
      BY <3>1, SubSeqOfConcat1
  <2>3. QED
    BY <2>1, <2>2
<1>4. QED
  BY <1>1, <1>2, <1>3 DEF IsPrefix

\* Members of the sequences that SeqOf and SetToSeqs enumerate are sequences.
LEMMA SeqOfIsSeq ==
  ASSUME NEW S, NEW n \in Nat, NEW s \in SeqOf(S, n)
  PROVE  s \in Seq(S)
<1>1. PICK m \in 0..n : s \in [1..m -> S]
  BY DEF SeqOf
<1>2. m \in Nat
  BY <1>1
<1>3. QED
  BY <1>1, <1>2, SeqDef

LEMMA OrderIsFunction ==
  ASSUME NEW S, IsFiniteSet(S), NEW order \in SetToSeqs(S)
  PROVE  \E n \in Nat : order \in [1..n -> S]
<1>1. Cardinality(S) \in Nat
  BY FS_CardinalityType
<1>2. order \in [1..Cardinality(S) -> S]
  BY DEF SetToSeqs
<1>3. QED
  BY <1>1, <1>2

\* A batch of destroyed events, whatever the order they come in.
LEMMA ClosingsAreEvents ==
  ASSUME NEW n \in Nat, NEW surface, \A i \in 1..n : surface[i] \in Surfaces
  PROVE  [i \in 1..n |-> Closing(surface[i])] \in Seq(Event)
<1>1. \A i \in 1..n : Closing(surface[i]) \in Event
  BY DEF Closing, Event
<1>2. [i \in 1..n |-> Closing(surface[i])] \in [1..n -> Event]
  BY <1>1
<1>3. QED
  BY <1>2, SeqDef

-----------------------------------------------------------------------------
(* Type correctness and conservation, by one induction: the type of what   *)
(* is dispatched rests on which phase the loop is in.                      *)

LEMMA InitIInv == Init => IInv
<1> SUFFICES ASSUME Init PROVE IInv
  OBVIOUS
<1>1. <<>> \in Seq(Windows) /\ <<>> \in Seq(Event)
  BY EmptySeq
<1>2. TypeOK
  <2>1. 0 \in 0..MaxIncarnations /\ 0 \in 0..MaxDismissals
    BY BoundsType
  <2>2. /\ incarnation \in [Popups -> 0..MaxIncarnations]
        /\ asked \in [Popups -> 0..MaxDismissals]
        /\ winState \in [Windows -> {"new", "live", "dead"}]
    BY <2>1 DEF Init
  <2>3. cmds \in [win : Seq(Windows), pop : SUBSET Dismissal]
    BY <1>1 DEF Init, EmptyCommands
  <2>4. QED
    BY <1>1, <2>2, <2>3 DEF Init, TypeOK, Phases
<1>3. Drained
  BY DEF Init, Drained
<1>4. RequestsConserved /\ EventsConserved
  <2>1. <<>> \o <<>> = <<>>
    BY <1>1, ConcatEmptySeq
  <2>2. QED
    BY <2>1 DEF Init, RequestsConserved, EventsConserved, InFlight, Pending, EmptyCommands
<1>5. QED
  BY <1>2, <1>3, <1>4 DEF IInv

\* Recording one event extends the queue and the history alike.
LEMMA RecordConserves ==
  ASSUME IInv, Polling, NEW kind \in {"created", "closed"}, NEW surface \in Surfaces,
         Record(kind, surface),
         UNCHANGED <<phase, handled, mIngress>>
  PROVE  emitted' \in Seq(Event) /\ eventQueue' \in Seq(Event) /\ EventsConserved'
<1> DEFINE e == [kind |-> kind, surface |-> surface]
<1>1. e \in Event
  BY DEF Event
<1>2. emitted \in Seq(Event) /\ eventQueue \in Seq(Event) /\ handled \in Seq(Event)
  BY DEF IInv, TypeOK
<1>3. <<e>> \in Seq(Event)
  BY <1>1
<1>4. emitted' = emitted \o <<e>> /\ eventQueue' = eventQueue \o <<e>>
  BY <1>1, <1>2, AppendIsConcat DEF Record
<1>5. emitted' \in Seq(Event) /\ eventQueue' \in Seq(Event)
  BY <1>2, <1>3, <1>4, ConcatProperties
<1>6. emitted = handled \o eventQueue /\ Pending' = eventQueue'
  BY DEF IInv, EventsConserved, Pending, Polling
<1>7. emitted' = handled \o eventQueue'
  BY <1>2, <1>3, <1>4, <1>6, ConcatAssociative
<1>8. QED
  BY <1>5, <1>6, <1>7 DEF EventsConserved

\* A client action: one event is recorded, and the server's tables stay typed.
LEMMA ClientStep ==
  ASSUME IInv, Polling, NEW kind \in {"created", "closed"}, NEW surface \in Surfaces,
         Record(kind, surface),
         UNCHANGED <<phase, quit, main, sCmds, sWin, sPop,
                     issued, dispatched, rejected, broken, handled, asked>>,
         winState' \in [Windows -> {"new", "live", "dead"}],
         popups' \subseteq Popups, incarnation' \in [Popups -> 0..MaxIncarnations]
  PROVE  IInv'
<1>1. emitted' \in Seq(Event) /\ eventQueue' \in Seq(Event) /\ EventsConserved'
  BY RecordConserves DEF main
<1>2. TypeOK'
  BY <1>1 DEF IInv, TypeOK, main
<1>3. Drained'
  BY DEF IInv, Drained, Polling, main
<1>4. RequestsConserved'
  BY DEF IInv, RequestsConserved, InFlight, main
<1>5. QED
  BY <1>1, <1>2, <1>3, <1>4 DEF IInv

LEMMA ClientsStep == IInv /\ Clients => IInv'
<1> SUFFICES ASSUME IInv, Clients PROVE IInv'
  OBVIOUS
<1> USE DEF Surfaces
<1>t. /\ winState \in [Windows -> {"new", "live", "dead"}] /\ popups \subseteq Popups
      /\ incarnation \in [Popups -> 0..MaxIncarnations]
  BY DEF IInv, TypeOK
<1>1. ASSUME NEW w \in Windows, MapWindow(w) PROVE IInv'
  BY <1>1, <1>t, ClientStep DEF MapWindow
<1>2. ASSUME NEW w \in Windows, DestroyWindow(w) PROVE IInv'
  BY <1>2, <1>t, ClientStep DEF DestroyWindow
<1>3. ASSUME NEW p \in Popups, OpenPopup(p) PROVE IInv'
  <2>1. incarnation[p] + 1 \in 0..MaxIncarnations
    BY <1>3, <1>t, BoundsType DEF OpenPopup
  <2>2. incarnation' \in [Popups -> 0..MaxIncarnations] /\ popups' \subseteq Popups
    BY <1>3, <1>t, <2>1 DEF OpenPopup
  <2>3. Polling
    BY <1>3 DEF OpenPopup, Polling
  <2>4. QED
    BY <1>3, <1>t, <2>2, <2>3, ClientStep DEF OpenPopup
<1>4. ASSUME NEW p \in Popups, DestroyPopup(p) PROVE IInv'
  BY <1>4, <1>t, ClientStep DEF DestroyPopup, Polling
<1>5. QED
  BY <1>1, <1>2, <1>3, <1>4 DEF Clients

\* Pushing dismissals disturbs nothing but the dismissal queue.
LEMMA DismissAgainType ==
  ASSUME TypeOK, NEW ps \in SUBSET Popups, DismissAgain(ps)
  PROVE  mPop' \subseteq Dismissal /\ asked' \in [Popups -> 0..MaxDismissals]
<1>1. \A p \in ps : asked[p] + 1 \in 1..MaxDismissals
  BY BoundsType DEF TypeOK, DismissAgain
<1>2. {<<p, asked[p] + 1>> : p \in ps} \subseteq Dismissal
  BY <1>1 DEF Dismissal
<1>3. QED
  BY <1>1, <1>2 DEF TypeOK, DismissAgain

LEMMA ExtractStep ==
  IInv /\ (WaylandExtract \/ MainExtract \/ Quit \/ \E p \in Popups : IpcDismiss(p)) => IInv'
<1>1. ASSUME IInv, WaylandExtract PROVE IInv'
  <2>1. /\ cmds \in [win : Seq(Windows), pop : SUBSET Dismissal]
        /\ phase = "poll" /\ phase' = "mainExtract"
        /\ sWin' = cmds.win /\ sPop' = cmds.pop
        /\ cmds' = [cmds EXCEPT !.win = <<>>]
        /\ UNCHANGED <<quit, mWin, mPop, mIngress, eventQueue, clients, history>>
    BY <1>1 DEF IInv, TypeOK, WaylandExtract, FanOut, ClearOneShot
  <2>2. /\ cmds' \in [win : Seq(Windows), pop : SUBSET Dismissal] /\ cmds'.win = <<>>
        /\ sWin' \in Seq(Windows) /\ sPop' \subseteq Dismissal
    BY <2>1, EmptySeq
  <2>3. TypeOK'
    BY <1>1, <2>1, <2>2 DEF IInv, TypeOK, Phases, clients, history
  <2>4. Drained'
    BY <1>1, <2>1, <2>2 DEF IInv, Drained
  <2>5. RequestsConserved' /\ EventsConserved'
    BY <1>1, <2>1 DEF IInv, RequestsConserved, EventsConserved, InFlight, Pending, history
  <2>6. QED
    BY <2>3, <2>4, <2>5 DEF IInv
<1>2. ASSUME IInv, MainExtract PROVE IInv'
  BY <1>2 DEF MainExtract, IInv, TypeOK, Drained, RequestsConserved, EventsConserved,
              InFlight, Pending, Phases, main, queues, clients, history
<1>3. ASSUME IInv, Quit PROVE IInv'
  BY <1>3 DEF Quit, IInv, TypeOK, Drained, RequestsConserved, EventsConserved,
              InFlight, Pending, Phases, main, queues, clients, history
<1>4. ASSUME IInv, NEW p \in Popups, IpcDismiss(p) PROVE IInv'
  <2>1. mPop' \subseteq Dismissal /\ asked' \in [Popups -> 0..MaxDismissals]
    BY <1>4, DismissAgainType DEF IpcDismiss, IInv
  <2>2. QED
    BY <1>4, <2>1 DEF IpcDismiss, IInv, TypeOK, Drained, RequestsConserved, EventsConserved,
              InFlight, Pending, queues, clients
<1>5. QED
  BY <1>1, <1>2, <1>3, <1>4

LEMMA DismissibleFinite ==
  ASSUME TypeOK
  PROVE  Dismissible \subseteq Dismissal /\ IsFiniteSet(Dismissible)
<1>1. IsFiniteSet(1..MaxDismissals)
  BY BoundsType, FS_Interval
<1>2. IsFiniteSet(Dismissal)
  BY <1>1, FiniteSurfaces, FS_Product DEF Dismissal
<1>3. QED
  BY <1>2, FS_Subset DEF Dismissible, TypeOK

\* The dispatch moves the requests in flight to the server, the flush moves the
\* recorded events to the shell.
LEMMA ProtocolStep == IInv /\ WaylandProtocol => IInv'
<1> SUFFICES ASSUME IInv, WaylandProtocol PROVE IInv'
  OBVIOUS
<1> USE DEF IInv
<1>t. TypeOK
  OBVIOUS
<1>p. phase = "protocol" /\ phase' = "layout"
  BY DEF WaylandProtocol
<1>1. PICK order \in SetToSeqs(Dismissible) :
        /\ mIngress' = eventQueue \o [i \in DOMAIN order |-> Closing(order[i][1])]
        /\ emitted' = emitted \o [i \in DOMAIN order |-> Closing(order[i][1])]
  BY DEF WaylandProtocol, Ingress
<1> DEFINE destroyed == [i \in DOMAIN order |-> Closing(order[i][1])]
<1>2. Dismissible \subseteq Dismissal /\ IsFiniteSet(Dismissible)
  BY DismissibleFinite
<1>3. destroyed \in Seq(Event)
  <2>1. PICK n \in Nat : order \in [1..n -> Dismissible]
    BY <1>2, OrderIsFunction
  <2> DEFINE surface == [i \in 1..n |-> order[i][1]]
  <2>2. \A i \in 1..n : surface[i] \in Surfaces
    BY <1>2, <2>1 DEF Dismissal, Surfaces
  <2>3. [i \in 1..n |-> Closing(surface[i])] \in Seq(Event)
    BY <2>2, ClosingsAreEvents
  <2>4. destroyed = [i \in 1..n |-> Closing(surface[i])]
    BY <2>1
  <2>5. QED
    BY <2>3, <2>4
<1> HIDE DEF destroyed
<1>4. /\ sWin \in Seq(Windows) /\ mWin = <<>> /\ cmds.win = <<>>
      /\ dispatched' = dispatched \o sWin /\ cmds' = cmds /\ mWin' = mWin /\ issued' = issued
      /\ eventQueue' = <<>> /\ handled' = handled
  BY <1>p DEF Drained, WaylandProtocol, DrainEvents
<1>5. /\ mIngress' = eventQueue \o destroyed /\ emitted' = emitted \o destroyed
      /\ emitted \in Seq(Event) /\ eventQueue \in Seq(Event) /\ handled \in Seq(Event)
      /\ dispatched \in Seq(Windows)
  BY <1>1, <1>t DEF destroyed, TypeOK
<1>6. mIngress' \in Seq(Event) /\ emitted' \in Seq(Event) /\ dispatched' \in Seq(Windows)
  BY <1>3, <1>4, <1>5, ConcatProperties
<1>7. TypeOK'
  <2>1. sPop' \subseteq Dismissal
    BY <1>t DEF TypeOK, WaylandProtocol
  <2>2. rejected' \subseteq Windows
    <3>1. ToSet(sWin) \subseteq Windows
      BY <1>4, LenProperties DEF ToSet
    <3>2. QED
      BY <1>t, <3>1 DEF TypeOK, WaylandProtocol
  <2>3. eventQueue' \in Seq(Event) /\ broken' \subseteq X11
    BY <1>t, <1>4, EmptySeq DEF TypeOK, WaylandProtocol
  <2>4. QED
    BY <1>t, <1>p, <1>6, <2>1, <2>2, <2>3 DEF TypeOK, WaylandProtocol, Phases, clients
<1>8. Drained'
  BY <1>p, <1>4 DEF Drained
<1>9. RequestsConserved'
  <2>1. issued = dispatched \o (sWin \o <<>>)
    BY <1>p, <1>4 DEF RequestsConserved, InFlight
  <2>2. sWin \o <<>> = sWin
    BY <1>4, ConcatEmptySeq
  <2>3. dispatched' \o (<<>> \o <<>>) = dispatched'
    BY <1>6, EmptySeq, ConcatEmptySeq
  <2>4. QED
    BY <1>p, <1>4, <2>1, <2>2, <2>3 DEF RequestsConserved, InFlight
<1>10. EventsConserved'
  <2>1. emitted = handled \o eventQueue
    BY <1>p DEF EventsConserved, Pending
  <2>2. emitted' = handled \o mIngress'
    BY <1>3, <1>5, <2>1, ConcatAssociative
  <2>3. mIngress' \o <<>> = mIngress'
    BY <1>6, ConcatEmptySeq
  <2>4. QED
    BY <1>p, <1>4, <2>2, <2>3 DEF EventsConserved, Pending
<1>11. QED
  BY <1>7, <1>8, <1>9, <1>10

\* The layout run pushes a batch of requests and handles what WaylandIngress holds.
LEMMA LayoutStep == IInv /\ Layout => IInv'
<1> SUFFICES ASSUME IInv, Layout PROVE IInv'
  OBVIOUS
<1> USE DEF IInv
<1>t. TypeOK
  OBVIOUS
<1>1. PICK batch \in SeqOf({w \in Windows : Known(w)}, MaxBatch) :
        /\ issued' = issued \o batch
        /\ cmds' = [win |-> mWin \o batch, pop |-> mPop']
        /\ mWin' = <<>>
  BY DEF Layout, ClearPending
<1>2. /\ phase = "layout" /\ phase' = "present" /\ handled' = handled \o mIngress
      /\ UNCHANGED <<eventQueue, dispatched, emitted, mIngress>>
      /\ cmds.win = <<>> /\ mWin = <<>> /\ eventQueue = <<>>
  BY DEF Layout, Drained, queues
<1>3. batch \in Seq(Windows)
  <2>1. batch \in Seq({w \in Windows : Known(w)})
    BY BoundsType, SeqOfIsSeq
  <2>2. QED
    BY <2>1, SeqMonotonic
<1>4. mPop' \subseteq Dismissal /\ asked' \in [Popups -> 0..MaxDismissals]
  <2>1. PICK orphans \in SUBSET Popups : DismissAgain(orphans)
    BY DEF Layout
  <2>2. QED
    BY <1>t, <2>1, DismissAgainType
<1>5. cmds'.win = batch
  BY <1>1, <1>2, <1>3, ConcatEmptySeq
<1>6. issued' \in Seq(Windows) /\ handled' \in Seq(Event)
  BY <1>t, <1>1, <1>2, <1>3, ConcatProperties DEF TypeOK
<1>7. TypeOK'
  <2>1. cmds' \in [win : Seq(Windows), pop : SUBSET Dismissal] /\ mWin' \in Seq(Windows)
    BY <1>1, <1>2, <1>3, <1>4, ConcatEmptySeq, EmptySeq
  <2>2. QED
    BY <1>t, <1>2, <1>4, <1>6, <2>1 DEF TypeOK, Layout, Phases, queues, clients
<1>8. Drained'
  BY <1>1, <1>2 DEF Drained
<1>9. RequestsConserved'
  <2>1. <<>> \in Seq(Windows) /\ dispatched \in Seq(Windows)
    BY <1>t, EmptySeq DEF TypeOK
  <2>2. issued = dispatched
    BY <1>2, <2>1, ConcatEmptySeq DEF RequestsConserved, InFlight
  <2>3. batch \o <<>> = batch
    BY <1>3, ConcatEmptySeq
  <2>4. QED
    BY <1>1, <1>2, <1>5, <2>2, <2>3 DEF RequestsConserved, InFlight
<1>10. EventsConserved'
  <2>1. emitted = handled \o (mIngress \o <<>>)
    BY <1>2 DEF EventsConserved, Pending
  <2>2. mIngress \o <<>> = mIngress /\ handled' \o <<>> = handled'
    BY <1>t, <1>6, ConcatEmptySeq DEF TypeOK
  <2>3. QED
    BY <1>2, <2>1, <2>2 DEF EventsConserved, Pending
<1>11. QED
  BY <1>7, <1>8, <1>9, <1>10

\* Dismissing hidden popups at present time queues events for the next frame.
LEMMA PresentStep == IInv /\ Present => IInv'
<1> SUFFICES ASSUME IInv, Present PROVE IInv'
  OBVIOUS
<1> USE DEF IInv
<1>t. TypeOK
  OBVIOUS
<1>0. PICK hidden \in SUBSET popups : \E order \in SetToSeqs(hidden) :
        /\ eventQueue' = eventQueue \o [i \in DOMAIN order |-> Closing(order[i])]
        /\ emitted' = emitted \o [i \in DOMAIN order |-> Closing(order[i])]
  BY DEF Present
<1>1. PICK order \in SetToSeqs(hidden) :
        /\ eventQueue' = eventQueue \o [i \in DOMAIN order |-> Closing(order[i])]
        /\ emitted' = emitted \o [i \in DOMAIN order |-> Closing(order[i])]
  BY <1>0
<1> DEFINE destroyed == [i \in DOMAIN order |-> Closing(order[i])]
<1>2. destroyed \in Seq(Event)
  <2>1. IsFiniteSet(hidden) /\ hidden \subseteq Popups
    BY <1>t, FiniteSurfaces, FS_Subset DEF TypeOK
  <2>2. PICK n \in Nat : order \in [1..n -> hidden]
    BY <2>1, OrderIsFunction
  <2>3. \A i \in 1..n : order[i] \in Surfaces
    BY <2>1, <2>2 DEF Surfaces
  <2>4. [i \in 1..n |-> Closing(order[i])] \in Seq(Event)
    BY <2>3, ClosingsAreEvents
  <2>5. QED
    BY <2>2, <2>4
<1> HIDE DEF destroyed
<1>3. /\ eventQueue' = eventQueue \o destroyed /\ emitted' = emitted \o destroyed
      /\ phase = "present" /\ phase' \in {"poll", "stopped"}
      /\ emitted \in Seq(Event) /\ eventQueue \in Seq(Event) /\ handled \in Seq(Event)
      /\ UNCHANGED <<handled, mIngress, issued, dispatched, cmds, mWin, sWin>>
  BY <1>1, <1>t DEF destroyed, Present, TypeOK, main
<1>4. emitted' \in Seq(Event) /\ eventQueue' \in Seq(Event)
  BY <1>2, <1>3, ConcatProperties
<1>5. TypeOK'
  BY <1>t, <1>3, <1>4 DEF TypeOK, Present, Phases, main, clients
<1>6. Drained' /\ RequestsConserved'
  BY <1>3 DEF Drained, RequestsConserved, InFlight
<1>7. EventsConserved'
  <2>1. emitted = handled \o eventQueue
    BY <1>3 DEF EventsConserved, Pending
  <2>2. emitted' = handled \o eventQueue'
    BY <1>2, <1>3, <2>1, ConcatAssociative
  <2>3. QED
    BY <1>3, <2>2 DEF EventsConserved, Pending
<1>8. QED
  BY <1>5, <1>6, <1>7

LEMMA NextIInv == IInv /\ [Next]_vars => IInv'
<1>1. ASSUME IInv, UNCHANGED vars PROVE IInv'
  BY <1>1 DEF vars, main, queues, clients, history, IInv, TypeOK, Drained,
              RequestsConserved, EventsConserved, InFlight, Pending
<1>2. QED
  BY <1>1, ClientsStep, ExtractStep, ProtocolStep, LayoutStep, PresentStep DEF Next, RunLoop

THEOREM Invariance == Spec => []IInv
<1>1. QED
  BY InitIInv, NextIInv, PTL DEF Spec

\* Every variable of the frame boundary keeps its type.
THEOREM TypeCorrect == Spec => []TypeOK
<1>1. QED
  BY Invariance, PTL DEF IInv

\* Each window request the shell pushes is handed to the server once, in order.
THEOREM RequestsAreConserved == Spec => []RequestsConserved
<1>1. QED
  BY Invariance, PTL DEF IInv

\* Each event a client callback records is processed by the shell once, in order.
THEOREM EventsAreConserved == Spec => []EventsConserved
<1>1. QED
  BY Invariance, PTL DEF IInv

\* When the layout run starts every request of earlier frames has been dispatched;
\* when it has ended every event of this frame has been handled.
THEOREM LatencyIsOneFrame == Spec => []OneFrameLatency
<1>1. IInv => OneFrameLatency
  <2> SUFFICES ASSUME IInv PROVE OneFrameLatency
    OBVIOUS
  <2>1. ASSUME phase = "layout" PROVE dispatched = issued
    <3>1. cmds.win = <<>> /\ mWin = <<>> /\ dispatched \in Seq(Windows)
      BY <2>1 DEF IInv, Drained, TypeOK
    <3>2. <<>> \o <<>> = <<>>
      BY <3>1, EmptySeq, ConcatEmptySeq
    <3>3. QED
      BY <2>1, <3>1, <3>2, ConcatEmptySeq DEF IInv, RequestsConserved, InFlight
  <2>2. ASSUME phase = "present" PROVE handled = emitted
    BY <2>2, ConcatEmptySeq DEF IInv, TypeOK, Drained, EventsConserved, Pending
  <2>3. QED
    BY <2>1, <2>2 DEF OneFrameLatency
<1>2. QED
  BY <1>1, Invariance, PTL

-----------------------------------------------------------------------------
(* What the server refuses.                                                *)

\* A window that has left its initial state never returns to it, and one that is
\* dead stays dead.
LEMMA LifeAdvances ==
  ASSUME TypeOK, [Next]_vars, NEW w \in Windows
  PROVE  /\ winState[w] # "new" => winState'[w] # "new"
         /\ winState[w] = "dead" => winState'[w] = "dead"
<1>1. CASE UNCHANGED winState
  BY <1>1
<1>2. ASSUME NEW v \in Windows, MapWindow(v) \/ DestroyWindow(v)
      PROVE  /\ winState[w] # "new" => winState'[w] # "new"
             /\ winState[w] = "dead" => winState'[w] = "dead"
  BY <1>2 DEF MapWindow, DestroyWindow, TypeOK
<1>3. UNCHANGED winState \/ \E v \in Windows : MapWindow(v) \/ DestroyWindow(v)
  BY DEF Next, RunLoop, Clients, OpenPopup, DestroyPopup, WaylandExtract, MainExtract,
         WaylandProtocol, Layout, Present, Quit, IpcDismiss, vars, clients
<1>4. QED
  BY <1>1, <1>2, <1>3

NotNew(e, state) ==
  e.kind = "created" /\ e.surface \in Windows => state[e.surface] # "new"

\* A step appends to the record of events only such as keep the server ahead.
LEMMA EmittedExtends ==
  ASSUME IInv, [Next]_vars
  PROVE  \/ UNCHANGED emitted
         \/ \E s \in Seq(Event) : /\ emitted' = emitted \o s
                                  /\ \A i \in 1..Len(s) : NotNew(s[i], winState')
<1> USE DEF NotNew
<1> DEFINE Extends == \E s \in Seq(Event) : /\ emitted' = emitted \o s
                                            /\ \A i \in 1..Len(s) : NotNew(s[i], winState')
<1>t. emitted \in Seq(Event) /\ winState \in [Windows -> {"new", "live", "dead"}]
  BY DEF IInv, TypeOK
<1>1. ASSUME NEW kind \in {"created", "closed"}, NEW surface \in Surfaces,
             Record(kind, surface),
             kind = "created" /\ surface \in Windows => winState'[surface] # "new"
      PROVE  Extends
  <2> DEFINE e == [kind |-> kind, surface |-> surface]
  <2>1. e \in Event
    BY DEF Event
  <2>2. <<e>> \in Seq(Event) /\ Len(<<e>>) = 1 /\ <<e>>[1] = e
    BY <2>1
  <2>3. emitted' = emitted \o <<e>>
    BY <1>t, <1>1, <2>1, AppendIsConcat DEF Record
  <2>4. \A i \in 1..Len(<<e>>) : NotNew(<<e>>[i], winState')
    BY <1>1, <2>2
  <2>5. QED
    BY <2>2, <2>3, <2>4
<1>2. ASSUME NEW n \in Nat, NEW surface, \A i \in 1..n : surface[i] \in Surfaces,
             emitted' = emitted \o [i \in 1..n |-> Closing(surface[i])]
      PROVE  Extends
  <2> DEFINE s == [i \in 1..n |-> Closing(surface[i])]
  <2>1. s \in Seq(Event)
    BY <1>2, ClosingsAreEvents
  <2>2. \A i \in 1..Len(s) : s[i].kind = "closed"
    <3>1. DOMAIN s = 1..Len(s)
      BY <2>1, LenProperties
    <3>2. \A i \in DOMAIN s : s[i] = Closing(surface[i])
      OBVIOUS
    <3>3. QED
      BY <3>1, <3>2 DEF Closing
  <2>3. \A i \in 1..Len(s) : NotNew(s[i], winState')
    BY <2>2
  <2>4. QED
    BY <1>2, <2>1, <2>3
<1>3. ASSUME Clients PROVE Extends
  <2>1. ASSUME NEW w \in Windows, MapWindow(w) PROVE Extends
    <3>1. winState'[w] # "new" /\ Record("created", w) /\ w \in Surfaces
      BY <2>1, <1>t DEF MapWindow, Surfaces
    <3>2. QED
      BY <3>1, <1>1
  <2>2. ASSUME NEW w \in Windows, DestroyWindow(w) PROVE Extends
    <3>1. Record("closed", w) /\ w \in Surfaces
      BY <2>2 DEF DestroyWindow, Surfaces
    <3>2. QED
      BY <3>1, <1>1
  <2>3. ASSUME NEW p \in Popups, OpenPopup(p) PROVE Extends
    <3>1. Record("created", p) /\ p \in Surfaces /\ p \notin Windows
      BY <2>3, DistinctSurfaces DEF OpenPopup, Surfaces
    <3>2. QED
      BY <3>1, <1>1
  <2>4. ASSUME NEW p \in Popups, DestroyPopup(p) PROVE Extends
    <3>1. Record("closed", p) /\ p \in Surfaces
      BY <2>4 DEF DestroyPopup, Surfaces
    <3>2. QED
      BY <3>1, <1>1
  <2>5. QED
    BY <1>3, <2>1, <2>2, <2>3, <2>4 DEF Clients
<1>4. ASSUME WaylandProtocol PROVE Extends
  <2>1. PICK order \in SetToSeqs(Dismissible) :
          emitted' = emitted \o [i \in DOMAIN order |-> Closing(order[i][1])]
    BY <1>4 DEF WaylandProtocol
  <2>2. Dismissible \subseteq Dismissal /\ IsFiniteSet(Dismissible)
    BY DismissibleFinite DEF IInv
  <2>3. PICK n \in Nat : order \in [1..n -> Dismissible]
    BY <2>2, OrderIsFunction
  <2> DEFINE surface == [i \in 1..n |-> order[i][1]]
  <2>4. \A i \in 1..n : surface[i] \in Surfaces
    BY <2>2, <2>3 DEF Dismissal, Surfaces
  <2>5. emitted' = emitted \o [i \in 1..n |-> Closing(surface[i])]
    BY <2>1, <2>3
  <2> HIDE DEF surface
  <2>6. QED
    BY <1>2, <2>4, <2>5
<1>5. ASSUME Present PROVE Extends
  <2>1. PICK hidden \in SUBSET popups : \E order \in SetToSeqs(hidden) :
          emitted' = emitted \o [i \in DOMAIN order |-> Closing(order[i])]
    BY <1>5 DEF Present
  <2>2. PICK order \in SetToSeqs(hidden) :
          emitted' = emitted \o [i \in DOMAIN order |-> Closing(order[i])]
    BY <2>1
  <2>3. hidden \subseteq Popups /\ IsFiniteSet(hidden)
    BY FiniteSurfaces, FS_Subset DEF IInv, TypeOK
  <2>4. PICK n \in Nat : order \in [1..n -> hidden]
    BY <2>3, OrderIsFunction
  <2>5. \A i \in 1..n : order[i] \in Surfaces
    BY <2>3, <2>4 DEF Surfaces
  <2>6. emitted' = emitted \o [i \in 1..n |-> Closing(order[i])]
    BY <2>2, <2>4
  <2>7. QED
    BY <1>2, <2>5, <2>6
<1>6. Clients \/ WaylandProtocol \/ Present \/ UNCHANGED emitted
  BY DEF Next, RunLoop, WaylandExtract, MainExtract, Layout, Quit, IpcDismiss, vars, history
<1>7. QED
  BY <1>3, <1>4, <1>5, <1>6

\* Requests are pushed for windows whose creation the shell has handled.
LEMMA IssuedExtends ==
  ASSUME IInv, ServerAhead, [Next]_vars
  PROVE  \/ UNCHANGED issued
         \/ \E s \in Seq(Windows) : /\ issued' = issued \o s
                                    /\ \A i \in 1..Len(s) : winState'[s[i]] # "new"
<1>1. ASSUME Layout
      PROVE \E s \in Seq(Windows) : /\ issued' = issued \o s
                                    /\ \A i \in 1..Len(s) : winState'[s[i]] # "new"
  <2>1. PICK batch \in SeqOf({w \in Windows : Known(w)}, MaxBatch) : issued' = issued \o batch
    BY <1>1 DEF Layout
  <2>2. batch \in Seq({w \in Windows : Known(w)})
    BY BoundsType, SeqOfIsSeq
  <2>3. \A w \in Windows : Known(w) => winState[w] # "new"
    <3>1. emitted = handled \o (mIngress \o <<>>) /\ mIngress \in Seq(Event)
      BY <1>1 DEF Layout, IInv, EventsConserved, Pending, Drained, TypeOK
    <3>2. emitted = handled \o mIngress
      BY <3>1, ConcatEmptySeq
    <3>3. QED
      BY <3>2 DEF Known, ToSet, ServerAhead
  <2>4. winState' = winState
    BY <1>1 DEF Layout, clients
  <2>5. batch \in Seq(Windows)
    BY <2>2, SeqMonotonic
  <2>6. \A i \in 1..Len(batch) : batch[i] \in Windows /\ Known(batch[i])
    BY <2>2, ElementOfSeq
  <2>7. QED
    BY <2>1, <2>3, <2>4, <2>5, <2>6
<1>2. Layout \/ UNCHANGED issued
  BY DEF Next, RunLoop, Clients, MapWindow, DestroyWindow, OpenPopup, DestroyPopup,
         WaylandExtract, MainExtract, WaylandProtocol, Present, Quit, IpcDismiss, vars, history
<1>3. QED
  BY <1>1, <1>2

LEMMA ServerAheadStep ==
  ASSUME IInv, IInv', ServerAhead, [Next]_vars
  PROVE  ServerAhead'
<1>t. emitted \in Seq(Event) /\ issued \in Seq(Windows)
  BY DEF IInv, TypeOK
<1>old. /\ \A i \in 1..Len(emitted) : NotNew(emitted[i], winState')
        /\ \A i \in 1..Len(issued) : winState'[issued[i]] # "new"
  <2>1. \A w \in Windows : winState[w] # "new" => winState'[w] # "new"
    BY LifeAdvances DEF IInv
  <2>2. /\ \A i \in 1..Len(emitted) : NotNew(emitted[i], winState)
        /\ \A i \in 1..Len(issued) : issued[i] \in Windows /\ winState[issued[i]] # "new"
    BY <1>t, LenProperties DEF ServerAhead, NotNew
  <2>3. QED
    BY <2>1, <2>2 DEF NotNew
<1>1. \A i \in 1..Len(emitted') : NotNew(emitted'[i], winState')
  <2>1. CASE UNCHANGED emitted
    BY <1>old, <2>1
  <2>2. CASE \E s \in Seq(Event) : /\ emitted' = emitted \o s
                                   /\ \A i \in 1..Len(s) : NotNew(s[i], winState')
    <3>1. PICK s \in Seq(Event) : /\ emitted' = emitted \o s
                                  /\ \A i \in 1..Len(s) : NotNew(s[i], winState')
      BY <2>2
    <3>2. ASSUME NEW i \in 1..Len(emitted') PROVE NotNew(emitted'[i], winState')
      <4>1. /\ Len(emitted) \in Nat /\ Len(s) \in Nat
            /\ i \in 1..(Len(emitted) + Len(s))
            /\ emitted'[i] = IF i <= Len(emitted) THEN emitted[i] ELSE s[i - Len(emitted)]
        BY <1>t, <3>1, <3>2, LenProperties, ConcatProperties
      <4>2. CASE i <= Len(emitted)
        BY <4>1, <4>2, <1>old
      <4>3. CASE i > Len(emitted)
        <5>1. i - Len(emitted) \in 1..Len(s) /\ emitted'[i] = s[i - Len(emitted)]
          BY <4>1, <4>3
        <5>2. QED
          BY <5>1, <3>1
      <4>4. QED
        BY <4>1, <4>2, <4>3
    <3>3. QED
      BY <3>2
  <2>3. QED
    BY <2>1, <2>2, EmittedExtends
<1>2. \A i \in 1..Len(issued') : winState'[issued'[i]] # "new"
  <2>1. CASE UNCHANGED issued
    BY <1>old, <2>1
  <2>2. CASE \E s \in Seq(Windows) : /\ issued' = issued \o s
                                     /\ \A i \in 1..Len(s) : winState'[s[i]] # "new"
    <3>1. PICK s \in Seq(Windows) : /\ issued' = issued \o s
                                    /\ \A i \in 1..Len(s) : winState'[s[i]] # "new"
      BY <2>2
    <3>2. /\ Len(issued) \in Nat /\ Len(s) \in Nat
          /\ Len(issued') = Len(issued) + Len(s)
          /\ \A i \in 1..(Len(issued) + Len(s)) :
               issued'[i] = IF i <= Len(issued) THEN issued[i] ELSE s[i - Len(issued)]
      BY <1>t, <3>1, LenProperties, ConcatProperties
    <3>3. QED
      BY <1>old, <3>1, <3>2
  <2>3. QED
    BY <2>1, <2>2, IssuedExtends
<1>3. DOMAIN emitted' = 1..Len(emitted') /\ DOMAIN issued' = 1..Len(issued')
  BY LenProperties DEF IInv, TypeOK
<1>4. QED
  BY <1>1, <1>2, <1>3 DEF ServerAhead, NotNew

\* The server refuses a request only for a window its client has destroyed or an X11
\* window on which the X connection failed.
THEOREM RefusalsAreDead == Spec => []OnlyDeadRefused
<1> DEFINE RInv == IInv /\ ServerAhead /\ OnlyDeadRefused
<1>1. Init => RInv
  BY InitIInv DEF Init, ServerAhead, OnlyDeadRefused
<1>2. RInv /\ [Next]_vars => RInv'
  <2> SUFFICES ASSUME RInv, [Next]_vars PROVE RInv'
    OBVIOUS
  <2>1. IInv' /\ ServerAhead'
    BY NextIInv, ServerAheadStep
  <2>2. \A w \in Windows : winState[w] = "dead" => winState'[w] = "dead"
    BY LifeAdvances DEF IInv
  <2>3. rejected \subseteq Windows
    BY DEF IInv, TypeOK
  <2>4. CASE UNCHANGED <<rejected, broken>>
    BY <2>1, <2>2, <2>3, <2>4 DEF OnlyDeadRefused
  <2>5. CASE WaylandProtocol
    <3>0. PICK failing \in SUBSET X11 :
            /\ rejected' = rejected \cup {w \in ToSet(sWin) : ~Accepted(w, failing)}
            /\ broken' = broken \cup failing
      BY <2>5 DEF WaylandProtocol
    <3>1. /\ sWin \in Seq(Windows) /\ dispatched \in Seq(Windows)
          /\ issued = dispatched \o (sWin \o <<>>) /\ winState' = winState
      BY <2>5 DEF WaylandProtocol, IInv, TypeOK, Drained, RequestsConserved, InFlight, clients
    <3>2. issued = dispatched \o sWin
      BY <3>1, ConcatEmptySeq
    <3>3. \A w \in ToSet(sWin) : w \in Windows /\ winState[w] # "new"
      <4>1. ASSUME NEW i \in 1..Len(sWin)
            PROVE  sWin[i] \in Windows /\ winState[sWin[i]] # "new"
        <5>1. /\ Len(sWin) \in Nat /\ Len(dispatched) \in Nat
              /\ Len(issued) = Len(dispatched) + Len(sWin)
          BY <3>1, <3>2, LenProperties, ConcatProperties
        <5>2. /\ Len(dispatched) + i \in 1..(Len(dispatched) + Len(sWin))
              /\ ~(Len(dispatched) + i <= Len(dispatched))
              /\ Len(dispatched) + i - Len(dispatched) = i
          BY <5>1
        <5>3. issued[Len(dispatched) + i] = sWin[i]
          BY <3>1, <3>2, <5>2, ConcatProperties
        <5>4. Len(dispatched) + i \in DOMAIN issued
          BY <5>1, <5>2, LenProperties DEF IInv, TypeOK
        <5>5. QED
          BY <3>1, <5>3, <5>4, ElementOfSeq DEF ServerAhead
      <4>2. QED
        BY <3>1, <4>1, LenProperties DEF ToSet
    <3>4. \A w \in Windows : winState[w] # "new" /\ ~Live(w) => winState[w] = "dead"
      BY DEF IInv, TypeOK, Live
    <3>5. OnlyDeadRefused'
      BY <3>0, <3>1, <3>3, <3>4 DEF OnlyDeadRefused, Accepted
    <3>6. QED
      BY <2>1, <3>5
  <2>6. WaylandProtocol \/ UNCHANGED <<rejected, broken>>
    BY DEF Next, RunLoop, Clients, MapWindow, DestroyWindow, OpenPopup, DestroyPopup,
           WaylandExtract, MainExtract, Layout, Present, Quit, IpcDismiss, vars, history
  <2>7. QED
    BY <2>4, <2>5, <2>6
<1>3. QED
  BY <1>1, <1>2, PTL DEF Spec, RInv

\* Every variable keeps its type, nothing waits longer than a frame and nothing
\* alive is refused but by its X connection.
THEOREM BoundaryIsSound == Spec => []BoundarySound
<1>1. TypeOK /\ OneFrameLatency /\ OnlyDeadRefused => BoundarySound
  BY DEF BoundarySound
<1>2. QED
  BY <1>1, TypeCorrect, LatencyIsOneFrame, RefusalsAreDead, PTL

-----------------------------------------------------------------------------
(* The two directions as mailboxes.                                        *)

\* The boundary delivers window requests like a mailbox.
THEOREM RequestsAreAMailbox == Spec => RequestMailbox
<1>1. Init => Requests!Init
  BY DEF Init, Requests!Init
<1>2. IInv /\ IInv' /\ [Next]_vars => [Requests!Next]_<<issued, dispatched>>
  <2> SUFFICES ASSUME IInv, IInv', [Next]_vars
               PROVE  Requests!Next \/ UNCHANGED <<issued, dispatched>>
    BY DEF Requests!Next
  <2>t. /\ issued \in Seq(Windows) /\ dispatched \in Seq(Windows)
        /\ issued' \in Seq(Windows) /\ dispatched' \in Seq(Windows)
    BY DEF IInv, TypeOK
  <2>1. CASE Layout
    <3>1. PICK batch \in SeqOf({w \in Windows : Known(w)}, MaxBatch) : issued' = issued \o batch
      BY <2>1 DEF Layout
    <3>2. batch \in Seq(Windows)
      BY BoundsType, SeqOfIsSeq, SeqMonotonic
    <3>3. IsPrefix(issued, issued') /\ dispatched' = dispatched
      BY <2>1, <2>t, <3>1, <3>2, PrefixOfConcat DEF Layout
    <3>4. QED
      BY <2>t, <3>3 DEF Requests!Next, Requests!Post, IsPrefix, Requests!IsPrefix
  <2>2. CASE WaylandProtocol
    <3>1. /\ sWin \in Seq(Windows) /\ issued' = issued
          /\ dispatched' = dispatched \o sWin /\ issued = dispatched \o (sWin \o <<>>)
      BY <2>2 DEF WaylandProtocol, IInv, Drained, RequestsConserved, InFlight
    <3>2. issued = dispatched \o sWin
      BY <3>1, ConcatEmptySeq
    <3>3. IsPrefix(dispatched, dispatched')
      BY <2>t, <3>1, PrefixOfConcat
    <3>4. IsPrefix(dispatched', issued)
      BY <3>1, <3>2, <2>t, LenProperties DEF IsPrefix
    <3>5. QED
      BY <3>1, <3>3, <3>4 DEF Requests!Next, Requests!Receive, IsPrefix, Requests!IsPrefix
  <2>3. Layout \/ WaylandProtocol \/ UNCHANGED <<issued, dispatched>>
    BY DEF Next, RunLoop, Clients, MapWindow, DestroyWindow, OpenPopup, DestroyPopup,
           WaylandExtract, MainExtract, Present, Quit, IpcDismiss, vars, history
  <2>4. QED
    BY <2>1, <2>2, <2>3
<1>3. QED
  BY <1>1, <1>2, Invariance, PTL DEF Spec, RequestMailbox, Requests!Spec

\* The boundary delivers client events like a mailbox.
THEOREM EventsAreAMailbox == Spec => EventMailbox
<1>1. Init => Events!Init
  BY DEF Init, Events!Init
<1>2. IInv /\ IInv' /\ [Next]_vars => [Events!Next]_<<emitted, handled>>
  <2> SUFFICES ASSUME IInv, IInv', [Next]_vars
               PROVE  Events!Next \/ UNCHANGED <<emitted, handled>>
    BY DEF Events!Next
  <2>t. /\ emitted \in Seq(Event) /\ handled \in Seq(Event) /\ emitted' \in Seq(Event)
        /\ mIngress \in Seq(Event)
    BY DEF IInv, TypeOK
  <2>1. CASE Layout
    <3>1. /\ handled' = handled \o mIngress /\ emitted' = emitted
          /\ emitted = handled \o (mIngress \o <<>>)
      BY <2>1 DEF Layout, IInv, Drained, EventsConserved, Pending
    <3>2. emitted = handled'
      BY <2>t, <3>1, ConcatEmptySeq
    <3>3. IsPrefix(handled, handled') /\ IsPrefix(handled', emitted)
      BY <2>t, <3>1, <3>2, PrefixOfConcat, LenProperties DEF IsPrefix
    <3>4. QED
      BY <3>1, <3>3 DEF Events!Next, Events!Receive, IsPrefix, Events!IsPrefix
  <2>2. CASE handled' = handled
    <3>1. CASE UNCHANGED emitted
      BY <2>2, <3>1
    <3>2. CASE \E s \in Seq(Event) : emitted' = emitted \o s
      <4>1. IsPrefix(emitted, emitted')
        BY <2>t, <3>2, PrefixOfConcat
      <4>2. QED
        BY <2>t, <2>2, <4>1 DEF Events!Next, Events!Post, IsPrefix, Events!IsPrefix
    <3>3. QED
      BY <3>1, <3>2, EmittedExtends
  <2>3. Layout \/ handled' = handled
    BY DEF Next, RunLoop, Clients, MapWindow, DestroyWindow, OpenPopup, DestroyPopup,
           WaylandExtract, MainExtract, WaylandProtocol, Present, Quit, IpcDismiss, vars, history
  <2>4. QED
    BY <2>1, <2>2, <2>3
<1>3. QED
  BY <1>1, <1>2, Invariance, PTL DEF Spec, EventMailbox, Events!Spec

\* Requests and events both cross the boundary once and in order.
THEOREM BothAreMailboxes == Spec => Mailboxes
<1>1. QED
  BY RequestsAreAMailbox, EventsAreAMailbox, PTL DEF Mailboxes
=============================================================================
