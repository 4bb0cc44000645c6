------------------------ MODULE SurfaceLifecycleProofs ------------------------
(***************************************************************************)
(* What holds of the window and popup lifecycle for any set of surfaces,   *)
(* any number of events and any clients.                                   *)
(*                                                                         *)
(* That EntityIndex names the right entity is not inductive by itself: a   *)
(* spawn command is applied long after it was queued, and would overwrite  *)
(* an entity that got the same id in between.  Fresh says that none did.   *)
(*                                                                         *)
(* That nothing comes back rests on a close being the last event of its    *)
(* window wherever it waits (ClosesLast), and on a despawn naming only     *)
(* windows nothing waits for (Despawns); that no window is lost rests on a *)
(* commit being recorded behind an upsert (Led) and the upsert being       *)
(* worked through first.                                                   *)
(***************************************************************************)
EXTENDS SurfaceLifecycle, SequenceTheorems, TLAPS

\* The ids of queued spawns are reserved: none is in the world, none is queued twice.
Fresh ==
  /\ \A e \in DOMAIN world : e <= spawned
  /\ \A i \in DOMAIN commands : commands[i].op = "spawn" =>
       commands[i].id <= spawned /\ commands[i].id \notin DOMAIN world
  /\ \A i, j \in DOMAIN commands :
       i # j /\ commands[i].op = "spawn" /\ commands[j].op = "spawn" =>
         commands[i].id # commands[j].id

IInv == TypeOK /\ Fresh /\ IndexSound

-----------------------------------------------------------------------------
(* Sequences.                                                              *)

\* A sequence is its head followed by its tail.
LEMMA HeadAndTail ==
  ASSUME NEW S, NEW s \in Seq(S), s # <<>>
  PROVE  /\ Head(s) \in S /\ Tail(s) \in Seq(S)
         /\ Len(Tail(s)) = Len(s) - 1 /\ Len(s) \in Nat
         /\ Head(s) = s[1] /\ 1 \in DOMAIN s
         /\ \A i \in DOMAIN Tail(s) : Tail(s)[i] = s[i + 1] /\ i + 1 \in DOMAIN s /\ i \in Nat
<1>1. Len(s) \in Nat /\ Len(s) # 0 /\ DOMAIN s = 1..Len(s)
  BY EmptySeq, LenProperties
<1>2. /\ Head(s) \in S /\ Tail(s) \in Seq(S) /\ Len(Tail(s)) = Len(s) - 1
      /\ \A i \in 1..Len(Tail(s)) : Tail(s)[i] = s[i + 1]
  BY HeadTailProperties
<1>3. DOMAIN Tail(s) = 1..Len(Tail(s))
  BY <1>2, LenProperties
<1>4. Head(s) = s[1]
  BY <1>1
<1>5. QED
  BY <1>1, <1>2, <1>3, <1>4

\* Appending a command keeps the ones before it.
LEMMA Appended ==
  ASSUME NEW S, NEW s \in Seq(S), NEW x \in S
  PROVE  /\ Append(s, x) \in Seq(S)
         /\ Len(s) \in Nat /\ DOMAIN s = 1..Len(s) /\ DOMAIN Append(s, x) = 1..Len(s) + 1
         /\ \A i \in 1..Len(s) : Append(s, x)[i] = s[i]
         /\ Append(s, x)[Len(s) + 1] = x
<1>1. Len(s) \in Nat /\ DOMAIN s = 1..Len(s)
  BY LenProperties
<1>2. QED
  BY <1>1, AppendProperties, LenProperties

-----------------------------------------------------------------------------
(* The loops of the two systems.                                           *)

\* What every iteration has in common.
Iteration ==
  /\ stage \in {"windows", "popups"} /\ batch # <<>>
  /\ Applied \/ Deferred
  /\ known' \subseteq Surfaces
  /\ focus' \in AllWindows \cup {NoSurface} /\ dismissals' \subseteq Popups
  /\ \/ UNCHANGED <<commands, spawned>>
     \/ \E entity \in Entity : QueueSpawn(entity)
     \/ UNCHANGED spawned /\ \E e \in EntityIds : QueueDespawn(e)
  /\ \/ UNCHANGED world
     \/ \E e \in DOMAIN world, attached \in BOOLEAN : Attach(e, attached)
  /\ Elsewhere

\* The event at hand is one of the running system.
LEMMA EventType ==
  ASSUME TypeOK, batch # <<>>
  PROVE  /\ stage = "windows" => Event \in WindowEvent
         /\ stage = "popups" => Event \in PopupEvent
<1>1. ASSUME stage = "windows" PROVE Event \in WindowEvent
  <2>1. batch \in Seq(WindowEvent)
    BY <1>1 DEF TypeOK, ShellTypes, LocalQueue
  <2>2. QED
    BY <2>1, HeadAndTail DEF Event
<1>2. ASSUME stage = "popups" PROVE Event \in PopupEvent
  <2>1. batch \in Seq(PopupEvent)
    BY <1>2 DEF TypeOK, ShellTypes, LocalQueue
  <2>2. QED
    BY <2>1, HeadAndTail DEF Event
<1>3. QED
  BY <1>1, <1>2

\* An iteration leaves events of the right kind for later ones.
LEMMA QueuesStayTyped ==
  ASSUME NEW S, NEW b \in Seq(S), NEW d \in Seq(S), b # <<>>
  PROVE  Tail(b) \in Seq(S) /\ Append(d, Head(b)) \in Seq(S)
<1>1. Tail(b) \in Seq(S) /\ Head(b) \in S
  BY HeadAndTail
<1>2. QED
  BY <1>1, AppendProperties

LEMMA IterationQueues ==
  ASSUME TypeOK, Iteration
  PROVE  batch' \in LocalQueue' /\ deferring' \in LocalQueue'
<1>1. stage' = stage
  BY DEF Iteration, Elsewhere
<1>2. /\ batch' = Tail(batch)
      /\ deferring' = deferring \/ deferring' = Append(deferring, Head(batch))
  BY DEF Iteration, Applied, Deferred, Event
<1>3. CASE stage = "windows"
  <2>1. batch \in Seq(WindowEvent) /\ deferring \in Seq(WindowEvent)
    BY <1>3 DEF TypeOK, ShellTypes, LocalQueue
  <2>2. batch' \in Seq(WindowEvent) /\ deferring' \in Seq(WindowEvent)
    BY <1>2, <2>1, QueuesStayTyped DEF Iteration
  <2>3. QED
    BY <1>1, <1>3, <2>2 DEF LocalQueue
<1>4. CASE stage = "popups"
  <2>1. batch \in Seq(PopupEvent) /\ deferring \in Seq(PopupEvent)
    BY <1>4 DEF TypeOK, ShellTypes, LocalQueue
  <2>2. batch' \in Seq(PopupEvent) /\ deferring' \in Seq(PopupEvent)
    BY <1>2, <2>1, QueuesStayTyped DEF Iteration
  <2>3. QED
    BY <1>1, <1>4, <2>2 DEF LocalQueue
<1>5. QED
  BY <1>3, <1>4 DEF Iteration

\* Queueing a command types the queue and reserves a new id.
Reserving ==
  /\ commands' \in Seq(Command) /\ spawned' \in Nat /\ spawned <= spawned'
  /\ \A i \in DOMAIN commands' : commands'[i].op = "spawn" =>
       commands'[i].id <= spawned' /\ commands'[i].id \notin DOMAIN world
  /\ \A i, j \in DOMAIN commands' :
       i # j /\ commands'[i].op = "spawn" /\ commands'[j].op = "spawn" =>
         commands'[i].id # commands'[j].id

LEMMA QueueingReserves ==
  ASSUME TypeOK, Fresh, Iteration
  PROVE  Reserving
<1>1. commands \in Seq(Command) /\ spawned \in Nat /\ DOMAIN world \subseteq EntityIds
  BY DEF TypeOK, ShellTypes, WorldTypes
<1>2. CASE UNCHANGED <<commands, spawned>>
  BY <1>1, <1>2 DEF Fresh, Reserving
<1>3. ASSUME NEW entity \in Entity, QueueSpawn(entity)
      PROVE  Reserving
  <2> DEFINE new == [op |-> "spawn", id |-> spawned + 1, entity |-> entity]
  <2>1. spawned' = spawned + 1 /\ commands' = Append(commands, new)
    BY <1>3 DEF QueueSpawn
  <2>2. spawned + 1 \in EntityIds
    BY <1>1 DEF EntityIds, NoEntity
  <2>3. new \in Command
    BY <2>2 DEF Command
  <2>4. /\ commands' \in Seq(Command)
        /\ Len(commands) \in Nat /\ DOMAIN commands = 1..Len(commands)
        /\ DOMAIN commands' = 1..Len(commands) + 1
        /\ \A i \in 1..Len(commands) : commands'[i] = commands[i]
        /\ commands'[Len(commands) + 1] = new
    BY <1>1, <2>1, <2>3, Appended
  <2>5. \A i \in DOMAIN commands' : i \in DOMAIN commands \/ i = Len(commands) + 1
    BY <2>4
  <2>6. new.id = spawned + 1 /\ spawned + 1 \notin DOMAIN world
    BY <1>1 DEF Fresh
  <2>7. \A i \in DOMAIN commands : commands[i].op = "spawn" =>
          commands[i].id <= spawned /\ commands[i].id \in Nat
    <3>1. \A i \in DOMAIN commands : commands[i] \in Command
      BY <1>1, ElementOfSeq, LenProperties
    <3>2. QED
      BY <3>1 DEF Fresh, Command, EntityIds
  <2>8. \A i \in DOMAIN commands' : commands'[i].op = "spawn" =>
          commands'[i].id <= spawned' /\ commands'[i].id \notin DOMAIN world
    BY <1>1, <2>1, <2>4, <2>5, <2>6, <2>7 DEF Fresh
  <2>9. \A i, j \in DOMAIN commands' :
          i # j /\ commands'[i].op = "spawn" /\ commands'[j].op = "spawn" =>
            commands'[i].id # commands'[j].id
    BY <1>1, <2>4, <2>5, <2>6, <2>7 DEF Fresh
  <2>10. QED
    BY <1>1, <2>1, <2>4, <2>8, <2>9 DEF Reserving
<1>4. ASSUME UNCHANGED spawned, NEW e \in EntityIds, QueueDespawn(e)
      PROVE  Reserving
  <2> DEFINE new == [op |-> "despawn", id |-> e]
  <2>1. commands' = Append(commands, new) /\ new \in Command
    BY <1>4 DEF QueueDespawn, Command
  <2>2. /\ commands' \in Seq(Command)
        /\ Len(commands) \in Nat /\ DOMAIN commands = 1..Len(commands)
        /\ DOMAIN commands' = 1..Len(commands) + 1
        /\ \A i \in 1..Len(commands) : commands'[i] = commands[i]
        /\ commands'[Len(commands) + 1] = new
    BY <1>1, <2>1, Appended
  <2>3. \A i \in DOMAIN commands' : commands'[i].op = "spawn" =>
          i \in DOMAIN commands /\ commands'[i] = commands[i]
    BY <2>2
  <2>4. QED
    BY <1>1, <1>4, <2>2, <2>3 DEF Fresh, Reserving
<1>5. QED
  BY <1>2, <1>3, <1>4 DEF Iteration

\* An iteration changes no more of an entity than whether a buffer is attached.
SameHandles ==
  /\ DOMAIN world' = DOMAIN world /\ world' \in [DOMAIN world' -> Entity]
  /\ \A e \in DOMAIN world :
       world'[e].surface = world[e].surface /\ world'[e].parent = world[e].parent

LEMMA IterationKeepsEntities ==
  ASSUME TypeOK, Iteration
  PROVE  SameHandles
<1>1. world \in [DOMAIN world -> Entity]
  BY DEF TypeOK, WorldTypes
<1>2. ASSUME NEW e \in DOMAIN world, NEW attached \in BOOLEAN, Attach(e, attached)
      PROVE  SameHandles
  <2>1. world' = [world EXCEPT ![e] = [@ EXCEPT !.attached = attached]]
    BY <1>2 DEF Attach
  <2>2. world[e] \in Entity
    BY <1>1
  <2>3. /\ [world[e] EXCEPT !.attached = attached] \in Entity
        /\ [world[e] EXCEPT !.attached = attached].surface = world[e].surface
        /\ [world[e] EXCEPT !.attached = attached].parent = world[e].parent
    BY <2>2 DEF Entity
  <2>4. QED
    BY <1>1, <2>1, <2>3 DEF SameHandles
<1>3. QED
  BY <1>1, <1>2 DEF Iteration, SameHandles

LEMMA IterationPreserves == IInv /\ Iteration => IInv'
<1> SUFFICES ASSUME IInv, Iteration PROVE IInv'
  OBVIOUS
<1> USE DEF IInv
<1>1. /\ DOMAIN world' = DOMAIN world /\ world' \in [DOMAIN world' -> Entity]
      /\ \A e \in DOMAIN world : world'[e].surface = world[e].surface
  BY IterationKeepsEntities DEF SameHandles
<1>2. commands' \in Seq(Command) /\ spawned' \in Nat /\ spawned <= spawned'
  BY QueueingReserves DEF Reserving
<1>3. ClientTypes'
  BY DEF TypeOK, ClientTypes, Iteration, Elsewhere, clients
<1>4. ShellTypes'
  BY <1>2, IterationQueues DEF TypeOK, ShellTypes, Iteration, Elsewhere
<1>5. WorldTypes'
  BY <1>1, <1>2 DEF TypeOK, WorldTypes, Iteration, Elsewhere
<1>6. Fresh'
  <2>1. \A e \in DOMAIN world : e <= spawned'
    BY <1>2 DEF TypeOK, WorldTypes, EntityIds, Fresh
  <2>2. QED
    BY <1>1, <2>1, QueueingReserves DEF Fresh, Reserving
<1>7. IndexSound'
  BY <1>1 DEF IndexSound, Iteration, Elsewhere
<1>8. QED
  BY <1>3, <1>4, <1>5, <1>6, <1>7 DEF TypeOK

\* Each action of the two loops is an iteration.
LEMMA LoopsIterate ==
  ASSUME TypeOK,
         \/ UpsertWindow \/ CommitWindow \/ ManageWindow \/ CloseShownWindow
         \/ CreatePopup \/ CommitOnPopup \/ RepositionOnPopup \/ CloseOnPopup
  PROVE  Iteration
<1>1. \A s \in Surfaces : Resolve(s) \subseteq DOMAIN world /\ ParentFor(s) \subseteq DOMAIN world
  BY DEF Resolve, Indexed, Scan, ParentFor, ParentEntities
<1>2. known \subseteq Surfaces /\ focus \in AllWindows \cup {NoSurface} /\ dismissals \subseteq Popups
  BY DEF TypeOK, ShellTypes
<1>3. DOMAIN world \subseteq EntityIds
  BY DEF TypeOK, WorldTypes
<1>4. CASE UpsertWindow
  <2>1. Event \in WindowEvent /\ Event.kind = "upsert"
    BY <1>4, EventType DEF UpsertWindow, At
  <2>2. Event.surface \in AllWindows /\ Event.sized \in BOOLEAN
    BY <2>1 DEF WindowEvent
  <2>3. [surface |-> Event.surface, parent |-> NoEntity, attached |-> Event.sized] \in Entity
    BY <2>2 DEF Entity, Surfaces
  <2>4. QED
    BY <1>1, <1>2, <1>4, <2>2, <2>3 DEF UpsertWindow, Existing, Iteration, At, Surfaces
<1>5. CASE CommitWindow
  <2>1. Event \in WindowEvent /\ Event.kind = "committed"
    BY <1>5, EventType DEF CommitWindow, At
  <2>2. Event.surface \in Surfaces /\ Event.attached \in BOOLEAN
    BY <2>1 DEF WindowEvent, Surfaces, AllWindows
  <2>3. QED
    BY <1>1, <1>2, <1>5, <2>2 DEF CommitWindow, Iteration, At
<1>6. CASE ManageWindow
  <2>1. Event \in WindowEvent /\ Event.kind = "manager"
    BY <1>6, EventType DEF ManageWindow, At
  <2>2. Event.surface \in AllWindows
    BY <2>1 DEF WindowEvent
  <2>3. QED
    BY <1>2, <1>6, <2>2 DEF ManageWindow, Iteration, At
<1>7. CASE CloseShownWindow
  <2>1. Event \in WindowEvent
    BY <1>7, EventType DEF CloseShownWindow, At
  <2>2. Event.surface \in AllWindows
    BY <2>1 DEF WindowEvent, AllWindows
  <2>3. Resolve(Event.surface) \subseteq EntityIds
    BY <1>1, <1>3, <2>2 DEF Surfaces
  <2>4. QED
    BY <1>2, <1>7, <2>2, <2>3
    DEF CloseShownWindow, FocusWithout, PopupsUnder, Iteration, At
<1>8. CASE CreatePopup
  <2>1. Event \in PopupEvent /\ Event.kind = "created"
    BY <1>8, EventType DEF CreatePopup, At
  <2>2. Event.surface \in Popups /\ Event.parent \in Surfaces
    BY <2>1 DEF PopupEvent, Surfaces, AllWindows
  <2>3. \A e \in ParentFor(Event.parent) :
          [surface |-> Event.surface, parent |-> e, attached |-> FALSE] \in Entity
    BY <1>1, <1>3, <2>2 DEF Entity, Surfaces
  <2>4. QED
    BY <1>2, <1>8, <2>2, <2>3 DEF CreatePopup, Iteration, At, Surfaces
<1>9. CASE CommitOnPopup
  <2>1. Event \in PopupEvent /\ Event.kind = "committed"
    BY <1>9, EventType DEF CommitOnPopup, At
  <2>2. Event.surface \in Surfaces /\ Event.attached \in BOOLEAN
    BY <2>1 DEF PopupEvent, Surfaces
  <2>3. QED
    BY <1>1, <1>2, <1>9, <2>2 DEF CommitOnPopup, Iteration, At
<1>10. CASE RepositionOnPopup
  BY <1>2, <1>10 DEF RepositionOnPopup, Iteration, At
<1>11. CASE CloseOnPopup
  <2>1. Event \in PopupEvent
    BY <1>11, EventType DEF CloseOnPopup, At
  <2>2. Event.surface \in Popups
    BY <2>1 DEF PopupEvent
  <2>3. Resolve(Event.surface) \subseteq EntityIds
    BY <1>1, <1>3, <2>2 DEF Surfaces
  <2>4. QED
    BY <1>2, <1>11, <2>3 DEF CloseOnPopup, Iteration, At
<1>12. QED
  BY <1>4, <1>5, <1>6, <1>7, <1>8, <1>9, <1>10, <1>11

-----------------------------------------------------------------------------
(* Clients.                                                                *)

\* Recording events of the right kind disturbs nothing but the ingress.
LEMMA RecordPreserves ==
  ASSUME IInv,
         NEW events,
         \/ events \in Seq(WindowEvent) /\ RecordWindow(events)
         \/ events \in Seq(PopupEvent) /\ RecordPopup(events),
         client' \in [Surfaces -> {"new", "open", "dismissed", "closed", "gone"}],
         content' \in [Surfaces -> BOOLEAN]
  PROVE  IInv'
<1> USE DEF IInv
<1>1. Unaffected
  BY DEF RecordWindow, RecordPopup
<1>2. Len(events) \in Nat
  BY LenProperties
<1>3. winIngress' \in Seq(WindowEvent) /\ popIngress' \in Seq(PopupEvent)
  BY ConcatProperties DEF RecordWindow, RecordPopup, TypeOK, ClientTypes
<1>4. sent' \in 0..MaxEvents
  BY <1>2, BoundType DEF RecordWindow, RecordPopup, TypeOK, ClientTypes
<1>5. ClientTypes'
  BY <1>3, <1>4 DEF ClientTypes
<1>6. ShellTypes'
  BY <1>1 DEF Unaffected, TypeOK, ShellTypes, LocalQueue, local
<1>7. WorldTypes' /\ Fresh' /\ IndexSound'
  BY <1>1 DEF Unaffected, TypeOK, WorldTypes, Fresh, IndexSound, ecs, local
<1>8. QED
  BY <1>5, <1>6, <1>7 DEF TypeOK

\* One or two events make a sequence of events.
LEMMA EventSequences ==
  /\ \A e \in WindowEvent : <<e>> \in Seq(WindowEvent)
  /\ \A e, f \in WindowEvent : <<e, f>> \in Seq(WindowEvent)
  /\ \A e \in PopupEvent : <<e>> \in Seq(PopupEvent)
  OBVIOUS

LEMMA ClientsPreserve == IInv /\ Clients => IInv'
<1> SUFFICES ASSUME IInv, Clients PROVE IInv'
  OBVIOUS
<1> USE EventSequences
<1>1. /\ client \in [Surfaces -> {"new", "open", "dismissed", "closed", "gone"}]
      /\ content \in [Surfaces -> BOOLEAN]
  BY DEF IInv, TypeOK, ClientTypes
<1>2. ASSUME NEW w \in Windows, ChangeMetadata(w) PROVE IInv'
  <2>1. Upsert(w, FALSE) \in WindowEvent
    BY DEF Upsert, WindowEvent, AllWindows
  <2>2. QED
    BY <1>1, <1>2, <2>1, RecordPreserves DEF ChangeMetadata, Uses
<1>3. ASSUME NEW w \in Windows, NEW sized \in BOOLEAN, CommitToplevel(w, sized) PROVE IInv'
  <2>1. Upsert(w, sized) \in WindowEvent /\ Committed(w, sized) \in WindowEvent
    BY DEF Upsert, Committed, WindowEvent, AllWindows
  <2>2. QED
    BY <1>1, <1>3, <2>1, RecordPreserves DEF CommitToplevel, Uses
<1>4. ASSUME NEW w \in X11Windows, ConfigureX11(w) PROVE IInv'
  <2>1. Upsert(w, TRUE) \in WindowEvent
    BY DEF Upsert, WindowEvent, AllWindows
  <2>2. QED
    BY <1>1, <1>4, <2>1, RecordPreserves DEF ConfigureX11, Uses
<1>5. ASSUME NEW w \in AllWindows, CloseWindow(w) PROVE IInv'
  <2>1. Closed(w) \in WindowEvent
    BY DEF Closed, WindowEvent
  <2>2. QED
    BY <1>1, <1>5, <2>1, RecordPreserves DEF CloseWindow
<1>6. ASSUME NEW w \in AllWindows, NEW r \in {"activate", "restore", "minimize"},
             RequestManager(w, r)
      PROVE  IInv'
  <2>1. [kind |-> "manager", surface |-> w, request |-> r] \in WindowEvent
    BY DEF WindowEvent
  <2>2. QED
    BY <1>1, <1>6, <2>1, RecordPreserves DEF RequestManager, Uses
<1>7. ASSUME NEW p \in Popups, OpenPopup(p) PROVE IInv'
  <2>1. [kind |-> "created", surface |-> p, parent |-> Parent[p]] \in PopupEvent
    BY ParentType DEF PopupEvent
  <2>2. QED
    BY <1>1, <1>7, <2>1, RecordPreserves DEF OpenPopup
<1>8. ASSUME NEW p \in Popups, NEW attached \in BOOLEAN, CommitPopup(p, attached) PROVE IInv'
  <2>1. Committed(p, attached) \in PopupEvent
    BY DEF Committed, PopupEvent
  <2>2. QED
    BY <1>1, <1>8, <2>1, RecordPreserves DEF CommitPopup
<1>9. ASSUME NEW p \in Popups, RepositionPopup(p) PROVE IInv'
  <2>1. [kind |-> "repositioned", surface |-> p] \in PopupEvent
    BY DEF PopupEvent
  <2>2. QED
    BY <1>1, <1>9, <2>1, RecordPreserves DEF RepositionPopup
<1>10. ASSUME NEW p \in Popups, DismissPopup(p) \/ DestroyPopup(p) \/ DestroyPopupSurface(p)
       PROVE  IInv'
  <2>1. Closed(p) \in PopupEvent
    BY DEF Closed, PopupEvent
  <2>2. QED
    BY <1>1, <1>10, <2>1, RecordPreserves DEF DismissPopup, DestroyPopup, DestroyPopupSurface
<1>11. QED
  BY <1>2, <1>3, <1>4, <1>5, <1>6, <1>7, <1>8, <1>9, <1>10 DEF Clients

-----------------------------------------------------------------------------
(* The beginning and the end of the systems, and of the frame.             *)

\* The steps between the loops hand queues over; no entity is touched.
LEMMA StagesPreserve ==
  IInv /\ (BeginWindows \/ EndWindows \/ BeginPopups \/ EndPopups \/ EndFrame) => IInv'
<1> SUFFICES ASSUME IInv,
                    BeginWindows \/ EndWindows \/ BeginPopups \/ EndPopups \/ EndFrame
             PROVE  IInv'
  OBVIOUS
<1> USE DEF IInv
<1>1. UNCHANGED <<commands, ecs>>
  BY DEF BeginWindows, EndWindows, BeginPopups, EndPopups, EndFrame, local
<1>2. WorldTypes' /\ Fresh' /\ IndexSound'
  BY <1>1 DEF TypeOK, WorldTypes, Fresh, IndexSound, ecs
<1>3. /\ winIngress \in Seq(WindowEvent) /\ deferredWin \in Seq(WindowEvent)
      /\ popIngress \in Seq(PopupEvent) /\ deferredPop \in Seq(PopupEvent)
      /\ <<>> \in Seq(WindowEvent) /\ <<>> \in Seq(PopupEvent)
  BY EmptySeq DEF TypeOK, ClientTypes, ShellTypes
<1>4. ClientTypes'
  BY <1>3 DEF TypeOK, ClientTypes, BeginWindows, EndWindows, BeginPopups, EndPopups, EndFrame,
              clients
<1>5. ASSUME BeginWindows PROVE ShellTypes'
  <2>1. deferring = <<>>
    BY <1>5 DEF BeginWindows, TypeOK, ShellTypes, LocalQueue
  <2>2. deferredWin \o winIngress \in Seq(WindowEvent)
    BY <1>3, ConcatProperties
  <2>3. QED
    BY <1>3, <1>5, <2>1, <2>2
    DEF BeginWindows, Batch, TypeOK, ShellTypes, LocalQueue, AllWindows, Surfaces
<1>6. ASSUME EndWindows PROVE ShellTypes'
  BY <1>6 DEF EndWindows, TypeOK, ShellTypes, LocalQueue
<1>7. ASSUME BeginPopups PROVE ShellTypes'
  <2>1. deferring = <<>>
    BY <1>7 DEF BeginPopups, TypeOK, ShellTypes, LocalQueue
  <2>2. deferredPop \o popIngress \in Seq(PopupEvent)
    BY <1>3, ConcatProperties
  <2>3. QED
    BY <1>3, <1>7, <2>1, <2>2 DEF BeginPopups, Batch, TypeOK, ShellTypes, LocalQueue, Surfaces
<1>8. ASSUME EndPopups PROVE ShellTypes'
  BY <1>8 DEF EndPopups, TypeOK, ShellTypes, LocalQueue
<1>9. ASSUME EndFrame PROVE ShellTypes'
  BY <1>9 DEF EndFrame, TypeOK, ShellTypes, LocalQueue, local
<1>10. QED
  BY <1>2, <1>4, <1>5, <1>6, <1>7, <1>8, <1>9 DEF TypeOK

-----------------------------------------------------------------------------
(* Commands.                                                               *)

\* Applying a command disturbs no queue but that of the commands, and no reservation
\* as long as the rest of the world is left alone.
LEMMA FlushingKeepsQueues ==
  ASSUME IInv, Flushing, commands # <<>>
  PROVE  ClientTypes' /\ ShellTypes'
<1> USE DEF IInv
<1>1. commands' \in Seq(Command)
  BY HeadAndTail DEF Flushing, TypeOK, ShellTypes
<1>2. QED
  BY <1>1 DEF Flushing, TypeOK, ClientTypes, ShellTypes, LocalQueue, clients

\* A reservation stays one when nothing but the head of the queue enters the world.
LEMMA FlushingKeepsFresh ==
  ASSUME IInv, Flushing, commands # <<>>,
         \/ DOMAIN world' \subseteq DOMAIN world
         \/ /\ Head(commands).op = "spawn"
            /\ DOMAIN world' = DOMAIN world \cup {Head(commands).id}
  PROVE  Fresh'
<1> USE DEF IInv
<1>1. commands' = Tail(commands) /\ spawned' = spawned /\ commands \in Seq(Command)
  BY DEF Flushing, TypeOK, ShellTypes
<1>2. /\ Head(commands) = commands[1] /\ 1 \in DOMAIN commands
      /\ \A i \in DOMAIN commands' :
           commands'[i] = commands[i + 1] /\ i + 1 \in DOMAIN commands /\ i \in Nat
  BY <1>1, HeadAndTail
<1>3. \A i \in DOMAIN commands' : i \in DOMAIN Tail(commands) /\ i # 0
  <2>1. DOMAIN Tail(commands) = 1..Len(Tail(commands))
    BY <1>1, HeadAndTail, LenProperties
  <2>2. QED
    BY <1>1, <2>1
<1>4. \A e \in DOMAIN world' : e <= spawned'
  BY <1>1, <1>2 DEF Fresh
<1>5. \A i \in DOMAIN commands' : commands'[i].op = "spawn" =>
        commands'[i].id <= spawned' /\ commands'[i].id \notin DOMAIN world'
  <2>1. \A i \in DOMAIN commands' : i + 1 # 1
    BY <1>2, <1>3
  <2>2. QED
    BY <1>1, <1>2, <2>1 DEF Fresh
<1>6. \A i, j \in DOMAIN commands' :
        i # j /\ commands'[i].op = "spawn" /\ commands'[j].op = "spawn" =>
          commands'[i].id # commands'[j].id
  <2>1. \A i, j \in DOMAIN commands' : i # j => i + 1 # j + 1
    BY <1>2
  <2>2. QED
    BY <1>2, <2>1 DEF Fresh
<1>7. QED
  BY <1>4, <1>5, <1>6 DEF Fresh

LEMMA SpawnPreserves == IInv /\ ApplySpawn => IInv'
<1> SUFFICES ASSUME IInv, ApplySpawn PROVE IInv'
  OBVIOUS
<1> USE DEF IInv
<1> DEFINE id == Head(commands).id
           entity == Head(commands).entity
<1>1. Flushing /\ commands # <<>> /\ Head(commands).op = "spawn"
  BY DEF ApplySpawn, IsCommand
<1>2. /\ world' = [e \in DOMAIN world \cup {id} |-> IF e = id THEN Linked(entity) ELSE world[e]]
      /\ index' = [index EXCEPT ![entity.surface] = id]
  BY DEF ApplySpawn, IndexWith
<1>3. Head(commands) \in Command
  BY <1>1, HeadAndTail DEF TypeOK, ShellTypes
<1>4. id \in EntityIds /\ entity \in Entity
  BY <1>1, <1>3 DEF Command
<1>5. id \notin DOMAIN world
  <2>1. Head(commands) = commands[1] /\ 1 \in DOMAIN commands
    BY <1>1, HeadAndTail DEF TypeOK, ShellTypes
  <2>2. QED
    BY <1>1, <2>1 DEF Fresh
<1>6. Linked(entity) \in Entity /\ Linked(entity).surface = entity.surface
  BY <1>4 DEF Linked, Entity, TypeOK, WorldTypes
<1>7. entity.surface \in Surfaces
  BY <1>4 DEF Entity
<1>8. WorldTypes'
  <2>1. DOMAIN world' \subseteq EntityIds /\ world' \in [DOMAIN world' -> Entity]
    BY <1>2, <1>4, <1>6 DEF TypeOK, WorldTypes
  <2>2. index' \in [Surfaces -> EntityIds \cup {NoEntity}]
    BY <1>2, <1>4, <1>7 DEF TypeOK, WorldTypes
  <2>3. QED
    BY <1>1, <2>1, <2>2 DEF ApplySpawn, Flushing, TypeOK, WorldTypes
<1>9. IndexSound'
  <2> SUFFICES ASSUME NEW s \in Surfaces, index'[s] # NoEntity
               PROVE  index'[s] \in DOMAIN world' /\ world'[index'[s]].surface = s
    BY DEF IndexSound
  <2>1. CASE s = entity.surface
    BY <1>2, <1>6, <2>1 DEF TypeOK, WorldTypes
  <2>2. CASE s # entity.surface
    <3>1. index'[s] = index[s]
      BY <1>2, <2>2 DEF TypeOK, WorldTypes
    <3>2. index[s] \in DOMAIN world /\ world[index[s]].surface = s
      BY <3>1 DEF IndexSound
    <3>3. QED
      BY <1>2, <1>5, <3>1, <3>2
  <2>3. QED
    BY <2>1, <2>2
<1>10. DOMAIN world' = DOMAIN world \cup {id}
  BY <1>2
<1>11. Fresh'
  BY <1>1, <1>10, FlushingKeepsFresh
<1>12. QED
  BY <1>1, <1>8, <1>9, <1>11, FlushingKeepsQueues DEF TypeOK

\* Whatever goes down with an entity was in the world.
LEMMA SubtreeInWorld == \A root : Subtree(root) \subseteq DOMAIN world
  BY DEF Subtree

LEMMA DespawnPreserves == IInv /\ ApplyDespawn => IInv'
<1> SUFFICES ASSUME IInv, ApplyDespawn PROVE IInv'
  OBVIOUS
<1> USE DEF IInv
<1> DEFINE doomed == Subtree(Head(commands).id)
<1>1. Flushing /\ commands # <<>>
  BY DEF ApplyDespawn, IsCommand
<1>2. /\ world' = [e \in DOMAIN world \ doomed |-> world[e]]
      /\ index' = IndexWithout(doomed)
      /\ retired' = retired \cup (Handles(doomed) \cap AllWindows)
  BY DEF ApplyDespawn
<1>3. doomed \subseteq DOMAIN world
  BY SubtreeInWorld
<1> HIDE DEF doomed
<1>4. WorldTypes'
  BY <1>1, <1>2 DEF IndexWithout, Flushing, TypeOK, WorldTypes
<1>5. IndexSound'
  <2> SUFFICES ASSUME NEW s \in Surfaces, index'[s] # NoEntity
               PROVE  index'[s] \in DOMAIN world' /\ world'[index'[s]].surface = s
    BY DEF IndexSound
  <2>1. s \notin Handles(doomed) /\ index'[s] = index[s]
    BY <1>2 DEF IndexWithout
  <2>2. index[s] \in DOMAIN world /\ world[index[s]].surface = s
    BY <2>1 DEF IndexSound
  <2>3. index[s] \notin doomed
    BY <2>1, <2>2 DEF Handles
  <2>4. QED
    BY <1>2, <2>1, <2>2, <2>3
<1>6. DOMAIN world' \subseteq DOMAIN world
  BY <1>2
<1>7. Fresh'
  BY <1>1, <1>6, FlushingKeepsFresh
<1>8. QED
  BY <1>1, <1>4, <1>5, <1>7, FlushingKeepsQueues DEF TypeOK

-----------------------------------------------------------------------------
(* The specification.                                                      *)

LEMMA InitIInv == Init => IInv
<1> SUFFICES ASSUME Init PROVE IInv
  OBVIOUS
<1>1. ClientTypes
  BY BoundType, EmptySeq DEF Init, ClientTypes
<1>2. ShellTypes
  BY EmptySeq DEF Init, ShellTypes, LocalQueue
<1>3. WorldTypes /\ IndexSound
  BY DEF Init, WorldTypes, IndexSound, NoEntity
<1>4. Fresh
  <2>1. DOMAIN commands = {}
    BY DEF Init
  <2>2. DOMAIN world = {}
    BY DEF Init
  <2>3. QED
    BY <2>1, <2>2 DEF Fresh
<1>5. QED
  BY <1>1, <1>2, <1>3, <1>4 DEF IInv, TypeOK

LEMMA StepPreserves == IInv /\ [Next]_vars => IInv'
<1> SUFFICES ASSUME IInv, [Next]_vars PROVE IInv'
  OBVIOUS
<1>1. CASE Clients
  BY <1>1, ClientsPreserve
<1>2. CASE \/ UpsertWindow \/ CommitWindow \/ ManageWindow \/ CloseShownWindow
           \/ CreatePopup \/ CommitOnPopup \/ RepositionOnPopup \/ CloseOnPopup
  BY <1>2, LoopsIterate, IterationPreserves DEF IInv
<1>3. CASE BeginWindows \/ EndWindows \/ BeginPopups \/ EndPopups \/ EndFrame
  BY <1>3, StagesPreserve
<1>4. CASE ApplySpawn
  BY <1>4, SpawnPreserves
<1>5. CASE ApplyDespawn
  BY <1>5, DespawnPreserves
<1>6. CASE UNCHANGED vars
  BY <1>6 DEF IInv, TypeOK, ClientTypes, ShellTypes, WorldTypes, LocalQueue, Fresh, IndexSound,
              vars, clients, local, ecs
<1>7. QED
  BY <1>1, <1>2, <1>3, <1>4, <1>5, <1>6 DEF Next, Shell, Windowing, Popuping

\* The types, the freshness of reserved ids and the index hold together, always.
THEOREM Invariance == Spec => []IInv
<1>1. QED
  BY InitIInv, StepPreserves, PTL DEF Spec

\* Every queue holds events of its own kind, whatever clients do.
THEOREM TypeCorrect == Spec => []TypeOK
<1>1. IInv => TypeOK
  BY DEF IInv
<1>2. QED
  BY <1>1, Invariance, PTL

\* EntityIndex.entity_for_surface never names an entity that is gone or stands for
\* another surface, double spawns and double closes included.
THEOREM IndexIsSound == Spec => []IndexSound
<1>1. IInv => IndexSound
  BY DEF IInv
<1>2. QED
  BY <1>1, Invariance, PTL

\* An entity id queued for a spawn stays unused until the command is applied.
THEOREM ReservationsHold == Spec => []Fresh
<1>1. IInv => Fresh
  BY DEF IInv
<1>2. QED
  BY <1>1, Invariance, PTL

-----------------------------------------------------------------------------
(* Queues of events, whatever they are queues of.                          *)

\* A close in the queue is the last event of its surface, whose client is gone.
Closing(q, c) ==
  \A i \in DOMAIN q : q[i].kind = "closed" =>
    c[q[i].surface] = "gone" /\ \A j \in DOMAIN q : i < j => q[j].surface # q[i].surface

Unclosed(q) == \A i \in DOMAIN q : q[i].kind # "closed"

\* Commits of windows outside K come after an upsert.
Led(q, K) ==
  \A i \in DOMAIN q : q[i].kind = "committed" =>
    \/ q[i].surface \in K
    \/ \E j \in DOMAIN q : j < i /\ q[j].kind = "upsert" /\ q[j].surface = q[i].surface

\* Only windows in K have more than requests in the queue.
Within(q, K) == \A i \in DOMAIN q : q[i].kind # "manager" => q[i].surface \in K

Parented(q) == \A i \in DOMAIN q : q[i].kind = "created" => q[i].parent = Parent[q[i].surface]

LEMMA TailKeeps ==
  ASSUME NEW S, NEW q \in Seq(S), q # <<>>, NEW c, NEW K
  PROVE  /\ Closing(q, c) => Closing(Tail(q), c)
         /\ Closing(q, c) /\ Head(q).kind = "closed" =>
              c[Head(q).surface] = "gone" /\ ~ Mentions(Tail(q), Head(q).surface)
         /\ Parented(q) => Parented(Tail(q))
         /\ \A s : ~ Mentions(q, s) => ~ Mentions(Tail(q), s) /\ s # Head(q).surface
         /\ Led(q, K) => Led(Tail(q), K \cup {s \in {Head(q).surface} : Head(q).kind = "upsert"})
         /\ Led(q, K) /\ Head(q).kind = "committed" => Head(q).surface \in K
<1>1. /\ Head(q) = q[1] /\ 1 \in DOMAIN q
      /\ \A i \in DOMAIN Tail(q) : Tail(q)[i] = q[i + 1] /\ i + 1 \in DOMAIN q /\ i \in Nat
      /\ Tail(q) \in Seq(S)
  BY HeadAndTail
<1>2. /\ DOMAIN Tail(q) = 1 .. Len(Tail(q)) /\ DOMAIN q = 1 .. Len(q)
      /\ Len(q) \in Nat /\ Len(Tail(q)) = Len(q) - 1
  BY <1>1, HeadAndTail, LenProperties
<1>3. Closing(q, c) => Closing(Tail(q), c)
  BY <1>1, <1>2 DEF Closing
<1>4. \A i \in DOMAIN Tail(q) : 1 < i + 1
  BY <1>1, <1>2
<1>5. Closing(q, c) /\ Head(q).kind = "closed" =>
        c[Head(q).surface] = "gone" /\ ~ Mentions(Tail(q), Head(q).surface)
  BY <1>1, <1>4 DEF Closing, Mentions
<1>6. \A s : ~ Mentions(q, s) => ~ Mentions(Tail(q), s) /\ s # Head(q).surface
  BY <1>1 DEF Mentions
<1>7. Parented(q) => Parented(Tail(q))
  BY <1>1 DEF Parented
<1>8. ASSUME Led(q, K)
      PROVE  Led(Tail(q), K \cup {s \in {Head(q).surface} : Head(q).kind = "upsert"})
  <2>. SUFFICES ASSUME NEW i \in DOMAIN Tail(q), Tail(q)[i].kind = "committed",
                       Tail(q)[i].surface \notin K
                PROVE  \/ Head(q).kind = "upsert" /\ Tail(q)[i].surface = Head(q).surface
                       \/ \E j \in DOMAIN Tail(q) : /\ j < i /\ Tail(q)[j].kind = "upsert"
                                                    /\ Tail(q)[j].surface = Tail(q)[i].surface
    BY DEF Led
  <2>1. PICK j \in DOMAIN q : /\ j < i + 1 /\ q[j].kind = "upsert"
                              /\ q[j].surface = Tail(q)[i].surface
    BY <1>1, <1>8 DEF Led
  <2>2. CASE j = 1
    BY <1>1, <2>1, <2>2
  <2>3. CASE j # 1
    <3>1. j - 1 \in DOMAIN Tail(q) /\ (j - 1) + 1 = j /\ j - 1 < i
      BY <1>1, <1>2, <2>1, <2>3
    <3>. QED BY <1>1, <2>1, <3>1
  <2>. QED BY <2>2, <2>3
<1>9. Led(q, K) /\ Head(q).kind = "committed" => Head(q).surface \in K
  BY <1>1, <1>2 DEF Led
<1>. QED BY <1>3, <1>5, <1>6, <1>7, <1>8, <1>9

LEMMA AppendKeeps ==
  ASSUME NEW S, NEW q \in Seq(S), NEW x \in S, NEW K
  PROVE  /\ Unclosed(q) /\ x.kind # "closed" => Unclosed(Append(q, x))
         /\ Parented(q) /\ (x.kind = "created" => x.parent = Parent[x.surface])
              => Parented(Append(q, x))
         /\ Within(q, K) /\ (x.kind # "manager" => x.surface \in K) => Within(Append(q, x), K)
         /\ \A s : Mentions(Append(q, x), s) <=> Mentions(q, s) \/ s = x.surface
<1>1. /\ Len(q) \in Nat /\ DOMAIN q = 1 .. Len(q) /\ DOMAIN Append(q, x) = 1 .. Len(q) + 1
      /\ \A i \in 1 .. Len(q) : Append(q, x)[i] = q[i]
      /\ Append(q, x)[Len(q) + 1] = x
  BY Appended
<1>2. \A i \in DOMAIN Append(q, x) : \/ i \in DOMAIN q /\ Append(q, x)[i] = q[i]
                                     \/ i = Len(q) + 1
  BY <1>1
<1>3. \A s : Mentions(Append(q, x), s) <=> Mentions(q, s) \/ s = x.surface
  BY <1>1, <1>2 DEF Mentions
<1>. QED BY <1>1, <1>2, <1>3 DEF Unclosed, Parented, Within

\* The parts of a concatenation.
LEMMA Joined ==
  ASSUME NEW S, NEW q \in Seq(S), NEW r \in Seq(S)
  PROVE  /\ DOMAIN q = 1 .. Len(q) /\ DOMAIN r = 1 .. Len(r) /\ Len(q) \in Nat /\ Len(r) \in Nat
         /\ DOMAIN (q \o r) = 1 .. Len(q) + Len(r)
         /\ \A i \in DOMAIN q : i \in DOMAIN (q \o r) /\ (q \o r)[i] = q[i]
         /\ \A i \in DOMAIN r : Len(q) + i \in DOMAIN (q \o r) /\ (q \o r)[Len(q) + i] = r[i]
         /\ \A i \in DOMAIN (q \o r) : i \in DOMAIN q \/ \E k \in DOMAIN r : i = Len(q) + k
<1>1. DOMAIN q = 1 .. Len(q) /\ DOMAIN r = 1 .. Len(r) /\ Len(q) \in Nat /\ Len(r) \in Nat
  BY LenProperties
<1>2. /\ q \o r \in Seq(S) /\ Len(q \o r) = Len(q) + Len(r)
      /\ \A i \in 1 .. Len(q) + Len(r) :
           (q \o r)[i] = IF i <= Len(q) THEN q[i] ELSE r[i - Len(q)]
  BY ConcatProperties
<1>3. DOMAIN (q \o r) = 1 .. Len(q) + Len(r)
  BY <1>2, LenProperties
<1>4. \A i \in DOMAIN q : i \in DOMAIN (q \o r) /\ (q \o r)[i] = q[i]
  BY <1>1, <1>2, <1>3
<1>5. \A i \in DOMAIN r : Len(q) + i \in DOMAIN (q \o r) /\ (q \o r)[Len(q) + i] = r[i]
  <2>. TAKE i \in DOMAIN r
  <2>1. Len(q) + i \in 1 .. Len(q) + Len(r) /\ ~ (Len(q) + i <= Len(q)) /\ Len(q) + i - Len(q) = i
    BY <1>1
  <2>. QED BY <1>2, <1>3, <2>1
<1>6. \A i \in DOMAIN (q \o r) : i \in DOMAIN q \/ \E k \in DOMAIN r : i = Len(q) + k
  <2>. SUFFICES ASSUME NEW i \in 1 .. Len(q) + Len(r), i \notin DOMAIN q
                PROVE  \E k \in DOMAIN r : i = Len(q) + k
    BY <1>3
  <2>1. i - Len(q) \in DOMAIN r /\ i = Len(q) + (i - Len(q))
    BY <1>1
  <2>. QED BY <2>1
<1>. QED BY <1>1, <1>3, <1>4, <1>5, <1>6

LEMMA JoinKeeps ==
  ASSUME NEW S, NEW q \in Seq(S), NEW r \in Seq(S), NEW c, NEW K
  PROVE  /\ Unclosed(q) /\ Closing(r, c) => Closing(q \o r, c)
         /\ Parented(q) /\ Parented(r) => Parented(q \o r)
         /\ \A s : Mentions(q \o r, s) <=> Mentions(q, s) \/ Mentions(r, s)
         /\ Within(q, K) /\ Led(r, K) => Led(q \o r, K)
<1>. DEFINE t == q \o r
<1>1. /\ DOMAIN q = 1 .. Len(q) /\ DOMAIN r = 1 .. Len(r) /\ Len(q) \in Nat /\ Len(r) \in Nat
      /\ \A i \in DOMAIN q : i \in DOMAIN t /\ t[i] = q[i]
      /\ \A i \in DOMAIN r : Len(q) + i \in DOMAIN t /\ t[Len(q) + i] = r[i]
      /\ \A i \in DOMAIN t : i \in DOMAIN q \/ \E k \in DOMAIN r : i = Len(q) + k
  BY Joined
<1>. HIDE DEF t
<1>2. ASSUME Unclosed(q), Closing(r, c) PROVE Closing(t, c)
  <2>. SUFFICES ASSUME NEW i \in DOMAIN t, t[i].kind = "closed"
                PROVE  /\ c[t[i].surface] = "gone"
                       /\ \A j \in DOMAIN t : i < j => t[j].surface # t[i].surface
    BY DEF Closing
  <2>1. PICK k \in DOMAIN r : i = Len(q) + k
    BY <1>1, <1>2 DEF Unclosed
  <2>2. t[i] = r[k]
    BY <1>1, <2>1
  <2>3. ASSUME NEW j \in DOMAIN t, i < j PROVE t[j].surface # t[i].surface
    <3>1. PICK m \in DOMAIN r : j = Len(q) + m
      BY <1>1, <2>1, <2>3
    <3>2. k < m /\ t[j] = r[m]
      BY <1>1, <2>1, <2>3, <3>1
    <3>. QED BY <1>2, <2>2, <3>2 DEF Closing
  <2>. QED BY <1>2, <2>2, <2>3 DEF Closing
<1>3. Parented(q) /\ Parented(r) => Parented(t)
  BY <1>1 DEF Parented
<1>4. \A s : Mentions(t, s) <=> Mentions(q, s) \/ Mentions(r, s)
  BY <1>1 DEF Mentions
<1>5. ASSUME Within(q, K), Led(r, K) PROVE Led(t, K)
  <2>. SUFFICES ASSUME NEW i \in DOMAIN t, t[i].kind = "committed", t[i].surface \notin K
                PROVE  \E j \in DOMAIN t : j < i /\ t[j].kind = "upsert"
                                                 /\ t[j].surface = t[i].surface
    BY DEF Led
  <2>1. PICK k \in DOMAIN r : i = Len(q) + k
    BY <1>1, <1>5 DEF Within
  <2>2. t[i] = r[k]
    BY <1>1, <2>1
  <2>3. PICK m \in DOMAIN r : m < k /\ r[m].kind = "upsert" /\ r[m].surface = r[k].surface
    BY <1>5, <2>2 DEF Led
  <2>4. Len(q) + m \in DOMAIN t /\ t[Len(q) + m] = r[m] /\ Len(q) + m < i
    BY <1>1, <2>1, <2>3
  <2>. QED BY <2>2, <2>3, <2>4
<1>. QED BY <1>2, <1>3, <1>4, <1>5 DEF t

\* Commits stay led when another queue of led commits follows, or more windows are known.
LEMMA LedKeeps ==
  ASSUME NEW S, NEW q \in Seq(S), NEW r \in Seq(S), NEW K
  PROVE  /\ Led(q, K) /\ Led(r, K) => Led(q \o r, K)
         /\ \A L : Led(q, K) /\ K \subseteq L => Led(q, L)
<1>. DEFINE t == q \o r
<1>1. /\ DOMAIN q = 1 .. Len(q) /\ DOMAIN r = 1 .. Len(r) /\ Len(q) \in Nat /\ Len(r) \in Nat
      /\ \A i \in DOMAIN q : i \in DOMAIN t /\ t[i] = q[i]
      /\ \A i \in DOMAIN r : Len(q) + i \in DOMAIN t /\ t[Len(q) + i] = r[i]
      /\ \A i \in DOMAIN t : i \in DOMAIN q \/ \E k \in DOMAIN r : i = Len(q) + k
  BY Joined
<1>. HIDE DEF t
<1>2. ASSUME Led(q, K), Led(r, K) PROVE Led(t, K)
  <2>. SUFFICES ASSUME NEW i \in DOMAIN t, t[i].kind = "committed", t[i].surface \notin K
                PROVE  \E j \in DOMAIN t : j < i /\ t[j].kind = "upsert"
                                                 /\ t[j].surface = t[i].surface
    BY DEF Led
  <2>1. CASE i \in DOMAIN q
    <3>1. PICK m \in DOMAIN q : m < i /\ q[m].kind = "upsert" /\ q[m].surface = q[i].surface
      BY <1>1, <1>2, <2>1 DEF Led
    <3>. QED BY <1>1, <2>1, <3>1
  <2>2. ASSUME NEW k \in DOMAIN r, i = Len(q) + k
        PROVE  \E j \in DOMAIN t : j < i /\ t[j].kind = "upsert" /\ t[j].surface = t[i].surface
    <3>1. t[i] = r[k]
      BY <1>1, <2>2
    <3>2. PICK m \in DOMAIN r : m < k /\ r[m].kind = "upsert" /\ r[m].surface = r[k].surface
      BY <1>2, <3>1 DEF Led
    <3>3. Len(q) + m \in DOMAIN t /\ t[Len(q) + m] = r[m] /\ Len(q) + m < i
      BY <1>1, <2>2, <3>2
    <3>. QED BY <3>1, <3>2, <3>3
  <2>. QED BY <1>1, <2>1, <2>2
<1>3. \A L : Led(q, K) /\ K \subseteq L => Led(q, L)
  BY DEF Led
<1>. QED BY <1>2, <1>3 DEF t

\* Events of a window that is not gone may follow any close.
LEMMA ClosingKeeps ==
  ASSUME NEW q \in Seq(WindowEvent), NEW r \in Seq(WindowEvent),
         NEW w \in AllWindows, client[w] # "gone", Closing(q, client),
         \A s \in AllWindows : client[s] = "gone" => client'[s] = "gone",
         \A i \in DOMAIN r : r[i].surface = w,
         Unclosed(r) \/ (Len(r) = 1 /\ client'[w] = "gone")
  PROVE  Closing(q \o r, client')
<1>. DEFINE t == q \o r
<1>1. /\ DOMAIN q = 1 .. Len(q) /\ DOMAIN r = 1 .. Len(r) /\ Len(q) \in Nat /\ Len(r) \in Nat
      /\ \A i \in DOMAIN q : i \in DOMAIN t /\ t[i] = q[i]
      /\ \A i \in DOMAIN r : Len(q) + i \in DOMAIN t /\ t[Len(q) + i] = r[i]
      /\ \A i \in DOMAIN t : i \in DOMAIN q \/ \E k \in DOMAIN r : i = Len(q) + k
  BY Joined
<1>2. \A i \in DOMAIN q : q[i].surface \in AllWindows
  BY <1>1 DEF WindowEvent, AllWindows
<1>. HIDE DEF t
<1>. SUFFICES ASSUME NEW i \in DOMAIN t, t[i].kind = "closed"
              PROVE  /\ client'[t[i].surface] = "gone"
                     /\ \A j \in DOMAIN t : i < j => t[j].surface # t[i].surface
  BY DEF Closing, t
<1>3. CASE i \in DOMAIN q
  <2>1. client[q[i].surface] = "gone" /\ q[i].surface # w /\ client'[q[i].surface] = "gone"
    BY <1>1, <1>2, <1>3 DEF Closing
  <2>2. ASSUME NEW j \in DOMAIN t, i < j PROVE t[j].surface # t[i].surface
    BY <1>1, <1>3, <2>1, <2>2 DEF Closing
  <2>. QED BY <1>1, <1>3, <2>1, <2>2
<1>4. ASSUME NEW k \in DOMAIN r, i = Len(q) + k
      PROVE  /\ client'[t[i].surface] = "gone"
             /\ \A j \in DOMAIN t : i < j => t[j].surface # t[i].surface
  <2>1. t[i] = r[k]
    BY <1>1, <1>4
  <2>2. Len(r) = 1 /\ client'[w] = "gone"
    BY <2>1 DEF Unclosed
  <2>3. i = Len(q) + 1 /\ \A j \in DOMAIN t : j <= Len(q) + 1
    BY <1>1, <1>4, <2>2
  <2>. QED BY <1>1, <2>1, <2>2, <2>3
<1>. QED BY <1>1, <1>3, <1>4

-----------------------------------------------------------------------------
(* The steps, seen from a distance.                                        *)

\* A client step records events of one surface at the end of one queue.
WindowRecords(w, events) ==
  /\ client[w] # "gone"
  /\ winIngress' = winIngress \o events /\ UNCHANGED popIngress
  /\ \A i \in DOMAIN events : events[i].surface = w
  /\ Led(events, {})
  /\ Unclosed(events) \/ (Len(events) = 1 /\ client'[w] = "gone")

PopupRecords(event) ==
  /\ event.kind = "created" => event.parent = Parent[event.surface]
  /\ popIngress' = popIngress \o <<event>> /\ UNCHANGED winIngress

ClientStep ==
  /\ stage = "clients" /\ Unaffected
  /\ \A w \in AllWindows : client[w] = "gone" => client'[w] = "gone"
  /\ \/ \E w \in AllWindows : \E events \in Seq(WindowEvent) : WindowRecords(w, events)
     \/ \E event \in PopupEvent : PopupRecords(event)

LEMMA WindowsRecord ==
  ASSUME TypeOK, NEW w \in AllWindows, NEW events \in Seq(WindowEvent),
         MayAct(w), RecordWindow(events),
         \A i \in DOMAIN events : events[i].surface = w,
         Led(events, {}),
         \/ Uses(w) /\ Unclosed(events)
         \/ /\ client[w] = "open" /\ client' = [client EXCEPT ![w] = "gone"]
            /\ Len(events) = 1
  PROVE  ClientStep
<1>1. client \in [Surfaces -> {"new", "open", "dismissed", "closed", "gone"}] /\ w \in Surfaces
  BY DEF TypeOK, ClientTypes, Surfaces
<1>2. WindowRecords(w, events)
  BY <1>1 DEF WindowRecords, Uses, RecordWindow
<1>3. \A v \in AllWindows : client[v] = "gone" => client'[v] = "gone"
  BY <1>1 DEF Uses, Surfaces
<1>. QED BY <1>2, <1>3 DEF ClientStep, MayAct, RecordWindow

LEMMA PopupsRecord ==
  ASSUME TypeOK, NEW p \in Popups, NEW event \in PopupEvent,
         stage = "clients", RecordPopup(<<event>>),
         event.kind = "created" => event.parent = Parent[event.surface],
         \/ client' = client
         \/ \E mode \in {"open", "dismissed", "closed", "gone"} :
              client' = [client EXCEPT ![p] = mode]
  PROVE  ClientStep
<1>1. client \in [Surfaces -> {"new", "open", "dismissed", "closed", "gone"}]
  BY DEF TypeOK, ClientTypes
<1>2. PopupRecords(event)
  BY DEF PopupRecords, RecordPopup
<1>3. \A v \in AllWindows : v \in Surfaces /\ v # p
  BY DistinctSurfaces DEF AllWindows, Surfaces
<1>4. \A v \in AllWindows : client'[v] = client[v]
  BY <1>1, <1>3
<1>. QED BY <1>2, <1>4 DEF ClientStep, RecordPopup

LEMMA EventsOfOne ==
  /\ \A e : Len(<<e>>) = 1 /\ DOMAIN <<e>> = {1} /\ <<e>>[1] = e
  /\ \A e, f : DOMAIN <<e, f>> = {1, 2} /\ <<e, f>>[1] = e /\ <<e, f>>[2] = f
  OBVIOUS

LEMMA ClientsStep == TypeOK /\ Clients => ClientStep
<1>. SUFFICES ASSUME TypeOK, Clients PROVE ClientStep
  OBVIOUS
<1>1. ASSUME NEW w \in Windows, ChangeMetadata(w) PROVE ClientStep
  <2>. DEFINE e == Upsert(w, FALSE)
  <2>1. e \in WindowEvent /\ e.surface = w /\ e.kind = "upsert" /\ w \in AllWindows
    BY DEF Upsert, WindowEvent, AllWindows
  <2>. HIDE DEF e
  <2>2. Led(<<e>>, {}) /\ Unclosed(<<e>>) /\ \A i \in DOMAIN <<e>> : <<e>>[i].surface = w
    BY <2>1, EventsOfOne DEF Led, Unclosed
  <2>. QED BY <1>1, <2>1, <2>2, EventSequences, WindowsRecord DEF ChangeMetadata, e
<1>2. ASSUME NEW w \in Windows, NEW sized \in BOOLEAN, CommitToplevel(w, sized) PROVE ClientStep
  <2>. DEFINE e == Upsert(w, sized)
              f == Committed(w, sized)
  <2>1. /\ e \in WindowEvent /\ e.surface = w /\ e.kind = "upsert" /\ w \in AllWindows
        /\ f \in WindowEvent /\ f.surface = w /\ f.kind = "committed"
    BY DEF Upsert, Committed, WindowEvent, AllWindows
  <2>. HIDE DEF e, f
  <2>2. /\ Led(<<e, f>>, {}) /\ Unclosed(<<e, f>>)
        /\ \A i \in DOMAIN <<e, f>> : <<e, f>>[i].surface = w
    BY <2>1, EventsOfOne DEF Led, Unclosed
  <2>. QED BY <1>2, <2>1, <2>2, EventSequences, WindowsRecord DEF CommitToplevel, e, f
<1>3. ASSUME NEW w \in X11Windows, ConfigureX11(w) PROVE ClientStep
  <2>. DEFINE e == Upsert(w, TRUE)
  <2>1. e \in WindowEvent /\ e.surface = w /\ e.kind = "upsert" /\ w \in AllWindows
    BY DEF Upsert, WindowEvent, AllWindows
  <2>. HIDE DEF e
  <2>2. Led(<<e>>, {}) /\ Unclosed(<<e>>) /\ \A i \in DOMAIN <<e>> : <<e>>[i].surface = w
    BY <2>1, EventsOfOne DEF Led, Unclosed
  <2>. QED BY <1>3, <2>1, <2>2, EventSequences, WindowsRecord DEF ConfigureX11, e
<1>4. ASSUME NEW w \in AllWindows, CloseWindow(w) PROVE ClientStep
  <2>. DEFINE e == Closed(w)
  <2>1. e \in WindowEvent /\ e.surface = w /\ e.kind = "closed"
    BY DEF Closed, WindowEvent
  <2>. HIDE DEF e
  <2>2. Led(<<e>>, {}) /\ \A i \in DOMAIN <<e>> : <<e>>[i].surface = w
    BY <2>1, EventsOfOne DEF Led
  <2>. QED BY <1>4, <2>1, <2>2, EventSequences, EventsOfOne, WindowsRecord DEF CloseWindow, e
<1>5. ASSUME NEW w \in AllWindows, NEW r \in {"activate", "restore", "minimize"},
             RequestManager(w, r)
      PROVE  ClientStep
  <2>. DEFINE e == [kind |-> "manager", surface |-> w, request |-> r]
  <2>1. e \in WindowEvent /\ e.surface = w /\ e.kind = "manager"
    BY DEF WindowEvent
  <2>. HIDE DEF e
  <2>2. Led(<<e>>, {}) /\ Unclosed(<<e>>) /\ \A i \in DOMAIN <<e>> : <<e>>[i].surface = w
    BY <2>1, EventsOfOne DEF Led, Unclosed
  <2>. QED BY <1>5, <2>1, <2>2, EventSequences, WindowsRecord DEF RequestManager, e
<1>6. ASSUME NEW p \in Popups, OpenPopup(p) PROVE ClientStep
  <2>. DEFINE e == [kind |-> "created", surface |-> p, parent |-> Parent[p]]
  <2>1. e \in PopupEvent /\ e.parent = Parent[e.surface]
    BY ParentType DEF PopupEvent
  <2>2. RecordPopup(<<e>>) /\ client' = [client EXCEPT ![p] = "open"] /\ stage = "clients"
    BY <1>6 DEF OpenPopup, MayAct
  <2>. HIDE DEF e
  <2>. QED BY <2>1, <2>2, PopupsRecord
<1>7. ASSUME NEW p \in Popups, NEW attached \in BOOLEAN, CommitPopup(p, attached)
      PROVE  ClientStep
  <2>1. Committed(p, attached) \in PopupEvent /\ Committed(p, attached).kind # "created"
    BY DEF Committed, PopupEvent
  <2>. QED BY <1>7, <2>1, PopupsRecord DEF CommitPopup, MayAct
<1>8. ASSUME NEW p \in Popups, RepositionPopup(p) PROVE ClientStep
  <2>1. [kind |-> "repositioned", surface |-> p] \in PopupEvent
    BY DEF PopupEvent
  <2>. QED BY <1>8, <2>1, PopupsRecord DEF RepositionPopup, MayAct
<1>9. ASSUME NEW p \in Popups, DismissPopup(p) \/ DestroyPopup(p) \/ DestroyPopupSurface(p)
      PROVE  ClientStep
  <2>1. Closed(p) \in PopupEvent /\ Closed(p).kind # "created"
    BY DEF Closed, PopupEvent
  <2>2. /\ stage = "clients" /\ RecordPopup(<<Closed(p)>>)
        /\ \E mode \in {"dismissed", "closed", "gone"} : client' = [client EXCEPT ![p] = mode]
    BY <1>9 DEF DismissPopup, DestroyPopup, DestroyPopupSurface, MayAct
  <2>. QED BY <2>1, <2>2, PopupsRecord
<1>. QED BY <1>1, <1>2, <1>3, <1>4, <1>5, <1>6, <1>7, <1>8, <1>9 DEF Clients

\* An iteration of window_lifecycle_system.
WindowPass ==
  /\ stage = "windows" /\ batch # <<>> /\ Event \in WindowEvent
  /\ \/ Applied
     \/ Deferred /\ Event.kind # "closed" /\ ~ Shown(Event.surface)
  /\ \/ UNCHANGED <<commands, spawned>>
     \/ /\ Event.kind = "upsert" /\ ~ Shown(Event.surface)
        /\ \E b \in BOOLEAN :
             QueueSpawn([surface |-> Event.surface, parent |-> NoEntity, attached |-> b])
     \/ /\ Event.kind = "closed" /\ UNCHANGED spawned /\ focus' # Event.surface
        /\ \E e \in DOMAIN world : world[e].surface = Event.surface /\ QueueDespawn(e)
  /\ \/ focus' \in {focus, NoSurface}
     \/ focus' = Event.surface /\ Shown(Event.surface) /\ Event.kind = "manager"
  /\ Elsewhere

\* An iteration of popup_management_system.
PopupPass ==
  /\ stage = "popups" /\ batch # <<>> /\ Event \in PopupEvent
  /\ Applied \/ Deferred
  /\ \/ UNCHANGED <<commands, spawned>>
     \/ /\ Event.kind = "created"
        /\ \E e \in DOMAIN world :
             /\ world[e].surface = Event.parent
             /\ QueueSpawn([surface |-> Event.surface, parent |-> e, attached |-> FALSE])
     \/ /\ UNCHANGED spawned
        /\ \E e \in DOMAIN world : world[e].surface \in Popups /\ QueueDespawn(e)
  /\ UNCHANGED focus /\ Elsewhere

\* A window is found if it is in the world, and what is found is what was looked for.
LEMMA Found ==
  ASSUME TypeOK
  PROVE  /\ \A s \in Surfaces : Resolve(s) \subseteq {e \in DOMAIN world : world[e].surface = s}
         /\ \A s \in Surfaces : ParentFor(s) \subseteq {e \in DOMAIN world : world[e].surface = s}
         /\ \A w \in AllWindows : Resolve(w) = {} <=> ~ Shown(w)
<1>1. \A s \in Surfaces : Scan(s) \subseteq {e \in DOMAIN world : world[e].surface = s}
  BY DEF Scan
<1>2. \A s \in Surfaces : Resolve(s) \subseteq Scan(s) /\ ParentFor(s) \subseteq Scan(s)
  BY DEF Resolve, Indexed, ParentFor, ParentEntities
<1>3. \A w \in AllWindows : Scan(w) = {e \in DOMAIN world : world[e].surface = w}
  BY DEF Scan, Queryable
<1>4. \A w \in AllWindows : Resolve(w) = {} <=> Scan(w) = {}
  BY DEF Resolve, Indexed
<1>. QED BY <1>1, <1>2, <1>3, <1>4 DEF Shown

LEMMA WindowsPass ==
  ASSUME TypeOK, UpsertWindow \/ CommitWindow \/ ManageWindow \/ CloseShownWindow
  PROVE  WindowPass
<1>1. stage = "windows" /\ batch # <<>> /\ Event \in WindowEvent /\ Event.surface \in AllWindows
  <2>1. stage = "windows" /\ batch # <<>>
    BY DEF UpsertWindow, CommitWindow, ManageWindow, CloseShownWindow, At
  <2>2. Event \in WindowEvent
    BY <2>1, EventType
  <2>. QED BY <2>1, <2>2 DEF WindowEvent, AllWindows
<1>2. /\ Resolve(Event.surface) \subseteq {e \in DOMAIN world : world[e].surface = Event.surface}
      /\ Resolve(Event.surface) = {} <=> ~ Shown(Event.surface)
  BY <1>1, Found DEF Surfaces
<1>3. CASE UpsertWindow
  <2>1. Event.kind = "upsert" /\ Event.sized \in BOOLEAN
    BY <1>1, <1>3 DEF UpsertWindow, At, WindowEvent
  <2>. QED BY <1>1, <1>2, <1>3, <2>1 DEF UpsertWindow, WindowPass, Existing
<1>4. CASE CommitWindow
  BY <1>1, <1>2, <1>4 DEF CommitWindow, WindowPass, At
<1>5. CASE ManageWindow
  BY <1>1, <1>2, <1>5 DEF ManageWindow, WindowPass, At
<1>6. CASE CloseShownWindow
  <2>1. Event.surface # NoSurface
    BY <1>1, DistinctSurfaces DEF AllWindows, NoSurface
  <2>2. FocusWithout(Event.surface) \in {focus, NoSurface}
        /\ FocusWithout(Event.surface) # Event.surface
    BY <2>1 DEF FocusWithout
  <2>. QED BY <1>1, <1>2, <1>6, <2>2 DEF CloseShownWindow, WindowPass, At
<1>. QED BY <1>3, <1>4, <1>5, <1>6

LEMMA PopupsPass ==
  ASSUME TypeOK, CreatePopup \/ CommitOnPopup \/ RepositionOnPopup \/ CloseOnPopup
  PROVE  PopupPass
<1>1. stage = "popups" /\ batch # <<>> /\ Event \in PopupEvent /\ Event.surface \in Popups
  <2>1. stage = "popups" /\ batch # <<>>
    BY DEF CreatePopup, CommitOnPopup, RepositionOnPopup, CloseOnPopup, At
  <2>2. Event \in PopupEvent
    BY <2>1, EventType
  <2>. QED BY <2>1, <2>2 DEF PopupEvent
<1>2. CASE CreatePopup
  <2>1. Event.kind = "created" /\ Event.parent \in Surfaces
    BY <1>1, <1>2 DEF CreatePopup, At, PopupEvent, Surfaces, AllWindows
  <2>2. ParentFor(Event.parent) \subseteq {e \in DOMAIN world : world[e].surface = Event.parent}
    BY <2>1, Found
  <2>. QED BY <1>1, <1>2, <2>1, <2>2 DEF CreatePopup, PopupPass
<1>3. CASE CommitOnPopup
  BY <1>1, <1>3 DEF CommitOnPopup, PopupPass
<1>4. CASE RepositionOnPopup
  BY <1>1, <1>4 DEF RepositionOnPopup, PopupPass
<1>5. CASE CloseOnPopup
  <2>1. Resolve(Event.surface) \subseteq {e \in DOMAIN world : world[e].surface \in Popups}
    BY <1>1, Found DEF Surfaces
  <2>. QED BY <1>1, <1>5, <2>1 DEF CloseOnPopup, PopupPass
<1>. QED BY <1>2, <1>3, <1>4, <1>5

\* Every step is one of these.
LEMMA StepsAre ==
  ASSUME TypeOK, [Next]_vars
  PROVE  \/ ClientStep
         \/ WindowPass /\ SameHandles
         \/ PopupPass /\ SameHandles
         \/ BeginWindows \/ EndWindows \/ BeginPopups \/ EndPopups \/ EndFrame
         \/ ApplySpawn \/ ApplyDespawn \/ UNCHANGED vars
<1>1. CASE Clients
  BY <1>1, ClientsStep
<1>2. CASE UpsertWindow \/ CommitWindow \/ ManageWindow \/ CloseShownWindow
  BY <1>2, WindowsPass, LoopsIterate, IterationKeepsEntities
<1>3. CASE CreatePopup \/ CommitOnPopup \/ RepositionOnPopup \/ CloseOnPopup
  BY <1>3, PopupsPass, LoopsIterate, IterationKeepsEntities
<1>. QED BY <1>1, <1>2, <1>3 DEF Next, Shell, Windowing, Popuping

-----------------------------------------------------------------------------
(* Windows that have been closed.                                          *)

\* The commands that wait, in whatever order.
Orders == {commands[i] : i \in DOMAIN commands}
Planned(s) == \E c \in Orders : c.op = "spawn" /\ c.entity.surface = s

\* Commands wait only inside a frame, and the windows' batch holds all of their events.
Quiet ==
  /\ stage = "clients" => commands = <<>>
  /\ stage # "clients" => winIngress = <<>>
  /\ stage = "windows" => deferredWin = <<>>

\* Windows have no parent.
Rooted ==
  /\ \A e \in DOMAIN world : world[e].surface \in AllWindows => world[e].parent = NoEntity
  /\ \A c \in Orders : c.op = "spawn" /\ c.entity.surface \in AllWindows =>
       c.entity.parent = NoEntity

\* A close is the last event of its window, and is never put off.
ClosesLast ==
  /\ Closing(winIngress, client) /\ Unclosed(deferredWin)
  /\ stage = "windows" => Closing(batch, client) /\ Unclosed(deferring)

\* Nothing that waits anywhere can bring the window back.
Finished(w) ==
  /\ client[w] = "gone" /\ ~ Mentions(winIngress, w) /\ ~ Mentions(deferredWin, w)
  /\ stage = "windows" => ~ Mentions(batch, w) /\ ~ Mentions(deferring, w)
  /\ ~ Planned(w)

\* What a despawn names is not reserved for a spawn, and a window it names is finished.
Despawns ==
  \A c \in Orders : c.op = "despawn" =>
    /\ c.id <= spawned
    /\ \A d \in Orders : d.op = "spawn" => d.id # c.id
    /\ c.id \in DOMAIN world =>
         \A w \in AllWindows : world[c.id].surface = w => Finished(w) /\ w # focus

Ended == \A w \in retired : Finished(w)

\* A batch puts events off, and spawns, only for windows that are not in the world.
Unborn ==
  stage = "windows" =>
    /\ \A i \in DOMAIN deferring : ~ Shown(deferring[i].surface)
    /\ \A c \in Orders : c.op = "spawn" => ~ Shown(c.entity.surface)

\* Focus is on a window of the world even while commands wait.
Focused == focus # NoSurface => Shown(focus)

WindowInv == Quiet /\ Rooted /\ ClosesLast /\ Despawns /\ Ended /\ Unborn /\ Focused

\* How the set of commands changes.
LEMMA OrdersChange ==
  ASSUME TypeOK, Fresh
  PROVE  /\ Orders \subseteq Command
         /\ commands = <<>> => Orders = {}
         /\ commands' = commands => Orders' = Orders
         /\ \A c \in Orders : c.op = "spawn" => c.id <= spawned /\ c.id \notin DOMAIN world
         /\ \A x \in Entity : QueueSpawn(x) =>
              Orders' = Orders \cup {[op |-> "spawn", id |-> spawned + 1, entity |-> x]}
         /\ \A e \in EntityIds : QueueDespawn(e) =>
              Orders' = Orders \cup {[op |-> "despawn", id |-> e]}
         /\ commands # <<>> => Head(commands) \in Orders
         /\ Flushing /\ commands # <<>> =>
              /\ Orders' \subseteq Orders /\ Orders \subseteq Orders' \cup {Head(commands)}
              /\ Head(commands).op = "spawn" =>
                   \A c \in Orders' : c.op = "spawn" => c.id # Head(commands).id
<1>1. commands \in Seq(Command) /\ spawned \in Nat
  BY DEF TypeOK, ShellTypes, WorldTypes
<1>2. DOMAIN commands = 1 .. Len(commands) /\ Len(commands) \in Nat
  BY <1>1, LenProperties
<1>3. Orders \subseteq Command
  BY <1>1, <1>2 DEF Orders
<1>4. commands = <<>> => Orders = {}
  BY DEF Orders
<1>5. commands' = commands => Orders' = Orders
  BY DEF Orders
<1>6. \A c \in Orders : c.op = "spawn" => c.id <= spawned /\ c.id \notin DOMAIN world
  BY DEF Orders, Fresh
<1>7. \A x \in Command : commands' = Append(commands, x) => Orders' = Orders \cup {x}
  <2>. TAKE x \in Command
  <2>. HAVE commands' = Append(commands, x)
  <2>1. /\ DOMAIN commands' = 1 .. Len(commands) + 1
        /\ \A i \in 1 .. Len(commands) : commands'[i] = commands[i]
        /\ commands'[Len(commands) + 1] = x
    BY <1>1, Appended
  <2>2. Orders' \subseteq Orders \cup {x}
    BY <1>2, <2>1 DEF Orders
  <2>3. Orders \subseteq Orders'
    BY <1>2, <2>1 DEF Orders
  <2>4. x \in Orders'
    BY <1>2, <2>1 DEF Orders
  <2>. QED BY <2>2, <2>3, <2>4
<1>8. \A x \in Entity : QueueSpawn(x) =>
        Orders' = Orders \cup {[op |-> "spawn", id |-> spawned + 1, entity |-> x]}
  <2>. TAKE x \in Entity
  <2>. HAVE QueueSpawn(x)
  <2>. DEFINE new == [op |-> "spawn", id |-> spawned + 1, entity |-> x]
  <2>1. spawned + 1 \in EntityIds
    BY <1>1 DEF EntityIds, NoEntity
  <2>2. new \in Command
    BY <2>1 DEF Command
  <2>3. commands' = Append(commands, new)
    BY DEF QueueSpawn
  <2>. QED BY <1>7, <2>2, <2>3
<1>9. \A e \in EntityIds : QueueDespawn(e) => Orders' = Orders \cup {[op |-> "despawn", id |-> e]}
  <2>. TAKE e \in EntityIds
  <2>. HAVE QueueDespawn(e)
  <2>1. [op |-> "despawn", id |-> e] \in Command
    BY DEF Command
  <2>. QED BY <1>7, <2>1 DEF QueueDespawn
<1>10. ASSUME commands # <<>>
       PROVE  /\ Head(commands) = commands[1] /\ 1 \in DOMAIN commands
              /\ DOMAIN Tail(commands) = 1 .. Len(commands) - 1
              /\ \A i \in DOMAIN Tail(commands) :
                   Tail(commands)[i] = commands[i + 1] /\ i + 1 \in DOMAIN commands
  <2>1. Tail(commands) \in Seq(Command) /\ Len(Tail(commands)) = Len(commands) - 1
    BY <1>1, <1>10, HeadAndTail
  <2>. QED BY <1>1, <1>10, <2>1, HeadAndTail, LenProperties
<1>11. commands # <<>> => Head(commands) \in Orders
  BY <1>10 DEF Orders
<1>12. ASSUME Flushing, commands # <<>>
       PROVE  /\ Orders' \subseteq Orders /\ Orders \subseteq Orders' \cup {Head(commands)}
              /\ Head(commands).op = "spawn" =>
                   \A c \in Orders' : c.op = "spawn" => c.id # Head(commands).id
  <2>1. commands' = Tail(commands)
    BY <1>12 DEF Flushing
  <2>2. Orders' \subseteq Orders
    BY <1>10, <1>12, <2>1 DEF Orders
  <2>3. \A i \in DOMAIN commands : i # 1 => i - 1 \in DOMAIN commands' /\ (i - 1) + 1 = i
    BY <1>2, <1>10, <1>12, <2>1
  <2>4. Orders \subseteq Orders' \cup {Head(commands)}
    <3>. SUFFICES ASSUME NEW i \in DOMAIN commands, i # 1 PROVE commands[i] \in Orders'
      BY <1>10, <1>12 DEF Orders
    <3>1. commands'[i - 1] = commands[i] /\ i - 1 \in DOMAIN commands'
      BY <1>10, <1>12, <2>1, <2>3
    <3>. QED BY <3>1 DEF Orders
  <2>5. ASSUME Head(commands).op = "spawn", NEW i \in DOMAIN commands', commands'[i].op = "spawn"
        PROVE  commands'[i].id # Head(commands).id
    <3>1. i + 1 # 1 /\ i + 1 \in DOMAIN commands /\ commands'[i] = commands[i + 1]
      BY <1>2, <1>10, <1>12, <2>1
    <3>. QED BY <1>10, <1>12, <2>5, <3>1 DEF Fresh
  <2>. QED BY <2>2, <2>4, <2>5 DEF Orders
<1>. QED BY <1>3, <1>4, <1>5, <1>6, <1>8, <1>9, <1>11, <1>12

LEMMA QuietStep == IInv /\ Quiet /\ [Next]_vars => Quiet'
<1>. SUFFICES ASSUME IInv, Quiet, [Next]_vars PROVE Quiet'
  OBVIOUS
<1>1. CASE ClientStep
  BY <1>1 DEF ClientStep, Unaffected, local, Quiet
<1>2. CASE WindowPass \/ PopupPass
  BY <1>2 DEF WindowPass, PopupPass, Elsewhere, clients, Quiet
<1>3. CASE BeginWindows \/ EndWindows \/ BeginPopups \/ EndPopups \/ EndFrame
  BY <1>3 DEF BeginWindows, EndWindows, BeginPopups, EndPopups, EndFrame, clients, local, Quiet
<1>4. CASE ApplySpawn \/ ApplyDespawn
  BY <1>4 DEF ApplySpawn, ApplyDespawn, IsCommand, Flushing, clients, Quiet
<1>5. CASE UNCHANGED vars
  BY <1>5 DEF vars, clients, local, Quiet
<1>. QED BY <1>1, <1>2, <1>3, <1>4, <1>5, StepsAre DEF IInv

\* What applying a spawn adds.
LEMMA SpawnAdds ==
  ASSUME IInv, ApplySpawn
  PROVE  \E c \in Orders :
           /\ c = Head(commands) /\ c.op = "spawn" /\ c \in Command /\ c.id \notin DOMAIN world
           /\ DOMAIN world' = DOMAIN world \cup {c.id}
           /\ \A e \in DOMAIN world : world'[e] = world[e]
           /\ world'[c.id].surface = c.entity.surface
           /\ world'[c.id].parent =
                IF c.entity.parent \in DOMAIN world THEN c.entity.parent ELSE NoEntity
<1>. DEFINE c == Head(commands)
<1>1. commands # <<>> /\ c.op = "spawn"
  BY DEF ApplySpawn, IsCommand
<1>2. c \in Orders /\ c \in Command /\ c.id \notin DOMAIN world
  BY <1>1, OrdersChange DEF IInv
<1>3. c.entity \in Entity
  BY <1>1, <1>2 DEF Command
<1>4. /\ Linked(c.entity).surface = c.entity.surface
      /\ Linked(c.entity).parent =
           IF c.entity.parent \in DOMAIN world THEN c.entity.parent ELSE NoEntity
  BY <1>3 DEF Linked, Entity
<1>5. world' = [e \in DOMAIN world \cup {c.id} |-> IF e = c.id THEN Linked(c.entity) ELSE world[e]]
  BY DEF ApplySpawn
<1>6. /\ DOMAIN world' = DOMAIN world \cup {c.id}
      /\ \A e \in DOMAIN world : world'[e] = world[e]
      /\ world'[c.id] = Linked(c.entity)
  BY <1>2, <1>5
<1>. QED BY <1>1, <1>2, <1>4, <1>6

\* What goes down with an entity: all below it, and of windows only itself.
LEMMA SubtreeIs ==
  ASSUME IInv, NEW root
  PROVE  /\ Subtree(root) \subseteq DOMAIN world
         /\ \A e \in DOMAIN world :
              world[e].parent \in Subtree(root) => e \in Subtree(root)
         /\ Rooted => \A e \in Subtree(root) : world[e].surface \in AllWindows => e = root
<1>1. Subtree(root) \subseteq DOMAIN world
  BY SubtreeInWorld
<1>2. ASSUME NEW e \in DOMAIN world, world[e].parent \in Subtree(root)
      PROVE  e \in Subtree(root)
  <2>. SUFFICES ASSUME NEW entities \in SUBSET DOMAIN world, ClosedBelow(entities),
                       root \in DOMAIN world => root \in entities
                PROVE  e \in entities
    BY DEF Subtree
  <2>1. world[e].parent \in entities
    BY <1>2 DEF Subtree
  <2>. QED BY <2>1 DEF ClosedBelow
<1>3. ASSUME Rooted, NEW e \in Subtree(root), world[e].surface \in AllWindows
      PROVE  e = root
  <2>. DEFINE entities == {x \in DOMAIN world : x = root \/ world[x].surface \notin AllWindows}
  <2>1. ClosedBelow(entities)
    <3>1. \A x \in DOMAIN world : world[x].surface \in AllWindows => world[x].parent \notin DOMAIN world
      BY <1>3 DEF Rooted, IInv, TypeOK, WorldTypes, EntityIds
    <3>. QED BY <3>1 DEF ClosedBelow
  <2>2. entities \in SUBSET DOMAIN world /\ (root \in DOMAIN world => root \in entities)
    OBVIOUS
  <2>. HIDE DEF entities
  <2>3. e \in entities
    BY <2>1, <2>2 DEF Subtree
  <2>. QED BY <1>3, <2>3 DEF entities
<1>. QED BY <1>1, <1>2, <1>3

\* What applying a despawn removes.
LEMMA DespawnRemoves ==
  ASSUME IInv, ApplyDespawn
  PROVE  \E c \in Orders :
           /\ c = Head(commands) /\ c.op = "despawn"
           /\ DOMAIN world' = DOMAIN world \ Subtree(c.id)
           /\ \A e \in DOMAIN world' : world'[e] = world[e]
           /\ retired' = retired \cup (Handles(Subtree(c.id)) \cap AllWindows)
<1>1. commands # <<>> /\ Head(commands).op = "despawn"
  BY DEF ApplyDespawn, IsCommand
<1>2. Head(commands) \in Orders
  BY <1>1, OrdersChange DEF IInv
<1>3. /\ world' = [e \in DOMAIN world \ Subtree(Head(commands).id) |-> world[e]]
      /\ retired' = retired \cup (Handles(Subtree(Head(commands).id)) \cap AllWindows)
  BY DEF ApplyDespawn
<1>. QED BY <1>1, <1>2, <1>3

\* Entities and commands are untouched by all other steps, up to what is attached.
LEMMA OthersKeep ==
  ASSUME IInv, \/ ClientStep
               \/ BeginWindows \/ EndWindows \/ BeginPopups \/ EndPopups \/ EndFrame
               \/ UNCHANGED vars
  PROVE  UNCHANGED <<commands, world, spawned, retired>> /\ Orders' = Orders
<1>1. UNCHANGED <<commands, world, spawned, retired>>
  BY DEF ClientStep, Unaffected, BeginWindows, EndWindows, BeginPopups, EndPopups, EndFrame,
         vars, local, ecs
<1>. QED BY <1>1 DEF Orders

\* What the iterations queue.
LEMMA WindowOrders ==
  ASSUME IInv, WindowPass
  PROVE  /\ Event.surface \in AllWindows
         /\ \/ Orders' = Orders /\ spawned' = spawned
            \/ /\ Event.kind = "upsert" /\ ~ Shown(Event.surface) /\ spawned' = spawned + 1
               /\ \E x \in Entity :
                    /\ x.surface = Event.surface /\ x.parent = NoEntity
                    /\ Orders' = Orders \cup {[op |-> "spawn", id |-> spawned + 1, entity |-> x]}
            \/ /\ Event.kind = "closed" /\ spawned' = spawned /\ focus' # Event.surface
               /\ \E e \in DOMAIN world :
                    /\ world[e].surface = Event.surface
                    /\ Orders' = Orders \cup {[op |-> "despawn", id |-> e]}
<1>1. Event.surface \in AllWindows
  BY DEF WindowPass, WindowEvent, AllWindows
<1>2. CASE UNCHANGED <<commands, spawned>>
  BY <1>1, <1>2 DEF Orders
<1>3. ASSUME NEW b \in BOOLEAN, Event.kind = "upsert", ~ Shown(Event.surface),
             QueueSpawn([surface |-> Event.surface, parent |-> NoEntity, attached |-> b])
      PROVE  \E x \in Entity :
               /\ x.surface = Event.surface /\ x.parent = NoEntity
               /\ Orders' = Orders \cup {[op |-> "spawn", id |-> spawned + 1, entity |-> x]}
               /\ spawned' = spawned + 1
  <2>. DEFINE x == [surface |-> Event.surface, parent |-> NoEntity, attached |-> b]
  <2>1. x \in Entity /\ x.surface = Event.surface /\ x.parent = NoEntity
    BY <1>1 DEF Entity, Surfaces
  <2>. HIDE DEF x
  <2>2. QueueSpawn(x)
    BY <1>3 DEF x
  <2>3. spawned' = spawned + 1
    BY <2>2 DEF QueueSpawn
  <2>4. Orders' = Orders \cup {[op |-> "spawn", id |-> spawned + 1, entity |-> x]}
    BY <2>1, <2>2, OrdersChange DEF IInv
  <2>. QED BY <2>1, <2>3, <2>4
<1>4. ASSUME NEW e \in DOMAIN world, QueueDespawn(e)
      PROVE  Orders' = Orders \cup {[op |-> "despawn", id |-> e]}
  <2>1. e \in EntityIds
    BY DEF IInv, TypeOK, WorldTypes
  <2>. QED BY <1>4, <2>1, OrdersChange DEF IInv
<1>. QED BY <1>1, <1>2, <1>3, <1>4 DEF WindowPass

LEMMA PopupOrders ==
  ASSUME IInv, PopupPass
  PROVE  /\ Event.surface \in Popups /\ Event.surface \notin AllWindows
         /\ \/ Orders' = Orders /\ spawned' = spawned
            \/ /\ Event.kind = "created" /\ spawned' = spawned + 1
               /\ \E x \in Entity :
                    /\ x.surface = Event.surface
                    /\ x.parent \in DOMAIN world /\ world[x.parent].surface = Event.parent
                    /\ Orders' = Orders \cup {[op |-> "spawn", id |-> spawned + 1, entity |-> x]}
            \/ /\ spawned' = spawned
               /\ \E e \in DOMAIN world :
                    /\ world[e].surface \in Popups /\ world[e].surface \notin AllWindows
                    /\ Orders' = Orders \cup {[op |-> "despawn", id |-> e]}
<1>1. Event.surface \in Popups
  BY DEF PopupPass, PopupEvent
<1>2. \A p \in Popups : p \notin AllWindows
  BY DistinctSurfaces DEF AllWindows
<1>3. CASE UNCHANGED <<commands, spawned>>
  BY <1>1, <1>2, <1>3 DEF Orders
<1>4. ASSUME NEW e \in DOMAIN world, world[e].surface = Event.parent,
             QueueSpawn([surface |-> Event.surface, parent |-> e, attached |-> FALSE])
      PROVE  \E x \in Entity :
               /\ x.surface = Event.surface
               /\ x.parent \in DOMAIN world /\ world[x.parent].surface = Event.parent
               /\ Orders' = Orders \cup {[op |-> "spawn", id |-> spawned + 1, entity |-> x]}
               /\ spawned' = spawned + 1
  <2>. DEFINE x == [surface |-> Event.surface, parent |-> e, attached |-> FALSE]
  <2>1. x \in Entity /\ x.surface = Event.surface /\ x.parent = e
    BY <1>1 DEF Entity, Surfaces, IInv, TypeOK, WorldTypes
  <2>. HIDE DEF x
  <2>2. QueueSpawn(x)
    BY <1>4 DEF x
  <2>3. spawned' = spawned + 1
    BY <2>2 DEF QueueSpawn
  <2>4. Orders' = Orders \cup {[op |-> "spawn", id |-> spawned + 1, entity |-> x]}
    BY <2>1, <2>2, OrdersChange DEF IInv
  <2>. QED BY <1>4, <2>1, <2>3, <2>4
<1>5. ASSUME NEW e \in DOMAIN world, QueueDespawn(e)
      PROVE  Orders' = Orders \cup {[op |-> "despawn", id |-> e]}
  <2>1. e \in EntityIds
    BY DEF IInv, TypeOK, WorldTypes
  <2>. QED BY <1>5, <2>1, OrdersChange DEF IInv
<1>. QED BY <1>1, <1>2, <1>3, <1>4, <1>5 DEF PopupPass

LEMMA RootedStep == IInv /\ Rooted /\ [Next]_vars => Rooted'
<1>. SUFFICES ASSUME IInv, Rooted, [Next]_vars PROVE Rooted'
  OBVIOUS
<1>1. CASE \/ ClientStep
           \/ BeginWindows \/ EndWindows \/ BeginPopups \/ EndPopups \/ EndFrame
           \/ UNCHANGED vars
  BY <1>1, OthersKeep DEF Rooted
<1>2. CASE WindowPass /\ SameHandles
  <2>1. \A c \in Orders' : c \in Orders \/ (c.op = "spawn" => c.entity.parent = NoEntity)
    BY <1>2, WindowOrders
  <2>. QED BY <1>2, <2>1 DEF Rooted, SameHandles
<1>3. CASE PopupPass /\ SameHandles
  <2>1. \A c \in Orders' : c \in Orders \/ (c.op = "spawn" => c.entity.surface \notin AllWindows)
    BY <1>3, PopupOrders
  <2>. QED BY <1>3, <2>1 DEF Rooted, SameHandles
<1>4. CASE ApplySpawn
  <2>1. PICK c \in Orders :
           /\ c = Head(commands) /\ c.op = "spawn"
           /\ DOMAIN world' = DOMAIN world \cup {c.id}
           /\ \A e \in DOMAIN world : world'[e] = world[e]
           /\ world'[c.id].surface = c.entity.surface
           /\ world'[c.id].parent =
                IF c.entity.parent \in DOMAIN world THEN c.entity.parent ELSE NoEntity
    BY <1>4, SpawnAdds
  <2>2. Orders' \subseteq Orders
    BY <1>4, OrdersChange DEF IInv, ApplySpawn, IsCommand
  <2>. QED BY <2>1, <2>2 DEF Rooted
<1>5. CASE ApplyDespawn
  <2>1. DOMAIN world' \subseteq DOMAIN world /\ \A e \in DOMAIN world' : world'[e] = world[e]
    BY <1>5, DespawnRemoves
  <2>2. Orders' \subseteq Orders
    BY <1>5, OrdersChange DEF IInv, ApplyDespawn, IsCommand
  <2>. QED BY <2>1, <2>2 DEF Rooted
<1>. QED BY <1>1, <1>2, <1>3, <1>4, <1>5, StepsAre DEF IInv

\* What the two systems do to the queues, as far as events of a surface are concerned.
LEMMA PassQueues ==
  ASSUME IInv, WindowPass \/ PopupPass, stage = "windows" \/ stage = "popups"
  PROVE  /\ UNCHANGED <<stage, client, winIngress, popIngress, deferredWin, deferredPop>>
         /\ Mentions(batch, Event.surface)
         /\ \A s : Mentions(batch', s) => Mentions(batch, s)
         /\ \A s : Mentions(deferring', s) => Mentions(deferring, s) \/ s = Event.surface
<1>1. \E S : batch \in Seq(S) /\ deferring \in Seq(S)
  BY DEF IInv, TypeOK, ShellTypes, LocalQueue
<1>2. PICK S : batch \in Seq(S) /\ deferring \in Seq(S)
  BY <1>1
<1>3. batch # <<>>
  BY DEF WindowPass, PopupPass
<1>4. /\ Head(batch) = batch[1] /\ 1 \in DOMAIN batch /\ Head(batch) \in S
  BY <1>2, <1>3, HeadAndTail
<1>5. Mentions(batch, Event.surface)
  BY <1>4 DEF Mentions, Event
<1>6. \A s : Mentions(Tail(batch), s) => Mentions(batch, s)
  BY <1>2, <1>3, TailKeeps
<1>7. \A s : Mentions(Append(deferring, Event), s) => Mentions(deferring, s) \/ s = Event.surface
  BY <1>2, <1>4, AppendKeeps DEF Event
<1>. QED BY <1>5, <1>6, <1>7 DEF WindowPass, PopupPass, Applied, Deferred, Elsewhere, clients

\* A finished window stays finished.
LEMMA FinishedStays ==
  ASSUME IInv, Quiet, [Next]_vars, NEW w \in AllWindows, Finished(w)
  PROVE  Finished(w)'
<1>1. CASE ClientStep
  <2>1. Unaffected /\ client'[w] = "gone" /\ stage = "clients" /\ stage' = "clients"
    BY <1>1 DEF ClientStep, Finished, Unaffected
  <2>2. ~ Mentions(winIngress', w)
    <3>1. ASSUME NEW v \in AllWindows, NEW events \in Seq(WindowEvent), WindowRecords(v, events)
          PROVE  ~ Mentions(winIngress', w)
      <4>1. v # w
        BY <3>1 DEF WindowRecords, Finished
      <4>2. ~ Mentions(events, w)
        BY <3>1, <4>1 DEF WindowRecords, Mentions
      <4>3. Mentions(winIngress \o events, w) <=> Mentions(winIngress, w) \/ Mentions(events, w)
        BY JoinKeeps DEF IInv, TypeOK, ClientTypes
      <4>. QED BY <3>1, <4>2, <4>3 DEF WindowRecords, Finished
    <3>2. CASE UNCHANGED winIngress
      BY <3>2 DEF Finished, Mentions
    <3>. QED BY <1>1, <3>1, <3>2 DEF ClientStep, PopupRecords
  <2>3. Orders' = Orders /\ UNCHANGED deferredWin
    BY <2>1 DEF Unaffected, local, Orders
  <2>. QED BY <2>1, <2>2, <2>3 DEF Finished, Planned, Mentions
<1>2. CASE WindowPass
  <2>1. stage = "windows" /\ Event.surface # w
    <3>1. Mentions(batch, Event.surface)
      BY <1>2, PassQueues DEF WindowPass
    <3>. QED BY <1>2, <3>1 DEF WindowPass, Finished
  <2>2. /\ UNCHANGED <<stage, client, winIngress, deferredWin>>
        /\ ~ Mentions(batch', w) /\ ~ Mentions(deferring', w)
    BY <1>2, <2>1, PassQueues DEF Finished
  <2>3. ~ Planned(w)'
    BY <1>2, <2>1, WindowOrders DEF Planned, Finished
  <2>. QED BY <2>2, <2>3 DEF Finished, Mentions
<1>3. CASE PopupPass
  <2>1. /\ UNCHANGED <<stage, client, winIngress, deferredWin>> /\ stage # "windows"
    BY <1>3, PassQueues DEF PopupPass
  <2>2. ~ Planned(w)'
    BY <1>3, PopupOrders DEF Planned, Finished
  <2>. QED BY <2>1, <2>2 DEF Finished, Mentions
<1>4. CASE BeginWindows
  <2>1. /\ batch' = deferredWin \o winIngress /\ deferring' = deferring /\ client' = client
        /\ winIngress' = <<>> /\ deferredWin' = <<>> /\ stage = "clients"
    BY <1>4 DEF BeginWindows, Batch
  <2>2. ~ Mentions(batch', w)
    BY <2>1, JoinKeeps DEF Finished, IInv, TypeOK, ClientTypes, ShellTypes
  <2>3. ~ Mentions(deferring', w) /\ ~ Mentions(winIngress', w) /\ ~ Mentions(deferredWin', w)
    BY <2>1 DEF Mentions, IInv, TypeOK, ShellTypes, LocalQueue
  <2>4. Orders' = Orders
    BY <1>4, OthersKeep
  <2>. QED BY <2>1, <2>2, <2>3, <2>4 DEF Finished, Planned, Mentions
<1>5. CASE EndWindows
  <2>1. /\ UNCHANGED <<client, winIngress>> /\ deferredWin' = deferring /\ stage = "windows"
        /\ stage' # "windows"
    BY <1>5 DEF EndWindows, clients
  <2>2. Orders' = Orders
    BY <1>5, OthersKeep
  <2>. QED BY <2>1, <2>2 DEF Finished, Planned, Mentions
<1>6. CASE BeginPopups \/ EndPopups \/ EndFrame
  <2>1. UNCHANGED <<client, winIngress, deferredWin>> /\ stage' # "windows"
    BY <1>6 DEF BeginPopups, EndPopups, EndFrame, clients
  <2>2. Orders' = Orders
    BY <1>6, OthersKeep
  <2>. QED BY <2>1, <2>2 DEF Finished, Planned, Mentions
<1>7. CASE ApplySpawn \/ ApplyDespawn
  <2>1. Flushing /\ commands # <<>> /\ stage # "windows"
    BY <1>7 DEF ApplySpawn, ApplyDespawn, IsCommand
  <2>2. Orders' \subseteq Orders
    BY <2>1, OrdersChange DEF IInv
  <2>3. UNCHANGED <<client, winIngress, deferredWin>> /\ stage' # "windows"
    BY <2>1 DEF Flushing, clients
  <2>. QED BY <2>2, <2>3 DEF Finished, Planned, Mentions
<1>8. CASE UNCHANGED vars
  BY <1>8 DEF vars, clients, local, Finished, Planned, Mentions, Orders
<1>. QED BY <1>1, <1>2, <1>3, <1>4, <1>5, <1>6, <1>7, <1>8, StepsAre DEF IInv

LEMMA ClosesLastStep == IInv /\ ClosesLast /\ [Next]_vars => ClosesLast'
<1>. SUFFICES ASSUME IInv, ClosesLast, [Next]_vars PROVE ClosesLast'
  OBVIOUS
<1>1. winIngress \in Seq(WindowEvent) /\ deferredWin \in Seq(WindowEvent)
  BY DEF IInv, TypeOK, ClientTypes, ShellTypes
<1>2. CASE ClientStep
  <2>1. UNCHANGED deferredWin /\ stage' = "clients"
    BY <1>2 DEF ClientStep, Unaffected
  <2>2. ASSUME NEW w \in AllWindows, NEW events \in Seq(WindowEvent), WindowRecords(w, events)
        PROVE  Closing(winIngress', client')
    <3>1. /\ client[w] # "gone" /\ Closing(winIngress, client)
          /\ \A s \in AllWindows : client[s] = "gone" => client'[s] = "gone"
          /\ \A i \in DOMAIN events : events[i].surface = w
          /\ Unclosed(events) \/ (Len(events) = 1 /\ client'[w] = "gone")
      BY <1>2, <2>2 DEF ClosesLast, WindowRecords, ClientStep
    <3>2. Closing(winIngress \o events, client')
      BY <1>1, <3>1, ClosingKeeps
    <3>. QED BY <2>2, <3>2 DEF WindowRecords
  <2>3. ASSUME UNCHANGED winIngress PROVE Closing(winIngress', client')
    <3>1. \A i \in DOMAIN winIngress : winIngress[i].surface \in AllWindows
      <4>1. DOMAIN winIngress = 1 .. Len(winIngress)
        BY <1>1, LenProperties
      <4>. QED BY <1>1, <4>1 DEF WindowEvent, AllWindows
    <3>. QED BY <1>2, <2>3, <3>1 DEF ClosesLast, Closing, ClientStep
  <2>4. Closing(winIngress', client')
    BY <1>2, <2>2, <2>3 DEF ClientStep, PopupRecords
  <2>. QED BY <2>1, <2>4 DEF ClosesLast
<1>3. CASE WindowPass
  <2>1. stage = "windows" /\ UNCHANGED <<stage, client, winIngress, deferredWin>> /\ batch # <<>>
    BY <1>3 DEF WindowPass, Elsewhere, clients
  <2>2. batch \in Seq(WindowEvent) /\ deferring \in Seq(WindowEvent)
    BY <2>1 DEF IInv, TypeOK, ShellTypes, LocalQueue
  <2>3. Closing(Tail(batch), client)
    BY <2>1, <2>2, TailKeeps DEF ClosesLast
  <2>4. Event.kind # "closed" => Unclosed(Append(deferring, Event))
    BY <1>3, <2>1, <2>2, AppendKeeps DEF ClosesLast, WindowPass
  <2>5. batch' = Tail(batch) /\ (deferring' = deferring \/ (deferring' = Append(deferring, Event) /\ Event.kind # "closed"))
    BY <1>3 DEF WindowPass, Applied, Deferred
  <2>. QED BY <2>1, <2>3, <2>4, <2>5 DEF ClosesLast
<1>4. CASE PopupPass
  BY <1>4 DEF PopupPass, Elsewhere, clients, ClosesLast
<1>5. CASE BeginWindows
  <2>1. /\ batch' = deferredWin \o winIngress /\ deferring' = <<>> /\ client' = client
        /\ winIngress' = <<>> /\ deferredWin' = <<>>
    BY <1>5 DEF BeginWindows, Batch, IInv, TypeOK, ShellTypes, LocalQueue
  <2>2. Closing(deferredWin \o winIngress, client)
    BY <1>1, JoinKeeps DEF ClosesLast
  <2>3. Closing(<<>>, client) /\ Unclosed(<<>>)
    BY DEF Closing, Unclosed
  <2>. QED BY <2>1, <2>2, <2>3 DEF ClosesLast
<1>6. CASE EndWindows
  BY <1>6 DEF EndWindows, clients, ClosesLast
<1>7. CASE BeginPopups \/ EndPopups \/ EndFrame
  BY <1>7 DEF BeginPopups, EndPopups, EndFrame, clients, ClosesLast
<1>8. CASE ApplySpawn \/ ApplyDespawn
  BY <1>8 DEF ApplySpawn, ApplyDespawn, IsCommand, Flushing, clients, ClosesLast
<1>9. CASE UNCHANGED vars
  BY <1>9 DEF vars, clients, local, ClosesLast
<1>. QED BY <1>2, <1>3, <1>4, <1>5, <1>6, <1>7, <1>8, <1>9, StepsAre DEF IInv

LEMMA UnbornStep == IInv /\ Quiet /\ Unborn /\ [Next]_vars => Unborn'
<1>. SUFFICES ASSUME IInv, Quiet, Unborn, [Next]_vars, stage' = "windows" PROVE Unborn'
  BY DEF Unborn
<1>1. CASE WindowPass /\ SameHandles
  <2>1. stage = "windows" /\ \A s : Shown(s)' <=> Shown(s)
    BY <1>1 DEF WindowPass, SameHandles, Shown
  <2>2. \A c \in Orders' : c.op = "spawn" => c \in Orders \/ ~ Shown(c.entity.surface)
    BY <1>1, WindowOrders
  <2>3. \A i \in DOMAIN deferring' : ~ Shown(deferring'[i].surface)
    <3>1. CASE Applied
      BY <2>1, <3>1 DEF Unborn, Applied
    <3>2. CASE Deferred /\ ~ Shown(Event.surface)
      <4>1. batch \in Seq(WindowEvent) /\ deferring \in Seq(WindowEvent) /\ Event \in WindowEvent
        BY <1>1, <2>1 DEF IInv, TypeOK, ShellTypes, LocalQueue, WindowPass
      <4>2. \A i \in DOMAIN Append(deferring, Event) :
              \/ i \in DOMAIN deferring /\ Append(deferring, Event)[i] = deferring[i]
              \/ Append(deferring, Event)[i] = Event
        BY <4>1, Appended
      <4>. QED BY <2>1, <3>2, <4>2 DEF Unborn, Deferred
    <3>. QED BY <1>1, <3>1, <3>2 DEF WindowPass
  <2>. QED BY <2>1, <2>2, <2>3 DEF Unborn
<1>2. CASE BeginWindows
  <2>1. deferring' = <<>> /\ commands = <<>>
    BY <1>2 DEF BeginWindows, IInv, TypeOK, ShellTypes, LocalQueue, Quiet
  <2>2. Orders' = {}
    BY <1>2, <2>1, OthersKeep, OrdersChange DEF IInv
  <2>. QED BY <2>1, <2>2 DEF Unborn
<1>3. CASE ClientStep \/ PopupPass
  BY <1>3 DEF ClientStep, Unaffected, PopupPass, Elsewhere
<1>4. CASE EndWindows \/ BeginPopups \/ EndPopups \/ EndFrame
  BY <1>4 DEF EndWindows, BeginPopups, EndPopups, EndFrame
<1>5. CASE ApplySpawn \/ ApplyDespawn
  BY <1>5 DEF ApplySpawn, ApplyDespawn, IsCommand, Flushing
<1>6. CASE UNCHANGED vars
  BY <1>6 DEF vars, local, ecs, Unborn, Shown, Orders
<1>. QED BY <1>1, <1>2, <1>3, <1>4, <1>5, <1>6, StepsAre DEF IInv

\* The window a pass closes is finished.
LEMMA CloseFinishes ==
  ASSUME IInv, Quiet, ClosesLast, Unborn, WindowPass, Event.kind = "closed",
         NEW w \in AllWindows, w = Event.surface, Shown(w)
  PROVE  Finished(w)'
<1>1. /\ stage = "windows" /\ UNCHANGED <<stage, client, winIngress, deferredWin>>
      /\ winIngress = <<>> /\ deferredWin = <<>> /\ batch # <<>>
      /\ batch' = Tail(batch) /\ deferring' = deferring
  BY DEF WindowPass, Elsewhere, clients, Quiet, Applied, Deferred
<1>2. batch \in Seq(WindowEvent)
  BY <1>1 DEF IInv, TypeOK, ShellTypes, LocalQueue
<1>3. client[w] = "gone" /\ ~ Mentions(Tail(batch), w)
  BY <1>1, <1>2, TailKeeps DEF ClosesLast, Event
<1>4. ~ Mentions(deferring, w)
  BY <1>1 DEF Unborn, Mentions
<1>5. ~ Planned(w)'
  <2>1. \A c \in Orders' : c.op = "spawn" => c \in Orders
    BY WindowOrders
  <2>. QED BY <1>1, <2>1 DEF Unborn, Planned
<1>6. ~ Mentions(<<>>, w)
  BY DEF Mentions
<1>. QED BY <1>1, <1>3, <1>4, <1>5, <1>6 DEF Finished, Mentions

LEMMA DespawnsStep ==
  IInv /\ Quiet /\ ClosesLast /\ Unborn /\ Despawns /\ [Next]_vars => Despawns'
<1>. SUFFICES ASSUME IInv, Quiet, ClosesLast, Unborn, Despawns, [Next]_vars PROVE Despawns'
  OBVIOUS
<1>1. spawned \in Nat /\ DOMAIN world \subseteq EntityIds
  BY DEF IInv, TypeOK, WorldTypes
<1>2. \A w \in AllWindows : w # NoSurface
  BY DistinctSurfaces DEF AllWindows, NoSurface
<1>3. \A w \in AllWindows : Finished(w) => Finished(w)'
  BY FinishedStays
<1>4. \A c \in Orders : c.op = "despawn" => c.id \in Nat
  <2>1. Orders \subseteq Command
    BY OrdersChange DEF IInv
  <2>. QED BY <2>1 DEF Command, EntityIds
<1>5. \A e \in DOMAIN world : e \in Nat /\ e <= spawned
  BY <1>1 DEF EntityIds, IInv, Fresh
<1>6. \A c \in Orders : c.op = "spawn" => c.id \notin DOMAIN world
  BY OrdersChange DEF IInv
<1>7. CASE WindowPass /\ SameHandles
  <2>1. /\ DOMAIN world' = DOMAIN world
        /\ \A e \in DOMAIN world : world'[e].surface = world[e].surface
    BY <1>7 DEF SameHandles
  <2>2. \A w \in AllWindows : Finished(w) /\ w # focus => w # focus'
    <3>1. stage = "windows" /\ Mentions(batch, Event.surface)
      BY <1>7, PassQueues DEF WindowPass
    <3>. QED BY <1>2, <1>7, <3>1 DEF WindowPass, Finished
  <2>. SUFFICES ASSUME NEW c \in Orders', c.op = "despawn"
                PROVE  /\ c.id <= spawned'
                       /\ \A d \in Orders' : d.op = "spawn" => d.id # c.id
                       /\ c.id \in DOMAIN world' =>
                            \A w \in AllWindows :
                              world'[c.id].surface = w => Finished(w)' /\ w # focus'
    BY DEF Despawns
  <2>3. CASE c \in Orders
    <3>1. /\ c.id \in Nat /\ c.id <= spawned
          /\ \A d \in Orders : d.op = "spawn" => d.id # c.id
          /\ c.id \in DOMAIN world =>
               \A w \in AllWindows : world[c.id].surface = w => Finished(w) /\ w # focus
      BY <1>4, <2>3 DEF Despawns
    <3>2. /\ spawned' \in {spawned, spawned + 1}
          /\ \A d \in Orders' : d.op = "spawn" => d \in Orders \/ d.id = spawned + 1
      BY <1>7, WindowOrders
    <3>. QED BY <1>1, <1>3, <2>1, <2>2, <3>1, <3>2
  <2>4. CASE c \notin Orders
    <3>1. /\ Event.kind = "closed" /\ spawned' = spawned /\ focus' # Event.surface
          /\ Event.surface \in AllWindows
          /\ \E e \in DOMAIN world : /\ world[e].surface = Event.surface
                                     /\ Orders' = Orders \cup {[op |-> "despawn", id |-> e]}
      BY <1>7, <2>4, WindowOrders
    <3>2. c.id \in DOMAIN world /\ world[c.id].surface = Event.surface
          /\ \A d \in Orders' : d.op = "spawn" => d \in Orders
      BY <2>4, <3>1
    <3>3. ASSUME NEW w \in AllWindows, w = Event.surface PROVE Finished(w)'
      <4>1. Shown(w)
        BY <3>2, <3>3 DEF Shown
      <4>. QED BY <1>7, <3>1, <3>3, <4>1, CloseFinishes
    <3>. QED BY <1>5, <1>6, <2>1, <3>1, <3>2, <3>3
  <2>. QED BY <2>3, <2>4
<1>8. CASE PopupPass /\ SameHandles
  <2>1. /\ DOMAIN world' = DOMAIN world
        /\ \A e \in DOMAIN world : world'[e].surface = world[e].surface
        /\ focus' = focus
    BY <1>8 DEF SameHandles, PopupPass
  <2>. SUFFICES ASSUME NEW c \in Orders', c.op = "despawn"
                PROVE  /\ c.id <= spawned'
                       /\ \A d \in Orders' : d.op = "spawn" => d.id # c.id
                       /\ c.id \in DOMAIN world' =>
                            \A w \in AllWindows :
                              world'[c.id].surface = w => Finished(w)' /\ w # focus'
    BY DEF Despawns
  <2>2. CASE c \in Orders
    <3>1. /\ c.id \in Nat /\ c.id <= spawned
          /\ \A d \in Orders : d.op = "spawn" => d.id # c.id
          /\ c.id \in DOMAIN world =>
               \A w \in AllWindows : world[c.id].surface = w => Finished(w) /\ w # focus
      BY <1>4, <2>2 DEF Despawns
    <3>2. /\ spawned' \in {spawned, spawned + 1}
          /\ \A d \in Orders' : d.op = "spawn" => d \in Orders \/ d.id = spawned + 1
      BY <1>8, PopupOrders
    <3>. QED BY <1>1, <1>3, <2>1, <3>1, <3>2
  <2>3. CASE c \notin Orders
    <3>1. /\ spawned' = spawned
          /\ \E e \in DOMAIN world : /\ world[e].surface \notin AllWindows
                                     /\ Orders' = Orders \cup {[op |-> "despawn", id |-> e]}
      BY <1>8, <2>3, PopupOrders
    <3>2. c.id \in DOMAIN world /\ world[c.id].surface \notin AllWindows
          /\ \A d \in Orders' : d.op = "spawn" => d \in Orders
      BY <2>3, <3>1
    <3>. QED BY <1>5, <1>6, <2>1, <3>1, <3>2
  <2>. QED BY <2>2, <2>3
<1>9. CASE ApplySpawn
  <2>1. PICK a \in Orders :
           /\ a = Head(commands) /\ a.op = "spawn"
           /\ DOMAIN world' = DOMAIN world \cup {a.id}
           /\ \A e \in DOMAIN world : world'[e] = world[e]
    BY <1>9, SpawnAdds
  <2>2. Orders' \subseteq Orders /\ UNCHANGED <<focus, spawned>>
    BY <1>9, OrdersChange DEF IInv, ApplySpawn, IsCommand, Flushing
  <2>3. \A c \in Orders' : c.op = "despawn" => c.id # a.id
    BY <2>1, <2>2 DEF Despawns
  <2>. QED BY <1>3, <2>1, <2>2, <2>3 DEF Despawns
<1>10. CASE ApplyDespawn
  <2>1. DOMAIN world' \subseteq DOMAIN world /\ \A e \in DOMAIN world' : world'[e] = world[e]
    BY <1>10, DespawnRemoves
  <2>2. Orders' \subseteq Orders /\ UNCHANGED <<focus, spawned>>
    BY <1>10, OrdersChange DEF IInv, ApplyDespawn, IsCommand, Flushing
  <2>. QED BY <1>3, <2>1, <2>2 DEF Despawns
<1>11. CASE EndWindows \/ EndPopups \/ UNCHANGED vars
  <2>1. Orders' = Orders /\ UNCHANGED <<world, spawned, focus>>
    <3>1. UNCHANGED focus
      BY <1>11 DEF EndWindows, EndPopups, vars
    <3>. QED BY <1>11, <3>1, OthersKeep
  <2>. QED BY <1>3, <2>1 DEF Despawns
<1>12. CASE ClientStep \/ BeginWindows \/ BeginPopups \/ EndFrame
  <2>1. commands = <<>>
    BY <1>12 DEF ClientStep, BeginWindows, BeginPopups, EndFrame, Quiet
  <2>2. Orders' = {}
    BY <1>12, <2>1, OthersKeep, OrdersChange DEF IInv
  <2>. QED BY <2>2 DEF Despawns
<1>. QED BY <1>7, <1>8, <1>9, <1>10, <1>11, <1>12, StepsAre DEF IInv

\* A window goes only by a despawn of its own, and then it is finished.
LEMMA WindowsGo ==
  ASSUME IInv, Rooted, Despawns, ApplyDespawn
  PROVE  \A w \in AllWindows : w \in retired' => w \in retired \/ (Finished(w) /\ w # focus)
<1>1. PICK c \in Orders :
         /\ c.op = "despawn"
         /\ retired' = retired \cup (Handles(Subtree(c.id)) \cap AllWindows)
  BY DespawnRemoves
<1>2. ASSUME NEW w \in AllWindows, w \in Handles(Subtree(c.id))
      PROVE  Finished(w) /\ w # focus
  <2>1. PICK e \in Subtree(c.id) : world[e].surface = w
    BY <1>2 DEF Handles
  <2>2. e = c.id /\ c.id \in DOMAIN world
    BY <2>1, SubtreeIs
  <2>. QED BY <1>1, <2>1, <2>2 DEF Despawns
<1>. QED BY <1>1, <1>2

LEMMA EndedStep == IInv /\ Quiet /\ Rooted /\ Despawns /\ Ended /\ [Next]_vars => Ended'
<1>. SUFFICES ASSUME IInv, Quiet, Rooted, Despawns, Ended, [Next]_vars PROVE Ended'
  OBVIOUS
<1>1. \A w \in AllWindows : Finished(w) => Finished(w)'
  BY FinishedStays
<1>2. retired \subseteq AllWindows /\ retired' \subseteq AllWindows
  BY StepPreserves DEF IInv, TypeOK, WorldTypes
<1>3. CASE ApplyDespawn
  BY <1>1, <1>2, <1>3, WindowsGo DEF Ended
<1>4. retired' = retired \/ ApplyDespawn
  <2>1. CASE WindowPass \/ PopupPass \/ ApplySpawn
    BY <2>1 DEF WindowPass, PopupPass, Elsewhere, ApplySpawn
  <2>. QED BY <2>1, OthersKeep, StepsAre DEF IInv
<1>. QED BY <1>1, <1>2, <1>3, <1>4 DEF Ended

LEMMA FocusedStep == IInv /\ Rooted /\ Despawns /\ Focused /\ [Next]_vars => Focused'
<1>. SUFFICES ASSUME IInv, Rooted, Despawns, Focused, [Next]_vars PROVE Focused'
  OBVIOUS
<1>1. CASE WindowPass /\ SameHandles
  BY <1>1 DEF WindowPass, SameHandles, Focused, Shown
<1>2. CASE PopupPass /\ SameHandles
  BY <1>2 DEF PopupPass, SameHandles, Focused, Shown
<1>3. CASE ApplySpawn
  <2>1. DOMAIN world \subseteq DOMAIN world' /\ \A e \in DOMAIN world : world'[e] = world[e]
    BY <1>3, SpawnAdds
  <2>2. UNCHANGED focus
    BY <1>3 DEF ApplySpawn, Flushing
  <2>. QED BY <2>1, <2>2 DEF Focused, Shown
<1>4. CASE ApplyDespawn
  <2>1. UNCHANGED focus /\ focus \in AllWindows \cup {NoSurface}
    BY <1>4 DEF ApplyDespawn, Flushing, IInv, TypeOK, ShellTypes
  <2>2. PICK c \in Orders :
           /\ c.op = "despawn"
           /\ DOMAIN world' = DOMAIN world \ Subtree(c.id)
           /\ \A e \in DOMAIN world' : world'[e] = world[e]
    BY <1>4, DespawnRemoves
  <2>. SUFFICES ASSUME focus # NoSurface, NEW e \in DOMAIN world, world[e].surface = focus
                PROVE  e \in DOMAIN world'
    BY <2>1, <2>2 DEF Focused, Shown
  <2>3. ASSUME e \in Subtree(c.id) PROVE FALSE
    <3>1. e = c.id
      BY <2>1, <2>3, SubtreeIs
    <3>. QED BY <2>1, <2>2, <3>1 DEF Despawns
  <2>. QED BY <2>2, <2>3
<1>5. CASE EndFrame
  BY <1>5 DEF EndFrame, ecs, Focused, Shown
<1>6. CASE ClientStep \/ BeginWindows \/ EndWindows \/ BeginPopups \/ EndPopups \/ UNCHANGED vars
  <2>1. UNCHANGED <<focus, world>>
    BY <1>6 DEF ClientStep, Unaffected, BeginWindows, EndWindows, BeginPopups, EndPopups, vars, ecs
  <2>. QED BY <2>1 DEF Focused, Shown
<1>. QED BY <1>1, <1>2, <1>3, <1>4, <1>5, <1>6, StepsAre DEF IInv

LEMMA InitWindowInv == Init => WindowInv
<1>. SUFFICES ASSUME Init PROVE WindowInv
  OBVIOUS
<1>1. Orders = {}
  BY DEF Init, Orders
<1>2. \A c : Closing(<<>>, c) /\ Unclosed(<<>>)
  BY DEF Closing, Unclosed
<1>. QED BY <1>1, <1>2
         DEF Init, WindowInv, Quiet, Rooted, ClosesLast, Despawns, Ended, Unborn, Focused

LEMMA WindowInvStep == IInv /\ WindowInv /\ [Next]_vars => WindowInv'
  BY QuietStep, RootedStep, ClosesLastStep, DespawnsStep, EndedStep, UnbornStep, FocusedStep
  DEF WindowInv

LEMMA WindowsInvariant == Spec => [](IInv /\ WindowInv)
<1>1. IInv /\ WindowInv /\ [Next]_vars => (IInv /\ WindowInv)'
  BY StepPreserves, WindowInvStep
<1>. QED BY <1>1, InitIInv, InitWindowInv, PTL DEF Spec

\* A window never comes back: once one of its entities was despawned, no event, old
\* or retried, and no command that waits spawns another.
THEOREM NothingComesBack == Spec => NoResurrection
<1>1. IInv /\ WindowInv /\ [Next]_vars =>
        [\A w \in AllWindows : Shown(w)' /\ ~ Shown(w) => w \notin retired]_vars
  <2>. SUFFICES ASSUME IInv, WindowInv, [Next]_vars, NEW w \in AllWindows, Shown(w)', ~ Shown(w)
                PROVE  w \notin retired
    OBVIOUS
  <2>1. CASE ApplySpawn
    <3>1. PICK c \in Orders :
             /\ c.op = "spawn"
             /\ DOMAIN world' = DOMAIN world \cup {c.id}
             /\ \A e \in DOMAIN world : world'[e] = world[e]
             /\ world'[c.id].surface = c.entity.surface
      BY <2>1, SpawnAdds
    <3>2. Planned(w)
      BY <3>1 DEF Shown, Planned
    <3>. QED BY <3>2 DEF WindowInv, Ended, Finished
  <2>2. CASE (WindowPass \/ PopupPass) /\ SameHandles
    BY <2>2 DEF SameHandles, Shown
  <2>3. CASE ApplyDespawn
    <3>1. DOMAIN world' \subseteq DOMAIN world /\ \A e \in DOMAIN world' : world'[e] = world[e]
      BY <2>3, DespawnRemoves
    <3>. QED BY <3>1 DEF Shown
  <2>4. UNCHANGED world => FALSE
    BY DEF Shown
  <2>. QED BY <2>1, <2>2, <2>3, <2>4, OthersKeep, StepsAre DEF IInv
<1>. QED BY <1>1, WindowsInvariant, PTL DEF Spec, NoResurrection

\* Keyboard focus names a window of the world in every state, even between a close
\* and the commands that carry it out.
THEOREM FocusIsAlive == Spec => []FocusAlive
<1>1. WindowInv => FocusAlive
  BY DEF WindowInv, Focused, FocusAlive
<1>. QED BY <1>1, WindowsInvariant, PTL

-----------------------------------------------------------------------------
(* Windows that are open.                                                  *)

Gone == {w \in AllWindows : client[w] = "gone"}

\* In the world, on its way there, or gone.
Coming == Gone \cup {w \in AllWindows : Shown(w) \/ Planned(w)}

\* Only requests wait for a window that is neither there nor coming: a commit is
\* recorded with an upsert before it, and the upsert spawns.
NotLost ==
  /\ Led(winIngress, {}) /\ Within(deferredWin, Coming)
  /\ stage = "windows" =>
       known \subseteq Coming /\ Led(batch, known \cup Gone) /\ Within(deferring, Coming)

\* Windows do not stop coming.
LEMMA ComingStays ==
  ASSUME IInv, WindowInv, [Next]_vars
  PROVE  Gone \subseteq Gone' /\ Coming \subseteq Coming'
<1>1. Gone \subseteq Gone'
  <2>1. CASE ClientStep
    BY <2>1 DEF ClientStep, Gone
  <2>2. ~ ClientStep => client' = client
    BY StepsAre DEF IInv, WindowPass, PopupPass, Elsewhere, BeginWindows, EndWindows, BeginPopups,
                    EndPopups, EndFrame, ApplySpawn, ApplyDespawn, Flushing, vars, clients
  <2>. QED BY <2>1, <2>2 DEF Gone
<1>2. ASSUME NEW w \in AllWindows, Shown(w) PROVE Shown(w)' \/ w \in Gone
  <2>1. CASE (WindowPass \/ PopupPass) /\ SameHandles
    BY <1>2, <2>1 DEF SameHandles, Shown
  <2>2. CASE ApplySpawn
    <3>1. DOMAIN world \subseteq DOMAIN world' /\ \A e \in DOMAIN world : world'[e] = world[e]
      BY <2>2, SpawnAdds
    <3>. QED BY <1>2, <3>1 DEF Shown
  <2>3. CASE ApplyDespawn
    <3>1. PICK c \in Orders :
             /\ c.op = "despawn"
             /\ DOMAIN world' = DOMAIN world \ Subtree(c.id)
             /\ \A e \in DOMAIN world' : world'[e] = world[e]
      BY <2>3, DespawnRemoves
    <3>2. PICK e \in DOMAIN world : world[e].surface = w
      BY <1>2 DEF Shown
    <3>3. CASE e \in Subtree(c.id)
      <4>1. e = c.id
        BY <3>2, <3>3, SubtreeIs DEF WindowInv
      <4>2. Finished(w)
        BY <3>1, <3>2, <4>1 DEF WindowInv, Despawns
      <4>. QED BY <4>2 DEF Finished, Gone
    <3>4. CASE e \notin Subtree(c.id)
      BY <3>1, <3>2, <3>4 DEF Shown
    <3>. QED BY <3>3, <3>4
  <2>4. CASE UNCHANGED world
    BY <1>2, <2>4 DEF Shown
  <2>. QED BY <2>1, <2>2, <2>3, <2>4, OthersKeep, StepsAre DEF IInv
<1>3. ASSUME NEW w \in AllWindows, Planned(w) PROVE Shown(w)' \/ Planned(w)'
  <2>1. CASE WindowPass
    BY <1>3, <2>1, WindowOrders DEF Planned
  <2>2. CASE PopupPass
    BY <1>3, <2>2, PopupOrders DEF Planned
  <2>3. CASE ApplySpawn
    <3>1. PICK c \in Orders :
             /\ c = Head(commands)
             /\ DOMAIN world' = DOMAIN world \cup {c.id}
             /\ world'[c.id].surface = c.entity.surface
      BY <2>3, SpawnAdds
    <3>2. Orders \subseteq Orders' \cup {c}
      BY <2>3, <3>1, OrdersChange DEF IInv, ApplySpawn, IsCommand
    <3>. QED BY <1>3, <3>1, <3>2 DEF Planned, Shown
  <2>4. CASE ApplyDespawn
    <3>1. Orders \subseteq Orders' \cup {Head(commands)} /\ Head(commands).op = "despawn"
      BY <2>4, OrdersChange DEF IInv, ApplyDespawn, IsCommand
    <3>. QED BY <1>3, <3>1 DEF Planned
  <2>5. Orders' = Orders => Planned(w)'
    BY <1>3 DEF Planned
  <2>. QED BY <2>1, <2>2, <2>3, <2>4, <2>5, OthersKeep, StepsAre DEF IInv
<1>. QED BY <1>1, <1>2, <1>3 DEF Coming

LEMMA NotLostStep == IInv /\ WindowInv /\ NotLost /\ [Next]_vars => NotLost'
<1>. SUFFICES ASSUME IInv, WindowInv, NotLost, [Next]_vars PROVE NotLost'
  OBVIOUS
<1>1. winIngress \in Seq(WindowEvent) /\ deferredWin \in Seq(WindowEvent)
  BY DEF IInv, TypeOK, ClientTypes, ShellTypes
<1>2. Gone \subseteq Gone' /\ Coming \subseteq Coming'
  BY ComingStays
<1>3. \A q : Within(q, Coming) => Within(q, Coming')
  BY <1>2 DEF Within
<1>4. CASE ClientStep
  <2>1. UNCHANGED deferredWin /\ stage' = "clients"
    BY <1>4 DEF ClientStep, Unaffected
  <2>2. Led(winIngress', {})
    <3>1. ASSUME NEW w \in AllWindows, NEW events \in Seq(WindowEvent), WindowRecords(w, events)
          PROVE  Led(winIngress', {})
      <4>1. Led(winIngress \o events, {})
        BY <1>1, <3>1, LedKeeps DEF NotLost, WindowRecords
      <4>. QED BY <3>1, <4>1 DEF WindowRecords
    <3>2. CASE UNCHANGED winIngress
      BY <3>2 DEF NotLost
    <3>. QED BY <1>4, <3>1, <3>2 DEF ClientStep, PopupRecords
  <2>. QED BY <1>3, <2>1, <2>2 DEF NotLost
<1>5. CASE (UpsertWindow \/ CommitWindow \/ ManageWindow \/ CloseShownWindow)
  <2>1. WindowPass /\ SameHandles
    BY <1>5, WindowsPass, LoopsIterate, IterationKeepsEntities DEF IInv
  <2>2. /\ stage = "windows" /\ UNCHANGED <<stage, client, winIngress, deferredWin>>
        /\ batch # <<>> /\ Event \in WindowEvent /\ batch' = Tail(batch)
    BY <2>1 DEF WindowPass, Elsewhere, clients, Applied, Deferred
  <2>3. batch \in Seq(WindowEvent) /\ deferring \in Seq(WindowEvent)
    BY <2>2 DEF IInv, TypeOK, ShellTypes, LocalQueue
  <2>4. Event.surface \in AllWindows
    BY <2>1, WindowOrders
  <2>5. /\ known \subseteq Coming /\ Led(batch, known \cup Gone) /\ Within(deferring, Coming)
    BY <2>2 DEF NotLost
  <2>6. /\ Event.kind = "committed" => Event.surface \in known \cup Gone
        /\ Led(Tail(batch), (known \cup Gone) \cup {s \in {Event.surface} : Event.kind = "upsert"})
    <3>1. \A K : Led(batch, K) =>
            /\ Event.kind = "committed" => Event.surface \in K
            /\ Led(Tail(batch), K \cup {s \in {Event.surface} : Event.kind = "upsert"})
      BY <2>2, <2>3, TailKeeps DEF Event
    <3>. QED BY <2>5, <3>1
  <2>7. known' \subseteq Coming' /\ known \cup Gone \cup {s \in {Event.surface} : Event.kind = "upsert"}
                                      \subseteq known' \cup Gone'
    <3>1. CASE UpsertWindow
      <4>1. CASE NeedsEntity(Event.surface)
        <5>1. known' = known /\ Event.surface \in known
          BY <3>1, <4>1 DEF UpsertWindow, NeedsEntity
        <5>. QED BY <1>2, <2>5, <5>1
      <4>2. CASE ~ NeedsEntity(Event.surface)
        <5>1. known' = known \cup {Event.surface}
          BY <3>1, <4>2 DEF UpsertWindow
        <5>2. Event.surface \in Coming'
          <6>1. CASE Existing(Event.surface) # {}
            <7>1. Shown(Event.surface)
              BY <2>4, <6>1, Found DEF Existing, IInv
            <7>. QED BY <1>2, <2>4, <7>1 DEF Coming
          <6>2. CASE Existing(Event.surface) = {}
            <7>. DEFINE x == [surface |-> Event.surface, parent |-> NoEntity,
                              attached |-> Event.sized]
                        w == Event.surface
            <7>1. QueueSpawn(x)
              BY <3>1, <4>2, <6>2 DEF UpsertWindow
            <7>2. x \in Entity /\ x.surface = Event.surface
              <8>1. Event.sized \in BOOLEAN
                BY <2>2, <3>1 DEF UpsertWindow, At, WindowEvent
              <8>. QED BY <2>4, <8>1 DEF Entity, Surfaces
            <7>. HIDE DEF x
            <7>3. [op |-> "spawn", id |-> spawned + 1, entity |-> x] \in Orders'
              BY <7>1, <7>2, OrdersChange DEF IInv
            <7>4. \E c \in Orders' : c.op = "spawn" /\ c.entity.surface = Event.surface
              BY <7>2, <7>3
            <7>5. \A v \in AllWindows : (\E c \in Orders' : c.op = "spawn" /\ c.entity.surface = v)
                                          => v \in Coming'
              BY DEF Coming, Planned
            <7>. QED BY <2>4, <7>4, <7>5
          <6>. QED BY <6>1, <6>2
        <5>. QED BY <1>2, <2>5, <5>1, <5>2
      <4>. QED BY <4>1, <4>2
    <3>2. CASE CommitWindow \/ ManageWindow
      <4>1. known' = known /\ Event.kind # "upsert"
        BY <3>2 DEF CommitWindow, ManageWindow, At
      <4>. QED BY <1>2, <2>5, <4>1
    <3>3. CASE CloseShownWindow
      <4>1. known' = known \ {Event.surface} /\ Event.kind = "closed"
        BY <3>3 DEF CloseShownWindow, At
      <4>2. Event.surface \in Gone
        BY <2>2, <2>3, <2>4, <4>1, TailKeeps DEF WindowInv, ClosesLast, Event, Gone
      <4>. QED BY <1>2, <2>5, <4>1, <4>2
    <3>. QED BY <1>5, <3>1, <3>2, <3>3
  <2>8. Led(Tail(batch), known' \cup Gone')
    <3>1. Tail(batch) \in Seq(WindowEvent)
      BY <2>2, <2>3, HeadAndTail
    <3>2. \A K, L : Led(Tail(batch), K) /\ K \subseteq L => Led(Tail(batch), L)
      BY <3>1, LedKeeps
    <3>. QED BY <2>6, <2>7, <3>2
  <2>9. Within(deferring', Coming')
    <3>1. CASE Applied
      BY <1>3, <2>5, <3>1 DEF Applied
    <3>2. CASE Deferred
      <4>1. Event.kind # "manager" => Event.surface \in Coming
        <5>1. CASE UpsertWindow
          <6>1. NeedsEntity(Event.surface)
            <7>1. Append(deferring, Event) # deferring
              BY <2>2, <2>3, Appended
            <7>. QED BY <3>2, <5>1, <7>1 DEF UpsertWindow, Applied, Deferred
          <6>. QED BY <2>5, <6>1 DEF NeedsEntity
        <5>2. CASE CommitWindow
          <6>1. Event.kind = "committed"
            BY <5>2 DEF CommitWindow, At
          <6>. QED BY <2>5, <2>6, <6>1 DEF Coming
        <5>3. CASE ManageWindow
          BY <5>3 DEF ManageWindow, At
        <5>4. CASE CloseShownWindow
          <6>1. Append(deferring, Event) # deferring
            BY <2>2, <2>3, Appended
          <6>. QED BY <3>2, <5>4, <6>1 DEF CloseShownWindow, Applied, Deferred
        <5>. QED BY <1>5, <5>1, <5>2, <5>3, <5>4
      <4>2. Within(Append(deferring, Event), Coming)
        BY <2>2, <2>3, <2>5, <4>1, AppendKeeps
      <4>. QED BY <1>3, <3>2, <4>2 DEF Deferred
    <3>. QED BY <2>1, <3>1, <3>2 DEF WindowPass
  <2>. QED BY <1>3, <2>2, <2>7, <2>8, <2>9 DEF NotLost
<1>6. CASE BeginWindows
  <2>1. /\ batch' = deferredWin \o winIngress /\ deferring' = <<>> /\ client' = client
        /\ winIngress' = <<>> /\ deferredWin' = <<>> /\ world' = world
        /\ known' = {s \in AllWindows : Shown(s)}
        /\ commands = <<>>
    BY <1>6 DEF BeginWindows, Batch, IInv, TypeOK, ShellTypes, LocalQueue, ecs, WindowInv, Quiet
  <2>2. Orders = {}
    BY <2>1, OrdersChange DEF IInv
  <2>3. Coming \subseteq known' \cup Gone /\ known' \subseteq Coming
    BY <2>1, <2>2 DEF Coming, Planned
  <2>4. Within(deferredWin, known' \cup Gone')
    BY <1>2, <2>3 DEF NotLost, Within
  <2>5. Led(winIngress, known' \cup Gone')
    BY <1>1, LedKeeps DEF NotLost
  <2>6. Led(batch', known' \cup Gone')
    BY <1>1, <2>1, <2>4, <2>5, JoinKeeps
  <2>7. \A K : Led(<<>>, K) /\ Within(<<>>, K)
    BY DEF Led, Within
  <2>. QED BY <1>2, <2>1, <2>3, <2>6, <2>7 DEF NotLost
<1>7. CASE EndWindows
  <2>1. winIngress' = winIngress /\ deferredWin' = deferring /\ stage = "windows"
        /\ stage' # "windows"
    BY <1>7 DEF EndWindows, clients
  <2>. QED BY <1>3, <2>1 DEF NotLost
<1>8. CASE \/ CreatePopup \/ CommitOnPopup \/ RepositionOnPopup \/ CloseOnPopup
           \/ BeginPopups \/ EndPopups \/ EndFrame \/ ApplySpawn \/ ApplyDespawn
  <2>1. UNCHANGED <<winIngress, deferredWin>> /\ stage' # "windows"
    BY <1>8 DEF CreatePopup, CommitOnPopup, RepositionOnPopup, CloseOnPopup, At, Elsewhere,
                BeginPopups, EndPopups, EndFrame, ApplySpawn, ApplyDespawn, IsCommand, Flushing,
                clients
  <2>. QED BY <1>3, <2>1 DEF NotLost
<1>9. CASE UNCHANGED vars
  <2>1. UNCHANGED <<stage, winIngress, deferredWin, known, batch, deferring, client>>
    BY <1>9 DEF vars, clients, local
  <2>2. Gone' = Gone
    BY <2>1 DEF Gone
  <2>. QED BY <1>2, <1>3, <2>1, <2>2 DEF NotLost
<1>10. CASE Clients
  BY <1>4, <1>10, ClientsStep DEF IInv
<1>. QED BY <1>5, <1>6, <1>7, <1>8, <1>9, <1>10 DEF Next, Shell, Windowing, Popuping

\* A window whose client committed it and keeps it is in the world whenever its
\* events have been worked through.
THEOREM NoWindowIsLost == Spec => []NoWindowLost
<1>1. Init => NotLost
  <2>1. \A K : Led(<<>>, K) /\ Within(<<>>, K)
    BY DEF Led, Within
  <2>. QED BY <2>1 DEF Init, NotLost
<1>2. IInv /\ WindowInv /\ NotLost => NoWindowLost
  <2>. SUFFICES ASSUME IInv, WindowInv, NotLost, NEW w \in AllWindows,
                       stage = "clients", client[w] = "open", ~ Shown(w),
                       NEW i \in DOMAIN deferredWin, deferredWin[i].surface = w
                PROVE  deferredWin[i].kind = "manager"
    BY DEF NoWindowLost, Settled
  <2>1. Orders = {}
    BY OrdersChange DEF IInv, WindowInv, Quiet
  <2>2. w \notin Coming
    BY <2>1 DEF Coming, Gone, Planned
  <2>. QED BY <2>2 DEF NotLost, Within
<1>3. IInv /\ WindowInv /\ [Next]_vars => (IInv /\ WindowInv)'
  BY StepPreserves, WindowInvStep
<1>. QED BY <1>1, <1>2, <1>3, NotLostStep, InitIInv, InitWindowInv, PTL DEF Spec

-----------------------------------------------------------------------------
(* Popups below their parents.                                             *)

\* What is queued, and what waits as a command, has the parent the client named; a
\* reserved parent is never spawned anew.
Hanging ==
  /\ Parented(popIngress) /\ Parented(deferredPop)
  /\ stage = "popups" => Parented(batch) /\ Parented(deferring)
  /\ \A c \in Orders : c.op = "spawn" /\ c.entity.parent # NoEntity =>
       /\ c.entity.surface \in Popups /\ c.entity.parent <= spawned
       /\ \A d \in Orders : d.op = "spawn" => d.id # c.entity.parent
       /\ c.entity.parent \in DOMAIN world =>
            world[c.entity.parent].surface = Parent[c.entity.surface]
  /\ PopupsHang

LEMMA ParentedStep ==
  ASSUME IInv, Hanging, [Next]_vars
  PROVE  /\ Parented(popIngress') /\ Parented(deferredPop')
         /\ stage' = "popups" => Parented(batch') /\ Parented(deferring')
<1>1. popIngress \in Seq(PopupEvent) /\ deferredPop \in Seq(PopupEvent)
  BY DEF IInv, TypeOK, ClientTypes, ShellTypes
<1>2. Parented(<<>>)
  BY DEF Parented
<1>3. CASE ClientStep
  <2>1. UNCHANGED deferredPop /\ stage' = "clients"
    BY <1>3 DEF ClientStep, Unaffected
  <2>2. ASSUME NEW event \in PopupEvent, PopupRecords(event) PROVE Parented(popIngress')
    <3>1. Parented(<<event>>) /\ <<event>> \in Seq(PopupEvent)
      BY <2>2, EventsOfOne, EventSequences DEF Parented, PopupRecords
    <3>2. Parented(popIngress \o <<event>>)
      BY <1>1, <3>1, JoinKeeps DEF Hanging
    <3>. QED BY <2>2, <3>2 DEF PopupRecords
  <2>3. ASSUME UNCHANGED popIngress PROVE Parented(popIngress')
    BY <2>3 DEF Hanging
  <2>4. Parented(popIngress')
    BY <1>3, <2>2, <2>3 DEF ClientStep, WindowRecords
  <2>. QED BY <2>1, <2>4 DEF Hanging
<1>4. CASE PopupPass
  <2>1. /\ stage = "popups" /\ UNCHANGED <<stage, popIngress, deferredPop>>
        /\ batch # <<>> /\ Event \in PopupEvent /\ batch' = Tail(batch)
        /\ deferring' = deferring \/ deferring' = Append(deferring, Event)
    BY <1>4 DEF PopupPass, Elsewhere, clients, Applied, Deferred
  <2>2. batch \in Seq(PopupEvent) /\ deferring \in Seq(PopupEvent)
    BY <2>1 DEF IInv, TypeOK, ShellTypes, LocalQueue
  <2>3. Parented(batch) /\ Parented(deferring) /\ Event = batch[1] /\ 1 \in DOMAIN batch
    BY <2>1, <2>2, HeadAndTail DEF Hanging, Event
  <2>4. Parented(Tail(batch))
    BY <2>1, <2>2, <2>3, TailKeeps
  <2>5. Parented(Append(deferring, Event))
    <3>1. Event.kind = "created" => Event.parent = Parent[Event.surface]
      BY <2>3 DEF Parented
    <3>. QED BY <2>1, <2>2, <2>3, <3>1, AppendKeeps
  <2>. QED BY <2>1, <2>3, <2>4, <2>5 DEF Hanging
<1>5. CASE BeginPopups
  <2>1. /\ batch' = deferredPop \o popIngress /\ deferring' = <<>>
        /\ popIngress' = <<>> /\ deferredPop' = <<>>
    BY <1>5 DEF BeginPopups, Batch, IInv, TypeOK, ShellTypes, LocalQueue
  <2>2. Parented(deferredPop \o popIngress)
    BY <1>1, JoinKeeps DEF Hanging
  <2>. QED BY <1>2, <2>1, <2>2
<1>6. CASE EndPopups
  BY <1>6 DEF EndPopups, clients, Hanging
<1>7. CASE WindowPass \/ BeginWindows \/ EndWindows \/ EndFrame
  BY <1>7 DEF WindowPass, Elsewhere, BeginWindows, EndWindows, EndFrame, clients, Hanging
<1>8. CASE ApplySpawn \/ ApplyDespawn
  BY <1>8 DEF ApplySpawn, ApplyDespawn, IsCommand, Flushing, clients, Hanging
<1>9. CASE UNCHANGED vars
  BY <1>9 DEF vars, clients, local, Hanging
<1>. QED BY <1>3, <1>4, <1>5, <1>6, <1>7, <1>8, <1>9, StepsAre DEF IInv

LEMMA HangingStep == IInv /\ Hanging /\ [Next]_vars => Hanging'
<1>. SUFFICES ASSUME IInv, Hanging, [Next]_vars
              PROVE  /\ \A c \in Orders' : c.op = "spawn" /\ c.entity.parent # NoEntity =>
                          /\ c.entity.surface \in Popups /\ c.entity.parent <= spawned'
                          /\ \A d \in Orders' : d.op = "spawn" => d.id # c.entity.parent
                          /\ c.entity.parent \in DOMAIN world' =>
                               world'[c.entity.parent].surface = Parent[c.entity.surface]
                     /\ PopupsHang'
  BY ParentedStep DEF Hanging
<1>1. spawned \in Nat /\ DOMAIN world \subseteq EntityIds /\ Orders \subseteq Command
  BY OrdersChange DEF IInv, TypeOK, WorldTypes
<1>2. \A e \in DOMAIN world : e \in Nat /\ e <= spawned /\ e # NoEntity
  BY <1>1 DEF EntityIds, IInv, Fresh
<1>3. \A c \in Orders : c.op = "spawn" => c.id \notin DOMAIN world /\ c.entity \in Entity
  <2>1. \A c \in Orders : c.op = "spawn" => c.id \notin DOMAIN world
    BY OrdersChange DEF IInv
  <2>. QED BY <1>1, <2>1 DEF Command
<1>4. \A c \in Orders : c.op = "spawn" => c.entity.parent \in Nat
  BY <1>3 DEF Entity, EntityIds, NoEntity
<1>5. CASE WindowPass /\ SameHandles
  <2>1. PopupsHang'
    BY <1>5 DEF SameHandles, Hanging, PopupsHang, Entities
  <2>2. /\ spawned' \in {spawned, spawned + 1}
        /\ \A d \in Orders' : d.op = "spawn" =>
             d \in Orders \/ (d.id = spawned + 1 /\ d.entity.parent = NoEntity)
    BY <1>5, WindowOrders
  <2>3. /\ DOMAIN world' = DOMAIN world
        /\ \A e \in DOMAIN world : world'[e].surface = world[e].surface
    BY <1>5 DEF SameHandles
  <2>4. ASSUME NEW c \in Orders', c.op = "spawn", c.entity.parent # NoEntity
        PROVE  /\ c.entity.surface \in Popups /\ c.entity.parent <= spawned'
               /\ \A d \in Orders' : d.op = "spawn" => d.id # c.entity.parent
               /\ c.entity.parent \in DOMAIN world' =>
                    world'[c.entity.parent].surface = Parent[c.entity.surface]
    <3>1. c \in Orders
      BY <2>2, <2>4
    <3>2. /\ c.entity.surface \in Popups /\ c.entity.parent <= spawned
          /\ \A d \in Orders : d.op = "spawn" => d.id # c.entity.parent
          /\ c.entity.parent \in DOMAIN world =>
               world[c.entity.parent].surface = Parent[c.entity.surface]
      BY <2>4, <3>1 DEF Hanging
    <3>3. c.entity.parent \in Nat /\ c.entity.parent # spawned + 1 /\ c.entity.parent <= spawned'
      BY <1>1, <1>4, <2>2, <2>4, <3>1, <3>2
    <3>. QED BY <2>2, <2>3, <3>2, <3>3
  <2>. QED BY <2>1, <2>4
<1>6. CASE PopupPass /\ SameHandles
  <2>1. PopupsHang'
    BY <1>6 DEF SameHandles, Hanging, PopupsHang, Entities
  <2>2. Event.kind = "created" => Event.parent = Parent[Event.surface]
    <3>1. batch \in Seq(PopupEvent) /\ batch # <<>> /\ stage = "popups"
      BY <1>6 DEF PopupPass, IInv, TypeOK, ShellTypes, LocalQueue
    <3>2. Event = batch[1] /\ 1 \in DOMAIN batch
      BY <3>1, HeadAndTail DEF Event
    <3>. QED BY <3>1, <3>2 DEF Hanging, Parented
  <2>3. /\ spawned' \in {spawned, spawned + 1}
        /\ \A d \in Orders' : d.op = "spawn" =>
             \/ d \in Orders
             \/ /\ d.id = spawned + 1 /\ d.entity.surface \in Popups
                /\ d.entity.parent \in DOMAIN world /\ spawned' = spawned + 1
                /\ world[d.entity.parent].surface = Parent[d.entity.surface]
    BY <1>6, <2>2, PopupOrders
  <2>4. /\ DOMAIN world' = DOMAIN world
        /\ \A e \in DOMAIN world : world'[e].surface = world[e].surface
    BY <1>6 DEF SameHandles
  <2>5. ASSUME NEW c \in Orders', c.op = "spawn", c.entity.parent # NoEntity
        PROVE  /\ c.entity.surface \in Popups /\ c.entity.parent <= spawned'
               /\ \A d \in Orders' : d.op = "spawn" => d.id # c.entity.parent
               /\ c.entity.parent \in DOMAIN world' =>
                    world'[c.entity.parent].surface = Parent[c.entity.surface]
    <3>1. CASE c \in Orders
      <4>1. /\ c.entity.surface \in Popups /\ c.entity.parent <= spawned
            /\ \A d \in Orders : d.op = "spawn" => d.id # c.entity.parent
            /\ c.entity.parent \in DOMAIN world =>
                 world[c.entity.parent].surface = Parent[c.entity.surface]
        BY <2>5, <3>1 DEF Hanging
      <4>2. c.entity.parent \in Nat /\ c.entity.parent # spawned + 1 /\ c.entity.parent <= spawned'
        BY <1>1, <1>4, <2>3, <2>5, <3>1, <4>1
      <4>. QED BY <2>3, <2>4, <4>1, <4>2
    <3>2. CASE c \notin Orders
      <4>1. /\ c.entity.surface \in Popups /\ spawned' = spawned + 1
            /\ c.entity.parent \in DOMAIN world
            /\ world[c.entity.parent].surface = Parent[c.entity.surface]
        BY <2>3, <2>5, <3>2
      <4>2. c.entity.parent \in Nat /\ c.entity.parent <= spawned
        BY <1>2, <4>1
      <4>3. c.entity.parent <= spawned' /\ c.entity.parent # spawned + 1
        BY <1>1, <4>1, <4>2
      <4>4. \A d \in Orders' : d.op = "spawn" => d.id # c.entity.parent
        BY <1>3, <2>3, <4>1, <4>3
      <4>. QED BY <2>4, <4>1, <4>3, <4>4
    <3>. QED BY <3>1, <3>2
  <2>. QED BY <2>1, <2>5
<1>7. CASE ApplySpawn
  <2>1. PICK a \in Orders :
           /\ a = Head(commands) /\ a.op = "spawn" /\ a.id \notin DOMAIN world
           /\ DOMAIN world' = DOMAIN world \cup {a.id}
           /\ \A e \in DOMAIN world : world'[e] = world[e]
           /\ world'[a.id].surface = a.entity.surface
           /\ world'[a.id].parent =
                IF a.entity.parent \in DOMAIN world THEN a.entity.parent ELSE NoEntity
    BY <1>7, SpawnAdds
  <2>2. Orders' \subseteq Orders /\ UNCHANGED spawned
    BY <1>7, OrdersChange DEF IInv, ApplySpawn, IsCommand, Flushing
  <2>3. PopupsHang'
    <3>. SUFFICES ASSUME NEW p \in Popups, NEW e \in DOMAIN world', world'[e].surface = p,
                         world'[e].parent # NoEntity
                  PROVE  /\ world'[e].parent \in DOMAIN world'
                         /\ world'[world'[e].parent].surface = Parent[p]
      BY DEF PopupsHang, Entities
    <3>1. CASE e = a.id
      BY <2>1, <3>1 DEF Hanging
    <3>2. CASE e # a.id
      BY <2>1, <3>2 DEF Hanging, PopupsHang, Entities
    <3>. QED BY <3>1, <3>2
  <2>4. \A c \in Orders' : c.op = "spawn" /\ c.entity.parent # NoEntity => c.entity.parent # a.id
    BY <2>1, <2>2 DEF Hanging
  <2>. QED BY <2>1, <2>2, <2>3, <2>4 DEF Hanging
<1>8. CASE ApplyDespawn
  <2>1. PICK a \in Orders :
           /\ a.op = "despawn"
           /\ DOMAIN world' = DOMAIN world \ Subtree(a.id)
           /\ \A e \in DOMAIN world' : world'[e] = world[e]
    BY <1>8, DespawnRemoves
  <2>2. Orders' \subseteq Orders /\ UNCHANGED spawned
    BY <1>8, OrdersChange DEF IInv, ApplyDespawn, IsCommand, Flushing
  <2>3. PopupsHang'
    <3>. SUFFICES ASSUME NEW p \in Popups, NEW e \in DOMAIN world', world'[e].surface = p,
                         world'[e].parent # NoEntity
                  PROVE  /\ world'[e].parent \in DOMAIN world'
                         /\ world'[world'[e].parent].surface = Parent[p]
      BY DEF PopupsHang, Entities
    <3>1. /\ e \in DOMAIN world /\ world[e].surface = p /\ world[e].parent # NoEntity
          /\ e \notin Subtree(a.id) /\ world'[e] = world[e]
      BY <2>1
    <3>2. world[e].parent \in DOMAIN world /\ world[world[e].parent].surface = Parent[p]
      BY <3>1 DEF Hanging, PopupsHang, Entities
    <3>3. world[e].parent \notin Subtree(a.id)
      BY <3>1, SubtreeIs
    <3>. QED BY <2>1, <3>1, <3>2, <3>3
  <2>. QED BY <2>1, <2>2, <2>3 DEF Hanging
<1>9. CASE \/ ClientStep
           \/ BeginWindows \/ EndWindows \/ BeginPopups \/ EndPopups \/ EndFrame
           \/ UNCHANGED vars
  BY <1>9, OthersKeep DEF Hanging, PopupsHang, Entities
<1>. QED BY <1>5, <1>6, <1>7, <1>8, <1>9, StepsAre DEF IInv

\* A popup hangs below an entity that exists and is the surface its client opened it
\* on, and closing that takes the popup along: ids of closed parents are not reused.
THEOREM PopupsAreHanging == Spec => []PopupsHang
<1>1. Init => Hanging
  <2>. SUFFICES ASSUME Init PROVE Hanging
    OBVIOUS
  <2>1. Orders = {}
    BY DEF Init, Orders
  <2>2. Parented(<<>>)
    BY DEF Parented
  <2>. QED BY <2>1, <2>2 DEF Init, Hanging, PopupsHang, Entities
<1>2. Hanging => PopupsHang
  BY DEF Hanging
<1>. QED BY <1>1, <1>2, HangingStep, StepPreserves, InitIInv, PTL DEF Spec

\* Whatever clients send and whatever the order of retries, the index names the right
\* entity, focus is on a window that exists, no window is lost, and popups hang below
\* their parents.
THEOREM ShellIsTrue == Spec => []ShellTrue
<1>1. TypeOK /\ IndexSound /\ FocusAlive /\ NoWindowLost /\ PopupsHang => ShellTrue
  BY DEF ShellTrue
<1>. QED BY <1>1, TypeCorrect, IndexIsSound, FocusIsAlive, NoWindowIsLost, PopupsAreHanging, PTL
=============================================================================
