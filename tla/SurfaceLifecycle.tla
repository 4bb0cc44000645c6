--------------------------- MODULE SurfaceLifecycle ---------------------------
(***************************************************************************)
(* How the shell turns window and popup events into ECS entities.          *)
(*                                                                         *)
(* Once per frame two systems of the layout schedule consume the events of *)
(* WaylandIngress: window_lifecycle_system, then popup_management_system.  *)
(* Each works through its own retry queue first and the new events after   *)
(* it, and puts what it cannot apply yet back in the retry queue.  Neither *)
(* spawns or despawns directly: both queue ECS commands, which take effect *)
(* when the system has returned.  So what an event of a batch finds in the *)
(* world is the state before the batch, the sets a system fills as it goes *)
(* (known_surfaces, known_popups) run ahead of the world, and a surface    *)
(* that appears and changes within one frame is seen in two ways at once.  *)
(*                                                                         *)
(* One action per iteration of a system's loop, one per command applied.   *)
(* Window geometry, policy and layout are abstracted: an event either      *)
(* finds its entity or not, spawns, despawns, defers, or changes whether a *)
(* buffer is attached.                                                     *)
(*                                                                         *)
(* An operator that precedes its correct form under another name is a slip *)
(* the properties must catch: the specification does not use it.           *)
(***************************************************************************)
EXTENDS Naturals, Sequences, FiniteSets, SequencesExt

CONSTANTS Windows,     \* surface ids of Wayland toplevels
          X11Windows,  \* surface ids of XWayland windows
          Popups,      \* surface ids of xdg_popups
          Parent,      \* the surface a popup is opened on
          Dismissable, \* the popups the compositor may dismiss
          Paced,       \* surfaces whose client lets a frame pass between its requests
                       \* and opens popups on a parent that is already shown
          MaxEvents    \* bound: events recorded by the protocol server

ASSUME FiniteSurfaces ==
  IsFiniteSet(Windows) /\ IsFiniteSet(X11Windows) /\ IsFiniteSet(Popups)
ASSUME DistinctSurfaces ==
  /\ Windows \cap Popups = {} /\ X11Windows \cap Popups = {} /\ X11Windows \cap Windows = {}
  /\ 0 \notin Windows \cup X11Windows \cup Popups
ASSUME ParentType == Parent \in [Popups -> Windows \cup Popups]
ASSUME PacedType == Paced \subseteq Windows \cup X11Windows \cup Popups
ASSUME DismissableType == Dismissable \subseteq Popups
ASSUME BoundType == MaxEvents \in Nat

AllWindows == Windows \cup X11Windows
Surfaces == AllWindows \cup Popups

NoEntity == 0
NoSurface == 0
EntityIds == Nat \ {NoEntity}

VARIABLES
  stage,      \* what the layout schedule executes next
  \* clients and protocol server
  client,     \* what the client has of each surface
  winIngress, \* WaylandIngress.pending_window_events
  popIngress, \* WaylandIngress.pending_popup_events
  \* shell
  deferredWin, \* DeferredWindowEvents
  deferredPop, \* DeferredPopupEvents
  batch,      \* local requests: the events the running system has left
  deferring,  \* local deferred
  known,      \* local known_surfaces or known_popups
  commands,   \* the ECS commands queued by the running system
  \* ECS world
  world,      \* the entities with a WlSurfaceHandle
  spawned,    \* how many entity ids were given out
  index,      \* EntityIndex.surface_to_entity
  focus,      \* KeyboardFocusState.focused_surface
  dismissals, \* PendingPopupServerRequests
  \* history
  sent,       \* events recorded by the server
  content,    \* whether the client's last commit had a buffer
  retired     \* windows of which an entity was despawned

clients == <<client, winIngress, popIngress, sent, content>>
local   == <<batch, deferring, known, commands>>
ecs     == <<world, spawned, index, retired>>
vars    == <<stage, clients, deferredWin, deferredPop, local, ecs, focus, dismissals>>

WindowEvent ==
       [kind : {"upsert"}, surface : AllWindows, sized : BOOLEAN]
  \cup [kind : {"committed"}, surface : Windows, attached : BOOLEAN]
  \cup [kind : {"manager"}, surface : AllWindows, request : {"activate", "restore", "minimize"}]
  \cup [kind : {"closed"}, surface : AllWindows]
PopupEvent ==
       [kind : {"created"}, surface : Popups, parent : Windows \cup Popups]
  \cup [kind : {"committed"}, surface : Popups, attached : BOOLEAN]
  \cup [kind : {"repositioned", "closed"}, surface : Popups]
Entity == [surface : Surfaces, parent : EntityIds \cup {NoEntity}, attached : BOOLEAN]
Command ==
       [op : {"spawn"}, id : EntityIds, entity : Entity]
  \cup [op : {"despawn"}, id : EntityIds]

Init ==
  /\ stage = "clients"
  /\ client = [s \in Surfaces |-> "new"]
  /\ winIngress = <<>> /\ popIngress = <<>> /\ deferredWin = <<>> /\ deferredPop = <<>>
  /\ batch = <<>> /\ deferring = <<>> /\ known = {} /\ commands = <<>>
  /\ world = [e \in {} |-> NoEntity] /\ spawned = 0
  /\ index = [s \in Surfaces |-> NoEntity]
  /\ focus = NoSurface /\ dismissals = {}
  /\ sent = 0 /\ content = [s \in Surfaces |-> FALSE] /\ retired = {}

Mentions(queue, s) == \E i \in DOMAIN queue : queue[i].surface = s

-----------------------------------------------------------------------------
(* Clients and the protocol server: what is recorded between two layout    *)
(* runs.  A window is "open" from its first request on; get_toplevel alone *)
(* records nothing.                                                        *)

Unaffected == UNCHANGED <<stage, deferredWin, deferredPop, local, ecs, focus, dismissals>>

Shown(s) == \E e \in DOMAIN world : world[e].surface = s

MayAct(s) ==
  /\ stage = "clients"
  /\ s \in Paced => ~Mentions(winIngress \o popIngress, s)

RecordWindow(events) ==
  /\ sent + Len(events) <= MaxEvents
  /\ sent' = sent + Len(events)
  /\ winIngress' = winIngress \o events
  /\ UNCHANGED popIngress /\ Unaffected

RecordPopup(events) ==
  /\ sent + Len(events) <= MaxEvents
  /\ sent' = sent + Len(events)
  /\ popIngress' = popIngress \o events
  /\ UNCHANGED winIngress /\ Unaffected

Uses(s) == client[s] \in {"new", "open"} /\ client' = [client EXCEPT ![s] = "open"]

Upsert(w, sized) == [kind |-> "upsert", surface |-> w, sized |-> sized]
Committed(s, attached) == [kind |-> "committed", surface |-> s, attached |-> attached]
Closed(s) == [kind |-> "closed", surface |-> s]

\* set_title, set_app_id: an upsert without geometry.
ChangeMetadata(w) ==
  /\ MayAct(w) /\ Uses(w)
  /\ RecordWindow(<<Upsert(w, FALSE)>>)
  /\ UNCHANGED content

\* A commit reports a size when there is a buffer or a window geometry.
CommitToplevel(w, sized) ==
  /\ MayAct(w) /\ Uses(w)
  /\ RecordWindow(<<Upsert(w, sized), Committed(w, sized)>>)
  /\ content' = [content EXCEPT ![w] = sized]

\* XWayland windows report their geometry with every mapping and reconfiguration.
ConfigureX11(w) ==
  /\ MayAct(w) /\ Uses(w)
  /\ RecordWindow(<<Upsert(w, TRUE)>>)
  /\ content' = [content EXCEPT ![w] = TRUE]

\* move, resize, maximize and fullscreen focus the window; the un- requests do not.
RequestManager(w, request) ==
  /\ MayAct(w) /\ Uses(w)
  /\ RecordWindow(<<[kind |-> "manager", surface |-> w, request |-> request]>>)
  /\ UNCHANGED content

CloseWindow(w) ==
  /\ MayAct(w) /\ client[w] = "open"
  /\ client' = [client EXCEPT ![w] = "gone"]
  /\ RecordWindow(<<Closed(w)>>)
  /\ UNCHANGED content

OpenSurface(s) == client[s] \in {"open", "dismissed"}

\* A client gives a wl_surface the popup role, maybe not for the first time; it need
\* not wait for the parent's first commit.
OpenPopup(p) ==
  /\ MayAct(p) /\ client[p] \in {"new", "closed"} /\ OpenSurface(Parent[p])
  /\ p \in Paced => Shown(Parent[p])
  /\ client' = [client EXCEPT ![p] = "open"]
  /\ RecordPopup(<<[kind |-> "created", surface |-> p, parent |-> Parent[p]]>>)
  /\ content' = [content EXCEPT ![p] = FALSE]

CommitPopup(p, attached) ==
  /\ MayAct(p) /\ OpenSurface(p)
  /\ RecordPopup(<<Committed(p, attached)>>)
  /\ content' = [content EXCEPT ![p] = attached]
  /\ UNCHANGED client

\* Stands for grabs too: neither changes what the properties look at.
RepositionPopup(p) ==
  /\ MayAct(p) /\ OpenSurface(p)
  /\ RecordPopup(<<[kind |-> "repositioned", surface |-> p]>>)
  /\ UNCHANGED <<client, content>>

\* popup_done, sent for a queued dismissal or a popup of the world that is no longer
\* visible; the server records the close and keeps the popup until its client
\* destroys it.
DismissPopup(p) ==
  /\ stage = "clients" /\ OpenSurface(p) /\ p \in Dismissable
  /\ Shown(p) \/ p \in dismissals
  /\ client' = [client EXCEPT ![p] = "dismissed"]
  /\ RecordPopup(<<Closed(p)>>)
  /\ UNCHANGED content

\* xdg_popup.destroy; a popup under another one must be destroyed first.
DestroyPopup(p) ==
  /\ MayAct(p) /\ OpenSurface(p)
  /\ \A q \in Popups : Parent[q] = p => ~OpenSurface(q)
  /\ client' = [client EXCEPT ![p] = "closed"]
  /\ RecordPopup(<<Closed(p)>>)
  /\ UNCHANGED content

\* The destruction of the wl_surface is reported as a second close.
DestroyPopupSurface(p) ==
  /\ MayAct(p) /\ client[p] = "closed"
  /\ client' = [client EXCEPT ![p] = "gone"]
  /\ RecordPopup(<<Closed(p)>>)
  /\ UNCHANGED content

Clients ==
  \/ \E w \in Windows :
       ChangeMetadata(w) \/ \E sized \in BOOLEAN : CommitToplevel(w, sized)
  \/ \E w \in X11Windows : ConfigureX11(w)
  \/ \E w \in AllWindows :
       CloseWindow(w) \/ \E r \in {"activate", "restore", "minimize"} : RequestManager(w, r)
  \/ \E p \in Popups :
       \/ OpenPopup(p) \/ RepositionPopup(p) \/ DismissPopup(p)
       \/ DestroyPopup(p) \/ DestroyPopupSurface(p)
       \/ \E attached \in BOOLEAN : CommitPopup(p, attached)

-----------------------------------------------------------------------------
(* The two systems.  Each begins by taking its retry queue and appending   *)
(* this frame's events to it.                                              *)

Batch(deferred, fresh) == deferred \o fresh

\* A popup entity that lost its ChildOf matches none of the popup queries.
Queryable(e) == world[e].surface \in AllWindows \/ world[e].parent # NoEntity

\* Entities an event of surface s may be applied to: EntityIndex first, else
\* whichever entity with that handle the query meets first.
Scan(s) == {e \in DOMAIN world : world[e].surface = s /\ Queryable(e)}
Indexed(s) == {index[s]} \cap Scan(s)
Resolve(s) == IF Indexed(s) # {} THEN Indexed(s) ELSE Scan(s)

Event == Head(batch)
At(system, kind) == stage = system /\ batch # <<>> /\ Event.kind = kind

MetadataKept ==
  /\ batch' = Tail(batch)
  /\ deferring' = IF Event.kind = "upsert" /\ ~Event.sized THEN Append(deferring, Event)
                                                          ELSE deferring
Applied == batch' = Tail(batch) /\ UNCHANGED deferring

\* The event is kept for the next frame.
DeferByDropping == batch' = Tail(batch) /\ UNCHANGED deferring
Deferred == batch' = Tail(batch) /\ deferring' = Append(deferring, Event)

Elsewhere == UNCHANGED <<stage, clients, deferredWin, deferredPop, index, retired>>

Attach(e, attached) == world' = [world EXCEPT ![e].attached = attached]

\* commands.spawn reserves the entity id at once; the entity comes later.
QueueSpawn(entity) ==
  /\ spawned' = spawned + 1
  /\ commands' = Append(commands, [op |-> "spawn", id |-> spawned', entity |-> entity])

QueueDespawn(e) == commands' = Append(commands, [op |-> "despawn", id |-> e])

BeginWindows ==
  /\ stage = "clients"
  /\ stage' = "windows"
  /\ batch' = Batch(deferredWin, winIngress)
  /\ winIngress' = <<>> /\ deferredWin' = <<>>
  /\ known' = {s \in AllWindows : Shown(s)}
  /\ UNCHANGED <<client, popIngress, sent, content, deferredPop, deferring, commands, ecs,
                 focus, dismissals>>

\* upsert_window: a known surface without geometry must have its entity; otherwise
\* the entity is updated, or spawned with the given or the default geometry.
Existing(s) == Resolve(s)

NeedsEntity(w) == ~Event.sized /\ w \in known

UpsertWindow ==
  /\ At("windows", "upsert")
  /\ LET w == Event.surface IN
     IF NeedsEntity(w)
       THEN /\ IF Resolve(w) # {} THEN Applied ELSE Deferred
            /\ UNCHANGED <<known, commands, world, spawned>>
       ELSE /\ Applied /\ known' = known \cup {w}
            /\ IF Existing(w) # {}
                 THEN /\ \E e \in Existing(w) : Attach(e, Event.sized)
                      /\ UNCHANGED <<commands, spawned>>
                 ELSE /\ QueueSpawn([surface |-> w, parent |-> NoEntity, attached |-> Event.sized])
                      /\ UNCHANGED world
  /\ UNCHANGED <<focus, dismissals>> /\ Elsewhere

\* apply_committed_window_state
CommitWindow ==
  /\ At("windows", "committed")
  /\ LET found == Resolve(Event.surface) IN
     IF found # {}
       THEN Applied /\ \E e \in found : Attach(e, Event.attached)
       ELSE Deferred /\ UNCHANGED world
  /\ UNCHANGED <<known, commands, spawned, focus, dismissals>> /\ Elsewhere

\* apply_window_manager_request.  A background window is applied to nothing.
ManageWindow ==
  /\ At("windows", "manager")
  /\ LET w == Event.surface IN
     IF Resolve(w) = {}
       THEN Deferred /\ UNCHANGED focus
       ELSE /\ Applied
            /\ \/ /\ Event.request = "activate"
                  /\ focus' \in {focus, w}
               \/ /\ Event.request = "minimize"
                  /\ focus' \in {focus, IF focus = w THEN NoSurface ELSE focus}
               \/ /\ Event.request = "restore"
                  /\ UNCHANGED focus
  /\ UNCHANGED <<known, commands, world, spawned, dismissals>> /\ Elsewhere

FocusWithout(w) == IF focus = w THEN NoSurface ELSE focus

\* enqueue_popup_dismissals looks at the popups directly under the indexed entity.
PopupsUnder(w) ==
  {p \in Popups : \E e \in DOMAIN world :
     world[e].surface = p /\ world[e].parent = index[w] /\ index[w] # NoEntity}

\* destroy_window: a close that finds no entity is consumed all the same.
CloseShownWindow ==
  /\ At("windows", "closed")
  /\ LET w == Event.surface IN
     IF Resolve(w) # {}
       THEN /\ \E e \in Resolve(w) : QueueDespawn(e)
            /\ focus' = FocusWithout(w)
            /\ dismissals' = dismissals \cup PopupsUnder(w)
       ELSE UNCHANGED <<commands, focus, dismissals>>
  /\ known' = known \ {Event.surface}
  /\ Applied
  /\ UNCHANGED <<world, spawned>> /\ Elsewhere

EndWindows ==
  /\ stage = "windows" /\ batch = <<>>
  /\ stage' = "flushWindows"
  /\ deferredWin' = deferring /\ deferring' = <<>> /\ known' = {}
  /\ UNCHANGED <<clients, deferredPop, batch, commands, ecs, focus, dismissals>>

BeginPopups ==
  /\ stage = "flushWindows" /\ commands = <<>>
  /\ stage' = "popups"
  /\ batch' = Batch(deferredPop, popIngress)
  /\ popIngress' = <<>> /\ deferredPop' = <<>>
  /\ known' = {p \in Popups : Scan(p) # {}}
  /\ UNCHANGED <<client, winIngress, sent, content, deferredWin, deferring, commands, ecs,
                 focus, dismissals>>

\* popup_parent_entity and popup_geometry_for: the parent must be in the world and
\* matched by a query that carries its geometry.
ParentEntities(s) ==
  IF index[s] # NoEntity THEN {index[s]} \cap Scan(s) ELSE Scan(s)

OnlyWindowParents(s) == ParentEntities(s) \cap {e \in DOMAIN world : world[e].parent = NoEntity}
ParentFor(s) == ParentEntities(s)

CreatePopup ==
  /\ At("popups", "created")
  /\ LET p == Event.surface
         parents == ParentFor(Event.parent)
     IN IF p \in known \/ parents = {}
          THEN Deferred /\ UNCHANGED <<known, commands, spawned>>
          ELSE /\ Applied /\ known' = known \cup {p}
               /\ \E e \in parents :
                    QueueSpawn([surface |-> p, parent |-> e, attached |-> FALSE])
  /\ UNCHANGED <<world, focus, dismissals>> /\ Elsewhere

CommitOnPopup ==
  /\ At("popups", "committed")
  /\ LET found == Resolve(Event.surface) IN
     IF found # {}
       THEN Applied /\ \E e \in found : Attach(e, Event.attached)
       ELSE Deferred /\ UNCHANGED world
  /\ UNCHANGED <<known, commands, spawned, focus, dismissals>> /\ Elsewhere

RepositionOnPopup ==
  /\ At("popups", "repositioned")
  /\ IF Resolve(Event.surface) # {} THEN Applied ELSE Deferred
  /\ UNCHANGED <<known, commands, world, spawned, focus, dismissals>> /\ Elsewhere

\* A close that finds no entity is kept only for a popup spawned by this batch.
CloseMustWait(p) == p \in known

CloseOnPopup ==
  /\ At("popups", "closed")
  /\ LET p == Event.surface IN
     IF Resolve(p) # {}
       THEN Applied /\ known' = known \ {p} /\ \E e \in Resolve(p) : QueueDespawn(e)
       ELSE /\ IF CloseMustWait(p) THEN Deferred ELSE Applied
            /\ UNCHANGED <<known, commands>>
  /\ UNCHANGED <<world, spawned, focus, dismissals>> /\ Elsewhere

EndPopups ==
  /\ stage = "popups" /\ batch = <<>>
  /\ stage' = "flushPopups"
  /\ deferredPop' = deferring /\ deferring' = <<>> /\ known' = {}
  /\ UNCHANGED <<clients, deferredWin, batch, commands, ecs, focus, dismissals>>

-----------------------------------------------------------------------------
(* Commands, applied in the order they were queued.                        *)

IsCommand(op) ==
  stage \in {"flushWindows", "flushPopups"} /\ commands # <<>> /\ Head(commands).op = op

\* The rest of the state, while commands are applied.
Flushing ==
  /\ commands' = Tail(commands)
  /\ UNCHANGED <<stage, clients, deferredWin, deferredPop, batch, deferring, known, spawned,
                 focus, dismissals>>

\* The hook of WlSurfaceHandle indexes the entity.
IndexWith(s, e) == [index EXCEPT ![s] = e]

\* ChildOf is inserted by a command of its own, and dropped again by its insert
\* hook when the parent does not exist.
Linked(entity) ==
  [entity EXCEPT !.parent = IF @ \in DOMAIN world THEN @ ELSE NoEntity]

ApplySpawn ==
  /\ IsCommand("spawn")
  /\ LET id == Head(commands).id
         entity == Head(commands).entity
     IN /\ world' = [e \in DOMAIN world \cup {id} |-> IF e = id THEN Linked(entity) ELSE world[e]]
        /\ index' = IndexWith(entity.surface, id)
  /\ UNCHANGED retired /\ Flushing

\* An entity and everything below it: the least set that has with an entity its children.
ClosedBelow(entities) == \A e \in DOMAIN world : world[e].parent \in entities => e \in entities
Subtree(root) ==
  {e \in DOMAIN world :
     \A entities \in SUBSET DOMAIN world :
       ClosedBelow(entities) /\ (root \in DOMAIN world => root \in entities) => e \in entities}

Handles(entities) == {world[e].surface : e \in entities}

\* The hook forgets the surface of each entity that goes.
IndexKept(entities) == index
IndexWithout(entities) ==
  [s \in Surfaces |-> IF s \in Handles(entities) THEN NoEntity ELSE index[s]]

\* Despawning an entity that is already gone does nothing.
ApplyDespawn ==
  /\ IsCommand("despawn")
  /\ LET doomed == Subtree(Head(commands).id)
     IN /\ world' = [e \in DOMAIN world \ doomed |-> world[e]]
        /\ index' = IndexWithout(doomed)
        /\ retired' = retired \cup (Handles(doomed) \cap AllWindows)
  /\ Flushing

\* The rest of the frame: other systems may focus any window there is.
EndFrame ==
  /\ stage = "flushPopups" /\ commands = <<>>
  /\ stage' = "clients"
  /\ focus' \in {focus} \cup {w \in AllWindows : Shown(w)}
  /\ UNCHANGED <<clients, deferredWin, deferredPop, local, ecs, dismissals>>

Windowing ==
  \/ BeginWindows \/ UpsertWindow \/ CommitWindow \/ ManageWindow \/ CloseShownWindow
  \/ EndWindows
Popuping ==
  \/ BeginPopups \/ CreatePopup \/ CommitOnPopup \/ RepositionOnPopup \/ CloseOnPopup
  \/ EndPopups
Shell == Windowing \/ Popuping \/ ApplySpawn \/ ApplyDespawn \/ EndFrame

Next == Clients \/ Shell

\* The run loop runs the layout schedule in every frame; clients owe nothing.
Spec == Init /\ [][Next]_vars /\ WF_vars(Shell)

-----------------------------------------------------------------------------
\* What the local queues of the running system hold.
LocalQueue ==
  CASE stage = "windows" -> Seq(WindowEvent)
    [] stage = "popups" -> Seq(PopupEvent)
    [] OTHER -> {<<>>}

ClientTypes ==
  /\ client \in [Surfaces -> {"new", "open", "dismissed", "closed", "gone"}]
  /\ winIngress \in Seq(WindowEvent) /\ popIngress \in Seq(PopupEvent)
  /\ sent \in 0..MaxEvents /\ content \in [Surfaces -> BOOLEAN]
ShellTypes ==
  /\ stage \in {"clients", "windows", "flushWindows", "popups", "flushPopups"}
  /\ deferredWin \in Seq(WindowEvent) /\ deferredPop \in Seq(PopupEvent)
  /\ batch \in LocalQueue /\ deferring \in LocalQueue
  /\ known \subseteq Surfaces /\ commands \in Seq(Command)
  /\ focus \in AllWindows \cup {NoSurface} /\ dismissals \subseteq Popups
WorldTypes ==
  /\ DOMAIN world \subseteq EntityIds /\ world \in [DOMAIN world -> Entity]
  /\ spawned \in Nat
  /\ index \in [Surfaces -> EntityIds \cup {NoEntity}]
  /\ retired \subseteq AllWindows

TypeOK == ClientTypes /\ ShellTypes /\ WorldTypes

Settled(s) == stage = "clients" /\ ~Mentions(winIngress \o popIngress, s)
Waiting(s) == Mentions(deferredWin \o deferredPop \o batch \o deferring, s)
Entities(s) == {e \in DOMAIN world : world[e].surface = s}

\* EntityIndex never resolves a surface to an entity that is gone or stands for
\* another surface, whatever is spawned twice or despawned twice: every system of
\* the shell trusts entity_for_surface.
IndexSound ==
  \A s \in Surfaces : index[s] # NoEntity =>
    index[s] \in DOMAIN world /\ world[index[s]].surface = s

\* Keyboard focus stays on a window that exists, from the end of
\* window_lifecycle_system's commands to the next frame.
FocusAlive ==
  stage \notin {"windows", "flushWindows"} /\ focus # NoSurface => Shown(focus)

\* A popup is below an entity that exists, and that is the surface its client opened
\* it on: closing a window or a popup takes everything below it along, and events
\* of closed parents never attach a popup to a reused entity.
PopupsHang ==
  \A p \in Popups : \A e \in Entities(p) :
    world[e].parent # NoEntity =>
      world[e].parent \in DOMAIN world /\ world[world[e].parent].surface = Parent[p]

\* A window whose client has committed it, and not closed it, is in the world once
\* its events were worked through: no order of retries and new events loses it.
\* Only requests made before the first commit wait for an entity.
NoWindowLost ==
  \A w \in AllWindows :
    Settled(w) /\ client[w] = "open" /\ ~Shown(w) =>
      \A i \in DOMAIN deferredWin : deferredWin[i].surface = w => deferredWin[i].kind = "manager"

\* A window that has been closed never comes back through a retried event.
NoResurrection ==
  [][\A w \in AllWindows : Shown(w)' /\ ~Shown(w) => w \notin retired]_vars

\* Once no event of a window is left, its entity shows what its client committed
\* last, although commits that came before the entity are retried a frame later.
LastCommitWins ==
  \A w \in AllWindows :
    Settled(w) /\ ~Waiting(w) /\ index[w] # NoEntity => world[index[w]].attached = content[w]

\* Closing a window asks the server to dismiss each popup that goes down with it
\* directly under it.
OrphansDismissed ==
  [][\A p \in Popups, w \in AllWindows :
       (\E e \in Entities(p) : world[e].parent \in Entities(w))
         /\ Shown(w) /\ ~Shown(w)' => p \in dismissals]_vars

\* There is one entity per window for as long as its client keeps it, and none
\* afterwards.  Clients that run ahead of the compositor break this: a metadata change
\* and a commit with a geometry in one batch spawn twice, and a window that is
\* created and closed in one batch stays.
OneWindow(w) ==
  /\ Cardinality(Entities(w)) <= 1
  /\ Settled(w) /\ client[w] = "gone" => ~Shown(w)
OneWindowEach == \A w \in AllWindows : OneWindow(w)

\* A popup is in the world exactly while its client has it open, as soon as its
\* parent is: however its creation, its dismissal by the compositor and the two
\* closes its destruction records fall into batches.
PopupsAgree ==
  \A p \in Popups :
    /\ Cardinality(Entities(p)) <= 1
    /\ Settled(p) /\ ~Waiting(p) => (Shown(p) <=> client[p] = "open" /\ Shown(Parent[p]))

\* Whatever clients do: types, the index, focus on a window that exists, no window
\* lost, popups below their parents.
ShellTrue == TypeOK /\ IndexSound /\ FocusAlive /\ NoWindowLost /\ PopupsHang

\* What the shell shows is what its clients have open: the last commit, the popups, and
\* one window for each client that lets a frame pass between its requests.
ClientsAgree ==
  LastCommitWins /\ PopupsAgree /\ \A w \in AllWindows \cap Paced : OneWindow(w)

\* An event of a window that waits for its entity is applied, unless the window is
\* closed first.
EventsSettle ==
  \A w \in AllWindows :
    Shown(w) /\ Waiting(w) ~> ~Waiting(w) \/ client[w] = "gone"

\* A popup its client opens and keeps is shown, provided its parent is and stays open.
PopupAppears ==
  \A p \in Popups :
    client[p] = "open" ~> \/ Shown(p) \/ client[p] # "open"
                          \/ ~Shown(Parent[p]) \/ ~OpenSurface(Parent[p])

\* Nothing waits for ever: events of windows, popups, and dismissals of popups whose
\* parent goes.
Settles == EventsSettle /\ PopupAppears /\ OrphansDismissed
=============================================================================
