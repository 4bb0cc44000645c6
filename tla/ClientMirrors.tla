---------------------------- MODULE ClientMirrors ----------------------------
(***************************************************************************)
(* What every Wayland client is told without asking: the list of windows   *)
(* (ext-foreign-toplevel-list), the keymap, the mode and scale of the one  *)
(* wl_output, the buffer formats it may allocate.  Each is a copy that a   *)
(* system of the protocol sub-app brings up to date once in a frame from   *)
(* the copy of the main world taken at the frame's start, and each has its *)
(* own way to decide that there is nothing to do.                          *)
(***************************************************************************)
EXTENDS Naturals, FiniteSets, Functions

CONSTANTS
  Clients, Windows,
  Titles,
  Layouts, Known,   \* configured keyboard layouts, and those xkbcommon can compile
  Names,            \* output names, numbers in the order the code compares them in
  Scales,
  Offers,           \* what the backend can import once it is up
  None, Killed,
  MaxChanges        \* bound: changes of the windows, layouts and outputs

MirrorsAssumption ==
  /\ Known \subseteq Layouts /\ None \notin Layouts
  /\ Names \subseteq Nat /\ Scales \subseteq Nat \ {0} /\ MaxChanges \in Nat

VARIABLES
  stage,     \* "poll", "main" or "present"
  changes,
  windows,   \* the main world: [its windows -> [title, listed]]
  layout,    \* KeyboardLayoutState.active_layout
  outputs,   \* OutputSnapshotState: [connected names -> scale]
  snapshot,  \* ForeignToplevelSnapshotState: [listed windows -> title]
  wanted,    \* the sub-app's copy of layout
  keyboard,  \* the keymap of the seat, None without a keyboard
  lastLayout, lastTiming, \* Locals of the systems
  primary,   \* primary_output: [name, scale]
  toplevels, \* [tracked surfaces -> the scale they were told]
  handles,   \* foreign_toplevels: [surfaces -> [id, title]]
  given,     \* how many handles were made
  backend,   \* formats of the backend
  support,   \* ProtocolRuntimeState.dmabuf_support
  global,    \* which dmabuf global there is
  clients,   \* None, Killed, or [seen, offered]: the global in its registry and what it was offered
  refused    \* clients that were refused a format they were offered

vars == <<stage, changes, windows, layout, outputs, snapshot, wanted, keyboard, lastLayout, lastTiming, primary,
          toplevels, handles, given, backend, support, global, clients, refused>>

world  == <<changes, windows, layout, outputs>>
copies == <<snapshot, wanted>>
seat   == <<keyboard, lastLayout>>
screen == <<lastTiming, primary>>
list   == <<handles, given>>
buffers == <<support, global>>

-----------------------------------------------------------------------------
(* Clients, while their sockets are polled                                 *)

Connect(c) ==
  /\ stage = "poll" /\ clients[c] = None
  /\ clients' = [clients EXCEPT ![c] = [seen |-> global, offered |-> None]]
  /\ UNCHANGED <<stage, world, copies, seat, screen, toplevels, list, backend, buffers, refused>>

(* A client binds the global it knows of; one that is gone is a protocol error. *)
Bind(c) ==
  /\ stage = "poll" /\ clients[c] \notin {None, Killed} /\ clients[c].offered = None
  /\ clients' = [clients EXCEPT ![c] = IF @.seen = global THEN [@ EXCEPT !.offered = support] ELSE Killed]
  /\ UNCHANGED <<stage, world, copies, seat, screen, toplevels, list, backend, buffers, refused>>

Notice(c) ==
  /\ stage = "poll" /\ clients[c] \notin {None, Killed} /\ clients[c].seen # global
  /\ clients' = [clients EXCEPT ![c].seen = global]
  /\ UNCHANGED <<stage, world, copies, seat, screen, toplevels, list, backend, buffers, refused>>

(* DmabufHandler::dmabuf_imported *)
Allocate(c, format) ==
  /\ stage = "poll" /\ clients[c] \notin {None, Killed} /\ clients[c].offered # None /\ format \in clients[c].offered
  /\ refused' = IF format \in support THEN refused ELSE refused \union {c}
  /\ refused' # refused
  /\ UNCHANGED <<stage, world, copies, seat, screen, toplevels, list, backend, buffers, clients>>

NewToplevel(w) ==
  /\ stage = "poll" /\ changes < MaxChanges /\ w \notin DOMAIN toplevels \union DOMAIN windows
  /\ changes' = changes + 1
  /\ toplevels' = [x \in DOMAIN toplevels \union {w} |-> IF x = w THEN primary.scale ELSE toplevels[x]]
  /\ UNCHANGED <<stage, windows, layout, outputs, copies, seat, screen, list, backend, buffers, clients, refused>>

DestroyToplevel(w) ==
  /\ stage = "poll" /\ changes < MaxChanges /\ w \in DOMAIN toplevels /\ changes' = changes + 1
  /\ toplevels' = Restrict(toplevels, DOMAIN toplevels \ {w})
  /\ UNCHANGED <<stage, windows, layout, outputs, copies, seat, screen, list, backend, buffers, clients, refused>>

(* collect_protocol_dmabuf_support: the window of the nested backend may come up late. *)
Extract ==
  /\ stage = "poll" /\ stage' = "main" /\ backend' \in {backend, Offers}
  /\ UNCHANGED <<world, copies, seat, screen, toplevels, list, buffers, clients, refused>>

-----------------------------------------------------------------------------
(* The main world                                                          *)

Change ==
  /\ stage = "main" /\ changes < MaxChanges /\ changes' = changes + 1
  /\ UNCHANGED <<stage, copies, seat, screen, toplevels, list, backend, buffers, clients, refused>>

Map(w, title) ==
  /\ Change /\ w \in DOMAIN toplevels \ DOMAIN windows
  /\ windows' = [x \in DOMAIN windows \union {w} |-> IF x = w THEN [title |-> title, listed |-> TRUE] ELSE windows[x]]
  /\ UNCHANGED <<layout, outputs>>
Retitle(w, title) ==
  /\ Change /\ w \in DOMAIN windows /\ windows[w].title # title /\ windows' = [windows EXCEPT ![w].title = title]
  /\ UNCHANGED <<layout, outputs>>
(* A window becomes a background or a helper, or stops being one. *)
Turn(w) ==
  /\ Change /\ w \in DOMAIN windows /\ windows' = [windows EXCEPT ![w].listed = ~@]
  /\ UNCHANGED <<layout, outputs>>
Forget(w) ==
  /\ Change /\ w \in DOMAIN windows \ DOMAIN toplevels /\ windows' = Restrict(windows, DOMAIN windows \ {w})
  /\ UNCHANGED <<layout, outputs>>
SetLayout(l) == Change /\ l # layout /\ layout' = l /\ UNCHANGED <<windows, outputs>>
SetOutput(n, scale) ==
  /\ Change /\ outputs' = [m \in DOMAIN outputs \union {n} |-> IF m = n THEN scale ELSE outputs[m]]
  /\ UNCHANGED <<windows, layout>>
RemoveOutput(n) ==
  /\ Change /\ n \in DOMAIN outputs /\ outputs' = Restrict(outputs, DOMAIN outputs \ {n}) /\ UNCHANGED <<windows, layout>>

-----------------------------------------------------------------------------
(* ProtocolSchedule: dmabuf, keymap and output timing                      *)

Timing ==
  IF DOMAIN outputs = {} THEN None
  ELSE LET least == CHOOSE n \in DOMAIN outputs : \A m \in DOMAIN outputs : n <= m
       IN  [name |-> least, scale |-> outputs[least]]

SyncDmabuf ==
  /\ support' = backend
  /\ global' = IF support = backend THEN global ELSE global + 1

(* A layout that cannot be compiled is tried again in every frame. *)
SyncLayout ==
  LET told == keyboard # None /\ wanted \in Known IN
  IF lastLayout # wanted /\ told THEN keyboard' = wanted /\ lastLayout' = wanted ELSE UNCHANGED seat

(* Slip: only surfaces that come later are told of a new scale. *)
SyncTimingForLater ==
  IF Timing \in {None, lastTiming} THEN UNCHANGED <<screen, toplevels>>
  ELSE lastTiming' = Timing /\ primary' = Timing /\ UNCHANGED toplevels

SyncTiming ==
  IF Timing \in {None, lastTiming} THEN UNCHANGED <<screen, toplevels>>
  ELSE /\ lastTiming' = Timing /\ primary' = Timing
       /\ toplevels' = [w \in DOMAIN toplevels |-> Timing.scale]

Normalize ==
  /\ stage = "main" /\ stage' = "present"
  /\ SyncDmabuf /\ SyncLayout /\ SyncTiming
  /\ UNCHANGED <<world, copies, list, backend, clients, refused>>

-----------------------------------------------------------------------------
(* PresentSchedule: the list of windows; then the next frame's copies      *)

Fresh == DOMAIN snapshot \ DOMAIN handles

Listed(new, order) ==
  /\ handles' = [w \in DOMAIN snapshot |->
       [id |-> IF w \in new THEN given + order[w] ELSE handles[w].id, title |-> snapshot[w]]]
  /\ given' = given + Cardinality(new)

(* Slip: a window that has a new title gets a new handle. *)
ListAnew ==
  LET new == Fresh \union {w \in DOMAIN snapshot \intersect DOMAIN handles : handles[w].title # snapshot[w]}
  IN  \E order \in Bijection(new, 1..Cardinality(new)) : Listed(new, order)

(* sync_foreign_toplevel_list: new windows are announced in whatever order, titles renewed, the others closed. *)
List == \E order \in Bijection(Fresh, 1..Cardinality(Fresh)) : Listed(Fresh, order)

(* extract_foreign_toplevel_snapshot *)
Shown == {w \in DOMAIN windows : windows[w].listed}
ToList == [w \in Shown |-> windows[w].title]

Present ==
  /\ stage = "present" /\ stage' = "poll"
  /\ List
  /\ snapshot' = ToList /\ wanted' = layout
  /\ UNCHANGED <<world, seat, screen, toplevels, backend, buffers, clients, refused>>

Init ==
  /\ stage = "poll" /\ changes = 0
  /\ windows = <<>> /\ layout \in Layouts /\ outputs \in {[n \in {m} |-> s] : m \in Names, s \in Scales}
  /\ snapshot = <<>> /\ wanted = layout
  /\ keyboard = (IF layout \in Known THEN layout ELSE None) /\ lastLayout = None
  /\ lastTiming = None /\ primary = [name |-> None, scale |-> 1]
  /\ toplevels = <<>> /\ handles = <<>> /\ given = 0
  /\ backend = {} /\ support = {} /\ global = 0
  /\ clients = [c \in Clients |-> None] /\ refused = {}

Next ==
  \/ \E c \in Clients : Connect(c) \/ Bind(c) \/ Notice(c) \/ \E f \in Offers : Allocate(c, f)
  \/ \E w \in Windows : NewToplevel(w) \/ DestroyToplevel(w) \/ Turn(w) \/ Forget(w)
  \/ \E w \in Windows, t \in Titles : Map(w, t) \/ Retitle(w, t)
  \/ \E l \in Layouts : SetLayout(l)
  \/ \E n \in Names : RemoveOutput(n) \/ \E s \in Scales : SetOutput(n, s)
  \/ Extract \/ Normalize \/ Present

Spec == Init /\ [][Next]_vars

-----------------------------------------------------------------------------
(* Properties                                                              *)

(* Clients are told of every window of the frame before and of no other (sync_foreign_toplevel_list),
   and a window keeps its handle. *)
ListTrue ==
  [][stage = "present" /\ stage' = "poll" =>
       /\ DOMAIN handles' = DOMAIN snapshot
       /\ \A w \in DOMAIN snapshot : handles'[w].title = snapshot[w]
       /\ \A w \in DOMAIN snapshot \intersect DOMAIN handles : handles'[w].id = handles[w].id]_vars

(* With a keyboard, clients have the layout of the frame's start if it can be compiled, however often
   one that cannot came between (sync_keyboard_layout_config_system). *)
KeymapTrue == stage = "present" /\ keyboard # None /\ wanted \in Known => keyboard = wanted

(* The one wl_output is the output with the least name, or the last that was, and every surface has its scale. *)
ScreenTrue ==
  stage = "present" =>
    /\ Timing # None => primary = Timing
    /\ \A w \in DOMAIN toplevels : toplevels[w] = primary.scale

(* No client is refused a format it was offered, by whichever global (dmabuf_imported). *)
OfferTrue == refused = {}

(* A handle stands for one window, whatever became of the handles before it (new_toplevel). *)
HandlesApart == \A v, w \in DOMAIN handles : handles[v].id = handles[w].id => v = w

(* The four together. *)
MirrorsTrue == KeymapTrue /\ ScreenTrue /\ OfferTrue /\ HandlesApart
=============================================================================
