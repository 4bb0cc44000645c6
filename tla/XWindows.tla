------------------------------ MODULE XWindows ------------------------------
(***************************************************************************)
(* The windows of XWayland.  Two connections tell of one window: on X11 it *)
(* is created, asked to be mapped, mapped, renamed, unmapped; on Wayland   *)
(* its surface appears and goes.  A window is published to the compositor  *)
(* when both have spoken and it is not an empty helper, and its events     *)
(* then name it by the surface it has at that time.                        *)
(*                                                                         *)
(* XWayland and its clients act while the event loop is polled; a frame    *)
(* sorts the recorded events into those of windows and those of popups and *)
(* lets the shell consume both.  What a system of the shell spawns or      *)
(* despawns shows only when that system is over.                           *)
(*                                                                         *)
(* An operator that precedes its correct form under another name is a slip *)
(* the properties must catch: the specification does not use it.           *)
(***************************************************************************)
EXTENDS Naturals, Sequences, FiniteSets, SequencesExt

CONSTANTS XWindows,    \* X window ids
          Transient,   \* the window a window is transient for, or None
          Menus,       \* those that start with the type of a menu: the sets that may be
          Unmanaged,   \* those with override_redirect: the sets that may be
          Blank,       \* those mapped without title and size before they get both
          MaxSurfaces, \* bound: wl_surfaces XWayland creates
          MaxAsks,     \* bound: maximize, fullscreen, move... requests and changes of type
          MaxEvents,   \* bound: events recorded between two frames
          None

\* A menu of a menu is left out.
TransientAssumption ==
  /\ Transient \in [XWindows -> XWindows \cup {None}]
  /\ \A w \in XWindows : Transient[w] # None => Transient[Transient[w]] = None
KindsAssumption == Blank \cup UNION (Menus \cup Unmanaged) \subseteq XWindows
SurfacesAssumption == {MaxSurfaces, MaxAsks, MaxEvents} \subseteq Nat

VARIABLES
  x,        \* the windows of the X server, and how far the window manager has heard of it
  surface,  \* X window -> its wl_surface: [id, linked]; id 0: it has none
  nextId,   \* surface ids are never used again
  asks,
  connected,\* the window manager's connection is there
  tables,   \* of ProtocolRuntimeState
  events,   \* recorded by the server
  helpers,  \* x11_helper_surfaces
  menus,    \* x11_popup_surfaces
  windows,  \* the window entities of the shell: <<surface, which of its entities>>
  popups,   \* the popup entities: surface -> [on: the parent's surface, shown]
  covered,  \* surfaces for which EntityIndex gives the popup
  deferred, \* DeferredWindowEvents and DeferredPopupEvents
  late,     \* history: menus that were closed before the shell had made a popup of them
  hasty,    \* history: windows with a second event in the frame that spawned them
  retyped   \* history: windows that became menus while they were published

vars == <<x, surface, nextId, asks, connected, tables, events, helpers, menus, windows, popups,
          covered, deferred, late, hasty, retyped>>
xVars == <<x, surface, nextId, asks, connected, retyped>>
shellVars == <<helpers, menus, windows, popups, covered, deferred, late, hasty>>

Ids   == 1 .. MaxSurfaces
Empty == [k \in {} |-> 0]
Set(f, k, v) == [i \in DOMAIN f \cup {k} |-> IF i = k THEN v ELSE f[i]]
Drop(f, keys) == [i \in DOMAIN f \ keys |-> f[i]]

Init ==
  /\ \E own \in Unmanaged, typed \in Menus :
       x = [w \in XWindows |-> [phase |-> "none", leaving |-> FALSE, managed |-> w \notin own,
                               helper |-> w \in typed, blank |-> w \in Blank]]
  /\ surface = [w \in XWindows |-> [id |-> 0, linked |-> FALSE]]
  /\ nextId = 1 /\ asks = 0 /\ connected = TRUE
  /\ tables = [mapped |-> {}, published |-> {}, sid |-> Empty, wid |-> Empty]
  /\ events = <<>>
  /\ helpers = {} /\ menus = {} /\ windows = {} /\ popups = Empty /\ covered = {}
  /\ deferred = [window |-> <<>>, popup |-> <<>>] /\ late = {} /\ hasty = {} /\ retyped = {}

-----------------------------------------------------------------------------
(* sync_x11_surface_mapping, which every handler runs before its own work. *)
Remembered(t, w, s) ==
  IF s.linked THEN [t EXCEPT !.sid = Set(@, w, s.id), !.wid = Set(@, s.id, w)] ELSE t

(* x11_popup_placement: a popup needs a parent with a surface.             *)
ParentSurface(t, w) ==
  IF Transient[w] # None /\ Transient[w] \in DOMAIN t.sid THEN t.sid[Transient[w]] ELSE 0

Described(is, t, w, at) ==
  [is |-> is, id |-> t.sid[w], helper |-> at.helper, parent |-> ParentSurface(t, w)]

(* publish_x11_window_if_ready: mapped, with a surface, not an empty       *)
(* helper.  The first time it is mapped, from then on reconfigured.        *)
Published(t, w, s, at) ==
  IF w \in t.mapped /\ s.linked /\ ~at.blank
  THEN [tables |-> [t EXCEPT !.published = @ \cup {w}],
        events |-> <<Described(IF w \in t.published THEN "reconfigured" ELSE "mapped", t, w, at)>>]
  ELSE [tables |-> t, events |-> <<>>]

(* queue_x11_reconfigured.                                                 *)
Reconfigured(t, w, s, at) ==
  [tables |-> t,
   events |-> IF w \in t.published /\ s.linked THEN <<Described("reconfigured", t, w, at)>> ELSE <<>>]

(* unpublish_x11_window.                                                   *)
Unpublished(t, w) ==
  [t EXCEPT !.mapped = @ \ {w}, !.published = @ \ {w}, !.sid = Drop(@, {w}),
            !.wid = Drop(@, IF w \in DOMAIN t.sid THEN {t.sid[w]} ELSE {})]

Record(r) == tables' = r.tables /\ events' = events \o r.events

-----------------------------------------------------------------------------
(* new_window, new_override_redirect_window.                               *)
Create(w) ==
  /\ x[w].phase = "none" /\ x' = [x EXCEPT ![w].phase = "created"]
  /\ UNCHANGED <<surface, nextId, asks, tables, events, shellVars>>

Surfaced(w) ==
  /\ nextId <= MaxSurfaces /\ nextId' = nextId + 1
  /\ surface' = [surface EXCEPT ![w] = [id |-> nextId, linked |-> FALSE]]

(* map_window_request: the window manager maps it, XWayland makes the      *)
(* surface.  set_mapped may fail, before the X server has mapped it or     *)
(* after.  A window with override_redirect maps itself.                    *)
MapRequest(w) ==
  /\ x[w].managed /\ x[w].phase = "created"
  /\ LET t == Remembered(tables, w, surface[w]) IN
     \/ /\ Surfaced(w) /\ x' = [x EXCEPT ![w].phase = "mapping"]
        /\ \/ Record(Published([t EXCEPT !.mapped = @ \cup {w}], w, surface[w], x[w]))
           \/ Record([tables |-> t, events |-> <<>>])
     \/ UNCHANGED <<x, surface, nextId>> /\ Record([tables |-> t, events |-> <<>>])
  /\ UNCHANGED <<asks, shellVars>>

SelfMap(w) ==
  /\ ~x[w].managed /\ x[w].phase = "created" /\ Surfaced(w)
  /\ x' = [x EXCEPT ![w].phase = "mapping"]
  /\ UNCHANGED <<asks, tables, events, shellVars>>

(* map_window_notify, mapped_override_redirect_window.                     *)
MapNotify(w) ==
  /\ x[w].phase = "mapping" /\ x' = [x EXCEPT ![w].phase = "mapped"]
  /\ LET t == [Remembered(tables, w, surface[w]) EXCEPT !.mapped = @ \cup {w}] IN
     Record(Published(t, w, surface[w], x[w]))
  /\ UNCHANGED <<surface, nextId, asks, shellVars>>

(* surface_associated: smithay has found the surface of the window.  The X *)
(* server says that it has mapped a window before it names the surface.    *)
Associate(w) ==
  /\ surface[w].id # 0 /\ ~surface[w].linked
  /\ ~x[w].managed => x[w].phase = "mapped"
  /\ surface' = [surface EXCEPT ![w].linked = TRUE]
  /\ LET s == [surface[w] EXCEPT !.linked = TRUE] IN
     Record(Published(Remembered(tables, w, s), w, s, x[w]))
  /\ UNCHANGED <<x, nextId, asks, shellVars>>

(* The client withdraws its window: the surface goes on one connection,    *)
(* the notice comes on the other.                                          *)
Withdraw(w) ==
  /\ x[w].phase \in {"mapping", "mapped"} /\ ~x[w].leaving
  /\ x' = [x EXCEPT ![w].leaving = TRUE]
  /\ surface' = [surface EXCEPT ![w] = [id |-> 0, linked |-> FALSE]]
  /\ UNCHANGED <<nextId, asks, tables, events, shellVars>>

EndedBySurface(w, is) ==
  /\ tables' = Unpublished(tables, w)
  /\ events' = IF surface[w].linked THEN Append(events, [is |-> is, id |-> surface[w].id]) ELSE events
Ended(w, is) ==
  /\ tables' = Unpublished(tables, w)
  /\ events' = IF w \in DOMAIN tables.sid THEN Append(events, [is |-> is, id |-> tables.sid[w]]) ELSE events

(* unmapped_window.                                                        *)
UnmapNotify(w) ==
  /\ x[w].phase = "mapped" /\ x[w].leaving
  /\ x' = [x EXCEPT ![w].phase = "created", ![w].leaving = FALSE]
  /\ Ended(w, "closed")
  /\ UNCHANGED <<surface, nextId, asks, shellVars>>

(* destroyed_window.                                                       *)
Destroy(w) ==
  /\ x[w].phase = "created" /\ x' = [x EXCEPT ![w].phase = "none"]
  /\ Ended(w, "closed")
  /\ UNCHANGED <<surface, nextId, asks, shellVars>>

(* property_notify, configure_request and configure_notify: a title or a   *)
(* size for an empty window, another type for a window or a menu.  Where   *)
(* configure fails nothing happens.                                        *)
Changed(w) ==
  Record(Reconfigured(Remembered(tables, w, surface[w]), w, surface[w], x'[w]))

Fill(w) ==
  /\ x[w].phase # "none" /\ x[w].blank /\ x' = [x EXCEPT ![w].blank = FALSE]
  /\ Changed(w)
  /\ UNCHANGED <<surface, nextId, asks, retyped, shellVars>>

Retype(w) ==
  /\ x[w].phase # "none" /\ x' = [x EXCEPT ![w].helper = ~@]
  /\ asks < MaxAsks /\ asks' = asks + 1
  /\ retyped' = IF w \in tables.published /\ ~x[w].helper THEN retyped \cup {tables.sid[w]} ELSE retyped
  /\ Changed(w)
  /\ UNCHANGED <<surface, nextId, shellVars>>

(* maximize_request to move_request.                                       *)
Ask(w) ==
  /\ x[w].phase = "mapped" /\ asks < MaxAsks /\ asks' = asks + 1
  /\ tables' = Remembered(tables, w, surface[w])
  /\ events' = IF w \in DOMAIN tables'.sid
               THEN Append(events, [is |-> "ask", id |-> tables'.sid[w]]) ELSE events
  /\ UNCHANGED <<x, surface, nextId, shellVars>>

(* disconnected: XWayland is gone with its windows and surfaces.  Its      *)
(* window manager is dropped, what it has said is not taken back.          *)
Disconnect ==
  /\ connected /\ connected' = FALSE
  /\ x' = [w \in XWindows |-> [x[w] EXCEPT !.phase = "none", !.leaving = FALSE, !.blank = FALSE,
                                          !.helper = FALSE]]
  /\ surface' = [w \in XWindows |-> [id |-> 0, linked |-> FALSE]]
  /\ UNCHANGED <<nextId, asks, retyped, tables, events, shellVars>>

-----------------------------------------------------------------------------
(* flush_into_ecs: what an event says to the window and the popup system.  *)
MenuEvents(e, first) ==
  <<[is |-> first, id |-> e.id, on |-> e.parent], [is |-> "committed", id |-> e.id]>>
Sorted(r, e) ==
  LET gone == IF e.id \in r.menus THEN <<[is |-> "closed", id |-> e.id]>> ELSE <<>> IN
  CASE e.is \in {"mapped", "reconfigured"} /\ e.helper /\ e.parent # 0 ->
         [r EXCEPT !.helpers = @ \cup {e.id}, !.menus = @ \cup {e.id},
                   !.popup = @ \o MenuEvents(e, IF e.is = "reconfigured" /\ e.id \in r.menus
                                                THEN "moved" ELSE "created")]
    [] e.is \in {"mapped", "reconfigured"} /\ e.helper /\ e.parent = 0 ->
         [r EXCEPT !.helpers = @ \cup {e.id}, !.menus = @ \ {e.id},
                   !.popup = @ \o (IF e.is = "mapped" THEN <<>> ELSE gone)]
    [] e.is \in {"mapped", "reconfigured"} /\ ~e.helper ->
         [r EXCEPT !.helpers = @ \ {e.id}, !.menus = @ \ {e.id},
                   !.popup = @ \o (IF e.is = "mapped" THEN <<>> ELSE gone),
                   !.window = Append(@, [is |-> "upsert", id |-> e.id])]
    [] e.is = "ask" -> [r EXCEPT !.window = IF e.id \in r.helpers THEN @ ELSE Append(@, e)]
    [] e.is = "closed" ->
         [r EXCEPT !.helpers = @ \ {e.id}, !.menus = @ \ {e.id},
                   !.popup = @ \o gone,
                   !.window = IF e.id \in r.menus THEN @ ELSE Append(@, e)]
Flushed == FoldLeft(Sorted, [helpers |-> helpers, menus |-> menus, window |-> <<>>, popup |-> <<>>], events)

(* window_lifecycle_system, as far as X windows are concerned.  The index  *)
(* may give the popup of a surface that has a window too: then an upsert   *)
(* spawns one more window, and a closing despawns the popup.               *)
Copies(id, es) == Cardinality({e \in es : e[1] = id})
HasWindow(id) == id \notin covered /\ Copies(id, windows) > 0
WindowStep(r, e) ==
  CASE e.is = "upsert" -> IF HasWindow(e.id) THEN r ELSE [r EXCEPT !.new = @ \cup {<<e.id, Copies(e.id, windows \cup @) + 1>>}]
    [] e.is = "closed" -> [r EXCEPT !.gone = @ \cup {e.id}]
    [] OTHER -> IF HasWindow(e.id) THEN r ELSE [r EXCEPT !.deferred = Append(@, e)]

(* popup_management_system.                                                *)
PopupStep(parents, world, r, e) ==
  CASE e.is = "created" ->
         IF e.id \in r.known \/ e.on \notin parents THEN [r EXCEPT !.deferred = Append(@, e)]
         ELSE [r EXCEPT !.known = @ \cup {e.id}, !.new = Set(@, e.id, [on |-> e.on, shown |-> FALSE])]
    [] e.is \in {"moved", "committed"} ->
         IF e.id \notin world THEN [r EXCEPT !.deferred = Append(@, e)]
         ELSE IF e.is = "moved" THEN r ELSE [r EXCEPT !.shown = @ \cup {e.id}]
    [] e.is = "closed" ->
         IF e.id \in world THEN [r EXCEPT !.gone = @ \cup {e.id}, !.known = @ \ {e.id}]
         ELSE IF e.id \in r.known THEN [r EXCEPT !.deferred = Append(@, e)]
         ELSE [r EXCEPT !.late = @ \cup {e.id}]

(* The windows a frame spawns although it hears more of them, or spawns a  *)
(* popup for them too.                                                     *)
Hasty(batch, new, popup) ==
  {s \in new :
     s \in popup \/ Cardinality({i \in DOMAIN batch : batch[i].id = s /\ batch[i].is # "ask"}) > 1}

Spawning(batch) == FoldLeft(WindowStep, [new |-> {}, gone |-> {}, deferred |-> <<>>], batch)
Popping(batch, parents, left) ==
  FoldLeft(LAMBDA r, e : PopupStep(parents, DOMAIN left, r, e),
           [known |-> DOMAIN left, new |-> Empty, gone |-> {}, shown |-> {}, deferred |-> <<>>,
            late |-> late], batch)

(* \E over one value is a LET that TLC evaluates once.                     *)
Frame ==
  /\ events # <<>> \/ deferred.window # <<>> \/ deferred.popup # <<>>
  /\ \E f \in {Flushed} : \E w \in {Spawning(deferred.window \o f.window)} :
     LET closed  == {s \in w.gone : HasWindow(s)}
         spawned == {e[1] : e \in w.new}
         now     == (windows \ {<<s, Copies(s, windows)>> : s \in closed}) \cup w.new
     IN \E left \in
          \* a window's popups are despawned with it
          {Drop(popups, {p \in DOMAIN popups : popups[p].on \in closed} \cup (w.gone \cap covered))} :
        \E r \in {Popping(deferred.popup \o f.popup, {i[1] : i \in now}, left)} :
          /\ helpers' = f.helpers /\ menus' = f.menus
          /\ windows' = now
          /\ popups' = [p \in (DOMAIN left \ r.gone) \cup DOMAIN r.new |->
                         IF p \in DOMAIN r.new THEN r.new[p]
                         ELSE [left[p] EXCEPT !.shown = @ \/ p \in r.shown]]
          \* the index gives what was spawned last
          /\ covered' = (((covered \cap DOMAIN left) \ (spawned \cup closed)) \ r.gone) \cup DOMAIN r.new
          /\ deferred' = [window |-> w.deferred, popup |-> r.deferred]
          /\ late' = r.late
          /\ hasty' = hasty \cup Hasty(deferred.window \o f.window, spawned, DOMAIN r.new)
  /\ events' = <<>>
  /\ UNCHANGED <<xVars, tables>>

Next ==
  \/ \E w \in XWindows :
     /\ connected /\ Len(events) < MaxEvents
     /\ \/ UNCHANGED <<connected, retyped>> /\ (\/ Create(w) \/ MapRequest(w) \/ SelfMap(w)
                                               \/ MapNotify(w) \/ Associate(w) \/ Withdraw(w)
                                               \/ UnmapNotify(w) \/ Destroy(w) \/ Ask(w))
        \/ UNCHANGED connected /\ (Fill(w) \/ Retype(w))
  \/ Disconnect
  \/ Frame

Spec == Init /\ [][Next]_vars

-----------------------------------------------------------------------------
TypeOK ==
  /\ tables.mapped \subseteq XWindows /\ tables.published \subseteq XWindows
  /\ DOMAIN tables.sid \subseteq XWindows /\ DOMAIN tables.wid \subseteq Ids
  /\ windows \subseteq Ids \X Nat /\ helpers \cup menus \cup DOMAIN popups \subseteq Ids

(* The two tables are each other's inverse, so a request the compositor    *)
(* makes by surface reaches the window of that surface and no other.       *)
TablesAgree ==
  /\ \A w \in DOMAIN tables.sid : tables.sid[w] \in DOMAIN tables.wid /\ tables.wid[tables.sid[w]] = w
  /\ \A s \in DOMAIN tables.wid : tables.wid[s] \in DOMAIN tables.sid /\ tables.sid[tables.wid[s]] = s
  /\ tables.published \subseteq tables.mapped \cap DOMAIN tables.sid

PublishedAs(is) == {tables.sid[w] : w \in {v \in tables.published : x[v].helper = is}}
LeavingAs == {tables.sid[w] : w \in {v \in tables.published : x[v].leaving}}

(* At rest, and while XWayland is there, each published window is one      *)
(* window of the shell under the surface it has now, and none outlives its *)
(* window, in whatever order the two connections spoke.  What changes      *)
(* after the surface has gone is not heard of.  Four things are excepted.  *)
(* When XWayland disconnects nothing is closed.  A window of which a       *)
(* second event reaches the shell in the frame that spawns it (hasty) is   *)
(* spawned twice, now or later, or its closing finds nothing; and one that *)
(* becomes a menu while it is published (retyped) is closed as a menu      *)
(* only.  Of a menu that becomes a window before the shell has made a      *)
(* popup of it (late) the popup comes all the same, and the closing of the *)
(* window then finds the popup.                                            *)
WindowsAgree ==
  connected /\ events = <<>> =>
    /\ \A s \in PublishedAs(FALSE) \ LeavingAs : Copies(s, windows) > 0
    /\ \A e \in windows : e[1] \notin hasty \cup retyped \cup late =>
                          e[1] \in PublishedAs(FALSE) /\ Copies(e[1], windows) = 1

(* A popup of which nothing is on its way is a published menu that has a   *)
(* picture, on a parent that is a window of the shell.  A menu that is     *)
(* closed while its creation waits for its parent is the exception: the    *)
(* closing finds no popup and is forgotten, the creation is not.           *)
MenusAgree ==
  connected /\ events = <<>> =>
    \A p \in DOMAIN popups \ {e.id : e \in ToSet(deferred.popup)} :
      /\ p \in PublishedAs(TRUE) \cup LeavingAs \cup late
      /\ popups[p].shown /\ Copies(popups[p].on, windows) > 0

(* The tables, the windows and the menus together.                         *)
XWindowsAgree == TypeOK /\ TablesAgree /\ WindowsAgree /\ MenusAgree
=============================================================================
