---------------------------- MODULE Interaction ----------------------------
(***************************************************************************)
(* One native window between its client, the pointer and the shell: moving *)
(* and resizing it by hand, its temporary modes, and the exchange of       *)
(* configures and commits that the two sides use to agree on a size.       *)
(*                                                                         *)
(* Nothing ties a commit to the configure it answers; the shell compares   *)
(* sizes.  A frame is Protocol (requests of the shell go out as            *)
(* configures), Lifecycle (what the client did), Layouts, Grab, Sync (the  *)
(* requests for the next frame) and Present (the buttons reach the seat).  *)
(* Clients and the pointer act while the event loop is polled.             *)
(*                                                                         *)
(* Positions and sizes are along one axis; the viewport does not move, the *)
(* window is alone on its output, and is tiled when not floating.          *)
(*                                                                         *)
(* An operator that precedes its correct form under another name is a slip *)
(* the properties must catch: the specification does not use it.           *)
(***************************************************************************)
EXTENDS Integers, Sequences, SequencesExt

CONSTANTS Habits,      \* kinds of client: "resizes", "modal", "redraws", "stubborn"
          Spots,       \* bound: where the pointer may be
          MaxMoves,    \* bound: motions of the pointer and clicks
          MaxRequests, \* bound: requests of the client
          None

ASSUME HabitsAssumption == Habits \subseteq {"resizes", "modal", "redraws", "stubborn"}
ASSUME SpotsAssumption == Spots \subseteq Nat
ASSUME BoundsAssumption == \A h \in Habits : MaxMoves[h] \in Nat /\ MaxRequests[h] \in Nat

VARIABLES
  habit,    \* what this client does, the same for ever
  stage,
  \* outside
  client,   \* its size, the state it was told, the configures it has yet to answer
  pointer,  \* GlobalPointerPosition
  button,   \* whether the button is down
  clicks,   \* button events of the next frame
  moves, requests,
  \* protocol server
  serial,   \* whether the last press was on the window: the client may quote its serial
  implicit, \* whether smithay's implicit grab of that press lasts
  events,   \* what the client did, for the shell
  asked,    \* PendingWindowServerRequests
  \* shell
  win,      \* the components of the window
  grab,     \* ActiveWindowGrab; late: its request quoted a press that was over; clean: it found
            \* no size on its way to the client or back
  synced    \* Local of window_presentation_sync_system

outside == <<client, pointer, button, clicks, moves, requests>>
server  == <<serial, implicit, events, asked>>
vars    == <<habit, stage, outside, server, win, grab, synced>>

Least == 1                          \* MIN_WINDOW_SIZE, MIN_FLOATING_WINDOW_SIZE
TileBox == [x |-> 0, w |-> 4]
MaxBox  == [x |-> 1, w |-> 3]       \* the work area less an inset
FullBox == [x |-> 0, w |-> 5]

Floating == [layout |-> "floating", mode |-> "normal"]
Tiled    == [layout |-> "tiled",    mode |-> "normal"]
Policies == {Floating, Tiled}

Quiet == stage = "poll" /\ clicks = <<>> /\ events = <<>> /\ asked = <<>> /\ client.inbox = <<>>

Init ==
  /\ habit \in Habits /\ stage = "poll"
  /\ client = [w |-> 2, full |-> FALSE, maximized |-> FALSE, resizing |-> FALSE, inbox |-> <<>>]
  /\ pointer = 2 /\ button = FALSE /\ clicks = <<>> /\ moves = 0 /\ requests = 0
  /\ serial = FALSE /\ implicit = FALSE /\ events = <<>> /\ asked = <<>>
  /\ win = [there |-> TRUE, layout |-> "floating", mode |-> "normal",
            box |-> [x |-> 2, w |-> 2],        \* WindowSceneGeometry
            geometry |-> [x |-> 2, w |-> 2],   \* SurfaceGeometry
            committed |-> 2,                   \* WindowCommittedSize
            at |-> None, size |-> None,        \* WindowPlacement
            pending |-> None,                  \* PendingInteractiveResize
            restore |-> <<>>,                  \* WindowRestoreSnapshot, the latest first
            applied |-> Floating, locked |-> FALSE]  \* WindowPolicyState
  /\ grab = None /\ synced = None

-----------------------------------------------------------------------------
(* The pointer and the client                                              *)

MovePointer(p) ==
  /\ stage = "poll" /\ moves < MaxMoves[habit] /\ p # pointer
  /\ pointer' = p /\ moves' = moves + 1
  /\ UNCHANGED <<habit, stage, client, button, clicks, requests, server, win, grab, synced>>

\* A press on the window or elsewhere, or a release
Click(on) ==
  /\ stage = "poll" /\ moves < MaxMoves[habit] /\ Len(clicks) < 2
  /\ button' = ~button /\ moves' = moves + 1
  /\ clicks' = Append(clicks, [down |-> ~button, on |-> ~button /\ on])
  /\ UNCHANGED <<habit, stage, client, pointer, requests, server, win, grab, synced>>

Asks(request) ==
  /\ stage = "poll" /\ win.there /\ requests < MaxRequests[habit] /\ requests' = requests + 1
  /\ events' = Append(events, request)
  /\ UNCHANGED <<habit, stage, client, pointer, button, clicks, moves, serial, implicit, asked,
                 win, grab, synced>>

\* validate_interactive_request: by the implicit grab, or by the press remembered as
\* synthetic_pointer_grab, which no release clears
AskGrab(edge) ==
  /\ serial
  /\ Asks([kind |-> "grab", edge |-> edge, late |-> ~implicit])

AskMode(mode) ==
  /\ habit = "modal" /\ Len(win.restore) < 3
  /\ Asks([kind |-> mode])

\* A title that other rules match
Retitle(policy) ==
  /\ habit = "modal"
  /\ Asks([kind |-> "retitle", policy |-> policy])

\* The client takes up a configure, forgets those before it, and commits what it makes of it.
Answer(i) ==
  LET told == client.inbox[i]
      size == IF told.w = None \/ (habit = "stubborn" /\ told.w < client.w) THEN client.w
              ELSE told.w
  IN  /\ stage = "poll" /\ win.there
      /\ client' = [w |-> size, full |-> told.full, maximized |-> told.maximized,
                    resizing |-> told.resizing,
                    inbox |-> SubSeq(client.inbox, i + 1, Len(client.inbox))]
      /\ events' = Append(events, [kind |-> "commit", w |-> size])
      /\ UNCHANGED <<habit, stage, pointer, button, clicks, moves, requests, serial, implicit,
                     asked, win, grab, synced>>

\* The client draws without having been asked to.
Redraw ==
  /\ habit = "redraws"
  /\ Asks([kind |-> "commit", w |-> client.w])

Destroy == habit = "modal" /\ Asks([kind |-> "destroy"])

-----------------------------------------------------------------------------
(* window_lifecycle_system: what the client did                            *)

\* restore_window_state
Restored(w) ==
  IF w.restore = <<>> THEN [w EXCEPT !.layout = w.applied.layout, !.mode = w.applied.mode]
  ELSE LET last == Head(w.restore)
       IN  [w EXCEPT !.layout = last.layout, !.mode = last.mode, !.box = last.box,
                     !.restore = Tail(@)]

\* enter_temporary_window_mode
Entered(w, mode) ==
  IF w.mode = mode THEN w
  ELSE [w EXCEPT !.mode = mode,
                 !.restore = <<[layout |-> w.layout, mode |-> w.mode, box |-> w.box]>> \o @]

\* refresh_window_policy: a window that still has the old default gets the new one, and so do the
\* states it will return to.
Refreshed(w, policy) ==
  IF w.locked THEN w
  ELSE LET Tracks(s) == s.layout = w.applied.layout /\ s.mode = w.applied.mode
           Moved(s)  == [s EXCEPT !.layout = IF Tracks(s) THEN policy.layout ELSE @,
                                  !.mode   = IF Tracks(s) THEN policy.mode ELSE @]
       IN  [Moved(w) EXCEPT !.applied = policy,
                            !.restore = [i \in DOMAIN @ |-> Moved(@[i])]]

\* BeginMove and BeginResize make the window float for good (lock_window_policy).
Freed(w) == [w EXCEPT !.layout = "floating", !.mode = "normal", !.applied = Floating,
                      !.locked = TRUE]

\* anchored_resize_commit_geometry and apply_committed_geometry
Anchored(w, target, size, edge) ==
  LET x == IF edge = "left" THEN target.x + target.w - size ELSE target.x
  IN  [w EXCEPT !.box = [x |-> x, w |-> size], !.at = x, !.size = size]

CommitAnswersKept(w, size) ==
  LET p == w.pending
  IN  CASE p = None -> [w EXCEPT !.box.w = size]
        [] p # None /\ p.inflight # None ->
             [Anchored(w, p.inflight, size, p.edge) EXCEPT !.pending = [p EXCEPT !.inflight = None]]
        [] OTHER -> Anchored(w, p.requested, size, p.edge)

\* apply_committed_window_state.  While the window is not itself, the size is the one to return to.
CommitAnswers(w, size) ==
  LET p == w.pending
  IN  CASE p = None ->
             [w EXCEPT !.box.w = size,
                       !.size = IF w.layout = "floating" /\ @ # None THEN size ELSE @]
        [] p # None /\ p.inflight # None ->
             [Anchored(w, p.inflight, size, p.edge) EXCEPT !.pending =
                IF p.requested = p.inflight THEN None ELSE [p EXCEPT !.inflight = None]]
        [] OTHER ->
             [Anchored(w, p.requested, size, p.edge) EXCEPT !.pending =
                IF p.requested.w = size THEN None ELSE p]

Committed(w, size) ==
  IF w.mode = "normal" THEN CommitAnswers([w EXCEPT !.committed = size], size)
  ELSE IF w.restore = <<>> THEN w ELSE [w EXCEPT !.restore[1].box.w = size]

\* apply_window_manager_request, apart from the grab it begins
Applied(w, e) ==
  CASE e.kind = "commit"     -> Committed(w, e.w)
    [] e.kind = "grab"       -> Freed(w)
    [] e.kind \in {"maximized", "fullscreen"} -> Entered(w, e.kind)
    [] e.kind = "restore"    -> Restored(w)
    [] e.kind = "hidden"     -> [w EXCEPT !.mode = "hidden"]
    [] e.kind = "retitle"    -> Refreshed(w, e.policy)
    [] e.kind = "destroy"    -> [w EXCEPT !.there = FALSE]

\* begin_window_grab; the window is where the earlier events have left it.
Begun(w, e) == [edge |-> e.edge, from |-> pointer, box |-> w.box,
                late |-> e.late,
                clean |-> /\ w.pending = None /\ asked = <<>> /\ client.inbox = <<>>
                          /\ \A i \in DOMAIN events : events[i].kind # "commit"]

Lifecycle ==
  /\ stage = "lifecycle" /\ stage' = "layouts"
  /\ LET after[i \in 0..Len(events)] ==
           IF i = 0 THEN [win |-> win, grab |-> grab]
           ELSE LET s == after[i - 1]
                    e == events[i]
                IN  IF ~s.win.there THEN s
                    ELSE [win  |-> Applied(s.win, e),
                          grab |-> IF e.kind = "grab" THEN Begun(s.win, e) ELSE s.grab]
     IN  win' = after[Len(events)].win /\ grab' = after[Len(events)].grab
  /\ events' = <<>>
  /\ UNCHANGED <<habit, outside, serial, implicit, asked, synced>>

-----------------------------------------------------------------------------
(* Layout                                                                  *)

\* floating_layout_system: the placement wins over what is there.
Floated(w) ==
  LET wide   == IF w.size # None /\ w.size > Least THEN w.size
                ELSE IF w.size # None THEN Least ELSE w.box.w
      placed == w.at # None \/ w.size # None
      box    == [x |-> IF w.at # None THEN w.at ELSE w.box.x,
                 w |-> IF placed \/ wide < TileBox.w THEN wide ELSE TileBox.w]
  IN  [w EXCEPT !.box = box, !.geometry = box]

\* tiling_layout_system places a tiled window in every mode, floating_layout_system a floating one
\* that is itself.
Placed(w) ==
  IF w.layout = "tiled" THEN [w EXCEPT !.box = TileBox, !.geometry = TileBox]
  ELSE IF w.mode = "normal" THEN Floated(w)
  ELSE w

\* fullscreen_layout_system comes after them.
LaidOut(w) ==
  CASE w.mode = "fullscreen" -> [Placed(w) EXCEPT !.geometry = FullBox]
    [] w.mode = "maximized"  -> [Placed(w) EXCEPT !.geometry = MaxBox]
    [] OTHER                 -> Placed(w)

Layouts ==
  /\ stage = "layouts" /\ stage' = "grab"
  /\ win' = IF win.there THEN LaidOut(win) ELSE win
  /\ UNCHANGED <<habit, outside, server, grab, synced>>

-----------------------------------------------------------------------------
(* window_grab_system                                                      *)

\* resize_geometry
Resized(box, edge, delta) ==
  IF edge = "right" THEN [box EXCEPT !.w = IF @ + delta < Least THEN Least ELSE @ + delta]
  ELSE IF box.w - delta < Least THEN [x |-> box.x + box.w - Least, w |-> Least]
       ELSE [x |-> box.x + delta, w |-> box.w - delta]

\* geometry_for_pointer: a move keeps the size the client has come to meanwhile.
Target ==
  IF grab.edge = "none" THEN [x |-> grab.box.x + pointer - grab.from, w |-> win.box.w]
                        ELSE Resized(grab.box, grab.edge, pointer - grab.from)

\* A resize waits for the client, a move does not.
Dragged(w) ==
  IF grab.edge # "none" /\ Target.w # w.box.w
    THEN [w EXCEPT !.pending =
            [requested |-> Target, edge |-> grab.edge,
             inflight |-> IF @ = None THEN None ELSE @.inflight]]
  ELSE IF Target # w.box
    THEN [w EXCEPT !.box = Target, !.geometry = Target, !.at = Target.x]
  ELSE w

Released == \E i \in DOMAIN clicks : ~clicks[i].down

GrabStep ==
  /\ stage = "grab" /\ stage' = "sync"
  /\ IF grab = None \/ ~win.there \/ win.layout # "floating"
       THEN grab' = None /\ UNCHANGED win
       ELSE /\ win' = Dragged(win)
            /\ grab' = IF Released THEN None ELSE grab
  /\ UNCHANGED <<habit, outside, server, synced>>

-----------------------------------------------------------------------------
(* window_presentation_sync_system                                         *)

\* desired_presentation_state, None when the client may choose
Sync(w, geometry, scene) ==
  [geometry |-> geometry, scene |-> scene,
   full |-> w.mode = "fullscreen", maximized |-> w.mode = "maximized",
   resizing |-> w.pending # None]

Desired(w) ==
  IF w.mode \in {"fullscreen", "maximized"} THEN Sync(w, w.geometry, w.box)
  ELSE IF w.pending # None
    THEN LET target == IF w.pending.inflight # None THEN w.pending.inflight
                                                     ELSE w.pending.requested
         IN  Sync(w, [x |-> w.geometry.x, w |-> target.w], target)
  ELSE IF w.size # None \/ (w.committed > 0 /\ w.committed # w.box.w)
    THEN Sync(w, w.geometry, w.box)
  ELSE None

\* sync_window_presentation and sync_xdg_toplevel_state: what the client is sent
Configure(state) ==
  IF state = None THEN [w |-> None, full |-> FALSE, maximized |-> FALSE, resizing |-> FALSE]
  ELSE [w |-> IF state.full \/ state.maximized THEN state.geometry.w ELSE state.scene.w,
        full |-> state.full, maximized |-> state.maximized, resizing |-> state.resizing]

SyncPresentation ==
  LET desired == Desired(win)
  IN  /\ stage = "sync" /\ stage' = "present"
      /\ synced' = IF win.there THEN desired ELSE None
      /\ IF ~win.there \/ desired = synced
           THEN UNCHANGED <<win, asked>>
           ELSE /\ asked' = Append(asked, Configure(desired))
                /\ win' = IF desired = None \/ win.pending = None THEN win
                          ELSE [win EXCEPT !.pending.inflight =
                                  IF @ = None THEN win.pending.requested ELSE @]
      /\ UNCHANGED <<habit, outside, serial, implicit, events, grab>>

\* dispatch_pointer_button, for each click in turn
Present ==
  /\ stage = "present" /\ stage' = "poll"
  /\ IF clicks = <<>> THEN UNCHANGED <<serial, implicit>>
     ELSE LET presses == SelectSeq(clicks, LAMBDA c : c.down)
          IN  /\ serial' = IF presses = <<>> THEN serial ELSE presses[Len(presses)].on
              /\ implicit' = (Last(clicks).down /\ Last(clicks).on)
  /\ clicks' = <<>>
  /\ UNCHANGED <<habit, client, pointer, button, moves, requests, events, asked, win, grab,
                 synced>>

\* dispatch_window_server_requests_system; a request for a window that is gone waits for ever.
Protocol ==
  /\ stage = "poll" /\ stage' = "lifecycle"
  /\ client' = IF win.there THEN [client EXCEPT !.inbox = @ \o asked] ELSE client
  /\ asked' = IF win.there THEN <<>> ELSE asked
  /\ UNCHANGED <<habit, pointer, button, clicks, moves, requests, serial, implicit, events, win,
                 grab, synced>>

Next ==
  \/ \E p \in Spots : MovePointer(p)
  \/ \E on \in BOOLEAN : Click(on)
  \/ \E edge \in {"none", "left", "right"} : AskGrab(edge)
  \/ \E mode \in {"maximized", "fullscreen", "restore", "hidden"} : AskMode(mode)
  \/ \E policy \in Policies : Retitle(policy)
  \/ \E i \in DOMAIN client.inbox : Answer(i)
  \/ Redraw \/ Destroy
  \/ Protocol \/ Lifecycle \/ Layouts \/ GrabStep \/ SyncPresentation \/ Present

Spec == Init /\ [][Next]_vars

-----------------------------------------------------------------------------
(* Properties                                                              *)

Box == [x : Int, w : Nat]
TypeOK ==
  /\ habit \in Habits
  /\ stage \in {"poll", "lifecycle", "layouts", "grab", "sync", "present"}
  /\ win.box \in Box /\ win.geometry \in Box
  /\ win.mode \in {"normal", "maximized", "fullscreen", "hidden"}
  /\ [layout |-> win.layout, mode |-> "normal"] \in Policies /\ win.applied \in Policies

\* A window follows the pointer only while the button is down, unless the client asked with the
\* serial of a press that was over (window_grab_system, synthetic_pointer_grab).
GrabNeedsButton ==
  stage = "poll" /\ clicks = <<>> /\ grab # None =>
    win.there /\ win.layout = "floating" /\ (button \/ grab.late)

\* Dragging the left edge leaves the right one where it is, if nothing was on its way when the drag
\* began: while sizes cross a commit may answer the wrong one and the edge jumps, but it is back
\* when everything is answered (anchored_resize_commit_geometry, geometry_for_pointer).
AnchorHeld ==
  /\ Quiet /\ habit \in {"resizes", "stubborn"}
  /\ grab # None /\ grab.edge = "left" /\ grab.clean
  => win.box.x + win.box.w = grab.box.x + grab.box.w

\* When nothing is on its way, the client believes what the shell believes: of its state, and of
\* its size unless it was in a temporary mode before, where its commits are not noted.
Agreement ==
  Quiet /\ win.there =>
    /\ client.full = (win.mode = "fullscreen")
    /\ client.maximized = (win.mode = "maximized")
    /\ habit \in {"resizes", "redraws"} => client.w = win.box.w

\* When nothing is on its way and nobody drags, no resize is pending and the client was told so.
\* A client that takes every size it is offered is never left resizing.
HandshakeOver ==
  Quiet /\ grab = None /\ win.there /\ habit = "resizes" =>
    win.pending = None /\ ~client.resizing

\* A window whose rules changed while it was maximized or fullscreen comes back as they now say
\* (refresh_window_policy and restore_window_state).
ReturnsToPolicy ==
  win.mode = "normal" /\ win.restore = <<>> /\ ~win.locked =>
    [layout |-> win.layout, mode |-> win.mode] = win.applied

\* With the types, the five together: grabs end and both sides agree at rest.
HandshakeSound ==
  /\ TypeOK /\ GrabNeedsButton /\ AnchorHeld
  /\ Agreement /\ HandshakeOver /\ ReturnsToPolicy
=============================================================================
