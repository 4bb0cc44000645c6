---------------------------- MODULE FrameBoundary ----------------------------
(***************************************************************************)
(* The frame loop of nekoland and the queues that cross the boundary       *)
(* between its two worlds.                                                 *)
(*                                                                         *)
(* The main world owns shell policy, the Wayland sub-app owns the protocol *)
(* server.  They share no memory: once per phase the run loop copies       *)
(* resources from one world to the other.  Going down, the shell puts      *)
(* requests in its own pending queues, the end of the layout schedule      *)
(* copies them into WaylandCommands, the next extract copies               *)
(* WaylandCommands into the sub-app, which fans them out and dispatches    *)
(* them to the server.  Going up, client callbacks are queued while the    *)
(* event loop is polled, flushed into WaylandIngress, and copied to the    *)
(* main world before the shell runs.                                       *)
(*                                                                         *)
(* One action per schedule run.  The copies themselves drain nothing, so   *)
(* "exactly once" rests on which world clears which queue in which phase;  *)
(* that is what this module is about.  What the shell does with an event   *)
(* is the subject of SurfaceLifecycle.                                     *)
(*                                                                         *)
(* An operator that precedes its correct form under another name           *)
(* (FanOutAfterClear before FanOut) is a slip the properties must catch:   *)
(* the specification does not use it.                                      *)
(***************************************************************************)
EXTENDS Naturals, Sequences, FiniteSets, SequencesExt

CONSTANTS Windows,          \* surface ids of toplevels; never reused by the server
          X11,              \* the toplevels that are X11 windows, under XWayland
          Popups,           \* wl_surfaces a client gives an xdg_popup role to
          Parent,           \* the toplevel a popup is opened on
          MaxRequests,      \* bound: window requests the shell issues
          MaxBatch,         \* bound: window requests issued by one layout run
          MaxDismissals,    \* bound: dismissals issued per popup
          MaxIncarnations,  \* bound: times a client opens a popup on one wl_surface
          MaxEvents         \* bound: events after which the loop meets its frame cap

ASSUME FiniteSurfaces == IsFiniteSet(Windows) /\ IsFiniteSet(Popups)
ASSUME X11Windows == X11 \subseteq Windows
ASSUME DistinctSurfaces == Windows \cap Popups = {}
ASSUME ParentType == Parent \in [Popups -> Windows]
ASSUME BoundsType ==
  /\ MaxRequests \in Nat /\ MaxBatch \in Nat
  /\ MaxDismissals \in Nat /\ MaxIncarnations \in Nat
  /\ MaxEvents \in Nat

VARIABLES
  phase,         \* the schedule the run loop executes next
  quit,          \* AppLifecycleState.quit_requested
  \* main world
  mWin,          \* PendingWindowServerRequests: a sequence of windows
  mPop,          \* PendingPopupServerRequests: dismissals
  cmds,          \* WaylandCommands
  mIngress,      \* the events of this frame's WaylandIngress
  \* Wayland sub-app
  sCmds,         \* its copy of WaylandCommands
  sWin,          \* its PendingWindowServerRequests
  sPop,          \* its PendingPopupServerRequests
  eventQueue,    \* protocol events recorded by client callbacks
  winState,      \* the server's view of each toplevel
  popups,        \* the server's live xdg_popups
  incarnation,   \* how often a popup was opened on each wl_surface
  \* history
  issued,        \* window requests pushed by the shell, in order
  dispatched,    \* window requests handed to the server, in order
  rejected,      \* windows for which the server refused a request
  broken,        \* X11 windows on which the X connection failed a request
  emitted,       \* events recorded by client callbacks, in order
  handled,       \* events processed by the shell, in order
  asked          \* how many dismissals of each popup were issued

main    == <<mWin, mPop, cmds, mIngress>>
queues  == <<sCmds, sWin, sPop, eventQueue>>
clients == <<winState, popups, incarnation>>
history == <<issued, dispatched, rejected, broken, emitted, handled, asked>>
vars    == <<phase, quit, main, queues, clients, history>>

Phases == {"poll", "mainExtract", "protocol", "layout", "present", "stopped"}
Surfaces == Windows \cup Popups

\* A dismissal is named by its popup and its rank among that popup's dismissals.
Dismissal == Popups \X (1..MaxDismissals)
Event == [kind : {"created", "closed"}, surface : Surfaces]

EmptyCommands == [win |-> <<>>, pop |-> {}]

Init ==
  /\ phase = "poll" /\ quit = FALSE
  /\ mWin = <<>> /\ mPop = {} /\ cmds = EmptyCommands /\ mIngress = <<>>
  /\ sCmds = EmptyCommands /\ sWin = <<>> /\ sPop = {} /\ eventQueue = <<>>
  /\ winState = [w \in Windows |-> "new"]
  /\ popups = {} /\ incarnation = [p \in Popups |-> 0]
  /\ issued = <<>> /\ dispatched = <<>> /\ rejected = {} /\ broken = {}
  /\ emitted = <<>> /\ handled = <<>>
  /\ asked = [p \in Popups |-> 0]

-----------------------------------------------------------------------------
(* Clients.  Their callbacks run while the sub-app polls the event loop;   *)
(* XWayland has an event loop of its own, polled at the start of the       *)
(* protocol schedule, so X11 toplevels also come and go there.             *)

PollingLate == phase \in {"poll", "protocol", "layout"}
Polling == phase \in {"poll", "protocol"}

Record(kind, surface) ==
  LET e == [kind |-> kind, surface |-> surface] IN
  /\ eventQueue' = Append(eventQueue, e)
  /\ emitted' = Append(emitted, e)

MapWindow(w) ==
  /\ Polling /\ winState[w] = "new"
  /\ winState' = [winState EXCEPT ![w] = "live"]
  /\ Record("created", w)
  /\ UNCHANGED <<phase, quit, main, sCmds, sWin, sPop, popups, incarnation,
                 issued, dispatched, rejected, broken, handled, asked>>

DestroyWindow(w) ==
  /\ Polling /\ winState[w] = "live"
  /\ winState' = [winState EXCEPT ![w] = "dead"]
  /\ Record("closed", w)
  /\ UNCHANGED <<phase, quit, main, sCmds, sWin, sPop, popups, incarnation,
                 issued, dispatched, rejected, broken, handled, asked>>

\* A wl_surface keeps its surface id for life, and a client may open a second
\* popup on it once the first is destroyed.
OpenPopup(p) ==
  /\ phase = "poll" /\ p \notin popups /\ winState[Parent[p]] = "live"
  /\ incarnation[p] < MaxIncarnations
  /\ popups' = popups \cup {p}
  /\ incarnation' = [incarnation EXCEPT ![p] = @ + 1]
  /\ Record("created", p)
  /\ UNCHANGED <<phase, quit, main, sCmds, sWin, sPop, winState,
                 issued, dispatched, rejected, broken, handled, asked>>

DestroyPopup(p) ==
  /\ phase = "poll" /\ p \in popups
  /\ popups' = popups \ {p}
  /\ Record("closed", p)
  /\ UNCHANGED <<phase, quit, main, sCmds, sWin, sPop, winState, incarnation,
                 issued, dispatched, rejected, broken, handled, asked>>

-----------------------------------------------------------------------------
(* The run loop, one action per schedule run.                              *)

\* The fan-out into the sub-app's own queues, which it replaces.
FanOutAfterClear(c) == <<>>
FanOut(c) == c.win

\* The sync back clears only the one-shot queues of the main copy.
ClearOneShot(c) == [c EXCEPT !.win = <<>>]

\* run_wayland_extract_phase, first step: extract WaylandCommands, run the
\* sub-app's extract schedule, sync back.
WaylandExtract ==
  /\ phase = "poll"
  /\ phase' = "mainExtract"
  /\ sCmds' = cmds
  /\ sWin' = FanOut(cmds)
  /\ sPop' = cmds.pop
  /\ cmds' = ClearOneShot(cmds)
  /\ UNCHANGED <<quit, mWin, mPop, mIngress, eventQueue, clients, history>>

\* The dismissals pushed when each popup of a set is to be dismissed once more.
DismissAgain(ps) ==
  /\ \A p \in ps : asked[p] < MaxDismissals
  /\ mPop' = mPop \cup {<<p, asked[p] + 1>> : p \in ps}
  /\ asked' = [p \in Popups |-> IF p \in ps THEN asked[p] + 1 ELSE asked[p]]

\* The main world's extract schedule accepts IPC connections: "popup dismiss"
\* takes any surface id and is pushed unchecked.
IpcDismiss(p) ==
  /\ phase = "mainExtract"
  /\ DismissAgain({p})
  /\ UNCHANGED <<phase, quit, mWin, cmds, mIngress, queues, clients,
                 issued, dispatched, rejected, broken, emitted, handled>>

\* Quit comes over IPC here or from the quit shortcut in the layout schedule.
Quit ==
  /\ phase \in {"mainExtract", "layout"} /\ ~quit
  /\ quit' = TRUE
  /\ UNCHANGED <<phase, main, queues, clients, history>>

MainExtract ==
  /\ phase = "mainExtract"
  /\ phase' = "protocol"
  /\ UNCHANGED <<quit, main, queues, clients, history>>

Closing(surface) == [kind |-> "closed", surface |-> surface]
Live(w) == winState[w] = "live"

\* The server takes a request for a window in its table.  For an X11 window it has to
\* write to the X connection as well, where closing, setting a state or configuring
\* may fail, and then it refuses (failing: the windows this happens to).
Accepted(w, failing) == Live(w) /\ w \notin failing

\* The dispatch keeps what the server refuses in the sub-app's own queue.
Refused(queue, failing) == SelectSeq(queue, LAMBDA w : ~Accepted(w, failing))

\* The server finds the popup as long as its client has not destroyed it.
Dismissible == {d \in sPop : d[1] \in popups}

\* WaylandIngress is rebuilt by every sync, from queues the sync takes.
IngressAppended(events) == mIngress \o events
Ingress(events) == events

DrainEvents(queue) == <<>>

\* The sub-app's protocol schedule: dispatch the queued requests, then flush the
\* recorded events into WaylandIngress, which the sync back copies to the main
\* world.  A dismissed popup stays in the server's table until its client
\* destroys it, and each dismissal records a destroyed event of its own.  The
\* flush sorts events into a queue per kind, kept as one sequence here.
WaylandProtocol ==
  /\ phase = "protocol"
  /\ phase' = "layout"
  /\ sCmds' = cmds
  /\ dispatched' = dispatched \o sWin
  /\ \E failing \in SUBSET {w \in X11 \cap ToSet(sWin) : Live(w)} :
       /\ rejected' = rejected \cup {w \in ToSet(sWin) : ~Accepted(w, failing)}
       /\ broken' = broken \cup failing
       /\ sWin' = Refused(sWin, failing)
  /\ sPop' = sPop \ Dismissible
  /\ \E order \in SetToSeqs(Dismissible) :
       LET destroyed == [i \in DOMAIN order |-> Closing(order[i][1])]
       IN /\ mIngress' = Ingress(eventQueue \o destroyed)
          /\ emitted' = emitted \o destroyed
  /\ eventQueue' = DrainEvents(eventQueue)
  /\ UNCHANGED <<quit, mWin, mPop, cmds, clients, issued, handled, asked>>

Closed(w) == Closing(w) \in ToSet(mIngress)
Known(w) == [kind |-> "created", surface |-> w] \in ToSet(handled \o mIngress)

\* What stays in PendingWindowServerRequests once the boundary has a copy.
ClearPending(win) == <<>>

\* The main world's input and layout schedules.  The shell handles this frame's
\* events; closing a window dismisses the popups it still has under it; other
\* systems push requests for windows.  The last system of the chain copies the
\* pending queues into WaylandCommands and clears the window queue only.
Layout ==
  /\ phase = "layout"
  /\ phase' = "present"
  /\ handled' = handled \o mIngress
  /\ \E orphans \in SUBSET {p \in Popups : incarnation[p] > 0 /\ Closed(Parent[p])} :
       DismissAgain(orphans)
  /\ \E batch \in SeqOf({w \in Windows : Known(w)}, MaxBatch) :
       /\ Len(issued) + Len(batch) <= MaxRequests
       /\ issued' = issued \o batch
       /\ cmds' = [win |-> mWin \o batch, pop |-> mPop']
       /\ mWin' = ClearPending(mWin \o batch)
  /\ UNCHANGED <<quit, mIngress, queues, clients, dispatched, rejected, broken, emitted>>

\* The render phase and the sub-app's present schedule: popups that are no longer
\* visible are dismissed behind the queue, and the cleanup drops the sub-app's copy
\* of WaylandCommands.  Then the run loop looks at the quit flag (or meets its
\* frame cap).
Present ==
  /\ phase = "present"
  /\ phase' \in IF quit \/ Len(emitted) > MaxEvents THEN {"stopped"} ELSE {"poll", "stopped"}
  /\ \E hidden \in SUBSET popups :
       \E order \in SetToSeqs(hidden) :
         LET destroyed == [i \in DOMAIN order |-> Closing(order[i])]
         IN /\ eventQueue' = eventQueue \o destroyed
            /\ emitted' = emitted \o destroyed
  /\ sCmds' = EmptyCommands
  /\ UNCHANGED <<quit, main, sWin, sPop, clients,
                 issued, dispatched, rejected, broken, handled, asked>>

RunLoop == WaylandExtract \/ MainExtract \/ WaylandProtocol \/ Layout \/ Present

Clients ==
  \/ \E w \in Windows : MapWindow(w) \/ DestroyWindow(w)
  \/ \E p \in Popups : OpenPopup(p) \/ DestroyPopup(p)

Next == RunLoop \/ Clients \/ Quit \/ \E p \in Popups : IpcDismiss(p)

\* The run loop never blocks for good: polling the event loop times out
\* (frame_timeout), and every other schedule runs to completion.
Spec == Init /\ [][Next]_vars /\ WF_vars(RunLoop)

-----------------------------------------------------------------------------
TypeOK ==
  /\ phase \in Phases /\ quit \in BOOLEAN
  /\ mWin \in Seq(Windows) /\ mPop \subseteq Dismissal
  /\ cmds \in [win : Seq(Windows), pop : SUBSET Dismissal]
  /\ mIngress \in Seq(Event)
  /\ sPop \subseteq Dismissal
  /\ eventQueue \in Seq(Event)
  /\ winState \in [Windows -> {"new", "live", "dead"}]
  /\ popups \subseteq Popups /\ incarnation \in [Popups -> 0..MaxIncarnations]
  /\ issued \in Seq(Windows) /\ dispatched \in Seq(Windows) /\ rejected \subseteq Windows
  /\ broken \subseteq X11
  /\ emitted \in Seq(Event) /\ handled \in Seq(Event)
  /\ asked \in [Popups -> 0..MaxDismissals]

\* Requests on their way from the shell to the server, oldest first.
InFlight == IF phase \in {"mainExtract", "protocol"} THEN sWin \o mWin ELSE cmds.win \o mWin

\* Each window request the shell pushes is handed to the server once, and in the
\* order it was pushed: what was dispatched and what is in flight are what was
\* issued.  Neither the copies nor the retry queue of
\* dispatch_window_server_requests_system repeat or drop one.
RequestsConserved == issued = dispatched \o InFlight

\* Events on their way from the clients to the shell, oldest first.
Pending == IF phase = "layout" THEN mIngress \o eventQueue ELSE eventQueue

\* Each event a client callback records is processed by the shell once, in order,
\* although WaylandIngress is overwritten by every protocol sync and is still
\* readable in the main world for the rest of the frame.
EventsConserved == emitted = handled \o Pending

\* The server refuses a request only for a window that its client has destroyed, or
\* for an X11 window on which the X connection failed: by the time the shell knows a
\* window, the server does, and a Wayland window that is alive is never refused.
OnlyDeadRefused == \A w \in rejected : winState[w] = "dead" \/ w \in broken

\* What the shell asks in one frame reaches the server before the shell runs
\* again, and what a client did before the shell runs is known when it ran.
OneFrameLatency ==
  /\ phase = "layout" => dispatched = issued
  /\ phase = "present" => handled = emitted

\* Well-typed, nothing is late, and nothing alive is refused but by its X connection.
BoundarySound == TypeOK /\ OneFrameLatency /\ OnlyDeadRefused

\* Unless the compositor stops, a window request eventually reaches the server
\* and an event of a client eventually reaches the shell.
EventuallyDispatched ==
  \A n \in 1..MaxRequests : Len(issued) >= n ~> Len(dispatched) >= n \/ phase = "stopped"
EventuallyHandled ==
  \A n \in 1..MaxEvents : Len(emitted) >= n ~> Len(handled) >= n \/ phase = "stopped"

EverythingArrives == EventuallyDispatched /\ EventuallyHandled

\* The two directions of the boundary, each seen as a mailbox.
Requests == INSTANCE Mailbox WITH Message <- Windows, posted <- issued, received <- dispatched
Events == INSTANCE Mailbox WITH Message <- Event, posted <- emitted, received <- handled

\* The boundary implements a mailbox for window requests: what the shell pushes
\* (PendingWindowServerRequests) is what the server is handed, once and in order.
RequestMailbox == Requests!Spec

\* The boundary implements a mailbox for client events: what callbacks record
\* (ProtocolRuntimeState.event_queue) is what the shell handles, once and in order.
EventMailbox == Events!Spec

\* Both directions of the boundary are mailboxes.
Mailboxes == RequestMailbox /\ EventMailbox
=============================================================================
