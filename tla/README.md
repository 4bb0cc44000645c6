# nekoland in TLA+

[nekoland](../src/README.md) is a Wayland compositor written in Rust on the bevy ECS: one process,
three ECS worlds (main, Wayland, render) that are run in turn by one loop and exchange copies of
resources. There is next to no thread-level concurrency. What is hard in it is *order*: clients, the
XWayland server, IPC peers, the seat session and the configuration file act between two frames;
their events are queued, retried, merged, and decided on snapshots that are one or two frames old;
and within a frame a system's spawns and despawns are commands that take effect after the system has
returned. The models here are about that order.

## 1. Inventory

| Component | State it keeps | Operations and interactions | What is hard | What makes it correct |
|---|---|---|---|---|
| Frame loop, sub-app boundary (`nekoland-core`, `nekoland-protocol/src/subapp.rs`, `nekoland-shell/src/plugin.rs`) | `WaylandCommands`, `WaylandIngress`, `WaylandFeedback` in two worlds, quit flag | run schedules in a fixed order; clone resources before and after each sub-app schedule | copies drain nothing; who clears what, and when | every request and event crosses once, in order, within a frame |
| Windows and popups (`nekoland-shell/src/window_lifecycle.rs`, `xdg/popup.rs`, `nekoland-ecs` index) | entities, `EntityIndex`, retry queues, focus | upsert, commit, manager request, close; popup create, reposition, commit, close | a batch is decided on the world before it; retries come before new events | one entity per surface while its client keeps it; index, focus and hierarchy never dangle |
| Outputs (`nekoland-backend/src/common`, backends) | output entities, remembered viewports, two request queues, configuration applied | announce, enable, disable, configure, move viewport, reload, session pause | plans are carried out a frame later; requests copied every frame | one entity per output; what is asked is eventually done; viewport survives |
| Tiling (`nekoland-shell/src/layout/tiling.rs`, `nekoland-ecs` `workspace_tiling.rs`) | columns of windows per workspace, focused column, viewport | insert, remove, move, consume, expel, focus | columns appear and vanish under the focus | every tiled window is in one place, no column is empty |
| Workspaces (`nekoland-shell/src/workspace.rs`) | workspaces, active one per output, routing of windows | create, switch, destroy, move, reconnect | destroying the active one; restoring after a reconnect | every output shows one workspace |
| Window control, policy, stacking (`window_control.rs`, `window_policy.rs`, `layout/stacking.rs`) | pending controls, modes, stacking order | focus, close, move, resize, maximize, minimize | controls for windows that do not exist yet | stacking is a permutation of the windows |
| Focus, shortcuts, switcher (`focus.rs`, `commands.rs`, `window_switcher.rs`, `nekoland-input`) | focused surface, pressed keys, switcher session | focus follows, key chords, cycling | a switcher's candidates die while it is open | keys go to a live surface or to the compositor, never both |
| Seat (`nekoland-protocol/src/plugin/seat.rs`) | consumed keys, focus of the protocol seat | dispatch of input events | a key pressed for the compositor, released to a client | press and release have one addressee |
| Selections, drag and drop (`plugin/selection.rs`) | captured data, persisted selection | capture, persist, restore | the owner leaves during a capture | the last selection survives its owner |
| Protocol server (`nekoland-protocol`) | smithay objects, tables of toplevels and popups, event queue | callbacks, dispatch of requests | tables run ahead of the shell | see the boundary |
| XWayland (`plugin/xwayland.rs`) | X11 window tables | publish, unpublish | map, unmap, destroy in one poll | one surface id per published window |
| Layer shell (`layer_shell.rs`, `nekoland-shell/src/layer`) | layer entities, work area | create, commit, destroy, arrange | output goes under a layer | exclusive zones inside the output |
| IPC (`nekoland-ipc`) | connections, partial reads and writes, subscriptions | accept, read, execute, reply, notify | partial writes, slow peers | replies in order, one per request |
| Configuration (`nekoland-config`) | config, watch source, last error | reload on change or on request | a failed reload keeps the previous configuration | never half a configuration |
| DRM (`nekoland-backend/src/drm`) | session, device, surfaces, page flips | pause, resume, present | a flip outstanding at a pause | one flip in flight |
| Winit, virtual (`nekoland-backend`) | seeded output | announce, resize | see outputs | see outputs |
| Damage, callbacks, presentation (`nekoland-render`) | damage per output, pacing sets | accumulate, send | hidden surfaces get no callbacks | damage is drawn once |
| Render graph, GLES (`nekoland-render`) | passes, pipelines, textures | compile, execute | geometry and GPU data | out of the models' reach |
| Presentation of surfaces (`surface_presentation.rs`, `viewport.rs`) | snapshots per frame | recompute | stateless | - |
| Toplevel configure (`xdg/`) | pending configures | configure, ack | acks out of order | one size in force |

`PROJECT.json` lists the same components with their source files and what is modelled of each, and
the hazards, each at its line, with the properties that watch it.

## 2. Modules

| Module | What it is |
|---|---|
| `Mailbox` | abstract: what is posted is received once and in order |
| `FrameBoundary` | the run loop, one action per schedule, and the queues it copies between the worlds; implements `Mailbox` in both directions |
| `SurfaceLifecycle` | `window_lifecycle_system` and `popup_management_system`, one action per event and per ECS command |
| `OutputLifecycle` | backends, output requests, plans and controls, one action per request, record, command and control |
| `DrmDisplay` | the DRM session, what is opened on it, and the picture on each connector |
| `Workspaces` | the six workspace systems of a frame, one action per system or per iteration of their loops |
| `ColumnLayout` | pure: the column layout of a workspace, one operator per method of `WorkspaceColumnLayout` |
| `Desktop` | what the user sees and types into: tiling, stacking, focus, hovering, the window switcher and the viewport, one action per system or control; uses `ColumnLayout` |
| `Seat` | keys from the device to the shortcuts they fire and to the client that is told of them |
| `Pointer` | motions from the hand over the backend's pointer to the compositor's, and panning |
| `NestedWindow` | the winit backend: a window of a host that has a will of its own |
| `Interaction` | moves and resizes by hand, maximized and fullscreen windows, the size handshake |
| `Backgrounds` | windows put behind an output by rule, title or control, and brought back |
| `LayerShell` | panels and docks: commits, rectangles, the work area, who gets the pointer |
| `ControlPlane` | the IPC socket with its subscriptions, the configuration and its reloads, launched commands |
| `XWindows` | the two tables of X11 windows and what is published of them |
| `Selections` | clipboard and primary selection that outlive their client |
| `ClientMirrors` | window list, keymap, output and formats as clients see them |
| `RenderGraph`, `Scene` | pure: the passes of one output's graph and what they paint; what an output shows, in which order, and who is under the pointer |
| `Rendering` | plan, damage, execution, screenshots and callbacks, frame after frame; uses `Scene` and `RenderGraph` |
| `TextAtlas` | texts laid out, cached, and packed into atlas pages |
| `Overlays` | rectangles, HUD and menus drawn over the windows |
| `Displays` | `OutputLifecycle` with an instance of `DrmDisplay` beside it |
| `Input` | `Seat` with instances of `Pointer` and `NestedWindow` beside it |
| `Services` | `ControlPlane` with instances of `XWindows`, `Selections` and `ClientMirrors` beside it |
| `<Module>Proofs` | the theorems of `FrameBoundary`, `SurfaceLifecycle`, `OutputLifecycle` (with `Displays`), `Workspaces`, `Desktop` (with `ColumnLayout`), `Seat` (with `Input`), `Services`, `TextAtlas` |
| `MC*` | small instances, one configuration per run |

Conventions. State variables stand for the resource or local named in the comment beside them.
`stage` (or `phase`, `turn`) says which system runs next: everything in a frame is sequential. A
definition that stands before another with a similar name (`KeepOneShot` before `ClearOneShot`) is a
plausible slip of the code; no specification uses it, and a property is worth its run only if
putting the slip in its place makes TLC find a violation. Bounds on events, requests and commands
are constants named `Max...` and appear in guards of the environment only.

An MC module that holds several modules (`MCOutputLifecycle`, `MCInput`, `MCWindows`, `MCServices`,
`MCPicture`) has a variable `part`, fixed in the initial state: a behaviour is one of one of the
modules while the others rest in their initial states. The modules share no state; nothing is
claimed about their composition. A property of such a run that is named `XTrue` or `XSound` is the
conjunction of that module's invariants. Where there are theorems about several of the modules, the
instances stand in a module without bounds (`Displays`, `Input`, `Services`), which holds the
assumptions on their constants and is extended by the run and by the proofs alike.

| Run | Modules | Question |
|---|---|---|
| `boundary` | `FrameBoundary`, `Mailbox` | does everything cross the boundary once, in order, and in time |
| `lifecycle` | `SurfaceLifecycle` | does the shell show what its clients have open |
| `lifecycle_twice` | `SurfaceLifecycle` | finding: one client, two windows |
| `outputs` | `OutputLifecycle`, `DrmDisplay` | are outputs there once, do they come back as they were, do they show a picture |
| `arrivals` | `OutputLifecycle` | does what is asked of an output happen |
| `workspaces` | `Workspaces` | does every output show one workspace, and keep it |
| `workspaces_asleep` | `Workspaces` | finding: windows asleep on a workspace that is shown |
| `desktop` | `Desktop`, `ColumnLayout` | is everything placed once, and the keyboard where it can be |
| `input` | `Seat`, `Pointer`, `NestedWindow` | who is told of keys, where does the pointer go, do the two sizes agree |
| `windows` | `Interaction`, `Backgrounds`, `LayerShell` | do grabs and handshakes end, do backgrounds follow the rules, are panels clear |
| `services` | `ControlPlane`, `XWindows`, `Selections`, `ClientMirrors` | does what others see agree with what there is |
| `picture` | `TextAtlas`, `Rendering`, `Overlays` | is what is on the screen what was asked for |

### FrameBoundary

One frame is `WaylandExtract` (copy `WaylandCommands` down, run the sub-app's extract schedule, sync
back), `MainExtract`, `WaylandProtocol` (dispatch requests, flush events into `WaylandIngress`),
`Layout` (the shell reads the events, pushes requests, copies them into `WaylandCommands`) and
`Present`. Clients act while the event loop is polled. `issued`/`dispatched` and `emitted`/`handled`
are history variables; the two `Mailbox` refinements (`Mailboxes`) map them to `posted`/`received`.

`boundary`: both directions are mailboxes, a request or event takes one frame, a request is refused
only for a window whose client is gone or an X11 window on which the X connection failed
(`BoundarySound`), and both are eventually delivered
(`EverythingArrives`) under weak fairness of the run loop: polling the event loop has a timeout, and
every schedule runs to completion; clients owe nothing.
For X11 windows the server writes to the X connection, and `close`, `set_fullscreen`,
`set_maximized` and `configure` may fail (`server.rs:1112-1123`, `1211-1246`): which do is external,
per window and dispatch (`Accepted`). In the model: what the dispatch keeps after a refusal is
replaced by the next fan-out before it is tried again, so a request that failed on the X connection
is lost, although the window lives.
Bounds: two windows, one of them X11, one popup, two requests in batches of up to two show
reordering and retry next to a refusal, with three client events around them and one dismissal. The loop may quit, so deadlock
is not an error.
One queue is *not* a mailbox: `PendingPopupServerRequests` is cloned into the boundary and cleared
by nobody in the main world (`plugin.rs:162-164`), so a dismissal reaches the server again in each
later frame, and may meet a second popup of the same surface. The model does the same; the
refinements speak of the window requests and the events.

### SurfaceLifecycle

Each of the two systems takes its retry queue, appends the frame's events, and works through them
against the world as it was before; what it spawns and despawns is applied command by command
afterwards (`ApplySpawn`, `ApplyDespawn`, with the hooks of `WlSurfaceHandle` and `ChildOf`).
Clients may send anything the protocol server records, in any batches; `Paced` names those that let
a frame pass between requests.

`lifecycle`: index and focus never dangle, no committed window is lost, a popup hangs below its
parent (`ShellTrue`); none comes back after its close (`NoResurrection`); the last commit wins over
retried ones, a popup is in the world exactly while its client has it, and paced clients have
exactly one entity per surface (`ClientsAgree`); no event waits for ever (`Settles`), under fairness
of the shell's systems, which the loop runs in every frame.
`lifecycle_twice` shows what eager clients can do: two entities for one window.
Bounds: in a behaviour there is either an eager window and an X11 window with up to 4 requests, or a
paced window with a popup and a popup on that with up to 7: enough for a surface to be opened,
committed, closed and opened again around the commands of one batch.
Also in the model and excluded by the properties' premises: a window created and closed between two
layout runs stays in the world; a popup created in the batch its parent popup goes in is spawned
outside the hierarchy; a popup whose creation waits for its parent loses its close; commits of a
dismissed popup are deferred for ever (`popup.rs:162`); only direct child popups are dismissed.

### OutputLifecycle and DrmDisplay

`Extract` takes the snapshot, copies the main world's requests down and lets the backends announce;
`SyncConfigured` translates a new configuration; `EnableOutput`, `DisableOutput`, `ConfigureOutput`
work through the requests and make the plan; `MaterializeConnected`, `MaterializeDisconnected`,
`UpdateProperties`, `ApplyCommand` carry out the plan of the previous frame in the main world;
`ApplyControl` turns commands of users into requests and viewport moves; `FinishFrame` advances
animations, remembers viewports, hands over the plan and copies the requests, which nothing drains.
`DrmDisplay` is the backend below: device, allocator, renderer and a surface per connector are
opened one upon the other, each may fail and is tried again in the next frame; a paused session
loses these. `GlesExecutionState` it does not lose (`session.rs:144-150`): the targets of outputs
that keep their id and size, and the shader programs, are given to the next renderer as they are
(`surface.rs:49`, `gles_executor.rs:926-958`). `execution` says which renderer made each, `survivors`
which were there at a pause. Whether a renderer can draw with what another made, and what becomes of
two surfaces that `pick_crtc` gave one CRTC, is up to the driver: such outputs may or may not be
drawn, in every frame. `filled` is what the render world compiled for an output: nothing to show is
nothing drawn (`surface.rs:151`, `243`).

`outputs`: one entity per connector, whatever plan was made on an old snapshot (`OutputsSound`); an
output goes only if it was turned off by name and comes back with the viewport it had
(`OutputsStay`); device, allocator, renderer and surfaces are of the current opening, and of what
earlier renderers made only that is left which outlived a pause (`OneOpening`); a session that stays
active shows a picture on every enabled output that has something to show, shares its CRTC with none
and uses nothing of an earlier renderer, and the virtual backend is never dark for good (`Shows`).
What outlives a pause is used, so a resumed session is promised a picture only on outputs that are
new, were disabled or changed their size, and only while no shader program was kept. Bounds: two connectors (so that one can be turned off by mistake for the other), two
commands (a move and a disable, or two that merge), a pause and a resume; for the device two
connectors that can use the same two CRTCs, three switches from either state of the session (a
second opening, and a pause after it), one failure, and two changes: of an output, of what it has to
show, or of a connector between openings.
`arrivals`, with one connector: a configuration read while its outputs are there comes into force;
connectors, moves and modes arrive (`RequestsArrive`). Bounds: two modes, two commands, one reload.
Fairness: the run loop runs every schedule, and an animation ends because the clock advances
(`SF(FinishFrame(Animated))`); the backend's two systems run in every frame.
In the model: enables and disables are replayed in every frame (the queue is copied, never drained),
so an output that was disabled and enabled flaps for ever; the mode configured for an output that
appears after the first frame is lost; all virtual outputs have one identity
(`virtual_output.rs:122`); requests put back are overwritten by the next copy (`outputs.rs:831`);
turning the last output off returns before its surface is dropped (`drm/surface.rs:87`); two
connectors may be given one CRTC; nothing is scanned again after opening. The keys of surface imports
outlive a pause too (`gles_executor.rs:117`), so that a surface is imported by the next renderer only
once it commits again: a matter of what is in the picture, not of there being one, and left out, like
presentation feedback, which is reported for every output whether or not it was drawn.
Abstracted: a mode and its scale travel together, slots of despawned entities are reused, `by_id` of
the remembered viewports (never consulted, because `by_name` is never removed), placement, overlays.
A viewport on its way is where it started until it arrives. The virtual backend is installed after
the DRM backend.

### Workspaces

A frame is `StartFrame` (`workspace_switch_system`, and what `workspace_command_system` reads before
it begins), one action per control, `KeepRoute`/`NeedRoute` and `Assign...` for the two loops of
`output_workspace_housekeeping_system`, `Remember`, `Mark` and `Sleep`. Controls, windows and
outputs are looked up as the code does: `batch` holds what was read before the batch and the
snapshot the code keeps up to date as it goes; `live`, `route` and `home` are the world once the
commands are applied. Which entity a query yields first is not fixed by anything, so every `find`
that may find several is a choice, and the loop over outputs may take them in any order. Between
frames, outputs come and go (`OutputLifecycle` says how), the focused and the primary output change
as the pointer and the protocol server have it, and windows open and close; `before`, `switched` and
`doomed` are history variables.

`workspaces`: after housekeeping every output shows a workspace no other output shows and ids are
unique (`SpacesSound`); an output keeps what it showed, across being unplugged too, unless it was
switched, the workspace was destroyed or another output has it, a switch shows its target whatever
else was staged, and exactly one workspace is active, the focused output's (`RoutesTrue`); a
destroyed workspace takes no window with it (`LostOnlyOnTheMove`), with one exception that is in the
model and named in the property: destroying two workspaces in one frame loses the windows the first
one handed to the second.
`workspaces_asleep` is a finding: windows of a hidden workspace that is destroyed stay `Disabled`
below the shown workspace they move to.
Bounds: two outputs, one window, batches of two controls on the workspaces 2, active and a word,
staged only while there are at most two workspaces and ids below 3, which leaves room for three more
in the frame; two outputs are enough for one to take the workspace of the other. Left out:
`workspace_reconciliation_needed` (a frame it skips would change nothing) and the saturation of ids
at the largest `u32` (`workspace.rs:473`).

### ColumnLayout and Desktop

`ColumnLayout` translates every method of `WorkspaceColumnLayout`; a method that returns an `Option`
is a set of at most one element. `Desktop` runs the systems of a frame in the order of `plugin.rs`:
windows open, close and are minimised (`lifecycle`), the switcher reads its keys, window controls
and tiling controls are carried out on what the *last* frame left, the layouts reconcile, a click,
the stack, focus management, auto-align, and at the start of the next frame the controls of the
output and its animations. Focus, stack, hovered window, switcher session, the two pending controls
of the output (one by id, one by name) and the viewport outlive the windows they name: that is what
the properties are about.

`desktop`: whatever controls ran on stale columns, every tile is in one place of its own workspace
after the layout and no column is ever empty (`TilesPlaced`), and every window is once in the stack
of its workspace (`StackComplete`), both with `FloatPlaced` in `WindowsPlaced`; while a window is on
screen the keyboard is with a window on screen or an awake tile outside it (`FocusHeld`), and a
focus that lands on a tile outside the viewport makes the viewport go there whatever else was asked
of it in that frame (`FocusRevealed`).
In the model: with `focus_follows_mouse`, releasing the switcher gives the keyboard back to the tile
under the pointer that did not move (`focus.rs:113-114`, `184`, although `window_switcher.rs:881`
expects the released window to keep it); auto-align looks only when the focus changes, so closing a
column can leave the focused tile off screen; a preview of a window that went to sleep fires after
the session; a session begun during an animation goes back to where the animation was
(`window_switcher.rs:198`).
Bounds: two windows, two workspaces, a screen one pixel wide and two high (so that a column of two
has two rows and two columns never fit). A frame has at most one event of each kind. `Habits` are
the sets of things one user does for ever besides tiling: cycling, or floating, minimising and
panning. One spot, beside the first column, is enough for a floating window to be partly and wholly
off screen.
Abstracted: the work area is the output; floating windows have its size; an animation is where it
started or where it ends; keys of the switcher count only while its modifiers are held, as the
default bindings have it; one output; saturating casts. A control for a window that is gone is
dropped, where the code keeps it queued for ever without effect (`window_control.rs:69`).

### Seat, Pointer, NestedWindow (run `input`)

`Seat`. A frame is `Extract`, `Main` and `Present`. The main world tracks keys and matches shortcuts
once per frame; the protocol world tracks them a second time, event by event, to withhold those that
belong to a shortcut, and dispatches the rest to the client with the focus. `KeysTrue`: the two
agree when a frame is over (`TrackersAgree`), clients hear of keys only with the focus
(`FocusFollows`), are told of no release whose press a shortcut took (`NoOrphanRelease`), have no
key stuck down (`NoKeyStuck`, with the exception that a key of a hold or release shortcut may stay
down at the client that was told of its press before the shortcut was complete), and nothing is held
once all keys are up (`HoldsEnd`). `OneAddressee`: an event that is alone in its frame fires a
shortcut or is told to a client, never both, unless the session was paused or the bindings were
reloaded in that frame. Bounds: three keys, two of them modifiers, a press shortcut and two held
ones, two bindings that a reload exchanges, both kinds of host, two events per poll, four strokes: a
chord pressed and released in any order around a reload, a change of focus and a paused session. In
the model: two modifier keys of one kind share one boolean (`keyboard_state.rs:409-417`); after
Super+Alt is held, Super can stay down at the client.

`Pointer`. Devices, the backend's clamped position, panning and the compositor's clamped pointer,
along one axis in halves of a pixel. `PanIsExact`, `NeverJumps` (the pointer goes no further than
hands did) and `StaysOnOutput`. Bounds: two outputs of width 8 and 6, strides of -3 and 5, three
motions, one change of the outputs. In the model: the device's bound is the largest output, without any
that of the configuration (which stays the same here: 9), and its position stays clamped while panning, so a hand's motion at the bound moves nothing
(`drm/input.rs:182`); a smaller bound makes the pointer jump; no output is focused until the pointer
moves.

`NestedWindow`. The host resizes, focuses, makes fullscreen, redraws and closes the window at any
time, the configuration and the shell ask for sizes. `SizesAgree` once reports and requests have
arrived; relative motions come after the position they are relative to (`DeltasAreSeeded`); the
host's shortcuts are given back (`ShortcutsReturned`); the window never stops being drawn
(`KeepsDrawing`); presentation times go forward (`TimelineForward`). Seven scenes of hosts with
different manners bound it. In the model: two resizes that cross can answer one another for ever
(`backend.rs:387-407`); an output that is enabled again asks for 1280x720.

### Interaction, Backgrounds, LayerShell (run `windows`)

`Interaction`. One window between its client, the pointer and the shell, along one axis; configures
are answered by commits that name no serial. `HandshakeSound`: a window follows the pointer only
while the button is down (`GrabNeedsButton`), a dragged left edge leaves the right one
(`AnchorHeld`), and when nothing is on its way client and shell believe the same (`Agreement`), no
resize is pending (`HandshakeOver`) and a window whose rules changed comes back as they say
(`ReturnsToPolicy`). Four habits of clients, with the moves and requests each may make. In the
model: serials of acks are not matched; a grab may start after the release
(`synthetic_pointer_grab`), which the property names; a move of a maximized window leaves its
restore snapshot, and a commit while maximized overwrites the size to restore.

`Backgrounds`. The role is written at once, the component that names the output by a command that
takes effect later. `BackgroundsSound`: the two agree when their systems have ended (`RolesAgree`);
while no control said otherwise and no output came or went, the window is where the rules put its
title (`RulesHold`); and it has the keyboard only while nothing else could (`KeyboardInFront`).
`BroughtBack`: a window that is brought back is as it was when it was put behind. Bounds: two
outputs, three titles, two rules, two requests per frame, three in all, three changes of outputs.
One case is excepted by the module's properties: *two titles in one frame*, where the second is
judged by the component the first has not written yet, so that the window can keep a role its last
title does not give it. Also in the model: a title change undoes the user's control; a refreshed
policy does not reach what a background returns to; an output that returns has a new id, so its
background is hidden until the next title; a lone background keeps the keyboard.

`LayerShell`. `LastCommitApplied`: once nothing is on its way, the entity of a client that shows a
buffer has the shape of its last commit, and what was destroyed shows nothing. `WorkAreaClear`:
where windows may be placed, no panel that reserves space takes the pointer. Bounds: a bar that may
change its edge and a dock that stays, or the bar alone and created twice; two outputs of different
sizes. `LastCommitApplied` excepts one client by name (`hasty`): one that destroyed its panel before
the panel's first frame, created it again, and sent its last commit before the shell had carried out
the first destruction. The destroy deferred from the first life runs in a later frame, after a commit
that was still given to the doomed entity (`arrange.rs:71-171`), and that commit is lost. The run
covers the case: without the exception TLC finds it. Also in the model: the `wl_output` a client
names is ignored (`surface.rs:924`); a client is configured once; zones of several panels on an edge
are not added; a panel whose output is gone shows on the primary one with its old geometry.

### ControlPlane, XWindows, Selections, ClientMirrors (run `services`)

`ControlPlane`. A connection carries one request; one connection subscribes to everything, asks for
a snapshot and keeps a mirror. `ControlTrue`: the mirror is what the snapshot shows once all was
read (`Mirrors`), a connection goes only when its reply is out or nobody can read it (`Delivered`),
commands are reported once (`ReportedOnce`), and the configuration in force is the one in the file
when no notification is left (`ReloadSettles`); `LayoutKept`: a reload leaves the keyboard layout
alone while it exists. Six scenes, a socket that holds two messages; in one of them inotify does not
watch the file, and the reload compares its time with the one observed last
(`hot_reload.rs:124-140`; two edits are taken to have different times). Startup actions are queued
behind the commands of clients. In the model: a peer that closes without a request is kept for ever; a failed start of the X11 window manager means that
startup actions never run.

`XWindows`. `XWindowsAgree`: the two tables are inverse (`TablesAgree`), at rest each published window
is one window of the shell and none outlives it (`WindowsAgree`), and a menu has its picture and hangs
on a window of the shell (`MenusAgree`). A window that is empty at first and a second one that is
transient for it, a menu that maps itself or a managed window, and either may change its type once;
three surfaces, two events between two frames. What a system spawns shows when it is over, and
`EntityIndex` gives one entity for a surface. The properties name what they except, and the run finds
each of these if its exception is taken out:

* `connected`: when XWayland disconnects only its window manager is dropped (`xwayland.rs:646`), its
  windows stay in the tables and in the shell;
* `hasty`: of a window that gets a second event in the frame that spawns it the second entity, or the
  window whose closing found nothing, stays (`window_lifecycle.rs:337`, `:627`; what the run `twice`
  shows for Wayland windows);
* `retyped`: a published window that becomes a menu is closed as a menu only
  (`nekoland-protocol/src/lib.rs:905-911`), its window stays;
* `late`: a menu that closes while its creation still waits for its parent leaves a ghost
  (`popup.rs:214`); if it closes because it became a window, the ghost hides the window from the
  closing.

Also in the model: an untitled 1x1 window is never published (`xwayland.rs:254`); `set_mapped` fails
before or after the X server has mapped the window. A menu of a menu is left out, and so is a
`WM_TRANSIENT_FOR` that changes.

`Selections`. `SelectionsTrue`: never data of an older copy (`NoStalePaste`), shell and clients
agree (`ShellAgrees`), and once the pipes are closed the selection outlives its client
(`OutlivesItsClient`). Two clients, three kinds of data (one too long), two copies. In the model:
one pipe that is never closed keeps the selection tied to its client. Sending a persisted selection
blocks the compositor (`selection.rs:365-370`), which is not modelled.

`ClientMirrors`. `MirrorsTrue`: the keymap is the configured one or the last that compiled, the one
`wl_output` is the least output, no client is refused a format it was offered, and no two windows a
client is shown share a handle (`HandlesApart`); `ListTrue`: the list of windows a client has follows
the windows. One client, two windows, two known layouts and an
unknown one, two outputs. In the model: without a valid layout at the start there is no keyboard; a
client that binds a replaced format global late is an error (`server.rs:759`).

Deadlock is off: the compositor may quit, and clients may have done all they may.

### RenderGraph, Scene, Rendering, TextAtlas, Overlays (run `picture`)

`Rendering` makes a frame one step: what each output shows (`Scene`), the passes compiled from it
(`RenderGraph`), damage against the last plan, execution with the import caches, screenshots and
callbacks. `ScreenTrue`: the screen shows the plan with the last contents (`NothingStale`), and the
audit lists it (`AuditTrue`); `PicturesFollow`: commits are painted and damaged in time
(`DamageFollows`), and a screenshot is one of what is shown (`ScreenshotsTrue`); `SeenAndReached`:
what is visible is called back (`VisibleIsCalledBack`) and what takes the pointer is what is seen
there (`PointerSees`). Eleven scenes on two outputs with three surfaces. In the model: an output
that empties keeps its last picture (`drm/surface.rs:243`); damage of a content lags one frame; a
second background gets no callbacks; a window that reaches over the edge takes the pointer on the
neighbour (`seat.rs:472-512`); callbacks are sent and audits written in frames that were not
painted; a change of the stack alone damages nothing.

`TextAtlas`. `AtlasSound`: no glyph is drawn over another of its page (`NothingOverwritten`), in
this frame or later, cached places are where the glyph is, page ids are distinct, and the layout
cache is bounded. Five texts of six glyphs, one in colour, one larger than a page. In the model:
pages are never evicted; a glyph larger than a page drops its whole text and uses up a page id each
frame.

`Overlays`. `OverlaysSound`: updates that wait merge as if they had come in turn, every rectangle,
panel and text handed over for an output is painted there once, in the frame it was handed over in and
from back to front, and entries are never mistaken for each other. The render world's scene is empty at
the start of every frame: `extract_render_subapp_inputs` overwrites it with the main world's
(`nekoland-render/src/plugin/extract.rs:23`), which nothing writes, and `sync_back.rs:18-34` does not
copy it back. What the two sync systems remember of the frame before (`mine`, `theirs`) does persist;
their removal of old entries therefore never finds one, and only drops scenes that are empty. Two
outputs, one selected by name and one by id, three calls, two connections. In the model: a selector of
an id that is gone waits for ever; the rectangles of an unplugged output are kept.

Deadlock is off: the atlas may have given out all the pages the bound allows.

## 3. Proofs

Eight modules hold theorems. They are for every set of surfaces, outputs, windows and keys, all
clients and all bounds, and assume what the named `ASSUME`s of the modules say: surfaces of
different kinds are distinct, `None` is not one of them, bounds are natural numbers, the tables of
the configuration are functions of the right kind. `PROJECT.json` lists the theorems with the
property each of them proves. All follow one pattern: an inductive invariant as a conjunction of
named parts, one lemma per part, in it one step per action, and lemmas that say in a line what an
action does to the state a part speaks of. A theorem about a module that is instantiated is one about
the instance (`D!Spec`, `Motion!Spec`, `Nested!Spec`, `M!Spec`, `S!Spec`), so it is the instance's
definition the run checks that is proved. Every inductive invariant was an invariant of a run of TLC
before it was proved.

| Theorem | Property | Run that checks it too |
|---|---|---|
| `BoundaryIsSound`, `BothAreMailboxes` | `BoundarySound`, `Mailboxes` | `boundary` |
| `ShellIsTrue`, `NothingComesBack` | `ShellTrue`, `NoResurrection` | `lifecycle` |
| `OutputsAreSound`, `OutputsDoStay` | `OutputsSound`, `OutputsStay` | `outputs` |
| `SpacesAreSound`, `RoutesAreTrue`, `OnlyTheMovedAreLost` | `SpacesSound`, `RoutesTrue`, `LostOnlyOnTheMove` | `workspaces` |
| `WindowsArePlaced`, `FocusIsHeld`, `FocusIsRevealed` | `WindowsPlaced`, `FocusHeld`, `FocusRevealed` | `desktop` |
| `OneOpeningAlways` | `OneOpening` | `outputs` |
| `KeysAreTrue`, `NeverBoth` | `KeysTrue`, `OneAddressee` | `input` |
| `PointerAlwaysTrue`, `StaysOnOutputAlways` | `PointerTrue`, `StaysOnOutput` | `input` |
| `NestedAlwaysTrue`, `TimelineForwardAlways` | `NestedTrue`, `TimelineForward` | `input` |
| `MirrorsAlwaysTrue`, `ListAlwaysTrue` | `MirrorsTrue`, `ListTrue` | `services` |
| `SelectionsAlwaysTrue` | `SelectionsTrue` | `services` |
| `ControlAlwaysTrue`, `LayoutKeptAlways` | `ControlTrue`, `LayoutKept` | `services` |
| `AtlasIsSound` | `AtlasSound` | `picture` |

* `FrameBoundary`. `TypeOK` with the two conservation laws, the latency bound, and the facts that
  tie them (`Drained`): what the phase says about `sWin` and `cmds`, of which only one is pending at
  any time. `RequestsConserved` alone is not inductive: `WaylandExtract` copies, and only the phase
  says which copy counts. `OnlyDeadRefused` needs that a window the shell has heard of is not `new`
  for the server, whatever the X connection does. For the refinements, every step is a post, a receipt or a stutter of `Mailbox`.
* `SurfaceLifecycle`. `IndexSound` is inductive only with `Fresh`: the ids of queued spawns are not
  in the world, not promised twice and below the counter, so that a spawn never overwrites an entity
  the index names. `WindowInv` carries the life of a window through the queues: where the frame
  stands says which queues are empty (`Quiet`); windows have no parent, so only their own despawn
  takes them (`Rooted`); nothing of a surface follows its close in a queue, and no close is deferred
  (`ClosesLast`); what is to be despawned is in the world, is finished with and has no focus
  (`Despawns`); of a window that has ended nothing is left anywhere (`Ended`); what is deferred or
  to be spawned is not shown yet (`Unborn`); and the focus is shown (`Focused`). From it follow
  `FocusAlive` and `NoResurrection`. `NotLost` says that an event that needs an entity is led by one
  that makes it or by the entity, and `Hanging` that the parent named in an event or a spawn of a
  popup is the entity of its parent surface, or gone; they give `NoWindowLost` and `PopupsHang`.
* `OutputLifecycle`. Plans are made on a snapshot and carried out a frame later, so one entity for
  each connector is inductive only with what is on the way: an output, an announcement or a command
  of a connector bears its name and there is at most one of each (`OutputsOnce`), a plan connects a
  connector once and disconnects only what was turned off (`PlansSound`), a queued spawn is the only
  one that will give its connector an output and shows what was there last (`CommandsSound`), and
  who is to be disabled was turned off by name (`RequestsFounded`). `MemoryTrue` says that what is
  remembered of an output is what it showed last, and with these `OutputsStay` holds of every step.
* `Workspaces`. Types need that the snapshot of the batch is always the set of workspaces there are
  (`SnapshotAgrees`). With it, `IdsUnique` is inductive: an id asked for is one the snapshot does
  not know, an id given out is larger than all (`NextIdIsNew`). `RoutesExclusive` says nothing while
  housekeeping works; `Progress` carries it through: every output is still to be looked at, waits
  for a workspace or is served, and those served show different workspaces. An output that is not
  connected has no route, so that one that returns cannot bring back a route another has taken.
  `RoutesTrue` rests on `RoutesInv`: what is remembered by name is what the output showed last
  (`MemoryTrue`), all switches of a batch go to one output and the active workspace of the snapshot
  is that of the last switch that was not undone (`BatchTrue`), and housekeeping takes a workspace
  from an output only for another one (`WorkTrue`). `LostOnlyOnTheMove` needs that a window is where
  the batch saw it, gone, or moved by the batch (`HomesKept`).
* `ColumnLayout`. `WellFormed` (a surface is in one place, no column is empty) is kept by every
  method, which add nothing but the surface that is ensured and lose none but those not retained,
  and the focus operators answer with at most one surface, one that is there. Each compound
  operation is split into the steps it is made of, each a lemma that says where every surface is
  afterwards. `EnsureSurfaces` and `RetainSurfaces` loop over all surfaces and columns:
  `EnsureAllKeeps`, `RetainAllKeeps`.
* `Desktop`. `WindowsPlaced` is inductive as it stands: each control keeps the columns well formed
  whatever it was staged on, which is what the lemmas about `ColumnLayout` say, and the layout takes
  out what is gone and puts in what is new. `FocusHeld` and `FocusRevealed` are then properties of
  the one step after which they are stated, the focus system's and auto-align's; for the second, a
  tile has a box (`TileHasBox`), and the viewport anchored at it sees it.
* `Seat`. Two trackers of one stream of events agree because of where the frame stands: `Turns`
  (which queues are empty before which turn), `HeardTrue` (what will have been heard of the events
  under way is down), `IdleTrue` (nothing is held while the session is inactive), `FilterTrue` (the
  protocol world is where the main world was before the frame), `BindingsTrue` and `HoldsTrue`
  (modifiers are held by keys, and the shortcuts that hold are those of the keys), `SeatTrue` (a
  plain key that is down at the client is held in the filter and was not consumed), and `FiredTrue`
  (what fired did so by the bindings and keys the filter is about to go by), which gives
  `OneAddressee`.
* `DrmDisplay`. `OneOpening` is inductive as it stands: what is opened is opened one upon the other,
  a pause loses all that was opened in the same step and turns all that is kept into survivors, and
  while there is a renderer nothing new is made by another.
* `Pointer`. `PointerInv` accounts for everything hands reported: what went to viewports and what is
  left over of it is what a pan took (`PanSum`); what will have been heard once the queue is read is
  where the device is, and no more than hands moved (`HandsCounted`). Clamping to a set of outputs
  moves a point no further than the point itself went, and ends on one of them, whichever overlap or
  leave gaps.
* `NestedWindow`. A size the host reported is on its way, was handed over or is that of the output
  (`SizesSound`); a relative motion comes after the position it is relative to, at every point of
  the input (`Seeded`); the clock counts from its anchor to a time before every stamp that is pending
  (`ClockSound`), which makes presentation times go forward at every refresh rate.
* `ControlPlane`. `ControlTrue` speaks of a mirror when nothing is left to read, so it is inductive
  only with all that is on the way (`MirrorFollows`): whatever a subscriber has read so far, the last
  event on its way about a fact says what the cache says, and a fact no event speaks of is known
  already; the same holds of a snapshot that is on its way to the other client, for the events that
  are left when it was taken. Events come in lists that are joined and split by writes of any size,
  so every step is a lemma about what is joined. `CommandsOnce`: an accepted command waits or had
  its one result, and what history keeps is the end of the results. `PeerTrue`: what a connection
  was asked and answered, for every point at which its peer may stop. `FileFollowed`: a
  notification is left, or what is in the file is in force. Configurations are what
  `normalize_keyboard_layouts` lets through (`ConfigsAssumption`, `schema.rs:212-263`): names of
  layouts are distinct and the current one is among them.
* `Selections`. What is asked for, read and kept is of the last copy and asked for at most once
  (`OfTheLast`), a kind that was asked for is on its way or was read unless it is too long
  (`NothingMissed`), and the compositor takes the selection when the last pipe has ended, once
  (`TakenOnce`).
* `ClientMirrors`. What the sync systems remember of keymap and scale is what was told last, also for
  a client that binds between two syncs (`KeymapFollows`, `ScaleFollows`), formats only come
  (`OffersGrow`), and handles are numbered as they are made, in the loop over all new windows too
  (`HandlesNumbered`).
* `TextAtlas`. `Packed`: every glyph of a page lies above the row that is being filled, or in that
  row and left of the next place; so a glyph that is packed overlaps nothing, and, as nothing is
  ever taken out, never will.

Loops over data. The library's induction theorems take an operator as a parameter and are not usable
here; where a proof needs induction over a loop (a fold of events, of columns, of surfaces), it
takes the least index at which the claim fails, with the well-founded order of the naturals, over a
recursive *function*. Modules with theorems and those they use have no `RECURSIVE` operator.

Model-checked only:
* all liveness (`EverythingArrives`, `Settles`, `Shows`, `RequestsArrive`) and whatever needs
  `ENABLED`: out of the proof system's reach;
* `ClientsAgree`, whose parts speak of paced clients and of the moment a batch is worked off;
* the invariants and step properties of `Interaction`, `Backgrounds`, `LayerShell`, `XWindows`,
  `Rendering` and `Overlays`: `HandshakeSound`, `BackgroundsSound`, `BroughtBack`,
  `LastCommitApplied`, `WorkAreaClear`, `XWindowsAgree`, `ScreenTrue`, `PicturesFollow`,
  `SeenAndReached`, `OverlaysSound`. `XWindows` looks windows up with the folds of
  the community modules, which the provers cannot expand.

## 4. What is not modelled, and what is next

Not modelled: parsing of the configuration and of requests, the command line client, geometry beyond
one axis or a few cells, shaders and GPU calls, touch and tablets (not handled by the code), drag
and drop (forwarded to smithay), partial writes to sockets, the choice of CRTCs and modes beyond the
above. The systems that no plugin schedules (`x11/xwayland.rs`, the lifecycle systems of
`xdg/toplevel.rs`) and `configure_sequence_system`, whose input nothing fills
(`nekoland-shell/src/lib.rs:507`), are dead code here.

Next:
1. Proofs about the modules that are only model-checked: `TablesAgree` of `XWindows` and
   `RolesAgree` of `Backgrounds`.
2. `ClientsAgree` for paced clients, from the invariants of `SurfaceLifecycle` that are there.
3. Runs that compose modules now checked side by side: `Seat` with `Desktop`'s focus, `DrmDisplay`
   below `OutputLifecycle`.
