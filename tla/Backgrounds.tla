----------------------------- MODULE Backgrounds -----------------------------
(***************************************************************************)
(* A window that is put behind everything on one output, by a rule about   *)
(* its title or by a control, and what it returns to when that ends.       *)
(*                                                                         *)
(* The role of the window is written at once, but the component that names *)
(* its output and keeps what to return to is written by a command, which   *)
(* takes effect when the system that gave it has ended: requests that come *)
(* in one frame are all judged by the component of the frame before.       *)
(***************************************************************************)
EXTENDS Naturals, FiniteSets, Sequences, SequencesExt

CONSTANTS
  Names,     \* names of outputs
  Titles, Rules, DefaultPolicy, \* config.window_rules: [title, layout, mode, background], None for any
  Places,    \* what scene geometries there are
  None,
  MaxBatch, MaxEvents, MaxPlugs, MaxDepth \* bounds: requests of one frame and in all, outputs, modes entered

RulesAssumption ==
  /\ \A i \in DOMAIN Rules : Rules[i].title \in Titles \union {None} /\ Rules[i].background \in Names \union {None}
  /\ MaxBatch \in Nat /\ MaxEvents \in Nat /\ MaxPlugs \in Nat /\ MaxDepth \in Nat

VARIABLES
  stage,
  outputs,   \* [names -> OutputId] of the connected ones
  plugs,     \* how many OutputIds were given out
  batch, events, \* how many requests came in this frame and in all
  title,
  window,    \* [layout, mode, geometry, target, role, applied, locked, restore]
  behind,    \* OutputBackgroundWindow: None, or [output, restore]
  commands,  \* what the running system told to become of it
  control,   \* PendingWindowControls: the entry of the window
  focus,     \* "window", "other" or None
  \* history
  before,    \* what the window was when it became a background
  twice,     \* whether its title changed twice in one frame since then
  ruled      \* whether the rules had the last word on it, with the outputs that are there now

vars == <<stage, outputs, plugs, batch, events, title, window, behind, commands, control, focus,
          before, twice, ruled>>

Policy(layout, mode) == [layout |-> layout, mode |-> mode]

-----------------------------------------------------------------------------
(* Rules and policies                                                      *)

Matching(t) == SelectSeq(Rules, LAMBDA r : r.title \in {None, t})

RulePolicy(t) ==
  FoldLeft(LAMBDA p, r : Policy(IF r.layout = None THEN p.layout ELSE r.layout,
                                IF r.mode = None THEN p.mode ELSE r.mode),
           DefaultPolicy, Matching(t))

RuleBackground(t) ==
  FoldLeft(LAMBDA b, r : IF r.background = None THEN b ELSE r.background, None, Matching(t))

Tracks(x, p) == x.layout = p.layout /\ x.mode = p.mode

(* refresh_window_policy: the window and what it can go back to change if they are as the old policy says. *)
Refreshed(w, p) ==
  LET Moved(x) == IF Tracks(x, w.applied) THEN [x EXCEPT !.layout = p.layout, !.mode = p.mode] ELSE x
  IN  IF w.locked THEN w
      ELSE [Moved(w) EXCEPT !.applied = p, !.restore = [i \in DOMAIN @ |-> Moved(@[i])]]

Snapshot(w) == [layout |-> w.layout, mode |-> w.mode, geometry |-> w.geometry, target |-> w.target]

Return(w, s) == [w EXCEPT !.layout = s.layout, !.mode = s.mode, !.geometry = s.geometry, !.target = s.target]

Entered(w, mode, target) ==
  [w EXCEPT !.restore = IF w.mode = mode THEN @ ELSE <<Snapshot(w)>> \o @, !.mode = mode, !.target = target]

Left(w) ==
  IF w.restore = <<>> THEN [w EXCEPT !.layout = w.applied.layout, !.mode = w.applied.mode, !.target = None]
  ELSE [Return(w, Head(w.restore)) EXCEPT !.restore = Tail(@)]

Floats(w) ==
  [w EXCEPT !.layout = "floating", !.mode = "normal", !.applied = Policy("floating", "normal"), !.locked = TRUE]

-----------------------------------------------------------------------------
(* The role                                                                *)

Output(name) == IF name \in DOMAIN outputs THEN outputs[name] ELSE None
Current == IF behind = None THEN None ELSE behind.output

Became(w)  == [w EXCEPT !.mode = "fullscreen", !.role = "background"]
Managed(w) == [Return(w, behind.restore) EXCEPT !.role = "managed"]

(* Slip: what to return to is taken anew when a background goes to another output. *)
SyncAnew(w, desired) ==
  IF desired = Current THEN window' = w /\ UNCHANGED commands
  ELSE IF desired = None THEN window' = Managed(w) /\ commands' = Append(commands, None)
  ELSE window' = Became(w) /\ commands' = Append(commands, [output |-> desired, restore |-> Snapshot(w)])

(* sync_window_background_role, on the window a caller has prepared *)
Sync(w, desired) ==
  IF desired = Current THEN window' = w /\ UNCHANGED commands
  ELSE IF desired = None THEN window' = Managed(w) /\ commands' = Append(commands, None)
  ELSE /\ window' = Became(w)
       /\ commands' = Append(commands, [output  |-> desired,
                                        restore |-> IF behind = None THEN Snapshot(w) ELSE behind.restore])

Flushed == IF commands = <<>> THEN behind ELSE commands[Len(commands)]

Noted(w) == IF w.role = "managed" /\ window'.role = "background" THEN Snapshot(w) ELSE before

-----------------------------------------------------------------------------
(* window_lifecycle_system                                                 *)

Request ==
  /\ stage = "batch" /\ batch < MaxBatch /\ events < MaxEvents
  /\ batch' = batch + 1 /\ events' = events + 1
  /\ UNCHANGED <<stage, outputs, plugs, behind, control>>

Retitle(t) ==
  /\ Request /\ t # title /\ title' = t
  /\ LET w == Refreshed(window, RulePolicy(t)) IN
     /\ Sync(w, Output(RuleBackground(t)))
     /\ before' = Noted(w)
  /\ twice' = (twice \/ commands # <<>>)
  /\ ruled' = TRUE
  /\ UNCHANGED focus

Ask(w) == Request /\ window' = w /\ UNCHANGED <<title, commands, before, twice, ruled>>

(* A background does none of what its client asks for. *)
Maximize ==
  /\ window.role = "managed" /\ Len(window.restore) < MaxDepth
  /\ Ask(Entered(window, "maximized", None)) /\ focus' = "window"
Fullscreen(n) ==
  /\ window.role = "managed" /\ Len(window.restore) < MaxDepth
  /\ Ask(Entered(window, "fullscreen", n)) /\ focus' = "window"
Unset == window.role = "managed" /\ Ask(Left(window)) /\ UNCHANGED focus
Minimize ==
  /\ window.role = "managed" /\ Ask([window EXCEPT !.mode = "hidden"])
  /\ focus' = IF focus = "window" THEN None ELSE focus
BeginMove == window.role = "managed" /\ Ask(Floats(window)) /\ focus' = "window"

EndLifecycle ==
  /\ stage = "batch" /\ stage' = "control"
  /\ behind' = Flushed /\ commands' = <<>> /\ batch' = 0
  /\ UNCHANGED <<outputs, plugs, events, title, window, control, focus, before, twice, ruled>>

-----------------------------------------------------------------------------
(* window_control_request_system                                           *)

NoControl == [place |-> None, focus |-> FALSE, background |-> None]

(* Every call writes its field of the one entry of the window. *)
Stage(field, value) ==
  /\ stage = "batch" /\ events < MaxEvents /\ events' = events + 1
  /\ control' = [control EXCEPT ![field] = value]
  /\ UNCHANGED <<stage, outputs, plugs, batch, title, window, behind, commands, focus, before, twice, ruled>>

Placed(w) == IF control.place = None THEN w ELSE [Floats(w) EXCEPT !.geometry = control.place]

(* Slip: a control that says nothing of the background ends it. *)
DesiredAnew == IF control.background \in Names THEN Output(control.background) ELSE None

Desired ==
  CASE control.background = None    -> Current
    [] control.background = "clear" -> None
    [] OTHER                        -> Output(control.background)

(* A background is only moved or brought back; a managed window is placed, focused, then put behind. *)
Apply ==
  /\ stage = "control" /\ stage' = "flush"
  /\ LET w == IF window.role = "background" THEN window ELSE Placed(window)
         seen == IF control.focus /\ window.role = "managed" /\ w.mode # "hidden" THEN "window" ELSE focus
     IN  /\ Sync(w, Desired)
         /\ focus' = IF control.background \in Names /\ seen = "window" THEN None ELSE seen
         /\ before' = Noted(w)
  /\ ruled' = (ruled /\ control.background = None)
  /\ control' = NoControl
  /\ UNCHANGED <<outputs, plugs, batch, events, title, behind, twice>>

EndControl ==
  /\ stage = "flush" /\ stage' = "focus"
  /\ behind' = Flushed /\ commands' = <<>>
  /\ UNCHANGED <<outputs, plugs, batch, events, title, window, control, focus, before, twice, ruled>>

-----------------------------------------------------------------------------
(* window_viewport_projection_system and focus_management_system: the other *)
(* window is visible while there is an output.                              *)
Visible ==
  /\ window.mode # "hidden"
  /\ IF behind = None THEN DOMAIN outputs # {} ELSE \E n \in DOMAIN outputs : outputs[n] = behind.output

Focusable ==
  (IF Visible /\ window.role = "managed" THEN {"window"} ELSE {}) \union (IF DOMAIN outputs = {} THEN {} ELSE {"other"})

Kept == focus \in Focusable \/ (focus = "window" /\ window.role = "managed" /\ window.layout = "tiled" /\ window.mode # "hidden")

ManageFocus ==
  /\ stage = "focus" /\ stage' = "batch"
  /\ IF Focusable = {} \/ Kept THEN UNCHANGED focus ELSE focus' \in Focusable
  /\ UNCHANGED <<outputs, plugs, batch, events, title, window, behind, commands, control, before, twice, ruled>>

(* An output that comes back has another id. *)
Plug(n) ==
  /\ stage = "batch" /\ batch = 0 /\ n \notin DOMAIN outputs /\ plugs < MaxPlugs
  /\ plugs' = plugs + 1
  /\ outputs' = [m \in DOMAIN outputs \union {n} |-> IF m = n THEN plugs + 1 ELSE outputs[m]]
  /\ ruled' = FALSE
  /\ UNCHANGED <<stage, batch, events, title, window, behind, commands, control, focus, before, twice>>

Unplug(n) ==
  /\ stage = "batch" /\ batch = 0 /\ n \in DOMAIN outputs
  /\ outputs' = [m \in DOMAIN outputs \ {n} |-> outputs[m]]
  /\ ruled' = FALSE
  /\ UNCHANGED <<stage, plugs, batch, events, title, window, behind, commands, control, focus, before, twice>>

Init ==
  /\ stage = "batch" /\ plugs = Cardinality(Names) /\ batch = 0 /\ events = 0
  /\ outputs \in {f \in [Names -> 1..plugs] : \A m, n \in Names : f[m] = f[n] => m = n}
  /\ title \in {t \in Titles : RuleBackground(t) = None}
  /\ \E g \in Places :
       window = [layout |-> RulePolicy(title).layout, mode |-> RulePolicy(title).mode, geometry |-> g, target |-> None,
                 role |-> "managed", applied |-> RulePolicy(title), locked |-> FALSE, restore |-> <<>>]
  /\ behind = None /\ commands = <<>> /\ control = NoControl /\ focus \in {"window", "other"}
  /\ before = Snapshot(window) /\ twice = FALSE /\ ruled = TRUE

Next ==
  \/ \E t \in Titles : Retitle(t)
  \/ \E n \in Names : Fullscreen(n) \/ Plug(n) \/ Unplug(n) \/ Stage("background", n)
  \/ \E g \in Places : Stage("place", g)
  \/ Stage("focus", TRUE) \/ Stage("background", "clear")
  \/ Maximize \/ Unset \/ Minimize \/ BeginMove
  \/ EndLifecycle \/ Apply \/ EndControl \/ ManageFocus

Spec == Init /\ [][Next]_vars

-----------------------------------------------------------------------------
(* Properties                                                              *)

(* Between frames. *)
Quiet == stage = "batch" /\ batch = 0

(* Whatever requests come in one frame, the role and the component agree once their systems have ended. *)
RolesAgree == Quiet => (window.role = "background" <=> behind # None)

(* While no control said otherwise and no output came or went, the window is behind the output the rules
   name for its title, whatever else was asked of it; two titles in one frame are the exception (README). *)
RulesHold == Quiet /\ ruled /\ ~twice => Current = Output(RuleBackground(title))

(* A background has the keyboard only while there is nothing else that could have it. *)
KeyboardInFront == Quiet /\ focus = "window" /\ window.role = "background" => Focusable = {}

(* The three together. *)
BackgroundsSound == RolesAgree /\ RulesHold /\ KeyboardInFront

(* A window that is brought back is as it was when it was put behind, however often it went from one
   output to another and whatever was asked of it meanwhile (OutputBackgroundWindow.restore). *)
BroughtBack ==
  [][window.role = "background" /\ window'.role = "managed" /\ ~twice' => Snapshot(window') = before]_vars
=============================================================================
