------------------------------ MODULE Desktop ------------------------------
(***************************************************************************)
(* What the user sees and types into: tiled and floating windows on two or *)
(* more workspaces, the viewport of the one output, the stacking order,    *)
(* the keyboard focus and the window switcher.                             *)
(*                                                                         *)
(* The systems of the shell that share this state run one after the other  *)
(* in every frame, and each is an action here; `phase` is the system that  *)
(* runs next.  A frame brings at most one event of each kind: a change of  *)
(* the windows or of the workspace shown, a key of the switcher, a window  *)
(* control, a tiling control, a click.  A key of the switcher counts only  *)
(* with the modifiers of its binding, which by default include the one     *)
(* that holds the session: no frame has both a key and the release.        *)
(*                                                                         *)
(* The output is as large as its work area.  A viewport animation is seen  *)
(* where it starts and where it ends, not between; the pointer is on the   *)
(* output and nothing is grabbed or panned with it.  A window that closes  *)
(* may come back as another surface once nothing remembers the old one.    *)
(* At most one window opens in a frame, so there is at most one newcomer   *)
(* to a layout or a stack, whatever the order of the queries.              *)
(*                                                                         *)
(* An operator that precedes its correct form under another name is a slip *)
(* the properties must catch: the specification does not use it.           *)
(***************************************************************************)
EXTENDS ColumnLayout, FiniteSets, FiniteSetsExt

CONSTANTS Window,      \* surface ids
          Shelf,       \* workspace ids
          Unassigned,  \* UNASSIGNED_WORKSPACE_STACK_ID
          Spots,       \* bound: where a window control may put a window
          Habits,      \* bound: what the users do besides tiling, of the four below
          FollowMouse, \* CompositorConfig.focus_follows_mouse
          None, Unset

ASSUME ShelvesAssumption == Shelf # {} /\ Unassigned \notin Shelf
ASSUME HabitsAssumption == Habits \subseteq SUBSET {"cycle", "float", "minimise", "pan"}
ASSUME MouseAssumption == FollowMouse \in BOOLEAN
ASSUME WindowsAssumption == IsFiniteSet(Window) /\ Spots \subseteq Int \X Int
ASSUME MarkersAssumption == /\ {None, Unset} \cap Window = {}
                            /\ None \notin Shelf /\ None \notin Int \X Int

VARIABLES
  habit,     \* what this user does, the same for ever
  phase,
  \* windows
  at,        \* ChildOf: the workspace of a window, None for one that is not there
  layout,    \* WindowLayout
  hidden,    \* those whose WindowMode is Hidden
  spot,      \* the scene position of a floating window, None before it has one
  \* shell
  shown,     \* OutputCurrentWorkspace: the other workspaces and their windows are Disabled
  tiling,    \* WorkspaceTilingState
  stacking,  \* WindowStackingState, back to front
  focus,     \* KeyboardFocusState
  aligned,   \* the focus auto-align saw last
  hovered,   \* FocusHoverState, Unset before it is initialized
  switcher,  \* WindowSwitcherState
  commit,    \* the focus control a switcher session ended with
  \* viewport
  view,      \* OutputViewport
  aim,       \* where its animation ends, None without one
  moves      \* PendingOutputControls: one entry by output id, one by name

windows == <<at, layout, hidden, spot>>
seat    == <<focus, aligned, hovered>>
camera  == <<view, aim, moves>>
vars    == <<habit, phase, windows, shown, tiling, stacking, seat, switcher, commit, camera>>

NoSession == [active |-> FALSE, shelf |-> None, anchor |-> None,
              selected |-> None, preview |-> None, origin |-> None]
\* The switcher names the output by its id, tiling by its name.
NoMoves == [origin |-> None, centre |-> None, named |-> None]

Init ==
  /\ habit \in Habits
  /\ phase = "lifecycle"
  /\ at = [w \in Window |-> None]
  /\ layout = [w \in Window |-> "tiled"]
  /\ hidden = {}
  /\ spot = [w \in Window |-> None]
  /\ shown \in Shelf
  /\ tiling = [s \in Shelf |-> <<>>]
  /\ stacking = [s \in Shelf \cup {Unassigned} |-> <<>>]
  /\ focus = None /\ aligned = None /\ hovered = Unset
  /\ switcher = NoSession /\ commit = None
  /\ view = <<0, 0>> /\ aim = None /\ moves = NoMoves

-----------------------------------------------------------------------------
(* What the systems derive from the windows                                *)

OnShelf(s) == {w \in Window : at[w] = s}
Tiles(s)   == {w \in OnShelf(s) : layout[w] = "tiled"}
Awake      == OnShelf(shown)
Usable(w)  == at[w] # None /\ w \notin hidden
UsableTile(w) == w \in Window /\ Usable(w) /\ layout[w] = "tiled"

\* Surfaces in the order of the stack, unknown ones in front (ordered_surfaces)
Ordered(s, surfaces) ==
  Retain(stacking[s], surfaces) \o SetToSeq(surfaces \ ToSet(stacking[s]))

\* Raised(s, w) is the stack once w is raised on shelf s.
Raised(s, w) == [stacking EXCEPT ![s] = Append(Retain(@, Window \ {w}), w)]

\* WindowSceneGeometry; a floating window is as large as the work area.
BoxOf(w) == IF layout[w] = "tiled"
              THEN TileBox(tiling[at[w]], w)
              ELSE [x |-> spot[w][1], y |-> spot[w][2], w |-> Width, h |-> Height]

\* scene_geometry_intersects_viewport
Sees(v, box) ==
  /\ box.x < v[1] + Width  /\ v[1] < box.x + box.w
  /\ box.y < v[2] + Height /\ v[2] < box.y + box.h

\* WindowViewportVisibility, as window_viewport_projection_system leaves it
OnScreen(w) == w \in Awake /\ Usable(w) /\ Sees(view, BoxOf(w))
Visible == {w \in Window : OnScreen(w)}

CentredOn(box) == <<box.x + box.w \div 2 - Width \div 2,
                    box.y + box.h \div 2 - Height \div 2>>

-----------------------------------------------------------------------------
(* lifecycle: windows open, close and are minimised, another workspace is  *)
(* shown                                                                   *)

Remembered == {focus, aligned, hovered, commit, moves.centre,
               switcher.anchor, switcher.selected, switcher.preview}

Quiet == phase = "lifecycle" /\ phase' = "switch"

NothingHappens ==
  /\ Quiet
  /\ UNCHANGED <<habit, windows, shown, tiling, stacking, seat, switcher, commit, camera>>

OpenWindow(w, l) ==
  /\ Quiet
  /\ at[w] = None /\ w \notin Remembered
  /\ l = "floating" => "float" \in habit
  /\ at' = [at EXCEPT ![w] = shown]
  /\ layout' = [layout EXCEPT ![w] = l]
  /\ UNCHANGED <<habit, hidden, spot, shown, tiling, stacking, seat, switcher, commit, camera>>

CloseWindow(w) ==
  /\ Quiet
  /\ at[w] # None
  /\ at' = [at EXCEPT ![w] = None]
  /\ layout' = [layout EXCEPT ![w] = "tiled"]
  /\ hidden' = hidden \ {w}
  /\ spot' = [spot EXCEPT ![w] = None]
  /\ focus' = IF focus = w THEN None ELSE focus
  /\ UNCHANGED <<habit, shown, tiling, stacking, aligned, hovered, switcher, commit, camera>>

Minimise(w) ==
  /\ Quiet /\ "minimise" \in habit
  /\ Usable(w)
  /\ hidden' = hidden \cup {w}
  /\ focus' = IF focus = w THEN None ELSE focus
  /\ UNCHANGED <<habit, at, layout, spot, shown, tiling, stacking, aligned, hovered, switcher,
                 commit, camera>>

ShowShelf(s) ==
  /\ Quiet
  /\ s # shown
  /\ shown' = s
  /\ UNCHANGED <<habit, windows, tiling, stacking, seat, switcher, commit, camera>>

-----------------------------------------------------------------------------
(* window_switcher_input_system                                            *)

\* front to back
Candidates(s) == Reverse(Ordered(s, {w \in OnShelf(s) : Usable(w)}))

\* The candidate after (or before) the selected one, the anchor or none
NextCandidate(cands, from, reverse) ==
  LET n == Len(cands)
      i == IF from # None /\ Contains(cands, from)
             THEN CHOOSE j \in 1 .. n : cands[j] = from
             ELSE None
  IN  IF i = None THEN cands[IF reverse THEN n ELSE 1]
      ELSE IF reverse THEN cands[IF i = 1 THEN n ELSE i - 1]
      ELSE cands[IF i = n THEN 1 ELSE i + 1]

\* The selected window is previewed: the viewport is to be centred on it.
Select(session, w) ==
  /\ switcher' = [session EXCEPT !.selected = w, !.preview = w]
  /\ moves' = IF session.preview = w THEN moves ELSE [moves EXCEPT !.centre = w]

SwitcherIdle ==
  /\ phase = "switch"
  /\ phase' = "control"
  /\ UNCHANGED <<habit, windows, shown, tiling, stacking, seat, switcher, commit, camera>>

\* The workspace of the focused window, or else the one shown; it must be on the output.
BeginSession(reverse) ==
  LET s == IF focus # None /\ at[focus] # None THEN at[focus] ELSE shown
      session == [NoSession EXCEPT !.active = TRUE, !.shelf = s,
                                   !.anchor = focus, !.origin = view]
  IN  /\ phase = "switch" /\ ~ switcher.active /\ "cycle" \in habit
      /\ s = shown /\ Candidates(s) # <<>>
      /\ Select(session, NextCandidate(Candidates(s), focus, reverse))
      /\ phase' = "control"
      /\ UNCHANGED <<habit, windows, shown, tiling, stacking, seat, commit, view, aim>>

AdvanceSession(reverse) ==
  /\ phase = "switch" /\ switcher.active
  /\ phase' = "control"
  /\ IF Candidates(switcher.shelf) = <<>>
       THEN switcher' = NoSession /\ moves' = moves
       ELSE Select(switcher,
                   NextCandidate(Candidates(switcher.shelf),
                                 IF switcher.selected # None THEN switcher.selected
                                                             ELSE switcher.anchor,
                                 reverse))
  /\ UNCHANGED <<habit, windows, shown, tiling, stacking, seat, commit, view, aim>>

\* finalize_window_switcher_session
EndSession ==
  /\ phase = "switch" /\ switcher.active
  /\ phase' = "control"
  /\ IF switcher.selected # switcher.anchor
       THEN commit' = switcher.selected /\ moves' = moves
       ELSE commit' = None /\ moves' = [moves EXCEPT !.origin = switcher.origin]
  /\ switcher' = NoSession
  /\ UNCHANGED <<habit, windows, shown, tiling, stacking, seat, view, aim>>

-----------------------------------------------------------------------------
(* window_control_request_system                                           *)

\* The workspaces this system can look up do not include the sleeping ones.
Bucket(w) == IF w \in Awake THEN at[w] ELSE Unassigned

TakeFocus(w) ==
  IF Usable(w)
    THEN focus' = w /\ stacking' = Raised(Bucket(w), w)
    ELSE UNCHANGED <<focus, stacking>>

NoWindowControl ==
  /\ phase = "control" /\ commit = None
  /\ phase' = "tile"
  /\ UNCHANGED <<habit, windows, shown, tiling, stacking, seat, switcher, commit, camera>>

\* A control for a surface that is gone stays queued and is never carried out.
CommitSession ==
  /\ phase = "control" /\ commit # None
  /\ phase' = "tile"
  /\ TakeFocus(commit)
  /\ UNCHANGED <<habit, windows, shown, tiling, aligned, hovered, switcher, commit, camera>>

FocusControl(w) ==
  /\ phase = "control" /\ commit = None
  /\ phase' = "tile"
  /\ at[w] # None
  /\ TakeFocus(w)
  /\ UNCHANGED <<habit, windows, shown, tiling, aligned, hovered, switcher, commit, camera>>

PositionControl(w, p) ==
  /\ phase = "control" /\ commit = None /\ "float" \in habit
  /\ phase' = "tile"
  /\ at[w] # None
  /\ layout' = [layout EXCEPT ![w] = "floating"]
  /\ spot' = [spot EXCEPT ![w] = p]
  /\ hidden' = hidden \ {w}
  /\ stacking' = Raised(Bucket(w), w)
  /\ UNCHANGED <<habit, at, shown, tiling, seat, switcher, commit, camera>>

-----------------------------------------------------------------------------
(* tiling_control_request_system: the controls act on the focused tile and *)
(* on the columns as the last frame left them                              *)

NoTilingControl ==
  /\ phase = "tile"
  /\ phase' = "arrange"
  /\ UNCHANGED <<habit, windows, shown, tiling, stacking, seat, switcher, commit, camera>>

FocusTile(Targets(_, _, _), d) ==
  LET s == at[focus] IN
  /\ phase = "tile" /\ UsableTile(focus)
  /\ phase' = "arrange"
  /\ \E w \in Targets(tiling[s], focus, d) :
       focus' = w /\ stacking' = Raised(s, w)
  /\ UNCHANGED <<habit, windows, shown, tiling, aligned, hovered, switcher, commit, camera>>

\* When the focused tile comes to another place, the viewport is to move there.
MoveTile(Moved(_, _, _), d) ==
  LET s == at[focus]
      columns == Moved(tiling[s], focus, d)
      before == Anchor(tiling[s], focus)
      after  == Anchor(columns, focus)
  IN  /\ phase = "tile" /\ UsableTile(focus)
      /\ phase' = "arrange"
      /\ columns # tiling[s]
      /\ tiling' = [tiling EXCEPT ![s] = columns]
      /\ stacking' = Raised(s, focus)
      /\ IF s = shown /\ after # before /\ after # {}
           THEN \E p \in after : moves' = [moves EXCEPT !.named = p]
           ELSE moves' = moves
      /\ UNCHANGED <<habit, windows, shown, seat, switcher, commit, view, aim>>

Pan(targets) ==
  /\ phase = "tile" /\ UsableTile(focus) /\ "pan" \in habit
  /\ phase' = "arrange"
  /\ at[focus] = shown
  /\ \E p \in targets : moves' = [moves EXCEPT !.named = p]
  /\ UNCHANGED <<habit, windows, shown, tiling, stacking, seat, switcher, commit, view, aim>>

FocusColumnControl(d)  == FocusTile(FocusColumn, d)
FocusWindowControl(d)  == FocusTile(FocusWindow, d)
MoveColumnControl(d)   == MoveTile(MoveColumn, d)
MoveWindowControl(d)   == MoveTile(MoveWindow, d)
ConsumeControl(d)      == MoveTile(ConsumeIntoColumn, d)
ExpelControl(d)        == MoveTile(ExpelFromColumn, d)
PanAcrossControl(d)    == Pan(PanAcross(tiling[shown], view, d))
PanDownControl(d)      == Pan(PanDown(tiling[shown], focus, view, d))

-----------------------------------------------------------------------------
(* tiling_layout_system and floating_layout_system, whose projection       *)
(* window_viewport_projection_system repeats                               *)

Reconciled(s) ==
  LET kept == RetainSurfaces(tiling[s], Tiles(s))
  IN  EnsureSurfaces(kept, SetToSeq(Tiles(s) \ Surfaces(kept)))

ArrangeWindows ==
  /\ phase = "arrange"
  /\ phase' = "click"
  /\ tiling' = [s \in Shelf |-> Reconciled(s)]
  /\ spot' = [w \in Window |->
                IF Usable(w) /\ w \in Awake /\ layout[w] = "floating" /\ spot[w] = None
                  THEN view ELSE spot[w]]
  /\ UNCHANGED <<habit, at, layout, hidden, shown, stacking, seat, switcher, commit, camera>>

-----------------------------------------------------------------------------
(* pointer_button_focus_system: the pointer is wherever the user put it    *)

NoClick ==
  /\ phase = "click"
  /\ phase' = "stack"
  /\ UNCHANGED <<habit, windows, shown, tiling, stacking, seat, switcher, commit, camera>>

Click(w) ==
  /\ phase = "click" /\ ~ switcher.active
  /\ phase' = "stack"
  /\ w \in Visible
  /\ focus' = w
  /\ stacking' = Raised(at[w], w)
  /\ UNCHANGED <<habit, windows, shown, tiling, aligned, hovered, switcher, commit, camera>>

-----------------------------------------------------------------------------
(* stacking_layout_system                                                  *)

\* A slip: surfaces that are gone or in another bucket stay.
RestackKeepingAll ==
  /\ phase = "stack"
  /\ phase' = "focus"
  /\ stacking' = [s \in DOMAIN stacking |->
                    stacking[s] \o SetToSeq(OnShelf(s) \ ToSet(stacking[s]))]
  /\ UNCHANGED <<habit, windows, shown, tiling, seat, switcher, commit, camera>>

RestackWindows ==
  /\ phase = "stack"
  /\ phase' = "focus"
  /\ stacking' = [s \in DOMAIN stacking |-> Ordered(s, OnShelf(s))]
  /\ UNCHANGED <<habit, windows, shown, tiling, seat, switcher, commit, camera>>

-----------------------------------------------------------------------------
(* focus_management_system                                                 *)

FocusPaused ==
  /\ phase = "focus"
  /\ switcher.active
  /\ phase' = "align"
  /\ hovered' = None
  /\ UNCHANGED <<habit, windows, shown, tiling, stacking, focus, aligned, switcher, commit, camera>>

FocusSkipped ==
  /\ phase = "focus"
  /\ ~ switcher.active /\ Visible = {}
  /\ phase' = "align"
  /\ UNCHANGED <<habit, windows, shown, tiling, stacking, seat, switcher, commit, camera>>

\* the front-most visible window
FrontMost == Last(Ordered(shown, Visible))

\* A slip: a minimised tile keeps the focus.
SettledMinimised(f) ==
  IF f # None /\ (f \in Visible \/ (f \in Awake /\ layout[f] = "tiled")) THEN f ELSE FrontMost

\* An awake tile may keep the focus while it is off screen.
Settled(f) ==
  IF f # None /\ (f \in Visible \/ (f \in Awake /\ UsableTile(f))) THEN f ELSE FrontMost

\* h is the tile under the pointer; hovering is not looked at while the viewport moves.
ManageFocus(h) ==
  /\ phase = "focus"
  /\ ~ switcher.active /\ Visible # {}
  /\ phase' = "align"
  /\ h = None \/ (h \in Visible /\ layout[h] = "tiled")
  /\ IF FollowMouse /\ aim = None
       THEN /\ hovered' = h
            /\ focus' = Settled(IF h # hovered /\ h # None THEN h ELSE focus)
       ELSE /\ hovered' = hovered
            /\ focus' = Settled(focus)
  /\ UNCHANGED <<habit, windows, shown, tiling, stacking, aligned, switcher, commit, camera>>

-----------------------------------------------------------------------------
(* tiling_focus_auto_align_system                                          *)

AutoAlign ==
  /\ phase = "align"
  /\ phase' = "extract"
  /\ aligned' = focus
  /\ IF focus # aligned /\ UsableTile(focus) /\ at[focus] = shown
        /\ ~ Sees(view, BoxOf(focus))
       THEN \E p \in Anchor(tiling[shown], focus) : moves' = [moves EXCEPT !.named = p]
       ELSE moves' = moves
  /\ UNCHANGED <<habit, windows, shown, tiling, stacking, focus, hovered, switcher, commit,
                 view, aim>>

-----------------------------------------------------------------------------
(* apply_output_control_requests_system and                                *)
(* advance_output_viewport_animations_system, at the start of the next     *)
(* frame.  The control by id comes first, and in it the move before the    *)
(* centring; the last target wins.                                         *)

\* The windows these systems see do not include the sleeping ones.
Centred(m) == IF m.centre # None /\ m.centre \in Awake
                THEN CentredOn(BoxOf(m.centre)) ELSE None

\* A slip: the control by id wins.
TargetById(m) == CASE m.origin # None \/ Centred(m) # None ->
                        IF Centred(m) # None THEN Centred(m) ELSE m.origin
                   [] OTHER -> m.named

Target(m) == CASE m.named # None    -> m.named
               [] m.named = None /\ Centred(m) # None -> Centred(m)
               [] OTHER             -> m.origin

ApplyMoves ==
  /\ phase = "extract"
  /\ phase' = "lifecycle"
  /\ commit' = None
  \* A window that is not found is looked for again in every frame.
  /\ moves' = [NoMoves EXCEPT !.centre =
                 IF moves.centre = None \/ moves.centre \in Awake \/ at[moves.centre] = None
                   THEN None ELSE moves.centre]
  /\ IF Target(moves) # None
       THEN view' = view /\ aim' = IF Target(moves) = view THEN None ELSE Target(moves)
       ELSE \/ UNCHANGED <<view, aim>>
            \/ aim # None /\ view' = aim /\ aim' = None
  /\ UNCHANGED <<habit, windows, shown, tiling, stacking, seat, switcher>>

-----------------------------------------------------------------------------
Lifecycle ==
  \/ NothingHappens
  \/ \E w \in Window : CloseWindow(w) \/ Minimise(w)
  \/ \E w \in Window : OpenWindow(w, "tiled") \/ OpenWindow(w, "floating")
  \/ \E s \in Shelf : ShowShelf(s)

SwitcherInput ==
  \/ SwitcherIdle \/ EndSession
  \/ \E reverse \in BOOLEAN : BeginSession(reverse) \/ AdvanceSession(reverse)

WindowControl ==
  \/ NoWindowControl \/ CommitSession
  \/ \E w \in Window : FocusControl(w)
  \/ \E w \in Window, p \in Spots : PositionControl(w, p)

TilingControl ==
  \/ NoTilingControl
  \/ \E d \in Directions :
       \/ FocusColumnControl(d) \/ FocusWindowControl(d)
       \/ MoveColumnControl(d) \/ MoveWindowControl(d)
       \/ ConsumeControl(d) \/ ExpelControl(d)
       \/ PanAcrossControl(d) \/ PanDownControl(d)

FocusManagement == FocusPaused \/ FocusSkipped
                   \/ \E h \in Window \cup {None} : ManageFocus(h)

Next ==
  \/ Lifecycle \/ SwitcherInput \/ WindowControl \/ TilingControl \/ ArrangeWindows
  \/ NoClick \/ (\E w \in Window : Click(w)) \/ RestackWindows
  \/ FocusManagement \/ AutoAlign \/ ApplyMoves

Spec == Init /\ [][Next]_vars

-----------------------------------------------------------------------------
(* Correctness                                                             *)

Point == Int \X Int
Maybe(S) == S \cup {None}
Sessions == [active : BOOLEAN, shelf : Maybe(Shelf), anchor : Maybe(Window),
             selected : Maybe(Window), preview : Maybe(Window), origin : Maybe(Point)]
Moves == [origin : Maybe(Point), centre : Maybe(Window), named : Maybe(Point)]

(* Every variable has a value of its type: a closed window keeps no state, *)
(* and a session without selection is none.                                *)
Placements == Maybe(Point)
FocusControls == Maybe(Window)
Tilings == [Shelf -> Seq(Seq(Window))]
Stackings == [Shelf \cup {Unassigned} -> Seq(Window)]

TypeOK ==
  /\ habit \in Habits
  /\ phase \in {"lifecycle", "switch", "control", "tile", "arrange", "click",
                "stack", "focus", "align", "extract"}
  /\ at \in [Window -> Maybe(Shelf)]
  /\ layout \in [Window -> {"tiled", "floating"}]
  /\ hidden \subseteq {w \in Window : at[w] # None}
  /\ spot \in [Window -> Placements]
  /\ shown \in Shelf
  /\ tiling \in Tilings /\ stacking \in Stackings
  /\ {focus, aligned} \subseteq Maybe(Window) /\ hovered \in Maybe(Window) \cup {Unset}
  /\ switcher \in Sessions
  /\ switcher.active => /\ switcher.shelf \in Shelf /\ switcher.selected \in Window
                        /\ switcher.origin \in Point
  /\ commit \in FocusControls
  /\ view \in Point /\ aim \in Maybe(Point)
  /\ moves \in Moves

Arranged == phase \in {"click", "stack", "focus", "align", "extract"}

(* Whatever controls ran on the columns of the last frame, every tile is   *)
(* in one place of its own workspace once the layout has run, in no other, *)
(* and no column is empty (tiling_layout_system after                      *)
(* tiling_control_request_system).                                         *)
TilesPlaced ==
  \A s \in Shelf :
    /\ WellFormed(tiling[s])
    /\ Arranged => Surfaces(tiling[s]) = Tiles(s)

(* Every window is once in the stack of its workspace and in no other, and *)
(* what was raised in the bucket for windows without one does not outlive  *)
(* the frame (stacking_layout_system).                                     *)
StackComplete ==
  /\ \A s \in DOMAIN stacking : IsInjective(stacking[s])
  /\ phase \in {"focus", "align", "extract"} =>
       \A s \in DOMAIN stacking : ToSet(stacking[s]) = OnShelf(s)

(* A floating window without a position is one that opened on the          *)
(* workspace shown and that the layout of its first frame has not reached  *)
(* (floating_layout_system).                                               *)
FloatPlaced ==
  \A w \in Window :
    at[w] # None /\ layout[w] = "floating" /\ spot[w] = None =>
      phase \in {"switch", "control", "tile", "arrange"} /\ Usable(w) /\ w \in Awake

(* With the types: every window has its one place among the tiles and in   *)
(* the stack, and what is drawn has a position.                            *)
WindowsPlaced == TypeOK /\ TilesPlaced /\ FloatPlaced /\ StackComplete

(* Outside a switcher session and as long as a window is on screen, the    *)
(* keyboard is given to a window on screen or to a tile the viewport has   *)
(* left behind: never to a closed, minimised or sleeping window, whatever  *)
(* the stale columns or a stale selection named (focus_management_system). *)
FocusHeld ==
  phase = "align" /\ ~ switcher.active /\ Visible # {} =>
    focus \in Visible \/ (focus \in Awake /\ UsableTile(focus))

(* When the focus lands on a tile outside the viewport, the viewport is    *)
(* told to go where the tile is seen, whatever the switcher, a pan or a    *)
(* moved column asked of it in the same frame                              *)
(* (tiling_focus_auto_align_system).                                       *)
FocusRevealed ==
  [][AutoAlign /\ focus # aligned /\ UsableTile(focus) /\ focus \in Awake
       => Sees(view, BoxOf(focus)) \/ Sees(Target(moves'), BoxOf(focus))]_vars
=============================================================================
