------------------------------- MODULE Pointer -------------------------------
(***************************************************************************)
(* The pointer on its way from the hand to the desktop.  The backend keeps *)
(* a position of its own, clamped to the size of the outputs, and reports  *)
(* that; the input schedule takes the differences, pans the viewport with  *)
(* them while the shortcut for it is held, and otherwise moves the pointer *)
(* of the compositor, clamped to the output that has it.                   *)
(*                                                                         *)
(* One axis stands for both.  Distances are halves of a pixel, because     *)
(* devices report fractions and viewports move by whole pixels.            *)
(*                                                                         *)
(* Hands, hosts and cables act while the event loop is polled; a frame     *)
(* drains what they did.                                                   *)
(*                                                                         *)
(* An operator that precedes its correct form under another name is a slip *)
(* the properties must catch: the specification does not use it.           *)
(***************************************************************************)
EXTENDS Integers, Sequences, FiniteSets

CONSTANTS Outputs,   \* output ids, numbers
          Left, Width, \* of each output, in halves of a pixel
          Hosts,     \* "tty": libinput moves, "window": positions, and moves while captured
          Configured, \* the widest of the outputs the configuration enables, 0 if there is none
          Fallback,  \* DrmInputBounds::default
          Strides,   \* how far a hand moves at once
          MaxMoves,  \* bound: motions
          MaxQueue,  \* bound: events of one frame
          MaxPlugs,  \* bound: changes of the outputs
          MaxTurns,  \* bound: times the shortcut is pressed, released, or the host takes the focus
          None

OutputsAssumption ==
  /\ Outputs \subseteq Nat /\ IsFiniteSet(Outputs) /\ None \notin Outputs
  /\ \A o \in Outputs : Left[o] \in Nat /\ Width[o] \in Nat \ {0}
BoundsAssumption == {Configured, Fallback, MaxMoves, MaxQueue, MaxPlugs, MaxTurns} \subseteq Nat /\ Strides \subseteq Int

VARIABLES
  host,
  plugged,  \* outputs there are
  shown,    \* those of the snapshot this frame works with
  device,   \* DrmInputState: the position and the bound; or where the host's cursor is
  queue,    \* platform events of this frame
  held,     \* ShortcutState.active(viewport.pan_mode)
  physical, \* PhysicalPointerPosition
  pointer,  \* GlobalPointerPosition
  focused,  \* FocusedOutputState
  gesture,  \* ViewportPointerPanGestureState
  panned,   \* how far viewports were asked to move since the shortcut is held
  travel,   \* history: how far devices moved since the shortcut is held
  hand,     \* history: how far hands moved since the last frame
  step,     \* history of the last frame: how far the pointer moved, and the hands
  left      \* bounds: motions, plugs and turns to come

vars == <<host, plugged, shown, device, queue, held, physical, pointer, focused, gesture, panned, travel, hand, step, left>>
inputVars == <<physical, pointer, focused, gesture, panned, travel, hand, step>>

Clamp(v, lo, hi) == IF v < lo THEN lo ELSE IF v > hi THEN hi ELSE v
Abs(v) == IF v < 0 THEN -v ELSE v
\* f64::trunc, in whole pixels
Trunc(v) == IF v < 0 THEN -((-v) \div 2) ELSE v \div 2
Largest(S) == CHOOSE v \in S : \A u \in S : u <= v
Least(S) == CHOOSE v \in S : \A u \in S : v <= u

NoGesture == [output |-> None, rest |-> 0, engaged |-> FALSE]

Init ==
  /\ host \in Hosts /\ plugged \in SUBSET Outputs /\ shown = plugged
  /\ device = [at |-> 0, bound |-> Fallback]
  /\ queue = <<>> /\ held = FALSE
  /\ physical = [at |-> 0, known |-> FALSE, resync |-> FALSE]
  /\ pointer = 0 /\ focused = None /\ gesture = NoGesture
  /\ panned = 0 /\ travel = 0 /\ hand = 0 /\ step = [made |-> 0, hands |-> 0, anchored |-> FALSE, sound |-> FALSE]
  /\ left = [moves |-> MaxMoves, plugs |-> MaxPlugs, turns |-> MaxTurns]

-----------------------------------------------------------------------------
Moved(d, e) ==
  /\ left.moves > 0 /\ left' = [left EXCEPT !.moves = @ - 1]
  /\ Len(queue) < MaxQueue /\ queue' = Append(queue, e)
  /\ hand' = hand + Largest({Abs(d), Abs(device'.at - device.at)})
  /\ UNCHANGED <<host, plugged, shown, held, physical, pointer, focused, gesture, panned, travel, step>>

(* apply_relative_motion and apply_absolute_motion: a position in bounds.  *)
HandMoves(d) ==
  /\ host = "tty"
  /\ device' = [device EXCEPT !.at = Clamp(@ + d, 0, device.bound - 2)]
  /\ Moved(d, [is |-> "moved", at |-> device'.at, by |-> d])

(* A host window: its cursor goes anywhere over it; while it is captured   *)
(* only differences are reported.                                          *)
CursorMoves(d) ==
  /\ host = "window" /\ device.at + d \in 0 .. Fallback
  /\ device' = [device EXCEPT !.at = @ + d]
  /\ Moved(d, [is |-> "moved", at |-> device'.at, by |-> d])
CapturedMoves(d) ==
  /\ host = "window" /\ UNCHANGED device
  /\ Moved(d, [is |-> "delta", by |-> d])

Turn(e) ==
  /\ left.turns > 0 /\ left' = [left EXCEPT !.turns = @ - 1]
  /\ Len(queue) < MaxQueue /\ queue' = queue \o e
  /\ UNCHANGED <<host, plugged, shown, device, inputVars>>
PressOrRelease == held' = ~held /\ Turn(<<>>)
LoseFocus == UNCHANGED held /\ Turn(<<[is |-> "lost"]>>)

Replug(o) ==
  /\ left.plugs > 0 /\ left' = [left EXCEPT !.plugs = @ - 1]
  /\ plugged' = IF o \in plugged THEN plugged \ {o} ELSE plugged \cup {o}
  /\ UNCHANGED <<host, shown, device, queue, held, inputVars>>

-----------------------------------------------------------------------------
(* effective_input_bounds: the size of the largest output, not their sum;  *)
(* without any, that of the largest in the configuration.                  *)
Bound ==
  CASE shown # {}                    -> Largest({Width[o] : o \in shown})
    [] shown = {} /\ Configured # 0 -> Configured
    [] OTHER                         -> Fallback

(* pointer_input_system, event by event.  A first position is compared     *)
(* with where the pointer of the compositor is.                            *)
Heard(from, r, e) ==
  CASE e.is = "moved" ->
         [physical |-> [at |-> e.at, known |-> TRUE, resync |-> FALSE],
          delta |-> IF r.physical.resync THEN r.delta
                    ELSE r.delta + e.at - (IF r.physical.known THEN r.physical.at ELSE from)]
    [] e.is = "delta" ->
         [physical |-> [r.physical EXCEPT !.known = FALSE, !.resync = TRUE], delta |-> r.delta + e.by]
    [] e.is = "lost" ->
         [physical |-> [r.physical EXCEPT !.known = FALSE, !.resync = FALSE], delta |-> 0]
HeardAll(from, r, events) ==
  LET h[i \in 0..Len(events)] == IF i = 0 THEN r ELSE Heard(from, h[i - 1], events[i])
  IN  h[Len(events)]

(* viewport_pointer_pan_system: whole pixels go to the output that had the *)
(* pointer when the gesture began, the rest is kept for the next frame.    *)
PannedRounding(delta) ==
  IF ~held THEN [gesture |-> NoGesture, by |-> 0, left |-> delta]
  ELSE [gesture |-> [output |-> IF gesture.output = None THEN focused ELSE gesture.output,
                     rest |-> 0, engaged |-> TRUE],
        by |-> Trunc(delta), left |-> 0]
Panned(delta) ==
  LET output == IF gesture.output = None THEN focused ELSE gesture.output
      sum == delta + gesture.rest IN
  IF ~held THEN [gesture |-> NoGesture, by |-> 0, left |-> delta]
  ELSE IF output = None THEN [gesture |-> gesture, by |-> 0, left |-> delta]
  ELSE [gesture |-> [output |-> output, rest |-> sum - 2 * Trunc(sum),
                     engaged |-> gesture.engaged \/ Trunc(sum) # 0],
        by |-> Trunc(sum), left |-> 0]

Holds(o, v) == Left[o] <= v /\ v < Left[o] + Width[o]
Over(v) == {o \in shown : Holds(o, v)}

(* clamp_pointer_to_active_output: the focused output, or the one that has *)
(* the pointer, or would have it, or the first.                            *)
ClampedUnfocused(v) ==
  IF Over(v) # {} THEN v
  ELSE IF focused \notin shown THEN v
  ELSE Clamp(v, Left[focused], Left[focused] + Width[focused] - 1)
Clamped(v) ==
  IF shown = {} THEN v
  ELSE LET o == CASE focused \in shown -> focused
                  [] focused \notin shown /\ Over(pointer) # {} -> Least(Over(pointer))
                  [] focused \notin shown /\ Over(pointer) = {} /\ Over(v) # {} -> Least(Over(v))
                  [] OTHER -> Least(shown)
       IN Clamp(v, Left[o], Left[o] + Width[o] - 1)

(* focused_output_tracking_system: the first that has the pointer, or the  *)
(* one before as long as it is there.                                      *)
Tracked(v) ==
  IF Over(v) # {} THEN Least(Over(v)) ELSE IF focused \in shown THEN focused ELSE None

(* The last event, if there is one, leaves a position to start from.       *)
Anchored == IF queue = <<>> THEN step.anchored ELSE queue[Len(queue)].is # "lost"

(* A frame: drain_drm_input, the four pointer systems, the new snapshot.   *)
Frame ==
  /\ LET heard == HeardAll(pointer, [physical |-> physical, delta |-> 0], queue)
         pan == Panned(heard.delta) IN
     /\ physical' = heard.physical
     /\ gesture' = pan.gesture
     /\ panned' = IF held THEN panned + pan.by ELSE 0
     /\ travel' = IF held THEN travel + heard.delta - pan.left ELSE 0
     /\ pointer' = IF pan.left = 0 THEN pointer ELSE Clamped(pointer + pan.left)
     /\ focused' = Tracked(pointer')
     /\ step' = [made |-> pointer' - pointer, hands |-> hand,
                 anchored |-> Anchored,
                 sound |-> /\ step.anchored
                           /\ \A i \in DOMAIN queue : queue[i].is # "lost"
                           /\ focused \in shown /\ Holds(focused, pointer)]
     /\ hand' = 0
  /\ device' = IF host = "tty" THEN [device EXCEPT !.bound = Bound] ELSE device
  /\ queue' = <<>> /\ shown' = plugged
  /\ UNCHANGED <<host, plugged, held, left>>

Next ==
  \/ \E d \in Strides : HandMoves(d) \/ CursorMoves(d) \/ CapturedMoves(d)
  \/ PressOrRelease \/ LoseFocus
  \/ \E o \in Outputs : Replug(o)
  \/ Frame

Spec == Init /\ [][Next]_vars

-----------------------------------------------------------------------------
(* Whenever the pointer moves it ends on an output, the one that has the   *)
(* focus from then on, whatever was plugged or unplugged meanwhile.        *)
StaysOnOutput ==
  [][pointer' # pointer /\ shown # {} => focused' \in shown /\ Holds(focused', pointer')]_vars

(* Panning is exact: while the shortcut is held every half pixel of the    *)
(* hand goes to the viewport or waits for the next, and the pointer stands *)
(* still.                                                                  *)
PanIsExact == held /\ gesture.output # None => travel = 2 * panned + gesture.rest /\ Abs(gesture.rest) < 2

(* The pointer moves no further than the hands did, also when a capture    *)
(* ends and after panning.  Only a host that had the focus elsewhere sets  *)
(* it down anew, and an output that went lets it go; a smaller bound moves *)
(* the device, which counts as a hand.                                     *)
NeverJumps == step.sound => Abs(step.made) <= step.hands

(* The two together.                                                       *)
PointerTrue == PanIsExact /\ NeverJumps
=============================================================================
