-------------------------------- MODULE Input --------------------------------
(***************************************************************************)
(* What devices and a host window say, on its way to the desktop: Seat,    *)
(* Pointer and NestedWindow beside each other.  They share no state here,  *)
(* so a behaviour may be taken as one of one of them.                      *)
(***************************************************************************)
EXTENDS Seat

CONSTANTS
  \* Pointer
  Outputs, Left, Width, Configured, Fallback, Strides, MaxMoves, MaxQueue, MaxPlugs, MaxTurns,
  \* NestedWindow
  Sizes, Standard, Scenes, Periods, MaxTime

VARIABLES
  \* Pointer
  device, plugged, shown, bound, moved, held, position, pointer, focused, gesture, panned, travel,
  hand, step, left,
  \* NestedWindow
  scene, turn, acts, now, window, shared, shortcuts, configured, output, seen, seeded, clock,
  timeline, absolute

pointerVars == <<device, plugged, shown, bound, moved, held, position, pointer, focused, gesture,
                 panned, travel, hand, step, left>>
nestedVars == <<scene, turn, acts, now, window, shared, shortcuts, configured, output, seen, seeded,
                clock, timeline, absolute>>

Motion == INSTANCE Pointer WITH host <- device, device <- bound, queue <- moved, physical <- position

Nested == INSTANCE NestedWindow WITH stage <- turn, host <- window, config <- configured

ASSUME PointerAssumption == Motion!OutputsAssumption /\ Motion!BoundsAssumption
ASSUME NestedAssumption ==
  /\ Nested!SizesAssumption /\ Nested!ScenesAssumption
  /\ Nested!PeriodsAssumption /\ Nested!NoneAssumption

-----------------------------------------------------------------------------
(* A motion pans or moves the pointer by what the hand moved, never both.  *)
PointerTrue == Motion!PointerTrue

(* The pointer ends on the output that has the focus.                      *)
StaysOnOutput == Motion!StaysOnOutput

(* Host window and output agree, motions have an origin, shortcuts are     *)
(* given back and somebody draws.                                          *)
NestedTrue == Nested!NestedTrue

(* Presentation times never go back.                                       *)
TimelineForward == Nested!TimelineForward
=============================================================================
