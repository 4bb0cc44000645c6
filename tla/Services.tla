------------------------------ MODULE Services ------------------------------
(***************************************************************************)
(* What the compositor does for other programs: ControlPlane, XWindows,    *)
(* Selections and ClientMirrors beside each other.  They share no state,   *)
(* so a behaviour may be taken as one of one of them.                      *)
(***************************************************************************)
EXTENDS ControlPlane

CONSTANTS
  Killed,
  \* XWindows
  XWindows, Transient, Menus, Unmanaged, Blank, MaxSurfaces, MaxAsks, MaxEvents,
  \* Selections; its clients are those that copy
  Copiers, Kinds, Big, MaxCopies,
  \* ClientMirrors
  Clients, Windows, Titles, Layouts, Known, Names, Scales, Offers, MaxChanges

VARIABLES
  \* XWindows
  xwindows, surface, nextId, asks, connected, tables, heard, helpers, menus, windows, popups, covered,
  deferred, late, hasty, retyped,
  \* Selections
  alive, copies, holder, capture, told, selection,
  \* ClientMirrors
  turn, moves, titles, layout, outputs, snapshot, wanted, keyboard, lastLayout, lastTiming, primary,
  toplevels, handles, given, backend, support, global, clients, refused

x11Vars == <<xwindows, surface, nextId, asks, connected, tables, heard, helpers, menus, windows, popups,
             covered, deferred, late, hasty, retyped>>
copyVars == <<alive, copies, holder, capture, told, selection>>
mirrorVars == <<turn, moves, titles, layout, outputs, snapshot, wanted, keyboard, lastLayout,
                lastTiming, primary, toplevels, handles, given, backend, support, global, clients, refused>>

X == INSTANCE XWindows WITH x <- xwindows, events <- heard

S == INSTANCE Selections WITH Clients <- Copiers, events <- told

M == INSTANCE ClientMirrors WITH stage <- turn, changes <- moves, windows <- titles

ASSUME XWindowsAssumption == X!TransientAssumption /\ X!KindsAssumption /\ X!SurfacesAssumption
ASSUME SelectionsAssumption == S!BigAssumption /\ S!CopiesAssumption /\ S!AbsenceAssumption
ASSUME MirrorsAssumption == M!MirrorsAssumption

-----------------------------------------------------------------------------
(* The shell has the X11 windows and menus there are, under the surfaces   *)
(* they have.                                                              *)
XWindowsAgree == X!XWindowsAgree

(* What is offered is fresh, known to the shell and outlives its client.   *)
SelectionsTrue == S!SelectionsTrue

(* Clients have the keymap, the scale, the formats and one handle for each *)
(* window of the frame.                                                    *)
MirrorsTrue == M!MirrorsTrue

(* Clients are told of every window and of no other.                       *)
ListTrue == M!ListTrue
=============================================================================
