------------------------------- MODULE Displays -------------------------------
(***************************************************************************)
(* What there is to show a picture on: OutputLifecycle, and the DRM        *)
(* backend's DrmDisplay beside it.  They share no state here, so a         *)
(* behaviour may be taken as one of one of them.                           *)
(***************************************************************************)
EXTENDS OutputLifecycle

CONSTANTS Heads,        \* the connectors of the DRM device
          Crtcs, Shaders, MaxSessions, MaxFailures, MaxPlugs

VARIABLES phase, session, device, heads, gbm, renderer, surfaces, execution, survivors, lit,
          filled, openings, picture, left

drmVars == <<phase, session, device, heads, gbm, renderer, surfaces, execution, survivors, lit,
             filled, openings, picture, left>>

D == INSTANCE DrmDisplay WITH Connectors <- Heads, MaxSwitches <- MaxSessions, outputs <- lit

ASSUME DisplayAssumption == D!CrtcsAssumption /\ D!FailuresAssumption

-----------------------------------------------------------------------------
(* What is built on the device was built on the device that is open now,   *)
(* and of what earlier renderers made only that is left which was there    *)
(* when a session was paused.                                              *)
OneOpening == D!OneOpening
=============================================================================
