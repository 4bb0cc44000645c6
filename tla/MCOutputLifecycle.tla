------------------------- MODULE MCOutputLifecycle -------------------------
(***************************************************************************)
(* Two connectors, and the virtual backend with its default name, in one   *)
(* half of the behaviours.  In the others a DRM device with two connectors *)
(* that may get the same CRTC, and changing sessions, failures and         *)
(* outputs.                                                                *)
(***************************************************************************)
EXTENDS Displays

CONSTANTS c1, c2, v, m1

NoOutputs == {<<>>}
MCCrtcs == <<<<"A", "B">>, <<"A", "B">>>>

VARIABLE part
allVars == <<part, vars, drmVars>>

MCInit ==
  /\ Init /\ D!Init
  /\ \/ part = "outputs"
     \/ part = "drm" /\ active = FALSE

MCNext ==
  \/ part = "outputs" /\ Next /\ UNCHANGED <<part, drmVars>>
  \/ part = "drm" /\ D!Next /\ UNCHANGED <<part, vars>>

Outputs(A) == part = "outputs" /\ A /\ UNCHANGED <<part, drmVars>>
Drm(A) == part = "drm" /\ A /\ UNCHANGED <<part, vars>>
MCSpec ==
  /\ MCInit /\ [][MCNext]_allVars
  /\ WF_vars(Outputs(Frame)) /\ SF_vars(Outputs(FinishFrame(Animated)))
  /\ WF_drmVars(Drm(D!Extract)) /\ WF_drmVars(Drm(D!Present))
-----------------------------------------------------------------------------
(* A session that stays active shows a picture on every output that has    *)
(* something to show, but for two on one CRTC and for what an earlier      *)
(* renderer made (DrmDisplay's Shows); and with the virtual backend there  *)
(* is always an output again (NeverDark).  In one formula, which TLC       *)
(* checks in one pass: in the half of the outputs, no behaviour ends dark. *)
Dark == Virtual /\ outs = [s \in {} |-> None]
Shows ==
  <>[](IF part = "drm" THEN D!Settled ELSE Dark) => <>[](part = "drm" /\ D!AllShown)
=============================================================================
