----------------------------- MODULE DrmDisplay -----------------------------
(***************************************************************************)
(* The DRM backend, from the session to the picture on a connector.  What  *)
(* it needs is opened one upon the other: the device, the allocator on the *)
(* device, the renderer on the allocator, a surface for each connector.    *)
(* Each step may fail and is tried again in the next frame.  A session     *)
(* that is paused loses all of it at the next frame's start; a session     *)
(* that comes back starts anew.                                            *)
(*                                                                         *)
(* What is not lost is GlesExecutionState: the render targets of outputs   *)
(* and the shader programs stay, made by a renderer that is gone, and the  *)
(* next one is given them.  Whether it can draw with them is external, and *)
(* so is what becomes of two surfaces on one CRTC.                         *)
(*                                                                         *)
(* The session changes while the event loop is polled; a frame is Extract  *)
(* and, after the other schedules, Present.                                *)
(*                                                                         *)
(* An operator that precedes its correct form under another name is a slip *)
(* the properties must catch: the specification does not use it.           *)
(***************************************************************************)
EXTENDS Naturals, Sequences, FiniteSets

CONSTANTS Connectors,   \* connectors of the device
          Crtcs,        \* for each the CRTCs its encoders can use, in order of preference
          Shaders,      \* the key of what all outputs share in GlesExecutionState
          MaxSwitches,  \* bound: changes of the session
          MaxFailures,  \* bound: steps that fail
          MaxPlugs,     \* bound: changes of connectors, outputs and what they have to show
          None

CrtcsAssumption == \A c \in Connectors : Len(Crtcs[c]) > 0
FailuresAssumption == {MaxSwitches, MaxFailures, MaxPlugs} \subseteq Nat

VARIABLES
  phase,     \* "poll" or "present"
  session,   \* DrmSessionState: active, was_active
  device,    \* SharedDrmState: None or the number of the opening
  heads,     \* the connectors found connected at the last opening, and the CRTC each would get
  gbm,       \* SharedGbmState: the device it was made on
  renderer,  \* DrmRenderState.renderer: the device of its allocator
  surfaces,  \* DrmRenderState.surfaces: connector -> [on, crtc]
  execution, \* GlesExecutionState: outputs with targets, Shaders, and the renderer of each
  survivors, \* history: those of them that were there when a session was paused
  outputs,   \* outputs of this backend that are enabled; each has a connector
  filled,    \* outputs whose compiled frame has something to show (compiled elsewhere)
  openings,
  picture,   \* what a connector scans out: None, or the opening its frame was made in
  left       \* bounds: switches, failures and plugs to come

pipeline == <<device, heads, gbm, renderer, surfaces, openings, picture>>
vars == <<phase, session, pipeline, execution, survivors, outputs, filled, left>>

Empty == [c \in {} |-> None]
Only(f, keys) == [i \in DOMAIN f \cap keys |-> f[i]]

Init ==
  /\ phase = "poll" /\ session \in {[active |-> a, was |-> a] : a \in BOOLEAN}
  /\ device = None /\ heads = Empty /\ gbm = None /\ renderer = None /\ surfaces = Empty
  /\ execution = Empty /\ survivors = {}
  /\ outputs = {} /\ filled = Connectors /\ openings = 0
  /\ picture = [c \in Connectors |-> None]
  /\ left = [switches |-> MaxSwitches, failures |-> MaxFailures, plugs |-> MaxPlugs]

-----------------------------------------------------------------------------
(* ActivateSession, PauseSession                                           *)
SwitchSession ==
  /\ phase = "poll" /\ left.switches > 0
  /\ session' = [session EXCEPT !.active = ~@]
  /\ left' = [left EXCEPT !.switches = @ - 1]
  /\ picture' = IF session.active THEN [c \in Connectors |-> None] ELSE picture
  /\ UNCHANGED <<phase, device, heads, gbm, renderer, surfaces, execution, survivors, outputs,
                 filled, openings>>

(* What was made for an output is found again by its id and its size.      *)
Forget(c) ==
  /\ execution' = Only(execution, DOMAIN execution \ {c})
  /\ survivors' = survivors \ {c}

(* An output is enabled, or disabled (it comes back under another id, and  *)
(* its connector may lose its CRTC), or given another mode.                *)
Enable(c) ==
  /\ c \notin outputs /\ outputs' = outputs \cup {c}
  /\ UNCHANGED <<pipeline, execution, survivors, filled>>
Disable(c) ==
  /\ c \in outputs /\ outputs' = outputs \ {c} /\ Forget(c)
  /\ heads' \in IF c \in DOMAIN heads THEN {heads, [heads EXCEPT ![c] = Crtcs[c][1]]} ELSE {heads}
  /\ UNCHANGED <<device, gbm, renderer, surfaces, openings, picture, filled>>
Resize(c) ==
  /\ c \in outputs /\ Forget(c)
  /\ UNCHANGED <<pipeline, outputs, filled>>

(* Windows and backgrounds come to an output and leave it.                 *)
Fill(c) ==
  /\ filled' = IF c \in filled THEN filled \ {c} ELSE filled \cup {c}
  /\ UNCHANGED <<pipeline, execution, survivors, outputs>>

Reconfigure(c) ==
  /\ phase = "poll" /\ openings > 0 /\ left.plugs > 0
  /\ left' = [left EXCEPT !.plugs = @ - 1]
  /\ Enable(c) \/ Disable(c) \/ Resize(c) \/ Fill(c)
  /\ UNCHANGED <<phase, session>>

-----------------------------------------------------------------------------
(* A step that could be done and is not has failed.  Failures end.         *)
Spent(n) == n <= left.failures /\ left' = [left EXCEPT !.failures = @ - n]

(* extract_session: what belongs to a paused session is dropped.           *)
Dropped == session.was /\ ~session.active
KeptSurfacesForgotten == surfaces
KeptSurfaces == IF Dropped THEN Empty ELSE surfaces

(* ensure_drm_device: opened once the session is active, with a list of    *)
(* connectors that is never read again.                                    *)
OpensOnce == device = None /\ session.active /\ openings = 0
Opens == device = None /\ session.active

(* What an opening finds.  The CRTC of a connector is that attached to it  *)
(* now, whatever another session left, or the first an encoder can use     *)
(* (pick_crtc); nothing keeps two connectors from the same.  A connector   *)
(* that came or went since the last opening counts as a change.            *)
Crtc(c) == {Crtcs[c][i] : i \in DOMAIN Crtcs[c]}
Changed(found) ==
  IF openings = 0 THEN 0
  ELSE Cardinality((found \ DOMAIN heads) \cup (DOMAIN heads \ found))
Finds(found) ==
  /\ heads' \in [found -> UNION {Crtc(c) : c \in Connectors}]
  /\ \A c \in found : heads'[c] \in Crtc(c)
  \* every connector found is announced, and its output comes up enabled
  /\ outputs' = outputs \cup found

Extract ==
  /\ phase = "poll" /\ phase' = "present"
  /\ session' = [session EXCEPT !.was = session.active]
  /\ LET kept == IF Dropped THEN None ELSE device
         gbmKept == IF Dropped THEN None ELSE gbm IN
     \E opened, allocated \in BOOLEAN, found \in SUBSET Connectors :
       /\ opened => kept = None /\ Opens
       /\ device' = IF opened THEN openings + 1 ELSE kept
       /\ openings' = IF opened THEN openings + 1 ELSE openings
       /\ IF opened THEN Finds(found) ELSE found = {} /\ UNCHANGED <<heads, outputs>>
       \* ensure_gbm_allocator
       /\ allocated => session.active /\ gbmKept = None /\ device' # None
       /\ gbm' = IF allocated THEN device' ELSE gbmKept
       \* what could be done and was not is a failure
       /\ LET failed == (IF kept = None /\ Opens /\ ~opened THEN 1 ELSE 0)
                        + (IF session.active /\ gbmKept = None /\ device' # None /\ ~allocated THEN 1 ELSE 0)
              changed == IF opened THEN Changed(found) ELSE 0 IN
          /\ failed <= left.failures /\ changed <= left.plugs
          /\ left' = [left EXCEPT !.failures = @ - failed, !.plugs = @ - changed]
  /\ renderer' = IF Dropped THEN None ELSE renderer
  /\ surfaces' = KeptSurfaces
  /\ survivors' = IF Dropped THEN DOMAIN execution ELSE survivors
  /\ UNCHANGED <<execution, filled, picture>>

-----------------------------------------------------------------------------
(* render_drm_outputs                                                      *)
Ready == session.active /\ outputs # {} /\ device # None /\ gbm # None

(* The outputs whose connector the device knows to be connected.           *)
Seen == outputs \cap DOMAIN heads

CrtcOf(c) == IF c \in DOMAIN surfaces THEN surfaces[c].crtc ELSE heads[c]

(* Outputs that share their CRTC: they may fail, and take the picture from *)
(* one another, in every frame.                                            *)
Contested ==
  {c \in Seen : \E d \in (Seen \cup DOMAIN surfaces) \ {c} : CrtcOf(d) = CrtcOf(c)}

(* What an earlier renderer made: drawing with it may fail in every frame. *)
Stale(key, now) == key \in DOMAIN execution /\ execution[key] # now
Excused(c, now) == c \in Contested \/ Stale(c, now) \/ Stale(Shaders, now)

(* The renderer could not be made.                                         *)
NoRenderer ==
  /\ Ready /\ renderer = None /\ Spent(1)
  /\ UNCHANGED <<renderer, surfaces, execution, picture>>

(* Surfaces are made, targets prepared (and kept from frame to frame,      *)
(* whatever renderer made them), and what there is to show is drawn.  An   *)
(* output that is left out in between keeps its picture.  At the end the   *)
(* surfaces of outputs that are gone are dropped.                          *)
Draw ==
  /\ Ready
  /\ renderer' = IF renderer = None THEN gbm ELSE renderer
  /\ \E made \in SUBSET (Seen \ DOMAIN surfaces) :
     \E prepared \in SUBSET (Seen \cap (made \cup DOMAIN surfaces)), shared \in SUBSET {Shaders} :
     \E drawn \in SUBSET (prepared \cap filled) :
     \E lost \in SUBSET {c \in Contested : c \in drawn \/ picture[c] # None} :
       /\ surfaces' = Only([c \in made \cup DOMAIN surfaces |->
            IF c \in made THEN [on |-> device, crtc |-> heads[c]] ELSE surfaces[c]], Seen)
       /\ execution' = [k \in DOMAIN execution \cup prepared \cup shared |->
            IF k \in DOMAIN execution THEN execution[k] ELSE renderer']
       /\ picture' = [c \in Connectors |->
            IF c \notin Seen \/ c \in lost THEN None ELSE IF c \in drawn THEN device ELSE picture[c]]
       /\ Spent(Cardinality({c \in (Seen \cap filled) \ drawn : ~Excused(c, renderer')}))

Present ==
  /\ phase = "present" /\ phase' = "poll"
  /\ \/ ~Ready /\ UNCHANGED <<renderer, surfaces, execution, picture, left>>
     \/ NoRenderer
     \/ Draw
  /\ UNCHANGED <<session, device, heads, gbm, survivors, outputs, filled, openings>>

Next ==
  \/ SwitchSession \/ \E c \in Connectors : Reconfigure(c)
  \/ Extract \/ Present

Spec == Init /\ [][Next]_vars /\ WF_vars(Extract) /\ WF_vars(Present)

-----------------------------------------------------------------------------
(* Device, allocator, renderer and surfaces are all of the device that is  *)
(* open now.  The targets and shader programs in GlesExecutionState are of *)
(* the renderer there is, except those that outlived a pause: these alone  *)
(* are still of an earlier one, until their output is disabled or changes  *)
(* its size.                                                               *)
OneOpening ==
  /\ gbm \in {None, device} /\ renderer \in {None, gbm}
  /\ \A c \in DOMAIN surfaces : surfaces[c].on = device
  /\ DOMAIN surfaces # {} => renderer # None
  /\ \A k \in DOMAIN execution \ survivors : renderer # None /\ execution[k] = renderer

(* Failures and changes have ended; every enabled output that has          *)
(* something to show and whose connector is there has a picture.           *)
Settled == left = [switches |-> 0, failures |-> 0, plugs |-> 0]
AllShown ==
  session.active => \A c \in Seen \cap filled : picture[c] # None \/ Excused(c, renderer)

(* Once failures and changes end, an active session shows a picture on     *)
(* every enabled output that has something to show and whose connector is  *)
(* there, however often it was paused and whatever failed before.  Not     *)
(* claimed where two outputs share a CRTC, or where what an earlier        *)
(* renderer made is still in use.                                          *)
Shows == <>[]Settled => <>[]AllShown
=============================================================================
