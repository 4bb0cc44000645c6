--------------------------- MODULE OutputLifecycle ---------------------------
(***************************************************************************)
(* How outputs come, go and are configured.                                *)
(*                                                                         *)
(* Output entities live in the main world; the backends that have screens  *)
(* live in the Wayland sub-app.  In each frame the sub-app takes a snapshot *)
(* of the outputs, lets the backends announce what they have, turns the    *)
(* configuration and the requests of the main world into a plan of         *)
(* connections, disconnections and property updates, and hands the plan to *)
(* the main world, which carries it out at the start of the next frame,    *)
(* after the next snapshot has been taken.  So every decision about an     *)
(* output is made on a state at least one plan behind.                     *)
(*                                                                         *)
(* One action per system, and one per iteration where a system loops over  *)
(* a queue.  Modelled are the DRM backend (connectors, session pause and   *)
(* resume) and the virtual backend; properties of an output are one mode,  *)
(* its viewport is one of a few values.                                    *)
(*                                                                         *)
(* An operator that precedes its correct form under another name is a slip *)
(* the properties must catch: the specification does not use it.           *)
(***************************************************************************)
EXTENDS Naturals, Sequences, FiniteSets, SequencesExt

CONSTANTS Connectors,    \* connected DRM connectors; each names its output
          Virtual,       \* whether the virtual backend is installed
          Primary,       \* the local id of the virtual backend's outputs
          OtherNames,    \* output names that are not connectors
          Fallback,      \* the name of a virtual output the configuration does not name
          Modes,
          Preferred,     \* the mode a backend announces an output with
          Invalid,       \* a mode string that does not parse
          Viewports, Origin,
          Configs,       \* values CompositorConfig.outputs may take
          NoConfig, None,
          MaxControls,   \* bound: output commands
          MaxReloads,    \* bound: changes of the configuration
          MaxSwitches    \* bound: pauses and resumes of the session

Names == Connectors \cup OtherNames
Owners == Connectors \cup IF Virtual THEN {Primary} ELSE {}

ConfiguredOutput == [name : Names, enabled : BOOLEAN, mode : Modes \cup {Invalid}]

ASSUME NamesType == Connectors \cap OtherNames = {} /\ Fallback \in OtherNames
ASSUME OwnersType == Virtual \in BOOLEAN /\ Primary \notin Connectors
ASSUME FiniteNames == IsFiniteSet(Names)
ASSUME ModesType == Preferred \in Modes /\ Invalid \notin Modes /\ None \notin Modes
ASSUME MarkersType == None \notin BOOLEAN
ASSUME ViewportsType == Origin \in Viewports /\ None \notin Viewports
ASSUME ConfigsType == Configs \subseteq Seq(ConfiguredOutput) /\ NoConfig \notin Configs
ASSUME BoundsType == MaxControls \in Nat /\ MaxReloads \in Nat /\ MaxSwitches \in Nat

VARIABLES
  stage,       \* what runs next
  \* environment
  config,      \* CompositorConfig.outputs
  active,      \* DrmSessionState.active
  spent,       \* how many controls, reloads and switches there were
  \* main world
  outs,        \* the output entities
  remembered,  \* RememberedOutputViewportState.by_name
  controls,    \* PendingOutputControls
  deferredControls, \* local deferred of apply_output_control_requests_system
  mainRequests, \* PendingOutputServerRequests of the main world
  cmds,        \* their copy in WaylandCommands
  ingress,     \* WaylandIngress.output_materialization
  commands,    \* queued ECS commands
  \* Wayland sub-app
  seen,        \* BackendPresentInputs
  requests,    \* its PendingOutputServerRequests
  events,      \* PendingBackendOutputEvents
  updates,     \* PendingBackendOutputUpdates
  lastApplied, \* last_applied_outputs
  wasActive,   \* DrmSessionState.was_active; the DRM device is open just then
  \* history
  asked,       \* what the commands given for each output ask of it
  turnedOff,   \* the outputs a command or the configuration ever turned off
  lastViewport \* the viewport each output had when it was last there

world   == <<outs, remembered, commands>>
shell   == <<controls, deferredControls, mainRequests, cmds, ingress>>
subapp  == <<seen, requests, events, updates, lastApplied, wasActive>>
outside == <<config, active, spent>>
history == <<asked, turnedOff, lastViewport>>
vars    == <<stage, outside, world, shell, subapp, history>>

Output == [name : Names, owner : Owners, mode : Modes, viewport : Viewports,
           target : Viewports \cup {None}]
Seen == [name : Names, owner : Owners, mode : Modes]
Request ==
       [op : {"enable", "disable"}, name : Names]
  \cup [op : {"configure"}, name : Names, mode : Modes \cup {Invalid}]
Control == [name : Names, enabled : BOOLEAN \cup {None}, mode : Modes \cup {Invalid, None},
            origin : Viewports \cup {None}]
Change ==
       [change : {"connected"}, owner : Owners, name : Names, mode : Modes]
  \cup [change : {"disconnected"}, owner : Owners, name : Names]
Update == [owner : Owners, mode : Modes]
Plan == [lifecycle : Seq(Change), updates : Seq(Update)]
Command ==
       [op : {"spawn"}, slot : Nat, output : Output]
  \cup [op : {"insert"}, slot : Nat, name : Names, mode : Modes]
  \cup [op : {"despawn"}, slot : Nat]

Nothing == [on |-> TRUE, mode |-> None, origin |-> None]
EmptyPlan == [lifecycle |-> <<>>, updates |-> <<>>]

Init ==
  /\ stage = "extract"
  /\ config \in Configs /\ active \in BOOLEAN
  /\ spent = [what \in {"controls", "reloads", "switches"} |-> 0]
  /\ outs = [s \in {} |-> None] /\ remembered = [n \in Names |-> None] /\ commands = <<>>
  /\ controls = <<>> /\ deferredControls = <<>> /\ mainRequests = <<>> /\ cmds = <<>>
  /\ ingress = EmptyPlan
  /\ seen = {} /\ requests = <<>> /\ events = <<>> /\ updates = <<>>
  /\ lastApplied = NoConfig /\ wasActive = FALSE
  /\ asked = [n \in Names |-> Nothing] /\ turnedOff = {}
  /\ lastViewport = [n \in Names |-> Origin]

-----------------------------------------------------------------------------
(* The extract schedule of the sub-app.                                    *)

Connected(owner, name, mode) ==
  [change |-> "connected", owner |-> owner, name |-> name, mode |-> mode]
Disconnected(owner, name) == [change |-> "disconnected", owner |-> owner, name |-> name]

\* A paused session closes the DRM device, a resumed one opens it again, and opening
\* it announces every connected connector, in the device's order.  A pause that is
\* over before the next frame goes unnoticed.
Announcement ==
  IF active /\ ~wasActive
    THEN {[i \in DOMAIN order |-> Connected(order[i], order[i], Preferred)]
            : order \in SetToSeqs(Connectors)}
    ELSE {<<>>}

\* The virtual output takes the name of the first enabled output of the
\* configuration, unless another backend has an output of that name.
Snapshot ==
  {[name |-> outs[s].name, owner |-> outs[s].owner, mode |-> outs[s].mode] : s \in DOMAIN outs}
Occupied(name, pending) ==
  \/ \E o \in Snapshot : o.name = name /\ o.owner # Primary
  \/ \E i \in DOMAIN pending : pending[i].name = name /\ pending[i].owner # Primary
FirstEnabled(i) == config[i].enabled /\ \A j \in DOMAIN config : config[j].enabled => i <= j
DesiredName(pending) ==
  IF \E i \in DOMAIN config : FirstEnabled(i) /\ ~Occupied(config[i].name, pending)
    THEN config[CHOOSE i \in DOMAIN config : FirstEnabled(i)].name
    ELSE Fallback

\* The virtual backend keeps one output of its own.
Seeded(pending) ==
  IF Virtual /\ ~\E o \in Snapshot : o.owner = Primary
    THEN <<Connected(Primary, DesiredName(pending), Preferred)>> ELSE <<>>

\* The copies at the start of the frame, backend_extract_system, and
\* ingest_backend_wayland_commands_system, which replaces the requests left over.
Extract ==
  /\ stage = "extract"
  /\ stage' = "config"
  /\ seen' = Snapshot
  /\ wasActive' = active
  /\ \E announced \in Announcement : events' = announced \o Seeded(announced)
  /\ requests' = cmds
  /\ UNCHANGED <<outside, world, shell, updates, lastApplied, history>>

Present(name) == \E o \in seen : o.name = name
EnableRequest(name) == [op |-> "enable", name |-> name]
DisableRequest(name) == [op |-> "disable", name |-> name]
ConfigureRequest(name, mode) == [op |-> "configure", name |-> name, mode |-> mode]

\* enqueue_configured_output_requests for one entry of the configuration.
EntryRequests(o) ==
  IF o.enabled
    THEN IF o.mode = Invalid THEN <<>>
         ELSE (IF Present(o.name) THEN <<>> ELSE <<EnableRequest(o.name)>>)
              \o (IF \E p \in seen : p.name = o.name /\ p.mode = o.mode
                    THEN <<>> ELSE <<ConfigureRequest(o.name, o.mode)>>)
    ELSE IF Present(o.name) THEN <<DisableRequest(o.name)>> ELSE <<>>

Listed(c) == {c[i].name : i \in DOMAIN c}
Unlisted == {o.name : o \in seen} \ Listed(config)

ConfigRequests ==
  LET upTo[i \in 0 .. Len(config)] ==
        IF i = 0 THEN <<>> ELSE upTo[i - 1] \o EntryRequests(config[i])
  IN  upTo[Len(config)]
        \o [i \in 1..Cardinality(Unlisted) |-> DisableRequest(SetToSeq(Unlisted)[i])]

Disables(queue) == {r.name : r \in {q \in ToSet(queue) : q.op = "disable"}}

\* sync_configured_outputs_system: a configuration is translated once.
SyncConfigured ==
  /\ stage = "config"
  /\ stage' = "requests"
  /\ IF lastApplied = config \/ config = <<>>
       THEN UNCHANGED <<requests, turnedOff>>
       ELSE requests' = requests \o ConfigRequests /\ turnedOff' = turnedOff \cup Disables(ConfigRequests)
  /\ lastApplied' = config
  /\ UNCHANGED <<outside, world, shell, seen, events, updates, wasActive,
                 asked, lastViewport>>

\* apply_output_server_requests_system, one action per request.  What it defers is
\* replaced by the next ingest, so it is not kept here.
CurrentRequest == Head(requests)
IsRequest(op) == stage = "requests" /\ requests # <<>> /\ CurrentRequest.op = op

NextRequest ==
  /\ requests' = Tail(requests)
  /\ UNCHANGED <<stage, outside, world, shell, seen, lastApplied, wasActive, history>>

Announced(name) ==
  \E i \in DOMAIN events : events[i].change = "connected" /\ events[i].name = name

EnableOutput ==
  /\ IsRequest("enable")
  /\ LET n == CurrentRequest.name IN
     events' = IF Present(n) \/ Announced(n) \/ ~Virtual
                 THEN events ELSE Append(events, Connected(Primary, n, Preferred))
  /\ UNCHANGED updates /\ NextRequest

OwnersOf(n) == {o.owner : o \in {p \in seen : p.name = n}}

DisableOutput ==
  /\ IsRequest("disable")
  /\ LET n == CurrentRequest.name IN
     IF Present(n)
       THEN \E owner \in OwnersOf(n) : events' = Append(events, Disconnected(owner, n))
       ELSE UNCHANGED events
  /\ UNCHANGED updates /\ NextRequest

ConfigureOutput ==
  /\ IsRequest("configure")
  /\ LET n == CurrentRequest.name IN
     IF Present(n) /\ CurrentRequest.mode # Invalid
       THEN \E owner \in OwnersOf(n) :
              updates' = Append(updates, [owner |-> owner, mode |-> CurrentRequest.mode])
       ELSE UNCHANGED updates
  /\ UNCHANGED events /\ NextRequest

\* The queue is worked off and the sync back begins.
EndRequests ==
  /\ stage = "requests" /\ requests = <<>>
  /\ stage' = "materialize"
  /\ UNCHANGED <<outside, world, shell, subapp, history>>

-----------------------------------------------------------------------------
(* synchronize_backend_outputs_system: the main world carries out the plan *)
(* of the last frame.  It matches against the outputs as they are before   *)
(* the plan: spawns, inserts and despawns are queued commands.             *)

Owned(owner) == {s \in DOMAIN outs : outs[s].owner = owner}

IsChange(change) ==
  /\ stage = "materialize" /\ ingress.lifecycle # <<>>
  /\ Head(ingress.lifecycle).change = change
NextChange ==
  /\ ingress' = [ingress EXCEPT !.lifecycle = Tail(@)]
  /\ UNCHANGED <<stage, outside, outs, remembered, controls, deferredControls, mainRequests, cmds,
                 subapp, history>>

FreeSlot ==
  LET taken == DOMAIN outs \cup {commands[i].slot : i \in DOMAIN commands}
  IN CHOOSE s \in 1..(Cardinality(taken) + 1) : s \notin taken

Restored(n) == IF remembered[n] = None THEN Origin ELSE remembered[n]

\* An output the backend already has is given the announced device and properties.
MatchNothing(owner) == {}
Match(owner) == Owned(owner)

MaterializeConnected ==
  /\ IsChange("connected")
  /\ LET c == Head(ingress.lifecycle) IN
     IF Match(c.owner) # {}
       THEN \E s \in Match(c.owner) :
              commands' = Append(commands,
                [op |-> "insert", slot |-> s, name |-> c.name, mode |-> c.mode])
       ELSE commands' = Append(commands,
              [op |-> "spawn", slot |-> FreeSlot,
               output |-> [name |-> c.name, owner |-> c.owner, mode |-> c.mode,
                           viewport |-> Restored(c.name), target |-> None]])
  /\ NextChange

MaterializeDisconnected ==
  /\ IsChange("disconnected")
  /\ LET doomed == SetToSeq(Owned(Head(ingress.lifecycle).owner)) IN
     commands' = commands \o [i \in DOMAIN doomed |-> [op |-> "despawn", slot |-> doomed[i]]]
  /\ NextChange

\* Property updates go to the first output of that owner, at once.
UpdateProperties ==
  /\ stage = "materialize" /\ ingress.lifecycle = <<>> /\ ingress.updates # <<>>
  /\ LET u == Head(ingress.updates) IN
     IF Owned(u.owner) # {}
       THEN \E s \in Owned(u.owner) : outs' = [outs EXCEPT ![s].mode = u.mode]
       ELSE UNCHANGED outs
  /\ ingress' = [ingress EXCEPT !.updates = Tail(@)]
  /\ UNCHANGED <<stage, outside, remembered, commands, controls, deferredControls, mainRequests,
                 cmds, subapp, history>>

\* An insert on an entity that is gone is reported and skipped.
Applied(c) ==
  CASE c.op = "spawn"   -> [s \in DOMAIN outs \cup {c.slot} |-> IF s = c.slot THEN c.output ELSE outs[s]]
    [] c.op = "insert"  -> [s \in DOMAIN outs |->
                              IF s = c.slot THEN [outs[s] EXCEPT !.name = c.name, !.mode = c.mode]
                                            ELSE outs[s]]
    [] c.op = "despawn" -> [s \in DOMAIN outs \ {c.slot} |-> outs[s]]

ApplyCommand ==
  /\ stage = "materialize" /\ ingress = EmptyPlan /\ commands # <<>>
  /\ outs' = Applied(Head(commands))
  /\ commands' = Tail(commands)
  /\ UNCHANGED <<stage, outside, remembered, shell, subapp, history>>

EndMaterialize ==
  /\ stage = "materialize" /\ ingress = EmptyPlan /\ commands = <<>>
  /\ stage' = "main"
  /\ UNCHANGED <<outside, world, shell, subapp, history>>

-----------------------------------------------------------------------------
(* The rest of the frame: users, the session and the configuration file    *)
(* act, then the main world's extract schedule.                            *)

Spend(what, max) ==
  /\ stage = "main"
  /\ spent[what] < max
  /\ spent' = [spent EXCEPT ![what] = @ + 1]

Blank(n) == [name |-> n, enabled |-> None, mode |-> None, origin |-> None]

\* PendingOutputControls.select finds the control of an output or adds one.
MergedByReplacing(n, field, value) ==
  SelectSeq(controls, LAMBDA c : c.name # n) \o <<[Blank(n) EXCEPT ![field] = value]>>
Merged(n, field, value) ==
  LET known == {i \in DOMAIN controls : controls[i].name = n}
  IN IF known = {} THEN Append(controls, [Blank(n) EXCEPT ![field] = value])
     ELSE [i \in DOMAIN controls |->
             IF i \in known THEN [controls[i] EXCEPT ![field] = value] ELSE controls[i]]

GiveCommand(n, field, value) ==
  /\ Spend("controls", MaxControls)
  /\ controls' = Merged(n, field, value)
  /\ UNCHANGED <<stage, config, active, world, deferredControls, mainRequests, cmds, ingress, subapp,
                 lastViewport>>

TurnOutput(n, on) ==
  /\ GiveCommand(n, "enabled", on)
  /\ asked' = [asked EXCEPT ![n].on = on, ![n].mode = None]
  /\ turnedOff' = IF on THEN turnedOff ELSE turnedOff \cup {n}
SetMode(n, mode) ==
  /\ GiveCommand(n, "mode", mode)
  /\ asked' = [asked EXCEPT ![n].mode = mode]
  /\ UNCHANGED turnedOff
MoveViewport(n, v) ==
  /\ GiveCommand(n, "origin", v)
  /\ asked' = [asked EXCEPT ![n].origin = v]
  /\ UNCHANGED turnedOff

ReloadConfig ==
  /\ Spend("reloads", MaxReloads)
  /\ config' \in Configs \ {config}
  /\ UNCHANGED <<stage, active, world, shell, subapp, history>>

SwitchSession ==
  /\ Spend("switches", MaxSwitches)
  /\ active' = ~active
  /\ UNCHANGED <<stage, config, world, shell, subapp, history>>

Named(n) == {s \in DOMAIN outs : outs[s].name = n}

ControlRequests(c) ==
  (CASE c.enabled = None -> <<>>
     [] c.enabled = TRUE -> <<EnableRequest(c.name)>>
     [] c.enabled = FALSE -> <<DisableRequest(c.name)>>)
  \o (IF c.mode = None THEN <<>> ELSE <<ConfigureRequest(c.name, c.mode)>>)

\* A viewport move starts an animation.
Moved(o, v) ==
  IF v = None THEN o ELSE [o EXCEPT !.target = IF v = o.viewport THEN None ELSE v]

\* A move of an output that is not there waits.
MoveWaits(c) ==
  IF c.origin = None THEN <<>> ELSE <<[c EXCEPT !.enabled = None, !.mode = None]>>

\* One control of apply_output_control_requests_system.
ApplyControl ==
  /\ stage \in {"main", "controls"} /\ controls # <<>>
  /\ LET c == Head(controls) IN
     /\ mainRequests' = mainRequests \o ControlRequests(c)
     /\ IF Named(c.name) # {}
          THEN /\ \E s \in Named(c.name) : outs' = [outs EXCEPT ![s] = Moved(@, c.origin)]
               /\ UNCHANGED deferredControls
          ELSE /\ UNCHANGED outs
               /\ deferredControls' = deferredControls \o MoveWaits(c)
  /\ controls' = Tail(controls)
  /\ stage' = "controls"
  /\ UNCHANGED <<outside, remembered, commands, cmds, ingress, subapp, history>>

RememberedBefore(n, s) == outs[s].viewport
RememberedAfter(n, s) == outs'[s].viewport

\* Animations advance, then every viewport is remembered; the protocol schedule
\* hands the plan over, the layout schedule copies the requests and clears none of
\* them, and the present schedule clears the sub-app's queues.
Arrived(o) == [o EXCEPT !.viewport = o.target, !.target = None]
Animated == {s \in DOMAIN outs : outs[s].target # None}

FinishFrame(arriving) ==
  /\ stage \in {"main", "controls"} /\ controls = <<>>
  /\ stage' = "extract"
  /\ controls' = deferredControls /\ deferredControls' = <<>>
  /\ outs' = [s \in DOMAIN outs |-> IF s \in arriving THEN Arrived(outs[s]) ELSE outs[s]]
  /\ \E last \in [{n \in Names : Named(n) # {}} -> DOMAIN outs] :
       /\ \A n \in DOMAIN last : last[n] \in Named(n)
       /\ remembered' = [n \in Names |-> IF n \in DOMAIN last THEN RememberedAfter(n, last[n])
                                                              ELSE remembered[n]]
       /\ lastViewport' = [n \in Names |-> IF n \in DOMAIN last THEN outs'[last[n]].viewport
                                                                ELSE lastViewport[n]]
  /\ ingress' = [lifecycle |-> events, updates |-> updates]
  /\ cmds' = mainRequests
  /\ events' = <<>> /\ updates' = <<>>
  /\ UNCHANGED <<outside, commands, mainRequests, seen, requests, lastApplied, wasActive,
                 asked, turnedOff>>

Frame ==
  \/ Extract \/ SyncConfigured \/ EnableOutput \/ DisableOutput \/ ConfigureOutput \/ EndRequests
  \/ MaterializeConnected \/ MaterializeDisconnected \/ UpdateProperties \/ ApplyCommand
  \/ EndMaterialize
  \/ ApplyControl \/ \E arriving \in SUBSET Animated : FinishFrame(arriving)

Users ==
  \E n \in Names :
    \/ \E on \in BOOLEAN : TurnOutput(n, on)
    \/ \E mode \in Modes \cup {Invalid} : SetMode(n, mode)
    \/ \E v \in Viewports : MoveViewport(n, v)

Next == Frame \/ Users \/ ReloadConfig \/ SwitchSession

\* The run loop executes every schedule in every frame, and time ends an animation.
Spec ==
  /\ Init /\ [][Next]_vars
  /\ WF_vars(Frame) /\ SF_vars(FinishFrame(Animated))

-----------------------------------------------------------------------------
Distinct(queue) == \A i, j \in DOMAIN queue : queue[i].name = queue[j].name => i = j

TypeOK ==
  /\ stage \in {"extract", "config", "requests", "materialize", "main", "controls"}
  /\ config \in Configs /\ active \in BOOLEAN
  /\ spent \in [{"controls", "reloads", "switches"} -> Nat]
  /\ DOMAIN outs \subseteq Nat /\ outs \in [DOMAIN outs -> Output]
  /\ remembered \in [Names -> Viewports \cup {None}] /\ commands \in Seq(Command)
  /\ controls \in Seq(Control) /\ deferredControls \in Seq(Control)
  /\ mainRequests \in Seq(Request) /\ cmds \in Seq(Request)
  /\ ingress \in Plan
  /\ seen \subseteq Seen /\ requests \in Seq(Request)
  /\ events \in Seq(Change) /\ updates \in Seq(Update)
  /\ lastApplied \in Configs \cup {NoConfig} /\ wasActive \in BOOLEAN
  /\ asked \in [Names -> [on : BOOLEAN, mode : Modes \cup {Invalid, None},
                          origin : Viewports \cup {None}]]
  /\ turnedOff \subseteq Names /\ lastViewport \in [Names -> Viewports]

Shown(n) == Named(n) # {}
\* As the main world's schedules see it: not between a plan's updates and its commands.
ShownIn(n, mode) == stage # "materialize" /\ \E s \in Named(n) : outs[s].mode = mode

\* A connector has one output at most, although a resumed session announces the
\* connectors whose outputs are still there again, and the announcement is matched
\* against the world a frame later, while disconnections are queued.
ConnectorsOnce == \A c \in Connectors : Cardinality(Owned(c)) <= 1

\* With the types of what both worlds keep of outputs.
OutputsSound == TypeOK /\ ConnectorsOnce

\* A connector's output goes away only if a command or the configuration turned it off
\* by name: not because another one was, nor because the session was paused.  (Virtual
\* outputs share one local id, so turning off one turns off all.)
OnlyTurnedOffGo ==
  [][\A s \in DOMAIN outs :
       s \notin DOMAIN outs' => outs[s].owner = Primary \/ outs[s].name \in turnedOff]_vars

\* An output that comes back shows the part of the workspace it showed last, through
\* disconnection, reconnection and animations that end in the frame it goes.
ViewportSurvives ==
  [][\A s \in DOMAIN outs' \ DOMAIN outs : outs'[s].viewport = lastViewport[outs'[s].name]]_vars

\* An output stays until it is turned off by name, and comes back as it was.
OutputsStay == OnlyTurnedOffGo /\ ViewportSurvives

\* An active session shows every connector that was not turned off.
ConnectorsShown ==
  \A c \in Connectors : active ~> Shown(c) \/ c \in turnedOff \/ ~active

\* The virtual backend keeps an output alive, whatever is turned off.
NeverDark == Virtual => []<>(outs # [s \in {} |-> None])

\* A viewport move ends with the output there, also one that was asked for before
\* the output appeared, unless another move or a disconnection comes between.
MoveArrives ==
  \A n \in Connectors, v \in Viewports :
    asked[n].origin = v /\ active
      ~> \/ \E s \in Named(n) : outs[s].viewport = v
         \/ asked[n].origin # v \/ n \in turnedOff \/ ~active

\* A mode asked for a connector's output that is there is set, also when the configuration or a
\* resumed session sets another one in the same frame; unless it was turned off.
ModeArrives ==
  \A n \in Connectors, m \in Modes :
    asked[n].mode = m /\ Shown(n) ~> ShownIn(n, m) \/ asked[n].mode # m \/ n \in turnedOff

InForce(c) ==
  /\ \A i \in DOMAIN c :
       IF c[i].enabled THEN c[i].mode # Invalid => ShownIn(c[i].name, c[i].mode)
                       ELSE ~Shown(c[i].name)
  /\ c # <<>> => \A n \in Names : Shown(n) => n \in Listed(c)

\* A configuration read while every connector is shown comes into force, unless a
\* command or a pause intervenes.  A plan that is still to be carried out then may
\* turn an output off that the snapshot has.
Calm ==
  /\ stage = "extract" /\ ingress = EmptyPlan /\ wasActive = active
  /\ \A n \in Connectors : Shown(n)
Disturbed == ~active \/ spent["controls"] > 0
ReloadTakesEffect ==
  \A c \in Configs \ {<<>>} :
    config = c /\ lastApplied # c /\ Calm ~> InForce(c) \/ config # c \/ Disturbed

\* What was asked for comes: connectors, moves, modes and configurations.
RequestsArrive == ConnectorsShown /\ MoveArrives /\ ModeArrives /\ ReloadTakesEffect
=============================================================================
