----------------------------- MODULE Workspaces -----------------------------
(***************************************************************************)
(* Workspaces, the outputs that show them and the windows that live on     *)
(* them.                                                                   *)
(*                                                                         *)
(* Six systems of the shell run one after the other in every frame: one    *)
(* makes sure there is a workspace, one carries out the staged controls,   *)
(* one gives every output a workspace of its own, one remembers which,     *)
(* one marks the workspace of the focused output active and one puts the   *)
(* workspaces no output shows to sleep, with their windows.  Between two   *)
(* frames outputs come and go, windows open and close and the pointer      *)
(* moves.                                                                  *)
(*                                                                         *)
(* One action per system, and one per iteration where a system loops over  *)
(* controls or outputs, so that the order in which a query yields its      *)
(* entities, which nothing fixes, is the order of the actions.  A workspace *)
(* entity is a number; so is a name: n >= 0 stands for the decimal of n    *)
(* and a negative number for a word.                                       *)
(*                                                                         *)
(* An operator that precedes its correct form under another name is a slip *)
(* the properties must catch: the specification does not use it.           *)
(***************************************************************************)
EXTENDS Integers, Sequences, FiniteSets, FiniteSetsExt

CONSTANTS Outputs, Windows,
          Entities,    \* bound: entities a workspace may be, numbered like their ids where they can be
          MaxId,       \* bound: the largest workspace id
          Controls,    \* the controls the user may stage
          MaxBatch,    \* bound: controls staged for one frame
          MaxSpaces,   \* bound: no control is staged while there are more workspaces
          IdBound,     \* bound: no control is staged while an id is as large
          None, Stale, Gone

Ids == 0 .. MaxId
NoId == -1
Lookup == [by : {"id", "name"}, key : Int]
Selector == Lookup \cup [by : {"active"}, key : {0}]
Control == [kind : {"create", "switch"}, target : Lookup]
           \cup [kind : {"destroy"}, target : Selector]

ASSUME EntitiesType == Entities \subseteq Nat /\ Entities # {} /\ IsFiniteSet(Entities)
ASSUME MaxIdType == MaxId \in Nat \ {0}
ASSUME ControlsType == Controls \subseteq Control
ASSUME IdTargets == \A c \in Controls : c.target.by = "id" => c.target.key \in Ids
ASSUME MarkersType == {None, Stale} \cap Outputs = {} /\ {None, Gone} \cap Entities = {}

VARIABLES
  pc,         \* the system that runs next, or "idle" between two frames
  \* Workspace entities
  live,       \* the entities there are
  id, name,   \* Workspace.id and Workspace.name
  active,     \* those whose Workspace.active is set
  hidden,     \* those with Disabled
  \* outputs
  connected,  \* the outputs there are
  route,      \* OutputCurrentWorkspace, NoId without one
  memory,     \* RememberedOutputWorkspaceState, by the name of the output
  focused,    \* FocusedOutputState, Stale when the output is gone
  primary,    \* WaylandIngress.primary_output, likewise
  \* windows
  mapped,     \* the windows whose client has them mapped
  home,       \* ChildOf, None without a parent, Gone without an entity
  asleep,     \* the windows with Disabled
  \* controls
  pending,    \* PendingWorkspaceControls
  \* local to the systems
  batch,      \* what workspace_command_system read when it began, and its snapshot
  todo,       \* the outputs housekeeping has not looked at
  assigned,   \* the ids it has given out
  needs,      \* the outputs that need one, in order
  \* history
  before,     \* what each output showed last before this frame
  switched,   \* the id each output was switched to in this frame
  doomed      \* the ids of the workspaces destroyed in this frame

spaces  == <<live, id, name, active, hidden>>
outputs == <<connected, route, memory>>
pointer == <<focused, primary>>
windows == <<mapped, home, asleep>>
locals  == <<batch, todo, assigned, needs>>
history == <<before, switched, doomed>>
vars    == <<pc, spaces, outputs, pointer, windows, pending, locals, history>>

NoRoutes == [o \in Outputs |-> NoId]
NoBatch == [known |-> {}, lit |-> {}, entities |-> {}, routes |-> NoRoutes, aim |-> None,
            homes |-> [w \in Windows |-> None], moved |-> {}]

TypeOK ==
  /\ pc \in {"idle", "command", "survey", "assign", "remember", "mark", "sleep"}
  /\ live \subseteq Entities /\ active \subseteq live /\ hidden \subseteq live
  /\ id \in [Entities -> Ids] /\ name \in [Entities -> Int]
  /\ connected \subseteq Outputs
  /\ route \in [Outputs -> Ids \cup {NoId}] /\ memory \in [Outputs -> Ids \cup {NoId}]
  /\ focused \in Outputs \cup {None, Stale} /\ primary \in Outputs \cup {None, Stale}
  /\ mapped \subseteq Windows /\ asleep \subseteq Windows
  /\ home \in [Windows -> Entities \cup {None, Gone}]
  /\ pending \in Seq(Controls)
  /\ batch \in [known : SUBSET Entities, lit : SUBSET Entities, entities : SUBSET Entities,
                routes : [Outputs -> Ids \cup {NoId}], aim : Outputs \cup {None},
                homes : [Windows -> Entities \cup {None, Gone}], moved : SUBSET Windows]
  /\ todo \subseteq Outputs /\ assigned \subseteq Ids /\ needs \in Seq(Outputs)
  /\ before \in [Outputs -> Ids \cup {NoId}] /\ switched \in [Outputs -> Ids \cup {NoId}]
  /\ doomed \subseteq Ids

Init ==
  /\ pc = "idle"
  /\ live = {} /\ active = {} /\ hidden = {}
  /\ id = [e \in Entities |-> 0] /\ name = [e \in Entities |-> 0]
  /\ connected = {} /\ route = NoRoutes /\ memory = NoRoutes
  /\ focused = None /\ primary = None
  /\ mapped = {} /\ home = [w \in Windows |-> Gone] /\ asleep = {}
  /\ pending = <<>>
  /\ batch = NoBatch /\ todo = {} /\ assigned = {} /\ needs = <<>>
  /\ before = NoRoutes /\ switched = NoRoutes /\ doomed = {}

-----------------------------------------------------------------------------
(* Looking workspaces and outputs up                                       *)

IdsOf(S) == {id[e] : e \in S}
HasId(i) == {e \in live : id[e] = i}

\* next_workspace_id, below the bound at which it saturates.
NextId(S) == IF S = {} THEN 1 ELSE Max(IdsOf(S)) + 1

Lowest(S) == {e \in S : \A f \in S : id[e] <= id[f]}

Matches(S, l) == {e \in S : IF l.by = "id" THEN id[e] = l.key ELSE name[e] = l.key}

\* resolve_workspace_selector over a snapshot S whose active ones are A: any
\* of these may come first.
Selected(S, A, s) ==
  IF s.by # "active" THEN Matches(S, s)
  ELSE IF A \cap S # {} THEN A \cap S ELSE Lowest(S)

\* create_workspace_identity
NewId(l)   == IF l.by = "id" THEN l.key ELSE NextId(batch.known)
NewName(l) == l.key

\* An entity no workspace is or was when the batch began: the number of the
\* id if it can be, so that alike states look alike.
Free == Entities \ (live \cup batch.entities)
FreshEntity(i) == IF i \in Free THEN i ELSE CHOOSE e \in Free : TRUE

\* bound: there is an entity left, and an id.
Room(i) == Free # {} /\ i \in Ids

\* The focused output, else the primary one, else any.
Preferred == IF focused \in connected THEN {focused}
             ELSE IF primary \in connected THEN {primary}
             ELSE connected

-----------------------------------------------------------------------------
(* The systems of one frame                                                *)

\* workspace_switch_system, and what workspace_command_system reads first:
\* all switches of the batch go to the same output, as only the controls change.
StartFrame ==
  LET first == CHOOSE e \in Entities : TRUE
      live0 == IF live = {} THEN {first} ELSE live
      active0 == IF live = {} THEN {first}
                 ELSE IF active = {} THEN Lowest(live) ELSE active
  IN /\ pc = "idle"
     /\ pc' = "command"
     /\ live' = live0 /\ active' = active0
     /\ id' = IF live = {} THEN [id EXCEPT ![first] = 1] ELSE id
     /\ name' = IF live = {} THEN [name EXCEPT ![first] = 1] ELSE name
     /\ \E o \in IF connected = {} THEN {None} ELSE Preferred :
          batch' = [known |-> live0, lit |-> active0, entities |-> live0, routes |-> route,
                    aim |-> o, homes |-> home, moved |-> {}]
     /\ before' = [o \in Outputs |-> IF route[o] # NoId THEN route[o] ELSE before[o]]
     /\ UNCHANGED <<hidden, outputs, pointer, windows, pending, todo, assigned, needs,
                    switched, doomed>>

Next1 == Head(pending)
Consume == /\ pc = "command" /\ pending # <<>>
           /\ pending' = Tail(pending)

\* A workspace spawned with the given Workspace.active.
Spawn(e, i, n, lit) ==
  /\ live' = live \cup {e}
  /\ id' = [id EXCEPT ![e] = i]
  /\ name' = [name EXCEPT ![e] = n]
  /\ active' = IF lit THEN active \cup {e} ELSE active

CreateSpace ==
  /\ Consume /\ Next1.kind = "create" /\ Matches(batch.known, Next1.target) = {}
  /\ LET i == NewId(Next1.target)
     IN /\ Room(i)
        /\ Spawn(FreshEntity(i), i, NewName(Next1.target), FALSE)
        /\ batch' = [batch EXCEPT !.known = @ \cup {FreshEntity(i)}]
  /\ UNCHANGED <<pc, hidden, outputs, pointer, windows, todo, assigned, needs, history>>

\* The output shows the workspace; without an output its flag is set, and
\* cleared on the others that existed when the batch began.
Show(e, i, lit) ==
  IF batch.aim = None
  THEN /\ active' = (lit \ batch.entities) \cup ({e} \cap batch.entities)
       /\ UNCHANGED <<route, switched>>
  ELSE /\ active' = lit
       /\ route' = [route EXCEPT ![batch.aim] = i]
       /\ switched' = [switched EXCEPT ![batch.aim] = i]

SwitchSpace ==
  /\ Consume /\ Next1.kind = "switch"
  /\ \E e \in Matches(batch.known, Next1.target) :
       /\ Show(e, id[e], active)
       /\ batch' = [batch EXCEPT !.lit = {f \in batch.known : id[f] = id[e]}]
  /\ UNCHANGED <<pc, live, id, name, hidden, connected, memory, pointer, windows,
                 todo, assigned, needs, before, doomed>>

SwitchToNewSpace ==
  LET i == NewId(Next1.target)
      e == FreshEntity(i)
  IN /\ Consume /\ Next1.kind = "switch" /\ Matches(batch.known, Next1.target) = {}
     /\ Room(i)
     /\ live' = live \cup {e}
     /\ id' = [id EXCEPT ![e] = i]
     /\ name' = [name EXCEPT ![e] = NewName(Next1.target)]
     /\ Show(e, i, active \cup {e})
     /\ batch' = [batch EXCEPT !.known = @ \cup {e},
                               !.lit = {e} \cup {f \in batch.known : id[f] = i}]
     /\ UNCHANGED <<pc, hidden, connected, memory, pointer, windows, todo, assigned, needs,
                    before, doomed>>

FallbacksIgnoringActive(target) == {e \in batch.known : id[e] # id[target]}

\* The workspaces that may take the place of a destroyed one.
Fallbacks(target) ==
  LET others == {e \in batch.known : id[e] # id[target]}
      lit == IF target \in batch.lit THEN others ELSE others \cap batch.lit
  IN IF lit # {} THEN lit ELSE others

RehomeNothing(target, fallback) ==
  /\ home' = [w \in Windows |-> IF home[w] = target THEN Gone ELSE home[w]]
  /\ asleep' = {w \in asleep : home[w] # target}
  /\ batch' = [batch EXCEPT !.known = @ \ {target},
                            !.lit = {e \in batch.known \ {target} : id[e] = id[fallback]}]
  /\ UNCHANGED mapped

\* The windows the system saw on the target move to the fallback; those that
\* came there in the same batch go with it.
Rehome(target, fallback) ==
  LET home1 == [w \in Windows |-> IF home[w] # Gone /\ batch.homes[w] = target
                                  THEN fallback ELSE home[w]]
  IN /\ home' = [w \in Windows |-> IF home1[w] = target THEN Gone ELSE home1[w]]
     /\ asleep' = {w \in asleep : home1[w] # target}
     /\ batch' = [batch EXCEPT !.known = @ \ {target},
                               !.lit = {e \in batch.known \ {target} : id[e] = id[fallback]},
                               !.moved = @ \cup {w \in Windows : home1[w] # home[w]}]
     /\ UNCHANGED mapped

DestroySpace ==
  /\ Consume /\ Next1.kind = "destroy" /\ Cardinality(batch.known) > 1
  /\ \E target \in Selected(batch.known, batch.lit, Next1.target) :
     \E fallback \in Fallbacks(target) :
       /\ live' = live \ {target}
       /\ id' = [id EXCEPT ![target] = 0] /\ name' = [name EXCEPT ![target] = 0]
       /\ hidden' = hidden \ {target}
       /\ active' = ((active \ batch.entities)
                     \cup {e \in live \cap batch.entities : id[e] = id[fallback]}) \ {target}
       /\ Rehome(target, fallback)
       /\ route' = [o \in Outputs |->
                      IF o \in connected /\ batch.routes[o] = id[target] THEN id[fallback]
                      ELSE route[o]]
       /\ doomed' = doomed \cup {id[target]}
  /\ UNCHANGED <<pc, connected, memory, pointer, todo, assigned, needs, before, switched>>

IgnoreControl ==
  /\ Consume
  /\ \/ Next1.kind = "create" /\ Matches(batch.known, Next1.target) # {}
     \/ Next1.kind = "destroy" /\ Cardinality(batch.known) <= 1
     \/ Next1.kind = "destroy" /\ Selected(batch.known, batch.lit, Next1.target) = {}
  /\ UNCHANGED <<pc, spaces, outputs, pointer, windows, locals, history>>

\* The end of workspace_command_system; without outputs housekeeping returns.
EndCommands ==
  /\ pc = "command" /\ pending = <<>>
  /\ pc' = IF connected = {} THEN "remember" ELSE "survey"
  /\ todo' = connected
  /\ batch' = NoBatch
  /\ UNCHANGED <<spaces, outputs, pointer, windows, pending, assigned, needs, history>>

\* output_workspace_housekeeping_system, first loop: an output keeps a
\* workspace that exists and that no output before it has.
KeepsShared(o) == route[o] # NoId /\ HasId(route[o]) # {}

Keeps(o) == route[o] \notin assigned \cup {NoId} /\ HasId(route[o]) # {}

KeepRoute(o) ==
  /\ pc = "survey" /\ o \in todo /\ Keeps(o)
  /\ todo' = todo \ {o}
  /\ assigned' = assigned \cup {route[o]}
  /\ UNCHANGED <<pc, spaces, outputs, pointer, windows, pending, batch, needs, history>>

NeedRoute(o) ==
  /\ pc = "survey" /\ o \in todo /\ ~Keeps(o)
  /\ todo' = todo \ {o}
  /\ needs' = Append(needs, o)
  /\ UNCHANGED <<pc, spaces, outputs, pointer, windows, pending, batch, assigned, history>>

EndSurvey ==
  /\ pc = "survey" /\ todo = {}
  /\ pc' = "assign"
  /\ UNCHANGED <<spaces, outputs, pointer, windows, pending, locals, history>>

\* Second loop: the workspace remembered for the output's name, another one
\* nobody shows, a new one.
Remembered(o) == {e \in HasId(memory[o]) : id[e] \notin assigned}
Unassigned == {e \in live : id[e] \notin assigned}

Assign(i) ==
  /\ route' = [route EXCEPT ![Head(needs)] = i]
  /\ memory' = [memory EXCEPT ![Head(needs)] = i]
  /\ assigned' = assigned \cup {i}
  /\ needs' = Tail(needs)
  /\ UNCHANGED <<pc, connected, pointer, windows, pending, batch, todo, history>>

AssignRemembered ==
  /\ pc = "assign" /\ needs # <<>>
  /\ \E e \in Remembered(Head(needs)) : Assign(id[e])
  /\ UNCHANGED spaces

AssignUnassigned ==
  /\ pc = "assign" /\ needs # <<>> /\ Remembered(Head(needs)) = {}
  /\ \E e \in Unassigned : Assign(id[e])
  /\ UNCHANGED spaces

AssignNew ==
  /\ pc = "assign" /\ needs # <<>> /\ Remembered(Head(needs)) = {} /\ Unassigned = {}
  /\ Room(NextId(live))
  /\ Spawn(FreshEntity(NextId(live)), NextId(live), NextId(live), FALSE)
  /\ Assign(NextId(live))
  /\ UNCHANGED hidden

EndHousekeeping ==
  /\ pc = "assign" /\ needs = <<>>
  /\ pc' = "remember" /\ assigned' = {}
  /\ UNCHANGED <<spaces, outputs, pointer, windows, pending, batch, todo, needs, history>>

\* remember_output_workspace_routes_system
Remember ==
  /\ pc = "remember" /\ pc' = "mark"
  /\ memory' = [o \in Outputs |-> IF o \in connected /\ route[o] # NoId THEN route[o]
                                   ELSE memory[o]]
  /\ UNCHANGED <<spaces, connected, route, pointer, windows, pending, locals, history>>

\* sync_active_workspace_marker_system
Mark ==
  LET routed == UNION {HasId(route[o]) : o \in Preferred}
  IN /\ pc = "mark" /\ pc' = "sleep"
     /\ \E e \in IF routed # {} THEN routed ELSE Lowest(live) : active' = {e}
     /\ UNCHANGED <<live, id, name, hidden, outputs, pointer, windows, pending, locals, history>>

\* sync_workspace_disabled_state_system: the windows of a workspace follow it
\* when it falls asleep or wakes up, and only then.
Shown == LET visible == {e \in live : \E o \in connected : route[o] = id[e]}
         IN IF visible = {} THEN Lowest(live) ELSE visible

Sleep ==
  /\ pc = "sleep" /\ pc' = "idle"
  /\ hidden' = live \ Shown
  /\ asleep' = {w \in Windows : home[w] \in Entities
                                /\ \/ home[w] \in live \ (Shown \cup hidden)
                                   \/ w \in asleep /\ home[w] \notin Shown \cap hidden}
                \cup {w \in asleep : home[w] = None}
  /\ switched' = NoRoutes /\ doomed' = {}
  /\ UNCHANGED <<live, id, name, active, outputs, pointer, mapped, home, pending, locals, before>>

-----------------------------------------------------------------------------
(* Between two frames                                                      *)

Connect(o) ==
  /\ pc = "idle" /\ o \notin connected
  /\ connected' = connected \cup {o}
  /\ UNCHANGED <<pc, spaces, route, memory, pointer, windows, pending, locals, history>>

\* The output's id is never used again, even if its name is.
Disconnect(o) ==
  /\ pc = "idle" /\ o \in connected
  /\ connected' = connected \ {o}
  /\ route' = [route EXCEPT ![o] = NoId]
  /\ before' = [before EXCEPT ![o] = IF route[o] = NoId THEN @ ELSE route[o]]
  /\ focused' = IF focused = o THEN Stale ELSE focused
  /\ primary' = IF primary = o THEN Stale ELSE primary
  /\ UNCHANGED <<pc, spaces, memory, windows, pending, locals, switched, doomed>>

\* Away from every output the pointer leaves the focus where it is, unless
\* that output is gone.
FocusOutput(o) ==
  /\ pc = "idle" /\ focused # o /\ (o = None => focused \notin connected)
  /\ focused' = o
  /\ UNCHANGED <<pc, spaces, outputs, primary, windows, pending, locals, history>>

ChoosePrimary(o) ==
  /\ pc = "idle" /\ primary # o
  /\ primary' = o
  /\ UNCHANGED <<pc, spaces, outputs, focused, windows, pending, locals, history>>

Stage(c) ==
  /\ pc = "idle" /\ Len(pending) < MaxBatch
  /\ Cardinality(live) <= MaxSpaces /\ \A e \in live : id[e] < IdBound
  /\ pending' = Append(pending, c)
  /\ UNCHANGED <<pc, spaces, outputs, pointer, windows, locals, history>>

\* focused_or_primary_workspace_runtime_target, with workspace 1 to fall back on.
TargetSpaces ==
  LET of(S) == UNION {HasId(route[o]) : o \in S}
      asked == IF focused # None THEN of({focused} \cap connected)
               ELSE IF primary # None THEN of({primary} \cap connected)
               ELSE of(connected)
  IN IF asked # {} THEN asked ELSE HasId(1)

\* window_lifecycle_system on an Upsert: a window without an entity gets one,
\* one without a workspace gets one.
Upsert(w) ==
  /\ pc = "idle" /\ live # {}
  /\ mapped' = mapped \cup {w}
  /\ IF home[w] \in {None, Gone}
     THEN IF TargetSpaces = {} THEN home' = [home EXCEPT ![w] = None]
          ELSE \E e \in TargetSpaces : home' = [home EXCEPT ![w] = e]
     ELSE UNCHANGED home
  /\ UNCHANGED <<pc, spaces, outputs, pointer, asleep, pending, locals, history>>

Close(w) ==
  /\ pc = "idle" /\ w \in mapped
  /\ mapped' = mapped \ {w}
  /\ home' = [home EXCEPT ![w] = Gone]
  /\ asleep' = asleep \ {w}
  /\ UNCHANGED <<pc, spaces, outputs, pointer, pending, locals, history>>

Frame == \/ StartFrame \/ CreateSpace \/ SwitchSpace \/ SwitchToNewSpace \/ DestroySpace
         \/ IgnoreControl \/ EndCommands
         \/ \E o \in Outputs : KeepRoute(o) \/ NeedRoute(o)
         \/ EndSurvey \/ AssignRemembered \/ AssignUnassigned \/ AssignNew \/ EndHousekeeping
         \/ Remember \/ Mark \/ Sleep

Outside == \/ \E o \in Outputs : Connect(o) \/ Disconnect(o)
           \/ \E o \in connected \cup {None} : FocusOutput(o)
           \/ \E o \in connected : ChoosePrimary(o)
           \/ \E c \in Controls : Stage(c)
           \/ \E w \in Windows : Upsert(w) \/ Close(w)

Next == Frame \/ Outside
Spec == Init /\ [][Next]_vars

-----------------------------------------------------------------------------
(* What must hold                                                          *)

Settled == pc \in {"remember", "mark", "sleep"}

\* Once housekeeping is done every output shows one workspace, which exists,
\* and no other output shows it; until the next frame an output shows such a
\* workspace or, when it has just been connected, none.
RoutesExclusive ==
  \A o \in connected :
    /\ Settled => route[o] # NoId
    /\ Settled \/ pc = "idle" => route[o] = NoId
                                 \/ /\ HasId(route[o]) # {}
                                    /\ \A p \in connected \ {o} : route[p] # route[o]

\* No two workspaces have the same id, whatever was created, destroyed and
\* created again under the same name or number.
IdsUnique == \A e, f \in live : id[e] = id[f] => e = f

\* Well-typed, and neither an id nor a route is given out twice.
SpacesSound == TypeOK /\ IdsUnique /\ RoutesExclusive

\* An output, one that comes back after it was unplugged included, shows what
\* it showed last, unless it was switched away, the workspace is gone or
\* another output shows it now: no control and no other output's coming or
\* going takes a workspace from an output for nothing.
RouteKept ==
  Settled => \A o \in connected :
    \/ before[o] \in doomed \cup {NoId, route[o]} \/ switched[o] # NoId
    \/ HasId(before[o]) = {}
    \/ \E p \in connected \ {o} : route[p] = before[o]

\* The output a switch was sent to shows its target, whatever else was staged
\* with it, unless the target was destroyed or another output has it.
SwitchAnswered ==
  Settled => \A o \in connected :
    \/ switched[o] \in doomed \cup {NoId, route[o]}
    \/ \E p \in connected \ {o} : route[p] = switched[o]

\* What is active is one workspace that is shown, the focused output's when
\* there is one.
ActiveShown ==
  pc = "sleep" =>
    /\ Cardinality(active) = 1
    /\ connected # {} => \A e \in active : \E o \in connected : route[o] = id[e]
    /\ focused \in connected => active = HasId(route[focused])

\* Routes are kept, switches answered and what is active is shown.
RoutesTrue == RouteKept /\ SwitchAnswered /\ ActiveShown

\* A window whose client still has it mapped perishes with a workspace only
\* if another destroy of the same batch had just moved it there: the windows
\* of a destroyed workspace move to the one that takes its place.
LostOnlyOnTheMove ==
  [][\A w \in mapped' : home[w] # Gone /\ home'[w] = Gone => w \in batch.moved]_vars

\* A window is awake when its workspace is shown: the systems that skip what
\* is asleep skip the workspaces nobody sees, and nothing else.
ShownAreAwake == pc = "idle" => \A w \in asleep : home[w] \in hidden
=============================================================================
