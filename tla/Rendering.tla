------------------------------ MODULE Rendering ------------------------------
(* One frame after another: the plan of every output, its graph, the damage against the previous  *)
(* plan, the execution by the backend with its caches, the screenshots and the frame callbacks.   *)
(* Between frames the clients commit, the shell changes its desk, an output comes or goes, the    *)
(* session is paused or resumed and somebody asks for screenshots.  A frame is one step: the main *)
(* loop polls its clients before it renders and not again before it has presented.                *)
EXTENDS Scene, RenderGraph

CONSTANTS Outputs,  \* the outputs there can be, from left to right
          Surfaces, \* the ids a surface can have
          Scenes    \* what is on the desk and what can happen to it

VARIABLES env,      \* the scene
          desk,     \* what the shell wants shown
          client,   \* the buffers: how often each was committed, which cannot be imported, who waits
                    \* for a frame callback
          plan,     \* per output, the items of the last frame
          graph,    \* per output, the passes compiled from them
          known,    \* the content versions the rest of the program has seen
          session,  \* whether the seat is ours
          tracked,  \* per output, the items of the previous frame with their cells and signature
          damage,   \* per output, the cells damaged by the last frame
          painted,  \* per output, what was in the targets and which content each surface had
          imports,  \* the versions the backend has imported
          audit,    \* per output, what the last frame says is on the screen
          picture,  \* per output, what is on the screen
          failed,   \* the outputs whose last frame was given up for an import
          shots,    \* the screenshots asked for and taken
          fresh,    \* history: nothing happened since the last frame
          owed,     \* history: per output, the cells whose content changed but were not in the damage
          done      \* how much has happened
vars == <<env, desk, client, plan, graph, known, session, tracked, damage, painted, imports, audit, picture, failed, shots, fresh, owed, done>>

(* Everything but the scene, the counters and what the acts change. *)
frameVars == <<plan, graph, known, tracked, damage, painted, imports, audit, picture, failed, owed>>

Blank == [o \in Outputs |-> <<>>]

Init ==
  /\ env \in Scenes
  /\ desk = [outs |-> env.outs, alive |-> DOMAIN env.kind, kind |-> env.kind, parent |-> env.parent, home |-> env.home,
             hidden |-> {}, minimized |-> {}, attached |-> env.attached, span |-> env.span, zone |-> env.zone,
             stack |-> env.stack, switcher |-> None, selected |-> None, slot |-> 1, pointer |-> 0, cursor |-> TRUE]
  /\ client = [version |-> [s \in Surfaces |-> 1], broken |-> {}, waiting |-> {}]
  /\ plan = Blank /\ graph = Blank
  /\ known = [s \in Surfaces |-> 1]
  /\ session = TRUE
  /\ tracked = [o \in Outputs |-> {}] /\ damage = [o \in Outputs |-> {}] /\ painted = Blank
  /\ imports = [s \in {} |-> 0]
  /\ audit = Blank /\ picture = Blank /\ failed = {} /\ owed = [o \in Outputs |-> {}]
  /\ shots = [pending |-> <<>>, taken |-> <<>>, next |-> 1]
  /\ fresh = FALSE /\ done = 0

Act(name) ==
  /\ name \in env.acts
  /\ done < env.bound /\ done' = done + 1
  /\ fresh' = FALSE
  /\ UNCHANGED <<env, frameVars>>

(* A client commits: with a good buffer, with one the renderer cannot import, or with none.  A    *)
(* commit asks for a callback.                                                                    *)
Commit(s, buffer) ==
  /\ Act("commit") /\ s \in desk.alive
  /\ client' = [client EXCEPT !.version[s] = @ + 1,
                              !.broken = IF buffer = "broken" THEN @ \cup {s} ELSE @ \ {s},
                              !.waiting = @ \cup {s}]
  /\ desk' = [desk EXCEPT !.attached = IF buffer = "none" THEN @ \ {s} ELSE @ \cup {s}]
  /\ UNCHANGED <<session, shots>>

(* A surface is destroyed; its popups lose their parent.                                          *)
Destroy(s) ==
  /\ Act("destroy") /\ s \in desk.alive
  /\ desk' = [desk EXCEPT !.alive = @ \ {s}, !.stack = SelectSeq(@, LAMBDA t : t # s), !.attached = @ \ {s},
                          !.hidden = @ \ {s}, !.minimized = @ \ {s}]
  /\ client' = [client EXCEPT !.broken = @ \ {s}, !.waiting = @ \ {s}]
  /\ UNCHANGED <<session, shots>>

Desk(name, new) == Act(name) /\ desk' = new /\ UNCHANGED <<client, session, shots>>

Move(s, by) ==
  /\ s \in desk.alive /\ desk.kind[s] = "window"
  /\ Desk("move", [desk EXCEPT !.span[s] = <<@[1] + by, @[2] + by>>])
Raise(s) ==
  /\ s \in ToSet(desk.stack)
  /\ Desk("raise", [desk EXCEPT !.stack = Append(SelectSeq(@, LAMBDA t : t # s), s)])
Minimize(s) ==
  /\ s \in desk.alive /\ desk.kind[s] = "window" /\ s \notin desk.minimized
  /\ Desk("hide", [desk EXCEPT !.hidden = @ \cup {s}, !.minimized = @ \cup {s}])
Leave(s) ==
  /\ s \in desk.alive /\ desk.kind[s] = "window" /\ s \notin desk.hidden
  /\ Desk("hide", [desk EXCEPT !.hidden = @ \cup {s}])
Show(s) ==
  /\ s \in desk.hidden
  /\ Desk("hide", [desk EXCEPT !.hidden = @ \ {s}, !.minimized = @ \ {s}])
Point(cell) == Desk("point", [desk EXCEPT !.pointer = cell])
SetCursor(on) == Desk("cursor", [desk EXCEPT !.cursor = on])
Switch(s) ==
  /\ s \in ToSet(Candidates(desk)) /\ desk.outs # {}
  /\ Desk("switcher", [desk EXCEPT !.switcher = Min(desk.outs), !.selected = s,
                                   !.slot = CHOOSE i \in 1..Len(Candidates(desk)) : Candidates(desk)[i] = s])
EndSwitch == Desk("switcher", [desk EXCEPT !.switcher = None, !.selected = None])

(* An output that goes takes its windows off the screen; one that comes back starts without any.  *)
Unplug(o) ==
  /\ o \in desk.outs
  /\ Desk("output", [desk EXCEPT !.outs = @ \ {o},
                                 !.hidden = @ \cup {s \in desk.alive : IsWindow(desk, s) /\ desk.home[s] = o}])
Plug(o) == o \in Outputs \ desk.outs /\ Desk("output", [desk EXCEPT !.outs = @ \cup {o}])

Pause == Act("session") /\ session' = ~session /\ UNCHANGED <<desk, client, shots>>

AskFor(o) ==
  /\ Act("shoot")
  /\ shots' = [shots EXCEPT !.pending = Append(@, [id |-> shots.next, output |-> o]), !.next = @ + 1]
  /\ UNCHANGED <<desk, client, session>>
-------------------------------------------------------------------------------
(* The frame.  The version of a commit reaches the renderer one frame after its buffer: the       *)
(* protocol world is given the versions at the start of a frame, before the commits are counted.  *)

Asked(o) == {shots.pending[i].id : i \in {j \in 1..Len(shots.pending) : shots.pending[j].output = o}}
GraphOf(items, o) == Compile(Phases(items, env.effects, Asked(o)))

SurfacesIn(items) == {items[i].surface : i \in 1..Len(items)} \ {0}

(* Hidden surfaces are not tracked, though a thumbnail may show them. *)
Tracked(items) ==
  LET shown == Shown(desk)
      Of(item) == [name |-> item.name, cells |-> item.cells, signature |-> IF item.surface = 0 THEN 0 ELSE known[item.surface]]
  IN {Of(item) : item \in {it \in ToSet(items) : it.surface = 0 \/ it.surface \in shown}}

(* A slip: only where an item is counts, not what it shows. *)
MovesOnly(before, now) ==
  LET Cells(name) ==
        LET old == {t \in before : t.name = name}
            new == {t \in now : t.name = name}
            covered(set) == UNION {t.cells : t \in set}
        IN (covered(old) \ covered(new)) \cup (covered(new) \ covered(old))
  IN UNION {Cells(t.name) : t \in before \cup now}

(* A new or a vanished item damages its cells, a changed one its old and its new cells, and one   *)
(* that only moved what it left and what it entered.                                              *)
Difference(before, now) ==
  LET Cells(name) ==
        LET old == {t \in before : t.name = name}
            new == {t \in now : t.name = name}
            covered(set) == UNION {t.cells : t \in set}
        IN IF old # {} /\ new # {} /\ {t.signature : t \in old} = {t.signature : t \in new}
           THEN (covered(old) \ covered(new)) \cup (covered(new) \ covered(old))
           ELSE covered(old) \cup covered(new)
  IN UNION {Cells(t.name) : t \in before \cup now}

(* A surface with a buffer is imported unless this version of it was imported before. *)
Imported(items) == SurfacesIn(items) \cap desk.attached
Failing(items, cache) ==
  {s \in Imported(items) : (s \notin DOMAIN cache \/ cache[s] # known[s]) /\ s \in client.broken}

(* The backend's cache after one output's imports: what the output does not need is forgotten,    *)
(* the surfaces are imported in the order of the plan, and the first failure ends it.             *)
ImportsAfter(items, cache) ==
  LET First(t) == Min({i \in 1..Len(items) : items[i].surface = t})
      reached == {t \in Imported(items) : \A u \in Failing(items, cache) : First(t) < First(u)}
  IN [t \in reached \cup (Imported(items) \cap DOMAIN cache) |-> IF t \in reached THEN known[t] ELSE cache[t]]

(* The outputs share the cache and are served in turn. *)
CacheBefore(items, o) ==
  LET Upto[n \in 0..Max(Outputs)] ==
        IF n = 0 THEN imports ELSE IF n \in desk.outs THEN ImportsAfter(items[n], Upto[n - 1]) ELSE Upto[n - 1]
  IN Upto[o - 1]

(* Smithay paints the current buffer of a surface, whatever version the plan was made for.        *)
Ready == desk.attached \ client.broken
WithContent(items) ==
  [i \in 1..Len(items) |->
     [role |-> items[i].role, surface |-> items[i].surface,
      version |-> IF items[i].surface = 0 \/ items[i].role = "effect" THEN 0 ELSE client.version[items[i].surface]]]

(* What came into a frame newer than the versions it was made from. *)
LateCells(items) ==
  UNION {it.cells : it \in {i \in ToSet(items) : /\ i.surface \in Shown(desk)
                                                /\ client.version[i.surface] # known[i.surface]}}

Compose ==
  /\ plan' = [o \in Outputs |-> IF o \in desk.outs THEN Plan(desk, o) ELSE <<>>]
  /\ graph' = [o \in Outputs |-> GraphOf(plan'[o], o)]
  /\ tracked' = [o \in Outputs |-> IF o \in desk.outs THEN Tracked(plan'[o]) ELSE {}]
  /\ damage' = [o \in Outputs |-> IF o \in desk.outs THEN Difference(tracked[o], tracked'[o]) ELSE {}]
  /\ owed' = [o \in Outputs |-> LateCells(plan'[o])]
  /\ known' = client.version

(* An output without a pass that paints its swapchain, or with an import that fails, keeps its    *)
(* last picture; a session that is not active shows nothing new at all.                           *)
Presents(o) == session /\ o \in desk.outs /\ PresentingPass(graph'[o]) # 0 /\ o \notin failed'

Present ==
  /\ failed' = {o \in desk.outs : session /\ Failing(plan'[o], CacheBefore(plan', o)) # {}}
  /\ imports' = IF session /\ desk.outs # {} THEN CacheBefore(plan', Max(Outputs) + 1) ELSE imports
  /\ painted' = [o \in Outputs |-> IF Presents(o) THEN Execute(graph'[o], painted[o], Ready) ELSE painted[o]]
  /\ picture' = [o \in Outputs |-> IF Presents(o) THEN WithContent(painted'[o][Swapchain])
                                   ELSE IF o \in desk.outs THEN picture[o] ELSE <<>>]

Shoot ==
  LET answered == UNION {IF Presents(o) THEN ReadBack(graph'[o]) ELSE {} : o \in desk.outs}
      Answer(request) == [id |-> request.id, output |-> request.output,
                          frame |-> WithContent(Captured(graph'[request.output], painted'[request.output]))]
      served == SelectSeq(shots.pending, LAMBDA r : r.id \in answered)
  IN shots' = [shots EXCEPT !.pending = SelectSeq(@, LAMBDA r : r.id \notin answered),
                            !.taken = @ \o [i \in 1..Len(served) |-> Answer(served[i])]]

(* It is written for every output, whether or not its picture gets there. *)
Record == audit' = [o \in Outputs |-> IF o \in desk.outs THEN Audit(graph'[o]) ELSE <<>>]

(* Every surface some plan names, whether or not it was presented. *)
Callable == UNION {SurfacesIn(plan'[o]) : o \in desk.outs}

CallBack == client' = [client EXCEPT !.waiting = @ \ Callable]

Frame ==
  /\ Compose /\ Record /\ Present /\ Shoot /\ CallBack
  /\ fresh' = TRUE
  /\ UNCHANGED <<env, desk, session, done>>

Next ==
  \/ \E s \in Surfaces : \/ \E buffer \in {"good", "broken", "none"} : Commit(s, buffer)
                         \/ Destroy(s) \/ Raise(s) \/ Minimize(s) \/ Leave(s) \/ Show(s) \/ Switch(s)
                         \/ \E by \in {-1, 1} : Move(s, by)
  \/ \E cell \in 0..(Width * Max(Outputs)) : Point(cell)
  \/ \E on \in BOOLEAN : SetCursor(on)
  \/ \E o \in Outputs : Unplug(o) \/ Plug(o) \/ AskFor(o)
  \/ EndSwitch \/ Pause \/ Frame

Spec == Init /\ [][Next]_vars
-------------------------------------------------------------------------------
(* After a frame every output that has something to show and no surface it cannot import shows    *)
(* its whole plan, in the plan's order and with the content its clients committed last, whatever  *)
(* the import caches held and whatever happened on the other outputs (gles_executor.rs            *)
(* execute_output_graph, drm/surface.rs render_drm_outputs).                                      *)
NothingStale ==
  fresh /\ session =>
    \A o \in desk.outs :
      plan[o] # <<>> /\ SurfacesIn(plan[o]) \cap client.broken = {}
        => picture[o] = WithContent(Painted(plan[o], desk.attached)
                                      \o [k \in 1..Len(env.effects) |-> [role |-> "effect", surface |-> env.effects[k]]])

(* The audit of such an output lists what is on its screen in the order it was painted, and        *)
(* nothing else but surfaces that have no buffer (render_order.rs execute_output_render_graph,     *)
(* the second reader of the graph).                                                                *)
AuditTrue ==
  fresh /\ session =>
    \A o \in desk.outs :
      plan[o] # <<>> /\ SurfacesIn(plan[o]) \cap client.broken = {}
        => SelectSeq(audit[o], LAMBDA it : it.surface \in {0} \cup desk.attached)
             = SelectSeq(painted[o][Swapchain], LAMBDA it : it.role # "effect" /\ it.cells # {})

ScreenTrue == NothingStale /\ AuditTrue

(* A commit is painted in the frame that follows it and damaged, at the latest, in the one after  *)
(* that, wherever the surface has gone meanwhile (damage_tracker.rs diff_damage_snapshots with    *)
(* the versions of extract_surface_content_versions_snapshot).                                    *)
DamageFollows == [][fresh' => \A o \in desk.outs : owed[o] \subseteq damage'[o]]_vars

(* A screenshot is one of the picture that is shown in the same frame, and a request leaves the   *)
(* queue when it is answered, for good (gles_executor.rs Readback pass, screenshot.rs             *)
(* finish_requests).                                                                              *)
ScreenshotsTrue ==
  [][\A i \in (Len(shots.taken) + 1)..Len(shots'.taken) :
       LET shot == shots'.taken[i] IN
       /\ shot.frame = picture'[shot.output]
       /\ shot.id \in {r.id : r \in ToSet(shots.pending)} \ {r.id : r \in ToSet(shots'.pending)}
       /\ shot.id \notin {r.id : r \in ToSet(shots.taken)}]_vars

(* What is damaged and what is shot is what is shown.                                             *)
PicturesFollow == DamageFollows /\ ScreenshotsTrue

(* A client that waits for a frame callback gets it with the next frame while its surface is      *)
(* visible (frame_callback.rs frame_callback_system), backgrounds apart: an output draws only one *)
(* of its backgrounds.                                                                            *)
VisibleIsCalledBack ==
  fresh => \A s \in Shown(desk) : desk.kind[s] # "background" /\ Targets(desk)[s] # None => s \notin client.waiting

(* When no window reaches over the edge of its output, the surface under the pointer is one the   *)
(* pointer's output draws at that cell, and nothing drawn above it there takes input (seat.rs     *)
(* pointer_focus_target, which asks no output whether the pointer is on it).                      *)
PointerSees ==
  LET o == PointedOutput(desk)
      focus == PointerFocus(desk, plan)
      at == desk.pointer - Place(o)
      inside == \A s \in desk.alive : CellsOf(desk.span[s]) \subseteq 0..(Width - 1)
  IN fresh /\ inside /\ focus # None =>
       /\ o # None
       /\ \E i \in 1..Len(plan[o]) :
            /\ plan[o][i].surface = focus /\ at \in plan[o][i].cells
            /\ \A j \in (i + 1)..Len(plan[o]) :
                 plan[o][j].surface \in TakesInput(desk) /\ at \in plan[o][j].cells
                   => at \notin InputCells(desk, plan[o][j].surface)

(* What is seen is called back and takes the pointer.                                             *)
SeenAndReached == VisibleIsCalledBack /\ PointerSees
================================================================================
