------------------------------ MODULE Overlays ------------------------------
(***************************************************************************)
(* What the compositor itself draws over the windows of an output:         *)
(* rectangles that are kept until they are taken away (OutputOverlayState) *)
(* and panels and texts that are described anew in every frame             *)
(* (OverlayUiFrame).  Commands pass through two queues that merge them.    *)
(* In every frame the render world starts with an empty scene per output;  *)
(* one system fills in the rectangles, the next one the panels and texts,  *)
(* and what they filled in is drawn in one order.                          *)
(***************************************************************************)
EXTENDS Integers, FiniteSets, Sequences, SequencesExt

CONSTANTS
  Names,     \* names of outputs
  ByName,    \* those that are selected by name; the others by their OutputId
  Rects,     \* OutputOverlayId, as numbers in their order
  Looks,     \* what a rectangle may look like: [z, color]
  None,
  MaxCalls, MaxPlugs \* bounds: commands and turns of the HUD and the menu, outputs connected

OverlaysAssumption ==
  /\ ByName \subseteq Names /\ IsFiniteSet(Names)
  /\ Rects \subseteq Int /\ \A l \in Looks : l.z \in Int
  /\ MaxCalls \in Nat /\ MaxPlugs \in Nat

VARIABLES
  stage,
  outputs,  \* the connected ones: [names -> OutputId]
  plugged,  \* how many OutputIds were given out
  staged,   \* PendingOutputControls: [selector, clear, updates]
  pending,  \* PendingOutputOverlayControls: [OutputIds -> [clear, updates]]
  rects,    \* OutputOverlayState.outputs: [OutputIds -> [Rects -> [entry, look]]]
  nextId,   \* OutputOverlayState.next_entry_id
  hud, menu, \* whether the FPS HUD is on; the switcher: None, or whether its title is empty
  frame,    \* OverlayUiFrame: [OutputIds -> primitives in the order they came]
  input,    \* ShellRenderInput: output_overlays and overlay_ui
  scene,    \* the render world's CompositorSceneState: [OutputIds -> [items, order]]
  mine, theirs, \* OutputOverlaySceneSyncState and OverlayUiSceneSyncState
  plan,     \* what is painted on each output, from back to front
  \* history
  calls,    \* how many of MaxCalls
  given,    \* commands that were not resolved yet, as they were given: [names -> sequence]
  wish      \* what the commands of each output ask for: [names -> [Rects -> look]]

shell   == <<staged, pending, rects, nextId, hud, menu, frame>>
render  == <<input, scene, mine, theirs, plan>>
history == <<calls, given, wish>>
vars    == <<stage, outputs, plugged, shell, render, history>>

Nothing == [x \in {} |-> None]
Without(f, x) == [y \in DOMAIN f \ {x} |-> f[y]]
Put(f, x, v)  == [y \in DOMAIN f \union {x} |-> IF y = x THEN v ELSE f[y]]
At(f, x, default) == IF x \in DOMAIN f THEN f[x] ELSE default

-----------------------------------------------------------------------------
(* Commands                                                                *)

NoControl == [clear |-> FALSE, updates |-> <<>>]

(* Slip: an update is queued behind those of the same rectangle that were given first, which stay. *)
QueuedOnce(control, call) ==
  IF call.op = "clear" THEN [clear |-> TRUE, updates |-> <<>>]
  ELSE IF \E i \in DOMAIN control.updates : control.updates[i].rect = call.rect THEN control
  ELSE [control EXCEPT !.updates = Append(@, call)]

(* An update replaces those of the same rectangle that wait, and clearing replaces all of them. *)
Queued(control, call) ==
  IF call.op = "clear" THEN [clear |-> TRUE, updates |-> <<>>]
  ELSE [control EXCEPT !.updates =
          Append(SelectSeq(@, LAMBDA u : u.rect # call.rect), call)]

Selector(n) == IF n \in ByName THEN [name |-> n, id |-> 0] ELSE [name |-> n, id |-> At(outputs, n, 0)]

Waiting(selector) ==
  {i \in DOMAIN staged : staged[i].selector = selector}

Staged(selector, call) ==
  IF Waiting(selector) = {}
  THEN Append(staged, [selector |-> selector, control |-> Queued(NoControl, call)])
  ELSE [i \in DOMAIN staged |->
          IF i \in Waiting(selector)
          THEN [staged[i] EXCEPT !.control = Queued(@, call)] ELSE staged[i]]

Calls == {[op |-> "clear", rect |-> None, look |-> None]}
         \union {[op |-> "remove", rect |-> r, look |-> None] : r \in Rects}
         \union {[op |-> "set", rect |-> r, look |-> l] : r \in Rects, l \in Looks}

(* An output that is selected by its id has to be there; a name may be one of an output to come. *)
Command(n, call) ==
  /\ stage = "main" /\ calls < MaxCalls /\ calls' = calls + 1
  /\ n \in ByName \/ n \in DOMAIN outputs
  /\ staged' = Staged(Selector(n), call)
  /\ given' = [given EXCEPT ![n] = Append(@, call)]
  /\ UNCHANGED <<stage, outputs, plugged, pending, rects, nextId, hud, menu, frame, render, wish>>

(* A control whose output is there is handed over by its OutputId, where it is merged once more; one
   whose output is not there waits. *)
Resolved(s) ==
  IF s.selector.name \in ByName THEN s.selector.name \in DOMAIN outputs
  ELSE \E n \in DOMAIN outputs : outputs[n] = s.selector.id

Target(s) == IF s.selector.name \in ByName THEN outputs[s.selector.name] ELSE s.selector.id

HandedOver(control, s) ==
  FoldLeft(Queued,
           IF s.control.clear THEN [clear |-> TRUE, updates |-> <<>>] ELSE control,
           s.control.updates)

Resolve ==
  /\ stage = "extract" /\ stage' = "apply"
  /\ pending' = FoldLeft(LAMBDA p, s :
                           IF Resolved(s)
                           THEN Put(p, Target(s), HandedOver(At(p, Target(s), NoControl), s)) ELSE p,
                         pending, staged)
  /\ staged' = SelectSeq(staged, LAMBDA s : ~Resolved(s))
  /\ UNCHANGED <<outputs, plugged, rects, nextId, hud, menu, frame, render, history>>

(* What the commands come to, one after the other. *)
Asked(w, call) ==
  CASE call.op = "clear"  -> Nothing
    [] call.op = "remove" -> Without(w, call.rect)
    [] call.op = "set"    -> Put(w, call.rect, call.look)

(* A rectangle keeps its entry for as long as it is there; an output without any is dropped. *)
Updated(state, o, u) ==
  LET old == At(state.rects, o, Nothing) IN
  IF u.op = "remove"
  THEN [state EXCEPT !.rects = IF DOMAIN old \ {u.rect} = {} THEN Without(@, o)
                               ELSE Put(@, o, Without(old, u.rect))]
  ELSE IF u.rect \in DOMAIN old
  THEN [state EXCEPT !.rects = Put(@, o, Put(old, u.rect, [old[u.rect] EXCEPT !.look = u.look]))]
  ELSE [rects |-> Put(state.rects, o, Put(old, u.rect, [entry |-> state.next, look |-> u.look])),
        next  |-> state.next + 1]

Changed(state, o, control) ==
  FoldLeft(LAMBDA st, u : Updated(st, o, u),
           IF control.clear THEN [state EXCEPT !.rects = Without(@, o)] ELSE state,
           control.updates)

ApplyControls ==
  /\ stage = "apply" /\ stage' = "main"
  /\ LET after == FoldLeft(LAMBDA st, o : Changed(st, o, pending[o]), [rects |-> rects, next |-> nextId],
                           SetToSortSeq(DOMAIN pending, <))
     IN  rects' = after.rects /\ nextId' = after.next
  /\ pending' = Nothing
  /\ wish' = [n \in Names |-> IF n \in DOMAIN outputs THEN FoldLeft(Asked, wish[n], given[n]) ELSE wish[n]]
  /\ given' = [n \in Names |-> IF n \in DOMAIN outputs THEN <<>> ELSE given[n]]
  /\ UNCHANGED <<outputs, plugged, staged, hud, menu, frame, render, calls>>

(* Outputs come with a new id and go; rectangles of an id that is gone are kept. *)
Plug(n) ==
  /\ stage = "extract" /\ n \notin DOMAIN outputs /\ plugged < MaxPlugs
  /\ outputs' = Put(outputs, n, plugged + 1) /\ plugged' = plugged + 1
  /\ UNCHANGED <<stage, shell, render, history>>

Unplug(n) ==
  /\ stage = "extract" /\ n \in DOMAIN outputs
  /\ outputs' = Without(outputs, n)
  /\ wish' = [wish EXCEPT ![n] = Nothing]
  /\ given' = IF n \in ByName THEN given ELSE [given EXCEPT ![n] = <<>>]
  /\ UNCHANGED <<stage, plugged, shell, render, calls>>

-----------------------------------------------------------------------------
(* Panels and texts                                                        *)

Band(layer) == CASE layer = "background" -> -10 [] layer = "main" -> 0 [] layer = "foreground" -> 10

Panel(id, layer, z)        == [id |-> id, layer |-> layer, z |-> z, text |-> None]
Text(id, layer, z, text)   == [id |-> id, layer |-> layer, z |-> z, text |-> text]

(* A primitive replaces the one with its id. *)
Described(primitives, p) == Append(SelectSeq(primitives, LAMBDA q : q.id # p.id), p)

Hud(primitives) ==
  FoldLeft(Described, primitives,
           <<Panel(1, "foreground", 0), Text(2, "foreground", 1, "shadow"), Text(3, "foreground", 2, "rate")>>)

Menu(primitives, title) ==
  FoldLeft(Described, primitives, <<Panel(4, "foreground", 0), Text(5, "foreground", 1, title)>>)

PrimaryId == outputs[CHOOSE n \in DOMAIN outputs : \A k \in DOMAIN outputs : outputs[n] <= outputs[k]]

(* Both are shown on the primary output, when there is one. *)
Describe ==
  /\ stage = "main" /\ stage' = "mirror"
  /\ LET switcher(ps) == IF menu = None THEN ps ELSE Menu(ps, menu)
         meter(ps)    == IF hud THEN Hud(ps) ELSE ps
         all          == meter(switcher(<<>>))
     IN  frame' = IF DOMAIN outputs = {} \/ all = <<>> THEN Nothing
                  ELSE Put(Nothing, PrimaryId, all)
  /\ UNCHANGED <<outputs, plugged, staged, pending, rects, nextId, hud, menu, render, history>>

ToggleHud ==
  /\ stage = "main" /\ calls < MaxCalls /\ calls' = calls + 1
  /\ hud' = ~hud
  /\ UNCHANGED <<stage, outputs, plugged, staged, pending, rects, nextId, menu, frame, render, given, wish>>

TurnMenu(m) ==
  /\ stage = "main" /\ calls < MaxCalls /\ calls' = calls + 1
  /\ menu' = m
  /\ UNCHANGED <<stage, outputs, plugged, staged, pending, rects, nextId, hud, frame, render, given, wish>>

ShellRenderInput == [rects |-> rects, frame |-> frame]

(* The render world is given a copy of both, and of the scene of the main world, in which nothing is
   ever entered: whatever the last frame left in the scene of the render world is gone.  What the two
   systems remember of that frame is theirs and stays.  The frame of primitives is cleared. *)
Mirror ==
  /\ stage = "mirror" /\ stage' = "rects"
  /\ input' = ShellRenderInput
  /\ frame' = Nothing /\ scene' = Nothing
  /\ UNCHANGED <<outputs, plugged, staged, pending, rects, nextId, hud, menu, mine, theirs, plan, history>>

-----------------------------------------------------------------------------
(* The scene                                                               *)

NoScene == [items |-> Nothing, order |-> <<>>]

Inserted(s, e, item) ==
  [items |-> Put(s.items, e, item),
   order |-> IF e \in DOMAIN s.items THEN s.order ELSE Append(s.order, e)]

Taken(s, e) == [items |-> Without(s.items, e), order |-> SelectSeq(s.order, LAMBDA x : x # e)]

(* Entries of one height stay in the order in which they were entered. *)
Stable(order, height(_)) ==
  FoldLeft(LAMBDA sorted, z : sorted \o SelectSeq(order, LAMBDA e : height(e) = z), <<>>,
           SetToSortSeq({height(order[i]) : i \in DOMAIN order}, <))

Restacked(s) == [s EXCEPT !.order = Stable(@, LAMBDA e : s.items[e].z)]

(* The entries of one kind are inserted; "now" maps outputs to sequences of [entry, item]. *)
Filled(sc, now) ==
  [o \in DOMAIN sc \union DOMAIN now |->
     IF o \in DOMAIN now
     THEN LET s == FoldLeft(LAMBDA st, x : Inserted(st, x.entry, x.item), At(sc, o, NoScene), now[o])
          IN  IF now[o] = <<>> THEN s ELSE Restacked(s)
     ELSE sc[o]]

Kept(now) == [o \in {k \in DOMAIN now : now[k] # <<>>} |-> {now[o][i].entry : i \in DOMAIN now[o]}]

(* Those that this kind had in the frame before and has no more are taken away.  The scene began empty,
   so none of them is in it; what this does is to drop an output of the frame before that has no entry
   in this one, and to sort the others again. *)
Cleaned(sc, had, now) ==
  LET left(o) == IF o \in DOMAIN had
                 THEN FoldLeft(Taken, sc[o], SetToSortSeq(had[o] \ At(Kept(now), o, {}), <))
                 ELSE sc[o]
  IN  [o \in {k \in DOMAIN sc : ~(k \in DOMAIN had /\ DOMAIN left(k).items = {})} |->
         IF o \in DOMAIN had THEN Restacked(left(o)) ELSE sc[o]]

RectsOf(o) ==
  LET all == input.rects[o]
      ids == SetToSortSeq(DOMAIN all, LAMBDA a, b :
                \/ all[a].look.z < all[b].look.z
                \/ all[a].look.z = all[b].look.z /\ a < b)
  IN  [i \in DOMAIN ids |-> [entry |-> all[ids[i]].entry,
                             item |-> [z |-> all[ids[i]].look.z, shows |-> all[ids[i]].look.color]]]

SyncRects ==
  /\ stage = "rects" /\ stage' = "texts"
  /\ LET now == [o \in DOMAIN input.rects |-> RectsOf(o)]
     IN  /\ scene' = Cleaned(Filled(scene, now), mine, now)
         /\ mine' = Kept(now)
  /\ UNCHANGED <<outputs, plugged, shell, input, theirs, plan, history>>

(* Ids of primitives are hashed into a range of their own. *)
HighBit == 100
UiEntry(o, p) == HighBit + 10 * o + p.id

(* A text without a layout has no entry. *)
HasExtent(p) == p.text # "empty"

TextsOf(o) ==
  LET shown == SelectSeq(input.frame[o], HasExtent)
      order == SortSeq(shown, LAMBDA p, q :
                 \/ Band(p.layer) < Band(q.layer)
                 \/ Band(p.layer) = Band(q.layer) /\ p.z < q.z
                 \/ Band(p.layer) = Band(q.layer) /\ p.z = q.z /\ p.id < q.id)
  IN  [i \in DOMAIN order |-> [entry |-> UiEntry(o, order[i]),
                               item |-> [z |-> Band(order[i].layer) + order[i].z, shows |-> order[i].text]]]

SyncTexts ==
  /\ stage = "texts" /\ stage' = "emit"
  /\ LET now == [o \in DOMAIN input.frame |-> TextsOf(o)]
     IN  /\ scene' = Cleaned(Filled(scene, now), theirs, now)
         /\ theirs' = Kept(now)
  /\ UNCHANGED <<outputs, plugged, shell, input, mine, plan, history>>

(* The scene of each output is painted in its order, over what the desktop shows. *)
Emit ==
  /\ stage = "emit" /\ stage' = "extract"
  /\ plan' = [o \in DOMAIN scene |->
                [i \in DOMAIN scene[o].order |-> scene[o].items[scene[o].order[i]]]]
  /\ UNCHANGED <<outputs, plugged, shell, input, scene, mine, theirs, history>>

-----------------------------------------------------------------------------
Init ==
  /\ stage = "extract" /\ outputs = Nothing /\ plugged = 0
  /\ staged = <<>> /\ pending = Nothing /\ rects = Nothing /\ nextId = 1
  /\ hud = FALSE /\ menu = None /\ frame = Nothing
  /\ input = [rects |-> Nothing, frame |-> Nothing]
  /\ scene = Nothing /\ mine = Nothing /\ theirs = Nothing /\ plan = Nothing
  /\ calls = 0 /\ given = [n \in Names |-> <<>>] /\ wish = [n \in Names |-> Nothing]

Next ==
  \/ \E n \in Names : Plug(n) \/ Unplug(n) \/ \E call \in Calls : Command(n, call)
  \/ ToggleHud \/ \E m \in {None, "empty", "title"} : TurnMenu(m)
  \/ Resolve \/ ApplyControls \/ Describe \/ Mirror \/ SyncRects \/ SyncTexts \/ Emit

Spec == Init /\ [][Next]_vars

-----------------------------------------------------------------------------
(* Properties                                                              *)

LooksOf(o) == LET r == At(rects, o, Nothing) IN [x \in DOMAIN r |-> r[x].look]

(* Once the commands were applied every connected output has the rectangles its commands ask for, as if
   each had taken effect when it was given, however they were merged on the way and however long they
   waited for their output (PendingOutputControls and PendingOutputOverlayControls). *)
MergedAsGiven ==
  stage = "main" /\ (\A n \in DOMAIN outputs : given[n] = <<>>) =>
    \A n \in DOMAIN outputs : LooksOf(outputs[n]) = wish[n]

(* Each output is painted with the rectangles, panels and texts that were handed over for it in this
   frame, every one of them once: the second system takes none away of those the first one entered,
   takes the place of none by an entry of the same number, and what either remembers of the frame before
   costs this frame nothing (the two sync systems, which write to one scene). *)
Due(o) ==
  (IF o \in DOMAIN input.rects THEN RectsOf(o) ELSE <<>>)
  \o (IF o \in DOMAIN input.frame THEN TextsOf(o) ELSE <<>>)

PaintedIsDue ==
  stage = "extract" =>
    \A o \in DOMAIN plan \union DOMAIN input.rects \union DOMAIN input.frame :
       LET items == [i \in DOMAIN Due(o) |-> Due(o)[i].item]
           shown == At(plan, o, <<>>)
       IN  Len(shown) = Len(items) /\ ToSet(shown) = ToSet(items)

(* It is painted from back to front: rectangles, panels and texts, entered one kind after the other,
   end up in one order by height (sort_by_z_index). *)
BackToFront ==
  \A o \in DOMAIN plan : \A i, j \in DOMAIN plan[o] : i < j => plan[o][i].z <= plan[o][j].z

(* Two entries of the scene are never mistaken for each other. *)
EntriesDistinct ==
  \A o, p \in DOMAIN rects : \A x \in DOMAIN rects[o], y \in DOMAIN rects[p] :
     rects[o][x].entry = rects[p][y].entry => o = p /\ x = y

OverlaysSound == MergedAsGiven /\ PaintedIsDue /\ BackToFront /\ EntriesDistinct
=============================================================================
