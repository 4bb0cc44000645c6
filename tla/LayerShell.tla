----------------------------- MODULE LayerShell -----------------------------
(***************************************************************************)
(* Panels, docks and backgrounds (wlr-layer-shell): from the client's      *)
(* requests to an entity, its output, its rectangle, the work area it      *)
(* reserves, and where it is shown and takes the pointer.                  *)
(*                                                                         *)
(* A frame takes a snapshot of the outputs for the protocol server, then   *)
(* runs layer_lifecycle_system, sync_layer_output_relationships_system,    *)
(* layer_arrangement_system, work_area_system and the layers' part of      *)
(* surface_presentation_snapshot_system.  Clients and connectors act       *)
(* between frames.                                                         *)
(*                                                                         *)
(* An operator that precedes its correct form under another name is a slip *)
(* the properties must catch: the specification does not use it.           *)
(***************************************************************************)
EXTENDS Integers, Sequences, FiniteSets, SequencesExt

CONSTANTS Surfaces,
          Names,       \* of outputs; the protocol server maps the least
          OutputSizes, \* what each output may measure
          Shapes,      \* what each client may ask for: [edges, w, h, zone, margin]
          BufferSizes,
          Lives,       \* bound: layer surfaces each wl_surface is given, one after the other
          MaxCommits,  \* bound: commits of each surface
          MaxPlugs,    \* bound: outputs plugged, unplugged and resized
          None

NamesAssumption == Names \subseteq Nat
BoundsAssumption == MaxPlugs \in Nat /\ \A s \in Surfaces : {Lives[s], MaxCommits[s]} \subseteq Nat

VARIABLES
  client,  \* [Surfaces -> its layer surface: there, shape, buffer, told; lives, commits; hasty]
  outputs, \* OutputProperties of the output entities, by name
  plugs,
  mapped,  \* mapped_primary_output_name of the protocol server
  primary, \* WaylandIngress.primary_output: the output that was mapped and there
  queue,   \* PendingLayerRequests of the next frame
  deferred,\* DeferredLayerRequests
  layers,  \* the layer entities, in the order they were spawned
  area,    \* OutputWorkArea of every output
  shown    \* SurfacePresentationSnapshot: where each surface is, and where it takes input

outside == <<client, plugs>>
vars    == <<outside, outputs, mapped, primary, queue, deferred, layers, area, shown>>

Plain == [edges |-> {}, w |-> 0, h |-> 0, zone |-> 0, margin |-> 0]
Live  == {n \in Names : outputs[n] # None}

Init ==
  /\ client = [s \in Surfaces |-> [there |-> FALSE, shape |-> Plain, buffer |-> None,
                                   told |-> FALSE, lives |-> 0, commits |-> 0, hasty |-> FALSE]]
  /\ outputs \in {o \in [Names -> UNION {OutputSizes[n] : n \in Names} \cup {None}] :
                    \A n \in Names : o[n] \in OutputSizes[n] \cup {None}}
  /\ plugs = 0
  /\ Live # {}
  /\ mapped = None /\ primary = None
  /\ queue = <<>> /\ deferred = <<>> /\ layers = <<>>
  /\ area = [n \in Names |-> None] /\ shown = [s \in Surfaces |-> None]

-----------------------------------------------------------------------------
(* The client, through the protocol server.                                *)

New(s) ==
  /\ ~client[s].there /\ client[s].lives < Lives[s]
  /\ client' = [client EXCEPT ![s] = [there |-> TRUE, shape |-> Plain, buffer |-> None,
                                      told |-> FALSE, lives |-> @.lives + 1, commits |-> 0,
                                      hasty |-> FALSE]]
  \* whichever output the client names, it gets the mapped one
  /\ \E named \in BOOLEAN :
       queue' = Append(queue, [act |-> "created", s |-> s, shape |-> Plain, buffer |-> None,
                               output |-> IF named THEN mapped ELSE None])
  /\ UNCHANGED <<plugs, outputs, mapped, primary, deferred, layers, area, shown>>

(* The destruction of an earlier layer surface is still to be carried out. *)
Ending(s) == \E r \in ToSet(queue \o deferred) : r.act = "destroyed" /\ r.s = s

(* A buffer may follow the configure only; a commit without one comes      *)
(* before it, or takes the buffer away.                                    *)
Commit(s) ==
  /\ client[s].there /\ client[s].commits < MaxCommits[s]
  /\ \E shape \in Shapes[s], buffer \in BufferSizes \cup {None} :
       /\ buffer # None => client[s].told
       /\ buffer = None => ~client[s].told \/ client[s].buffer # None
       /\ client' = [client EXCEPT ![s] = [@ EXCEPT !.shape = shape, !.buffer = buffer,
                                                    !.commits = @ + 1, !.hasty = Ending(s)]]
       /\ queue' = Append(queue, [act |-> "committed", s |-> s, shape |-> shape,
                                  buffer |-> buffer, output |-> None])
  /\ UNCHANGED <<plugs, outputs, mapped, primary, deferred, layers, area, shown>>

Destroy(s) ==
  /\ client[s].there
  /\ client' = [client EXCEPT ![s].there = FALSE]
  /\ queue' = Append(queue, [act |-> "destroyed", s |-> s, shape |-> Plain, buffer |-> None,
                             output |-> None])
  /\ UNCHANGED <<plugs, outputs, mapped, primary, deferred, layers, area, shown>>

Plug(n) ==
  /\ plugs < MaxPlugs /\ plugs' = plugs + 1
  /\ \E size \in (OutputSizes[n] \cup {None}) \ {outputs[n]} :
       outputs' = [outputs EXCEPT ![n] = size]
  /\ UNCHANGED <<client, mapped, primary, queue, deferred, layers, area, shown>>

-----------------------------------------------------------------------------
(* One request against the entities that the frame found: what is spawned  *)
(* or despawned now shows up only when the system is over.                 *)

Found(s, found) == {i \in DOMAIN found : found[i].s = s}

Apply(run, r) ==
  LET hits == Found(r.s, run.found)
      later == [run EXCEPT !.deferred = Append(@, r)]
  IN CASE r.act = "created" /\ r.s \notin run.known ->
            [run EXCEPT !.known = @ \cup {r.s},
                        !.spawned = Append(@, [s |-> r.s, wants |-> r.output, on |-> None,
                                               shape |-> r.shape, attached |-> FALSE,
                                               box |-> [x |-> 0, y |-> 0, w |-> 1, h |-> 1]])]
       [] r.act = "committed" /\ hits # {} ->
            [run EXCEPT !.found = [i \in DOMAIN @ |->
               IF i \notin hits THEN @[i]
               ELSE [@[i] EXCEPT !.shape = r.shape, !.attached = r.buffer # None,
                                 !.box = IF r.buffer = None THEN @
                                         ELSE [@ EXCEPT !.w = r.buffer[1], !.h = r.buffer[2]]]]]
       [] r.act = "destroyed" /\ hits # {} ->
            [run EXCEPT !.known = @ \ {r.s}, !.doomed = @ \cup {r.s}]
       [] OTHER -> later

Lifecycle(requests) ==
  LET run == FoldLeft(Apply, [known |-> {layers[i].s : i \in DOMAIN layers}, found |-> layers,
                              spawned |-> <<>>, doomed |-> {}, deferred |-> <<>>], requests)
  IN [layers |-> SelectSeq(run.found, LAMBDA l : l.s \notin run.doomed) \o run.spawned,
      deferred |-> run.deferred]

(* The order of what was put back and what is new.                         *)
NewestFirst(old, new) == new \o old
Requests(old, new) == old \o new

-----------------------------------------------------------------------------
(* sync_layer_output_relationships_system, where its run condition lets it *)
(* run: an output or a wish changed.  Otherwise nothing would change.      *)
Bind(l) == [l EXCEPT !.on = IF l.wants \in Live THEN l.wants ELSE None]

(* The output the layout takes for the primary one: the largest when the   *)
(* mapped one is not there.                                                *)
Area(n) == outputs[n][1] * outputs[n][2]
Largest == CHOOSE n \in Live : \A m \in Live : Area(m) < Area(n) \/ (Area(m) = Area(n) /\ m <= n)
PrimaryOf(id) == IF id \in Live THEN id ELSE Largest

(* output_size_for_layer: a layer whose output is gone is detached.        *)
OutputOf(l, id) ==
  IF l.on # None THEN l.on ELSE IF l.wants = None THEN PrimaryOf(id) ELSE None

AtLeast1(n) == IF n < 1 THEN 1 ELSE n

(* Rust divides towards zero.                                              *)
Halved(n) == IF n >= 0 THEN n \div 2 ELSE -((-n) \div 2)

(* One axis of layer_arrangement_system: what the shape asks for, the size *)
(* it has, the output's size, and whether each edge is anchored.           *)
Placed(asked, has, full, low, high, margin) ==
  LET size == IF low /\ high THEN full - 2 * margin ELSE IF asked > 0 THEN asked ELSE AtLeast1(has)
  IN [size |-> AtLeast1(size),
      at   |-> IF low THEN margin ELSE IF high THEN full - size - margin
               ELSE Halved(full - size)]

Arranged(l, id) ==
  LET o  == OutputOf(l, id)
      sh == l.shape
      has == IF l.attached THEN l.box ELSE [l.box EXCEPT !.w = AtLeast1(sh.w), !.h = AtLeast1(sh.h)]
      across == Placed(sh.w, has.w, outputs[o][1], "left" \in sh.edges, "right" \in sh.edges, sh.margin)
      down   == Placed(sh.h, has.h, outputs[o][2], "top" \in sh.edges, "bottom" \in sh.edges, sh.margin)
  IN IF o = None THEN l
     ELSE [l EXCEPT !.box = [x |-> across.at, y |-> down.at, w |-> across.size, h |-> down.size]]

-----------------------------------------------------------------------------
(* The edge along which a layer lies: it must touch that edge and both its *)
(* neighbours, and no other.                                               *)
Side(shape) ==
  CASE shape.edges = {"top", "left", "right"}    -> "top"
    [] shape.edges = {"bottom", "left", "right"} -> "bottom"
    [] shape.edges = {"left", "top", "bottom"}   -> "left"
    [] shape.edges = {"right", "top", "bottom"}  -> "right"
    [] OTHER -> "none"

Less(a, b) == IF a < b THEN a ELSE b
More(a, b) == IF a < b THEN b ELSE a

(* work_area_system takes a layer's zone off the area of its output.       *)
ReserveNoMargin(a, l) ==
  LET zone == l.shape.zone
      x2 == a.x + a.w
      y2 == a.y + a.h
      left   == IF Side(l.shape) = "left"   THEN More(a.x, zone) ELSE a.x
      top    == IF Side(l.shape) = "top"    THEN More(a.y, zone) ELSE a.y
      right  == IF Side(l.shape) = "right"  THEN Less(x2, l.box.x + l.box.w - zone) ELSE x2
      bottom == IF Side(l.shape) = "bottom" THEN Less(y2, l.box.y + l.box.h - zone) ELSE y2
  IN [x |-> left, y |-> top, w |-> AtLeast1(right - left), h |-> AtLeast1(bottom - top)]

Reserve(a, l) ==
  LET zone == l.shape.zone
      x2 == a.x + a.w
      y2 == a.y + a.h
      left   == IF Side(l.shape) = "left"   THEN More(a.x, l.box.x + zone) ELSE a.x
      top    == IF Side(l.shape) = "top"    THEN More(a.y, l.box.y + zone) ELSE a.y
      right  == IF Side(l.shape) = "right"  THEN Less(x2, l.box.x + l.box.w - zone) ELSE x2
      bottom == IF Side(l.shape) = "bottom" THEN Less(y2, l.box.y + l.box.h - zone) ELSE y2
  IN [x |-> left, y |-> top, w |-> AtLeast1(right - left), h |-> AtLeast1(bottom - top)]

WorkArea(n, ls, id) ==
  FoldLeft(Reserve, [x |-> 0, y |-> 0, w |-> outputs[n][1], h |-> outputs[n][2]],
           SelectSeq(ls, LAMBDA l : l.attached /\ l.shape.zone > 0 /\ OutputOf(l, id) = n))

(* layer_input_geometry: with a zone, only the band along the edge.        *)
InputBox(l) ==
  LET zone == More(l.shape.zone, 0)
      b    == l.box
      tall == AtLeast1(Less(b.h, zone))
      wide == AtLeast1(Less(b.w, zone))
  IN IF zone = 0 THEN b
     ELSE CASE Side(l.shape) = "top"    -> [b EXCEPT !.h = tall]
            [] Side(l.shape) = "bottom" -> [b EXCEPT !.y = b.y + b.h - tall, !.h = tall]
            [] Side(l.shape) = "left"   -> [b EXCEPT !.w = wide]
            [] Side(l.shape) = "right"  -> [b EXCEPT !.x = b.x + b.w - wide, !.w = wide]
            [] OTHER -> b

(* Where a layer is shown: unlike the layout, the snapshot puts a layer    *)
(* whose output is gone on the primary one, if the mapped one is there.    *)
ShownOn(l, id) ==
  IF l.on # None THEN l.on ELSE IF l.wants \in Live THEN l.wants ELSE IF id \in Live THEN id ELSE None

Snapshot(ls, id) ==
  [s \in Surfaces |->
     IF Found(s, ls) = {} THEN None
     ELSE LET l == ls[CHOOSE i \in Found(s, ls) : \A j \in Found(s, ls) : j <= i]
          IN [on |-> ShownOn(l, id), box |-> l.box, input |-> InputBox(l),
              visible |-> l.attached /\ ShownOn(l, id) # None]]

-----------------------------------------------------------------------------
Least == CHOOSE n \in Live : \A m \in Live : n <= m

(* The protocol server maps the output with the least name and keeps the   *)
(* last when there is none; the shell is told which entity that is.        *)
Frame ==
  LET id  == IF Live = {} THEN primary ELSE Least
      ran == Lifecycle(Requests(deferred, queue))
      bound == [i \in DOMAIN ran.layers |-> Bind(ran.layers[i])]
      put == IF Live = {} THEN bound ELSE [i \in DOMAIN bound |-> Arranged(bound[i], id)]
  IN /\ mapped' = (IF Live = {} THEN mapped ELSE Least) /\ primary' = id
     /\ client' = [s \in Surfaces |-> [client[s] EXCEPT !.told = client[s].there]]
     /\ queue' = <<>> /\ deferred' = ran.deferred
     /\ layers' = put
     /\ area' = [n \in Names |-> IF n \in Live THEN WorkArea(n, put, id) ELSE None]
     /\ shown' = Snapshot(put, id)
     /\ UNCHANGED <<plugs, outputs>>

Next ==
  \/ \E s \in Surfaces : New(s) \/ Commit(s) \/ Destroy(s)
  \/ \E n \in Names : Plug(n)
  \/ Frame

Spec == Init /\ [][Next]_vars

-----------------------------------------------------------------------------
(* Nothing of a surface is on its way to the shell.                        *)
Settled(s) == \A r \in ToSet(queue \o deferred) : r.s # s

Of(s) == {i \in DOMAIN layers : layers[i].s = s}

(* Requests that came before their entity existed are replayed in later    *)
(* frames.  Once nothing of a surface is on its way, a client that shows a *)
(* buffer has one entity, with the shape of its last commit, and what was  *)
(* destroyed shows nothing: the shell "keeps the authoritative layer       *)
(* geometry/buffer attachment state updated from protocol commits".  The   *)
(* exception is a client so hasty that its last commit was sent before the *)
(* shell had carried out the destruction of the surface's previous life:   *)
(* that commit may go to the entity that is about to be despawned.         *)
LastCommitApplied ==
  \A s \in Surfaces : Settled(s) =>
    IF client[s].there /\ client[s].buffer # None
    THEN /\ Cardinality(Of(s)) = 1
         /\ ~client[s].hasty =>
              \A i \in Of(s) : layers[i].attached /\ layers[i].shape = client[s].shape
    ELSE \A i \in Of(s) : ~layers[i].attached

(* The zones along opposite edges of an output leave room between them.    *)
Zones(n, side) == {l \in ToSet(layers) : l.on = n /\ l.attached /\ Side(l.shape) = side}
Deepest(ls) ==
  IF ls = {} THEN 0
  ELSE CHOOSE d \in {l.shape.zone + l.shape.margin : l \in ls} :
         \A l \in ls : l.shape.zone + l.shape.margin <= d
Roomy(n) ==
  /\ Deepest(Zones(n, "left")) + Deepest(Zones(n, "right")) < outputs[n][1]
  /\ Deepest(Zones(n, "top")) + Deepest(Zones(n, "bottom")) < outputs[n][2]

Apart(a, b) == a.x + a.w <= b.x \/ b.x + b.w <= a.x \/ a.y + a.h <= b.y \/ b.y + b.h <= a.y

(* Where windows may be placed, no panel that reserves space takes the     *)
(* pointer: what work_area_system takes off an output and what             *)
(* layer_input_geometry leaves of a panel, computed apart, never overlap,  *)
(* whatever outputs came, went or were resized and whichever output the    *)
(* panel was bound to before.                                              *)
WorkAreaClear ==
  \A s \in Surfaces, n \in Live :
    (/\ shown[s] # None /\ shown[s].visible /\ shown[s].on = n
     /\ \E i \in Of(s) : /\ layers[i].s = s /\ layers[i].shape.zone > 0
                         /\ Side(layers[i].shape) # "none" /\ OutputOf(layers[i], primary) = n
     /\ area[n] # None /\ Roomy(n))
    => Apart(area[n], shown[s].input)
=============================================================================
