----------------------------- MODULE RenderGraph -----------------------------
(* From one output's render plan to its picture: the plan's items grouped into phases, the graph  *)
(* of passes compiled from the phases, the plans the backend takes from the graph (what is        *)
(* presented, what is read back, which targets exist) and what executing the passes leaves in     *)
(* every target.  A target holds the sequence of what was painted into it, oldest first.  The     *)
(* builder numbers the targets and the passes of all outputs with one counter; here every output  *)
(* counts from one, and target 1 is its swapchain.                                                *)
EXTENDS Integers, Sequences, FiniteSets, SequencesExt

Swapchain == 1
RoleOrder == <<"desktop", "compositor", "overlay", "cursor">>

(* The items of a role keep the order of the plan, a role without items has no pass. *)
Phases(items, effects, asked) ==
  [scenes |-> SelectSeq([i \in 1..4 |-> SelectSeq(items, LAMBDA it : it.role = RoleOrder[i])],
                        LAMBDA phase : phase # <<>>),
   effects |-> effects, asked |-> asked]

Node(kind, from, to, deps) ==
  [kind |-> kind, from |-> from, to |-> to, deps |-> deps, items |-> <<>>, effect |-> 0, asked |-> {}]

(* Without effects and without a screenshot the scene is painted into the swapchain itself.       *)
SceneTarget(phases) == IF phases.effects = <<>> /\ phases.asked = {} THEN Swapchain ELSE Swapchain + 1
LastTarget(phases) == SceneTarget(phases) + Len(phases.effects)

SceneNodes(phases) ==
  [i \in 1..Len(phases.scenes) |->
     [Node("scene", 0, SceneTarget(phases), IF i = 1 THEN {} ELSE {i - 1}) EXCEPT !.items = phases.scenes[i]]]

EffectNodes(phases) ==
  [k \in 1..Len(phases.effects) |->
     [Node("effect", SceneTarget(phases) + k - 1, SceneTarget(phases) + k, {Len(phases.scenes) + k - 1})
        EXCEPT !.effect = phases.effects[k]]]

(* The picture is copied to the swapchain when it is not there yet, and read back from where it   *)
(* was finished, after the pass that presents it.                                                 *)
Compile(phases) ==
  LET painted == SceneNodes(phases) \o EffectNodes(phases)
      copied == IF LastTarget(phases) = Swapchain THEN painted
                ELSE Append(painted, Node("composite", LastTarget(phases), Swapchain, {Len(painted)}))
      read == IF phases.asked = {} THEN copied
              ELSE Append(copied, [Node("readback", LastTarget(phases), LastTarget(phases), {Len(copied)})
                                     EXCEPT !.asked = phases.asked])
  IN IF phases.scenes = <<>>
     THEN [targets |-> {Swapchain, SceneTarget(phases)}, nodes |-> <<>>, terminal |-> {}]
     ELSE [targets |-> Swapchain..LastTarget(phases), nodes |-> read, terminal |-> {Len(copied), Len(read)}]

(* The passes some terminal pass depends on, in the order they were added. *)
Scheduled(graph) ==
  LET last == Len(graph.nodes)
      Needed[p \in 1..last] == \/ p \in graph.terminal
                               \/ \E q \in (p + 1)..last : p \in graph.nodes[q].deps /\ Needed[q]
  IN SelectSeq([p \in 1..last |-> p], LAMBDA p : Needed[p])

(* The last pass that paints the swapchain is the one that presents. *)
PresentingPass(graph) ==
  LET painting == {p \in 1..Len(graph.nodes) : graph.nodes[p].to = Swapchain}
  IN IF painting = {} THEN 0 ELSE CHOOSE p \in painting : \A q \in painting : q <= p

ReadBack(graph) == UNION {graph.nodes[p].asked : p \in 1..Len(graph.nodes)}

(* An item is painted when its surface can be imported; anything else always is. *)
Painted(items, ready) == SelectSeq(items, LAMBDA it : it.surface = 0 \/ it.surface \in ready)

(* The passes that read a target run through process units: a copy has the built-in shader, an    *)
(* effect the shader of its material.                                                             *)
UnitOf(node) == [shader |-> IF node.kind = "composite" THEN "copy" ELSE "material", from |-> node.from, to |-> node.to]

RunUnit(contents, unit, effect) ==
  [contents EXCEPT ![unit.to] =
     IF unit.shader = "copy" THEN contents[unit.from]
     ELSE Append(contents[unit.from], [role |-> "effect", surface |-> effect])]

(* A slip: the scene is painted over what the target held in the frame before. *)
RunPassOver(contents, node, ready) ==
  CASE node.kind = "scene" -> [contents EXCEPT ![node.to] = @ \o Painted(node.items, ready)]
    [] node.kind \in {"effect", "composite"} -> RunUnit(contents, UnitOf(node), node.effect)
    [] OTHER -> contents

(* One pass: only a scene pass without dependencies clears its target first, an effect and a      *)
(* copy replace what their target held, and reading back changes nothing.                         *)
RunPass(contents, node, ready) ==
  CASE node.kind = "scene" ->
         [contents EXCEPT ![node.to] = (IF node.deps = {} THEN <<>> ELSE @) \o Painted(node.items, ready)]
    [] node.kind \in {"effect", "composite"} -> RunUnit(contents, UnitOf(node), node.effect)
    [] OTHER -> contents

(* The targets that survive from the previous frame keep what was painted into them. *)
PrepareTargets(graph, cached) ==
  [t \in graph.targets |-> IF t \in DOMAIN cached THEN cached[t] ELSE <<>>]

Execute(graph, cached, ready) ==
  LET order == Scheduled(graph)
      After[n \in 0..Len(order)] ==
        IF n = 0 THEN PrepareTargets(graph, cached)
        ELSE RunPass(After[n - 1], graph.nodes[order[n]], ready)
  IN After[Len(order)]

(* What is read back is what its source holds when the readback pass comes, as the last of all.   *)
Captured(graph, contents) == contents[graph.nodes[Len(graph.nodes)].from]

(* The audit of what is presented runs over the graph a second time, with lists of the plan's     *)
(* items for targets: a scene pass adds its items, any other pass replaces what its target lists. *)
AuditPass(lists, node) ==
  IF node.kind = "scene" THEN [lists EXCEPT ![node.to] = @ \o node.items]
  ELSE [lists EXCEPT ![node.to] = lists[node.from]]

(* What the swapchain lists in the end, without the items that are clipped away. *)
Audit(graph) ==
  LET order == Scheduled(graph)
      After[n \in 0..Len(order)] ==
        IF n = 0 THEN [t \in graph.targets |-> <<>>] ELSE AuditPass(After[n - 1], graph.nodes[order[n]])
  IN SelectSeq(After[Len(order)][Swapchain], LAMBDA it : it.cells # {})
===============================================================================
