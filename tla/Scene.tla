-------------------------------- MODULE Scene --------------------------------
(* What the shell wants shown: which surfaces are visible and on which output, in which order an  *)
(* output draws them, what the window switcher and the cursor add, and which surface is under the *)
(* pointer.  Geometry has one dimension: an output is Width cells wide and starts at the global   *)
(* cell Place[o]; a surface covers a set of cells counted from its output's left edge.            *)
(*                                                                                                *)
(* A desk is a record with the live outputs, the surfaces that have entities (alive), their kind  *)
(* ("background", "window", "helper", "popup", "below" or "above" for the two halves of the layer *)
(* shell), the parents of the popups, the output each belongs to, the windows not shown (hidden), *)
(* the surfaces with a buffer (attached), the cells and the exclusive zone of each, the stack of  *)
(* the windows (topmost last), the output that shows the switcher with its selected window and     *)
(* that window's place (slot), the pointer's cell and whether a cursor is set.                    *)
EXTENDS Integers, Sequences, FiniteSets, SequencesExt, FiniteSetsExt

CONSTANTS Width,    \* cells of an output
          Capacity, \* cards on one page of the switcher
          None

Place(o) == (o - 1) * Width
CellsOf(span) == span[1]..span[2]

Layers == {"below", "above"}
IsWindow(desk, s) == desk.kind[s] \in {"background", "window", "helper"}

(* A layer surface without a live output of its own is shown on the primary one. *)
LayerTarget(desk, s) == IF desk.home[s] \in desk.outs THEN desk.home[s]
                        ELSE IF desk.outs = {} THEN None ELSE Min(desk.outs)

(* Popups are resolved from their parents down; the layers come last, so that nothing hangs on    *)
(* them.                                                                                          *)
Targets(desk) ==
  LET Target[s \in desk.alive] ==
        CASE IsWindow(desk, s) -> IF desk.home[s] \in desk.outs THEN desk.home[s] ELSE None
          [] desk.kind[s] = "popup" ->
               IF desk.parent[s] \in desk.alive /\ desk.kind[desk.parent[s]] \notin Layers
               THEN Target[desk.parent[s]] ELSE None
          [] OTHER -> LayerTarget(desk, s)
  IN Target

Shown(desk) ==
  LET target == Targets(desk)
      IsShown[s \in desk.alive] ==
        CASE desk.kind[s] = "background" -> s \notin desk.hidden /\ target[s] # None
          [] IsWindow(desk, s) -> s \notin desk.hidden
          [] desk.kind[s] = "popup" ->
               /\ s \in desk.attached
               /\ desk.parent[s] \in desk.alive /\ desk.kind[desk.parent[s]] \notin Layers
               /\ IsShown[desk.parent[s]]
          [] OTHER -> s \in desk.attached /\ target[s] # None
  IN {s \in desk.alive : IsShown[s]}

TakesInput(desk) == {s \in Shown(desk) : desk.kind[s] \notin {"background", "helper"}}

(* A layer surface with an exclusive zone takes the pointer only in the zone, at its edge. *)
InputCells(desk, s) ==
  IF desk.kind[s] \in Layers /\ desk.zone[s] > 0
  THEN {c \in CellsOf(desk.span[s]) : c < desk.span[s][1] + desk.zone[s]}
  ELSE CellsOf(desk.span[s])

(* The members of a stack in its order, then the surfaces it does not know. *)
StackOrder(desk, shown) ==
  LET stacked == SelectSeq(desk.stack, LAMBDA s : s \in shown)
  IN stacked \o SetToSortSeq(shown \ ToSet(stacked), <)

(* One background per output, the layers below, the windows, the popups, the layers above. *)
DrawOrder(desk) ==
  LET shown == Shown(desk)
      target == Targets(desk)
      Of(kinds) == {s \in shown : desk.kind[s] \in kinds}
      backgrounds == {s \in Of({"background"}) :
                        \A t \in Of({"background"}) : target[t] = target[s] => t <= s}
  IN SetToSortSeq(backgrounds, LAMBDA s, t : target[s] < target[t])
       \o SetToSortSeq(Of({"below"}), <) \o StackOrder(desk, Of({"window", "helper"}))
       \o SetToSortSeq(Of({"popup"}), <) \o SetToSortSeq(Of({"above"}), <)

(* A surface without an output is drawn on all of them. *)
DesktopItems(desk, o) ==
  LET target == Targets(desk)
      here == SelectSeq(DrawOrder(desk), LAMBDA s : target[s] \in {o, None})
  IN [i \in 1..Len(here) |-> [role |-> "desktop", surface |-> here[i], name |-> <<"surface", here[i]>>, cells |-> CellsOf(desk.span[here[i]])]]

(* The switcher shows the page with the selected window: a panel, a card for every window of the  *)
(* page, the selected one above the others, and the windows' thumbnails above the cards.          *)
Candidates(desk) ==
  Reverse(StackOrder(desk, {s \in desk.alive : desk.kind[s] = "window" /\ s \notin desk.minimized}))

Page(desk) ==
  LET all == Candidates(desk)
      at == IF desk.selected \in ToSet(all) THEN CHOOSE i \in 1..Len(all) : all[i] = desk.selected
            ELSE Min({desk.slot, Len(all)})
      first == ((at - 1) \div Capacity) * Capacity
  IN SubSeq(all, first + 1, Min({first + Capacity, Len(all)}))

Overlay(desk, o) ==
  LET page == Page(desk)
      Item(name, surface, cells) == [role |-> "overlay", surface |-> surface, name |-> name, cells |-> cells]
      cards == [i \in 1..Len(page) |-> Item(<<"card", page[i]>>, 0, {i - 1})]
  IN IF desk.switcher # o \/ page = <<>> THEN <<>>
     ELSE <<Item(<<"panel", 0>>, 0, 0..(Len(page) - 1))>>
            \o SelectSeq(cards, LAMBDA c : c.name[2] # desk.selected)
            \o SelectSeq(cards, LAMBDA c : c.name[2] = desk.selected)
            \o [i \in 1..Len(page) |-> Item(<<"thumb", page[i]>>, page[i], {i - 1})]

PointedOutput(desk) ==
  LET under == {o \in desk.outs : desk.pointer \in Place(o)..(Place(o) + Width - 1)}
  IN IF under = {} THEN None ELSE Min(under)

Cursor(desk, o) ==
  IF desk.cursor /\ PointedOutput(desk) = o
  THEN <<[role |-> "cursor", surface |-> 0, name |-> <<"cursor", 0>>, cells |-> {desk.pointer - Place(o)}]>>
  ELSE <<>>

Plan(desk, o) == DesktopItems(desk, o) \o Overlay(desk, o) \o Cursor(desk, o)

(* The outputs are searched in turn, each from its topmost item down, for a surface that takes    *)
(* input at the pointer's cell; an output is not asked whether the cell is its own.               *)
Hits(desk, plan, o) ==
  {i \in 1..Len(plan[o]) :
     /\ plan[o][i].surface \in TakesInput(desk)
     /\ desk.pointer - Place(o) \in plan[o][i].cells \cap InputCells(desk, plan[o][i].surface)}

(* A slip: the search starts with the lowest item. *)
LowestFocus(desk, plan) ==
  LET hit == {o \in desk.outs : Hits(desk, plan, o) # {}}
  IN IF hit = {} THEN None ELSE plan[Min(hit)][Min(Hits(desk, plan, Min(hit)))].surface

PointerFocus(desk, plan) ==
  LET hit == {o \in desk.outs : Hits(desk, plan, o) # {}}
  IN IF hit = {} THEN None ELSE plan[Min(hit)][Max(Hits(desk, plan, Min(hit)))].surface
===============================================================================
