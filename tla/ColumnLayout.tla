---------------------------- MODULE ColumnLayout ----------------------------
(***************************************************************************)
(* The column layout of one workspace (WorkspaceColumnLayout).  A layout   *)
(* is a sequence of columns, left to right, and a column a sequence of     *)
(* surfaces, top to bottom.  Every column is as wide as the work area and  *)
(* its rows share the height, so at most two columns are on screen.        *)
(*                                                                         *)
(* The work area begins at the origin and is Width by Height.  Directions  *)
(* are -1 (left, up) and 1 (right, down).  An operator whose method        *)
(* returns an Option yields a set with at most one element; one whose      *)
(* method mutates and returns whether it did yields the layout, which      *)
(* differs from the old one exactly when the method returns true.          *)
(***************************************************************************)
EXTENDS Integers, Sequences, SequencesExt

CONSTANTS Width, Height  \* the work area

ASSUME AreaHasSize == Width \in Nat \ {0} /\ Height \in Nat \ {0}

Left == -1
Right == 1
Directions == {Left, Right}  \* and up, down

Holds(L, s) == \E c \in DOMAIN L : Contains(L[c], s)

\* coordinates_for_surface, for a surface the layout holds
ColumnOf(L, s) == CHOOSE c \in DOMAIN L :
                    Contains(L[c], s) /\ \A d \in 1 .. c - 1 : ~ Contains(L[d], s)
RowOf(L, s) == LET column == L[ColumnOf(L, s)] IN
               CHOOSE r \in DOMAIN column : column[r] = s

-----------------------------------------------------------------------------
(* Reconciling a layout with the surfaces there are                        *)

EnsureSurface(L, s) == IF Holds(L, s) THEN L ELSE Append(L, <<s>>)

\* every surface of a sequence, one after the other
EnsureSurfaces(L, news) ==
  LET ensured[n \in 0 .. Len(news)] ==
        IF n = 0 THEN L ELSE EnsureSurface(ensured[n - 1], news[n])
  IN  ensured[Len(news)]

\* Vec::retain: the elements that are in S, in their order
Retain(seq, S) ==
  LET kept[n \in 0 .. Len(seq)] ==
        IF n = 0 THEN <<>>
        ELSE IF seq[n] \in S THEN Append(kept[n - 1], seq[n]) ELSE kept[n - 1]
  IN  kept[Len(seq)]

RetainSurfaces(L, known) ==
  LET retained == [c \in DOMAIN L |-> Retain(L[c], known)]
  IN  Retain(retained, ToSet(retained) \ {<<>>})

-----------------------------------------------------------------------------
(* Moving the focus: the surface it moves to, if there is one              *)

FocusColumn(L, s, d) ==
  {LET r == RowOf(L, s) IN L[c][IF r <= Len(L[c]) THEN r ELSE Len(L[c])] :
     c \in IF Holds(L, s) THEN {ColumnOf(L, s) + d} \cap DOMAIN L ELSE {}}

FocusWindow(L, s, d) ==
  IF Holds(L, s)
    THEN LET column == L[ColumnOf(L, s)] IN
         {column[r] : r \in {RowOf(L, s) + d} \cap DOMAIN column}
    ELSE {}

-----------------------------------------------------------------------------
(* Moving surfaces                                                         *)

Exchange(seq, i, j) == [seq EXCEPT ![i] = seq[j], ![j] = seq[i]]

MoveColumn(L, s, d) ==
  IF Holds(L, s) /\ ColumnOf(L, s) + d \in DOMAIN L
    THEN Exchange(L, ColumnOf(L, s), ColumnOf(L, s) + d)
    ELSE L

MoveWindow(L, s, d) ==
  LET c == ColumnOf(L, s)
      r == RowOf(L, s)
  IN  IF Holds(L, s) /\ r + d \in DOMAIN L[c]
        THEN [L EXCEPT ![c] = Exchange(@, r, r + d)]
        ELSE L

Without(L, s) == [L EXCEPT ![ColumnOf(L, s)] = RemoveAt(@, RowOf(L, s))]

ConsumeIntoColumn(L, s, d) ==
  LET c == ColumnOf(L, s)
      emptied == Len(L[c]) = 1
      rest == IF emptied THEN RemoveAt(L, c) ELSE Without(L, s)
      target == IF emptied /\ d = Right THEN c + d - 1 ELSE c + d
  IN  IF Holds(L, s) /\ c + d \in DOMAIN L
        THEN [rest EXCEPT ![target] = Append(@, s)]
        ELSE L

ExpelFromColumn(L, s, d) ==
  LET c == ColumnOf(L, s) IN
  IF Holds(L, s) /\ Len(L[c]) > 1
    THEN InsertAt(Without(L, s), IF d = Left THEN c ELSE c + 1, <<s>>)
    ELSE L

-----------------------------------------------------------------------------
(* Geometry.  A point is a pair <<x, y>>.                                  *)

ColumnX(c) == (c - 1) * Width

\* split_extent: the first Height % n rows are one pixel taller.
RowY(n, r) == (r - 1) * (Height \div n)
              + IF r - 1 < Height % n THEN r - 1 ELSE Height % n
RowHeight(n, r) ==
  LET size == Height \div n + IF r - 1 < Height % n THEN 1 ELSE 0
  IN  IF size = 0 THEN 1 ELSE size

\* arranged_geometry
TileBox(L, s) ==
  LET c == ColumnOf(L, s)  n == Len(L[c])  r == RowOf(L, s)
  IN  [x |-> ColumnX(c), y |-> RowY(n, r), w |-> Width, h |-> RowHeight(n, r)]

\* snapped_viewport_for_surface
Anchor(L, s) == IF Holds(L, s)
                  THEN {<<TileBox(L, s).x, TileBox(L, s).y>>}
                  ELSE {}

Distance(a, b) == IF a < b THEN b - a ELSE a - b
NearestAnchor(anchors, p) ==
  CHOOSE i \in DOMAIN anchors : \A j \in DOMAIN anchors :
    \/ Distance(anchors[i], p) < Distance(anchors[j], p)
    \/ Distance(anchors[i], p) = Distance(anchors[j], p) /\ i <= j

\* the anchor one step from the nearest one
SteppedAnchor(anchors, p, d) ==
  IF anchors = <<>> THEN {}
  ELSE {anchors[i] : i \in {NearestAnchor(anchors, p) + d} \cap DOMAIN anchors}

\* snapped_viewport_after_pan
PanAcross(L, view, d) ==
  {<<x, view[2]>> : x \in SteppedAnchor([c \in DOMAIN L |-> ColumnX(c)], view[1], d)}
PanDown(L, s, view, d) ==
  IF Holds(L, s)
    THEN LET column == L[ColumnOf(L, s)] IN
         {<<view[1], y>> :
            y \in SteppedAnchor([r \in DOMAIN column |-> RowY(Len(column), r)], view[2], d)}
    ELSE {}

-----------------------------------------------------------------------------
Surfaces(L) == UNION {ToSet(L[c]) : c \in DOMAIN L}

(* What every operation above must keep: a surface is in one place, and no *)
(* column is empty.                                                        *)
InOnePlace(L) == \A c, d \in DOMAIN L : \A r \in DOMAIN L[c], q \in DOMAIN L[d] :
                   L[c][r] = L[d][q] => c = d /\ r = q
NoneEmpty(L) == \A c \in DOMAIN L : L[c] # <<>>
WellFormed(L) == InOnePlace(L) /\ NoneEmpty(L)
=============================================================================
