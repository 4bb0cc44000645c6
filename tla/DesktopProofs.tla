---------------------------- MODULE DesktopProofs ----------------------------
(***************************************************************************)
(* What the user sees and types into, whatever the windows, the workspaces *)
(* and the work area are: every window has its one place, the keyboard is  *)
(* given to a window that can be seen or reached, and a tile the focus     *)
(* lands on is brought into view.                                          *)
(*                                                                         *)
(* The parts of WindowsPlaced are inductive together: the columns are      *)
(* reconciled from columns that controls have rearranged, so TilesPlaced   *)
(* needs what is proved first of every operation on a column layout: a     *)
(* surface is in one place, no column is empty, and no surface is lost or  *)
(* made up.  And the viewport is centred on windows, so its type needs     *)
(* FloatPlaced.                                                            *)
(***************************************************************************)
EXTENDS Desktop, TLAPS, SequenceTheorems, WellFoundedInduction, FiniteSetTheorems

-----------------------------------------------------------------------------
(* Sequences.                                                              *)

\* Removing the element at i moves those behind it up.
LEMMA RemoveAtMembers ==
  ASSUME NEW S, NEW seq \in Seq(S), NEW i \in 1 .. Len(seq)
  PROVE  /\ RemoveAt(seq, i) \in Seq(S)
         /\ Len(RemoveAt(seq, i)) = Len(seq) - 1
         /\ \A j \in 1 .. Len(seq) - 1 :
              RemoveAt(seq, i)[j] = IF j < i THEN seq[j] ELSE seq[j + 1]
<1> DEFINE A == SubSeq(seq, 1, i - 1)
           B == SubSeq(seq, i + 1, Len(seq))
<1>1. Len(seq) \in Nat /\ \A j \in 1 .. Len(seq) : seq[j] \in S
  BY LenProperties, ElementOfSeq
<1>2. A \in Seq(S) /\ Len(A) = i - 1 /\ \A j \in 1 .. i - 1 : A[j] = seq[j]
  BY <1>1, SubSeqProperties
<1>3. B \in Seq(S) /\ Len(B) = Len(seq) - i /\ \A j \in 1 .. Len(seq) - i : B[j] = seq[j + i]
  BY <1>1, SubSeqProperties
<1>4. RemoveAt(seq, i) = A \o B
  BY DEF RemoveAt
<1> HIDE DEF A, B
<1>5. /\ A \o B \in Seq(S) /\ Len(A \o B) = Len(A) + Len(B)
      /\ \A j \in 1 .. Len(A) + Len(B) :
           (A \o B)[j] = IF j <= Len(A) THEN A[j] ELSE B[j - Len(A)]
  BY <1>2, <1>3, ConcatProperties
<1>6. \A j \in 1 .. Len(seq) - 1 : (A \o B)[j] = IF j < i THEN seq[j] ELSE seq[j + 1]
  <2> TAKE j \in 1 .. Len(seq) - 1
  <2>1. j \in 1 .. Len(A) + Len(B) /\ (j <= Len(A) <=> j < i)
    BY <1>1, <1>2, <1>3
  <2>2. CASE j < i
    BY <1>2, <1>5, <2>1, <2>2
  <2>3. CASE ~ (j < i)
    <3>1. j - Len(A) \in 1 .. Len(seq) - i /\ j - Len(A) + i = j + 1
      BY <1>1, <1>2, <2>3
    <3>2. QED
      BY <1>3, <1>5, <2>1, <2>3, <3>1
  <2>4. QED
    BY <2>2, <2>3
<1>7. QED
  BY <1>1, <1>2, <1>3, <1>4, <1>5, <1>6

\* Inserting an element at i moves those from there on down.
LEMMA InsertAtMembers ==
  ASSUME NEW S, NEW seq \in Seq(S), NEW i \in 1 .. Len(seq) + 1, NEW e \in S
  PROVE  /\ InsertAt(seq, i, e) \in Seq(S)
         /\ Len(InsertAt(seq, i, e)) = Len(seq) + 1
         /\ \A j \in 1 .. i - 1 : InsertAt(seq, i, e)[j] = seq[j]
         /\ InsertAt(seq, i, e)[i] = e
         /\ \A j \in i + 1 .. Len(seq) + 1 : InsertAt(seq, i, e)[j] = seq[j - 1]
<1> DEFINE A == SubSeq(seq, 1, i - 1) \o <<e>>
           B == SubSeq(seq, i, Len(seq))
<1>1. Len(seq) \in Nat /\ \A j \in 1 .. Len(seq) : seq[j] \in S
  BY LenProperties, ElementOfSeq
<1>2. A \in Seq(S) /\ Len(A) = i /\ \A j \in 1 .. i : A[j] = IF j < i THEN seq[j] ELSE e
  <2> DEFINE P == SubSeq(seq, 1, i - 1)
             E == <<e>>
  <2>1. P \in Seq(S) /\ Len(P) = i - 1 /\ \A j \in 1 .. i - 1 : P[j] = seq[j]
    BY <1>1, SubSeqProperties
  <2>2. E \in Seq(S) /\ Len(E) = 1 /\ E[1] = e
    OBVIOUS
  <2>3. A = P \o E
    OBVIOUS
  <2> HIDE DEF A, P, E
  <2>4. /\ P \o E \in Seq(S) /\ Len(P \o E) = Len(P) + Len(E)
        /\ \A j \in 1 .. Len(P) + Len(E) :
             (P \o E)[j] = IF j <= Len(P) THEN P[j] ELSE E[j - Len(P)]
    BY <2>1, <2>2, ConcatProperties
  <2>5. \A j \in 1 .. i : A[j] = IF j < i THEN seq[j] ELSE e
    <3> TAKE j \in 1 .. i
    <3>1. CASE j < i
      BY <1>1, <2>1, <2>2, <2>3, <2>4, <3>1
    <3>2. CASE j = i
      BY <1>1, <2>1, <2>2, <2>3, <2>4, <3>2
    <3>3. QED
      BY <1>1, <3>1, <3>2
  <2>6. QED
    BY <1>1, <2>1, <2>2, <2>3, <2>4, <2>5
<1>3. B \in Seq(S) /\ Len(B) = Len(seq) + 1 - i
      /\ \A j \in 1 .. Len(seq) + 1 - i : B[j] = seq[j + i - 1]
  BY <1>1, SubSeqProperties
<1>4. InsertAt(seq, i, e) = A \o B
  BY DEF InsertAt
<1> HIDE DEF A, B
<1>5. /\ A \o B \in Seq(S) /\ Len(A \o B) = Len(A) + Len(B)
      /\ \A j \in 1 .. Len(A) + Len(B) :
           (A \o B)[j] = IF j <= Len(A) THEN A[j] ELSE B[j - Len(A)]
  BY <1>2, <1>3, ConcatProperties
<1>6. /\ \A j \in 1 .. i - 1 : (A \o B)[j] = seq[j]
      /\ (A \o B)[i] = e
  <2>1. \A j \in 1 .. i : j \in 1 .. Len(A) + Len(B) /\ j <= Len(A)
    BY <1>1, <1>2, <1>3
  <2>2. \A j \in 1 .. i : (A \o B)[j] = A[j]
    BY <1>5, <2>1
  <2>3. (\A j \in 1 .. i - 1 : j \in 1 .. i /\ j < i) /\ i \in 1 .. i /\ ~ (i < i)
    BY <1>1
  <2>4. QED
    BY <1>2, <2>2, <2>3
<1>8. \A j \in i + 1 .. Len(seq) + 1 : (A \o B)[j] = seq[j - 1]
  <2> TAKE j \in i + 1 .. Len(seq) + 1
  <2>1. j \in 1 .. Len(A) + Len(B) /\ ~ (j <= Len(A))
    BY <1>1, <1>2, <1>3
  <2>2. j - Len(A) \in 1 .. Len(seq) + 1 - i /\ j - Len(A) + i - 1 = j - 1
    BY <1>1, <1>2
  <2>3. (A \o B)[j] = B[j - Len(A)]
    BY <1>5, <2>1
  <2>4. QED
    BY <1>3, <2>2, <2>3
<1>7. Len(A) + Len(B) = Len(seq) + 1
  BY <1>1, <1>2, <1>3
<1>9. QED
  BY <1>4, <1>5, <1>6, <1>7, <1>8

\* Where the members of a sequence are once two of them have changed places.
Swapped(i, j, k) == IF k = i THEN j ELSE IF k = j THEN i ELSE k

\* Exchanging two elements of a sequence moves only those two.
LEMMA ExchangeMembers ==
  ASSUME NEW S, NEW seq \in Seq(S), NEW i \in DOMAIN seq, NEW j \in DOMAIN seq
  PROVE  /\ Exchange(seq, i, j) \in Seq(S)
         /\ DOMAIN Exchange(seq, i, j) = DOMAIN seq
         /\ \A k \in DOMAIN seq : /\ Swapped(i, j, k) \in DOMAIN seq
                                 /\ Exchange(seq, i, j)[k] = seq[Swapped(i, j, k)]
<1>1. Len(seq) \in Nat /\ DOMAIN seq = 1 .. Len(seq) /\ seq \in [1 .. Len(seq) -> S]
  BY LenProperties
<1>2. Exchange(seq, i, j) \in [1 .. Len(seq) -> S]
  BY <1>1 DEF Exchange
<1>3. Exchange(seq, i, j) \in Seq(S)
  BY <1>1, <1>2, IsASeq
<1>4. QED
  BY <1>1, <1>2, <1>3 DEF Exchange, Swapped

-----------------------------------------------------------------------------
(* Places.                                                                 *)

\* What it means to be on the layout, in terms of columns and rows.
LEMMA HoldsMeans ==
  ASSUME NEW S, NEW L \in Seq(Seq(S)), NEW s
  PROVE  /\ Holds(L, s) <=> \E c \in DOMAIN L : \E r \in DOMAIN L[c] : L[c][r] = s
         /\ s \in Surfaces(L) <=> Holds(L, s)
<1>1. DOMAIN L = 1 .. Len(L) /\ \A c \in DOMAIN L : L[c] \in Seq(S)
  BY LenProperties, ElementOfSeq
<1>2. \A c \in DOMAIN L : DOMAIN L[c] = 1 .. Len(L[c])
  BY <1>1, LenProperties
<1>3. \A c \in DOMAIN L : Contains(L[c], s) <=> \E r \in DOMAIN L[c] : L[c][r] = s
  BY <1>2 DEF Contains
<1>4. \A c \in DOMAIN L : s \in ToSet(L[c]) <=> \E r \in DOMAIN L[c] : L[c][r] = s
  BY DEF ToSet
<1>5. QED
  BY <1>3, <1>4 DEF Holds, Surfaces

\* A surface that is in one place is where ColumnOf and RowOf say.
LEMMA PlaceOf ==
  ASSUME NEW S, NEW L \in Seq(Seq(S)), NEW s, InOnePlace(L), Holds(L, s)
  PROVE  /\ ColumnOf(L, s) \in DOMAIN L
         /\ RowOf(L, s) \in DOMAIN L[ColumnOf(L, s)]
         /\ L[ColumnOf(L, s)][RowOf(L, s)] = s
<1>1. DOMAIN L = 1 .. Len(L) /\ Len(L) \in Nat /\ \A c \in DOMAIN L : L[c] \in Seq(S)
  BY LenProperties, ElementOfSeq
<1>2. \A c \in DOMAIN L : DOMAIN L[c] = 1 .. Len(L[c])
  BY <1>1, LenProperties
<1>3. \A c \in DOMAIN L : Contains(L[c], s) <=> \E r \in DOMAIN L[c] : L[c][r] = s
  BY <1>2 DEF Contains
<1>4. PICK c \in DOMAIN L : Contains(L[c], s)
  BY DEF Holds
<1>5. \A d \in 1 .. c - 1 : ~ Contains(L[d], s)
  <2>1. \A d \in 1 .. c - 1 : d \in DOMAIN L /\ d # c
    BY <1>1
  <2>2. QED
    BY <1>3, <1>4, <2>1 DEF InOnePlace
<1>6. ColumnOf(L, s) \in DOMAIN L /\ Contains(L[ColumnOf(L, s)], s)
  BY <1>4, <1>5 DEF ColumnOf
<1>7. QED
  BY <1>3, <1>6 DEF RowOf

-----------------------------------------------------------------------------
(* The operations.                                                         *)

\* WorkspaceColumnLayout::ensure_surface adds the surface when it is not there,
\* and nothing else.
THEOREM EnsureKeeps ==
  ASSUME NEW S, NEW L \in Seq(Seq(S)), NEW s \in S, WellFormed(L)
  PROVE  /\ EnsureSurface(L, s) \in Seq(Seq(S))
         /\ WellFormed(EnsureSurface(L, s))
         /\ Surfaces(EnsureSurface(L, s)) = Surfaces(L) \cup {s}
<1>1. CASE Holds(L, s)
  BY <1>1, HoldsMeans DEF EnsureSurface
<1>2. CASE ~ Holds(L, s)
  <2> DEFINE M == Append(L, <<s>>)
  <2>1. EnsureSurface(L, s) = M
    BY <1>2 DEF EnsureSurface
  <2>2. /\ DOMAIN L = 1 .. Len(L) /\ Len(L) \in Nat
        /\ <<s>> \in Seq(S) /\ DOMAIN <<s>> = {1} /\ <<s>>[1] = s
    BY LenProperties
  <2>3. /\ M \in Seq(Seq(S)) /\ DOMAIN M = 1 .. Len(L) + 1
        /\ \A c \in DOMAIN L : M[c] = L[c]
        /\ M[Len(L) + 1] = <<s>>
    BY <2>2, AppendProperties
  <2>4. \A c \in DOMAIN M : c \in DOMAIN L \/ c = Len(L) + 1
    BY <2>2, <2>3
  <2> HIDE DEF M
  <2>5. \A c \in DOMAIN L : \A r \in DOMAIN L[c] : L[c][r] # s
    BY <1>2, HoldsMeans
  <2>6. InOnePlace(M)
    <3> SUFFICES ASSUME NEW c \in DOMAIN M, NEW d \in DOMAIN M,
                        NEW r \in DOMAIN M[c], NEW q \in DOMAIN M[d], M[c][r] = M[d][q]
                 PROVE  c = d /\ r = q
      BY DEF InOnePlace
    <3>1. CASE c \in DOMAIN L /\ d \in DOMAIN L
      BY <2>3, <3>1 DEF WellFormed, InOnePlace
    <3>2. CASE c = Len(L) + 1 /\ d \in DOMAIN L
      BY <2>2, <2>3, <2>5, <3>2
    <3>3. CASE c \in DOMAIN L /\ d = Len(L) + 1
      BY <2>2, <2>3, <2>5, <3>3
    <3>4. CASE c = Len(L) + 1 /\ d = Len(L) + 1
      BY <2>2, <2>3, <3>4
    <3>5. QED
      BY <2>4, <3>1, <3>2, <3>3, <3>4
  <2>7. NoneEmpty(M)
    <3>1. <<s>> # <<>>
      OBVIOUS
    <3>2. QED
      BY <2>3, <2>4, <3>1 DEF WellFormed, NoneEmpty
  <2>8. Surfaces(M) = Surfaces(L) \cup {s}
    <3>1. DOMAIN L \subseteq DOMAIN M /\ Len(L) + 1 \in DOMAIN M
      BY <2>2, <2>3
    <3>2. ToSet(<<s>>) = {s}
      BY <2>2 DEF ToSet
    <3>3. QED
      BY <2>3, <2>4, <3>1, <3>2 DEF Surfaces
  <2>9. QED
    BY <2>1, <2>3, <2>6, <2>7, <2>8 DEF WellFormed
<1>3. QED
  BY <1>1, <1>2

-----------------------------------------------------------------------------
(* Moving columns and rows.                                                *)

\* WorkspaceColumnLayout::move_column only changes the order of the columns.
THEOREM MoveColumnKeeps ==
  ASSUME NEW S, NEW L \in Seq(Seq(S)), NEW s, NEW d \in Directions, WellFormed(L)
  PROVE  /\ MoveColumn(L, s, d) \in Seq(Seq(S))
         /\ WellFormed(MoveColumn(L, s, d))
         /\ Surfaces(MoveColumn(L, s, d)) = Surfaces(L)
<1> DEFINE i == ColumnOf(L, s)
           j == ColumnOf(L, s) + d
           M == Exchange(L, i, j)
<1>1. CASE Holds(L, s) /\ j \in DOMAIN L
  <2>1. i \in DOMAIN L /\ j \in DOMAIN L
    BY <1>1, PlaceOf DEF WellFormed
  <2>2. MoveColumn(L, s, d) = M
    BY <1>1 DEF MoveColumn
  <2> HIDE DEF i, j, M
  <2>3. /\ M \in Seq(Seq(S)) /\ DOMAIN M = DOMAIN L
        /\ \A c \in DOMAIN L : Swapped(i, j, c) \in DOMAIN L /\ M[c] = L[Swapped(i, j, c)]
    BY <2>1, ExchangeMembers DEF M
  <2>4. \A c \in DOMAIN L : M[Swapped(i, j, c)] = L[c]
    BY <2>1, <2>3 DEF Swapped
  <2>5. InOnePlace(M)
    <3> SUFFICES ASSUME NEW b \in DOMAIN M, NEW c \in DOMAIN M,
                        NEW r \in DOMAIN M[b], NEW q \in DOMAIN M[c], M[b][r] = M[c][q]
                 PROVE  b = c /\ r = q
      BY DEF InOnePlace
    <3>1. Swapped(i, j, b) = Swapped(i, j, c) /\ r = q
      BY <2>3 DEF WellFormed, InOnePlace
    <3>2. QED
      BY <3>1 DEF Swapped
  <2>6. NoneEmpty(M)
    BY <2>3 DEF WellFormed, NoneEmpty
  <2>7. Surfaces(M) = Surfaces(L)
    BY <2>3, <2>4 DEF Surfaces
  <2>8. QED
    BY <2>2, <2>3, <2>5, <2>6, <2>7 DEF WellFormed
<1>2. CASE ~ (Holds(L, s) /\ j \in DOMAIN L)
  BY <1>2 DEF MoveColumn
<1>3. QED
  BY <1>1, <1>2

\* WorkspaceColumnLayout::move_window only changes the order in one column.
THEOREM MoveWindowKeeps ==
  ASSUME NEW S, NEW L \in Seq(Seq(S)), NEW s, NEW d \in Directions, WellFormed(L)
  PROVE  /\ MoveWindow(L, s, d) \in Seq(Seq(S))
         /\ WellFormed(MoveWindow(L, s, d))
         /\ Surfaces(MoveWindow(L, s, d)) = Surfaces(L)
<1> DEFINE c == ColumnOf(L, s)
           i == RowOf(L, s)
           j == RowOf(L, s) + d
           column == Exchange(L[c], i, j)
           M == [L EXCEPT ![c] = column]
<1>1. CASE Holds(L, s) /\ j \in DOMAIN L[c]
  <2>1. c \in DOMAIN L /\ i \in DOMAIN L[c] /\ j \in DOMAIN L[c]
    BY <1>1, PlaceOf DEF WellFormed
  <2>2. MoveWindow(L, s, d) = M
    BY <1>1 DEF MoveWindow
  <2> HIDE DEF c, i, j, column, M
  <2>3. L[c] \in Seq(S)
    BY <2>1, LenProperties, ElementOfSeq
  <2>4. /\ column \in Seq(S) /\ DOMAIN column = DOMAIN L[c]
        /\ \A k \in DOMAIN L[c] : Swapped(i, j, k) \in DOMAIN L[c]
                                  /\ column[k] = L[c][Swapped(i, j, k)]
    BY <2>1, <2>3, ExchangeMembers DEF column
  <2>5. /\ M \in Seq(Seq(S)) /\ DOMAIN M = DOMAIN L /\ M[c] = column
        /\ \A b \in DOMAIN L \ {c} : M[b] = L[b]
    <3>1. c \in 1 .. Len(L)
      BY <2>1, LenProperties
    <3>2. QED
      BY <2>1, <2>4, <3>1, ExceptSeq DEF M
  <2>6. InOnePlace(M)
    <3> SUFFICES ASSUME NEW a \in DOMAIN M, NEW b \in DOMAIN M,
                        NEW r \in DOMAIN M[a], NEW q \in DOMAIN M[b], M[a][r] = M[b][q]
                 PROVE  a = b /\ r = q
      BY DEF InOnePlace
    <3> DEFINE Row(x, y) == IF x = c THEN Swapped(i, j, y) ELSE y
    <3>1. \A x \in DOMAIN M : \A y \in DOMAIN M[x] :
            Row(x, y) \in DOMAIN L[x] /\ M[x][y] = L[x][Row(x, y)]
      BY <2>4, <2>5
    <3>2. a = b /\ Row(a, r) = Row(b, q)
      BY <2>5, <3>1 DEF WellFormed, InOnePlace
    <3>3. QED
      BY <3>2 DEF Swapped
  <2>7. NoneEmpty(M)
    <3>1. column # <<>>
      BY <2>1, <2>4
    <3>2. QED
      BY <2>5, <3>1 DEF WellFormed, NoneEmpty
  <2>8. Surfaces(M) = Surfaces(L)
    <3>1. \A k \in DOMAIN L[c] : column[Swapped(i, j, k)] = L[c][k]
      BY <2>1, <2>4 DEF Swapped
    <3>2. ToSet(column) = ToSet(L[c])
      BY <2>4, <3>1 DEF ToSet
    <3>3. \A b \in DOMAIN L : ToSet(M[b]) = ToSet(L[b])
      BY <2>5, <3>2
    <3>4. QED
      BY <2>5, <3>3 DEF Surfaces
  <2>9. QED
    BY <2>2, <2>5, <2>6, <2>7, <2>8 DEF WellFormed
<1>2. CASE ~ (Holds(L, s) /\ j \in DOMAIN L[c])
  BY <1>2 DEF MoveWindow
<1>3. QED
  BY <1>1, <1>2

-----------------------------------------------------------------------------
(* Taking a surface out of its column and putting it into another.         *)

\* Taking a surface out of its column leaves the others where they can be found.
LEMMA WithoutKeeps ==
  ASSUME NEW S, NEW L \in Seq(Seq(S)), NEW s, WellFormed(L), Holds(L, s)
  PROVE  /\ Without(L, s) \in Seq(Seq(S)) /\ DOMAIN Without(L, s) = DOMAIN L
         /\ InOnePlace(Without(L, s))
         /\ Surfaces(Without(L, s)) = Surfaces(L) \ {s}
         /\ Len(L[ColumnOf(L, s)]) > 1 => NoneEmpty(Without(L, s))
<1> DEFINE c == ColumnOf(L, s)
           i == RowOf(L, s)
           column == RemoveAt(L[c], i)
           M == [L EXCEPT ![c] = column]
           Row(x, y) == IF x = c /\ y >= i THEN y + 1 ELSE y
<1>1. c \in DOMAIN L /\ i \in DOMAIN L[c] /\ L[c][i] = s
  BY PlaceOf DEF WellFormed
<1>2. Without(L, s) = M
  BY DEF Without
<1> HIDE DEF c, i, column, M
<1>3. /\ \A x \in DOMAIN L : L[x] \in Seq(S) /\ DOMAIN L[x] = 1 .. Len(L[x]) /\ Len(L[x]) \in Nat
      /\ c \in 1 .. Len(L)
  BY <1>1, LenProperties, ElementOfSeq
<1>4. /\ column \in Seq(S) /\ DOMAIN column = 1 .. Len(L[c]) - 1
      /\ \A y \in 1 .. Len(L[c]) - 1 : column[y] = IF y < i THEN L[c][y] ELSE L[c][y + 1]
  <2>1. L[c] \in Seq(S) /\ i \in 1 .. Len(L[c])
    BY <1>1, <1>3
  <2>2. /\ column \in Seq(S) /\ Len(column) = Len(L[c]) - 1
        /\ \A y \in 1 .. Len(L[c]) - 1 : column[y] = IF y < i THEN L[c][y] ELSE L[c][y + 1]
    BY <2>1, RemoveAtMembers DEF column
  <2>3. DOMAIN column = 1 .. Len(column)
    BY <2>2, LenProperties
  <2>4. QED
    BY <2>2, <2>3
<1>5. /\ M \in Seq(Seq(S)) /\ DOMAIN M = DOMAIN L /\ M[c] = column
      /\ \A x \in DOMAIN L \ {c} : M[x] = L[x]
  BY <1>1, <1>3, <1>4, ExceptSeq DEF M
<1>6. \A x \in DOMAIN M : \A y \in DOMAIN M[x] :
        /\ Row(x, y) \in DOMAIN L[x] /\ M[x][y] = L[x][Row(x, y)]
        /\ ~ (x = c /\ Row(x, y) = i)
  <2> SUFFICES ASSUME NEW x \in DOMAIN M, NEW y \in DOMAIN M[x]
               PROVE  /\ Row(x, y) \in DOMAIN L[x] /\ M[x][y] = L[x][Row(x, y)]
                      /\ ~ (x = c /\ Row(x, y) = i)
    OBVIOUS
  <2>0. i \in Int /\ i >= 1 /\ Len(L[c]) \in Int
    BY <1>1, <1>3
  <2>1. CASE x = c /\ y >= i
    <3>1. Row(x, y) = y + 1
      BY <2>1
    <3>2. y \in 1 .. Len(L[c]) - 1 /\ M[x][y] = column[y]
      BY <1>4, <1>5, <2>1
    <3>3. ~ (y < i) /\ y + 1 \in 1 .. Len(L[c]) /\ y + 1 # i
      BY <2>0, <2>1, <3>2
    <3>4. M[x][y] = L[c][y + 1]
      BY <1>4, <3>2, <3>3
    <3>5. QED
      BY <1>1, <1>3, <2>1, <3>1, <3>3, <3>4
  <2>2. CASE x = c /\ ~ (y >= i)
    <3>1. Row(x, y) = y
      BY <2>2
    <3>2. y \in 1 .. Len(L[c]) - 1 /\ M[x][y] = column[y]
      BY <1>4, <1>5, <2>2
    <3>3. y < i /\ y \in 1 .. Len(L[c]) /\ y # i
      BY <2>0, <2>2, <3>2
    <3>4. M[x][y] = L[c][y]
      BY <1>4, <3>2, <3>3
    <3>5. QED
      BY <1>1, <1>3, <2>2, <3>1, <3>3, <3>4
  <2>3. CASE x # c
    BY <1>5, <2>3
  <2>4. QED
    BY <2>1, <2>2, <2>3
<1>7. \A x \in DOMAIN L : \A z \in DOMAIN L[x] :
        ~ (x = c /\ z = i) => \E y \in DOMAIN M[x] : M[x][y] = L[x][z]
  <2> SUFFICES ASSUME NEW x \in DOMAIN L, NEW z \in DOMAIN L[x], ~ (x = c /\ z = i)
               PROVE  \E y \in DOMAIN M[x] : M[x][y] = L[x][z]
    OBVIOUS
  <2>1. CASE x = c /\ z < i
    <3>1. z \in 1 .. Len(L[c]) - 1
      BY <1>1, <1>3, <2>1
    <3>2. QED
      BY <1>4, <1>5, <2>1, <3>1
  <2>2. CASE x = c /\ z > i
    <3>1. z - 1 \in 1 .. Len(L[c]) - 1 /\ ~ (z - 1 < i) /\ z - 1 + 1 = z
      BY <1>1, <1>3, <2>2
    <3>2. QED
      BY <1>4, <1>5, <2>2, <3>1
  <2>3. CASE x # c
    BY <1>5, <2>3
  <2>4. QED
    BY <1>1, <1>3, <2>1, <2>2, <2>3
<1>8. InOnePlace(M)
  <2> SUFFICES ASSUME NEW a \in DOMAIN M, NEW b \in DOMAIN M,
                      NEW r \in DOMAIN M[a], NEW q \in DOMAIN M[b], M[a][r] = M[b][q]
               PROVE  a = b /\ r = q
    BY DEF InOnePlace
  <2>1. a = b /\ Row(a, r) = Row(b, q)
    BY <1>5, <1>6 DEF WellFormed, InOnePlace
  <2>2. r \in Int /\ q \in Int /\ i \in Int
    <3>1. M[a] \in Seq(S) /\ M[b] \in Seq(S)
      BY <1>5, LenProperties, ElementOfSeq
    <3>2. DOMAIN M[a] = 1 .. Len(M[a]) /\ DOMAIN M[b] = 1 .. Len(M[b])
      BY <3>1, LenProperties
    <3>3. QED
      BY <1>1, <1>3, <3>2
  <2>3. QED
    BY <2>1, <2>2
<1>9. Surfaces(M) = Surfaces(L) \ {s}
  <2>1. ASSUME NEW t PROVE t \in Surfaces(M) <=> t \in Surfaces(L) /\ t # s
    <3>1. /\ t \in Surfaces(M) <=> \E x \in DOMAIN M : \E y \in DOMAIN M[x] : M[x][y] = t
          /\ t \in Surfaces(L) <=> \E x \in DOMAIN L : \E y \in DOMAIN L[x] : L[x][y] = t
      BY <1>5, HoldsMeans
    <3>2. \A x \in DOMAIN L : \A z \in DOMAIN L[x] : L[x][z] = s => x = c /\ z = i
      BY <1>1 DEF WellFormed, InOnePlace
    <3>3. ASSUME t \in Surfaces(M) PROVE t \in Surfaces(L) /\ t # s
      <4>1. PICK x \in DOMAIN M : \E y \in DOMAIN M[x] : M[x][y] = t
        BY <3>1, <3>3
      <4>2. PICK y \in DOMAIN M[x] : M[x][y] = t
        BY <4>1
      <4> DEFINE z == Row(x, y)
      <4>3. x \in DOMAIN L /\ z \in DOMAIN L[x] /\ L[x][z] = t /\ ~ (x = c /\ z = i)
        BY <1>5, <1>6, <4>2
      <4> HIDE DEF z
      <4>4. QED
        BY <3>1, <3>2, <4>3
    <3>4. ASSUME t \in Surfaces(L), t # s PROVE t \in Surfaces(M)
      BY <1>1, <1>5, <1>7, <3>1, <3>4
    <3>5. QED
      BY <3>3, <3>4
  <2>2. QED
    BY <2>1
<1>10. ASSUME Len(L[c]) > 1 PROVE NoneEmpty(M)
  <2>1. column # <<>>
    BY <1>1, <1>3, <1>4, <1>10
  <2>2. QED
    BY <1>5, <2>1 DEF WellFormed, NoneEmpty
<1>11. QED
  BY <1>2, <1>5, <1>8, <1>9, <1>10 DEF c

\* A new column with one surface finds its place among the others.
LEMMA InsertColumnKeeps ==
  ASSUME NEW S, NEW L \in Seq(Seq(S)), NEW s \in S, WellFormed(L), s \notin Surfaces(L),
         NEW k \in 1 .. Len(L) + 1
  PROVE  /\ InsertAt(L, k, <<s>>) \in Seq(Seq(S))
         /\ WellFormed(InsertAt(L, k, <<s>>))
         /\ Surfaces(InsertAt(L, k, <<s>>)) = Surfaces(L) \cup {s}
<1> DEFINE M == InsertAt(L, k, <<s>>)
           Old(x) == IF x < k THEN x ELSE x - 1
<1>1. /\ Len(L) \in Nat /\ DOMAIN L = 1 .. Len(L) /\ k \in Int
      /\ <<s>> \in Seq(S) /\ DOMAIN <<s>> = {1} /\ <<s>>[1] = s /\ <<s>> # <<>>
  BY LenProperties
<1>2. /\ M \in Seq(Seq(S)) /\ Len(M) = Len(L) + 1 /\ M[k] = <<s>>
      /\ \A x \in 1 .. k - 1 : M[x] = L[x]
      /\ \A x \in k + 1 .. Len(L) + 1 : M[x] = L[x - 1]
  <2> DEFINE column == <<s>>
             Columns == Seq(S)
  <2>1. column \in Columns /\ L \in Seq(Columns)
    BY <1>1
  <2> HIDE DEF column, Columns
  <2>2. /\ InsertAt(L, k, column) \in Seq(Columns) /\ Len(InsertAt(L, k, column)) = Len(L) + 1
        /\ InsertAt(L, k, column)[k] = column
        /\ \A x \in 1 .. k - 1 : InsertAt(L, k, column)[x] = L[x]
        /\ \A x \in k + 1 .. Len(L) + 1 : InsertAt(L, k, column)[x] = L[x - 1]
    <3>1. /\ InsertAt(L, k, column) \in Seq(Columns) /\ Len(InsertAt(L, k, column)) = Len(L) + 1
      BY <2>1, InsertAtMembers
    <3>2. InsertAt(L, k, column)[k] = column
      BY <2>1, InsertAtMembers
    <3>3. \A x \in 1 .. k - 1 : InsertAt(L, k, column)[x] = L[x]
      BY <2>1, InsertAtMembers
    <3>4. \A x \in k + 1 .. Len(L) + 1 : InsertAt(L, k, column)[x] = L[x - 1]
      BY <2>1, InsertAtMembers
    <3>5. QED
      BY <3>1, <3>2, <3>3, <3>4
  <2>3. QED
    BY <2>2 DEF column, Columns
<1> HIDE DEF M
<1>3. DOMAIN M = 1 .. Len(L) + 1
  BY <1>2, LenProperties
<1>4. \A x \in DOMAIN M \ {k} : Old(x) \in DOMAIN L /\ M[x] = L[Old(x)]
  <2> TAKE x \in DOMAIN M \ {k}
  <2>1. CASE x < k
    BY <1>1, <1>2, <1>3, <2>1
  <2>2. CASE ~ (x < k)
    <3>1. x \in k + 1 .. Len(L) + 1
      BY <1>1, <1>3, <2>2
    <3>2. QED
      BY <1>1, <1>2, <2>2, <3>1
  <2>3. QED
    BY <2>1, <2>2
<1>5. \A x \in DOMAIN L : \E y \in DOMAIN M \ {k} : M[y] = L[x]
  <2> TAKE x \in DOMAIN L
  <2>1. CASE x < k
    <3>1. x \in DOMAIN M \ {k} /\ x \in 1 .. k - 1
      BY <1>1, <1>3, <2>1
    <3>2. QED
      BY <1>2, <3>1
  <2>2. CASE ~ (x < k)
    <3>1. x + 1 \in DOMAIN M \ {k} /\ x + 1 \in k + 1 .. Len(L) + 1 /\ x + 1 - 1 = x
      BY <1>1, <1>3, <2>2
    <3>2. QED
      BY <1>2, <3>1
  <2>3. QED
    BY <2>1, <2>2
<1>6. \A x \in DOMAIN M \ {k} : \A y \in DOMAIN M[x] : M[x][y] # s
  BY <1>4, HoldsMeans
<1>7. InOnePlace(M)
  <2> SUFFICES ASSUME NEW a \in DOMAIN M, NEW b \in DOMAIN M,
                      NEW r \in DOMAIN M[a], NEW q \in DOMAIN M[b], M[a][r] = M[b][q]
               PROVE  a = b /\ r = q
    BY DEF InOnePlace
  <2>1. CASE a # k /\ b # k
    <3>1. Old(a) = Old(b) /\ r = q
      BY <1>4, <2>1 DEF WellFormed, InOnePlace
    <3>2. a \in Int /\ b \in Int
      BY <1>1, <1>3
    <3>3. QED
      BY <1>1, <2>1, <3>1, <3>2
  <2>2. CASE a = k /\ b = k
    BY <1>1, <1>2, <2>2
  <2>3. CASE a = k /\ b # k
    BY <1>1, <1>2, <1>6, <2>3
  <2>4. CASE a # k /\ b = k
    BY <1>1, <1>2, <1>6, <2>4
  <2>5. QED
    BY <2>1, <2>2, <2>3, <2>4
<1>8. NoneEmpty(M)
  BY <1>1, <1>2, <1>4 DEF WellFormed, NoneEmpty
<1>9. Surfaces(M) = Surfaces(L) \cup {s}
  <2>1. k \in DOMAIN M /\ ToSet(M[k]) = {s}
    BY <1>1, <1>2, <1>3 DEF ToSet
  <2>2. QED
    BY <1>4, <1>5, <2>1 DEF Surfaces
<1>10. QED
  BY <1>2, <1>7, <1>8, <1>9 DEF WellFormed, M

\* A column whose only surface leaves goes with it.
LEMMA RemoveColumnKeeps ==
  ASSUME NEW S, NEW L \in Seq(Seq(S)), WellFormed(L), NEW c \in DOMAIN L, Len(L[c]) = 1
  PROVE  /\ RemoveAt(L, c) \in Seq(Seq(S)) /\ Len(RemoveAt(L, c)) = Len(L) - 1
         /\ WellFormed(RemoveAt(L, c))
         /\ Surfaces(RemoveAt(L, c)) = Surfaces(L) \ {L[c][1]}
<1> DEFINE s == L[c][1]
           M == RemoveAt(L, c)
           Columns == Seq(S)
           Old(x) == IF x < c THEN x ELSE x + 1
<1>1. /\ Len(L) \in Nat /\ DOMAIN L = 1 .. Len(L) /\ c \in 1 .. Len(L)
      /\ L[c] \in Seq(S) /\ DOMAIN L[c] = {1}
  BY LenProperties, ElementOfSeq
<1>2. L \in Seq(Columns)
  OBVIOUS
<1> HIDE DEF Columns, s
<1>3. /\ M \in Seq(Columns) /\ Len(M) = Len(L) - 1
      /\ \A x \in 1 .. Len(L) - 1 : M[x] = IF x < c THEN L[x] ELSE L[x + 1]
  BY <1>1, <1>2, RemoveAtMembers
<1>4. DOMAIN M = 1 .. Len(L) - 1
  BY <1>3, LenProperties
<1> HIDE DEF M
<1>5. \A x \in DOMAIN M : Old(x) \in DOMAIN L \ {c} /\ M[x] = L[Old(x)]
  <2> TAKE x \in DOMAIN M
  <2>0. x \in 1 .. Len(L) - 1 /\ x \in Int /\ c \in Int
    BY <1>1, <1>4
  <2>1. CASE x < c
    <3>1. M[x] = L[x]
      BY <1>3, <2>0, <2>1
    <3>2. x \in 1 .. Len(L) /\ x # c
      BY <1>1, <2>0, <2>1
    <3>3. QED
      BY <1>1, <2>1, <3>1, <3>2
  <2>2. CASE ~ (x < c)
    <3>1. M[x] = L[x + 1]
      BY <1>3, <2>0, <2>2
    <3>2. x + 1 \in 1 .. Len(L) /\ x + 1 # c
      BY <1>1, <2>0, <2>2
    <3>3. QED
      BY <1>1, <2>2, <3>1, <3>2
  <2>3. QED
    BY <2>1, <2>2
<1>6. \A x \in DOMAIN L \ {c} : \E y \in DOMAIN M : M[y] = L[x]
  <2> TAKE x \in DOMAIN L \ {c}
  <2>1. CASE x < c
    <3>1. x \in 1 .. Len(L) - 1
      BY <1>1, <2>1
    <3>2. QED
      BY <1>3, <1>4, <2>1, <3>1
  <2>2. CASE ~ (x < c)
    <3>1. x - 1 \in 1 .. Len(L) - 1 /\ ~ (x - 1 < c) /\ x - 1 + 1 = x
      BY <1>1, <2>2
    <3>2. QED
      BY <1>3, <1>4, <3>1
  <2>3. QED
    BY <2>1, <2>2
<1>7. InOnePlace(M)
  <2> SUFFICES ASSUME NEW a \in DOMAIN M, NEW b \in DOMAIN M,
                      NEW r \in DOMAIN M[a], NEW q \in DOMAIN M[b], M[a][r] = M[b][q]
               PROVE  a = b /\ r = q
    BY DEF InOnePlace
  <2>1. Old(a) = Old(b) /\ r = q
    BY <1>5 DEF WellFormed, InOnePlace
  <2>2. a \in Int /\ b \in Int
    BY <1>1, <1>4
  <2>3. QED
    BY <1>1, <2>1, <2>2
<1>8. NoneEmpty(M)
  BY <1>5 DEF WellFormed, NoneEmpty
<1>9. Surfaces(M) = Surfaces(L) \ {s}
  <2>1. ToSet(L[c]) = {s}
    BY <1>1 DEF ToSet, s
  <2>2. \A x \in DOMAIN L \ {c} : s \notin ToSet(L[x])
    BY <1>1 DEF ToSet, WellFormed, InOnePlace, s
  <2>3. Surfaces(M) = UNION {ToSet(L[x]) : x \in DOMAIN L \ {c}}
    BY <1>5, <1>6 DEF Surfaces
  <2>4. QED
    BY <1>1, <2>1, <2>2, <2>3 DEF Surfaces
<1>10. QED
  BY <1>3, <1>7, <1>8, <1>9 DEF WellFormed, M, Columns, s

\* M is L with s put below the last surface of column c.
AppendedTo(L, c, s, M) == M = [L EXCEPT ![c] = Append(@, s)]

\* A surface that is nowhere can be put below the last of any column.
LEMMA AppendToKeeps ==
  ASSUME NEW S, NEW L \in Seq(Seq(S)), NEW s \in S, WellFormed(L), s \notin Surfaces(L),
         NEW c \in DOMAIN L, NEW M, AppendedTo(L, c, s, M)
  PROVE  /\ M \in Seq(Seq(S))
         /\ WellFormed(M)
         /\ Surfaces(M) = Surfaces(L) \cup {s}
<1> DEFINE column == Append(L[c], s)
           n == Len(L[c]) + 1
<1>1. /\ c \in 1 .. Len(L) /\ L[c] \in Seq(S)
      /\ Len(L[c]) \in Nat /\ DOMAIN L[c] = 1 .. Len(L[c])
  BY LenProperties, ElementOfSeq
<1>2. /\ column \in Seq(S) /\ Len(column) = n
      /\ \A r \in DOMAIN L[c] : column[r] = L[c][r]
      /\ column[n] = s
  BY <1>1, AppendProperties
<1>3. DOMAIN column = 1 .. n
  BY <1>2, LenProperties
<1>m. M = [L EXCEPT ![c] = column]
  BY DEF AppendedTo
<1> HIDE DEF column
<1>4. /\ M \in Seq(Seq(S)) /\ DOMAIN M = DOMAIN L /\ M[c] = column
      /\ \A x \in DOMAIN L \ {c} : M[x] = L[x]
  BY <1>1, <1>2, <1>m, ExceptSeq
<1>n. DOMAIN column = DOMAIN L[c] \cup {n}
  BY <1>1, <1>3
<1>5. \A x \in DOMAIN L : \A y \in DOMAIN L[x] : y \in DOMAIN M[x] /\ M[x][y] = L[x][y]
  <2> TAKE x \in DOMAIN L
  <2>1. CASE x = c
    BY <1>2, <1>n, <1>4, <2>1
  <2>2. CASE x # c
    BY <1>4, <2>2
  <2>3. QED
    BY <2>1, <2>2
<1>6. \A x \in DOMAIN L : \A y \in DOMAIN M[x] : y \in DOMAIN L[x] \/ (x = c /\ y = n)
  <2> TAKE x \in DOMAIN L
  <2>1. CASE x = c
    BY <1>n, <1>4, <2>1
  <2>2. CASE x # c
    BY <1>4, <2>2
  <2>3. QED
    BY <2>1, <2>2
<1>7. \A x \in DOMAIN L : \A y \in DOMAIN L[x] : L[x][y] # s
  BY HoldsMeans
<1>8. InOnePlace(M)
  <2> SUFFICES ASSUME NEW a \in DOMAIN M, NEW b \in DOMAIN M,
                      NEW r \in DOMAIN M[a], NEW q \in DOMAIN M[b], M[a][r] = M[b][q]
               PROVE  a = b /\ r = q
    BY DEF InOnePlace
  <2>1. CASE r \in DOMAIN L[a] /\ q \in DOMAIN L[b]
    BY <1>4, <1>5, <2>1 DEF WellFormed, InOnePlace
  <2>2. CASE r \in DOMAIN L[a] /\ b = c /\ q = n
    BY <1>2, <1>4, <1>5, <1>7, <2>2
  <2>3. CASE a = c /\ r = n /\ q \in DOMAIN L[b]
    BY <1>2, <1>4, <1>5, <1>7, <2>3
  <2>4. CASE a = c /\ r = n /\ b = c /\ q = n
    BY <2>4
  <2>5. QED
    BY <1>4, <1>6, <2>1, <2>2, <2>3, <2>4
<1>9. NoneEmpty(M)
  <2>1. column # <<>>
    BY <1>1, <1>3
  <2>2. QED
    BY <1>4, <2>1 DEF WellFormed, NoneEmpty
<1>10. Surfaces(M) = Surfaces(L) \cup {s}
  <2> HIDE DEF n
  <2>1. ToSet(column) = ToSet(L[c]) \cup {s}
    <3>1. ASSUME NEW t PROVE t \in ToSet(column) <=> t \in ToSet(L[c]) \/ t = s
      <4>1. /\ t \in ToSet(column) <=> \E r \in DOMAIN column : column[r] = t
            /\ t \in ToSet(L[c]) <=> \E r \in DOMAIN L[c] : L[c][r] = t
        BY DEF ToSet
      <4>2. QED
        BY <1>2, <1>n, <4>1
    <3>2. QED
      BY <3>1
  <2>2. ASSUME NEW t PROVE t \in Surfaces(M) <=> t \in Surfaces(L) \/ t = s
    <3>1. t \in Surfaces(M) <=> \E x \in DOMAIN L : t \in ToSet(M[x])
      BY <1>4 DEF Surfaces
    <3>2. t \in Surfaces(L) <=> \E x \in DOMAIN L : t \in ToSet(L[x])
      BY DEF Surfaces
    <3>3. \A x \in DOMAIN L : t \in ToSet(M[x]) <=> t \in ToSet(L[x]) \/ (x = c /\ t = s)
      BY <1>4, <2>1
    <3>4. QED
      BY <3>1, <3>2, <3>3
  <2>3. QED
    BY <2>2
<1>11. QED
  BY <1>4, <1>8, <1>9, <1>10 DEF WellFormed

\* WorkspaceColumnLayout::expel_from_column: the surface gets a column of its own.
THEOREM ExpelKeeps ==
  ASSUME NEW S, NEW L \in Seq(Seq(S)), NEW s \in S, NEW d \in Directions, WellFormed(L)
  PROVE  /\ ExpelFromColumn(L, s, d) \in Seq(Seq(S))
         /\ WellFormed(ExpelFromColumn(L, s, d))
         /\ Surfaces(ExpelFromColumn(L, s, d)) = Surfaces(L)
<1> DEFINE c == ColumnOf(L, s)
           W == Without(L, s)
           k == IF d = Left THEN c ELSE c + 1
<1>1. CASE Holds(L, s) /\ Len(L[c]) > 1
  <2>1. /\ W \in Seq(Seq(S)) /\ DOMAIN W = DOMAIN L /\ WellFormed(W)
        /\ Surfaces(W) = Surfaces(L) \ {s}
    BY <1>1, WithoutKeeps DEF WellFormed
  <2>2. c \in 1 .. Len(L) /\ Len(L) \in Nat
    BY <1>1, PlaceOf, LenProperties DEF WellFormed
  <2>3. Len(W) = Len(L)
    BY <2>1, <2>2, LenProperties
  <2>4. ExpelFromColumn(L, s, d) = InsertAt(W, k, <<s>>)
    BY <1>1 DEF ExpelFromColumn
  <2> HIDE DEF c, W
  <2>5. k \in 1 .. Len(W) + 1 /\ s \notin Surfaces(W)
    BY <2>1, <2>2, <2>3
  <2> HIDE DEF k
  <2>6. s \in Surfaces(L)
    BY <1>1, HoldsMeans
  <2>7. /\ InsertAt(W, k, <<s>>) \in Seq(Seq(S)) /\ WellFormed(InsertAt(W, k, <<s>>))
        /\ Surfaces(InsertAt(W, k, <<s>>)) = Surfaces(W) \cup {s}
    BY <2>1, <2>5, InsertColumnKeeps
  <2>8. QED
    BY <2>1, <2>4, <2>6, <2>7
<1>2. CASE ~ (Holds(L, s) /\ Len(L[c]) > 1)
  BY <1>2 DEF ExpelFromColumn
<1>3. QED
  BY <1>1, <1>2

\* WorkspaceColumnLayout::consume_into_column: the surface joins the next column,
\* and its own column, when it was alone in it, goes.
THEOREM ConsumeKeeps ==
  ASSUME NEW S, NEW L \in Seq(Seq(S)), NEW s \in S, NEW d \in Directions, WellFormed(L)
  PROVE  /\ ConsumeIntoColumn(L, s, d) \in Seq(Seq(S))
         /\ WellFormed(ConsumeIntoColumn(L, s, d))
         /\ Surfaces(ConsumeIntoColumn(L, s, d)) = Surfaces(L)
<1> DEFINE c == ColumnOf(L, s)
           emptied == Len(L[c]) = 1
           rest == IF emptied THEN RemoveAt(L, c) ELSE Without(L, s)
           target == IF emptied /\ d = Right THEN c + d - 1 ELSE c + d
<1>1. CASE Holds(L, s) /\ c + d \in DOMAIN L
  <2>1. /\ c \in DOMAIN L /\ DOMAIN L = 1 .. Len(L) /\ Len(L) \in Nat
        /\ L[c] \in Seq(S) /\ DOMAIN L[c] = 1 .. Len(L[c]) /\ Len(L[c]) \in Nat
        /\ \E r \in DOMAIN L[c] : L[c][r] = s
    BY <1>1, PlaceOf, LenProperties, ElementOfSeq DEF WellFormed
  <2> DEFINE joined == [rest EXCEPT ![target] = Append(@, s)]
  <2>2. ConsumeIntoColumn(L, s, d) = joined
    BY <1>1 DEF ConsumeIntoColumn
  <2>3. /\ rest \in Seq(Seq(S)) /\ WellFormed(rest) /\ Surfaces(rest) = Surfaces(L) \ {s}
        /\ Len(rest) = IF emptied THEN Len(L) - 1 ELSE Len(L)
    <3>1. CASE emptied
      <4>1. L[c][1] = s
        BY <2>1, <3>1
      <4> HIDE DEF c
      <4>2. QED
        <5>1. c \in DOMAIN L /\ Len(L[c]) = 1
          BY <2>1, <3>1
        <5>2. /\ RemoveAt(L, c) \in Seq(Seq(S)) /\ Len(RemoveAt(L, c)) = Len(L) - 1
              /\ WellFormed(RemoveAt(L, c))
              /\ Surfaces(RemoveAt(L, c)) = Surfaces(L) \ {s}
          BY <4>1, <5>1, RemoveColumnKeeps
        <5>3. rest = RemoveAt(L, c)
          BY <3>1
        <5> HIDE DEF rest
        <5>4. QED
          BY <3>1, <5>2, <5>3
    <3>2. CASE ~ emptied
      <4>1. Len(L[c]) > 1
        BY <2>1, <3>2
      <4>2. /\ Without(L, s) \in Seq(Seq(S)) /\ DOMAIN Without(L, s) = DOMAIN L
            /\ WellFormed(Without(L, s)) /\ Surfaces(Without(L, s)) = Surfaces(L) \ {s}
        BY <1>1, <4>1, WithoutKeeps DEF WellFormed
      <4>3. Len(Without(L, s)) = Len(L)
        BY <2>1, <4>2, LenProperties
      <4>4. QED
        BY <3>2, <4>2, <4>3
    <3>3. QED
      BY <3>1, <3>2
  <2>4. target \in 1 .. Len(rest)
    <3>1. c + d \in 1 .. Len(L) /\ c \in 1 .. Len(L) /\ d \in {-1, 1}
      BY <1>1, <2>1 DEF Directions, Left, Right
    <3> HIDE DEF c, rest
    <3>2. CASE emptied
      BY <2>1, <2>3, <3>1, <3>2 DEF Right
    <3>3. CASE ~ emptied
      BY <2>1, <2>3, <3>1, <3>3
    <3>4. QED
      BY <3>2, <3>3
  <2>5. DOMAIN rest = 1 .. Len(rest)
    BY <2>3, LenProperties
  <2>6. s \in Surfaces(L)
    BY <1>1, HoldsMeans
  <2> HIDE DEF rest, target
  <2>7. s \notin Surfaces(rest) /\ target \in DOMAIN rest
    BY <2>3, <2>4, <2>5
  <2>j. AppendedTo(rest, target, s, joined)
    BY DEF AppendedTo
  <2>p. /\ rest \in Seq(Seq(S)) /\ WellFormed(rest) /\ s \in S
        /\ s \notin Surfaces(rest) /\ target \in DOMAIN rest
    BY <2>3, <2>7
  <2> HIDE DEF joined
  <2>8. /\ joined \in Seq(Seq(S)) /\ WellFormed(joined)
        /\ Surfaces(joined) = Surfaces(rest) \cup {s}
    BY <2>p, <2>j, AppendToKeeps
  <2>9. QED
    BY <2>2, <2>3, <2>6, <2>8
<1>2. CASE ~ (Holds(L, s) /\ c + d \in DOMAIN L)
  BY <1>2 DEF ConsumeIntoColumn
<1>3. QED
  BY <1>1, <1>2

-----------------------------------------------------------------------------
(* Moving the focus.                                                       *)

\* WorkspaceColumnLayout::focus_column and focus_window name a surface of the layout,
\* and at most one.
THEOREM FocusStaysOnLayout ==
  ASSUME NEW S, NEW L \in Seq(Seq(S)), NEW s, NEW d \in Directions, WellFormed(L)
  PROVE  /\ FocusColumn(L, s, d) \cup FocusWindow(L, s, d) \subseteq Surfaces(L)
         /\ \A t, u \in FocusColumn(L, s, d) : t = u
         /\ \A t, u \in FocusWindow(L, s, d) : t = u
<1>1. /\ \A c \in DOMAIN L : L[c] \in Seq(S) /\ DOMAIN L[c] = 1 .. Len(L[c]) /\ Len(L[c]) \in Nat
      /\ \A c \in DOMAIN L : \A r \in DOMAIN L[c] : L[c][r] \in Surfaces(L)
  BY LenProperties, ElementOfSeq, HoldsMeans
<1>2. CASE Holds(L, s)
  <2> DEFINE c == ColumnOf(L, s)
             r == RowOf(L, s)
  <2>1. c \in DOMAIN L /\ r \in DOMAIN L[c]
    BY <1>2, PlaceOf DEF WellFormed
  <2>2. FocusWindow(L, s, d) = {L[c][q] : q \in {r + d} \cap DOMAIN L[c]}
    BY <1>2 DEF FocusWindow
  <2>3. FocusColumn(L, s, d) =
          {L[b][IF r <= Len(L[b]) THEN r ELSE Len(L[b])] : b \in {c + d} \cap DOMAIN L}
    BY <1>2 DEF FocusColumn
  <2> HIDE DEF c, r
  <2>4. \A b \in DOMAIN L : (IF r <= Len(L[b]) THEN r ELSE Len(L[b])) \in DOMAIN L[b]
    <3> TAKE b \in DOMAIN L
    <3>1. L[b] # <<>>
      BY DEF WellFormed, NoneEmpty
    <3>2. Len(L[b]) # 0
      BY <1>1, <3>1, EmptySeq
    <3>3. r \in Nat \ {0}
      BY <1>1, <2>1
    <3>4. QED
      BY <1>1, <3>2, <3>3
  <2>5. QED
    BY <1>1, <2>1, <2>2, <2>3, <2>4
<1>3. CASE ~ Holds(L, s)
  BY <1>3 DEF FocusColumn, FocusWindow
<1>4. QED
  BY <1>2, <1>3

-----------------------------------------------------------------------------
(* Reconciling: what is retained and what is ensured.  Both go through a   *)
(* sequence, so what they compute is shown by induction.                   *)

\* Induction over the natural numbers, for a set of them.
LEMMA NatSetInduction ==
  ASSUME NEW T, T \subseteq Nat, 0 \in T, \A n \in T : n + 1 \in T
  PROVE  T = Nat
<1>1. SUFFICES ASSUME Nat \ T # {} PROVE FALSE
  OBVIOUS
<1>2. PICK m \in Nat \ T : \A k \in Nat \ T : ~ (<<k, m>> \in OpToRel(<, Nat))
  BY <1>1, NatLessThanWellFounded, WFMin
<1>3. m \in Nat /\ m # 0 /\ m \notin T
  BY <1>2
<1>4. PICK k \in Nat : k + 1 = m /\ k < m
  <2>1. m - 1 \in Nat /\ (m - 1) + 1 = m /\ m - 1 < m
    BY <1>3
  <2>2. QED
    BY <2>1
<1>5. k \in T
  BY <1>2, <1>4 DEF OpToRel
<1>6. k + 1 \in T
  BY <1>5
<1>7. QED
  BY <1>3, <1>4, <1>6

\* Induction up to a number.
LEMMA UpTo ==
  ASSUME NEW N \in Nat, NEW T, 0 \in T, \A n \in 0 .. N - 1 : n \in T => n + 1 \in T
  PROVE  N \in T
<1> DEFINE R == {n \in Nat : n <= N => n \in T}
<1>1. 0 \in R /\ R \subseteq Nat
  OBVIOUS
<1>2. ASSUME NEW n \in R PROVE n + 1 \in R
  <2>1. n \in Nat /\ n + 1 \in Nat /\ (n + 1 <= N => n \in 0 .. N - 1 /\ n <= N)
    BY <1>2
  <2>2. n + 1 <= N => n + 1 \in T
    BY <1>2, <2>1
  <2>3. QED
    BY <2>1, <2>2
<1>3. N \in R
  <2> HIDE DEF R
  <2>1. R = Nat
    BY <1>1, <1>2, NatSetInduction
  <2>2. QED
    BY <2>1
<1>4. QED
  BY <1>3

\* There is a function on 0 .. N that begins with a and goes on by step.
Runs(X, N, a, step) ==
  \E f \in [0 .. N -> X] : f[0] = a /\ \A n \in 1 .. N : f[n] = step[<<f[n - 1], n>>]

LEMMA RunsExist ==
  ASSUME NEW X, NEW N \in Nat, NEW a \in X, NEW step \in [X \X Nat -> X]
  PROVE  Runs(X, N, a, step)
<1> DEFINE Run(k, f) == f[0] = a /\ \A n \in 1 .. k : f[n] = step[<<f[n - 1], n>>]
           T == {k \in Nat : \E f \in [0 .. k -> X] : Run(k, f)}
<1>1. 0 \in T
  <2>1. [n \in 0 .. 0 |-> a] \in [0 .. 0 -> X] /\ Run(0, [n \in 0 .. 0 |-> a])
    OBVIOUS
  <2>2. QED
    BY <2>1
<1>2. ASSUME NEW k \in T PROVE k + 1 \in T
  <2>1. PICK f \in [0 .. k -> X] : Run(k, f)
    BY <1>2
  <2> DEFINE g == [n \in 0 .. k + 1 |-> IF n = k + 1 THEN step[<<f[k], k + 1>>] ELSE f[n]]
  <2>2. k \in Nat /\ f[k] \in X
    BY <1>2
  <2>3. g \in [0 .. k + 1 -> X]
    BY <2>1, <2>2
  <2>4. g[0] = a
    BY <2>1, <2>2
  <2>5. \A n \in 1 .. k + 1 : g[n] = step[<<g[n - 1], n>>]
    <3>1. ASSUME NEW n \in 1 .. k + 1 PROVE g[n] = step[<<g[n - 1], n>>]
      <4>1. n \in 0 .. k + 1 /\ n - 1 \in 0 .. k /\ n - 1 \in 0 .. k + 1 /\ n - 1 # k + 1
        BY <2>2
      <4>2. g[n - 1] = f[n - 1]
        BY <4>1
      <4>3. CASE n = k + 1
        <5>1. g[n] = step[<<f[k], k + 1>>] /\ n - 1 = k
          BY <4>1, <4>3, <2>2
        <5>2. QED
          BY <4>2, <4>3, <5>1
      <4>4. CASE n # k + 1
        <5>1. g[n] = f[n] /\ n \in 1 .. k
          BY <4>1, <4>4, <2>2
        <5>2. QED
          BY <2>1, <4>2, <5>1
      <4>5. QED
        BY <4>3, <4>4
    <3>2. QED
      BY <3>1
  <2>6. QED
    <3> HIDE DEF g
    <3>1. Run(k + 1, g)
      BY <2>4, <2>5
    <3>2. QED
      BY <2>2, <2>3, <3>1
<1>3. T = Nat
  <2> HIDE DEF T
  <2>1. T \subseteq Nat
    BY DEF T
  <2>2. QED
    BY <1>1, <1>2, <2>1, NatSetInduction
<1>4. QED
  BY <1>3 DEF Runs

\* kept are the sequences Retain goes through.
RetainedBy(kept, U, seq, S) ==
  /\ kept \in [0 .. Len(seq) -> Seq(U)]
  /\ Retain(seq, S) = kept[Len(seq)]
  /\ kept[0] = <<>>
  /\ \A n \in 1 .. Len(seq) :
       kept[n] = IF seq[n] \in S THEN Append(kept[n - 1], seq[n]) ELSE kept[n - 1]

LEMMA RetainRuns ==
  ASSUME NEW U, NEW seq \in Seq(U), NEW S
  PROVE  \E kept : RetainedBy(kept, U, seq, S)
<1> DEFINE N == Len(seq)
           Step(p) == IF p[2] \in 1 .. N /\ seq[p[2]] \in S THEN Append(p[1], seq[p[2]]) ELSE p[1]
           step == [p \in Seq(U) \X Nat |-> Step(p)]
           Kept(f, n) == IF n = 0 THEN <<>>
                         ELSE IF seq[n] \in S THEN Append(f[n - 1], seq[n]) ELSE f[n - 1]
           Made(f) == [n \in 0 .. Len(seq) |->
                         IF n = 0 THEN <<>>
                         ELSE IF seq[n] \in S THEN Append(f[n - 1], seq[n]) ELSE f[n - 1]]
           kept == CHOOSE f : f = Made(f)
<1>1. Retain(seq, S) = kept[N]
  BY DEF Retain
<1>2. N \in Nat /\ \A n \in 1 .. N : seq[n] \in U
  BY LenProperties, ElementOfSeq
<1>3. step \in [Seq(U) \X Nat -> Seq(U)]
  <2>1. ASSUME NEW p \in Seq(U) \X Nat PROVE Step(p) \in Seq(U)
    BY <1>2, AppendProperties
  <2>2. QED
    BY <2>1
<1>4. PICK f \in [0 .. N -> Seq(U)] :
             f[0] = <<>> /\ \A n \in 1 .. N : f[n] = step[<<f[n - 1], n>>]
  <2> HIDE DEF step, N
  <2>1. Runs(Seq(U), N, <<>>, step)
    BY <1>2, <1>3, EmptySeq, RunsExist
  <2>2. QED
    BY <2>1 DEF Runs
<1>5. \A n \in 1 .. N : f[n] = IF seq[n] \in S THEN Append(f[n - 1], seq[n]) ELSE f[n - 1]
  <2>1. ASSUME NEW n \in 1 .. N
        PROVE  f[n] = IF seq[n] \in S THEN Append(f[n - 1], seq[n]) ELSE f[n - 1]
    <3> HIDE DEF step
    <3>1. n \in Nat /\ n - 1 \in 0 .. N
      BY <1>2
    <3> DEFINE p == <<f[n - 1], n>>
    <3>2. p \in Seq(U) \X Nat /\ p[1] = f[n - 1] /\ p[2] = n
      BY <3>1, <1>4
    <3>3. f[n] = step[p]
      BY <1>4
    <3> HIDE DEF p
    <3>4. step[p] = Step(p)
      BY <3>2 DEF step
    <3>5. QED
      BY <3>2, <3>3, <3>4
  <2>2. QED
    BY <2>1
<1> HIDE DEF step
<1>6. f = Made(f)
  <2> DEFINE g == Made(f)
  <2>1. DOMAIN f = 0 .. N /\ f = [n \in DOMAIN f |-> f[n]] /\ DOMAIN g = 0 .. N
    BY <1>4
  <2>2. ASSUME NEW n \in 0 .. N PROVE f[n] = g[n]
    <3>1. CASE n = 0
      BY <1>2, <1>4, <3>1
    <3>2. CASE n # 0
      <4>1. n \in 1 .. N
        BY <1>2, <3>2
      <4>2. g[n] = IF seq[n] \in S THEN Append(f[n - 1], seq[n]) ELSE f[n - 1]
        BY <3>2
      <4>3. QED
        BY <1>5, <4>1, <4>2
    <3>3. QED
      BY <3>1, <3>2
  <2> HIDE DEF g
  <2>3. g = [n \in DOMAIN g |-> g[n]]
    BY DEF g
  <2>4. f = g
    BY <2>1, <2>2, <2>3
  <2>5. QED
    BY <2>4 DEF g
<1> HIDE DEF Made
<1>7. kept = Made(kept)
  BY <1>6
<1> HIDE DEF kept
<1>8. /\ kept \in [0 .. N -> Seq(U)] /\ kept[0] = <<>>
      /\ \A n \in 1 .. N : kept[n] = IF seq[n] \in S THEN Append(kept[n - 1], seq[n]) ELSE kept[n - 1]
  OBVIOUS
<1>9. RetainedBy(kept, U, seq, S)
  BY <1>1, <1>8 DEF RetainedBy
<1>10. QED
  BY <1>9

\* f is made of the first n elements of seq, each at most once: p says which.
Picks(f, seq, n, p) ==
  /\ \A i \in 1 .. Len(f) : p[i] \in 1 .. n /\ f[i] = seq[p[i]]
  /\ \A i, j \in 1 .. Len(f) : p[i] = p[j] => i = j

\* f is what is left of the first n elements of seq.
Leaves(f, seq, n, S) ==
  /\ \E p \in [1 .. Len(f) -> Nat] : Picks(f, seq, n, p)
  /\ \A i \in 1 .. Len(f) : f[i] \in S
  /\ \A m \in 1 .. n : seq[m] \in S => \E i \in 1 .. Len(f) : f[i] = seq[m]

\* Every element of f is one of seq, no two the same one.
PartOf(f, seq) ==
  \E p \in [DOMAIN f -> DOMAIN seq] :
    /\ \A i \in DOMAIN f : f[i] = seq[p[i]]
    /\ \A i, j \in DOMAIN f : p[i] = p[j] => i = j

\* What Retain keeps is what is in S, in its order.
LEMMA RetainKeeps ==
  ASSUME NEW U, NEW seq \in Seq(U), NEW S
  PROVE  /\ Retain(seq, S) \in Seq(U)
         /\ ToSet(Retain(seq, S)) = ToSet(seq) \cap S
         /\ PartOf(Retain(seq, S), seq)
<1> DEFINE N == Len(seq)
<1>1. N \in Nat /\ DOMAIN seq = 1 .. N /\ \A n \in 1 .. N : seq[n] \in U
  BY LenProperties, ElementOfSeq
<1>0. PICK kept : RetainedBy(kept, U, seq, S)
  BY RetainRuns
<1>2. /\ kept \in [0 .. N -> Seq(U)]
      /\ Retain(seq, S) = kept[N]
      /\ kept[0] = <<>>
      /\ \A n \in 1 .. N :
           kept[n] = IF seq[n] \in S THEN Append(kept[n - 1], seq[n]) ELSE kept[n - 1]
  BY <1>0 DEF RetainedBy
<1> DEFINE T == {n \in 0 .. N : Leaves(kept[n], seq, n, S)}
<1>3. 0 \in T
  <2>1. Len(kept[0]) = 0 /\ 1 .. Len(kept[0]) = {}
    BY <1>2
  <2> DEFINE p == [i \in 1 .. Len(kept[0]) |-> 0]
  <2>2. p \in [1 .. Len(kept[0]) -> Nat] /\ Picks(kept[0], seq, 0, p)
    BY <2>1 DEF Picks
  <2> HIDE DEF p
  <2>3. Leaves(kept[0], seq, 0, S)
    BY <2>1, <2>2 DEF Leaves
  <2>4. QED
    BY <1>1, <2>3
<1>4. ASSUME NEW n \in 0 .. N - 1, n \in T PROVE n + 1 \in T
  <2>1. SUFFICES Leaves(kept[n + 1], seq, n + 1, S)
    BY <1>1
  <2>2. /\ n \in Nat /\ n + 1 \in 1 .. N /\ n \in 0 .. N /\ (n + 1) - 1 = n
        /\ Leaves(kept[n], seq, n, S)
    BY <1>1, <1>4
  <2>3. PICK p \in [1 .. Len(kept[n]) -> Nat] : Picks(kept[n], seq, n, p)
    BY <2>2 DEF Leaves
  <2>4. /\ kept[n] \in Seq(U) /\ Len(kept[n]) \in Nat
        /\ kept[n + 1] = IF seq[n + 1] \in S THEN Append(kept[n], seq[n + 1]) ELSE kept[n]
    BY <1>2, <2>2, LenProperties
  <2>5. CASE seq[n + 1] \in S
    <3> DEFINE k == Len(kept[n])
               g == Append(kept[n], seq[n + 1])
               q == [i \in 1 .. k + 1 |-> IF i = k + 1 THEN n + 1 ELSE p[i]]
    <3>1. /\ kept[n + 1] = g /\ Len(g) = k + 1 /\ g[k + 1] = seq[n + 1]
          /\ \A i \in 1 .. k : g[i] = kept[n][i]
      BY <1>1, <2>2, <2>4, <2>5, AppendProperties
    <3>2. q[k + 1] = n + 1 /\ \A i \in 1 .. k : q[i] = p[i] /\ q[i] \in 1 .. n
      BY <2>2, <2>3, <2>4 DEF Picks
    <3>3. q \in [1 .. k + 1 -> Nat]
      BY <2>2, <2>3, <2>4
    <3> HIDE DEF g, q, k
    <3>4. k \in Nat /\ \A i \in 1 .. k + 1 : i \in 1 .. k \/ i = k + 1
      BY <2>4 DEF k
    <3>5. Picks(g, seq, n + 1, q)
      <4>1. \A i \in 1 .. k + 1 : q[i] \in 1 .. n + 1 /\ g[i] = seq[q[i]]
        <5>1. ASSUME NEW i \in 1 .. k PROVE q[i] \in 1 .. n + 1 /\ g[i] = seq[q[i]]
          <6>1. p[i] \in 1 .. n /\ kept[n][i] = seq[p[i]]
            BY <2>3 DEF k, Picks
          <6>2. QED
            BY <2>2, <3>1, <3>2, <6>1
        <5>2. q[k + 1] \in 1 .. n + 1 /\ g[k + 1] = seq[q[k + 1]]
          BY <2>2, <3>1, <3>2
        <5>3. QED
          BY <3>4, <5>1, <5>2
      <4>2. ASSUME NEW i \in 1 .. k + 1, NEW j \in 1 .. k + 1, q[i] = q[j] PROVE i = j
        <5>1. CASE i \in 1 .. k /\ j \in 1 .. k
          BY <2>3, <3>2, <4>2, <5>1 DEF k, Picks
        <5>2. CASE i = k + 1 /\ j \in 1 .. k
          BY <2>2, <3>2, <4>2, <5>2
        <5>3. CASE j = k + 1 /\ i \in 1 .. k
          BY <2>2, <3>2, <4>2, <5>3
        <5>4. QED
          BY <3>4, <5>1, <5>2, <5>3
      <4>3. QED
        BY <3>1, <4>1, <4>2 DEF Picks
    <3>6. \A i \in 1 .. k + 1 : g[i] \in S
      BY <2>2, <2>5, <3>1, <3>4 DEF k, Leaves
    <3>7. ASSUME NEW m \in 1 .. n + 1, seq[m] \in S PROVE \E i \in 1 .. k + 1 : g[i] = seq[m]
      <4>1. CASE m = n + 1
        BY <3>1, <3>4, <4>1
      <4>2. CASE m # n + 1
        <5>1. m \in 1 .. n
          BY <2>2, <4>2
        <5>2. PICK i \in 1 .. k : kept[n][i] = seq[m]
          BY <2>2, <3>7, <5>1 DEF k, Leaves
        <5>3. QED
          BY <3>1, <3>4, <5>2
      <4>3. QED
        BY <4>1, <4>2
    <3>8. QED
      BY <3>1, <3>3, <3>5, <3>6, <3>7 DEF Leaves
  <2>6. CASE seq[n + 1] \notin S
    <3>1. kept[n + 1] = kept[n]
      BY <2>4, <2>6
    <3>2. Picks(kept[n], seq, n + 1, p)
      <4>1. \A i \in 1 .. Len(kept[n]) : p[i] \in 1 .. n + 1
        BY <2>2, <2>3 DEF Picks
      <4>2. QED
        BY <2>3, <4>1 DEF Picks
    <3>3. \A m \in 1 .. n + 1 : seq[m] \in S => m \in 1 .. n
      BY <2>2, <2>6
    <3>4. Leaves(kept[n], seq, n + 1, S)
      BY <2>2, <2>3, <3>2, <3>3 DEF Leaves
    <3>5. QED
      BY <3>1, <3>4
  <2>7. QED
    BY <2>5, <2>6
<1>5. Leaves(kept[N], seq, N, S)
  <2> HIDE DEF T
  <2>1. N \in T
    BY <1>1, <1>3, <1>4, UpTo
  <2>2. QED
    BY <2>1 DEF T
<1> HIDE DEF T
<1>6. kept[N] \in Seq(U) /\ DOMAIN kept[N] = 1 .. Len(kept[N])
  BY <1>1, <1>2, LenProperties
<1>7. PICK p \in [1 .. Len(kept[N]) -> Nat] : Picks(kept[N], seq, N, p)
  BY <1>5 DEF Leaves
<1>8. p \in [DOMAIN kept[N] -> DOMAIN seq]
  BY <1>1, <1>6, <1>7 DEF Picks
<1>9. ToSet(kept[N]) = ToSet(seq) \cap S
  <2>1. ASSUME NEW x \in ToSet(kept[N]) PROVE x \in ToSet(seq) \cap S
    <3>1. PICK i \in 1 .. Len(kept[N]) : x = kept[N][i]
      BY <1>6 DEF ToSet
    <3>2. x \in S /\ p[i] \in DOMAIN seq /\ x = seq[p[i]]
      BY <1>1, <1>5, <1>7, <3>1 DEF Leaves, Picks
    <3>3. QED
      BY <3>2 DEF ToSet
  <2>2. ASSUME NEW x \in ToSet(seq) \cap S PROVE x \in ToSet(kept[N])
    <3>1. PICK m \in 1 .. N : x = seq[m]
      BY <1>1 DEF ToSet
    <3>2. PICK i \in 1 .. Len(kept[N]) : kept[N][i] = x
      BY <1>5, <3>1 DEF Leaves
    <3>3. QED
      BY <1>6, <3>2 DEF ToSet
  <2>3. QED
    BY <2>1, <2>2
<1>10. PartOf(kept[N], seq)
  BY <1>6, <1>7, <1>8 DEF Picks, PartOf
<1>11. QED
  BY <1>2, <1>6, <1>9, <1>10

\* A set in some order: each of its members once.
LEMMA SetToSeqIs ==
  ASSUME NEW S, IsFiniteSet(S)
  PROVE  /\ SetToSeq(S) \in Seq(S)
         /\ ToSet(SetToSeq(S)) = S
         /\ IsInjective(SetToSeq(S))
<1> DEFINE n == Cardinality(S)
<1>1. n \in Nat /\ ExistsBijection(1 .. n, S)
  BY FS_CardinalityType
<1>2. PICK g \in [1 .. n -> S] : IsInjective(g)
  BY <1>1 DEF ExistsBijection, Bijection, Injection
<1>3. SetToSeq(S) \in [1 .. n -> S] /\ IsInjective(SetToSeq(S))
  BY <1>2 DEF SetToSeq
<1> DEFINE f == SetToSeq(S)
<1>4. f \in Seq(S) /\ DOMAIN f = 1 .. n
  BY <1>1, <1>3, IsASeq
<1>5. f \in Surjection(1 .. n, S)
  <2>1. f \in Injection(1 .. n, S)
    BY <1>3 DEF Injection
  <2> HIDE DEF f
  <2>2. Cardinality(1 .. n) = Cardinality(S) /\ IsFiniteSet(1 .. n)
    BY <1>1, FS_Interval
  <2>3. QED
    BY <2>1, <2>2, FS_Injection
<1>6. ToSet(f) = S
  BY <1>3, <1>4, <1>5 DEF Surjection, ToSet
<1>7. QED
  BY <1>3, <1>4, <1>6

\* ensured are the layouts EnsureSurfaces goes through.
EnsuredBy(ensured, U, L, news) ==
  /\ ensured \in [0 .. Len(news) -> Seq(Seq(U))]
  /\ EnsureSurfaces(L, news) = ensured[Len(news)]
  /\ ensured[0] = L
  /\ \A n \in 1 .. Len(news) : ensured[n] = EnsureSurface(ensured[n - 1], news[n])

LEMMA EnsureRuns ==
  ASSUME NEW U, NEW L \in Seq(Seq(U)), NEW news \in Seq(U)
  PROVE  \E ensured : EnsuredBy(ensured, U, L, news)
<1> DEFINE N == Len(news)
           Step(p) == IF p[2] \in 1 .. N THEN EnsureSurface(p[1], news[p[2]]) ELSE p[1]
           step == [p \in Seq(Seq(U)) \X Nat |-> Step(p)]
           Made(f) == [n \in 0 .. Len(news) |->
                         IF n = 0 THEN L ELSE EnsureSurface(f[n - 1], news[n])]
           ensured == CHOOSE f : f = Made(f)
<1>1. EnsureSurfaces(L, news) = ensured[N]
  BY DEF EnsureSurfaces
<1>2. N \in Nat /\ \A n \in 1 .. N : news[n] \in U
  BY LenProperties, ElementOfSeq
<1>3. step \in [Seq(Seq(U)) \X Nat -> Seq(Seq(U))]
  <2>1. ASSUME NEW M \in Seq(Seq(U)), NEW s \in U PROVE EnsureSurface(M, s) \in Seq(Seq(U))
    <3>1. <<s>> \in Seq(U)
      OBVIOUS
    <3>2. QED
      BY <3>1, AppendProperties DEF EnsureSurface
  <2>2. ASSUME NEW p \in Seq(Seq(U)) \X Nat PROVE Step(p) \in Seq(Seq(U))
    BY <1>2, <2>1
  <2>3. QED
    BY <2>2
<1>4. PICK f \in [0 .. N -> Seq(Seq(U))] :
             f[0] = L /\ \A n \in 1 .. N : f[n] = step[<<f[n - 1], n>>]
  <2> HIDE DEF step, N
  <2>1. Runs(Seq(Seq(U)), N, L, step)
    BY <1>2, <1>3, RunsExist
  <2>2. QED
    BY <2>1 DEF Runs
<1>5. \A n \in 1 .. N : f[n] = EnsureSurface(f[n - 1], news[n])
  <2>1. ASSUME NEW n \in 1 .. N
        PROVE  f[n] = EnsureSurface(f[n - 1], news[n])
    <3> HIDE DEF step
    <3>1. n \in Nat /\ n - 1 \in 0 .. N
      BY <1>2
    <3> DEFINE p == <<f[n - 1], n>>
    <3>2. p \in Seq(Seq(U)) \X Nat /\ p[1] = f[n - 1] /\ p[2] = n
      BY <3>1, <1>4
    <3>3. f[n] = step[p]
      BY <1>4
    <3> HIDE DEF p
    <3>4. step[p] = Step(p)
      BY <3>2 DEF step
    <3>5. QED
      BY <3>2, <3>3, <3>4
  <2>2. QED
    BY <2>1
<1> HIDE DEF step
<1>6. f = Made(f)
  <2> DEFINE g == Made(f)
  <2>1. DOMAIN f = 0 .. N /\ f = [n \in DOMAIN f |-> f[n]] /\ DOMAIN g = 0 .. N
    BY <1>4
  <2>2. ASSUME NEW n \in 0 .. N PROVE f[n] = g[n]
    <3>1. CASE n = 0
      BY <1>2, <1>4, <3>1
    <3>2. CASE n # 0
      <4>1. n \in 1 .. N
        BY <1>2, <3>2
      <4>2. g[n] = EnsureSurface(f[n - 1], news[n])
        BY <3>2
      <4>3. QED
        BY <1>5, <4>1, <4>2
    <3>3. QED
      BY <3>1, <3>2
  <2> HIDE DEF g
  <2>3. g = [n \in DOMAIN g |-> g[n]]
    BY DEF g
  <2>4. f = g
    BY <2>1, <2>2, <2>3
  <2>5. QED
    BY <2>4 DEF g
<1> HIDE DEF Made
<1>7. ensured = Made(ensured)
  BY <1>6
<1> HIDE DEF ensured
<1>8. /\ ensured \in [0 .. N -> Seq(Seq(U))] /\ ensured[0] = L
      /\ \A n \in 1 .. N : ensured[n] = EnsureSurface(ensured[n - 1], news[n])
  <2>1. /\ Made(f)[0] = L
        /\ \A n \in 1 .. N : Made(f)[n] = EnsureSurface(f[n - 1], news[n])
    BY <1>4, <1>5, <1>6
  <2>2. DOMAIN ensured = 0 .. N
    BY <1>2, <1>7 DEF Made
  <2>3. ensured[0] = L
    <3>1. 0 \in 0 .. N
      BY <1>2
    <3>2. QED
      BY <1>7, <3>1 DEF Made
  <2>4. ASSUME NEW n \in 1 .. N PROVE ensured[n] = EnsureSurface(ensured[n - 1], news[n])
    <3>1. n \in 0 .. N /\ n # 0
      BY <1>2
    <3>2. QED
      BY <1>7, <3>1 DEF Made
  <2>5. ASSUME NEW M \in Seq(Seq(U)), NEW s \in U PROVE EnsureSurface(M, s) \in Seq(Seq(U))
    <3>1. <<s>> \in Seq(U)
      OBVIOUS
    <3>2. QED
      BY <3>1, AppendProperties DEF EnsureSurface
  <2> DEFINE T == {n \in 0 .. N : ensured[n] \in Seq(Seq(U))}
  <2>6. 0 \in T
    BY <1>2, <2>3
  <2>7. \A n \in 0 .. N - 1 : n \in T => n + 1 \in T
    <3>1. ASSUME NEW n \in 0 .. N - 1, n \in T PROVE n + 1 \in T
      <4>1. n + 1 \in 1 .. N /\ (n + 1) - 1 = n /\ n + 1 \in 0 .. N
        BY <1>2
      <4>2. ensured[n + 1] = EnsureSurface(ensured[n], news[n + 1])
        BY <2>4, <4>1
      <4>3. QED
        BY <1>2, <2>5, <3>1, <4>1, <4>2
    <3>2. QED
      BY <3>1
  <2>8. ASSUME NEW m \in 0 .. N PROVE ensured[m] \in Seq(Seq(U))
    <3>1. m \in Nat /\ \A n \in 0 .. m - 1 : n \in 0 .. N - 1
      BY <1>2
    <3> HIDE DEF T
    <3>2. m \in T
      BY <2>6, <2>7, <3>1, UpTo
    <3>3. QED
      BY <3>2 DEF T
  <2>9. ensured = [n \in DOMAIN ensured |-> ensured[n]]
    BY <1>7 DEF Made
  <2>10. QED
    BY <2>2, <2>3, <2>4, <2>8, <2>9
<1>9. EnsuredBy(ensured, U, L, news)
  BY <1>1, <1>8 DEF EnsuredBy
<1>10. QED
  BY <1>9

\* Ensuring surfaces keeps the layout well formed and adds them.
THEOREM EnsureAllKeeps ==
  ASSUME NEW U, NEW L \in Seq(Seq(U)), NEW news \in Seq(U), WellFormed(L)
  PROVE  /\ EnsureSurfaces(L, news) \in Seq(Seq(U))
         /\ WellFormed(EnsureSurfaces(L, news))
         /\ Surfaces(EnsureSurfaces(L, news)) = Surfaces(L) \cup ToSet(news)
<1> DEFINE N == Len(news)
<1>1. N \in Nat /\ DOMAIN news = 1 .. N /\ \A n \in 1 .. N : news[n] \in U
  BY LenProperties, ElementOfSeq
<1>2. PICK ensured : EnsuredBy(ensured, U, L, news)
  BY EnsureRuns
<1> DEFINE Some(n) == {news[i] : i \in 1 .. n}
           T == {n \in 0 .. N : /\ WellFormed(ensured[n])
                                /\ Surfaces(ensured[n]) = Surfaces(L) \cup Some(n)}
<1>3. 0 \in T
  BY <1>1, <1>2 DEF EnsuredBy
<1>4. ASSUME NEW n \in 0 .. N - 1, n \in T PROVE n + 1 \in T
  <2>1. n + 1 \in 1 .. N /\ (n + 1) - 1 = n /\ n \in 0 .. N /\ n + 1 \in 0 .. N
    BY <1>1
  <2>2. ensured[n + 1] = EnsureSurface(ensured[n], news[n + 1])
    BY <1>2, <2>1 DEF EnsuredBy
  <2>3. ensured[n] \in Seq(Seq(U)) /\ news[n + 1] \in U
    BY <1>1, <1>2, <2>1 DEF EnsuredBy
  <2>4. WellFormed(ensured[n]) /\ Surfaces(ensured[n]) = Surfaces(L) \cup Some(n)
    BY <1>4
  <2>5. /\ WellFormed(ensured[n + 1])
        /\ Surfaces(ensured[n + 1]) = Surfaces(ensured[n]) \cup {news[n + 1]}
    <3>1. \A A \in Seq(Seq(U)) : \A s \in U : WellFormed(A) =>
            /\ WellFormed(EnsureSurface(A, s))
            /\ Surfaces(EnsureSurface(A, s)) = Surfaces(A) \cup {s}
      BY EnsureKeeps
    <3>2. QED
      BY <2>2, <2>3, <2>4, <3>1
  <2>6. Some(n + 1) = Some(n) \cup {news[n + 1]}
    <3>1. \A i \in 1 .. n + 1 : i \in 1 .. n \/ i = n + 1
      BY <2>1
    <3>2. 1 .. n \subseteq 1 .. n + 1 /\ n + 1 \in 1 .. n + 1
      BY <2>1
    <3>3. QED
      BY <3>1, <3>2
  <2>7. QED
    BY <2>1, <2>4, <2>5, <2>6
<1>5. N \in T
  <2> HIDE DEF T
  <2>1. QED
    BY <1>1, <1>3, <1>4, UpTo
<1>6. Some(N) = ToSet(news)
  BY <1>1 DEF ToSet
<1>7. ensured[N] \in Seq(Seq(U)) /\ EnsureSurfaces(L, news) = ensured[N]
  BY <1>1, <1>2 DEF EnsuredBy
<1>8. QED
  BY <1>5, <1>6, <1>7

\* Retaining surfaces keeps the layout well formed and drops the others.
THEOREM RetainAllKeeps ==
  ASSUME NEW U, NEW L \in Seq(Seq(U)), NEW known, InOnePlace(L)
  PROVE  /\ RetainSurfaces(L, known) \in Seq(Seq(U))
         /\ WellFormed(RetainSurfaces(L, known))
         /\ Surfaces(RetainSurfaces(L, known)) = Surfaces(L) \cap known
<1> DEFINE K == [c \in DOMAIN L |-> Retain(L[c], known)]
           M == Retain(K, ToSet(K) \ {<<>>})
<1>1. RetainSurfaces(L, known) = M
  BY DEF RetainSurfaces
<1>2. DOMAIN L = 1 .. Len(L) /\ Len(L) \in Nat /\ \A c \in DOMAIN L : L[c] \in Seq(U)
  BY LenProperties, ElementOfSeq
<1>3. \A c \in DOMAIN L : /\ K[c] \in Seq(U) /\ ToSet(K[c]) = ToSet(L[c]) \cap known
                          /\ PartOf(K[c], L[c])
  BY <1>2, RetainKeeps
<1>4. DOMAIN K = DOMAIN L /\ K \in Seq(Seq(U))
  <2>1. K \in [1 .. Len(L) -> Seq(U)]
    BY <1>2, <1>3
  <2>2. QED
    BY <1>2, <2>1, IsASeq
<1> HIDE DEF K
<1>5. M \in Seq(Seq(U)) /\ ToSet(M) = ToSet(K) \ {<<>>} /\ PartOf(M, K)
  <2> DEFINE S == ToSet(K) \ {<<>>}
             V == Seq(U)
  <2>1. K \in Seq(V)
    BY <1>4
  <2> HIDE DEF V, S
  <2>2. M \in Seq(V) /\ ToSet(M) = ToSet(K) \cap S /\ PartOf(M, K)
    BY <2>1, RetainKeeps DEF S
  <2>3. QED
    BY <2>2 DEF V, S
<1> HIDE DEF M
<1>6. PICK p \in [DOMAIN M -> DOMAIN K] : /\ \A c \in DOMAIN M : M[c] = K[p[c]]
                                         /\ \A c, d \in DOMAIN M : p[c] = p[d] => c = d
  BY <1>5 DEF PartOf
<1>7. InOnePlace(M)
  <2>1. ASSUME NEW c \in DOMAIN M, NEW d \in DOMAIN M, NEW r \in DOMAIN M[c], NEW q \in DOMAIN M[d],
               M[c][r] = M[d][q]
        PROVE  c = d /\ r = q
    <3>1. /\ p[c] \in DOMAIN L /\ p[d] \in DOMAIN L
          /\ M[c] = K[p[c]] /\ M[d] = K[p[d]]
      BY <1>4, <1>6
    <3>0. PartOf(M[c], L[p[c]]) /\ PartOf(M[d], L[p[d]])
      BY <1>3, <3>1
    <3>2. PICK a \in [DOMAIN M[c] -> DOMAIN L[p[c]]] :
                 /\ \A i \in DOMAIN M[c] : M[c][i] = L[p[c]][a[i]]
                 /\ \A i, j \in DOMAIN M[c] : a[i] = a[j] => i = j
      BY <3>0 DEF PartOf
    <3>3. PICK b \in [DOMAIN M[d] -> DOMAIN L[p[d]]] :
                 /\ \A i \in DOMAIN M[d] : M[d][i] = L[p[d]][b[i]]
                 /\ \A i, j \in DOMAIN M[d] : b[i] = b[j] => i = j
      BY <3>0 DEF PartOf
    <3>4. L[p[c]][a[r]] = L[p[d]][b[q]] /\ a[r] \in DOMAIN L[p[c]] /\ b[q] \in DOMAIN L[p[d]]
      BY <2>1, <3>2, <3>3
    <3>5. p[c] = p[d]
      BY <3>1, <3>4 DEF InOnePlace
    <3>6. c = d
      BY <1>6, <3>5
    <3>7. a[q] \in DOMAIN L[p[c]] /\ L[p[c]][a[r]] = L[p[c]][a[q]]
      BY <2>1, <3>2, <3>6
    <3>8. a[r] = a[q]
      BY <3>1, <3>4, <3>7 DEF InOnePlace
    <3>9. QED
      BY <3>2, <3>6, <3>8
  <2>2. QED
    BY <2>1 DEF InOnePlace
<1>8. NoneEmpty(M)
  BY <1>5 DEF NoneEmpty, ToSet
<1>9. Surfaces(M) = Surfaces(L) \cap known
  <2>1. ASSUME NEW x \in Surfaces(M) PROVE x \in Surfaces(L) \cap known
    <3>1. PICK c \in DOMAIN M : x \in ToSet(M[c])
      BY <2>1 DEF Surfaces
    <3>2. p[c] \in DOMAIN L /\ x \in ToSet(L[p[c]]) \cap known
      BY <1>3, <1>4, <1>6, <3>1
    <3>3. QED
      BY <3>2 DEF Surfaces
  <2>2. ASSUME NEW x \in Surfaces(L) \cap known PROVE x \in Surfaces(M)
    <3>1. PICK c \in DOMAIN L : x \in ToSet(L[c])
      BY <2>2 DEF Surfaces
    <3>2. x \in ToSet(K[c])
      BY <1>3, <2>2, <3>1
    <3>3. K[c] # <<>> /\ K[c] \in ToSet(K)
      <4>1. ToSet(<<>>) = {}
        BY DEF ToSet
      <4>2. QED
        BY <1>4, <3>2, <4>1 DEF ToSet
    <3>4. PICK d \in DOMAIN M : M[d] = K[c]
      BY <1>5, <3>3 DEF ToSet
    <3>5. QED
      BY <3>2, <3>4 DEF Surfaces
  <2>3. QED
    BY <2>1, <2>2
<1>10. QED
  BY <1>1, <1>5, <1>7, <1>8, <1>9 DEF WellFormed

-----------------------------------------------------------------------------
(* Where the tiles and the anchors are                                     *)

\* A tile has a whole place and a size.
LEMMA TileHasBox ==
  ASSUME NEW S, NEW L \in Seq(Seq(S)), NEW s, WellFormed(L), s \in Surfaces(L)
  PROVE  /\ TileBox(L, s).x \in Int /\ TileBox(L, s).y \in Int
         /\ TileBox(L, s).w = Width
         /\ TileBox(L, s).h \in Nat \ {0}
         /\ Anchor(L, s) = {<<TileBox(L, s).x, TileBox(L, s).y>>}
<1> DEFINE c == ColumnOf(L, s)
           n == Len(L[c])
           r == RowOf(L, s)
<1>1. Holds(L, s)
  BY HoldsMeans
<1>2. c \in Int /\ r \in Int /\ n \in Nat /\ n > 0
  <2>1. c \in DOMAIN L /\ r \in DOMAIN L[c]
    BY <1>1, PlaceOf DEF WellFormed
  <2>2. DOMAIN L = 1 .. Len(L) /\ L[c] \in Seq(S) /\ DOMAIN L[c] = 1 .. n /\ n \in Nat
    BY <2>1, LenProperties, ElementOfSeq
  <2> HIDE DEF n, r, c
  <2>3. QED
    BY <2>1, <2>2, LenProperties
<1> HIDE DEF c, n, r
<1>3. Height \div n \in Int /\ Height % n \in Int /\ Width \in Int
  BY <1>2, AreaHasSize
<1>4. Height \div n >= 0
  BY <1>2, AreaHasSize
<1>5. ColumnX(c) \in Int
  BY <1>2, <1>3 DEF ColumnX
<1>6. RowY(n, r) \in Int
  <2>1. (r - 1) * (Height \div n) \in Int
    BY <1>2, <1>3
  <2>2. QED
    BY <1>2, <1>3, <2>1 DEF RowY
<1>7. RowHeight(n, r) \in Nat \ {0}
  BY <1>2, <1>3, <1>4 DEF RowHeight
<1>8. TileBox(L, s) = [x |-> ColumnX(c), y |-> RowY(n, r), w |-> Width, h |-> RowHeight(n, r)]
  BY DEF TileBox, c, n, r
<1>9. QED
  BY <1>1, <1>5, <1>6, <1>7, <1>8 DEF Anchor

\* A pan goes to a whole place.
LEMMA PansToPoint ==
  ASSUME NEW S, NEW L \in Seq(Seq(S)), NEW s, WellFormed(L),
         NEW start \in Int \X Int, NEW d
  PROVE  PanAcross(L, start, d) \cup PanDown(L, s, start, d) \subseteq Int \X Int
<1>1. ASSUME NEW anchors, \A i \in DOMAIN anchors : anchors[i] \in Int, NEW p
      PROVE  SteppedAnchor(anchors, p, d) \subseteq Int
  BY <1>1 DEF SteppedAnchor
<1>2. PanAcross(L, start, d) \subseteq Int \X Int
  <2> DEFINE xs == [c \in DOMAIN L |-> ColumnX(c)]
  <2>1. \A i \in DOMAIN xs : xs[i] \in Int
    BY LenProperties, AreaHasSize DEF ColumnX
  <2> HIDE DEF xs
  <2>2. SteppedAnchor(xs, start[1], d) \subseteq Int
    BY <1>1, <2>1
  <2>3. PanAcross(L, start, d) = {<<x, start[2]>> : x \in SteppedAnchor(xs, start[1], d)}
    BY DEF PanAcross, xs
  <2>4. QED
    BY <2>2, <2>3
<1>3. PanDown(L, s, start, d) \subseteq Int \X Int
  <2>1. CASE ~ Holds(L, s)
    BY <2>1 DEF PanDown
  <2>2. CASE Holds(L, s)
    <3> DEFINE column == L[ColumnOf(L, s)]
               ys == [r \in DOMAIN column |-> RowY(Len(column), r)]
    <3>1. column \in Seq(S) /\ DOMAIN column = 1 .. Len(column) /\ Len(column) \in Nat
      BY <2>2, PlaceOf, LenProperties, ElementOfSeq DEF WellFormed
    <3>2. \A i \in DOMAIN ys : ys[i] \in Int
      <4> SUFFICES ASSUME NEW i \in DOMAIN column PROVE RowY(Len(column), i) \in Int
        OBVIOUS
      <4> DEFINE n == Len(column)
      <4>1. n \in Nat /\ n > 0 /\ i \in Int
        BY <3>1
      <4> HIDE DEF n
      <4>2. Height \div n \in Int /\ Height % n \in Int
        BY <4>1, AreaHasSize
      <4>3. (i - 1) * (Height \div n) \in Int
        BY <4>1, <4>2
      <4>4. RowY(n, i) \in Int
        BY <4>1, <4>2, <4>3 DEF RowY
      <4>5. QED
        BY <4>4 DEF n
    <3>3. PanDown(L, s, start, d) = {<<start[1], y>> : y \in SteppedAnchor(ys, start[2], d)}
      BY <2>2 DEF PanDown
    <3> HIDE DEF ys
    <3>4. SteppedAnchor(ys, start[2], d) \subseteq Int
      BY <1>1, <3>2
    <3>5. QED
      BY <3>3, <3>4
  <2>3. QED
    BY <2>1, <2>2
<1>4. QED
  BY <1>2, <1>3


Stacks == Shelf \cup {Unassigned}

-----------------------------------------------------------------------------
(* The stacking order                                                      *)

\* A part of a sequence without repetition has none.
LEMMA PartInjective ==
  ASSUME NEW f, NEW q, PartOf(f, q), IsInjective(q)
  PROVE  IsInjective(f)
BY DEF PartOf, IsInjective

\* Ordering a set by a sequence, unknown members last, gives each of them once.
LEMMA Reordered ==
  ASSUME NEW q \in Seq(Window), IsInjective(q), NEW A, A \subseteq Window
  PROVE  LET f == Retain(q, A) \o SetToSeq(A \ ToSet(q)) IN
         f \in Seq(Window) /\ IsInjective(f) /\ ToSet(f) = A
<1> DEFINE a == Retain(q, A)
           b == SetToSeq(A \ ToSet(q))
           f == a \o b
<1>1. a \in Seq(Window) /\ ToSet(a) = ToSet(q) \cap A /\ PartOf(a, q)
  BY RetainKeeps
<1>2. IsInjective(a)
  BY <1>1, PartInjective
<1>3. b \in Seq(Window) /\ ToSet(b) = A \ ToSet(q) /\ IsInjective(b)
  <2> DEFINE B == A \ ToSet(q)
  <2>1. IsFiniteSet(B) /\ B \subseteq Window
    BY WindowsAssumption, FS_Subset
  <2> HIDE DEF B
  <2>2. SetToSeq(B) \in Seq(B) /\ ToSet(SetToSeq(B)) = B /\ IsInjective(SetToSeq(B))
    BY <2>1, SetToSeqIs
  <2>3. SetToSeq(B) \in Seq(Window)
    BY <2>1, <2>2, SeqMonotonic
  <2>4. QED
    BY <2>2, <2>3 DEF B
<1> HIDE DEF a, b
<1>4. /\ f \in Seq(Window) /\ Len(f) = Len(a) + Len(b)
      /\ \A i \in 1 .. Len(a) + Len(b) : f[i] = IF i <= Len(a) THEN a[i] ELSE b[i - Len(a)]
  BY <1>1, <1>3, ConcatProperties
<1>5. /\ Len(a) \in Nat /\ Len(b) \in Nat
      /\ DOMAIN a = 1 .. Len(a) /\ DOMAIN b = 1 .. Len(b) /\ DOMAIN f = 1 .. Len(a) + Len(b)
  BY <1>1, <1>3, <1>4, LenProperties
<1> HIDE DEF f
<1>6. \A i \in DOMAIN f : \/ i \in DOMAIN a /\ f[i] = a[i]
                          \/ i - Len(a) \in DOMAIN b /\ i \notin DOMAIN a /\ f[i] = b[i - Len(a)]
  BY <1>4, <1>5
<1>7. ToSet(f) = ToSet(a) \cup ToSet(b)
  <2>1. ToSet(f) \subseteq ToSet(a) \cup ToSet(b)
    BY <1>6 DEF ToSet
  <2>2. ASSUME NEW i \in DOMAIN a PROVE a[i] \in ToSet(f)
    <3>1. i \in DOMAIN f /\ f[i] = a[i]
      BY <1>4, <1>5
    <3>2. QED
      BY <3>1 DEF ToSet
  <2>3. ASSUME NEW i \in DOMAIN b PROVE b[i] \in ToSet(f)
    <3>1. i + Len(a) \in DOMAIN f /\ f[i + Len(a)] = b[i]
      BY <1>4, <1>5
    <3>2. QED
      BY <3>1 DEF ToSet
  <2>4. QED
    BY <2>1, <2>2, <2>3 DEF ToSet
<1>8. IsInjective(f)
  <2>1. ASSUME NEW i \in DOMAIN f, NEW j \in DOMAIN f, f[i] = f[j] PROVE i = j
    <3>1. \A m \in DOMAIN a, n \in DOMAIN b : a[m] # b[n]
      BY <1>1, <1>3 DEF ToSet
    <3>2. i \in Int /\ j \in Int
      BY <1>5
    <3>3. CASE i \in DOMAIN a /\ j \in DOMAIN a
      BY <1>2, <1>4, <1>5, <2>1, <3>3 DEF IsInjective
    <3>4. CASE i \notin DOMAIN a /\ j \notin DOMAIN a
      <4>1. /\ i - Len(a) \in DOMAIN b /\ j - Len(a) \in DOMAIN b
            /\ b[i - Len(a)] = b[j - Len(a)]
        BY <1>6, <2>1, <3>4
      <4>2. i - Len(a) = j - Len(a)
        BY <1>3, <4>1 DEF IsInjective
      <4>3. QED
        BY <1>5, <3>2, <4>2
    <3>5. QED
      BY <1>6, <2>1, <3>1, <3>3, <3>4
  <2>2. QED
    BY <2>1 DEF IsInjective
<1>9. f \in Seq(Window) /\ IsInjective(f) /\ ToSet(f) = A
  BY <1>1, <1>3, <1>4, <1>7, <1>8
<1>10. QED
  BY <1>9 DEF f, a, b

LEMMA OrderedIs ==
  ASSUME TypeOK, NEW s \in Stacks, IsInjective(stacking[s]), NEW A, A \subseteq Window
  PROVE  Ordered(s, A) \in Seq(Window) /\ IsInjective(Ordered(s, A)) /\ ToSet(Ordered(s, A)) = A
<1>1. stacking[s] \in Seq(Window)
  BY DEF TypeOK, Stackings, Stacks
<1>2. QED
  BY <1>1, Reordered DEF Ordered

\* Raising a window keeps every stack without repetition.
LEMMA RaisedIs ==
  ASSUME TypeOK, \A s \in DOMAIN stacking : IsInjective(stacking[s]),
         NEW t \in Stacks, NEW w \in Window
  PROVE  /\ Raised(t, w) \in Stackings
         /\ \A s \in DOMAIN Raised(t, w) : IsInjective(Raised(t, w)[s])
<1> DEFINE q == stacking[t]
           a == Retain(q, Window \ {w})
           f == Append(a, w)
<1>1. stacking \in [Stacks -> Seq(Window)] /\ q \in Seq(Window) /\ IsInjective(q)
  BY DEF TypeOK, Stackings, Stacks
<1>2. a \in Seq(Window) /\ ToSet(a) = ToSet(q) \cap (Window \ {w}) /\ PartOf(a, q)
  BY <1>1, RetainKeeps
<1>3. IsInjective(a)
  BY <1>1, <1>2, PartInjective
<1>4. \A i \in DOMAIN a : a[i] # w
  BY <1>2 DEF ToSet
<1>5. Raised(t, w) = [stacking EXCEPT ![t] = f]
  BY DEF Raised
<1> HIDE DEF a, q
<1>6. f \in Seq(Window) /\ IsInjective(f)
  <2>1. /\ f \in Seq(Window) /\ Len(f) = Len(a) + 1 /\ f[Len(a) + 1] = w
        /\ \A i \in 1 .. Len(a) : f[i] = a[i]
    BY <1>2, AppendProperties
  <2>2. Len(a) \in Nat /\ DOMAIN a = 1 .. Len(a) /\ DOMAIN f = 1 .. Len(a) + 1
    BY <1>2, <2>1, LenProperties
  <2> HIDE DEF f
  <2>3. \A i \in DOMAIN f : (i \in DOMAIN a /\ f[i] = a[i]) \/ (i = Len(a) + 1 /\ f[i] = w)
    BY <2>1, <2>2
  <2>4. IsInjective(f)
    BY <1>3, <1>4, <2>3 DEF IsInjective
  <2>5. QED
    BY <2>1, <2>4
<1> HIDE DEF f
<1>7. Raised(t, w) \in [Stacks -> Seq(Window)]
  BY <1>1, <1>5, <1>6
<1>8. ASSUME NEW s \in Stacks PROVE IsInjective(Raised(t, w)[s])
  <2>1. CASE s = t
    BY <1>1, <1>5, <1>6, <2>1
  <2>2. CASE s # t
    <3>1. Raised(t, w)[s] = stacking[s]
      BY <1>1, <1>5, <2>2
    <3>2. QED
      BY <1>1, <3>1
  <2>3. QED
    BY <2>1, <2>2
<1>9. QED
  BY <1>7, <1>8 DEF Stackings, Stacks

-----------------------------------------------------------------------------
(* The types                                                               *)

LEMMA InitTyped == Init => TypeOK
<1> SUFFICES ASSUME Init PROVE TypeOK
  OBVIOUS
<1>1. tiling \in Tilings /\ stacking \in Stackings
  BY DEF Init, Tilings, Stackings
<1>2. switcher \in Sessions /\ ~ switcher.active
  BY DEF Init, NoSession, Sessions, Maybe
<1>3. moves \in Moves
  BY DEF Init, NoMoves, Moves, Maybe
<1>4. view \in Point
  BY DEF Init, Point
<1>5. QED
  BY <1>1, <1>2, <1>3, <1>4 DEF Init, TypeOK, Maybe, Placements, FocusControls

LEMMA LifecycleTyped ==
  ASSUME TypeOK, Lifecycle
  PROVE  TypeOK'
<1> USE DEF Quiet, windows, seat, camera
<1>1. CASE NothingHappens
  BY <1>1 DEF NothingHappens, TypeOK, Maybe, Placements
<1>2. ASSUME NEW w \in Window, CloseWindow(w) PROVE TypeOK'
  BY <1>2 DEF CloseWindow, TypeOK, Maybe, Placements
<1>3. ASSUME NEW w \in Window, Minimise(w) PROVE TypeOK'
  BY <1>3 DEF Minimise, TypeOK, Maybe, Placements, Usable
<1>4. ASSUME NEW w \in Window, NEW l \in {"tiled", "floating"}, OpenWindow(w, l) PROVE TypeOK'
  BY <1>4 DEF OpenWindow, TypeOK, Maybe, Placements
<1>5. ASSUME NEW s \in Shelf, ShowShelf(s) PROVE TypeOK'
  BY <1>5 DEF ShowShelf, TypeOK, Maybe, Placements
<1>6. QED
  BY <1>1, <1>2, <1>3, <1>4, <1>5 DEF Lifecycle

\* The candidates are windows, and the next one is one of them.
LEMMA CandidatesAre ==
  ASSUME TypeOK, \A s \in DOMAIN stacking : IsInjective(stacking[s]),
         NEW s \in Stacks, Candidates(s) # <<>>, NEW from, NEW reverse
  PROVE  NextCandidate(Candidates(s), from, reverse) \in Window
<1> DEFINE A == {w \in OnShelf(s) : Usable(w)}
           q == Ordered(s, A)
           cands == Candidates(s)
           n == Len(cands)
<1>1. q \in Seq(Window)
  <2>1. DOMAIN stacking = Stacks
    BY DEF TypeOK, Stackings, Stacks
  <2>2. A \subseteq Window
    BY DEF OnShelf
  <2>3. QED
    BY <2>1, <2>2, OrderedIs
<1>2. cands \in Seq(Window)
  <2> HIDE DEF q
  <2>1. Reverse(q) \in Seq(Window)
    <3>1. Len(q) \in Nat /\ DOMAIN q = 1 .. Len(q) /\ \A i \in 1 .. Len(q) : q[i] \in Window
      BY <1>1, LenProperties, ElementOfSeq
    <3>2. Reverse(q) \in [1 .. Len(q) -> Window]
      BY <3>1 DEF Reverse
    <3>3. QED
      BY <3>1, <3>2, IsASeq
  <2>2. QED
    BY <2>1 DEF Candidates, q
<1> HIDE DEF cands
<1>3. n \in Nat /\ n > 0 /\ \A i \in 1 .. n : cands[i] \in Window
  BY <1>2, LenProperties, ElementOfSeq, EmptySeq DEF cands
<1> DEFINE found == from # None /\ Contains(cands, from)
           i == IF found THEN CHOOSE j \in 1 .. n : cands[j] = from ELSE None
<1>4. found => i \in 1 .. n
  BY DEF Contains
<1>5. NextCandidate(cands, from, reverse) =
        IF i = None THEN cands[IF reverse THEN n ELSE 1]
        ELSE IF reverse THEN cands[IF i = 1 THEN n ELSE i - 1]
        ELSE cands[IF i = n THEN 1 ELSE i + 1]
  BY DEF NextCandidate
<1> HIDE DEF n
<1> SUFFICES NextCandidate(cands, from, reverse) \in Window
  BY DEF cands
<1>6. CASE i = None
  BY <1>3, <1>5, <1>6
<1>7. CASE i # None
  <2>1. i \in 1 .. n
    BY <1>4, <1>7
  <2> HIDE DEF i
  <2>2. QED
    BY <1>3, <1>5, <1>7, <2>1
<1>8. QED
  BY <1>6, <1>7

\* Selecting a window keeps the session and the moves of their types.
LEMMA SelectTyped ==
  ASSUME TypeOK, NEW session \in Sessions,
         session.shelf \in Shelf, session.origin \in Point, NEW w \in Window,
         Select(session, w)
  PROVE  /\ switcher' \in Sessions /\ switcher'.shelf \in Shelf
         /\ switcher'.selected \in Window /\ switcher'.origin \in Point
         /\ moves' \in Moves
<1>1. switcher' = [session EXCEPT !.selected = w, !.preview = w]
  BY DEF Select
<1>2. /\ switcher' \in Sessions /\ switcher'.shelf = session.shelf
      /\ switcher'.selected = w /\ switcher'.origin = session.origin
  BY <1>1 DEF Sessions, Maybe
<1>3. moves' \in Moves
  <2>1. moves \in Moves
    BY DEF TypeOK
  <2>2. [moves EXCEPT !.centre = w] \in Moves
    BY <2>1 DEF Moves, Maybe
  <2>3. QED
    BY <2>1, <2>2 DEF Select
<1>4. QED
  BY <1>2, <1>3

LEMMA SwitcherTyped ==
  ASSUME TypeOK, \A s \in DOMAIN stacking : IsInjective(stacking[s]), SwitcherInput
  PROVE  TypeOK'
<1> USE DEF windows, seat, camera
<1>1. CASE SwitcherIdle
  BY <1>1 DEF SwitcherIdle, TypeOK, Maybe, Placements
<1>2. CASE EndSession
  <2>1. NoSession \in Sessions /\ ~ NoSession.active
    BY DEF NoSession, Sessions, Maybe
  <2>2. commit' \in Maybe(Window) /\ moves' \in Moves
    <3>1. moves \in Moves /\ switcher.selected \in Window /\ switcher.origin \in Point
      BY <1>2 DEF EndSession, TypeOK
    <3>2. [moves EXCEPT !.origin = switcher.origin] \in Moves
      BY <3>1 DEF Moves, Maybe
    <3>3. QED
      BY <1>2, <3>1, <3>2 DEF EndSession, Maybe
  <2>3. switcher' = NoSession /\ phase' = "control"
    BY <1>2 DEF EndSession
  <2>4. QED
    BY <1>2, <2>1, <2>2, <2>3 DEF EndSession, TypeOK, FocusControls
<1>3. ASSUME NEW reverse \in BOOLEAN, BeginSession(reverse) PROVE TypeOK'
  <2> DEFINE s == IF focus # None /\ at[focus] # None THEN at[focus] ELSE shown
             session == [NoSession EXCEPT !.active = TRUE, !.shelf = s,
                                          !.anchor = focus, !.origin = view]
             w == NextCandidate(Candidates(s), focus, reverse)
  <2>1. s \in Shelf /\ Candidates(s) # <<>> /\ Select(session, w) /\ phase' = "control"
    BY <1>3 DEF BeginSession, TypeOK
  <2>2. w \in Window
    <3>1. s \in Stacks
      BY <2>1 DEF Stacks
    <3> HIDE DEF s
    <3>2. QED
      BY <2>1, <3>1, CandidatesAre
  <2>3. session \in Sessions /\ session.shelf \in Shelf /\ session.origin \in Point
    <3>1. focus \in Maybe(Window) /\ view \in Point
      BY DEF TypeOK
    <3> HIDE DEF s
    <3>2. QED
      BY <2>1, <3>1 DEF NoSession, Sessions, Maybe
  <2> HIDE DEF s, session, w
  <2>4. /\ switcher' \in Sessions /\ switcher'.shelf \in Shelf /\ switcher'.selected \in Window /\ switcher'.origin \in Point
        /\ moves' \in Moves
    BY <2>1, <2>2, <2>3, SelectTyped
  <2>5. QED
    BY <1>3, <2>1, <2>4 DEF BeginSession, TypeOK
<1>4. ASSUME NEW reverse \in BOOLEAN, AdvanceSession(reverse) PROVE TypeOK'
  <2> DEFINE s == switcher.shelf
             from == IF switcher.selected # None THEN switcher.selected ELSE switcher.anchor
             w == NextCandidate(Candidates(s), from, reverse)
  <2>1. /\ switcher \in Sessions /\ switcher.shelf \in Shelf /\ switcher.origin \in Point /\ moves \in Moves
        /\ phase' = "control"
    BY <1>4 DEF AdvanceSession, TypeOK
  <2>2. CASE Candidates(s) = <<>>
    <3>1. NoSession \in Sessions /\ ~ NoSession.active
      BY DEF NoSession, Sessions, Maybe
    <3>2. switcher' = NoSession /\ moves' = moves
      BY <1>4, <2>2 DEF AdvanceSession
    <3>3. QED
      BY <1>4, <2>1, <3>1, <3>2 DEF AdvanceSession, TypeOK
  <2>3. CASE Candidates(s) # <<>>
    <3>1. Select(switcher, w)
      BY <1>4, <2>3 DEF AdvanceSession
    <3>2. w \in Window
      <4>1. s \in Stacks
        BY <1>4 DEF AdvanceSession, TypeOK, Stacks
      <4> HIDE DEF s, from
      <4>2. QED
        BY <2>3, <4>1, CandidatesAre
    <3> HIDE DEF w, s
    <3>3. /\ switcher' \in Sessions /\ switcher'.shelf \in Shelf /\ switcher'.selected \in Window /\ switcher'.origin \in Point
          /\ moves' \in Moves
      BY <2>1, <3>1, <3>2, SelectTyped
    <3>4. QED
      BY <1>4, <2>1, <3>3 DEF AdvanceSession, TypeOK
  <2>4. QED
    BY <2>2, <2>3
<1>5. QED
  BY <1>1, <1>2, <1>3, <1>4 DEF SwitcherInput

LEMMA ControlTyped ==
  ASSUME TypeOK, \A s \in DOMAIN stacking : IsInjective(stacking[s]), WindowControl
  PROVE  TypeOK'
<1> USE DEF windows, seat, camera
<1>1. \A w \in Window : Bucket(w) \in Stacks
  BY DEF Bucket, Awake, OnShelf, TypeOK, Stacks
<1>2. \A w \in Window : Raised(Bucket(w), w) \in Stackings
  BY <1>1, RaisedIs
<1>3. ASSUME NEW w \in Window, TakeFocus(w)
      PROVE  focus' \in Maybe(Window) /\ stacking' \in Stackings
  BY <1>2, <1>3 DEF TakeFocus, TypeOK, Maybe
<1>4. CASE NoWindowControl
  BY <1>4 DEF NoWindowControl, TypeOK, Maybe, Placements
<1>5. CASE CommitSession
  <2>1. commit \in Window /\ TakeFocus(commit)
    BY <1>5 DEF CommitSession, TypeOK, FocusControls, Maybe
  <2>2. focus' \in Maybe(Window) /\ stacking' \in Stackings
    BY <1>3, <2>1
  <2>3. QED
    BY <1>5, <2>2 DEF CommitSession, TypeOK
<1>6. ASSUME NEW w \in Window, FocusControl(w) PROVE TypeOK'
  <2>1. focus' \in Maybe(Window) /\ stacking' \in Stackings
    BY <1>3, <1>6 DEF FocusControl
  <2>2. QED
    BY <1>6, <2>1 DEF FocusControl, TypeOK
<1>7. ASSUME NEW w \in Window, NEW p \in Spots, PositionControl(w, p) PROVE TypeOK'
  <2>1. stacking' \in Stackings
    BY <1>2, <1>7 DEF PositionControl
  <2>2. p \in Placements
    BY WindowsAssumption DEF Placements, Maybe, Point
  <2>3. layout' \in [Window -> {"tiled", "floating"}] /\ spot' \in [Window -> Placements]
    BY <1>7, <2>2 DEF PositionControl, TypeOK
  <2>4. hidden' \subseteq {v \in Window : at'[v] # None}
    BY <1>7 DEF PositionControl, TypeOK
  <2>5. QED
    BY <1>7, <2>1, <2>3, <2>4 DEF PositionControl, TypeOK
<1>8. QED
  BY <1>4, <1>5, <1>6, <1>7 DEF WindowControl

\* The tile the controls act on is on a shelf, and a move of the viewport is one.
LEMMA FocusedTile ==
  ASSUME TypeOK, UsableTile(focus)
  PROVE  /\ focus \in Window /\ at[focus] \in Shelf /\ at[focus] \in Stacks
         /\ layout[focus] = "tiled"
         /\ tiling[at[focus]] \in Seq(Seq(Window))
BY DEF UsableTile, Usable, TypeOK, Maybe, Tilings, Stacks

LEMMA NamedMove ==
  ASSUME TypeOK, NEW p \in Point
  PROVE  [moves EXCEPT !.named = p] \in Moves /\ [moves EXCEPT !.named = p].named = p
BY DEF TypeOK, Moves, Maybe

\* A window of the layout is a window, and its anchor a point.
LEMMA LayoutWindows ==
  ASSUME NEW L \in Seq(Seq(Window)), WellFormed(L), NEW s
  PROVE  Surfaces(L) \subseteq Window /\ Anchor(L, s) \subseteq Point
<1>1. Surfaces(L) \subseteq Window
  <2>1. \A c \in DOMAIN L : L[c] \in Seq(Window)
    BY LenProperties, ElementOfSeq
  <2>2. \A c \in DOMAIN L : \A r \in DOMAIN L[c] : L[c][r] \in Window
    BY <2>1, LenProperties, ElementOfSeq
  <2>3. QED
    BY <2>2 DEF Surfaces, ToSet
<1>2. Anchor(L, s) \subseteq Point
  <2>1. CASE s \in Surfaces(L)
    BY <2>1, TileHasBox DEF Point
  <2>2. CASE s \notin Surfaces(L)
    BY <2>2, HoldsMeans DEF Anchor
  <2>3. QED
    BY <2>1, <2>2
<1>3. QED
  BY <1>1, <1>2

\* What a tiling control does, whichever it is.
FocusStep ==
  /\ phase = "tile" /\ UsableTile(focus) /\ phase' = "arrange"
  /\ focus' \in Surfaces(tiling[at[focus]])
  /\ stacking' = Raised(at[focus], focus')
  /\ UNCHANGED <<habit, windows, shown, tiling, aligned, hovered, switcher, commit, camera>>

MoveStep ==
  /\ phase = "tile" /\ UsableTile(focus) /\ phase' = "arrange"
  /\ \E L \in Seq(Seq(Window)) : /\ WellFormed(L)
                                /\ Surfaces(L) = Surfaces(tiling[at[focus]])
                                /\ tiling' = [tiling EXCEPT ![at[focus]] = L]
  /\ stacking' = Raised(at[focus], focus)
  /\ moves' = moves \/ \E p \in Point : moves' = [moves EXCEPT !.named = p]
  /\ UNCHANGED <<habit, windows, shown, seat, switcher, commit, view, aim>>

PanStep ==
  /\ phase = "tile" /\ UsableTile(focus) /\ phase' = "arrange"
  /\ \E p \in Point : moves' = [moves EXCEPT !.named = p]
  /\ UNCHANGED <<habit, windows, shown, tiling, stacking, seat, switcher, commit, view, aim>>

LEMMA TilingControlIs ==
  ASSUME TypeOK, \A s \in Shelf : WellFormed(tiling[s]), TilingControl
  PROVE  NoTilingControl \/ FocusStep \/ MoveStep \/ PanStep
<1>1. ASSUME NEW d \in Directions, FocusColumnControl(d) \/ FocusWindowControl(d)
      PROVE  FocusStep
  <2>1. UsableTile(focus)
    BY <1>1 DEF FocusColumnControl, FocusWindowControl, FocusTile
  <2>2. /\ FocusColumn(tiling[at[focus]], focus, d) \subseteq Surfaces(tiling[at[focus]])
        /\ FocusWindow(tiling[at[focus]], focus, d) \subseteq Surfaces(tiling[at[focus]])
    BY <2>1, FocusedTile, FocusStaysOnLayout
  <2>3. QED
    BY <1>1, <2>2 DEF FocusColumnControl, FocusWindowControl, FocusTile, FocusStep
<1>2. ASSUME NEW d \in Directions,
             MoveColumnControl(d) \/ MoveWindowControl(d) \/ ConsumeControl(d) \/ ExpelControl(d)
      PROVE  MoveStep
  <2> DEFINE L == tiling[at[focus]]
  <2>1. UsableTile(focus)
    BY <1>2 DEF MoveColumnControl, MoveWindowControl, ConsumeControl, ExpelControl, MoveTile
  <2>2. L \in Seq(Seq(Window)) /\ WellFormed(L) /\ focus \in Window
    BY <2>1, FocusedTile
  <2> HIDE DEF L
  <2> DEFINE Fits(M) == M \in Seq(Seq(Window)) /\ WellFormed(M) /\ Surfaces(M) = Surfaces(L)
  <2>3. /\ Fits(MoveColumn(L, focus, d)) /\ Fits(MoveWindow(L, focus, d))
        /\ Fits(ConsumeIntoColumn(L, focus, d)) /\ Fits(ExpelFromColumn(L, focus, d))
    BY <2>2, MoveColumnKeeps, MoveWindowKeeps, ConsumeKeeps, ExpelKeeps
  <2>4. PICK M : /\ Fits(M)
                 /\ phase = "tile" /\ phase' = "arrange"
                 /\ tiling' = [tiling EXCEPT ![at[focus]] = M]
                 /\ stacking' = Raised(at[focus], focus)
                 /\ moves' = moves \/ \E p \in Anchor(M, focus) : moves' = [moves EXCEPT !.named = p]
                 /\ UNCHANGED <<habit, windows, shown, seat, switcher, commit, view, aim>>
    <3> HIDE DEF Fits
    <3>1. CASE MoveColumnControl(d)
      BY <2>3, <3>1 DEF MoveColumnControl, MoveTile, L
    <3>2. CASE MoveWindowControl(d)
      BY <2>3, <3>2 DEF MoveWindowControl, MoveTile, L
    <3>3. CASE ConsumeControl(d)
      BY <2>3, <3>3 DEF ConsumeControl, MoveTile, L
    <3>4. CASE ExpelControl(d)
      BY <2>3, <3>4 DEF ExpelControl, MoveTile, L
    <3>5. QED
      BY <1>2, <3>1, <3>2, <3>3, <3>4
  <2>5. Anchor(M, focus) \subseteq Point
    BY <2>4, LayoutWindows
  <2>6. QED
    BY <2>1, <2>4, <2>5 DEF MoveStep, L
<1>3. ASSUME NEW d \in Directions, PanAcrossControl(d) \/ PanDownControl(d)
      PROVE  PanStep
  <2>1. UsableTile(focus)
    BY <1>3 DEF PanAcrossControl, PanDownControl, Pan
  <2>2. tiling[shown] \in Seq(Seq(Window)) /\ WellFormed(tiling[shown]) /\ view \in Int \X Int
    BY DEF TypeOK, Tilings, Point
  <2>3. /\ PanAcross(tiling[shown], view, d) \subseteq Point
        /\ PanDown(tiling[shown], focus, view, d) \subseteq Point
    BY <2>2, PansToPoint DEF Point
  <2>4. QED
    BY <1>3, <2>3 DEF PanAcrossControl, PanDownControl, Pan, PanStep
<1>4. QED
  BY <1>1, <1>2, <1>3 DEF TilingControl

LEMMA TilingTyped ==
  ASSUME TypeOK, \A s \in Shelf : WellFormed(tiling[s]),
         \A s \in DOMAIN stacking : IsInjective(stacking[s]), TilingControl
  PROVE  TypeOK'
<1> USE DEF windows, seat, camera
<1>1. CASE NoTilingControl
  BY <1>1 DEF NoTilingControl, TypeOK, Maybe, Placements
<1>2. CASE FocusStep
  <2>1. focus' \in Window
    BY <1>2, FocusedTile, LayoutWindows DEF FocusStep
  <2>2. stacking' \in Stackings
    BY <1>2, <2>1, FocusedTile, RaisedIs DEF FocusStep
  <2>3. QED
    BY <1>2, <2>1, <2>2 DEF FocusStep, TypeOK, Maybe
<1>3. CASE MoveStep
  <2>1. stacking' \in Stackings
    BY <1>3, FocusedTile, RaisedIs DEF MoveStep
  <2>2. tiling' \in Tilings
    BY <1>3, FocusedTile DEF MoveStep, TypeOK, Tilings
  <2>3. moves' \in Moves
    BY <1>3, NamedMove DEF MoveStep, TypeOK
  <2>4. QED
    BY <1>3, <2>1, <2>2, <2>3 DEF MoveStep, TypeOK
<1>4. CASE PanStep
  <2>1. moves' \in Moves
    BY <1>4, NamedMove DEF PanStep, TypeOK
  <2>2. QED
    BY <1>4, <2>1 DEF PanStep, TypeOK
<1>5. QED
  BY <1>1, <1>2, <1>3, <1>4, TilingControlIs

\* Reconciling the columns of a workspace leaves exactly its tiles in them.
LEMMA ReconciledIs ==
  ASSUME TypeOK, NEW s \in Shelf, WellFormed(tiling[s])
  PROVE  /\ Reconciled(s) \in Seq(Seq(Window))
         /\ WellFormed(Reconciled(s))
         /\ Surfaces(Reconciled(s)) = Tiles(s)
<1> DEFINE kept == RetainSurfaces(tiling[s], Tiles(s))
           A == Tiles(s) \ Surfaces(kept)
           news == SetToSeq(A)
<1>1. tiling[s] \in Seq(Seq(Window)) /\ InOnePlace(tiling[s])
  BY DEF TypeOK, Tilings, WellFormed
<1>2. /\ kept \in Seq(Seq(Window)) /\ WellFormed(kept)
      /\ Surfaces(kept) = Surfaces(tiling[s]) \cap Tiles(s)
  BY <1>1, RetainAllKeeps
<1> HIDE DEF kept
<1>3. A \subseteq Window /\ IsFiniteSet(A)
  BY WindowsAssumption, FS_Subset DEF Tiles, OnShelf
<1> HIDE DEF A
<1>4. news \in Seq(A) /\ ToSet(news) = A
  BY <1>3, SetToSeqIs
<1>5. news \in Seq(Window)
  BY <1>3, <1>4, SeqMonotonic
<1> HIDE DEF news
<1>6. /\ EnsureSurfaces(kept, news) \in Seq(Seq(Window))
      /\ WellFormed(EnsureSurfaces(kept, news))
      /\ Surfaces(EnsureSurfaces(kept, news)) = Surfaces(kept) \cup ToSet(news)
  BY <1>2, <1>5, EnsureAllKeeps
<1>7. Reconciled(s) = EnsureSurfaces(kept, news)
  BY DEF Reconciled, kept, A, news
<1>8. QED
  BY <1>2, <1>4, <1>6, <1>7 DEF A

LEMMA ArrangeTyped ==
  ASSUME TypeOK, \A s \in Shelf : WellFormed(tiling[s]), ArrangeWindows
  PROVE  TypeOK'
<1> USE DEF windows, seat, camera
<1>1. tiling' \in Tilings
  BY ReconciledIs DEF ArrangeWindows, Tilings
<1>2. spot' \in [Window -> Placements]
  BY DEF ArrangeWindows, TypeOK, Placements, Maybe
<1>3. QED
  BY <1>1, <1>2 DEF ArrangeWindows, TypeOK

\* The window in front of those that can be seen is one of them.
LEMMA FrontMostIs ==
  ASSUME TypeOK, \A s \in DOMAIN stacking : IsInjective(stacking[s]), Visible # {}
  PROVE  FrontMost \in Visible
<1> DEFINE q == Ordered(shown, Visible)
<1>1. q \in Seq(Window) /\ ToSet(q) = Visible
  <2>1. shown \in Stacks /\ DOMAIN stacking = Stacks /\ Visible \subseteq Window
    BY DEF TypeOK, Stacks, Stackings, Visible
  <2>2. QED
    BY <2>1, OrderedIs
<1>2. FrontMost = q[Len(q)]
  BY DEF FrontMost, Last
<1> HIDE DEF q
<1>3. Len(q) \in Nat /\ DOMAIN q = 1 .. Len(q)
  BY <1>1, LenProperties
<1>4. Len(q) \in DOMAIN q
  BY <1>1, <1>3 DEF ToSet
<1>5. QED
  BY <1>1, <1>2, <1>4 DEF ToSet

LEMMA FocusTyped ==
  ASSUME TypeOK, \A s \in DOMAIN stacking : IsInjective(stacking[s]),
         NoClick \/ (\E w \in Window : Click(w)) \/ RestackWindows \/ FocusManagement \/ AutoAlign,
         \A s \in Shelf : WellFormed(tiling[s])
  PROVE  TypeOK'
<1> USE DEF windows, seat, camera
<1>1. CASE NoClick
  BY <1>1 DEF NoClick, TypeOK, Maybe, Placements
<1>2. ASSUME NEW w \in Window, Click(w) PROVE TypeOK'
  <2>1. at[w] \in Stacks
    BY <1>2 DEF Click, Visible, OnScreen, Usable, TypeOK, Maybe, Stacks
  <2>2. stacking' \in Stackings
    BY <1>2, <2>1, RaisedIs DEF Click
  <2>3. QED
    BY <1>2, <2>2 DEF Click, TypeOK, Maybe
<1>3. CASE RestackWindows
  <2>1. DOMAIN stacking = Stacks /\ \A s : OnShelf(s) \subseteq Window
    BY DEF TypeOK, Stackings, Stacks, OnShelf
  <2>2. \A s \in Stacks : Ordered(s, OnShelf(s)) \in Seq(Window)
    BY <2>1, OrderedIs
  <2>3. stacking' \in Stackings
    BY <1>3, <2>1, <2>2 DEF RestackWindows, Stackings, Stacks
  <2>4. QED
    BY <1>3, <2>3 DEF RestackWindows, TypeOK
<1>4. CASE FocusPaused
  BY <1>4 DEF FocusPaused, TypeOK, Maybe, Placements
<1>5. CASE FocusSkipped
  BY <1>5 DEF FocusSkipped, TypeOK, Maybe, Placements
<1>6. ASSUME NEW h \in Window \cup {None}, ManageFocus(h) PROVE TypeOK'
  <2>1. \A f \in Maybe(Window) : Settled(f) \in Window
    <3>1. FrontMost \in Window
      BY <1>6, FrontMostIs DEF ManageFocus, Visible
    <3>2. QED
      BY <3>1 DEF Settled, Maybe
  <2>2. focus' \in Maybe(Window)
    BY <1>6, <2>1 DEF ManageFocus, TypeOK, Maybe
  <2>3. QED
    BY <1>6, <2>2 DEF ManageFocus, TypeOK, Maybe
<1>7. CASE AutoAlign
  <2>1. Anchor(tiling[shown], focus) \subseteq Point
    BY LayoutWindows DEF TypeOK, Tilings
  <2>2. moves' \in Moves
    BY <1>7, <2>1, NamedMove DEF AutoAlign, TypeOK
  <2>3. QED
    BY <1>7, <2>2 DEF AutoAlign, TypeOK
<1>8. QED
  BY <1>1, <1>2, <1>3, <1>4, <1>5, <1>6, <1>7 DEF FocusManagement

\* A window of the workspace shown has a place once the layout has run.
LEMMA CentredIs ==
  ASSUME TypeOK, TilesPlaced, FloatPlaced, phase = "extract"
  PROVE  Centred(moves) \in Maybe(Point)
<1>1. CASE ~ (moves.centre # None /\ moves.centre \in Awake)
  BY <1>1 DEF Centred, Maybe
<1>2. CASE moves.centre # None /\ moves.centre \in Awake
  <2> DEFINE w == moves.centre
  <2>1. w \in Window /\ at[w] = shown /\ shown \in Shelf /\ at[w] # None
    BY <1>2, MarkersAssumption DEF Awake, OnShelf, TypeOK
  <2>2. BoxOf(w).x \in Int /\ BoxOf(w).y \in Int /\ BoxOf(w).w \in Int /\ BoxOf(w).h \in Int
    <3>1. CASE layout[w] = "tiled"
      <4> DEFINE L == tiling[shown]
      <4>1. L \in Seq(Seq(Window)) /\ WellFormed(L) /\ w \in Surfaces(L)
        BY <2>1, <3>1 DEF TilesPlaced, Arranged, Tiles, OnShelf, TypeOK, Tilings
      <4>2. BoxOf(w) = TileBox(L, w)
        BY <2>1, <3>1 DEF BoxOf
      <4> HIDE DEF L, w
      <4>3. QED
        BY <4>1, <4>2, TileHasBox, AreaHasSize
    <3>2. CASE layout[w] # "tiled"
      <4>1. spot[w] \in Point
        BY <2>1, <3>2 DEF FloatPlaced, TypeOK, Placements, Maybe
      <4>2. spot[w][1] \in Int /\ spot[w][2] \in Int
        BY <4>1 DEF Point
      <4>3. QED
        BY <3>2, <4>2, AreaHasSize DEF BoxOf
    <3>3. QED
      BY <3>1, <3>2
  <2>3. Centred(moves) = CentredOn(BoxOf(w))
    BY <1>2 DEF Centred
  <2>4. CentredOn(BoxOf(w)) \in Point
    BY <2>2, AreaHasSize DEF CentredOn, Point
  <2>5. QED
    BY <2>3, <2>4 DEF Maybe
<1>3. QED
  BY <1>1, <1>2

LEMMA ApplyTyped ==
  ASSUME TypeOK, TilesPlaced, FloatPlaced, ApplyMoves
  PROVE  TypeOK'
<1> USE DEF windows, seat, camera
<1>1. moves \in Moves /\ Centred(moves) \in Maybe(Point)
  BY CentredIs DEF ApplyMoves, TypeOK
<1>2. Target(moves) \in Maybe(Point)
  BY <1>1 DEF Target, Moves
<1>3. moves' \in Moves
  <2> DEFINE c == IF moves.centre = None \/ moves.centre \in Awake \/ at[moves.centre] = None
                    THEN None ELSE moves.centre
  <2>1. c \in Maybe(Window) /\ moves' = [NoMoves EXCEPT !.centre = c]
    BY <1>1 DEF ApplyMoves, Moves, Maybe
  <2> HIDE DEF c
  <2>2. QED
    BY <2>1 DEF NoMoves, Moves, Maybe
<1>4. view' \in Point /\ aim' \in Maybe(Point)
  BY <1>2 DEF ApplyMoves, TypeOK, Maybe
<1>5. commit' \in FocusControls /\ phase' = "lifecycle"
  BY DEF ApplyMoves, FocusControls, Maybe
<1>6. QED
  BY <1>3, <1>4, <1>5 DEF ApplyMoves, TypeOK

-----------------------------------------------------------------------------
(* The invariant                                                           *)

\* What the steps keep together.
IInv == TypeOK /\ TilesPlaced /\ FloatPlaced /\ StackComplete

LEMMA WellPlaced ==
  ASSUME IInv
  PROVE  /\ \A s \in Shelf : WellFormed(tiling[s])
         /\ \A s \in DOMAIN stacking : IsInjective(stacking[s])
BY DEF IInv, TilesPlaced, StackComplete

LEMMA NextTyped == IInv /\ [Next]_vars => TypeOK'
<1> SUFFICES ASSUME IInv, [Next]_vars PROVE TypeOK'
  OBVIOUS
<1>1. TypeOK
  BY DEF IInv
<1>2. CASE UNCHANGED vars
  BY <1>1, <1>2 DEF vars, windows, seat, camera, TypeOK, Maybe, Placements
<1>3. CASE ApplyMoves
  BY <1>3, ApplyTyped DEF IInv
<1>4. QED
  BY <1>1, <1>2, <1>3, WellPlaced, LifecycleTyped, SwitcherTyped, ControlTyped, TilingTyped,
     ArrangeTyped, FocusTyped DEF Next

\* Columns change when a control moves a tile and when they are reconciled;
\* after that the windows stay as they are until the next frame.
LEMMA NextTiles == IInv /\ [Next]_vars => TilesPlaced'
<1> SUFFICES ASSUME IInv, [Next]_vars PROVE TilesPlaced'
  OBVIOUS
<1> USE DEF windows, seat, camera
<1>1. TypeOK /\ TilesPlaced /\ \A s \in Shelf : WellFormed(tiling[s])
  BY WellPlaced DEF IInv
<1>2. ASSUME tiling' = tiling, ~ Arranged' PROVE TilesPlaced'
  BY <1>1, <1>2 DEF TilesPlaced
<1>3. ASSUME tiling' = tiling, Arranged' => Arranged, at' = at, layout' = layout PROVE TilesPlaced'
  BY <1>1, <1>3 DEF TilesPlaced, Tiles, OnShelf
<1>4. CASE Lifecycle
  <2>1. tiling' = tiling /\ phase' = "switch"
    BY <1>4 DEF Lifecycle, NothingHappens, CloseWindow, Minimise, OpenWindow, ShowShelf, Quiet
  <2>2. QED
    BY <1>2, <2>1 DEF Arranged
<1>5. CASE SwitcherInput
  <2>1. tiling' = tiling /\ phase' = "control"
    BY <1>5 DEF SwitcherInput, SwitcherIdle, BeginSession, AdvanceSession, EndSession
  <2>2. QED
    BY <1>2, <2>1 DEF Arranged
<1>6. CASE WindowControl
  <2>1. tiling' = tiling /\ phase' = "tile"
    BY <1>6 DEF WindowControl, NoWindowControl, CommitSession, FocusControl, PositionControl
  <2>2. QED
    BY <1>2, <2>1 DEF Arranged
<1>7. CASE TilingControl
  <2>1. phase' = "arrange"
    BY <1>1, <1>7, TilingControlIs DEF NoTilingControl, FocusStep, MoveStep, PanStep
  <2>2. CASE MoveStep
    <3>1. \A s \in Shelf : WellFormed(tiling'[s])
      BY <1>1, <2>2 DEF MoveStep, TypeOK, Tilings
    <3>2. QED
      BY <2>1, <3>1 DEF TilesPlaced, Arranged
  <2>3. CASE ~ MoveStep
    <3>1. tiling' = tiling
      BY <1>1, <1>7, <2>3, TilingControlIs DEF NoTilingControl, FocusStep, PanStep
    <3>2. QED
      BY <1>2, <2>1, <3>1 DEF Arranged
  <2>4. QED
    BY <2>2, <2>3
<1>8. CASE ArrangeWindows
  <2>1. \A s \in Shelf : tiling'[s] = Reconciled(s) /\ Tiles(s)' = Tiles(s)
    BY <1>8 DEF ArrangeWindows, Tiles, OnShelf
  <2>2. QED
    BY <1>1, <2>1, ReconciledIs DEF TilesPlaced
<1>9. CASE NoClick \/ (\E w \in Window : Click(w)) \/ RestackWindows \/ FocusManagement \/ AutoAlign
  <2>1. tiling' = tiling /\ at' = at /\ layout' = layout /\ Arranged
    BY <1>9 DEF NoClick, Click, RestackWindows, FocusManagement, FocusPaused, FocusSkipped,
                ManageFocus, AutoAlign, Arranged
  <2>2. QED
    BY <1>3, <2>1
<1>10. CASE ApplyMoves
  BY <1>2, <1>10 DEF ApplyMoves, Arranged
<1>11. CASE UNCHANGED vars
  BY <1>3, <1>11 DEF vars, Arranged
<1>12. QED
  BY <1>4, <1>5, <1>6, <1>7, <1>8, <1>9, <1>10, <1>11 DEF Next

\* A floating window gets its position in the frame it opens in: nothing hides
\* it or puts its workspace to sleep before the layout has run.
LEMMA NextFloat == IInv /\ [Next]_vars => FloatPlaced'
<1> SUFFICES ASSUME IInv, [Next]_vars PROVE FloatPlaced'
  OBVIOUS
<1> USE DEF windows, seat, camera
<1>1. TypeOK /\ FloatPlaced
  BY DEF IInv
<1> DEFINE Early == {"switch", "control", "tile", "arrange"}
<1>2. ASSUME UNCHANGED <<at, layout, hidden, spot, shown>>, phase \in Early => phase' \in Early
      PROVE  FloatPlaced'
  BY <1>1, <1>2 DEF FloatPlaced, Usable, Awake, OnShelf
<1>3. ASSUME phase = "lifecycle"
      PROVE  \A w \in Window : at[w] # None /\ layout[w] = "floating" => spot[w] # None
  BY <1>1, <1>3 DEF FloatPlaced
<1>4. CASE Lifecycle
  <2>1. phase = "lifecycle" /\ phase' = "switch"
    BY <1>4 DEF Lifecycle, NothingHappens, CloseWindow, Minimise, OpenWindow, ShowShelf, Quiet
  <2>2. CASE NothingHappens \/ (\E s \in Shelf : ShowShelf(s)) \/ \E w \in Window : Minimise(w)
    <3>1. at' = at /\ layout' = layout /\ spot' = spot
      BY <2>2 DEF NothingHappens, ShowShelf, Minimise
    <3>2. QED
      BY <1>3, <2>1, <3>1 DEF FloatPlaced
  <2>3. ASSUME NEW v \in Window, CloseWindow(v) PROVE FloatPlaced'
    BY <1>1, <1>3, <2>1, <2>3 DEF CloseWindow, FloatPlaced, TypeOK
  <2>4. ASSUME NEW v \in Window, NEW l \in {"tiled", "floating"}, OpenWindow(v, l) PROVE FloatPlaced'
    <3>1. /\ at' = [at EXCEPT ![v] = shown] /\ layout' = [layout EXCEPT ![v] = l]
          /\ UNCHANGED <<hidden, spot, shown>> /\ at[v] = None
      BY <2>4 DEF OpenWindow
    <3>2. v \notin hidden /\ shown # None /\ v \in Window
      BY <1>1, <3>1, MarkersAssumption DEF TypeOK
    <3>3. at'[v] = shown /\ v \in Awake' /\ Usable(v)'
      BY <1>1, <3>1, <3>2 DEF TypeOK, Awake, OnShelf, Usable
    <3>4. \A w \in Window : w # v => at'[w] = at[w] /\ layout'[w] = layout[w] /\ spot'[w] = spot[w]
      BY <1>1, <3>1 DEF TypeOK
    <3>5. QED
      BY <1>3, <2>1, <3>3, <3>4 DEF FloatPlaced
  <2>5. QED
    BY <1>4, <2>2, <2>3, <2>4 DEF Lifecycle
<1>5. CASE SwitcherInput
  BY <1>2, <1>5 DEF SwitcherInput, SwitcherIdle, BeginSession, AdvanceSession, EndSession
<1>6. CASE WindowControl
  <2>1. CASE NoWindowControl \/ CommitSession \/ \E w \in Window : FocusControl(w)
    BY <1>2, <2>1 DEF NoWindowControl, CommitSession, FocusControl
  <2>2. ASSUME NEW v \in Window, NEW p \in Spots, PositionControl(v, p) PROVE FloatPlaced'
    <3>1. /\ spot' = [spot EXCEPT ![v] = p] /\ layout' = [layout EXCEPT ![v] = "floating"]
          /\ hidden' = hidden \ {v} /\ UNCHANGED <<at, shown>> /\ phase' \in Early
      BY <2>2 DEF PositionControl
    <3>2. spot'[v] # None
      BY <1>1, <3>1, WindowsAssumption, MarkersAssumption DEF TypeOK
    <3>3. \A w \in Window : w # v => layout'[w] = layout[w] /\ spot'[w] = spot[w]
      BY <1>1, <3>1 DEF TypeOK
    <3>4. QED
      BY <1>1, <3>1, <3>2, <3>3 DEF FloatPlaced, Usable, Awake, OnShelf
  <2>3. QED
    BY <1>6, <2>1, <2>2 DEF WindowControl
<1>7. CASE TilingControl
  BY <1>1, <1>2, <1>7, WellPlaced, TilingControlIs
  DEF NoTilingControl, FocusStep, MoveStep, PanStep
<1>8. CASE ArrangeWindows
  <2>1. /\ UNCHANGED <<at, layout>>
        /\ spot' = [w \in Window |->
                      IF Usable(w) /\ w \in Awake /\ layout[w] = "floating" /\ spot[w] = None
                        THEN view ELSE spot[w]]
    BY <1>8 DEF ArrangeWindows
  <2>2. view # None
    BY <1>1, MarkersAssumption DEF TypeOK, Point
  <2>3. \A w \in Window : at[w] # None /\ layout[w] = "floating" => spot'[w] # None
    BY <1>1, <2>1, <2>2 DEF FloatPlaced
  <2>4. QED
    BY <2>1, <2>3 DEF FloatPlaced
<1>9. CASE NoClick \/ (\E w \in Window : Click(w)) \/ RestackWindows \/ FocusManagement \/ AutoAlign
           \/ ApplyMoves
  <2>1. UNCHANGED <<at, layout, hidden, spot, shown>> /\ phase \notin Early
    BY <1>9 DEF NoClick, Click, RestackWindows, FocusManagement, FocusPaused, FocusSkipped,
                ManageFocus, AutoAlign, ApplyMoves
  <2>2. QED
    BY <1>2, <2>1
<1>10. CASE UNCHANGED vars
  BY <1>2, <1>10 DEF vars
<1>11. QED
  BY <1>4, <1>5, <1>6, <1>7, <1>8, <1>9, <1>10 DEF Next

\* A stack changes when a window is raised and when the stacks are rebuilt.
LEMMA NextStack == IInv /\ [Next]_vars => StackComplete'
<1> SUFFICES ASSUME IInv, [Next]_vars PROVE StackComplete'
  OBVIOUS
<1> USE DEF windows, seat, camera
<1>1. TypeOK /\ StackComplete /\ \A s \in DOMAIN stacking : IsInjective(stacking[s])
  BY WellPlaced DEF IInv
<1> DEFINE Late == {"focus", "align", "extract"}
<1>2. ASSUME stacking' = stacking, phase' \notin Late PROVE StackComplete'
  BY <1>1, <1>2 DEF StackComplete
<1>3. ASSUME NEW t \in Stacks, NEW w \in Window, stacking' = Raised(t, w), phase' \notin Late
      PROVE  StackComplete'
  BY <1>1, <1>3, RaisedIs DEF StackComplete
<1>4. ASSUME stacking' = stacking, phase' \in Late => phase \in Late, at' = at PROVE StackComplete'
  BY <1>1, <1>4 DEF StackComplete, OnShelf
<1>5. CASE Lifecycle
  <2>1. stacking' = stacking /\ phase' = "switch"
    BY <1>5 DEF Lifecycle, NothingHappens, CloseWindow, Minimise, OpenWindow, ShowShelf, Quiet
  <2>2. QED
    BY <1>2, <2>1
<1>6. CASE SwitcherInput
  <2>1. stacking' = stacking /\ phase' = "control"
    BY <1>6 DEF SwitcherInput, SwitcherIdle, BeginSession, AdvanceSession, EndSession
  <2>2. QED
    BY <1>2, <2>1
<1>7. CASE WindowControl
  <2>1. \A w \in Window : Bucket(w) \in Stacks
    BY <1>1 DEF Bucket, Awake, OnShelf, TypeOK, Stacks
  <2>2. phase' = "tile"
    BY <1>7 DEF WindowControl, NoWindowControl, CommitSession, FocusControl, PositionControl
  <2>3. stacking' = stacking \/ \E w \in Window : stacking' = Raised(Bucket(w), w)
    <3>1. commit # None => commit \in Window
      BY <1>1 DEF TypeOK, FocusControls, Maybe
    <3>2. QED
      BY <1>7, <3>1 DEF WindowControl, NoWindowControl, CommitSession, FocusControl,
                        PositionControl, TakeFocus
  <2>4. QED
    BY <1>2, <1>3, <2>1, <2>2, <2>3
<1>8. CASE TilingControl
  <2>1. NoTilingControl \/ FocusStep \/ MoveStep \/ PanStep
    BY <1>1, <1>8, WellPlaced, TilingControlIs
  <2>2. CASE NoTilingControl \/ PanStep
    <3>1. stacking' = stacking /\ phase' = "arrange"
      BY <2>2 DEF NoTilingControl, PanStep
    <3>2. QED
      BY <1>2, <3>1
  <2>3. CASE FocusStep
    <3>1. /\ stacking' = Raised(at[focus], focus') /\ phase' = "arrange" /\ UsableTile(focus)
          /\ focus' \in Surfaces(tiling[at[focus]])
      BY <2>3 DEF FocusStep
    <3>2. at[focus] \in Stacks /\ focus' \in Window
      BY <1>1, <3>1, FocusedTile, LayoutWindows, WellPlaced
    <3>3. QED
      BY <1>3, <3>1, <3>2
  <2>4. CASE MoveStep
    <3>1. stacking' = Raised(at[focus], focus) /\ phase' = "arrange" /\ UsableTile(focus)
      BY <2>4 DEF MoveStep
    <3>2. QED
      BY <1>1, <1>3, <3>1, FocusedTile
  <2>5. QED
    BY <2>1, <2>2, <2>3, <2>4
<1>9. CASE ArrangeWindows \/ NoClick
  <2>1. stacking' = stacking /\ phase' \notin Late
    BY <1>9 DEF ArrangeWindows, NoClick
  <2>2. QED
    BY <1>2, <2>1
<1>10. ASSUME NEW w \in Window, Click(w) PROVE StackComplete'
  <2>1. at[w] \in Stacks
    BY <1>1, <1>10 DEF Click, Visible, OnScreen, Usable, TypeOK, Maybe, Stacks
  <2>2. stacking' = Raised(at[w], w) /\ phase' = "stack"
    BY <1>10 DEF Click
  <2>3. QED
    BY <1>3, <2>1, <2>2
<1>11. CASE RestackWindows
  <2>1. DOMAIN stacking = Stacks /\ \A s : OnShelf(s) \subseteq Window
    BY <1>1 DEF TypeOK, Stackings, Stacks, OnShelf
  <2>2. \A s \in Stacks : /\ IsInjective(Ordered(s, OnShelf(s)))
                         /\ ToSet(Ordered(s, OnShelf(s))) = OnShelf(s)
    BY <1>1, <2>1, OrderedIs
  <2>3. stacking' = [s \in Stacks |-> Ordered(s, OnShelf(s))] /\ at' = at
    BY <1>11, <2>1 DEF RestackWindows
  <2>4. \A s : OnShelf(s)' = OnShelf(s)
    BY <2>3 DEF OnShelf
  <2>5. QED
    BY <2>2, <2>3, <2>4 DEF StackComplete
<1>12. CASE FocusManagement \/ AutoAlign
  <2>1. stacking' = stacking /\ at' = at /\ phase \in Late
    BY <1>12 DEF FocusManagement, FocusPaused, FocusSkipped, ManageFocus, AutoAlign
  <2>2. QED
    BY <1>4, <2>1
<1>13. CASE ApplyMoves
  <2>1. stacking' = stacking /\ phase' = "lifecycle"
    BY <1>13 DEF ApplyMoves
  <2>2. QED
    BY <1>2, <2>1
<1>14. CASE UNCHANGED vars
  BY <1>4, <1>14 DEF vars
<1>15. QED
  BY <1>5, <1>6, <1>7, <1>8, <1>9, <1>10, <1>11, <1>12, <1>13, <1>14 DEF Next

LEMMA Invariance == Spec => []IInv
<1>1. Init => IInv
  <2> SUFFICES ASSUME Init PROVE IInv
    OBVIOUS
  <2>1. TypeOK
    BY InitTyped
  <2>2. \A s \in Shelf : DOMAIN tiling[s] = {}
    BY LenProperties, EmptySeq DEF Init
  <2>3. TilesPlaced
    BY <2>2 DEF Init, TilesPlaced, WellFormed, InOnePlace, NoneEmpty, Arranged
  <2>4. FloatPlaced
    BY DEF Init, FloatPlaced
  <2>5. \A s \in DOMAIN stacking : DOMAIN stacking[s] = {}
    BY LenProperties, EmptySeq DEF Init
  <2>6. StackComplete
    BY <2>5 DEF Init, StackComplete, IsInjective
  <2>7. QED
    BY <2>1, <2>3, <2>4, <2>6 DEF IInv
<1>2. IInv /\ [Next]_vars => IInv'
  BY NextTyped, NextTiles, NextFloat, NextStack DEF IInv
<1>3. QED
  BY <1>1, <1>2, PTL DEF Spec

(* Every window has its one place among the tiles and in the stack of its  *)
(* workspace, and what is drawn has a position, whatever the windows, the  *)
(* workspaces and the work area are.                                       *)
THEOREM WindowsArePlaced == Spec => []WindowsPlaced
<1>1. IInv => WindowsPlaced
  BY DEF IInv, WindowsPlaced
<1>2. QED
  BY <1>1, Invariance, PTL

-----------------------------------------------------------------------------
(* The focus                                                               *)

\* Only focus management lets the frame go on to the alignment.
LEMMA NextHeld == IInv /\ FocusHeld /\ [Next]_vars => FocusHeld'
<1> SUFFICES ASSUME IInv, FocusHeld, [Next]_vars PROVE FocusHeld'
  OBVIOUS
<1> USE DEF windows, seat, camera
<1>1. TypeOK /\ \A s \in DOMAIN stacking : IsInjective(stacking[s])
  BY WellPlaced DEF IInv
<1>2. CASE phase' # "align"
  BY <1>2 DEF FocusHeld
<1>3. CASE FocusPaused
  BY <1>3 DEF FocusPaused, FocusHeld
<1>4. ASSUME UNCHANGED <<windows, shown, tiling, view>>
      PROVE  Visible' = Visible /\ Awake' = Awake /\ \A w : UsableTile(w)' = UsableTile(w)
  BY <1>4 DEF Visible, OnScreen, Awake, OnShelf, Usable, UsableTile, Sees, BoxOf
<1>5. CASE FocusSkipped
  <2>1. UNCHANGED <<windows, shown, tiling, view>> /\ Visible = {}
    BY <1>5 DEF FocusSkipped
  <2>2. QED
    BY <1>4, <2>1 DEF FocusHeld
<1>6. ASSUME NEW h \in Window \cup {None}, ManageFocus(h) PROVE FocusHeld'
  <2>1. UNCHANGED <<windows, shown, tiling, view>> /\ Visible # {}
    BY <1>6 DEF ManageFocus
  <2>2. \A f : Settled(f) \in Visible \/ (Settled(f) \in Awake /\ UsableTile(Settled(f)))
    BY <1>1, <2>1, FrontMostIs DEF Settled
  <2>3. \E f : focus' = Settled(f)
    BY <1>6 DEF ManageFocus
  <2>4. focus' \in Visible \/ (focus' \in Awake /\ UsableTile(focus'))
    BY <2>2, <2>3
  <2>5. UsableTile(focus') => UsableTile(focus)'
    BY <2>1 DEF UsableTile, Usable
  <2>6. QED
    BY <1>4, <2>1, <2>4, <2>5 DEF FocusHeld
<1>7. CASE UNCHANGED vars
  <2>1. UNCHANGED <<windows, shown, tiling, view, focus, switcher, phase>>
    BY <1>7 DEF vars
  <2>2. UsableTile(focus) => UsableTile(focus)'
    BY <2>1 DEF UsableTile, Usable
  <2>3. QED
    BY <1>4, <2>1, <2>2 DEF FocusHeld
<1>8. CASE Lifecycle \/ SwitcherInput \/ WindowControl \/ TilingControl \/ ArrangeWindows
           \/ NoClick \/ (\E w \in Window : Click(w)) \/ RestackWindows \/ AutoAlign \/ ApplyMoves
  <2>1. TilingControl => phase' = "arrange"
    BY <1>1, WellPlaced, TilingControlIs DEF NoTilingControl, FocusStep, MoveStep, PanStep
  <2>2. phase' # "align"
    BY <1>8, <2>1 DEF Lifecycle, NothingHappens, CloseWindow, Minimise, OpenWindow, ShowShelf, Quiet,
           SwitcherInput, SwitcherIdle, BeginSession, AdvanceSession, EndSession,
           WindowControl, NoWindowControl, CommitSession, FocusControl, PositionControl,
           ArrangeWindows, NoClick, Click, RestackWindows, AutoAlign, ApplyMoves
  <2>3. QED
    BY <1>2, <2>2
<1>9. QED
  BY <1>3, <1>5, <1>6, <1>7, <1>8 DEF Next, FocusManagement

(* Outside a switcher session the keyboard is given to a window on screen  *)
(* or to a tile the viewport has left behind, as long as there is a window *)
(* on screen (focus_management_system).                                    *)
THEOREM FocusIsHeld == Spec => []FocusHeld
<1>1. Init => FocusHeld
  BY DEF Init, FocusHeld
<1>2. QED
  BY <1>1, NextHeld, Invariance, PTL DEF Spec

(* A tile the focus lands on is brought into view, whatever else was asked *)
(* of the viewport in the same frame (tiling_focus_auto_align_system).     *)
THEOREM FocusIsRevealed == Spec => FocusRevealed
<1>1. ASSUME IInv, AutoAlign, focus # aligned, UsableTile(focus), focus \in Awake
      PROVE  Sees(view, BoxOf(focus)) \/ Sees(Target(moves'), BoxOf(focus))
  <2> DEFINE L == tiling[shown]
             box == BoxOf(focus)
  <2>1. TypeOK /\ TilesPlaced /\ Arranged
    BY <1>1 DEF IInv, AutoAlign, Arranged
  <2>2. /\ focus \in Window /\ layout[focus] = "tiled" /\ at[focus] = shown /\ shown \in Shelf
    BY <1>1, <2>1, FocusedTile DEF Awake, OnShelf, TypeOK
  <2>3. L \in Seq(Seq(Window)) /\ WellFormed(L) /\ focus \in Surfaces(L)
    BY <2>1, <2>2 DEF TilesPlaced, Tiles, OnShelf, TypeOK, Tilings
  <2>4. box = TileBox(L, focus)
    BY <2>2 DEF BoxOf
  <2> HIDE DEF L, box
  <2>5. /\ box.x \in Int /\ box.y \in Int /\ box.w = Width /\ box.h \in Nat \ {0}
        /\ Anchor(L, focus) = {<<box.x, box.y>>}
    BY <2>3, <2>4, TileHasBox
  <2>6. CASE Sees(view, box)
    BY <2>6 DEF box
  <2>7. CASE ~ Sees(view, box)
    <3> DEFINE p == <<box.x, box.y>>
    <3>1. moves' = [moves EXCEPT !.named = p]
      BY <1>1, <2>2, <2>5, <2>7 DEF AutoAlign, L, box
    <3>2. p \in Point /\ p # None /\ p[1] = box.x /\ p[2] = box.y
      BY <2>5, MarkersAssumption DEF Point
    <3> HIDE DEF p
    <3>3. moves'.named = p
      BY <2>1, <3>1, <3>2, NamedMove
    <3>4. Target(moves') = p
      BY <3>2, <3>3 DEF Target
    <3>5. Sees(p, box)
      BY <2>5, <3>2, AreaHasSize DEF Sees
    <3>6. QED
      BY <3>4, <3>5 DEF box
  <2>8. QED
    BY <2>6, <2>7
<1>2. IInv => [AutoAlign /\ focus # aligned /\ UsableTile(focus) /\ focus \in Awake
                 => Sees(view, BoxOf(focus)) \/ Sees(Target(moves'), BoxOf(focus))]_vars
  BY <1>1
<1>3. QED
  BY <1>2, Invariance, PTL DEF FocusRevealed

=============================================================================
