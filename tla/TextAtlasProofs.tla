--------------------------- MODULE TextAtlasProofs ---------------------------
(***************************************************************************)
(* The atlas is sound for pages, glyphs and paddings of any size.          *)
(*                                                                         *)
(* That glyphs of a page are apart is not inductive by itself: a new glyph *)
(* is apart from the old ones because each of these is either above the    *)
(* row that is being filled, or in it and left of the next place.          *)
(***************************************************************************)
EXTENDS TextAtlas, TLAPS, SequenceTheorems

Copies == [glyph : Glyphs, x : Nat, y : Nat, w : Nat, h : Nat]
Pages  == [id : Nat \ {0}, kind : {"mask", "color"}, x : Nat, y : Nat, row : Nat, version : Nat,
           copied : SUBSET Copies]
Places == [glyph : Glyphs, page : Nat, x : Nat, y : Nat]

TypeInv ==
  /\ order \in Seq(Texts) /\ pages \in Seq(Pages) /\ atlas \in SUBSET Places
  /\ nextPage \in Nat \ {0} /\ todo \in Seq(Glyphs) /\ drawn \in SUBSET Places

\* A glyph of the page is above the row that is being filled, or in it and left of the next place.
Behind(p, c) ==
  \/ c.y + c.h + Padding <= p.y
  \/ c.y + c.h + Padding <= p.y + p.row /\ c.x + c.w + Padding <= p.x

Packed(p) ==
  \A c \in p.copied :
     /\ InsidePage(c) /\ Behind(p, c)
     /\ \A e \in p.copied : e = c \/ Apart(c, e)

IdsGiven == \A i \in DOMAIN pages : pages[i].id < nextPage

IInv ==
  /\ TypeInv
  /\ \A i \in DOMAIN pages : Packed(pages[i])
  /\ PlacesTrue /\ PagesDistinct /\ IdsGiven /\ CacheBounded

-----------------------------------------------------------------------------
(* One page.                                                               *)

\* A page that was tried, in vain or not, holds what it held, and soundly.
LEMMA AdvancedPage ==
  ASSUME NEW p \in Pages, NEW g \in Glyphs, Packed(p)
  PROVE  /\ Advanced(p, g) \in Pages /\ Packed(Advanced(p, g))
         /\ Advanced(p, g).copied = p.copied
         /\ Advanced(p, g).id = p.id /\ Advanced(p, g).kind = p.kind
<1>1. PageWidth \in Nat /\ PageHeight \in Nat /\ Padding \in Nat /\ Width[g] \in Nat /\ Height[g] \in Nat
  BY TextAtlasAssumption
<1>2. CASE Advanced(p, g) = p
  BY <1>2
<1>3. CASE Advanced(p, g) = [p EXCEPT !.x = 0, !.y = p.y + p.row, !.row = 0]
  <2>1. Advanced(p, g) \in Pages /\ Advanced(p, g).copied = p.copied
        /\ Advanced(p, g).id = p.id /\ Advanced(p, g).kind = p.kind
        /\ Advanced(p, g).y = p.y + p.row
    <3>1. /\ p.id \in Nat \ {0} /\ p.kind \in {"mask", "color"} /\ p.x \in Nat /\ p.y \in Nat
          /\ p.row \in Nat /\ p.version \in Nat /\ p.copied \in SUBSET Copies
      BY DEF Pages
    <3>2. p.y + p.row \in Nat /\ 0 \in Nat
      BY <3>1
    <3>3. Advanced(p, g) \in Pages
      BY <1>3, <3>2 DEF Pages
    <3>4. QED
      BY <1>3, <3>3 DEF Pages
  <2>2. ASSUME NEW c \in p.copied
        PROVE  Behind(Advanced(p, g), c)
    <3>1. c \in Copies /\ Behind(p, c)
      BY DEF Packed, Pages
    <3>2. p.y \in Nat /\ p.row \in Nat /\ c.y \in Nat /\ c.h \in Nat
      BY <3>1 DEF Pages, Copies
    <3>3. QED
      BY <1>1, <2>1, <3>1, <3>2 DEF Behind
  <2>3. QED
    BY <2>1, <2>2 DEF Packed
<1>4. QED
  BY <1>2, <1>3 DEF Advanced

\* A glyph that fits is copied to a place of its own inside the page.
LEMMA WithPage ==
  ASSUME NEW p \in Pages, NEW g \in Glyphs, Packed(p), Fits(p, g)
  PROVE  /\ With(p, g) \in Pages /\ Packed(With(p, g))
         /\ With(p, g).id = p.id /\ With(p, g).kind = p.kind
         /\ p.copied \subseteq With(p, g).copied
         /\ Where(p, g) \in Places /\ Where(p, g).page = p.id
         /\ Copy(Where(p, g).glyph, Where(p, g).x, Where(p, g).y) \in With(p, g).copied
<1> DEFINE q == Advanced(p, g)
           c == Copy(g, q.x + Padding, q.y + Padding)
           r == With(p, g)
<1>1. q \in Pages /\ Packed(q) /\ q.copied = p.copied /\ q.id = p.id /\ q.kind = p.kind
  BY AdvancedPage
<1>2. /\ PageWidth \in Nat /\ PageHeight \in Nat /\ Padding \in Nat
      /\ Width[g] \in Nat /\ Height[g] \in Nat
  BY TextAtlasAssumption
<1>3. /\ q.x \in Nat /\ q.y \in Nat /\ q.row \in Nat /\ p.id \in Nat /\ p.version \in Nat
      /\ p.x \in Nat /\ p.copied \in SUBSET Copies
  BY <1>1 DEF Pages
<1>4. /\ c \in Copies /\ c.x = q.x + Padding /\ c.y = q.y + Padding
      /\ c.w = Width[g] /\ c.h = Height[g] /\ c.glyph = g
  BY <1>2, <1>3 DEF Copy, Copies
<1>5. /\ r \in Pages /\ r.copied = p.copied \union {c} /\ r.id = p.id /\ r.kind = p.kind
      /\ r.x = q.x + Width[g] + 2 * Padding /\ r.y = q.y
      /\ q.row <= r.row /\ Height[g] + 2 * Padding <= r.row /\ r.row \in Nat
  <2>1. FullWidth(g) = Width[g] + 2 * Padding /\ FullHeight(g) = Height[g] + 2 * Padding
    BY DEF FullWidth, FullHeight
  <2>2. /\ RowWith(q, g) \in Nat /\ q.row <= RowWith(q, g) /\ FullHeight(g) <= RowWith(q, g)
    BY <1>2, <1>3, <2>1 DEF RowWith
  <2>3. r = [q EXCEPT !.copied = p.copied \union {c}, !.x = q.x + FullWidth(g),
                      !.row = RowWith(q, g), !.version = p.version + 1]
    BY DEF With
  <2> HIDE DEF q, c, r
  <2>4. /\ q.x + FullWidth(g) \in Nat /\ p.version + 1 \in Nat /\ p.copied \union {c} \in SUBSET Copies
    BY <1>2, <1>3, <1>4, <2>1
  <2>5. r \in Pages
    BY <1>1, <2>2, <2>3, <2>4 DEF Pages
  <2>6. /\ r.copied = p.copied \union {c} /\ r.x = q.x + FullWidth(g) /\ r.row = RowWith(q, g)
        /\ r.id = q.id /\ r.kind = q.kind /\ r.y = q.y
    BY <1>1, <2>3 DEF Pages
  <2>7. q.x + FullWidth(g) = q.x + Width[g] + 2 * Padding
    BY <1>2, <1>3, <2>1
  <2>8. QED
    BY <1>1, <2>1, <2>2, <2>5, <2>6, <2>7
<1>6. q.x + Width[g] + 2 * Padding <= PageWidth /\ q.y + Height[g] + 2 * Padding <= PageHeight
  <2>1. /\ Width[g] + 2 * Padding <= PageWidth
        /\ q.y + (Height[g] + 2 * Padding) <= PageHeight
    BY <1>2 DEF Fits, NeverFits, FullWidth, FullHeight
  <2>2. q.x = 0 \/ q.x + (Width[g] + 2 * Padding) <= PageWidth
    <3>1. CASE p.x + FullWidth(g) > PageWidth
      <4>1. q = [p EXCEPT !.x = 0, !.y = p.y + p.row, !.row = 0]
        BY <3>1 DEF Advanced, Fits
      <4>2. QED
        BY <4>1 DEF Pages
    <3>2. CASE ~(p.x + FullWidth(g) > PageWidth)
      <4>1. q = p
        BY <3>2 DEF Advanced
      <4> HIDE DEF q
      <4>2. QED
        BY <1>2, <1>3, <3>2, <4>1 DEF FullWidth
    <3>3. QED
      BY <3>1, <3>2
  <2> HIDE DEF q
  <2>3. QED
    BY <1>2, <1>3, <2>1, <2>2
<1>7. InsidePage(c) /\ Behind(r, c)
  <2> HIDE DEF q, c, r
  <2>1. QED
    BY <1>2, <1>3, <1>4, <1>5, <1>6 DEF InsidePage, Behind
<1>8. ASSUME NEW e \in p.copied
      PROVE  InsidePage(e) /\ Behind(r, e) /\ Apart(c, e) /\ Apart(e, c)
  <2> HIDE DEF q, c, r
  <2>1. InsidePage(e) /\ Behind(q, e)
    BY <1>1 DEF Packed
  <2>2. e.x \in Nat /\ e.y \in Nat /\ e.w \in Nat /\ e.h \in Nat
    BY <1>3 DEF Copies
  <2>3. Behind(r, e)
    BY <1>2, <1>3, <1>5, <2>1, <2>2 DEF Behind
  <2>4. Apart(c, e) /\ Apart(e, c)
    BY <1>2, <1>3, <1>4, <2>1, <2>2 DEF Behind, Apart
  <2>5. QED
    BY <2>1, <2>3, <2>4
<1>9. Packed(r)
  <2> HIDE DEF q, c, r
  <2>1. \A a, e \in p.copied : e = a \/ Apart(a, e)
    BY DEF Packed
  <2>2. QED
    BY <1>5, <1>7, <1>8, <2>1 DEF Packed
<1>10. /\ Where(p, g) \in Places /\ Where(p, g).page = p.id
       /\ Copy(Where(p, g).glyph, Where(p, g).x, Where(p, g).y) = c
  <2>1. Where(p, g) = [glyph |-> g, page |-> p.id, x |-> q.x + Padding, y |-> q.y + Padding]
    BY DEF Where
  <2> HIDE DEF q
  <2>2. QED
    BY <1>2, <1>3, <2>1 DEF Places
<1>11. QED
  BY <1>5, <1>9, <1>10

\* A page that was just opened.
LEMMA NewPage ==
  ASSUME NEW g \in Glyphs, NEW n \in Nat \ {0}, ~NeverFits(g)
  PROVE  /\ EmptyPage(n, KindOf[g]) \in Pages /\ Packed(EmptyPage(n, KindOf[g]))
         /\ Fits(EmptyPage(n, KindOf[g]), g)
         /\ EmptyPage(n, KindOf[g]).id = n
<1> DEFINE p == EmptyPage(n, KindOf[g])
<1>1. /\ PageWidth \in Nat /\ PageHeight \in Nat /\ Padding \in Nat
      /\ Width[g] \in Nat /\ Height[g] \in Nat /\ KindOf[g] \in {"mask", "color"}
  BY TextAtlasAssumption
<1>2. /\ p.x = 0 /\ p.y = 0 /\ p.row = 0 /\ p.copied = {} /\ p.id = n /\ p \in Pages
  BY <1>1 DEF EmptyPage, Pages
<1>3. FullWidth(g) <= PageWidth /\ FullHeight(g) <= PageHeight /\ FullWidth(g) \in Nat /\ FullHeight(g) \in Nat
  BY <1>1 DEF NeverFits, FullWidth, FullHeight
<1>4. Advanced(p, g) = p
  <2> HIDE DEF p
  <2>1. QED
    BY <1>1, <1>2, <1>3 DEF Advanced
<1>5. QED
  <2> HIDE DEF p
  <2>1. Fits(p, g) /\ Packed(p)
    BY <1>1, <1>2, <1>3, <1>4 DEF Fits, Packed
  <2>2. QED
    BY <1>2, <2>1 DEF p

-----------------------------------------------------------------------------
(* The cache of layouts.                                                   *)

\* The queue of cached layouts stays bounded and free of repetitions.
LEMMA RememberedBounded ==
  ASSUME NEW t \in Texts, order \in Seq(Texts), CacheBounded
  PROVE  /\ Remembered(t) \in Seq(Texts)
         /\ Len(Remembered(t)) <= Limit /\ IsInjective(Remembered(t))
<1>1. Limit \in Nat \ {0}
  BY TextAtlasAssumption
<1>2. CASE Cached(t)
  BY <1>2 DEF Remembered, CacheBounded
<1>3. CASE ~Cached(t)
  <2>1. \A i \in 1 .. Len(order) : order[i] # t
    BY <1>3 DEF Cached, ToSet
  <2>2. \A i, j \in 1 .. Len(order) : order[i] = order[j] => i = j
    BY DEF CacheBounded, IsInjective
  <2>3. CASE Len(order) < Limit
    <3>1. Remembered(t) = Append(order, t)
      BY <1>3, <2>3 DEF Remembered
    <3>2. /\ Append(order, t) \in Seq(Texts) /\ Len(Append(order, t)) = Len(order) + 1
          /\ \A i \in 1 .. Len(order) : Append(order, t)[i] = order[i]
          /\ Append(order, t)[Len(order) + 1] = t
      BY AppendProperties
    <3>3. \A i, j \in 1 .. Len(order) + 1 :
            Append(order, t)[i] = Append(order, t)[j] => i = j
      BY <2>1, <2>2, <3>2
    <3>4. IsInjective(Append(order, t))
      BY <3>2, <3>3 DEF IsInjective
    <3>5. QED
      BY <1>1, <2>3, <3>1, <3>2, <3>4
  <2>4. CASE ~(Len(order) < Limit)
    <3>1. Remembered(t) = Append(Tail(order), t)
      BY <1>3, <2>4 DEF Remembered
    <3>2. order # <<>> /\ Len(order) \in Nat /\ Len(order) <= Limit
      BY <1>1, <2>4 DEF CacheBounded
    <3>3. /\ Tail(order) \in Seq(Texts) /\ Len(Tail(order)) = Len(order) - 1
          /\ \A i \in 1 .. Len(order) - 1 : Tail(order)[i] = order[i + 1]
      BY <3>2
    <3>4. /\ Append(Tail(order), t) \in Seq(Texts) /\ Len(Append(Tail(order), t)) = Len(order)
          /\ \A i \in 1 .. Len(order) - 1 : Append(Tail(order), t)[i] = order[i + 1]
          /\ Append(Tail(order), t)[Len(order)] = t
      BY <3>2, <3>3, AppendProperties
    <3> DEFINE q == Append(Tail(order), t)
    <3>5. /\ q \in Seq(Texts) /\ Len(q) = Len(order) /\ q[Len(order)] = t
          /\ \A i \in 1 .. Len(order) - 1 : q[i] = order[i + 1]
      BY <3>4
    <3> HIDE DEF q
    <3>6. ASSUME NEW i \in 1 .. Len(order), NEW j \in 1 .. Len(order), q[i] = q[j]
          PROVE  i = j
      <4>1. CASE i = Len(order) /\ j # Len(order)
        <5>1. j \in 1 .. Len(order) - 1 /\ j + 1 \in 1 .. Len(order)
          BY <3>2, <4>1
        <5>2. QED
          BY <2>1, <3>5, <3>6, <4>1, <5>1
      <4>2. CASE i # Len(order) /\ j = Len(order)
        <5>1. i \in 1 .. Len(order) - 1 /\ i + 1 \in 1 .. Len(order)
          BY <3>2, <4>2
        <5>2. QED
          BY <2>1, <3>5, <3>6, <4>2, <5>1
      <4>3. CASE i # Len(order) /\ j # Len(order)
        <5>1. /\ i \in 1 .. Len(order) - 1 /\ i + 1 \in 1 .. Len(order)
              /\ j \in 1 .. Len(order) - 1 /\ j + 1 \in 1 .. Len(order)
          BY <3>2, <4>3
        <5>2. order[i + 1] = order[j + 1]
          BY <3>5, <3>6, <5>1
        <5>3. i + 1 = j + 1
          BY <2>2, <5>1, <5>2
        <5>4. QED
          BY <3>2, <5>3
      <4>4. QED
        BY <4>1, <4>2, <4>3
    <3>7. IsInjective(q)
      BY <3>5, <3>6 DEF IsInjective
    <3>8. QED
      BY <3>1, <3>2, <3>5, <3>7 DEF q
  <2>5. QED
    BY <2>3, <2>4
<1>4. QED
  BY <1>2, <1>3

-----------------------------------------------------------------------------
(* The steps.                                                              *)

\* The first of the glyphs that are left, and the others.
LEMMA HeadOfTodo ==
  ASSUME todo \in Seq(Glyphs), todo # <<>>
  PROVE  Head(todo) \in Glyphs /\ Tail(todo) \in Seq(Glyphs)
BY HeadTailProperties

\* A page that is packed with one glyph, after the pages before it were tried in vain.
LEMMA PackIntoKeeps ==
  ASSUME IInv, NEW i \in DOMAIN pages, PackInto(i)
  PROVE  IInv'
<1> DEFINE g == Head(todo)
<1> USE DEF IInv
<1>1. g \in Glyphs /\ Tail(todo) \in Seq(Glyphs) /\ DOMAIN pages = 1 .. Len(pages)
  BY HeadOfTodo DEF TypeInv, PackInto
<1>2. /\ \A j \in DOMAIN pages : pages[j] \in Pages /\ Packed(pages[j])
      /\ Fits(pages[i], g)
  BY DEF TypeInv, PackInto
<1>3. /\ order' = order /\ nextPage' = nextPage /\ todo' = Tail(todo)
      /\ atlas' = atlas \union {Where(pages[i], g)}
      /\ drawn' = drawn \union {Where(pages[i], g)}
      /\ pages' = [j \in DOMAIN pages |->
                     IF j = i THEN With(pages[j], g)
                     ELSE IF j \in Candidates(g) /\ j < i THEN Advanced(pages[j], g) ELSE pages[j]]
  BY DEF PackInto, Resolve
<1>4. DOMAIN pages' = DOMAIN pages
  BY <1>3
<1>5. /\ With(pages[i], g) \in Pages /\ Packed(With(pages[i], g))
      /\ With(pages[i], g).id = pages[i].id
      /\ pages[i].copied \subseteq With(pages[i], g).copied
      /\ Where(pages[i], g) \in Places /\ Where(pages[i], g).page = pages[i].id
      /\ Copy(Where(pages[i], g).glyph, Where(pages[i], g).x, Where(pages[i], g).y)
           \in With(pages[i], g).copied
  BY <1>1, <1>2, WithPage
<1>6. ASSUME NEW j \in DOMAIN pages
      PROVE  /\ pages'[j] \in Pages /\ Packed(pages'[j])
             /\ pages'[j].id = pages[j].id
             /\ pages[j].copied \subseteq pages'[j].copied
  <2>1. CASE j = i
    BY <1>3, <1>5, <2>1
  <2>2. CASE j # i /\ j \in Candidates(g) /\ j < i
    <3>1. pages'[j] = Advanced(pages[j], g)
      BY <1>3, <2>2
    <3>2. QED
      BY <1>1, <1>2, <3>1, AdvancedPage
  <2>3. CASE j # i /\ ~(j \in Candidates(g) /\ j < i)
    BY <1>2, <1>3, <2>3
  <2>4. QED
    BY <2>1, <2>2, <2>3
<1>7. TypeInv'
  <2>1. pages' \in Seq(Pages)
    BY <1>1, <1>3, <1>6, IsASeq DEF TypeInv
  <2>2. QED
    BY <1>1, <1>3, <1>5, <2>1 DEF TypeInv
<1>8. (\A j \in DOMAIN pages : Packed(pages[j]))' /\ PagesDistinct' /\ IdsGiven'
  BY <1>3, <1>4, <1>6 DEF PagesDistinct, IdsGiven
<1>9. PlacesTrue'
  <2> SUFFICES ASSUME NEW place \in (atlas \union drawn)'
               PROVE  \E j \in DOMAIN pages' : /\ pages'[j].id = place.page
                                               /\ Copy(place.glyph, place.x, place.y) \in pages'[j].copied
    BY DEF PlacesTrue
  <2>1. CASE place = Where(pages[i], g)
    <3>1. pages'[i] = With(pages[i], g)
      BY <1>3
    <3>2. QED
      BY <1>4, <1>5, <2>1, <3>1
  <2>2. CASE place \in atlas \union drawn
    <3>1. PICK j \in DOMAIN pages : /\ pages[j].id = place.page
                                    /\ Copy(place.glyph, place.x, place.y) \in pages[j].copied
      BY <2>2 DEF PlacesTrue
    <3>2. QED
      BY <1>4, <1>6, <3>1
  <2>3. QED
    BY <1>3, <2>1, <2>2
<1>10. CacheBounded'
  BY <1>3 DEF CacheBounded
<1>11. QED
  BY <1>7, <1>8, <1>9, <1>10

\* A page is opened for a glyph that no page took.
LEMMA PackNewKeeps ==
  ASSUME IInv, PackNew
  PROVE  IInv'
<1> DEFINE g == Head(todo)
           p == EmptyPage(nextPage, KindOf[g])
           n == Len(pages)
<1> USE DEF IInv
<1>1. /\ g \in Glyphs /\ Tail(todo) \in Seq(Glyphs) /\ DOMAIN pages = 1 .. n /\ n \in Nat
      /\ nextPage \in Nat \ {0}
  BY HeadOfTodo DEF TypeInv, PackNew
<1>2. /\ p \in Pages /\ Packed(p) /\ Fits(p, g) /\ p.id = nextPage
  BY <1>1, NewPage DEF PackNew
<1>3. /\ With(p, g) \in Pages /\ Packed(With(p, g)) /\ With(p, g).id = nextPage
      /\ Where(p, g) \in Places /\ Where(p, g).page = nextPage
      /\ Copy(Where(p, g).glyph, Where(p, g).x, Where(p, g).y) \in With(p, g).copied
  <2> HIDE DEF p, g
  <2>1. QED
    BY <1>1, <1>2, WithPage
<1>4. /\ order' = order /\ nextPage' = nextPage + 1 /\ todo' = Tail(todo)
      /\ atlas' = atlas \union {Where(p, g)} /\ drawn' = drawn \union {Where(p, g)}
      /\ pages' = Append(Tried(g), With(p, g))
  BY DEF PackNew, Resolve
<1>5. /\ \A j \in 1 .. n : /\ Tried(g)[j] \in Pages /\ Packed(Tried(g)[j])
                           /\ Tried(g)[j].id = pages[j].id /\ Tried(g)[j].copied = pages[j].copied
      /\ Tried(g) \in Seq(Pages) /\ Len(Tried(g)) = n
  <2>1. ASSUME NEW j \in 1 .. n
        PROVE  /\ Tried(g)[j] \in Pages /\ Packed(Tried(g)[j])
               /\ Tried(g)[j].id = pages[j].id /\ Tried(g)[j].copied = pages[j].copied
    <3>1. pages[j] \in Pages /\ Packed(pages[j])
      BY <1>1 DEF TypeInv
    <3>2. Tried(g)[j] = Advanced(pages[j], g) \/ Tried(g)[j] = pages[j]
      BY <1>1 DEF Tried
    <3>3. QED
      BY <1>1, <3>1, <3>2, AdvancedPage
  <2>2. Tried(g) = [j \in 1 .. n |->
                      IF j \in Candidates(g) THEN Advanced(pages[j], g) ELSE pages[j]]
    BY <1>1 DEF Tried
  <2>3. Tried(g) \in Seq(Pages)
    BY <1>1, <2>1, <2>2, IsASeq
  <2>4. DOMAIN Tried(g) = 1 .. n
    BY <2>2
  <2>5. QED
    BY <1>1, <2>1, <2>3, <2>4, LenProperties
<1>6. /\ pages' \in Seq(Pages) /\ DOMAIN pages' = 1 .. n + 1
      /\ \A j \in 1 .. n : pages'[j] = Tried(g)[j]
      /\ pages'[n + 1] = With(p, g)
  <2> HIDE DEF p, g
  <2>1. QED
    BY <1>3, <1>4, <1>5, AppendProperties
<1>7. \A j \in 1 .. n + 1 : j = n + 1 \/ j \in 1 .. n
  BY <1>1
<1>8. TypeInv'
  BY <1>1, <1>3, <1>4, <1>6 DEF TypeInv
<1>9. (\A j \in DOMAIN pages : Packed(pages[j]))'
  <2> HIDE DEF p, g
  <2>1. QED
    BY <1>3, <1>5, <1>6, <1>7
<1>10. PagesDistinct' /\ IdsGiven'
  <2>1. \A j \in 1 .. n : pages'[j].id = pages[j].id /\ pages[j].id \in Nat /\ pages[j].id < nextPage
    BY <1>1, <1>5, <1>6 DEF IdsGiven, TypeInv, Pages
  <2>2. pages'[n + 1].id = nextPage
    BY <1>3, <1>6
  <2>3. PagesDistinct'
    BY <1>1, <1>6, <1>7, <2>1, <2>2 DEF PagesDistinct
  <2>4. IdsGiven'
    BY <1>1, <1>4, <1>6, <1>7, <2>1, <2>2 DEF IdsGiven
  <2>5. QED
    BY <2>3, <2>4
<1>11. PlacesTrue'
  <2> SUFFICES ASSUME NEW place \in (atlas \union drawn)'
               PROVE  \E j \in DOMAIN pages' : /\ pages'[j].id = place.page
                                               /\ Copy(place.glyph, place.x, place.y) \in pages'[j].copied
    BY DEF PlacesTrue
  <2>1. CASE place = Where(p, g)
    <3>1. n + 1 \in DOMAIN pages'
      BY <1>1, <1>6
    <3> HIDE DEF p, g, n
    <3>2. QED
      BY <1>3, <1>6, <2>1, <3>1
  <2>2. CASE place \in atlas \union drawn
    <3>1. PICK j \in DOMAIN pages : /\ pages[j].id = place.page
                                    /\ Copy(place.glyph, place.x, place.y) \in pages[j].copied
      BY <2>2 DEF PlacesTrue
    <3>2. j \in 1 .. n /\ j \in DOMAIN pages'
      BY <1>1, <1>6
    <3>3. QED
      BY <1>5, <1>6, <3>1, <3>2
  <2>3. QED
    BY <1>4, <2>1, <2>2
<1>12. CacheBounded'
  BY <1>4 DEF CacheBounded
<1>13. QED
  BY <1>8, <1>9, <1>10, <1>11, <1>12

\* The strengthened invariant holds of the empty atlas and is preserved by every step.
LEMMA AtlasInit == Init => IInv
BY TextAtlasAssumption
   DEF Init, IInv, TypeInv, PlacesTrue, PagesDistinct, IdsGiven, CacheBounded, IsInjective

LEMMA AtlasStep == IInv /\ [Next]_vars => IInv'
<1> SUFFICES ASSUME IInv, [Next]_vars
             PROVE  IInv'
  OBVIOUS
<1> USE DEF IInv
<1>1. ASSUME NEW t \in Texts, Measure(t)
      PROVE  IInv'
  <2>1. order' = Remembered(t) /\ UNCHANGED <<pages, atlas, nextPage, todo, drawn>>
    BY <1>1 DEF Measure
  <2>2. order' \in Seq(Texts) /\ CacheBounded'
    BY <2>1, RememberedBounded DEF TypeInv, CacheBounded
  <2>3. QED
    BY <2>1, <2>2 DEF TypeInv, PlacesTrue, PagesDistinct, IdsGiven
<1>2. ASSUME NEW t \in Texts, Prepare(t)
      PROVE  IInv'
  <2>1. /\ order' = Remembered(t) /\ UNCHANGED <<pages, atlas, nextPage>>
        /\ todo' = GlyphsOf[t] /\ drawn' = {}
    BY <1>2 DEF Prepare, LaidOut
  <2>2. order' \in Seq(Texts) /\ CacheBounded'
    BY <2>1, RememberedBounded DEF TypeInv, CacheBounded
  <2>3. todo' \in Seq(Glyphs)
    BY <2>1, TextAtlasAssumption
  <2>4. QED
    BY <2>1, <2>2, <2>3 DEF TypeInv, PlacesTrue, PagesDistinct, IdsGiven
<1>3. CASE Reuse
  <2>1. PICK place \in atlas : Resolve(place)
    BY <1>3 DEF Reuse
  <2>2. /\ UNCHANGED <<order, pages, atlas, nextPage>>
        /\ drawn' = drawn \union {place} /\ todo' = Tail(todo) /\ todo # <<>>
    BY <1>3, <2>1 DEF Reuse, Resolve
  <2>3. todo' \in Seq(Glyphs)
    BY <2>2, HeadOfTodo DEF TypeInv
  <2>4. atlas' \union drawn' = atlas \union drawn
    BY <2>1, <2>2
  <2>5. PlacesTrue'
    BY <2>2, <2>4 DEF PlacesTrue
  <2>6. QED
    BY <2>1, <2>2, <2>3, <2>5 DEF TypeInv, PagesDistinct, IdsGiven, CacheBounded
<1>4. ASSUME NEW i \in DOMAIN pages, PackInto(i)
      PROVE  IInv'
  BY <1>4, PackIntoKeeps
<1>5. CASE PackNew
  BY <1>5, PackNewKeeps
<1>6. CASE GiveUp
  <2>1. /\ UNCHANGED <<order, pages, atlas>> /\ nextPage' = nextPage + 1 /\ todo' = <<>> /\ drawn' = {}
    BY <1>6 DEF GiveUp
  <2>2. IdsGiven'
    <3>1. \A i \in DOMAIN pages : pages[i] \in Pages
      BY DEF TypeInv
    <3>2. \A i \in DOMAIN pages : pages[i].id \in Nat /\ pages[i].id < nextPage /\ nextPage \in Nat
      BY <3>1 DEF IdsGiven, TypeInv, Pages
    <3>3. QED
      BY <2>1, <3>2 DEF IdsGiven
  <2>3. QED
    BY <2>1, <2>2 DEF TypeInv, PlacesTrue, PagesDistinct, CacheBounded
<1>7. CASE UNCHANGED vars
  BY <1>7 DEF vars, TypeInv, PlacesTrue, PagesDistinct, IdsGiven, CacheBounded
<1>8. QED
  BY <1>1, <1>2, <1>3, <1>4, <1>5, <1>6, <1>7 DEF Next

\* Glyphs are never drawn over, leave no page, and are where the atlas says; ids of pages are not
\* used twice, and the cache of layouts is bounded (TextRendererState).
THEOREM AtlasIsSound == Spec => []AtlasSound
<1>1. IInv => AtlasSound
  BY DEF IInv, AtlasSound, NothingOverwritten, Packed
<1>2. QED
  BY <1>1, AtlasInit, AtlasStep, PTL DEF Spec
=============================================================================
