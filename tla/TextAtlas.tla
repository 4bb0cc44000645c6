------------------------------ MODULE TextAtlas ------------------------------
(***************************************************************************)
(* TextRendererState: texts the compositor draws itself are laid out, the  *)
(* layouts are cached, and their glyphs are packed into atlas pages.       *)
(* Nothing is ever taken out of a page, so a glyph that is handed out must *)
(* never be drawn over by one that is packed later, in this frame or in    *)
(* any other.                                                              *)
(***************************************************************************)
EXTENDS Integers, Sequences, SequencesExt

CONSTANTS
  Texts,      \* what is asked for: text, family, size and raster scale
  Glyphs,     \* images of glyphs, by font, size and subpixel position
  GlyphsOf,   \* [Texts -> Seq(Glyphs)]: the glyphs with an image, none if the text is empty
  Width, Height, KindOf, \* [Glyphs -> ...]: size of the image and "mask" or "color"
  PageWidth, PageHeight, Padding,
  Limit,      \* LAYOUT_CACHE_LIMIT
  MaxPages    \* bound: page ids that are given out

ASSUME TextAtlasAssumption ==
  /\ GlyphsOf \in [Texts -> Seq(Glyphs)]
  /\ Width \in [Glyphs -> Nat \ {0}] /\ Height \in [Glyphs -> Nat \ {0}]
  /\ KindOf \in [Glyphs -> {"mask", "color"}]
  /\ PageWidth \in Nat /\ PageHeight \in Nat /\ Padding \in Nat
  /\ Limit \in Nat \ {0} /\ MaxPages \in Nat

VARIABLES
  order,    \* layout_order, whose members are the keys of layout_cache
  pages,    \* atlas_pages: in the order of their ids
  atlas,    \* glyph_atlas: where a glyph was packed, for those that were
  nextPage, \* next_page_id
  todo,     \* glyphs of the text being prepared that are yet to be resolved
  drawn     \* what this text was given: [glyph, page, x, y]

vars == <<order, pages, atlas, nextPage, todo, drawn>>

(* One page: the place where the next glyph goes, the height of the row it is in, and what was copied
   where. *)
EmptyPage(id, kind) ==
  [id |-> id, kind |-> kind, x |-> 0, y |-> 0, row |-> 0, version |-> 1, copied |-> {}]

Copy(g, x, y) == [glyph |-> g, x |-> x, y |-> y, w |-> Width[g], h |-> Height[g]]

FullWidth(g)  == Width[g] + 2 * Padding
FullHeight(g) == Height[g] + 2 * Padding

(* The place is moved to the next row when the glyph does not fit into this one, and stays there when
   the page turns out to be too low for it. *)
NeverFits(g) == FullWidth(g) > PageWidth \/ FullHeight(g) > PageHeight

Advanced(p, g) ==
  IF ~NeverFits(g) /\ p.x + FullWidth(g) > PageWidth
  THEN [p EXCEPT !.x = 0, !.y = p.y + p.row, !.row = 0]
  ELSE p

Fits(p, g) == ~NeverFits(g) /\ Advanced(p, g).y + FullHeight(g) <= PageHeight


(* Slip: a row is as high as its last glyph. *)
RowOfLast(p, g) == FullHeight(g)

(* A row is as high as the highest of its glyphs. *)
RowWith(p, g) == IF p.row < FullHeight(g) THEN FullHeight(g) ELSE p.row

With(p, g) ==
  [Advanced(p, g) EXCEPT
     !.copied  = p.copied \union {Copy(g, Advanced(p, g).x + Padding, Advanced(p, g).y + Padding)},
     !.x       = Advanced(p, g).x + FullWidth(g),
     !.row     = RowWith(Advanced(p, g), g),
     !.version = p.version + 1]

Where(p, g) == [glyph |-> g, page |-> p.id, x |-> Advanced(p, g).x + Padding, y |-> Advanced(p, g).y + Padding]

Candidates(g) == {i \in DOMAIN pages : pages[i].kind = KindOf[g]}

Init ==
  /\ order = <<>> /\ pages = <<>> /\ atlas = {} /\ nextPage = 1
  /\ todo = <<>> /\ drawn = {}

(* Shaping and rasterising are the font library's: what remains of a text are the glyphs that have an
   image with an area; a text without any has no layout. *)
LaidOut(t)   == GlyphsOf[t]
HasLayout(t) == LaidOut(t) # <<>>

(* A text that is not cached is laid out, and the oldest layout makes room for it. A text without
   glyphs is neither cached nor drawn. *)
Cached(t) == t \in ToSet(order)

Remembered(t) ==
  IF Cached(t) THEN order
  ELSE IF Len(order) < Limit THEN Append(order, t) ELSE Append(Tail(order), t)

(* Its extent is asked for, by the code that places it. *)
Measure(t) ==
  /\ todo = <<>> /\ HasLayout(t)
  /\ order' = Remembered(t)
  /\ UNCHANGED <<pages, atlas, nextPage, todo, drawn>>

(* It is prepared to be drawn. *)
Prepare(t) ==
  /\ todo = <<>> /\ HasLayout(t)
  /\ order' = Remembered(t)
  /\ todo' = LaidOut(t)
  /\ drawn' = {}
  /\ UNCHANGED <<pages, atlas, nextPage>>

Resolve(place) == drawn' = drawn \union {place} /\ todo' = Tail(todo)

(* The glyph was packed before. *)
Reuse ==
  /\ todo # <<>>
  /\ \E place \in atlas : place.glyph = Head(todo) /\ Resolve(place)
  /\ UNCHANGED <<order, pages, atlas, nextPage>>

IsNew(g) == \A place \in atlas : place.glyph # g

(* It goes to the first page of its kind that takes it; the pages before it have tried. *)
PackInto(i) ==
  LET g == Head(todo) IN
  /\ todo # <<>> /\ IsNew(g)
  /\ i \in Candidates(g) /\ Fits(pages[i], g)
  /\ \A j \in Candidates(g) : j < i => ~Fits(pages[j], g)
  /\ pages' = [j \in DOMAIN pages |->
                 IF j = i THEN With(pages[j], g)
                 ELSE IF j \in Candidates(g) /\ j < i THEN Advanced(pages[j], g) ELSE pages[j]]
  /\ atlas' = atlas \union {Where(pages[i], g)}
  /\ Resolve(Where(pages[i], g))
  /\ UNCHANGED <<order, nextPage>>

NoneTakes(g) == \A j \in Candidates(g) : ~Fits(pages[j], g)

Tried(g) ==
  [j \in DOMAIN pages |-> IF j \in Candidates(g) THEN Advanced(pages[j], g) ELSE pages[j]]

(* No page takes it: a new one is opened, whose number is the next one. *)
PackNew ==
  LET g == Head(todo)
      p == EmptyPage(nextPage, KindOf[g]) IN
  /\ todo # <<>> /\ IsNew(g) /\ NoneTakes(g)
  /\ ~NeverFits(g)
  /\ nextPage <= MaxPages
  /\ pages' = Append(Tried(g), With(p, g))
  /\ nextPage' = nextPage + 1
  /\ atlas' = atlas \union {Where(p, g)}
  /\ Resolve(Where(p, g))
  /\ UNCHANGED order

(* A glyph larger than a page is not packed, and the text it is of is not drawn at all; the number of
   the page that was to hold it is used up. *)
GiveUp ==
  LET g == Head(todo) IN
  /\ todo # <<>> /\ IsNew(g) /\ NeverFits(g)
  /\ nextPage <= MaxPages
  /\ nextPage' = nextPage + 1
  /\ todo' = <<>> /\ drawn' = {}
  /\ UNCHANGED <<order, pages, atlas>>

Next == (\E t \in Texts : Measure(t) \/ Prepare(t)) \/ Reuse \/ (\E i \in DOMAIN pages : PackInto(i)) \/ PackNew \/ GiveUp

Spec == Init /\ [][Next]_vars

-----------------------------------------------------------------------------
Apart(a, b) ==
  \/ a.x + a.w + Padding <= b.x - Padding
  \/ b.x + b.w + Padding <= a.x - Padding
  \/ a.y + a.h + Padding <= b.y - Padding
  \/ b.y + b.h + Padding <= a.y - Padding

InsidePage(c) ==
  c.x >= Padding /\ c.x + c.w + Padding <= PageWidth /\ c.y >= Padding /\ c.y + c.h + Padding <= PageHeight

(* Whatever was copied into a page is still there: two glyphs of a page never touch, their borders
   included, and none leaves the page (try_insert: rows that are closed early, glyphs of any size in
   any order, pages that were tried in vain). *)
NothingOverwritten ==
  \A i \in DOMAIN pages : \A c \in pages[i].copied :
     /\ InsidePage(c)
     /\ \A e \in pages[i].copied : e = c \/ Apart(c, e)

(* Every place the atlas hands out, and every place a text was given that it was not handed again, is
   one where a page holds that very glyph (atlas_entry and prepare_glyphs: ids of pages are not used
   twice, also not after a page was given up). *)
PlacesTrue ==
  \A place \in atlas \union drawn : \E i \in DOMAIN pages :
     pages[i].id = place.page /\ Copy(place.glyph, place.x, place.y) \in pages[i].copied

PagesDistinct == \A i, j \in DOMAIN pages : pages[i].id = pages[j].id => i = j

(* The cache of layouts never holds more than its limit, and no text twice (layout). *)
CacheBounded == Len(order) <= Limit /\ IsInjective(order)

AtlasSound == NothingOverwritten /\ PlacesTrue /\ PagesDistinct /\ CacheBounded
=============================================================================
