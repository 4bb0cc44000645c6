SPECIFICATION MCSpec
CONSTANTS
  None = None
  a = a
  b = b
  Texts <- MCTexts
  Glyphs <- MCGlyphs
  GlyphsOf <- MCGlyphsOf
  Width <- MCWidth
  Height <- MCHeight
  KindOf <- MCKindOf
  PageWidth = 6
  PageHeight = 6
  Padding = 1
  Limit = 2
  MaxPages = 4
INVARIANTS
  AtlasSound ScreenTrue SeenAndReached OverlaysSound
PROPERTIES
  PicturesFollow
\* The atlas has given out all the pages it may.
CHECK_DEADLOCK FALSE
