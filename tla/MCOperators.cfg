SPECIFICATION Spec
CONSTANTS
  LinesCollapsed = 2
  LinesHardCap = 4
  MoreWidth = 13
  LineBufCap = 512
  CaptionGlyphs = {"latin", "hangul", "break"}
  CaptionWidths <- MCCaptionWidths
  MaxGlyphs = 7
  Canvas <- MCCanvas
  Ground <- MCGround
  Picture <- MCPicture
  Paint <- MCPaint
  Colour <- MCColour
  Clear <- MCClear
  Top <- MCTop
  Bottom <- MCBottom
  Rects <- MCRects
  Transfers <- MCTransfers
  Offsets <- MCOffsets
  Views <- MCViews
  AllocSizes <- MCAllocSizes
  Names <- MCNames
  Codepoints <- MCCodepoints
  FontBytes <- MCFontBytes
  MaxText = 5
  FitWidths <- MCFitWidths
  CardWidths <- MCCardWidths
  StaticHeaders <- MCStaticHeaders
  Template <- MCTemplate
  MaxPieces = 3
  MaxNumber = 6
  MaxString = 3
  LastYear = 2101
INVARIANTS
  WrapKeepsText
  WrapIsGreedy
  MoreMeansMore
  DrawsClipped
  DrawnAsMeasured
  TextFits
  TextIsRight
