SPECIFICATION FairFeedSpec
CONSTANTS
  LinesCollapsed = 2
  LinesHardCap = 60
  MoreWidth = 62
  LineBufCap = 512
  Captions <- MCCaptions
  Widths <- MCWidths
  BarWidth = 16
  Frames <- MCFrameBetween
  ClickYs <- MCClickYs
  Drags <- MCDrags
  WheelDeltas <- MCWheelDeltas
PROPERTY
  Repaints
