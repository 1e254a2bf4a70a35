SPECIFICATION Spec
CONSTANTS
  LinesCollapsed = 2
  LinesHardCap = 60
  MoreWidth = 62
  LineBufCap = 512
  Captions <- MCCaptions
  Widths <- MCWidths
  BarWidth = 16
  Frames <- MCFrames
  ClickYs <- MCClickYs
  Drags <- MCDrags
  WheelDeltas <- MCWheelDeltas
INVARIANTS
  ClampsAgree
PROPERTIES
  ClickHitsWhatIsSeen
  ToggleKeepsAbove
