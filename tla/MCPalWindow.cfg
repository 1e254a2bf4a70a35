SPECIFICATION FairSpec
CONSTANTS
  ChromeH = 58
  BarWidth = 40
  Frames <- MCFrames
  Users <- MCUsers
  InitUser = "short"
  ContentHeight <- MCContentHeight
  Click <- MCClick
  ClickYs <- MCClickYs
  Drags <- MCDrags
  WheelDeltas <- MCWheelDeltas
  Renderings = {TRUE}
INVARIANTS
  TypeOK
  ScrollInRange
  BarInStep
  ScreenCurrent
PROPERTY
  Repaints
