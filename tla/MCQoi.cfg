SPECIFICATION Spec
CONSTANTS
  Pictures <- MCPictures
  Lost <- MCLost
INVARIANTS
  PictureSurvives
  StreamFits
