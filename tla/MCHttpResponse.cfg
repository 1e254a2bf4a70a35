SPECIFICATION FairSpec
CONSTANTS
  Bytes <- MCBytes
  Hex <- MCHex
  LongRange = 256
  Messages <- MCMessages
  Letters = {"one", "lf", "text"}
  MaxBody = 3
  MaxNoise = 5
INVARIANTS
  StaysInBuffers
  HoldsWhatItShows
  BodyIsSent
PROPERTIES
  Returns
