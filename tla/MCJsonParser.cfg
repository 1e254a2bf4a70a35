SPECIFICATION Spec
CONSTANTS
  NoText = NoText
  Strings = {"s", "t"}
  Numbers = {}
  Literals = {"null"}
  MaxDepth = 2
  MaxText = 9
INVARIANTS
  OwnedOnce
  TreeIsText
  NullHasReason
