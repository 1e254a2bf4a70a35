SPECIFICATION Spec
CONSTANTS
  NoText = NoText
  Documents <- MCDocuments
  MaxItems = 2
  MaxFailures = 2
INVARIANTS
  FeedOwnsItsStrings
  FeedIsTimeline
