SPECIFICATION BootSpec
CONSTANTS
  MaxRealPosts = 2
  MaxItems = 3
  MockPhotos <- MCMockPhotos
  Messages <- MCMessages
  RequestSize = 3
  InitialCap = 2
INVARIANTS
  TypeOK
  NothingLeaks
  HeldWhenUsed
  BufferBounds
  BodyIsPrefix
  FewTimeouts
  BootReleasesAll
  PhotosDecoded
  OnlyGoodBodies
  BootDelayBounded
PROPERTIES
  ImplementsFetch
  ImplementsBoot
