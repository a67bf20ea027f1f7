CONSTANTS
  Clients = {c1, c2}
  Calls <- MCCalls
  Loaded <- MCLoaded
  SingleProcess = FALSE
  MaxMessages = 2
SPECIFICATION FairSpec
INVARIANTS
  RepliesInOrder
  ToldBeforeReply
  ForwardedWhole
  StorageUnfinished
PROPERTIES
  GoneIsReleased
