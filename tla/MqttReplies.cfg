CONSTANTS
  Request = {r1, r2, r3}
  Malformed = {r3}
  Query = {q1}
  CLEAR_RETAIN_PERIOD = 1
  Prompt = TRUE
  MaxStops = 1
SPECIFICATION FairSpec
INVARIANTS
  RetainedAccounted
  OneReply
PROPERTIES
  EveryRequestAnswered
  PublishedIsDelivered
