CONSTANTS
  NTopics = 2
  Period = 1
  Devices = {"booted"}
  MaxStops = 1
  Workers = {w1, w2}
  Addresses = {a1, a2}
  MaxChanges = 2
SPECIFICATION MCControllerSpec
INVARIANTS
  StateMatchesNetwork
PROPERTIES
  PublishedFollows
  EndsUnlessHeld
  EveryControllerAdvertized
  EveryEndAdvertized
