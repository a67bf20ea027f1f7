CONSTANTS
  NTopics = 1
  Period = 1
  Devices = {"no"}
  MaxStops = 0
  Workers = {w1}
  Addresses = {a1}
  MaxChanges = 0
SPECIFICATION ControllerFairSpec
PROPERTIES
  EveryBusServes
