SPECIFICATION Bounded
CONSTANTS
  Room = 3
  Sizes = {1, 2, 3}
  BacklogMax = 9
PROPERTIES
  OutputFlows
  Drains
