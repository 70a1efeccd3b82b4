SPECIFICATION FairSpec
CONSTANTS
  Creators = {c1, c2, c3}
  MaxItems = 4
  MaxStops = 2
INVARIANTS
  OnlyOverlapsRefuse
PROPERTIES
  CreationsGetThrough
CHECK_DEADLOCK FALSE
