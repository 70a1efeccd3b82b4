SPECIFICATION Spec
CONSTANTS
  None = None
  Garbled = Garbled
  Day = 4
  UserZone <- MCZone
  Categories = {}
  TagNames = {"a"}
  Bots = {b1, b2}
  Rows <- MCRows
  Commands <- MCCommands
  MaxLog = 4
SYMMETRY BotSymmetry
INVARIANTS
  NoEditDiesOnACheck
  RepeatsBounded
CHECK_DEADLOCK FALSE
