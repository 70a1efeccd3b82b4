SPECIFICATION OwnerSpec
CONSTANTS
  None = None
  Garbled = Garbled
  Day = 4
  Window = 2
  Zones <- MCZones
  Rows <- MCRows
  Refs = {1, 2}
  FirstNow = 4
  LastNow = 13
  UserZone <- MCBack
  Categories = {"home"}
  TagNames = {"a", "b"}
  EditedRows <- MCEditedRows
  Messages <- MCMessages
  Week = 3
  RemindZones <- MCRemindZones
  Nows <- MCNows
  Dates <- MCDates
  Instants <- MCInstants
INVARIANTS
  DeadlinesByDate
  PlannedByDay
  ListsAgree
  AnswerIsTheNextTime
  WarningIsTrue
  FlagsInAnyOrder
  EditingTwiceIsEditingOnce
  EditsDoWhatTheySay
PROPERTIES
  DeadlinesOnlyApproach
CHECK_DEADLOCK FALSE
