SPECIFICATION FairSpec
CONSTANTS
  Processes <- MCProcesses
  Items <- MCItems
  KindOf <- MCKindOf
  CreatedAt <- MCCreatedAt
  TelegramIds <- MCTelegramIds
  AllowLists <- MCAllowLists
  MaxStops = 1
INVARIANTS
  PollingMeansReady
  NextReferenceIsFree
  OnlyStopsTear
  NoBindingConflict
PROPERTIES
  ReferencesAreStable
  ComesUp
