SPECIFICATION FairSpec
CONSTANTS
  Processes <- MCProcesses
  Items <- MCOneTask
  KindOf <- MCKindOfOne
  CreatedAt <- MCCreatedAtOne
  TelegramIds <- MCTelegramIds
  AllowLists <- MCAllowListsLive
  MaxStops = 1
PROPERTIES
  ComesUpAfterPowerLoss
