SPECIFICATION Spec
CONSTANTS
  Tasks <- MCTasks
  Reminders <- Two
  TaskOf <- TwoTasks
  SchedOf <- TwoSched
  OwnerOf <- MCOwnerOf
  AllowLists <- MCAllowLists
  RetryDelay <- MCRetryDelay
  Lease = 1
  MissedAfter = 0
  ExpireAfter = 2
  BatchSize = 2
  SummaryMin = 2
  MaxTime = 3
  MaxFaults = 1
  MaxSlow = 1
  LastCommand = 2
INVARIANTS
  ClaimsHeld
  HandsInOrder
  OneAllowedRecipient
PROPERTIES
  PromiseKept
  NoMessageForInactiveTask
  UsesStore
