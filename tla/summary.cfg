SPECIFICATION Spec
CONSTANTS
  Tasks <- MCTasks
  Reminders <- Two
  TaskOf <- TwoTasks
  SchedOf <- TwoSched
  OwnerOf <- AnnOnly
  AllowLists <- MCAllowAll
  RetryDelay <- MCRetryDelay
  Lease = 1
  MissedAfter = 0
  ExpireAfter = 2
  BatchSize = 2
  SummaryMin = 2
  MaxTime = 3
  MaxFaults = 1
  MaxSlow = 2
  LastCommand = 1
INVARIANTS
  DeliveriesAccounted
  NoStaleFirstAttempt
