SPECIFICATION FairSpec
CONSTANTS
  Tasks <- MCTasks
  Reminders <- Two
  TaskOf <- TwoTasks
  SchedOf <- TwoSched
  OwnerOf <- AnnOnly
  AllowLists <- MCAllowAll
  RetryDelay <- MCRetryDelay
  Lease = 2
  MissedAfter = 0
  ExpireAfter = 2
  BatchSize = 1
  SummaryMin = 2
  MaxTime = 9
  MaxFaults = 1
  MaxSlow = 0
  LastCommand = 1
PROPERTIES
  LeaseReleased
  EventuallySettled
