SPECIFICATION Spec
CONSTANTS
  Tasks <- One
  Reminders <- One
  TaskOf <- OneTask
  SchedOf <- OneSched
  OwnerOf <- OneOwner
  AllowLists <- MCAllowLists
  RetryDelay <- MCRetryDelay
  Lease = 2
  MissedAfter = 0
  ExpireAfter = 2
  BatchSize = 1
  SummaryMin = 2
  MaxTime = 10
  MaxFaults = 2
  MaxSlow = 1
  LastCommand = 2
INVARIANT
  RetryCountCountsAttempts
