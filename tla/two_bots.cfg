SPECIFICATION Spec
CONSTANTS
  Tasks <- One
  Reminders <- One
  TaskOf <- OneTask
  SchedOf <- OneSched
  OwnerOf <- OneOwner
  AllowLists <- MCAllowLists
  RetryDelay <- MCRetryDelay
  Lease = 1
  MissedAfter = 0
  ExpireAfter = 2
  BatchSize = 1
  SummaryMin = 2
  MaxTime = 3
  MaxFaults = 1
  MaxSlow = 2
  LastCommand = 1
INVARIANTS
  OneLeaseHolder
  DuplicatesBounded
