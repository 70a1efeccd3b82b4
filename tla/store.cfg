SPECIFICATION StoreSpec
CONSTANTS
  Tasks <- MCTasks
  Reminders <- MCReminders
  TaskOf <- MCTaskOf
  SchedOf <- MCSchedOf
  OwnerOf <- MCOwnerOf
  RetryDelay <- MCRetryDelay
  Lease = 1
  MissedAfter = 0
  ExpireAfter = 2
  BatchSize = 1
  SummaryMin = 1
  MaxTime = 5
INVARIANTS
  ActiveSlotUnique
  RetryAccounting
  NothingEarly
  InactiveTaskHasNoFutureReminder
