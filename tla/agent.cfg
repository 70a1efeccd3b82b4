SPECIFICATION FairSpec
CONSTANTS
  MaximumRounds = 2
  MaximumCalls = 3
  MaximumResultBytes = 5
  ResultSizes <- MCResultSizes
  ErrorSize = 1
  MaxMessages = 2
INVARIANTS
  EveryCallAnswered
  EffectsBounded
  FailureReplyIsHonest
  RefsUsedOnce
PROPERTIES
  EveryMessageEnds
