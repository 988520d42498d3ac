CONSTANTS
  kEndDistance = 2
  kMaxSecondsNoProgress = 2
  MaxDistance = 5
  GetRewardIsShort = TRUE
  MaxFelt = 1
  MaxCharged = 1
  Limit <- MCLimit
SPECIFICATION MCSpec
INVARIANT
  NothingChargedTwice
