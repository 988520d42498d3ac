CONSTANTS
  Clients = {c1, c2}
  NoClient = NoClient
  MaxOpen = 2
  kWarmUpSteps = 1
  MaxEpisode = 2
  kMaxResetWaitSecs = 1
SPECIFICATION Spec
INVARIANT
  SentToOpenConnection
