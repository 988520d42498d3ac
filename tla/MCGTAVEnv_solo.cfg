CONSTANTS
  Clients = {c1, c2}
  NoClient = NoClient
  MaxOpen = 1
  kWarmUpSteps = 1
  MaxEpisode = 2
  kMaxResetWaitSecs = 1
SPECIFICATION FairSpec
INVARIANT
  OneLostMessage
PROPERTIES
  DoneIsTold
  AbandonedCarStops
