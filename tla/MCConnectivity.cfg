SPECIFICATION MCSpec
CONSTANTS
  N = 2
  Switchers = {s1, s2}
  MaxCalls = 3
  MaxFailures = 2
  Cancels = TRUE
  MaxDeaths = 1
  Boxes = {1, 2}
  MaxTotal = 2
  MaxPerPeer = 2
  MaxClass <- MCMaxClass
  ClassWeight <- MCMaxClass
  Shapes <- MCShapes
  Limit = 2
  DrainMax = 2
  MaxInboundMsgs = 2
  PenaltyBase = 1
  PenaltyMax = 2
  RecentMsgTTL = 1
  MaxPublished = 2
  MaxAckFailures = 1
  InitialScore = 10
  MinScore = 0
  QuarantineBase = 1
  QuarantineMax = 2
  QuarantineAfterRejects = 2
  SybilWarmupApplied = 1
  MaxInventorySize = 9
  MaxHeadsPerRound = 9
  MaxWantsPerRound = 9
  InventoryEchoThreshold = 2
  InventoryClusterThreshold = 3
  RelayMaxInbound = 2
  AgentMaxInbound = 2
  ColdMaxInbound = 1
  NoDigest = NoDigest
INVARIANTS KillSwitchHolds SettlesClosed AckedAccounted
  
CHECK_DEADLOCK FALSE
