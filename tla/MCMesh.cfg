SPECIFICATION MeshSpec
CONSTANTS
  x = x
  y = y
  z = z
  Nodes = {x, y, z}
  Links <- MCLinks
  Senders = {x}
  Chunks = 2
  MaxHop = 1
  CacheMaxItems = 1
  InventoryMax = 1
  WantMax = 1
  BucketDuration = 2
  Buckets = 2
  TTL = 3
  StaleAfter = 1
  Never = Never
  MaxMessages = 2
  MaxLosses = 1
  MaxTime = 3
  Role <- MCRole
  Askers = {x}
  Writers = {y}
  Start <- MCStart
  MaxHave = 9
  MaxWant = 2
  MaxEvents = 2
  MaxPeersPerRound = 2
  MaxRelaysPerRound = 1
  MaxAgentsPerRound = 1
  MaxSeq = 3
  InitialScore = 10
  MinScore = 0
  QuarantineBase = 1
  QuarantineMax = 2
  QuarantineAfterRejects = 2
  SybilWarmupApplied = 1
  MaxInventorySize = 9
  MaxHeadsPerRound = 9
  MaxWantsPerRound = 9
  InventoryEchoThreshold = 2
  InventoryClusterThreshold = 3
  RelayMaxInbound = 2
  AgentMaxInbound = 2
  ColdMaxInbound = 1
  NoDigest = NoDigest
INVARIANT DeliveredOnce
  
CHECK_DEADLOCK FALSE
