SPECIFICATION MCSpec
CONSTANTS
  p1 = p1
  p2 = p2
  m1 = m1
  alice = alice
  bob = bob
  carol = carol
  NoOne = NoOne
  s1 = s1
  s2 = s2
  Unbound = Unbound
  host = host
  guest = guest
  People = {alice, bob, carol}
  Befriended <- MCBefriended
  Devices = {1, 2}
  Limit = 1
  MaxBackoff = 2
  OutboxTTL = 2
  MaxSeq = 2
  MaxBatches = 2
  LogTime = 2
  MaxRetries = 1
  Phones = {s1, s2}
  Personas = {persona}
  Period = 2
  Phase <- MCPhase
  PreKeyTTL = 3
  OfferTTL = 2
  LinkTTL = 1
  MaxPreKeys = 2
  PhoneTime = 4
  LinkRequests = 2
  MaxOffers = 2
  Members = {host, guest}
  MaxUsesChoices = {0, 1}
  InviteTTL = 2
  RequestTTL = 1
  ApprovalTTL = 2
  RevocationTTL = 2
  Hour = 1
  MaxPerHour = 1
  CommTime = 2
  MaxInvites = 1
  MaxRequests = 2
  MaxApprovals = 2
  MaxRevocations = 1
  MaxApplied = 2
  MaxCalls = 5
  FaultyCalls = 3
  MaxLosses = 1
  Peers = {p1, p2}
  Msgs = {m1}
  MaxTotal = 4
  MaxPerPeer = 4
  MaxClass <- MCMaxClass
  ClassWeight <- MCClassWeight
SYMMETRY Symmetry
INVARIANTS SchedulerInv ChatInv JoinedAgree CausalLamport CursorIsPrefix
           OfferHonoured LinkedInTime  JoinRateKept
PROPERTIES CriticalNeverEvicted BoundedBypass
CHECK_DEADLOCK FALSE
