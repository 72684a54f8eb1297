SPECIFICATION FairSpec
CONSTANTS
  MailboxIDs = {a, b}
  MessageIDs = {m1, m2, m3}
  MaxTotalPending = 3
  MaxPendingPerMailbox = 3
  Limits = {1}
  TTLs = {0, 1}
  Delays = {0}
  MaxNow = 2
  MaxTorn = 0
  First = a
  PollLimit = 1
  AckBatchMax = 2
  maxAckIDs = 2
  MaxStops = 1
  Watched = {m1}
INVARIANTS NothingLost 
PROPERTY EventuallyHandled
