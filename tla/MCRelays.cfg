SPECIFICATION MCSpec
CONSTANTS
  MailboxIDs = {a, b}
  MessageIDs = {m1, m2, m3, m4}
  MaxTotalPending = 3
  MaxPendingPerMailbox = 2
  Limits = {1, 2}
  TTLs = {0, 1}
  Delays = {0, 1}
  MaxNow = 2
  MaxMemoryNow = 3
  MaxMemoryMessages = 3
  MaxTorn = 1
SYMMETRY Symmetry
INVARIANT StoreConsistent
 
