SPECIFICATION MCSpec
CONSTANTS
  s1 = s1
  s2 = s2
  Phones = {s1, s2}
  Personas = {p}
  Unbound = Unbound
  Period = 2
  Phase <- MCPhase
  PreKeyTTL = 3
  OfferTTL = 2
  LinkTTL = 1
  MaxPreKeys = 2
  MaxTime = 4
  MaxRequests = 2
  MaxOffers = 2
INVARIANT ValidRequestApproved
CHECK_DEADLOCK FALSE
