CONSTANTS
  k1 = k1  k2 = k2  h1 = h1  h2 = h2  r1 = r1  r2 = r2  r3 = r3  r4 = r4  d1 = d1
  Keys = {k1, k2}
  Hashes = {h1, h2}
  Requests = {r1, r2, r3, r4}
  KeyOf <- Keyed
  HashOf <- Hashed
  Capacity = 1
  MaxDispatch = 2
  Deliveries = {d1}
  MaxSend = 3
  MaxLeases = 4
SPECIFICATION FairSpec
ACTION_CONSTRAINT OneHalf
INVARIANTS TypeOK AdmittedOnce InFlightExact DeadLettersUsedTheirAttempts SendsBounded
PROPERTIES DeliveryEnds
CHECK_DEADLOCK FALSE
