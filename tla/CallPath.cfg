SPECIFICATION FairSpec
CONSTANTS
  p1 = p1
  p2 = p2
  c1 = c1
  c2 = c2
  k1 = k1
  k2 = k2
  k3 = k3
  alice = alice
  bob = bob
  None = None
  Torn = Torn
  Processes = {p1, p2}
  Calls = {c1, c2}
  Connections = {k1, k2, k3}
  ProcessOf <- MCProcessOf
  KeyOf <- MCKeyOf
  Homes <- MCHomes
  Lifetime = 2
  MinTTL = 1
  ExpiryDelta = 0
  MaxTime = 2
  MaxConcurrent = 1
  MaxAttempts = 2
  Limits = {60}
  Deadline = {c2}
  MaxEnded = 1
  MaxCrashes = 1
INVARIANTS
  IInv
  SlotsCounted
  MutexHeld
  OwnTokens
  SuccessReported
PROPERTIES
  AllReturn
CHECK_DEADLOCK FALSE
