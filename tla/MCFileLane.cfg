CONSTANTS
  alice = alice
  bob = bob
  None = None
  Pids = {alice, bob}
  MaxFiles = 2
  MaxSess = 2
  MaxVisits = 3
  MaxQueue = 1
  Hwm = 1
  MayExpire = TRUE
  MayForget = TRUE
SPECIFICATION Spec
INVARIANT TypeOK
INVARIANT PublishedInOrder
INVARIANT WaitsForJoinOnly
PROPERTY PublishedInSession
PROPERTY FilesArrive
CHECK_DEADLOCK FALSE
