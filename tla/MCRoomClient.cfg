CONSTANTS
  alice = alice
  bob = bob
  None = None
  Pids = {alice}
  MaxVisits = 2
  MaxChunks = 2
  Lens = {1, 2}
  MaxBuffer = 2
  Room = 0
  MaxFlushes = 1
  MaxFiles = 1
  MaxConcurrent = 1
  MaxPer = 1
  MayStop = TRUE
SPECIFICATION Spec
INVARIANT TypeOK
INVARIANT OwnTrackOnly
INVARIANT NoFileAfterDeparture
INVARIANT EndpointFollowsRoom
PROPERTY FlushSilences
PROPERTY StaleTracksGo
PROPERTY BacklogDrains
CHECK_DEADLOCK FALSE
