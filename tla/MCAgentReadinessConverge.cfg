CONSTANTS
  a1 = a1
  a2 = a2
  alice = alice
  bob = bob
  None = None
  Agents = {a1}
  Pids = {alice}
  AutoSub = {a1}
  Said <- BusyOrReady
  MaxSess = 1
  MaxSets = 2
  MaxChoices = 3
  MaxStarts = 1
  MaxTasks = 4
  MaxQueue = 3
  MayTimeout = FALSE
  MayStop = FALSE
  MayCrash = FALSE
SPECIFICATION Spec
PROPERTY RoomBecomesReady
CHECK_DEADLOCK FALSE
