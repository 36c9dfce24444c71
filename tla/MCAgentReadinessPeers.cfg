CONSTANTS
  a1 = a1
  a2 = a2
  alice = alice
  bob = bob
  None = None
  Agents = {a1, a2}
  Pids = {alice}
  AutoSub = {a1}
  Said <- ReadyOnly
  MaxSess = 1
  MaxSets = 2
  MaxChoices = 1
  MaxStarts = 1
  MaxTasks = 1
  MaxQueue = 2
  MayTimeout = TRUE
  MayStop = TRUE
  MayCrash = TRUE
SPECIFICATION Spec
INVARIANT TypeOK
INVARIANT PublishedIsAggregate
CHECK_DEADLOCK FALSE
