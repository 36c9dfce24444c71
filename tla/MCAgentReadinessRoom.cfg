CONSTANTS
  a1 = a1
  a2 = a2
  alice = alice
  bob = bob
  None = None
  Agents = {a1}
  Pids = {alice, bob}
  AutoSub = {a1}
  Said <- ReadyOnly
  MaxSess = 1
  MaxSets = 1
  MaxChoices = 3
  MaxStarts = 1
  MaxTasks = 2
  MaxQueue = 3
  MayTimeout = FALSE
  MayStop = FALSE
  MayCrash = FALSE
SPECIFICATION Spec
INVARIANT ReadyIsRoutable
CHECK_DEADLOCK FALSE
