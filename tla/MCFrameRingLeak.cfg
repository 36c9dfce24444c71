CONSTANTS
  c1 = c1
  c2 = c2
  alice = alice
  bob = bob
  cam1 = cam1
  cam2 = cam2
  None = None
  Conns = {c1}
  ConnIds <- OneIdSet
  IdOf <- OneId
  Pids = {alice}
  Tracks = {cam1}
  NumSlots = 2
  MaxFrames = 2
  MaxSess = 2
  MaxQueue = 4
  OrderedTeardown = FALSE
  SendMayBlock = FALSE
  MayRepeat = FALSE
  MayCrash = FALSE
SPECIFICATION Spec
INVARIANT SlotsAccounted
CHECK_DEADLOCK FALSE
