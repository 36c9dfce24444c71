CONSTANTS
  c1 = c1
  c2 = c2
  alice = alice
  bob = bob
  cam1 = cam1
  cam2 = cam2
  None = None
  Conns = {c1}
  ConnIds <- OneIdSet
  IdOf <- OneId
  Pids = {alice}
  Tracks = {cam1, cam2}
  NumSlots = 3
  MaxFrames = 5
  MaxSess = 3
  MaxQueue = 4
  OrderedTeardown = TRUE
  SendMayBlock = FALSE
  MayRepeat = FALSE
  MayCrash = FALSE
SPECIFICATION Spec
INVARIANT TypeOK
INVARIANT SlotsAccounted
PROPERTY WrittenFramesAreShown
PROPERTY FullRingDrains
CHECK_DEADLOCK FALSE
