CONSTANTS
  c1 = c1
  c2 = c2
  alice = alice
  bob = bob
  cam1 = cam1
  cam2 = cam2
  None = None
  Conns = {c1, c2}
  ConnIds <- OneIdSet
  IdOf <- OneId
  Pids = {alice}
  Tracks = {cam1}
  NumSlots = 2
  MaxFrames = 3
  MaxSess = 2
  MaxQueue = 2
  OrderedTeardown = FALSE
  SendMayBlock = TRUE
  MayRepeat = FALSE
  MayCrash = TRUE
SPECIFICATION Spec
INVARIANT HoldsAreLive
PROPERTY RefinesLatestFrame
CHECK_DEADLOCK FALSE
