CONSTANTS
  c1 = c1
  c2 = c2
  alice = alice
  bob = bob
  cam1 = cam1
  cam2 = cam2
  None = None
  Conns = {c1, c2}
  ConnIds <- TwoIdSet
  IdOf <- TwoIds
  Pids = {alice}
  Tracks = {cam1, cam2}
  NumSlots = 2
  MaxFrames = 3
  MaxSess = 2
  MaxQueue = 2
  OrderedTeardown = FALSE
  SendMayBlock = FALSE
  MayRepeat = TRUE
  MayCrash = FALSE
SPECIFICATION Spec
SYMMETRY Symmetry
INVARIANT HeldFrameStable
INVARIANT OneHolderPerSlot
PROPERTY LiveSessionsStay
CHECK_DEADLOCK FALSE
