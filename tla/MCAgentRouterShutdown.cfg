CONSTANTS
  alice = alice
  bob = bob
  talk = talk
  help = help
  None = None
  Pids = {alice}
  Dests = {talk}
  Default = talk
  NumJobs = 2
  MaxLeft = 1
  MaxStops = 1
  MaxInterrupts = 0
  Kinds <- Calls
  Runtime = TRUE
  Acks = FALSE
  MayFail = TRUE
  MayIgnoreCancel = TRUE
SPECIFICATION Spec
PROPERTY EverythingEnds
CHECK_DEADLOCK FALSE
