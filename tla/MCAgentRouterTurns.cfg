CONSTANTS
  alice = alice
  bob = bob
  talk = talk
  help = help
  None = None
  Pids = {alice}
  Dests = {talk, help}
  Default = talk
  NumJobs = 2
  MaxLeft = 1
  MaxStops = 0
  MaxInterrupts = 1
  Kinds <- Tasks
  Runtime = TRUE
  Acks = TRUE
  MayFail = TRUE
  MayIgnoreCancel = TRUE
SPECIFICATION Spec
INVARIANT TypeOK
INVARIANT OneTurnAtATime
INVARIANT OwnersAreKnown
INVARIANT DepartureLeavesNothing
INVARIANT ShownInOrder
PROPERTY OnlyTheCurrentTurnDecides
CHECK_DEADLOCK FALSE
