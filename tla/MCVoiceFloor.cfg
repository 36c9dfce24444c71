CONSTANTS
  Replies = {1, 2, 3}
  Urgents = {4, 5}
  Updates = {6, 7, 8}
  Streamed = {1, 3}
  RequestOf <- MCRequestOf
  SourceOf <- MCSourceOf
  UpdateCapacity = 2
  InterruptOnSupersede = FALSE
  MaxFragments = 1
  MaxInputs = 4
  None = None
SPECIFICATION Spec
CHECK_DEADLOCK FALSE
INVARIANT TypeOK
INVARIANT OneVoice
INVARIANT SentencesDoNotMix
INVARIANT HeardAtMostOnce
INVARIANT UrgentInOrder
INVARIANT SupersededIsSilent
INVARIANT UpdatesGiveWay
PROPERTY FloorDrains
