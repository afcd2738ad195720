CONSTANTS
  Requests = {"a", "b"}
  EXPORT_SLOTS = 1
  BODY_CHUNKS = 2
  MaxFinalized = 2
SPECIFICATION FairDelivery
\* Once every download has ended and the last version is finalized the server rests.
CHECK_DEADLOCK FALSE
INVARIANTS
  WholeIsComplete
PROPERTIES
  SlotsComeBack
