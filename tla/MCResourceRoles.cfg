SPECIFICATION FairSpec
CONSTANTS
  ResourceIds <- MCResourceIds
  Limit <- MCLimit
  CounterMax <- MCCounterMax
  Candidates <- MCCandidates
  NoId = NoId
INVARIANTS
  TypeOK
  AllocationAfterValidation
  WithinReservation
  AcceptedIsCanonical
  CounterBelowSaturation
  LookupExact
  OrdinalIsRank
PROPERTIES
  ImplementsPartition
  CallsReturn
CHECK_DEADLOCK FALSE
