SPECIFICATION BindingSpec
CONSTANTS
  ResourceIds <- MCResourceIds
  Limit <- MCLimit
  Candidates <- MCPartitions
  CounterMax = 3
  Wires <- MCWires
  Digest <- MCDigest
  Partitions <- MCPartitions
  MaxBodies = 2
  MaxBound = 2
INVARIANTS
  FirstFailureReported
  OnlyValidBodies
  NoSubstitution
  PlacementUnique
CHECK_DEADLOCK FALSE
