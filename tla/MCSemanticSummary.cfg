SPECIFICATION Spec
CONSTANTS
  Actions = {"a", "b", "c"}
  Tags = {1, 2, 3, 4, 5}
  Kinds = {"x", "y"}
  Empty = ""
  Candidates <- MCCandidates
  MaxHeld = 5
INVARIANTS
  FlatUnion
  GroupingIrrelevant
  RefusalJustified
CHECK_DEADLOCK FALSE
