SPECIFICATION Spec
CONSTANTS
  Workspaces <- MCWorkspaces
  Policies <- MCPolicies
  Registries <- MCRegistries
  Arguments <- MCArguments
  Writable <- MCWritable
  CryptoNames = {"sha2"}
  MaxEdits = 2
INVARIANTS
  LockedComponents
  NothingUnreviewed
  PairAgrees
