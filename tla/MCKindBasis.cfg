SPECIFICATION BasisSpec
CONSTANTS
  ResourceKinds = {1, 2, 3}
  Generator = "G"
  SymbolOf <- MCSymbolOf
  Bases <- MCBases
  Deltas <- MCDeltas
  Blindings <- MCBlindings
  ProofIds = {"proof", ""}
  NoProof = ""
INVARIANTS
  PointIsDelta
  CertifiedRootBinds
