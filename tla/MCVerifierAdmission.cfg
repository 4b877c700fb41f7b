SPECIFICATION Spec
CONSTANTS
  WordMax = 3
  WideMax = 15
  Ceiling <- MCCeiling
  MinResourceBytes = 1
  MachineCandidates <- MCMachines
  VerifierCandidates <- MCVerifiers
  CostCandidates <- MCCosts
  Epochs = {0, 1, 2}
  Lengths = {0, 1, 2, 3}
INVARIANTS
  FirstFaultReported
  QuoteExact
  ReservationCovers
  AdmittedFitsMachine
