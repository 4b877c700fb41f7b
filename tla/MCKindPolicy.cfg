SPECIFICATION Spec
CONSTANTS
  WordMax = 1
  WideMax = 3
  Policies <- MCPolicies
  Units = {"unit", "other"}
  Quantities <- MCQuantities
INVARIANTS
  AgreesWithRfc0003
  AdmitsExactly
  NarrowsLifecycleOnly
