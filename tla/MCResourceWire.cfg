SPECIFICATION Spec
CONSTANTS
  Base = 3
  Magic <- MCMagic
  SchemaVersion = 1
  ObjectTag = 1
  ShortWidth = 2
  LengthWidth = 2
  Fields <- MCFields
  MaxResourceBytes = 32
  AbsentExpiryBytes = 29
  PresentExpiryBytes = 30
  Resources <- MCResources
  AllResources <- MCAllResources
  WireForms <- MCWireForms
  Damage <- MCDamage
INVARIANTS
  CanonicalPrefix
  StopsAtFirstDefect
PROPERTIES
  ImplementsCodec
CHECK_DEADLOCK FALSE
