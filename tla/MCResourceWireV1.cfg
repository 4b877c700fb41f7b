SPECIFICATION Spec
CONSTANTS
  Base = 256
  Magic <- MCMagic
  SchemaVersion = 1
  ObjectTag = 1
  ShortWidth = 2
  LengthWidth = 4
  Fields <- MCFields
  MaxResourceBytes = 16384
  AbsentExpiryBytes = 595
  PresentExpiryBytes = 603
  Resources <- MCResources
  AllResources <- MCResources
  WireForms <- MCWireForms
  Damage <- MCDamage
INVARIANTS
  WithinReservation
  StopsAtFirstDefect
CHECK_DEADLOCK FALSE
