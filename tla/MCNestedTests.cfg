SPECIFICATION Spec
CONSTANTS
  Classes <- MCClasses
  PathOrder <- MCPathOrder
  Sources <- MCSources
  FocusedTests <- MCFocusedTests
  Designs <- MCDesigns
  ReportPaths <- MCReportPaths
  Symlinks = {}
  RequiredPatterns <- MCRequired
  InitialTrees <- MCInitialTrees
  MaxEdits = 2
  MaxExceptions = 2
  NoPath = "none"
INVARIANTS
  ExcellentLeavesNoTrigger
