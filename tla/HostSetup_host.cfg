CONSTANTS
  Callers = {c1, c2}
  DailyDocuments <- MCDailyDocuments
  ModelDocuments <- MCModelDocuments
  KeyFiles = {"k1", "k2"}
  NoImage = NoImage
  Environments <- MCEnvironments
  None = None
  Menus <- MCMenus
  MaxFaults = 1
SPECIFICATION Spec
SYMMETRY Symmetry
INVARIANTS
  ConfigIsOldOrNew
  KeyIsKept
  SandboxIsRestored
  ReportIsBacked
CHECK_DEADLOCK FALSE
