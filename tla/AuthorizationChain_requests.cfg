CONSTANTS
  SecretShaped <- Secrets
  NoClaim = NoClaim
  NoGrant = NoGrant
  Calls <- MCCalls
  Holders <- MCHolders
SPECIFICATION Spec
INVARIANTS
  VerdictIsExact
  
  RunsAreBacked
  PanelIsHonest
CHECK_DEADLOCK FALSE
