CONSTANTS
  Calls = {c1, c2}
  Tasks <- TwoIds
  HandMade <- Unusual
  Requests <- Listed
  Commands = {"diff", "check", "stat", "publish", "quote"}
  Allowed = {"diff", "check", "stat"}
  Unsplit = {"quote"}
  CommandLimit = 2
  Missing = Missing
  Empty = Empty
  Broken = Broken
  None = None
  MaxFaults = 1
  MaxKills = 1
  MaxEdits = 1
SPECIFICATION Spec
INVARIANTS
  TypeOK
  RunsWereReviewed
  UndisturbedRunsItsTask
  ResultsMatchRuns
SYMMETRY Interchangeable
CHECK_DEADLOCK FALSE
