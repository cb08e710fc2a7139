CONSTANTS
  Threads = {t1, t2}
  Projects <- MCProjects
  OddProject = "../Odd"
  Label <- MCLabel
  Words <- MCWords
  LineBreaks = {"two lines"}
  Objectives <- MCObjectives
  NoState = NoState
  BadState = BadState
  Explicits <- MCExplicits
  MaxEntries = 2
  MaxWrites = 3
  Menus <- MCMenus
  MaxEdits = 1
  MaxFaults = 1
  MaxSeconds = 1
SPECIFICATION Spec
SYMMETRY Symmetry
INVARIANTS
  TornAppendIsContained
  ForgetHolds
  InboxAllOrNothing
  LoopActsOnWhatWasShown
CHECK_DEADLOCK FALSE
