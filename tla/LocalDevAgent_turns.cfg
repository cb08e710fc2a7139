CONSTANTS
  Timeout = 2
  MaxPolls = 1
  MaxWorks = 2
  MaxClock = 0
  MaxMisrouted = 0
  MaxRounds = 2
  MaxPerRound = 2
  MaxTotal = 3
  MaxHistory = 1
  MaxAsks = 2
SPECIFICATION AgentFairSpec
INVARIANTS
  AgentTypeOK
  OneRunPerAsk
  ResultsAreHonest
  HistoryIsAnswered
PROPERTIES
  AskEnds
CHECK_DEADLOCK FALSE
