CONSTANTS
  t1 = t1  t2 = t2  t3 = t3  c1 = c1  c2 = c2  c3 = c3
  Threads = {t1, t2, t3}
  Ids = {c1, c2}
  NoId = NoId
  Operations = {"create", "inspect", "reset", "chat"}
  Lengths = {3, 4}
  MaxSessions = 2
  MaxExchanges = 2
  MaxChars = 6
  ModelExchanges = 2
  ModelChars = 6
  MaxExchange = 4
  MaxTurns = 3
  MaxRestarts = 1
SPECIFICATION Spec
INVARIANTS
  TypeOK
  BusyMeansOneTurn
PROPERTIES
  LatestKept
  AbstractSpec
SYMMETRY Interchangeable
