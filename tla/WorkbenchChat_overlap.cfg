CONSTANTS
  t1 = t1  t2 = t2  c1 = c1  c2 = c2  c3 = c3  c4 = c4  c5 = c5  c6 = c6
  Threads = {t1, t2}
  Ids = {c1, c2, c3, c4, c5, c6}
  NoId = NoId
  Operations = {"create", "chat"}
  Lengths = {2}
  MaxSessions = 2
  MaxExchanges = 2
  MaxChars = 6
  ModelExchanges = 2
  ModelChars = 6
  MaxExchange = 4
  MaxTurns = 2
  MaxRestarts = 0
SPECIFICATION ChatSpec
INVARIANTS
  NewStartsEmpty
