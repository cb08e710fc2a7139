CONSTANTS
  Threads = {t1, t2}
  Clients = {c1}
  Permanent = Permanent
  Wrong = Wrong
  FailureLimit = 1
  Window = 1
  SessionTtl = 1
  PairTtl = 1
  Operations = {"api", "exchange", "revoke"}
  MaxPairs = 2
  MaxSessions = 2
  MaxFailures = 3
  MaxClock = 1
SPECIFICATION Spec
SYMMETRY Interchangeable
INVARIANTS
  TypeOK
  SessionsStayOut
  PairTokenStaysSpent
CHECK_DEADLOCK FALSE
