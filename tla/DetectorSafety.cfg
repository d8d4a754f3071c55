CONSTANTS
  Workers = {w1, w2}
  Cleaners = {}
  FailureCallers = {}
  Requests <- TwoTenants
  Second = 1
  Minute = 3
  Retention = 4
  MaxPerSecond = 1
  MaxPerMinute = 2
  Velocity = 9
  ProbeLimit = 1
  MaxTime = 4
  MaxCalls = 5
  SqlWords <- MCSqlWords
  XssWords <- MCXssWords
  BotWords <- MCBotWords
  TraversalWords <- MCTraversalWords
  MaxRequestSize = 2
  HeaderThreshold = 3
  Free = Free
  w1 = w1
  w2 = w2
SYMMETRY WorkerSymmetry
INVARIANTS AdmissionBound HistoryComplete ProbeFlagJustified
CHECK_DEADLOCK FALSE
SPECIFICATION Spec
