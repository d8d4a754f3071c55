CONSTANTS
  Workers = {w1}
  Cleaners = {c1}
  FailureCallers = {w1}
  Requests <- OneSource
  Second = 1
  Minute = 2
  Retention = 2
  MaxPerSecond = 1
  MaxPerMinute = 1
  Velocity = 9
  ProbeLimit = 9
  MaxTime = 4
  MaxCalls = 3
  SqlWords <- MCSqlWords
  XssWords <- MCXssWords
  BotWords <- MCBotWords
  TraversalWords <- MCTraversalWords
  MaxRequestSize = 2
  HeaderThreshold = 3
  Free = Free
  w1 = w1
  c1 = c1
INVARIANTS HistoryComplete
CHECK_DEADLOCK FALSE
SPECIFICATION Spec
