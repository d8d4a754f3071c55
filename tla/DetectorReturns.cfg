CONSTANTS
  Workers = {w1, w2}
  Cleaners = {c1}
  FailureCallers = {w2}
  Requests <- OneSource
  Second = 1
  Minute = 1
  Retention = 1
  MaxPerSecond = 1
  MaxPerMinute = 1
  Velocity = 9
  ProbeLimit = 9
  MaxTime = 0
  MaxCalls = 2
  SqlWords <- MCSqlWords
  XssWords <- MCXssWords
  BotWords <- MCBotWords
  TraversalWords <- MCTraversalWords
  MaxRequestSize = 2
  HeaderThreshold = 3
  Free = Free
  w1 = w1
  w2 = w2
  c1 = c1
INVARIANTS TypeOK
PROPERTIES DetectReturns
CHECK_DEADLOCK FALSE
SPECIFICATION FairSpec
