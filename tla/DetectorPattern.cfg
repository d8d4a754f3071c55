CONSTANTS
  Workers = {w1}
  Cleaners = {}
  FailureCallers = {}
  Requests <- OneSource
  Second = 1
  Minute = 2
  Retention = 4
  MaxPerSecond = 1
  MaxPerMinute = 1
  Velocity = 9
  ProbeLimit = 1
  MaxTime = 4
  MaxCalls = 3
  SqlWords <- MCSqlWords
  XssWords <- MCXssWords
  BotWords <- MCBotWords
  TraversalWords <- MCTraversalWords
  MaxRequestSize = 2
  HeaderThreshold = 3
  Free = Free
  w1 = w1
INVARIANTS CleanRequestPasses
CHECK_DEADLOCK FALSE
SPECIFICATION Spec
