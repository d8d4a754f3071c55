CONSTANTS
  Workers = {w1}
  Cleaners = {}
  FailureCallers = {}
  Requests <- TwoTenants
  Second = 1
  Minute = 3
  Retention = 4
  MaxPerSecond = 1
  MaxPerMinute = 1
  Velocity = 2
  ProbeLimit = 9
  MaxTime = 2
  MaxCalls = 6
  SqlWords <- MCSqlWords
  XssWords <- MCXssWords
  BotWords <- MCBotWords
  TraversalWords <- MCTraversalWords
  MaxRequestSize = 2
  HeaderThreshold = 3
  Free = Free
  w1 = w1
INVARIANTS VelocityEnforced
CHECK_DEADLOCK FALSE
SPECIFICATION Spec
