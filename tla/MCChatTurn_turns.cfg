CONSTANTS
  s1 = s1
  n1 = n1
  Steer <- Steers
  Notice <- Notices
  Blank <- Blanks
  MaxTurns = 2
  MaxRounds = 1
  MaxCalls = 2
  MaxSessions = 2
  MaxFaults = 1
SPECIFICATION Spec
INVARIANTS RequestValid StoredPaired ResumeSeesAll GoneIsEmpty
PROPERTY CloseReturns
CHECK_DEADLOCK FALSE
