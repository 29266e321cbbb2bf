CONSTANTS
  report = report
  Run = {1, 2}
  Schedule = {report}
  For <- MCFor
  Skip = {report}
  Host = {service}
  Cli = {byhand}
  Worker = {1, 2}
  Other = Other
  Helper = Helper
  NoOne = NoOne
  MaxFaults = 1
SPECIFICATION Spec
INVARIANTS SkipAlone ClockOwned DoneIsDelivered
PROPERTIES RowSettles RunsAreBeaten
CHECK_DEADLOCK FALSE
