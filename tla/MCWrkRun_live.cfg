SPECIFICATION FairSpec
CONSTANTS
  scan = scan  build = build  test = test  gate = gate
  sig1 = sig1  sig2 = sig2
  router = router  cli = cli  op = op
  NoOne = NoOne
  Node <- NodesChain
  Agent = {scan}  Loop = {build}  Command = {}  Wait = {gate}
  Writer = {build}  Checked = {scan, build}  Timed = {gate}
  After <- AfterChain  Place <- PlaceChain  Parallel = 2  MaxTries <- TriesChain
  EventOf <- EventChain
  Signal = {sig1}  Malformed = {}  EventName <- NamesChain  IdPlace <- IdsChain
  Driver = {router}  Router = router  Canceller = {op}
  HasDeadline = TRUE  HasNotify = TRUE  NeedsOutput = FALSE
  MaxFaults = 1
PROPERTIES DeadlineEnds CancelEffective OutcomeAnnounced
