SPECIFICATION Spec
CONSTANTS
  scan = scan  build = build  test = test  gate = gate
  sig1 = sig1  sig2 = sig2
  router = router  cli = cli  op = op
  NoOne = NoOne
  Node <- NodesFan
  Agent = {scan}  Loop = {build}  Command = {test}  Wait = {gate}
  Writer = {build}  Checked = {scan, build, test}  Timed = {gate}
  After <- AfterFan  Place <- PlaceFan  Parallel = 2  MaxTries <- TriesChain
  EventOf <- EventChain
  Signal = {sig1, sig2}  Malformed = {sig2}  EventName <- NamesChain  IdPlace <- IdsChain
  Driver = {router}  Router = router  Canceller = {op}
  HasDeadline = TRUE  HasNotify = TRUE  NeedsOutput = TRUE
  MaxFaults = 1
INVARIANTS WriterAlone OutcomeJustified
PROPERTIES KeepsPromise
