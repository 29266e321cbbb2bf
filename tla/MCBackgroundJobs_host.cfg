SPECIFICATION FairSpec
CONSTANTS
  build = build  fetch = fetch  telegram = telegram
  home = home  group = group
  Job = {build, fetch}  Home <- HomeOne  Parent <- RoomsOne  Room = {home, group}
  Host = {telegram}  Recoverer = telegram
  Cap = 1  CanReExec = TRUE  Pid = {1, 2}
  MaxImages = 2  MaxCrashes = 1  MaxErrors = 1
INVARIANTS DuplicateNeedsFault StoreQuiet
PROPERTIES KeepsPromise LossReported
CHECK_DEADLOCK FALSE
