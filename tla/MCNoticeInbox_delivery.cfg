SPECIFICATION FairSpec
CONSTANTS
  report = report
  note = note
  blank = blank
  telegram = telegram
  console = console
  shell = shell
  Notice <- TwoNotices
  Units <- ChunkedUnits
  Host <- TwoHosts
  Reader <- OneReader
  BatchNotices = 2
  BatchUnits = 2
  MaxCommands = 2
  MaxFaults = 1
PROPERTIES KeepsPromise ClearsOnlySaved NoNeedlessRepeat Reviewed
CHECK_DEADLOCK FALSE
