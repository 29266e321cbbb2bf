SPECIFICATION Spec
CONSTANTS
  report = report
  note = note
  blank = blank
  telegram = telegram
  console = console
  shell = shell
  Notice <- BlankNotices
  Units <- BlankUnits
  Host = {console}
  Reader = {}
  BatchNotices = 8
  BatchUnits = 2
  MaxCommands = 0
  MaxFaults = 0
PROPERTIES DeliveredArchives
