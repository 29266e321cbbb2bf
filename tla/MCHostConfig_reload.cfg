SPECIFICATION Spec
CONSTANTS
  s1 = s1 s2 = s2
  boot = boot edited = edited moved = moved keyless = keyless broken = broken
  person = person none = none
  Session <- MCSession
  Text <- MCText
  Valid <- MCValid
  Keyed <- MCKeyed
  Fixed <- MCFixed
  Boot <- boot
  Person <- person
  None <- none
INVARIANTS NextTurnPublished ToolsKept OnlyChecked OneGeneration
PROPERTIES ReloadAnswers
