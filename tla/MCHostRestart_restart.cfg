SPECIFICATION Spec
CONSTANTS
  MaxHosts = 3
  MaxReceipts = 2
INVARIANTS CompletedFounded
PROPERTY RestartConfirmed
