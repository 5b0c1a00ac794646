\* What the contract says of work that is not for the newest snapshot.
CONSTANTS
  EditLimit = 2
  RefreshLimit = 1
SPECIFICATION Spec
PROPERTIES
  OnlyNewestPublishes
CHECK_DEADLOCK FALSE
