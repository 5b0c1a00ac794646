\* Three files, and two interventions of other programs.  The call ends.
CONSTANTS
  FileCount = 3
  MeddleLimit = 2
SPECIFICATION Spec
INVARIANTS
  TypeOK
  StatesAreTrue
  RecoveryIsUsable
  LeftoversListed
PROPERTIES
  ForeignEditsSurvive
CHECK_DEADLOCK FALSE
