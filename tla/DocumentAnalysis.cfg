\* Two snapshots (open and change, or close and reopen) and one refresh.
CONSTANTS
  EditLimit = 2
  RefreshLimit = 1
SPECIFICATION FairSpec
INVARIANTS
  TypeOK
  Settled
PROPERTIES
  WorkIsCurrent
  FullIsShown
\* The editor may leave, and the server stops.
CHECK_DEADLOCK FALSE
