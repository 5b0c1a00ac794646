\* Three processes; no symmetry, for liveness.
CONSTANTS
  Proc = {p1, p2, p3}
  Generation = {g1, g2}
  NoProc = NoProc
  NoGeneration = NoGeneration
SPECIFICATION FairSpec
INVARIANTS
  TypeOK
  RecordIsTrue
PROPERTIES
  LeaseRefinement
  CallsEnd
