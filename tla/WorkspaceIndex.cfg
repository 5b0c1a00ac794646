\* One path: two texts, two closes, one change of the file, and the initial
\* build.  Content b may fail to parse, and is incomplete if it does not.
CONSTANTS
  Content = {a, b}
  Recovered = {b}
  Broken = {b}
  Silent = {a}
  Refresher = {r1, r2}
  TextLimit = 2
  WriteLimit = 1
SPECIFICATION Spec
INVARIANTS
  TypeOK
  OpenMasksDisk
  CompleteIsCurrent
  SettledIsHonest
CHECK_DEADLOCK FALSE
