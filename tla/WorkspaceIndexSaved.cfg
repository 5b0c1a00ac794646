\* What the watcher's updatePath promises of a closed file, and a save and a
\* close together break.
CONSTANTS
  Content = {a}
  Recovered = {}
  Broken = {}
  Silent = {}
  Refresher = {r1}
  TextLimit = 1
  WriteLimit = 1
SPECIFICATION Spec
INVARIANT SavedIsShown
CHECK_DEADLOCK FALSE
