\* Hosts with one permit (the overcommit) and with two; no symmetry, for liveness.
CONSTANTS
  Caller = {c1, c2, c3}
  TotalLimits = {1, 2}
SPECIFICATION FairSchedulerSpec
INVARIANTS
  SchedulerTypeOK
  NoLostWakeup
  PermitsBounded
PROPERTIES
  PriorityKept
  Served
