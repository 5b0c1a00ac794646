\* Three requests, one edit of one file each, a cache of one summary.
CONSTANTS
  ProcedureCount = 3
  Requests = {r1, r2, r3}
  Projects <- MCProjects
  CacheLimit = 1
  EditLimit = 1
SPECIFICATION FairSpec
INVARIANTS
  TypeOK
  SummariesAreRight
PROPERTIES
  RequestsEnd
\* All requests may have ended.
CHECK_DEADLOCK FALSE
