\* Three calls by two goroutines, two invalidations, one external record.
CONSTANTS
  Callers = {c1, c2}
  Keys = {"input0", "input1", "query", "projection"}
  DependencySets <- Chain
  Invalidations = {{"query"}, {"input0", "query"}}
  EntryLimits = {1, 2}
  EvaluateLimit = 3
  InvalidateLimit = 2
  RecordLimit = 1
SYMMETRY Symmetry
SPECIFICATION Spec
INVARIANTS
  TypeOK
  AnswersAreRight
  MetadataBounded
  BuildsAreShared
\* The goroutines may make no more calls.
CHECK_DEADLOCK FALSE
