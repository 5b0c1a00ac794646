\* Commands and process cleanup over two workbooks.
CONSTANTS
  Proc = {p1, p2}
  WorkbookCount = 2
  Token = {t1, t2}
  Offered = {"normal", "cleanup", "cleanupAll"}
  NoProc = NoProc
  NoWorkbook = NoWorkbook
  NoMarker = NoMarker
  InvalidMarker = InvalidMarker
SPECIFICATION Spec
SYMMETRY Symmetry
INVARIANTS
  TypeOK
  LeasesAreOrderly
PROPERTIES
  BodyStartsClean
  ClearsOnlyExamined
