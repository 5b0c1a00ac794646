\* Every command on one workbook.
CONSTANTS
  Proc = {p1, p2, p3}
  WorkbookCount = 1
  Token = {t1, t2}
  Offered = {"normal", "clear", "forceClear", "discard", "cleanup", "cleanupAll"}
  NoProc = NoProc
  NoWorkbook = NoWorkbook
  NoMarker = NoMarker
  InvalidMarker = InvalidMarker
SPECIFICATION Spec
SYMMETRY Symmetry
INVARIANTS
  UncertainIsQuarantined
PROPERTIES
  ExcelIsQuietOnStart
