SPECIFICATION Spec
CONSTANTS
  Pat = Pat
  Pmt = Pmt
  PlainTables = {}
  GatedTables = {sdt}
  PmtPids = {p1, p2}
  PatContents = {{}, {p1, p2}}
  Versions = {1}
  LongTables = {}
  MaxOpenFilters = 1
  MaxScans = 2
  MaxSignalChanges = 1
SYMMETRY Symmetry
INVARIANTS
  TypeOK
  SuccessMeansScanned
  CompletionsAreCurrent
  ReleasedIsDetached
PROPERTIES
  GatedAfterPmt
CHECK_DEADLOCK FALSE
