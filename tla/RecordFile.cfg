SPECIFICATION Spec
CONSTANTS
  MaxPageNum = 3
  ByteBits = 2
  Capacity = 3
  Data = {d1, d2}
  NoData = NoData
  Scanners = {s1}
  Closed = Closed
INVARIANTS TypeOK RowsKept ScanComplete ScanOnce
CONSTRAINT Bounds
SYMMETRY DataSymmetry
CHECK_DEADLOCK FALSE
