SPECIFICATION Spec
CONSTANTS
  MaxPageNum = 4
  ByteBits = 2
  Capacity = 2
  Data = {d1, d2}
  NoData = NoData
  Sessions = {s1}
  NoTrx = NoTrx
  BufferRecords = 2
  MaxLog = 6
  MaxRestarts = 2
INVARIANT RollbackKeepsCommitted
SYMMETRY DataSymmetry
CHECK_DEADLOCK FALSE
