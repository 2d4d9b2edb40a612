SPECIFICATION Spec
CONSTANTS
  BlockData = 4
  HeaderLen = 2
  BufBlocks = 3
  RedoLens = {3, 5, 8}
  RedoBlocks = 2
  FullTail = FALSE
  MaxRecords = 5
  MaxRestarts = 2
INVARIANTS TypeOK BytesKept CommitDurable 
CHECK_DEADLOCK FALSE
