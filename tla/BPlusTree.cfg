SPECIFICATION Spec
CONSTANTS
  Pages = {2, 3, 4, 5, 6, 7, 8, 9, 10, 11, 12}
  InternalMax = 4
  LeafMax = 4
  NoNode = NoNode
  Attrs = {1, 2, 3, 4, 5}
  MaxRid = 3
  BuildOrders <- Built
  MaxOps = 4
INVARIANTS TypeOK TreeValid EntriesExact ScanExact
CHECK_DEADLOCK FALSE
