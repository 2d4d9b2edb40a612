SPECIFICATION Spec
CONSTANTS
  Files = {f1, f2}
  Long = {f1}
  Val = {v1}
  Zero = Zero
  Absent = Absent
  Hole = Hole
  Fds = {d1, d2}
  NoFd = NoFd
  NoFrame = NoFrame
  MaxPageNum = 3
  PoolSize = 3
  MaxPin = 2
  WriteResults = {TRUE, FALSE}
  ExtendResults = {TRUE}
  InOrderReplay = TRUE
SYMMETRY FdSymmetry
CONSTRAINTS ShortFiles OneDangling
INVARIANTS TypeOK  
PROPERTIES PinnedStays DirtyWrittenBack ImplementsPageStore
