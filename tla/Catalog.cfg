SPECIFICATION Spec
CONSTANTS
  Tables = {t1, t2}
  Indexes = {i1, i2}
  Absent = Absent
  Unreadable = Unreadable
  Torn = Torn
  Usable = Usable
  ReuseNames = FALSE
  MaxFaults = 2
  MaxRestarts = 2
INVARIANTS TypeOK AckedOnDisk DroppedGone BlockersKnown
CHECK_DEADLOCK FALSE
SYMMETRY Symmetry
