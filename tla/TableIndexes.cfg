SPECIFICATION Spec
CONSTANTS
  Slots = 2
  Fields = {"a", "b"}
  Nullable = {"b"}
  Value = {1, 2}
  Null = Null
  IndexDefs <- MCIndexDefs
  MaxIndexes = 2
  MaxFaults = 1
INVARIANTS TypeOK IndexCovers IndexSelect
PROPERTY UniqueKept
CONSTRAINTS OneStale FaultAlone
