SPECIFICATION Spec
CONSTANTS
  Schema <- MCSchema
  MaxRows <- MCMaxRows
  Garbage <- MCGarbage
  Workload <- MCWorkload
PROPERTY InsertAllOrNothing
