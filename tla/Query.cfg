SPECIFICATION Spec
CONSTANTS
  Schema <- MCSchema
  MaxRows <- MCMaxRows
  Garbage <- MCGarbage
  Workload <- MCWorkload
INVARIANT StoredTyped
INVARIANT SelectIsSQL
INVARIANT OrderIsSort
PROPERTY WhereDecides
