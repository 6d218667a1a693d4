SPECIFICATION Spec
CONSTANTS
  t1 = t1
  t2 = t2
  Names = {t1, t2}
  Schemas <- KeySchemas
  AddValues <- KeyAddValues
  UpValues <- KeyUpValues
  KeyArgs <- KeyKeyArgs
  SearchValues <- KeySearchValues
  FieldLists <- SomeFields
  IntMax = 3
  MAX_ROW_CAPACITY = 2
  MAX_FIELDS_PER_DB = 1
  MAX_ARRAY_LENGTH = 1
  MAX_DB_COUNT = 1
  MallocFails = TRUE
  MaxClock = 0
INVARIANTS
  TypeOK
  RowsCounted
  NextKeyAboveRows
  AutoKeyAccepted
  AddNamesItsRow
PROPERTIES
  KeysNotReused
