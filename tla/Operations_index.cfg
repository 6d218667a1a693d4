SPECIFICATION Spec
CONSTANTS
  t1 = t1
  t2 = t2
  Names = {t1}
  Schemas <- UpSchemas
  AddValues <- UpAddValues
  UpValues <- UpUpValues
  KeyArgs <- UpKeyArgs
  SearchValues <- UpSearchValues
  FieldLists <- AllFields
  IntMax = 1
  MAX_ROW_CAPACITY = 2
  MAX_FIELDS_PER_DB = 2
  MAX_ARRAY_LENGTH = 1
  MAX_DB_COUNT = 1
  MallocFails = TRUE
  MaxClock = 1
INVARIANTS
  ArraysBounded
  IndexExact
  IndexCoversRows
  SearchShowsMatches
PROPERTIES
  RefusalIsLocal
  ImplementsStore
