SPECIFICATION ServerSpec
CONSTANTS
  t1 = t1
  k1 = k1
  k2 = k2
  Names = {t1}
  Schemas <- SrvSchemas
  AddValues <- SrvAddValues
  UpValues = {}
  KeyArgs <- SrvKeyArgs
  SearchValues = {}
  FieldLists = {}
  IntMax = 2
  MAX_ROW_CAPACITY = 2
  MAX_FIELDS_PER_DB = 1
  MAX_ARRAY_LENGTH = 1
  MAX_DB_COUNT = 1
  AUTH_MAX_KEYS = 1
  MallocFails = FALSE
  MaxClock = 1
  KeyNames = {k1, k2}
  AdminName = k1
  FirstFiles <- AnyInstall
  IOFails = TRUE
  PowerFails = FALSE
VIEW ServerView
INVARIANTS
  ServerTypeOK
  TablesSound
  SnapshotFaithful
PROPERTIES
  PathReplacedWhole
