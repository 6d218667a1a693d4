SPECIFICATION InputsSpec
CONSTANTS
  MaxText = 3
  MaxOptions = 1
  Names <- MCNames
  Ints <- MCInts
  Doubles <- MCDoubles
  MAX_STRING_VALUE_LENGTH = 4
  MAX_LITERAL_LENGTH = 2
  MAX_FIELDS = 2
  Calls <- MCCalls
  RawLines <- MCRawLines
  Schema <- MCSchema
  Tables <- MCTables
  KeyNames <- MCKeyNames
  SixDigits <- MCSixDigits
  DISPLAY_MAX = 2
  Number <- MCNumber
  LongTexts = {"long"}
  Files <- MCFiles
  CommandLines <- MCCommandLines
INVARIANTS
  ValuesArrive
