SPECIFICATION SessionsSpec
CONSTANTS
  root = root
  guest = guest
  new = new
  t1 = t1
  t2 = t2
  t3 = t3
  AUTH_MAX_KEYS = 3
  NumConns = 3
  MaxLines = 2
  MaxClients = 2
  FirstKeys <- MCFirstKeys
  Tokens = {t3}
  Lines <- MCLines
  SplitLines <- MCSplitLines
CHECK_DEADLOCK FALSE
INVARIANTS
  SessionsTypeOK
  SlotsMatchDescriptors
  LevelIsOwn

  TokensHonoured
  EventsFresh
  LockstepLossless
PROPERTIES
  RightsHeld
  Served
