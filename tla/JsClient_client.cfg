SPECIFICATION JsSpec
CONSTANTS
  NumRequests = 2
  reconnectEnabled = TRUE
  maxRetries = 1
  LongReplies = {1}
CHECK_DEADLOCK FALSE
INVARIANTS
  JsTypeOK
  AnswersMatch
  DoneOncePerTry
  NoStraySocket
PROPERTIES
  CallsEnd
