SPECIFICATION JsSpec
CONSTANTS
  NumRequests = 1
  reconnectEnabled = TRUE
  maxRetries = 1
  LongReplies = {}
CHECK_DEADLOCK FALSE
INVARIANT
  AlwaysAuthenticated
