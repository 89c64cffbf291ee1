SPECIFICATION CloudSpec
CONSTANTS
  Calls = {a, b}
  None = None
  Delays = 1
  MaxTokens = 2
INVARIANTS AtMostOnce OnceInv SecondTokenIsNew
PROPERTIES CallsEnd
CHECK_DEADLOCK FALSE
