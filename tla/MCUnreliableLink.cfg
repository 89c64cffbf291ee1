SPECIFICATION LinkSpec
CONSTANTS
  \* UartSession: two callers; five bytes that make four characters, the third
  \* of two bytes; a pattern of two characters that occurs twice.
  Callers = {a, b}
  MaxBytes = 5
  CharEnds = {1, 2, 4, 5}
  Chunk = 2
  MaxBuffer = 3
  PatLen = 2
  Marks = {2, 4}
  \* FlashBridge: two attempts, two requests in flight of at most three.
  Attempts = 2
  Window = 2
  MaxFrames = 3
INVARIANTS NoLostWakeup FailureIsTold NothingLeftRunning CleanEndIsNotADrop
PROPERTIES InOrderOnce EndIsHeard CloseStopsReader NeverReflashed DropEndsRun ConnectedRunEnds
\* flash() returns or raises.
CHECK_DEADLOCK FALSE
