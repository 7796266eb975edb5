\* Up to two requests for a page, each whole or in pieces, one after the other
\* or at once.
CONSTANTS
  Byte <- Bytes
  Zero = "zero"
  Length <- Lengths
  Request <- KeepGets
  InitLen = 2
  Chunk = 3
  SendSpace = 2
  MaxRequests = 2
SPECIFICATION Spec
CHECK_DEADLOCK FALSE
PROPERTY EveryRequestIsAnswered
