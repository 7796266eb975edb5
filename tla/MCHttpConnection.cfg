\* Two requests of any kind, whole, in pieces or one after the other at once;
\* a buffer smaller than most requests and than an answer, so that it is moved,
\* grown and filled by way of the second segment.
CONSTANTS
  Byte <- Bytes
  Zero = "zero"
  Length <- Lengths
  Request <- AllRequests
  InitLen = 2
  Chunk = 3
  SendSpace = 2
  MaxRequests = 2
SPECIFICATION Spec
CHECK_DEADLOCK FALSE
INVARIANTS
  TypeOK
  InputIntact
  OutputIntact
  Framed
  ArmedAsNeeded
  OneAnswerEach
  AbortsOnlyOnInexact
PROPERTIES
  AnswersAreSent
  WholeRequestIsAnswered
  ImplementsService
