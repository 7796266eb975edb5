\* Up to four characters, each in any spelling: escapes next to each other, cut
\* off at the end, of a percent sign, of letters in both cases and of NUL.
CONSTANTS
  Asked <- Requests
  Homepage <- Home
  MaxText = 4
SPECIFICATION Spec
CHECK_DEADLOCK FALSE
INVARIANTS
  InPlace
  Decodes
