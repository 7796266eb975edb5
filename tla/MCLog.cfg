\* Two workers beside the main thread; the process ends, or Quit hangs.
SPECIFICATION Spec
CONSTANTS
  w1 = w1
  w2 = w2
  Worker = {w1, w2}
  Main = Main
  LogThread = LogThread
  None = None
  MaxLines <- Lines
INVARIANTS LinesInOrder NothingIsLost
PROPERTIES LinesAreWritten QuitReturns
CHECK_DEADLOCK FALSE
