\* Two workers and three tasks.
CONSTANTS
  Worker = {w1, w2}
  Main = Main
  Task = {t1, t2, t3}
  None = None
SPECIFICATION Spec
CHECK_DEADLOCK FALSE
PROPERTY QuitReturns
