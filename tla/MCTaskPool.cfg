\* Three workers and three tasks: a task may come while all work, all sleep, or
\* some of each; one notification may meet several sleepers.
CONSTANTS
  Worker = {w1, w2, w3}
  Main = Main
  Task = {t1, t2, t3}
  None = None
SPECIFICATION Spec
CHECK_DEADLOCK FALSE
INVARIANTS
  TypeOK
  WorkIsShared
  
PROPERTIES
  TasksAreTaken
  JoinReturns
