\* One descriptor that two connections have in turn, two workers, and a
\* connection on which a client is active after its time has run out, once.
CONSTANTS
  Fd = {f1}
  Timer = {c1, c2}
  HeadNode = HeadNode
  TailNode = TailNode
  Listen = Listen
  Worker = {w1, w2}
  Main = Main
  None = None
  MaxUntimely = 1
  MaxConnects = 2
SPECIFICATION RacesSpec
CHECK_DEADLOCK FALSE
INVARIANT OneWorkerPerSocket
