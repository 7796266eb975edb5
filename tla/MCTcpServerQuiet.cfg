\* Two descriptors, two connections and two workers: a connection can be closed
\* and its descriptor taken by the other one, and there are as many threads as
\* connections to meet on one.
CONSTANTS
  Fd = {f1, f2}
  Timer = {c1, c2}
  HeadNode = HeadNode
  TailNode = TailNode
  Listen = Listen
  Worker = {w1, w2}
  Main = Main
  None = None
SPECIFICATION QuietSpec
INVARIANTS
  NoCrash
  ListInv
  OneHolder
  ExclusiveUse
  OwnSocket
  QuietExpiry
PROPERTIES
  ImplementsTimerList
SYMMETRY Interchangeable
