\* One descriptor for two connections, no symmetry.
CONSTANTS
  Fd = {f1}
  Timer = {c1, c2}
  HeadNode = HeadNode
  TailNode = TailNode
  Listen = Listen
  Worker = {w1, w2}
  Main = Main
  None = None
SPECIFICATION QuietSpec
PROPERTIES
  BytesAreRead
  ExpiredIsClosed
