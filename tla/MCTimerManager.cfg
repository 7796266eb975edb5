\* Three descriptors and three Timer objects: enough for a timer in the middle
\* of the list, at both ends of it, and for a walk that crosses all three.
CONSTANTS
  Fd = {f1, f2, f3}
  Timer = {t1, t2, t3}
  HeadNode = HeadNode
  TailNode = TailNode
  None = None
  Timeout = 1
SPECIFICATION Spec
INVARIANTS
  TypeOK
  ListInv
  WalkInv
  Sorted
PROPERTIES
  ImplementsTimerList
  ExpiredIsClosed
