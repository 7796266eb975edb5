------------------------- MODULE TimerManagerProofs -------------------------
(***************************************************************************)
(* For any number of descriptors and timers: the list of TimerManager is   *)
(* always well linked and sorted.  IInv is inductive; the part of it that  *)
(* the two properties do not state, WalkInv, is what makes the descriptor  *)
(* that closeExpire passes to handleExpire one of Fd.                      *)
(***************************************************************************)
EXTENDS TimerManagerList, TimerLinksProofs

IInv == TypeOK /\ ListInv /\ WalkInv /\ Sorted

(* A new object is not on the list.                                        *)
LEMMA FreshIsFresh == Timer \ Linked # {} => fresh \in Timer \ Linked
  BY DEF fresh

(* No timer is that of two descriptors, so removing one from _map takes    *)
(* exactly its timer from those that should be linked.                     *)
LEMMA LinkedChanges ==
  ASSUME TypeOK, ListInv, NEW fd \in Fd
  PROVE  /\ Linked \in SUBSET Timer
         /\ map[fd] # None => map[fd] \in Linked
         /\ map[fd] # None /\ map' = [map EXCEPT ![fd] = None]
              => Linked' = Linked \ {map[fd]}
         /\ \A t \in Timer : map[fd] = None /\ map' = [map EXCEPT ![fd] = t]
              => Linked' = Linked \cup {t}
  BY NoneDistinct DEF TypeOK, ListInv, Linked, Node

-----------------------------------------------------------------------------
(* Sorted is SortedBy for the list, the map and the ages.                  *)
LEMMA SortedIsSortedBy ==
  ASSUME TypeOK, ListInv
  PROVE  Sorted <=> SortedBy(list, Linked, age)
<1>1. \A t \in Linked : t \in Timer /\ age[t] \in Nat
  BY TimeoutNat DEF TypeOK, Linked
<1> QED BY <1>1 DEF Sorted, SortedBy

-----------------------------------------------------------------------------
LEMMA InitIInv == Init => IInv
<1> SUFFICES ASSUME Init PROVE IInv
  OBVIOUS
<1>1. Linked = {}
  BY DEF Init, Linked
<1>2. EmptyList \in List /\ WellLinked(EmptyList, {})
  BY EmptyIsWellLinked
<1>3. TypeOK
  BY <1>2, NoneDistinct, TimeoutNat DEF Init, TypeOK, Node
<1>4. ListInv /\ Sorted
  BY <1>1, <1>2 DEF Init, ListInv, Sorted
<1>5. WalkInv
  BY SentinelsDistinct DEF Init, WalkInv, EmptyList
<1> QED BY <1>3, <1>4, <1>5 DEF IInv

(* A new connection. *)
LEMMA AddTimerIInv ==
  ASSUME IInv, NEW fd \in Fd, addTimer(fd)
  PROVE  IInv'
<1> USE DEF IInv
<1> DEFINE t == fresh
<1>1. t \in Timer /\ t \notin Linked /\ Linked \in SUBSET Timer
  BY FreshIsFresh, LinkedChanges DEF addTimer
<1>2. Linked' = Linked \cup {t}
  BY <1>1, LinkedChanges DEF addTimer
<1>3. list \in List /\ WellLinked(list, Linked) /\ list' = addToHead(list, t)
  BY DEF TypeOK, ListInv, addTimer
<1>4. age' = [age EXCEPT ![t] = 0] /\ map' = [map EXCEPT ![fd] = t]
      /\ fdof' = [fdof EXCEPT ![t] = fd] /\ UNCHANGED <<pc, cursor, expfd>> /\ map[fd] = None
  BY DEF addTimer
<1> HIDE DEF t
<1>5. TypeOK'
  <2>1. list' \in List
    BY <1>1, <1>3, LinksType
  <2> QED BY <2>1, <1>1, <1>4, TimeoutNat DEF TypeOK
<1>6. ListInv'
  <2>1. WellLinked(list', Linked')
    BY <1>1, <1>2, <1>3, AddToHeadIsWellLinked
  <2>2. ASSUME NEW g \in Fd, map'[g] # None
        PROVE  fdof'[map'[g]] = g
    <3>1. CASE g = fd
      BY <3>1, <1>1, <1>4 DEF TypeOK
    <3>2. CASE g # fd
      <4>1. map'[g] = map[g] /\ map[g] \in Linked /\ map[g] # t
        BY <3>2, <2>2, <1>1, <1>4 DEF TypeOK, Linked
      <4> QED BY <4>1, <2>2, <1>4 DEF TypeOK, ListInv
    <3> QED BY <3>1, <3>2
  <2> QED BY <2>1, <2>2 DEF ListInv
<1>7. WalkInv'
  <2>1. \A n \in Node : list'.last[n] \in {list.last[n], t, HeadNode}
    BY <1>1, <1>3, LastValues
  <2>2. \A u \in Timer : fdof'[u] \in {fdof[u], fd} /\ fdof'[t] = fd
    BY <1>1, <1>4 DEF TypeOK
  <2>3. t # TailNode /\ HeadNode # TailNode /\ HeadNode \notin Timer
    BY <1>1, SentinelsDistinct
  <2> QED BY <2>1, <2>2, <2>3, <1>4 DEF WalkInv
<1>8. Sorted'
  <2>1. SortedBy(list, Linked, age)
    BY SortedIsSortedBy
  <2>2. age'[t] = 0 /\ \A n \in Linked : age'[n] = age[n]
    BY <1>1, <1>4 DEF TypeOK
  <2>3. SortedBy(list', Linked', age')
    BY <1>1, <1>2, <1>3, <2>1, <2>2, AddToHeadIsSorted
  <2> QED BY <2>3, <1>2 DEF SortedBy, Sorted
<1> QED BY <1>5, <1>6, <1>7, <1>8

(* Activity on a connection: its timer leaves the list and comes back.     *)
LEMMA UpdateTimerIInv ==
  ASSUME IInv, NEW fd \in Fd, updateTimer(fd)
  PROVE  IInv'
<1> USE DEF IInv
<1> DEFINE t == map[fd]
           U == unlink(list, t)
<1>1. t \in Linked /\ t \in Timer /\ Linked \in SUBSET Timer
  BY LinkedChanges DEF updateTimer, renew, moved, updated
<1>2. list \in List /\ WellLinked(list, Linked) /\ list' = moveToHead(list, t)
  BY DEF TypeOK, ListInv, updateTimer, renew, moved, updated
<1>3. age' = [age EXCEPT ![t] = 0] /\ UNCHANGED <<map, fdof, pc, cursor, expfd>>
  BY DEF updateTimer, renew, moved, updated
<1>4. Linked' = Linked
  BY <1>3 DEF Linked
<1> HIDE DEF t, U
<1>5. TypeOK'
  <2>1. list' \in List
    BY <1>1, <1>2, LinksType
  <2> QED BY <2>1, <1>1, <1>3, TimeoutNat DEF TypeOK
<1>6. ListInv'
  <2>1. WellLinked(list', Linked')
    BY <1>1, <1>2, <1>4, MoveToHeadIsWellLinked
  <2> QED BY <2>1, <1>3 DEF ListInv
<1>7. WalkInv'
  <2>1. \A n \in Node : list'.last[n] \in {list.last[n], list.last[t], t, HeadNode}
    BY <1>1, <1>2, LastValues
  <2>2. fdof[t] = fd /\ t \in Node
    BY <1>1, NoneDistinct DEF ListInv, t, Node
  <2>3. t # TailNode /\ HeadNode # TailNode /\ HeadNode \notin Timer
    BY <1>1, SentinelsDistinct
  <2> QED BY <2>1, <2>2, <2>3, <1>3 DEF WalkInv
<1>8. Sorted'
  <2>1. SortedBy(list, Linked, age)
    BY SortedIsSortedBy
  <2>2. age'[t] = 0 /\ \A n \in Linked \ {t} : age'[n] = age[n]
    BY <1>1, <1>3 DEF TypeOK
  <2>3. U \in List /\ WellLinked(U, Linked \ {t}) /\ SortedBy(U, Linked \ {t}, age)
    BY <1>1, <1>2, <2>1, LinksType, UnlinkIsWellLinked, UnlinkIsSorted DEF U
  <2>4. SortedBy(addToHead(U, t), (Linked \ {t}) \cup {t}, age')
    BY <1>1, <2>2, <2>3, AddToHeadIsSorted
  <2>5. (Linked \ {t}) \cup {t} = Linked /\ list' = addToHead(U, t)
    BY <1>1, <1>2 DEF moveToHead, U
  <2>6. SortedBy(list', Linked, age')
    BY <2>4, <2>5
  <2> QED BY <2>6, <1>4 DEF SortedBy, Sorted
<1> QED BY <1>5, <1>6, <1>7, <1>8

(* What rmTimer does, from a worker or from the walk.                      *)
LEMMA RemovedIInv ==
  ASSUME IInv, NEW fd \in Fd, map[fd] # None, removed(fd), UNCHANGED <<fdof, age, cursor>>
  PROVE  /\ list' \in List /\ map' \in [Fd -> Timer \cup {None}]
         /\ ListInv' /\ Sorted'
         /\ \A n \in Node : list'.last[n] # TailNode
         /\ \A t \in Timer : (\E n \in Node : list'.last[n] = t) => fdof'[t] \in Fd
<1> USE DEF IInv
<1> DEFINE t == map[fd]
<1>1. t \in Linked /\ t \in Timer /\ Linked \in SUBSET Timer /\ Linked' = Linked \ {t}
  BY LinkedChanges DEF removed
<1>2. /\ list \in List /\ WellLinked(list, Linked)
      /\ list' = unlink(list, t) /\ map' = [map EXCEPT ![fd] = None]
  BY DEF TypeOK, ListInv, removed
<1> HIDE DEF t
<1>3. list' \in List /\ map' \in [Fd -> Timer \cup {None}]
  BY <1>1, <1>2, LinksType DEF TypeOK
<1>4. ListInv'
  <2>1. WellLinked(list', Linked')
    BY <1>1, <1>2, UnlinkIsWellLinked
  <2> QED BY <2>1, <1>2 DEF ListInv, TypeOK
<1>5. Sorted'
  <2>1. SortedBy(list, Linked, age)
    BY SortedIsSortedBy
  <2>2. SortedBy(list', Linked', age)
    BY <1>1, <1>2, <2>1, UnlinkIsSorted
  <2> QED BY <2>2, <1>1 DEF SortedBy, Sorted
<1>6. \A n \in Node : list'.last[n] \in {list.last[n], list.last[t]} /\ t \in Node
  BY <1>1, <1>2, LastValues DEF Node
<1> QED BY <1>3, <1>4, <1>5, <1>6 DEF WalkInv

-----------------------------------------------------------------------------
LEMMA StepIInv == IInv /\ [Next]_vars => IInv'
<1> SUFFICES ASSUME IInv, [Next]_vars PROVE IInv'
  OBVIOUS
<1>1. ASSUME NEW fd \in Fd, addTimer(fd) PROVE IInv'
  BY <1>1, AddTimerIInv
<1>2. ASSUME NEW fd \in Fd, updateTimer(fd) PROVE IInv'
  BY <1>2, UpdateTimerIInv
<1>3. ASSUME NEW fd \in Fd, rmTimer(fd) PROVE IInv'
  <2>1. removed(fd) /\ map[fd] # None /\ UNCHANGED <<fdof, age, pc, cursor, expfd>>
    BY <1>3 DEF rmTimer, drop
  <2> QED BY <2>1, RemovedIInv DEF IInv, TypeOK, WalkInv
<1>4. CASE Tick
  <2>1. TypeOK'
    BY <1>4, TimeoutNat DEF Tick, IInv, TypeOK, isTimeout
  <2>2. Linked' = Linked /\ ListInv' /\ WalkInv'
    BY <1>4 DEF Tick, IInv, ListInv, WalkInv, Linked
  <2>3. ASSUME NEW t \in Linked, list.last[t] # HeadNode
        PROVE  age'[list.last[t]] =< age'[t]
    <3>1. t \in Timer /\ list.last[t] \in Timer /\ age[list.last[t]] =< age[t]
      BY <2>3, LinkedChanges DEF IInv, ListInv, WellLinked, BothWays, Sorted, TypeOK, Linked
    <3> QED BY <3>1, <1>4, TimeoutNat DEF Tick, IInv, TypeOK, isTimeout
  <2>4. Sorted'
    BY <2>2, <2>3, <1>4 DEF Sorted, Tick
  <2> QED BY <2>1, <2>2, <2>4 DEF IInv
<1>5. CASE closeExpire
  <2>1. Linked' = Linked
    BY <1>5 DEF closeExpire, walk, Linked
  <2>2. list.last[TailNode] \in Timer \cup {HeadNode} /\ TailNode \in Node
    BY DEF IInv, ListInv, WellLinked, BothWays, TypeOK, Linked, Node
  <2> QED BY <2>1, <2>2, <1>5 DEF closeExpire, walk, IInv, TypeOK, ListInv, WalkInv, Sorted
<1>6. CASE scanCheck
  <2>1. Linked' = Linked
    BY <1>6 DEF scanCheck, Linked
  <2> QED BY <2>1, <1>6, SentinelsDistinct
          DEF scanCheck, IInv, TypeOK, ListInv, WalkInv, Sorted
<1>7. CASE scanStep
  <2>1. Linked' = Linked
    BY <1>7 DEF scanStep, walk, Linked
  <2>2. cursor \in Node /\ list.last[cursor] \in Timer \cup {HeadNode}
    BY DEF IInv, TypeOK, List, Node, WalkInv
  <2> QED BY <2>1, <2>2, <1>7 DEF scanStep, walk, IInv, TypeOK, ListInv, WalkInv, Sorted
<1>8. CASE handleExpire
  <2>1. expfd \in Fd
    BY <1>8 DEF handleExpire, IInv, WalkInv
  <2>2. CASE map[expfd] # None
    <3>1. removed(expfd) /\ pc' = "check" /\ expfd' = None /\ UNCHANGED <<fdof, age, cursor>>
      BY <1>8, <2>2 DEF handleExpire
    <3> QED BY <2>1, <2>2, <3>1, RemovedIInv DEF IInv, TypeOK, WalkInv
  <2>3. CASE map[expfd] = None
    <3>1. Linked' = Linked
      BY <1>8, <2>3 DEF handleExpire, Linked
    <3> QED BY <2>3, <3>1, <1>8 DEF handleExpire, IInv, TypeOK, ListInv, WalkInv, Sorted
  <2> QED BY <2>2, <2>3
<1>9. CASE UNCHANGED vars
  <2>1. Linked' = Linked
    BY <1>9 DEF vars, Linked
  <2> QED BY <2>1, <1>9 DEF vars, IInv, TypeOK, ListInv, WalkInv, Sorted
<1> QED BY <1>1, <1>2, <1>3, <1>4, <1>5, <1>6, <1>7, <1>8, <1>9 DEF Next, Scan

(* IInv holds in every reachable state. *)
THEOREM Invariance == Spec => []IInv
  BY InitIInv, StepIInv, PTL DEF Spec

(* Every variable has its type; in particular the walk never stands on the *)
(* tail sentinel.                                                          *)
THEOREM TypeCorrect == Spec => []TypeOK
<1>1. IInv => TypeOK
  BY DEF IInv
<1> QED BY <1>1, Invariance, PTL

(* The list is one chain through exactly the timers of _map, whatever the  *)
(* workers do while closeExpire walks it.                                  *)
THEOREM ListCorrect == Spec => []ListInv
<1>1. IInv => ListInv
  BY DEF IInv
<1> QED BY <1>1, Invariance, PTL

(* closeExpire meets no null pointer and closes only accepted descriptors. *)
THEOREM WalkCorrect == Spec => []WalkInv
<1>1. IInv => WalkInv
  BY DEF IInv
<1> QED BY <1>1, Invariance, PTL

(* The list is in descending order of the time left, so closeExpire may    *)
(* stop at the first timer that is not due.                                *)
THEOREM OrderCorrect == Spec => []Sorted
<1>1. IInv => Sorted
  BY DEF IInv
<1> QED BY <1>1, Invariance, PTL
-----------------------------------------------------------------------------
(* TimerManager implements TimerList.  The order is read off the pointers, *)
(* so that besides IInv there must be a sequence that they spell out.      *)
Chained == \E s : IsChain(list, Linked, s)

LEMMA OrderNext == order' = FdOrder(list', Linked', fdof')
  BY DEF order

(* The timers and the descriptors correspond to each other.                *)
LEMMA FdsOfLinked ==
  ASSUME IInv
  PROVE  /\ Linked \in SUBSET Timer /\ list \in List /\ WellLinked(list, Linked)
         /\ \A t \in Linked : fdof[t] \in Fd /\ map[fdof[t]] = t
         /\ \A fd \in Fd : map[fd] # None => map[fd] \in Linked /\ fdof[map[fd]] = fd
  BY NoneDistinct DEF IInv, TypeOK, ListInv, Linked, Node

LEMMA InitImplements == Init => Chained /\ Abstract!Init
<1> SUFFICES ASSUME Init PROVE Chained /\ Abstract!Init
  OBVIOUS
<1>1. Linked = {} /\ list = EmptyList
  BY DEF Init, Linked
<1>2. Chained
  BY <1>1, EmptyIsChain DEF Chained
<1>3. order = <<>>
  BY <1>1, EmptyOrder DEF order
<1>4. due = {}
  BY DEF Init, due, expired
<1> QED BY <1>2, <1>3, <1>4 DEF Abstract!Init

(* OrderTaken for this list.                                               *)
LEMMA OrderOfLinked ==
  ASSUME IInv, NEW s, IsChain(list, Linked, s), NEW t \in Linked
  PROVE  \E i \in 1..Len(order) :
           /\ order[i] = fdof[t]
           /\ FdOrder(unlink(list, t), Linked \ {t}, fdof) = without(order, i)
           /\ FdOrder(moveToHead(list, t), Linked, fdof) = <<fdof[t]>> \o without(order, i)
<1>1. Linked \in SUBSET Timer
  BY FdsOfLinked
<1>2. list \in List
  BY FdsOfLinked
<1>3. WellLinked(list, Linked)
  BY FdsOfLinked
<1> QED BY <1>1, <1>2, <1>3, OrderTaken, ZenonT(90) DEF order

(* Steps that leave list, map and ages alone leave order and due alone.    *)
LEMMA NothingMoves ==
  ASSUME Chained, UNCHANGED <<list, map, fdof, age>>
  PROVE  Chained' /\ [Abstract!Next]_Abstract!vars
<1>1. Linked' = Linked
  BY DEF Linked
<1>2. Chained'
  BY <1>1 DEF Chained
<1>3. order' = order
  BY <1>1, OrderNext DEF order
<1>4. due' = due
  BY DEF due, expired, isTimeout
<1> QED BY <1>2, <1>3, <1>4 DEF Abstract!vars

LEMMA AddTimerImplements ==
  ASSUME IInv, Chained, NEW fd \in Fd, addTimer(fd)
  PROVE  Chained' /\ Abstract!Add(fd)
<1> DEFINE t == fresh
<1>1. t \in Timer /\ t \notin Linked /\ Linked' = Linked \cup {t}
  BY FreshIsFresh, LinkedChanges DEF IInv, addTimer
<1>2. PICK s : IsChain(list, Linked, s)
  BY DEF Chained
<1>3. /\ list' = addToHead(list, t) /\ map' = [map EXCEPT ![fd] = t] /\ map[fd] = None
      /\ fdof' = [fdof EXCEPT ![t] = fd] /\ age' = [age EXCEPT ![t] = 0]
  BY DEF addTimer
<1> HIDE DEF t
<1>4. Chained'
  BY <1>1, <1>2, <1>3, FdsOfLinked, AddToHeadChain DEF Chained
<1>5. fdof'[t] = fd /\ \A u \in Linked : fdof'[u] = fdof[u]
  BY <1>1, <1>3 DEF IInv, TypeOK
<1>6. order' = <<fd>> \o order
  <2>1. FdOrder(addToHead(list, t), Linked \cup {t}, fdof')
          = <<fdof'[t]>> \o FdOrder(list, Linked, fdof)
    <3>1. Linked \in SUBSET Timer
      BY FdsOfLinked
    <3>2. list \in List
      BY FdsOfLinked
    <3>3. WellLinked(list, Linked)
      BY FdsOfLinked
    <3> QED BY <3>1, <3>2, <3>3, <1>1, <1>2, <1>5, OrderAdd, ZenonT(90)
  <2>2. order' = FdOrder(addToHead(list, t), Linked \cup {t}, fdof')
    BY <1>1, <1>3, OrderNext
  <2> QED BY <2>1, <2>2, <1>5 DEF order
<1>7. ~Abstract!Contains(order, fd)
  <2>1. \A i \in 1..Len(order) : \E u \in Linked : order[i] = fdof[u]
    BY <1>2, OrderElements DEF order
  <2>2. \A u \in Linked : fdof[u] # fd
    BY <1>3, NoneDistinct, FdsOfLinked DEF Node
  <2> QED BY <2>1, <2>2 DEF Abstract!Contains
<1>8. due' = due \ {fd}
  <2>1. ~expired(fd)'
    BY <1>1, <1>3, TimeoutNat DEF expired, isTimeout, IInv, TypeOK
  <2>2. \A g \in Fd \ {fd} : expired(g)' <=> expired(g)
    <3> SUFFICES ASSUME NEW g \in Fd \ {fd} PROVE expired(g)' <=> expired(g)
      OBVIOUS
    <3>1. map'[g] = map[g]
      BY <1>3 DEF IInv, TypeOK
    <3>2. map[g] # None => age'[map[g]] = age[map[g]]
      BY <1>1, <1>3, FdsOfLinked DEF IInv, TypeOK
    <3> QED BY <3>1, <3>2 DEF expired, isTimeout
  <2> QED BY <2>1, <2>2 DEF due
<1> QED BY <1>4, <1>6, <1>7, <1>8 DEF Abstract!Add

LEMMA UpdateTimerImplements ==
  ASSUME IInv, Chained, NEW fd \in Fd, updateTimer(fd)
  PROVE  Chained' /\ Abstract!Refresh(fd)
<1> DEFINE t == map[fd]
<1>1. /\ t # None /\ list' = moveToHead(list, t) /\ age' = [age EXCEPT ![t] = 0]
      /\ UNCHANGED <<map, fdof>>
  BY DEF updateTimer, renew, moved, updated
<1>2. t \in Linked /\ fdof[t] = fd /\ Linked' = Linked
  BY <1>1, FdsOfLinked DEF Linked
<1>3. PICK s : IsChain(list, Linked, s)
  BY DEF Chained
<1>4. PICK j \in 1..Len(s) : s[j] = t
  BY <1>2, <1>3 DEF IsChain
<1> HIDE DEF t
<1>5. Chained'
  BY <1>1, <1>2, <1>3, <1>4, FdsOfLinked, MoveToHeadChain DEF Chained
<1>6. \E i \in 1..Len(order) :
         order[i] = fd /\ order' = <<fd>> \o without(order, i)
  <2>1. order' = FdOrder(moveToHead(list, t), Linked, fdof)
    BY <1>1, <1>2, OrderNext
  <2> QED BY <2>1, <1>2, <1>3, OrderOfLinked
<1>7. due' = due \ {fd}
  <2>1. ~expired(fd)'
    BY <1>1, <1>2, FdsOfLinked, TimeoutNat DEF expired, isTimeout, IInv, TypeOK, t
  <2>2. \A g \in Fd \ {fd} : expired(g)' <=> expired(g)
    <3> SUFFICES ASSUME NEW g \in Fd \ {fd} PROVE expired(g)' <=> expired(g)
      OBVIOUS
    <3>1. map[g] # None => map[g] \in Timer /\ map[g] # t
      BY <1>2, FdsOfLinked
    <3> QED BY <3>1, <1>1 DEF expired, isTimeout, IInv, TypeOK
  <2> QED BY <2>1, <2>2 DEF due
<1> QED BY <1>5, <1>6, <1>7
        DEF Abstract!Refresh, Abstract!taken, Abstract!RemoveAt, without

(* rmTimer, by a worker or by the walk.                                    *)
LEMMA RemovedImplements ==
  ASSUME IInv, Chained, NEW fd \in Fd, map[fd] # None, removed(fd), UNCHANGED <<fdof, age>>
  PROVE  Chained' /\ Abstract!Drop(fd)
<1> DEFINE t == map[fd]
<1>1. list' = unlink(list, t) /\ map' = [map EXCEPT ![fd] = None]
  BY DEF removed
<1>2. t \in Linked /\ fdof[t] = fd /\ Linked' = Linked \ {t}
  BY <1>1, FdsOfLinked, LinkedChanges DEF IInv
<1>3. PICK s : IsChain(list, Linked, s)
  BY DEF Chained
<1>4. PICK j \in 1..Len(s) : s[j] = t
  BY <1>2, <1>3 DEF IsChain
<1> HIDE DEF t
<1>5. Chained'
  BY <1>1, <1>2, <1>3, <1>4, FdsOfLinked, UnlinkChain DEF Chained
<1>6. \E i \in 1..Len(order) : order[i] = fd /\ order' = <<>> \o without(order, i)
  <2>1. PICK i \in 1..Len(order) : order[i] = fd /\ order' = without(order, i)
    <3>1. order' = FdOrder(unlink(list, t), Linked \ {t}, fdof)
      BY <1>1, <1>2, OrderNext
    <3> QED BY <3>1, <1>2, <1>3, OrderOfLinked
  <2>2. <<>> \o without(order, i) = without(order, i)
    <3>1. order \in Seq(image(fdof, Linked))
      <4>1. s \in Seq(Linked) /\ order = along(s, fdof)
        BY <1>3, ChainIsOrder DEF order, IsChain
      <4> QED BY <4>1, AlongElements
    <3>2. without(order, i) \in Seq(image(fdof, Linked))
      BY <3>1, WithoutElements
    <3> QED BY <3>2
  <2> QED BY <2>1, <2>2
<1>7. due' = due \ {fd}
  <2>1. ~expired(fd)'
    BY <1>1 DEF expired, IInv, TypeOK
  <2>2. \A g \in Fd \ {fd} : expired(g)' <=> expired(g)
    BY <1>1 DEF expired, isTimeout, IInv, TypeOK
  <2> QED BY <2>1, <2>2 DEF due
<1> QED BY <1>5, <1>6, <1>7
        DEF Abstract!Drop, Abstract!taken, Abstract!RemoveAt, without

(* The clock: by Sorted, those that have run out stand together at the end.*)
LEMMA TickImplements ==
  ASSUME IInv, Chained, Tick
  PROVE  Chained' /\ [Abstract!Next]_Abstract!vars
<1>1. UNCHANGED <<list, map, fdof>> /\ Linked' = Linked
  BY DEF Tick, Linked
<1>2. Chained' /\ order' = order
  BY <1>1, OrderNext DEF Chained, order
<1>3. \A t \in Timer : /\ age[t] \in Nat /\ age'[t] \in Nat /\ age[t] =< age'[t]
                       /\ age'[t] = IF isTimeout(t) THEN age[t] ELSE age[t] + 1
  BY TimeoutNat DEF Tick, IInv, TypeOK, isTimeout
<1>4. due \subseteq due'
  BY <1>1, <1>3, FdsOfLinked, TimeoutNat DEF due, expired, isTimeout
<1> DEFINE G == {t \in Linked : age'[t] > Timeout}
<1>5. due' = image(fdof, G)
  <2>1. due' = {fd \in Fd : map[fd] # None /\ age'[map[fd]] > Timeout}
    BY <1>1 DEF due, expired, isTimeout
  <2> QED BY <2>1, FdsOfLinked, NoneDistinct DEF image, Node
<1>6. \A t \in Linked : list.last[t] \in G => t \in G
  <2> SUFFICES ASSUME NEW t \in Linked, list.last[t] \in G PROVE t \in G
    OBVIOUS
  <2>1. list.last[t] \in Timer /\ t \in Timer /\ list.last[t] # HeadNode
    BY FdsOfLinked, SentinelsDistinct
  <2>2. age[list.last[t]] =< age[t]
    BY <2>1 DEF IInv, Sorted
  <2> QED BY <2>1, <2>2, <1>3, TimeoutNat DEF isTimeout
<1>7. CASE G = {}
  <2>1. due' = due
    BY <1>4, <1>5, <1>7 DEF image
  <2> QED BY <2>1, <1>2 DEF Abstract!vars
<1>8. CASE G # {}
  <2>1. PICK s : IsChain(list, Linked, s)
    BY DEF Chained
  <2>2. G \in SUBSET Linked
    OBVIOUS
  <2> HIDE DEF G
  <2>3. \E k \in 1..Len(order) : image(fdof, G) = back(order, k)
    BY <2>1, <2>2, <1>6, <1>8, FdsOfLinked, OrderSuffix DEF order
  <2>4. due' = due \/ Abstract!Expire
    BY <2>3, <1>2, <1>4, <1>5 DEF Abstract!Expire, back
  <2> QED BY <2>4, <1>2 DEF Abstract!Next, Abstract!vars
<1> QED BY <1>7, <1>8

LEMMA StepImplements ==
  IInv /\ Chained /\ [Next]_vars => Chained' /\ [Abstract!Next]_Abstract!vars
<1> SUFFICES ASSUME IInv, Chained, [Next]_vars
             PROVE  Chained' /\ [Abstract!Next]_Abstract!vars
  OBVIOUS
<1>1. ASSUME NEW fd \in Fd, addTimer(fd)
      PROVE  Chained' /\ [Abstract!Next]_Abstract!vars
  BY <1>1, AddTimerImplements DEF Abstract!Next
<1>2. ASSUME NEW fd \in Fd, updateTimer(fd)
      PROVE  Chained' /\ [Abstract!Next]_Abstract!vars
  BY <1>2, UpdateTimerImplements DEF Abstract!Next
<1>3. ASSUME NEW fd \in Fd, rmTimer(fd)
      PROVE  Chained' /\ [Abstract!Next]_Abstract!vars
  BY <1>3, RemovedImplements DEF Abstract!Next, rmTimer, drop
<1>4. CASE Tick
  BY <1>4, TickImplements
<1>5. CASE closeExpire \/ scanCheck \/ scanStep
  BY <1>5, NothingMoves DEF closeExpire, scanCheck, scanStep, walk
<1>6. CASE handleExpire
  <2>1. CASE map[expfd] # None
    <3>1. expfd \in Fd
      BY <1>6 DEF handleExpire, IInv, WalkInv
    <3> QED BY <3>1, <2>1, <1>6, RemovedImplements DEF handleExpire, Abstract!Next
  <2>2. CASE map[expfd] = None
    BY <2>2, <1>6, NothingMoves DEF handleExpire
  <2> QED BY <2>1, <2>2
<1>7. CASE UNCHANGED vars
  BY <1>7, NothingMoves DEF vars
<1> QED BY <1>1, <1>2, <1>3, <1>4, <1>5, <1>6, <1>7 DEF Next, Scan

(* Every call of TimerManager, the clock and each step of closeExpire does *)
(* to the order of the descriptors what TimerList says, or nothing.        *)
THEOREM Implementation == Spec => ImplementsTimerList
<1>1. Init => IInv /\ Chained /\ Abstract!Init
  BY InitIInv, InitImplements
<1>2. IInv /\ Chained /\ [Next]_vars
        => IInv' /\ Chained' /\ [Abstract!Next]_Abstract!vars
  BY StepIInv, StepImplements
<1> QED BY <1>1, <1>2, PTL DEF Spec, ImplementsTimerList, Abstract!Spec
=============================================================================
