---------------------------- MODULE TimerManager ----------------------------
(***************************************************************************)
(* TimerManager: one timer per open descriptor on a shared list.  Worker   *)
(* threads refresh and remove timers while the main thread walks the list  *)
(* from its tail in closeExpire, holding the mutex for each pointer it     *)
(* reads but for nothing longer: between two of its steps any worker may   *)
(* move or remove the timer it stands on.                                  *)
(*                                                                         *)
(* Callers are constrained only as the asserts of the code constrain them  *)
(* (a descriptor is added when it has no timer, refreshed and removed when *)
(* it has one) and by which thread calls what: new connections are added   *)
(* by the thread that runs closeExpire, hence never during a walk.         *)
(***************************************************************************)
EXTENDS TimerLinks, Naturals

CONSTANTS Fd,      \* descriptors of accepted sockets
          None,    \* "no timer", a null spTimer
          Timeout  \* TcpServer's TIMEOUT, in clock ticks

ASSUME NoneDistinct == None \notin Node
ASSUME TimeoutNat == Timeout \in Nat

VARIABLES list,    \* the linked list
          map,     \* _map: descriptor -> Timer
          fdof,    \* Timer::_fd
          age,     \* time since Timer::_now, counted up to Timeout + 1
          pc,      \* where closeExpire is
          cursor,  \* its local `timer'
          expfd    \* its local `fd'

vars == <<list, map, fdof, age, pc, cursor, expfd>>

Linked == {map[fd] : fd \in Fd} \ {None}

(* Timer::isTimeout.  A longer time makes no difference to it, so age stops *)
(* counting one above Timeout.                                             *)
isTimeout(t) == age[t] > Timeout

TypeOK == /\ list \in List
          /\ map \in [Fd -> Timer \cup {None}]
          /\ fdof \in [Timer -> Fd \cup {None}]
          /\ age \in [Timer -> 0..(Timeout + 1)]
          /\ pc \in {"idle", "check", "step", "expire"}
          /\ cursor \in Timer \cup {HeadNode}
          /\ expfd \in Fd \cup {None}

Init == /\ list = EmptyList
        /\ map = [fd \in Fd |-> None]
        /\ fdof = [t \in Timer |-> None]
        /\ age = [t \in Timer |-> 0]
        /\ pc = "idle"
        /\ cursor = HeadNode
        /\ expfd = None

-----------------------------------------------------------------------------
(* make_shared: an object that is not on the list, and as nothing refers   *)
(* to those between two walks, it does not matter which.                   *)
fresh == CHOOSE t \in Timer : t \notin Linked

(* The main thread accepts a connection. *)
addTimer(fd) ==
  /\ pc = "idle"
  /\ map[fd] = None
  /\ Timer \ Linked # {}
  /\ list' = addToHead(list, fresh)
  /\ map' = [map EXCEPT ![fd] = fresh]
  /\ fdof' = [fdof EXCEPT ![fresh] = fd]
  /\ age' = [age EXCEPT ![fresh] = 0]
  /\ UNCHANGED <<pc, cursor, expfd>>

(* A worker reads from or writes to the connection. *)
renew(fd, l, a) ==
  /\ map[fd] # None
  /\ list' = l
  /\ age' = a
  /\ UNCHANGED <<map, fdof, pc, cursor, expfd>>

moved(fd) == moveToHead(list, map[fd])
updated(fd) == [age EXCEPT ![map[fd]] = 0]

updateTimerInPlace(fd) == renew(fd, list, updated(fd))  \* Mistake: the timer stays where it is.
updateTimerStale(fd) == renew(fd, moved(fd), age)  \* Mistake: Timer::update is not called.
updateTimer(fd) == renew(fd, moved(fd), updated(fd))

(* What rmTimer changes, whoever calls it. *)
removed(fd) == /\ list' = unlink(list, map[fd])
               /\ map' = [map EXCEPT ![fd] = None]

(* A worker closes the connection. *)
drop(fd, f) ==
  /\ map[fd] # None
  /\ removed(fd)
  /\ fdof' = f
  /\ UNCHANGED <<age, pc, cursor, expfd>>

rmTimerClearing(fd) == drop(fd, [fdof EXCEPT ![map[fd]] = None])  \* Mistake: clears it, too.
rmTimer(fd) == drop(fd, fdof)

(* The clock advances; it is taken to be monotonic (see README).           *)
Tick ==
  /\ age' = [t \in Timer |-> IF isTimeout(t) THEN age[t] ELSE age[t] + 1]
  /\ UNCHANGED <<list, map, fdof, pc, cursor, expfd>>

-----------------------------------------------------------------------------
(* The cursor moves on to n. *)
walk(from, to, n) ==
  /\ pc = from /\ pc' = to
  /\ cursor' = n
  /\ UNCHANGED <<list, map, fdof, age, expfd>>

closeExpireLate ==  \* Mistake: starts one timer too far.
  walk("idle", "check", list.last[list.last[TailNode]])

(* closeExpire, called again and again by the main loop. *)
closeExpire == walk("idle", "check", list.last[TailNode])

(* The loop condition, the isTimeout that is called without the mutex, and *)
(* getfd, which reads a field that never changes.                          *)
scanCheck ==
  /\ pc = "check"
  /\ IF cursor = HeadNode \/ ~isTimeout(cursor)
     THEN pc' = "idle" /\ cursor' = HeadNode /\ UNCHANGED expfd
     ELSE pc' = "step" /\ expfd' = fdof[cursor] /\ UNCHANGED cursor
  /\ UNCHANGED <<list, map, fdof, age>>

scanStepForward == walk("step", "expire", list.next[cursor])  \* Mistake: towards the tail.
scanStep == walk("step", "expire", list.last[cursor])

(* The callback: the server closes the connection, unless a worker already *)
(* has.                                                                    *)
handleExpire ==
  /\ pc = "expire"
  /\ IF map[expfd] # None THEN removed(expfd) ELSE UNCHANGED <<list, map>>
  /\ pc' = "check"
  /\ expfd' = None
  /\ UNCHANGED <<fdof, age, cursor>>

Scan == closeExpire \/ scanCheck \/ scanStep \/ handleExpire

Next == \/ Scan
        \/ Tick
        \/ \E fd \in Fd : \/ addTimer(fd)
                          \/ updateTimer(fd)
                          \/ rmTimer(fd)

(* The main loop calls closeExpire at least every TIMEOUT/10: epoll_wait   *)
(* has that timeout, and no call in the loop waits for a client.           *)
Spec == Init /\ [][Next]_vars /\ WF_vars(Scan)

-----------------------------------------------------------------------------
expired(fd) == map[fd] # None /\ isTimeout(map[fd])

(* The list is one chain through exactly the timers of the map, and each   *)
(* timer is the one of its own descriptor, whatever the workers do while   *)
(* closeExpire holds a pointer into it: no timer is lost to the walk, none *)
(* is visited forever.                                                     *)
ListInv == /\ WellLinked(list, Linked)
           /\ \A fd \in Fd : map[fd] # None => fdof[map[fd]] = fd

(* closeExpire never reaches a null pointer or the tail sentinel, and the   *)
(* descriptor it closes is that of a connection, even when a worker has    *)
(* just taken the timer under its cursor off the list.                     *)
WalkInv == /\ \A n \in Node : list.last[n] # TailNode
           /\ \A t \in Timer : (\E n \in Node : list.last[n] = t) => fdof[t] \in Fd
           /\ cursor \in Timer => fdof[cursor] \in Fd
           /\ pc \in {"step", "expire"} => expfd \in Fd
           /\ pc = "step" => cursor \in Timer

(* From head to tail the time left decreases, which is what lets           *)
(* closeExpire stop at the first timer that has some left (ReadMe.md:41).  *)
Sorted == \A t \in Linked :
            list.last[t] # HeadNode => age[list.last[t]] =< age[t]

(* A connection whose time has run out is eventually closed, or some       *)
(* worker has been active on it; a walk cut short by a worker that moved   *)
(* the timer under the cursor does not keep an expired timer forever.      *)
ExpiredIsClosed ==
  \A fd \in Fd : expired(fd) ~> ~expired(fd)
=============================================================================
