-------------------------- MODULE TcpServerProofs ---------------------------
(***************************************************************************)
(* For any number of descriptors, connections and worker threads, whatever *)
(* the clients do and whenever timers run out (Spec, not QuietSpec): the   *)
(* types; the tables, that is, which socket, timer and slot a descriptor   *)
(* has, and that no descriptor is closed twice; the order of the timer     *)
(* list, which rests on them, since the list holds no timer twice because  *)
(* no connection owns two descriptors; and that it implements TimerList.   *)
(***************************************************************************)
EXTENDS TcpServerList, TimerLinksProofs

(* A thread goes to l with fd f and conn c.                                *)
LEMMA SetLocals ==
  ASSUME LocalsOK, NEW t \in Thread, NEW l, NEW f, NEW c,
         pc' = [pc EXCEPT ![t] = l], lfd' = [lfd EXCEPT ![t] = f],
         lconn' = [lconn EXCEPT ![t] = c],
         l \in IF t = Main THEN MainPc ELSE WorkerPc,
         f \in IF l \in outside THEN {None} ELSE Fd,
         c \in IF l \in untested THEN Conn \cup {None} ELSE Conn
  PROVE  LocalsOK'
<1>1. /\ pc' \in [Thread -> WorkerPc \cup MainPc]
      /\ lfd' \in [Thread -> Fd \cup {None}]
      /\ lconn' \in [Thread -> Conn \cup {None}]
  BY DEF LocalsOK
<1>2. ASSUME NEW u \in Thread
      PROVE  /\ pc'[u] \in IF u = Main THEN MainPc ELSE WorkerPc
             /\ lfd'[u] \in IF pc'[u] \in outside THEN {None} ELSE Fd
             /\ lconn'[u] \in IF pc'[u] \in untested THEN Conn \cup {None} ELSE Conn
  <2>1. CASE u = t
    BY <2>1 DEF LocalsOK
  <2>2. CASE u # t
    BY <2>2 DEF LocalsOK
  <2> QED BY <2>1, <2>2
<1> QED BY <1>1, <1>2 DEF LocalsOK

LEMMA ReturnLocals == ASSUME LocalsOK, NEW t \in Thread, return(t) PROVE LocalsOK'
<1> DEFINE l == IF t = Main THEN "scan" ELSE "idle"
<1>1. l \in (IF t = Main THEN MainPc ELSE WorkerPc) /\ l \in outside /\ l \in untested
  BY DEF MainPc, WorkerPc, outside, untested
<1> QED BY <1>1, SetLocals DEF return, goto

LEMMA GotoLocals ==
  ASSUME LocalsOK, NEW t \in Thread, NEW l, goto(t, l), UNCHANGED <<lfd, lconn>>,
         l \in IF t = Main THEN MainPc ELSE WorkerPc,
         l \notin outside, pc[t] \notin outside,
         pc[t] \in untested => l \in untested
  PROVE  LocalsOK'
<1>1. lfd' = [lfd EXCEPT ![t] = lfd[t]] /\ lconn' = [lconn EXCEPT ![t] = lconn[t]]
  BY DEF LocalsOK
<1>2. lfd[t] \in Fd /\ lconn[t] \in IF l \in untested THEN Conn \cup {None} ELSE Conn
  BY DEF LocalsOK
<1> QED BY <1>1, <1>2, SetLocals DEF goto

LEMMA LoadLocals ==
  ASSUME StateOK, LocalsOK, NEW t \in Thread, NEW l, load(t, l), pc[t] \notin outside,
         l \in IF t = Main THEN MainPc ELSE WorkerPc, l \notin untested
  PROVE  LocalsOK'
<1>1. CASE slots[lfd[t]] = None /\ ~fail("torn")
  BY <1>1, ReturnLocals DEF load
<1>2. CASE slots[lfd[t]] # None /\ ~fail("torn")
  <2>1. lfd' = [lfd EXCEPT ![t] = lfd[t]]
    BY <1>2 DEF LocalsOK, load
  <2>2. lfd[t] \in Fd /\ slots[lfd[t]] \in Conn
    BY <1>2 DEF LocalsOK, StateOK
  <2>3. l \notin outside
    BY DEF untested
  <2> QED BY <1>2, <2>1, <2>2, <2>3, SetLocals DEF load, goto
<1>3. CASE fail("torn")
  BY <1>3 DEF fail, LocalsOK
<1> QED BY <1>1, <1>2, <1>3

(* Where handleNewConn is before it has added the timer.                   *)
newPc == {"nc_slot", "nc_timer"}

(* Every connection that a slot, a timer, the queue or a pointer of the    *)
(* list refers to was accepted on some descriptor.                         *)
FdKnown ==
  /\ \A fd \in Fd : slots[fd] # None => fdof[slots[fd]] \in Fd
  /\ \A fd \in Fd : map[fd] # None => fdof[map[fd]] \in Fd
  /\ \A i \in 1..Len(queue) : queue[i] # None => fdof[queue[i]] \in Fd
  /\ \A n \in Node : /\ list.last[n] # TailNode
                     /\ (list.last[n] \in Conn => fdof[list.last[n]] \in Fd)
  /\ cursor # TailNode /\ (cursor \in Conn => fdof[cursor] \in Fd)
  /\ pc[Main] = "step" => cursor \in Conn
  /\ pc[Main] \in newPc => fdof[lconn[Main]] \in Fd

TypeInv == StateOK /\ LocalsOK /\ FdKnown

LEMMA InitTypeInv == Init => TypeInv
<1> SUFFICES ASSUME Init PROVE TypeInv
  OBVIOUS
<1>1. EmptyList \in List /\ \A n \in Node : EmptyList.last[n] = HeadNode
  BY EmptyIsWellLinked DEF EmptyList
<1>2. StateOK
  BY <1>1 DEF Init, StateOK, Conn, Node
<1>3. LocalsOK
  BY NamesDistinct DEF Init, LocalsOK, Thread, MainPc, WorkerPc, outside, untested
<1>4. FdKnown
  BY <1>1, SentinelsDistinct DEF Init, FdKnown, newPc, Conn, Thread
<1> QED BY <1>2, <1>3, <1>4 DEF TypeInv

(* What a change of the list under the timer of c keeps of FdKnown.        *)
LEMMA LastKnown ==
  ASSUME TypeInv, NEW c \in Conn, fdof[c] \in Fd, UNCHANGED fdof,
         list' \in {addToHead(list, c), unlink(list, c), moveToHead(list, c)}
  PROVE  /\ list' \in List
         /\ \A n \in Node : /\ list'.last[n] # TailNode
                            /\ (list'.last[n] \in Conn => fdof'[list'.last[n]] \in Fd)
<1>1. list \in List /\ c \in Timer /\ c \in Node /\ c # TailNode
  BY SentinelsDistinct DEF TypeInv, StateOK, Conn, Node
<1>2. list' \in List
  BY <1>1, LinksType
<1>3. \A n \in Node : list'.last[n] \in {list.last[n], list.last[c], c, HeadNode}
  BY <1>1, LastValues
<1>4. HeadNode # TailNode /\ HeadNode \notin Conn
  BY SentinelsDistinct DEF Conn
<1> QED BY <1>1, <1>2, <1>3, <1>4 DEF TypeInv, FdKnown

(* A step that only moves a thread, not the main one to or within a walk.  *)
LEMMA SameKnown ==
  ASSUME FdKnown, map' = map, fdof' = fdof, queue' = queue, list' = list, cursor' = cursor,
         \A fd \in Fd : slots'[fd] \in {slots[fd], None},
         \/ pc'[Main] \notin {"step"} \cup newPc
         \/ pc'[Main] = pc[Main] /\ lconn'[Main] = lconn[Main]
  PROVE  FdKnown'
<1>1. \A fd \in Fd : slots'[fd] # None => fdof'[slots'[fd]] \in Fd
  <2> TAKE fd \in Fd
  <2>1. CASE slots'[fd] = None
    BY <2>1
  <2>2. CASE slots'[fd] = slots[fd]
    BY <2>2 DEF FdKnown
  <2> QED BY <2>1, <2>2
<1>2. pc'[Main] = "step" => cursor' \in Conn
  BY DEF FdKnown
<1>3. pc'[Main] \in newPc => fdof'[lconn'[Main]] \in Fd
  BY DEF FdKnown
<1>4. /\ \A fd \in Fd : map'[fd] # None => fdof'[map'[fd]] \in Fd
      /\ \A i \in 1..Len(queue') : queue'[i] # None => fdof'[queue'[i]] \in Fd
  BY DEF FdKnown
<1>5. /\ \A n \in Node : /\ list'.last[n] # TailNode
                         /\ (list'.last[n] \in Conn => fdof'[list'.last[n]] \in Fd)
      /\ cursor' # TailNode /\ (cursor' \in Conn => fdof'[cursor'] \in Fd)
  BY DEF FdKnown
<1> QED BY <1>1, <1>2, <1>3, <1>4, <1>5 DEF FdKnown

-----------------------------------------------------------------------------
(* The steps of a handler that touch neither the timers nor the queue.     *)
plain(t) ==
  \/ closeLoad(t) \/ closeSlot(t) \/ Clear(t) \/ closeFd(t)
  \/ /\ t \in Worker
     /\ requestLoad(t) \/ Read(t) \/ processCore(t) \/ writeLoad(t) \/ Write(t)
          \/ armOut(t) \/ finish(t)

LEMMA PlainLocals == ASSUME TypeInv, NEW t \in Thread, plain(t) PROVE LocalsOK'
<1> USE NamesDistinct DEF TypeInv, at, Thread, MainPc, WorkerPc, closing, outside, untested
<1>1. CASE closeLoad(t)
  BY <1>1, LoadLocals DEF closeLoad
<1>2. CASE closeSlot(t)
  BY <1>2, GotoLocals DEF closeSlot, storeSlots
<1>3. CASE Clear(t)
  BY <1>3, GotoLocals DEF Clear
<1>4. CASE closeFd(t)
  BY <1>4, ReturnLocals DEF closeFd
<1>5. CASE t \in Worker /\ requestLoad(t)
  BY <1>5, LoadLocals DEF requestLoad
<1>6. CASE t \in Worker /\ Read(t)
  BY <1>6, GotoLocals DEF Read
<1>7. CASE t \in Worker /\ processCore(t)
  <2>1. CASE processNone(t)
    BY <2>1, ReturnLocals DEF processNone
  <2>2. CASE processSome(t)
    BY <1>7, <2>2, GotoLocals DEF processSome, respond
  <2> QED BY <1>7, <2>1, <2>2 DEF processCore
<1>8. CASE t \in Worker /\ writeLoad(t)
  BY <1>8, LoadLocals DEF writeLoad
<1>9. CASE t \in Worker /\ Write(t)
  <2>1. CASE writeAll(t)
    BY <1>9, <2>1, GotoLocals DEF writeAll, unchangedByWrite
  <2>2. CASE writeSome(t)
    BY <1>9, <2>2, GotoLocals DEF writeSome, unchangedByWrite
  <2>3. CASE writeError(t)
    BY <1>9, <2>3, GotoLocals DEF writeError, unchangedByWrite
  <2> QED BY <1>9, <2>1, <2>2, <2>3 DEF Write
<1>10. CASE t \in Worker /\ armOut(t)
  BY <1>10, ReturnLocals DEF armOut
<1>11. CASE t \in Worker /\ finish(t)
  BY <1>11, GotoLocals, ReturnLocals DEF finish
<1> QED
  BY <1>1, <1>2, <1>3, <1>4, <1>5, <1>6, <1>7, <1>8, <1>9, <1>10, <1>11 DEF plain

LEMMA PlainState == ASSUME TypeInv, NEW t \in Thread, plain(t) PROVE StateOK'
<1> USE DEF TypeInv, StateOK, kernel, timers, data
<1>1. CASE closeLoad(t)
  BY <1>1 DEF closeLoad, load, fail
<1>2. CASE closeSlot(t)
  BY <1>2 DEF closeSlot, storeSlots
<1>3. CASE Clear(t)
  BY <1>3 DEF Clear
<1>4. CASE closeFd(t)
  BY <1>4 DEF closeFd
<1>5. CASE requestLoad(t)
  BY <1>5 DEF requestLoad, load, fail
<1>6. CASE Read(t)
  BY <1>6 DEF Read
<1>7. CASE processNone(t)
  BY <1>7 DEF processNone
<1>8. CASE processSome(t)
  <2>1. PICK k \in {TRUE, FALSE, keep[lconn[t]]} : keep' = [keep EXCEPT ![lconn[t]] = k]
    BY <1>8 DEF processSome, respond
  <2>2. lconn[t] \in Conn
    BY <1>8 DEF processSome, respond, at, LocalsOK, untested, outside
  <2> QED BY <1>8, <2>1, <2>2 DEF processSome, respond
<1>9. CASE writeLoad(t)
  BY <1>9 DEF writeLoad, load, fail
<1>10. CASE Write(t)
  BY <1>10 DEF Write, writeAll, writeSome, writeError, unchangedByWrite
<1>11. CASE armOut(t)
  BY <1>11 DEF armOut, modEpoll
<1>12. CASE finish(t)
  BY <1>12 DEF finish, modEpoll
<1> QED
  BY <1>1, <1>2, <1>3, <1>4, <1>5, <1>6, <1>7, <1>8, <1>9, <1>10, <1>11, <1>12
     DEF plain, processCore

(* None of them takes the main thread to, or moves it at, the two places   *)
(* FdKnown speaks of.                                                      *)
LEMMA PlainKnown == ASSUME TypeInv, NEW t \in Thread, plain(t) PROVE FdKnown'
<1>1. /\ \A fd \in Fd : slots'[fd] \in {slots[fd], None}
      /\ map' = map /\ fdof' = fdof /\ queue' = queue /\ list' = list /\ cursor' = cursor
  BY DEF plain, closeLoad, closeSlot, storeSlots, Clear, closeFd, requestLoad, Read, processCore,
         processNone, processSome, respond, writeLoad, Write, writeAll, writeSome, writeError,
         unchangedByWrite, armOut, finish, timers, TypeInv, StateOK
<1>2. \/ pc'[Main] \notin {"step"} \cup newPc
      \/ pc'[Main] = pc[Main] /\ lconn'[Main] = lconn[Main]
  <2>1. CASE t = Main
    BY <2>1, NamesDistinct
       DEF plain, closeLoad, closeSlot, storeSlots, Clear, closeFd, goto, return, load, fail,
           TypeInv,
           LocalsOK, Thread, newPc
  <2>2. CASE t # Main
    BY <2>2
       DEF plain, closeLoad, closeSlot, storeSlots, Clear, closeFd, requestLoad, Read, processCore,
           processNone, processSome, respond, writeLoad, Write, writeAll, writeSome, writeError,
           unchangedByWrite, armOut, finish, goto, return, load, fail, TypeInv, LocalsOK,
           Thread
  <2> QED BY <2>1, <2>2
<1> QED BY <1>1, <1>2, SameKnown DEF TypeInv

LEMMA PlainType == ASSUME TypeInv, NEW t \in Thread, plain(t) PROVE TypeInv'
  BY PlainLocals, PlainState, PlainKnown DEF TypeInv

-----------------------------------------------------------------------------
(* The steps of a handler that do. *)
LEMMA HandleEventType == ASSUME TypeInv, NEW t \in Worker, handleEvent(t) PROVE TypeInv'
<1> USE DEF TypeInv
<1>1. LocalsOK'
  <2>1. event[lconn[t]] \in {"in", "out", "err"}
    BY DEF handleEvent, at, StateOK, LocalsOK, untested, outside, Thread
  <2>2. \E l \in {"req_load", "wr_load", "cl_load"} : goto(t, l)
    BY <2>1 DEF handleEvent
  <2>3. /\ lconn' = [lconn EXCEPT ![t] = None]
        /\ lfd' = [lfd EXCEPT ![t] = lfd[t]] /\ lfd[t] \in Fd
    BY DEF handleEvent, at, LocalsOK, outside, Thread
  <2> QED BY <2>2, <2>3, SetLocals, NamesDistinct
     DEF goto, Thread, WorkerPc, closing, outside, untested
<1>2. StateOK'
  BY DEF handleEvent, StateOK, kernel, timers, data
<1>3. FdKnown'
  BY SameKnown, NamesDistinct DEF handleEvent, timers, goto, LocalsOK, Thread
<1> QED BY <1>1, <1>2, <1>3

LEMMA GetTaskType == ASSUME TypeInv, NEW t \in Worker, getTask(t) PROVE TypeInv'
<1> USE DEF TypeInv
<1>1. LocalsOK'
  <2>1. queue # <<>> /\ Head(queue) \in Conn \cup {None}
    BY DEF getTask, runTask, StateOK
  <2>2. CASE Head(queue) = None
    BY <2>2 DEF getTask, runTask, locals, LocalsOK
  <2>3. CASE Head(queue) # None
    <3>1. fdof[Head(queue)] \in Fd
      BY <2>1, <2>3 DEF FdKnown, StateOK
    <3> QED BY <2>1, <2>3, <3>1, SetLocals, NamesDistinct
            DEF getTask, runTask, goto, Thread, WorkerPc, outside, untested
  <2> QED BY <2>2, <2>3
<1>2. StateOK'
  BY DEF getTask, runTask, StateOK, kernel, timers, data
<1>3. FdKnown'
  <2>1. queue \in Seq(Conn \cup {None}) /\ queue # <<>> /\ queue' = Tail(queue)
    BY DEF getTask, runTask, StateOK
  <2>2. \A i \in 1..Len(queue') : i + 1 \in 1..Len(queue) /\ queue'[i] = queue[i + 1]
    BY <2>1
  <2>3. /\ UNCHANGED <<slots, map, fdof, list, cursor>>
        /\ pc'[Main] = pc[Main] /\ lconn'[Main] = lconn[Main]
    BY NamesDistinct DEF getTask, runTask, timers, locals, goto, LocalsOK, Thread
  <2> QED BY <2>2, <2>3 DEF FdKnown
<1> QED BY <1>1, <1>2, <1>3

LEMMA CloseTimerType == ASSUME TypeInv, NEW t \in Thread, closeTimer(t) PROVE TypeInv'
<1> USE DEF TypeInv
<1>1. /\ lfd[t] \in Fd /\ lconn[t] \in Conn /\ t \in Thread
      /\ map[lfd[t]] # None => map[lfd[t]] \in Conn /\ fdof[map[lfd[t]]] \in Fd
  <2>1. t \in Thread /\ lfd[t] \in Fd /\ lconn[t] \in Conn
    BY DEF closeTimer, at, LocalsOK, untested, outside, Thread
  <2>2. map[lfd[t]] # None => map[lfd[t]] \in Conn
    BY <2>1 DEF StateOK
  <2>3. map[lfd[t]] # None => fdof[map[lfd[t]]] \in Fd
    BY <2>1 DEF FdKnown
  <2> QED BY <2>1, <2>2, <2>3
<1>2. CASE hasTimer(lfd[t])
  <2>1. removed(lfd[t]) /\ goto(t, "cl_slot") /\ UNCHANGED <<lfd, lconn, crash>>
    BY <1>2 DEF closeTimer
  <2>2. LocalsOK'
    BY <1>1, <2>1, GotoLocals, NamesDistinct
       DEF closeTimer, at, Thread, MainPc, WorkerPc, closing, outside, untested
  <2>3. /\ list' \in List
        /\ \A n \in Node : /\ list'.last[n] # TailNode
                           /\ (list'.last[n] \in Conn => fdof'[list'.last[n]] \in Fd)
    BY <1>1, <1>2, <2>1, LastKnown DEF removed, unmapped, hasTimer
  <2>4. StateOK'
    BY <1>1, <1>2, <2>1, <2>3 DEF closeTimer, removed, unmapped, hasTimer, StateOK, kernel, data
  <2>5. FdKnown'
    BY <1>1, <2>1, <2>3, NamesDistinct, SMTT(30)
       DEF closeTimer, removed, unmapped, FdKnown, StateOK, LocalsOK, goto, at, Thread, newPc
  <2> QED BY <2>2, <2>4, <2>5
<1>3. CASE ~hasTimer(lfd[t])
  <2>1. crash' = "assert" /\ UNCHANGED <<pc, lfd, lconn, timers>>
    BY <1>3 DEF closeTimer, fail
  <2>2. LocalsOK'
    BY <2>1 DEF LocalsOK
  <2>3. StateOK'
    BY <1>1, <2>1 DEF closeTimer, StateOK, kernel, data, timers
  <2>4. FdKnown'
    BY <2>1 DEF closeTimer, timers, FdKnown
  <2> QED BY <2>2, <2>3, <2>4
<1> QED BY <1>2, <1>3

LEMMA RequestTimerType == ASSUME TypeInv, NEW t \in Worker, requestTimer(t) PROVE TypeInv'
<1> USE DEF TypeInv
<1>1. /\ lfd[t] \in Fd /\ lconn[t] \in Conn /\ t \in Thread
      /\ map[lfd[t]] # None => map[lfd[t]] \in Conn /\ fdof[map[lfd[t]]] \in Fd
  <2>1. t \in Thread /\ lfd[t] \in Fd /\ lconn[t] \in Conn
    BY DEF requestTimer, at, LocalsOK, untested, outside, Thread
  <2>2. map[lfd[t]] # None => map[lfd[t]] \in Conn
    BY <2>1 DEF StateOK
  <2>3. map[lfd[t]] # None => fdof[map[lfd[t]]] \in Fd
    BY <2>1 DEF FdKnown
  <2> QED BY <2>1, <2>2, <2>3
<1>2. CASE hasTimer(lfd[t])
  <2>1. updated(lfd[t]) /\ goto(t, "read") /\ UNCHANGED <<lfd, lconn, crash>>
    BY <1>2 DEF requestTimer, refresh
  <2>2. LocalsOK'
    BY <1>1, <2>1, GotoLocals, NamesDistinct
       DEF requestTimer, refresh, at, Thread, MainPc, WorkerPc, closing, outside, untested
  <2>3. /\ list' \in List
        /\ \A n \in Node : /\ list'.last[n] # TailNode
                           /\ (list'.last[n] \in Conn => fdof'[list'.last[n]] \in Fd)
    BY <1>1, <1>2, <2>1, LastKnown DEF updated, hasTimer
  <2>4. StateOK'
    BY <1>1, <1>2, <2>1, <2>3
       DEF requestTimer, refresh, updated, hasTimer, StateOK, kernel, data
  <2>5. FdKnown'
    BY <1>1, <2>1, <2>3, NamesDistinct
       DEF requestTimer, refresh, updated, FdKnown, StateOK, LocalsOK, goto, at, Thread
  <2> QED BY <2>2, <2>4, <2>5
<1>3. CASE ~hasTimer(lfd[t])
  <2>1. crash' = "assert" /\ UNCHANGED <<pc, lfd, lconn, timers>>
    BY <1>3 DEF requestTimer, refresh, fail
  <2>2. LocalsOK'
    BY <2>1 DEF LocalsOK
  <2>3. StateOK'
    BY <1>1, <2>1 DEF requestTimer, refresh, StateOK, kernel, data, timers
  <2>4. FdKnown'
    BY <2>1 DEF requestTimer, refresh, timers, FdKnown
  <2> QED BY <2>2, <2>3, <2>4
<1> QED BY <1>2, <1>3

LEMMA WriteTimerType == ASSUME TypeInv, NEW t \in Worker, writeTimer(t) PROVE TypeInv'
<1> USE DEF TypeInv
<1>1. /\ lfd[t] \in Fd /\ lconn[t] \in Conn /\ t \in Thread
      /\ map[lfd[t]] # None => map[lfd[t]] \in Conn /\ fdof[map[lfd[t]]] \in Fd
  <2>1. t \in Thread /\ lfd[t] \in Fd /\ lconn[t] \in Conn
    BY DEF writeTimer, at, LocalsOK, untested, outside, Thread
  <2>2. map[lfd[t]] # None => map[lfd[t]] \in Conn
    BY <2>1 DEF StateOK
  <2>3. map[lfd[t]] # None => fdof[map[lfd[t]]] \in Fd
    BY <2>1 DEF FdKnown
  <2> QED BY <2>1, <2>2, <2>3
<1>2. CASE hasTimer(lfd[t])
  <2>1. updated(lfd[t]) /\ goto(t, "write") /\ UNCHANGED <<lfd, lconn, crash>>
    BY <1>2 DEF writeTimer, refresh
  <2>2. LocalsOK'
    BY <1>1, <2>1, GotoLocals, NamesDistinct
       DEF writeTimer, refresh, at, Thread, MainPc, WorkerPc, closing, outside, untested
  <2>3. /\ list' \in List
        /\ \A n \in Node : /\ list'.last[n] # TailNode
                           /\ (list'.last[n] \in Conn => fdof'[list'.last[n]] \in Fd)
    BY <1>1, <1>2, <2>1, LastKnown DEF updated, hasTimer
  <2>4. StateOK'
    BY <1>1, <1>2, <2>1, <2>3
       DEF writeTimer, refresh, updated, hasTimer, StateOK, kernel, data
  <2>5. FdKnown'
    BY <1>1, <2>1, <2>3, NamesDistinct
       DEF writeTimer, refresh, updated, FdKnown, StateOK, LocalsOK, goto, at, Thread
  <2> QED BY <2>2, <2>4, <2>5
<1>3. CASE ~hasTimer(lfd[t])
  <2>1. crash' = "assert" /\ UNCHANGED <<pc, lfd, lconn, timers>>
    BY <1>3 DEF writeTimer, refresh, fail
  <2>2. LocalsOK'
    BY <2>1 DEF LocalsOK
  <2>3. StateOK'
    BY <1>1, <2>1 DEF writeTimer, refresh, StateOK, kernel, data, timers
  <2>4. FdKnown'
    BY <2>1 DEF writeTimer, refresh, timers, FdKnown
  <2> QED BY <2>2, <2>3, <2>4
<1> QED BY <1>2, <1>3

-----------------------------------------------------------------------------
(* The steps of the main thread *)

LEMMA CloseExpireType == ASSUME TypeInv, closeExpire PROVE TypeInv'
<1> USE DEF TypeInv
<1>1. LocalsOK'
  <2>1. Main \in Thread /\ lfd[Main] = None /\ lconn[Main] \in Conn \cup {None}
    BY DEF closeExpire, walk, at, LocalsOK, outside, Thread
  <2>2. lfd' = [lfd EXCEPT ![Main] = lfd[Main]] /\ lconn' = [lconn EXCEPT ![Main] = lconn[Main]]
    BY DEF closeExpire, walk, LocalsOK
  <2>3. pc' = [pc EXCEPT ![Main] = "scan"]
    BY DEF closeExpire, walk, goto
  <2> QED BY <2>1, <2>2, <2>3, SetLocals DEF MainPc, outside, untested
<1>2. TailNode \in Node /\ list.last[TailNode] \in Node
  BY DEF StateOK, Node, List
<1>3. StateOK'
  BY <1>2 DEF closeExpire, walk, StateOK, kernel, timers, data
<1>4. FdKnown'
  BY <1>2 DEF closeExpire, walk, FdKnown, timers, goto, LocalsOK, Thread, newPc
<1> QED BY <1>1, <1>3, <1>4

LEMMA ScanCheckType == ASSUME TypeInv, scanCheck PROVE TypeInv'
<1> USE DEF TypeInv
<1>1. Main \in Thread /\ lfd[Main] = None /\ lconn[Main] \in Conn \cup {None}
  BY DEF scanCheck, at, LocalsOK, outside, Thread
<1>2. lconn' = [lconn EXCEPT ![Main] = lconn[Main]]
  BY DEF scanCheck, LocalsOK
<1>3. CASE cursor = HeadNode \/ cursor \notin due
  <2>1. /\ goto(Main, "wait") /\ cursor' = HeadNode
        /\ due' = due \cap Linked /\ lfd' = [lfd EXCEPT ![Main] = None]
    BY <1>1, <1>3 DEF scanCheck, LocalsOK
  <2>2. LocalsOK'
    BY <1>1, <1>2, <2>1, SetLocals DEF goto, MainPc, outside, untested
  <2>3. StateOK'
    BY <2>1 DEF scanCheck, StateOK, kernel, data, Node
  <2>4. FdKnown'
    BY <2>1, SentinelsDistinct DEF scanCheck, FdKnown, goto, LocalsOK, Thread, Conn, newPc
  <2> QED BY <2>2, <2>3, <2>4
<1>4. CASE cursor # HeadNode /\ cursor \in due
  <2>1. goto(Main, "step") /\ lfd' = [lfd EXCEPT ![Main] = fdof[cursor]]
        /\ UNCHANGED <<cursor, due>>
    BY <1>4 DEF scanCheck
  <2>2. cursor \in Conn /\ fdof[cursor] \in Fd
    BY <1>4 DEF StateOK, FdKnown
  <2>3. LocalsOK'
    BY <1>1, <1>2, <2>1, <2>2, SetLocals DEF goto, MainPc, outside, untested
  <2>4. StateOK'
    BY <2>1 DEF scanCheck, StateOK, kernel, data
  <2>5. FdKnown'
    BY <2>1, <2>2 DEF scanCheck, FdKnown, goto, LocalsOK, Thread, newPc
  <2> QED BY <2>3, <2>4, <2>5
<1> QED BY <1>3, <1>4

LEMMA ScanStepType == ASSUME TypeInv, scanStep PROVE TypeInv'
<1> USE DEF TypeInv
<1>1. LocalsOK'
  BY GotoLocals DEF scanStep, walk, at, Thread, MainPc, closing, outside, untested
<1>2. cursor \in Node /\ list.last[cursor] \in Node
  BY DEF StateOK, List
<1>3. StateOK'
  BY <1>2 DEF scanStep, walk, StateOK, kernel, timers, data
<1>4. FdKnown'
  BY <1>2 DEF scanStep, walk, FdKnown, timers, goto, LocalsOK, Thread, newPc
<1> QED BY <1>1, <1>3, <1>4

LEMMA EpollWaitType == ASSUME TypeInv, epollWait PROVE TypeInv'
<1> USE DEF TypeInv
<1>1. LocalsOK'
  <2>1. Main \in Thread /\ lfd[Main] = None /\ lconn[Main] \in Conn \cup {None}
    BY DEF epollWait, fetch, at, LocalsOK, outside, Thread
  <2>2. lfd' = [lfd EXCEPT ![Main] = lfd[Main]] /\ lconn' = [lconn EXCEPT ![Main] = lconn[Main]]
    BY DEF epollWait, fetch, LocalsOK
  <2>3. pc' = [pc EXCEPT ![Main] = "loop"]
    BY DEF epollWait, fetch, goto
  <2> QED BY <2>1, <2>2, <2>3, SetLocals DEF MainPc, outside, untested
<1>2. readyEvents \subseteq Fd \X {"in", "out", "err"}
  BY DEF readyEvents
<1>3. batch' \subseteq (Fd \cup {Listen}) \X {"in", "out", "err"}
  BY <1>2 DEF epollWait, fetch
<1>4. armed' \in [Fd -> {"none", "off", "in", "out"}]
  BY DEF epollWait, fetch, StateOK
<1>5. StateOK'
  BY <1>3, <1>4 DEF epollWait, fetch, StateOK, timers, data
<1>6. FdKnown'
  BY SameKnown DEF epollWait, fetch, timers, goto, LocalsOK, Thread, newPc
<1> QED BY <1>1, <1>5, <1>6

LEMMA DispatchType == ASSUME TypeInv, NEW e \in batch, dispatch(e) PROVE TypeInv'
<1> USE DEF TypeInv
<1>1. e[1] \in Fd /\ e[2] \in {"in", "out", "err"} /\ Main \in Thread
  BY DEF dispatch, StateOK, Thread
<1>2. CASE crash' \in {"null", "torn"} /\ UNCHANGED <<event, pc, lfd, lconn>>
  <2>1. StateOK' /\ LocalsOK'
    BY <1>2 DEF dispatch, StateOK, LocalsOK, kernel, timers
  <2>2. FdKnown'
    BY <1>2, SameKnown DEF dispatch, timers
  <2> QED BY <2>1, <2>2
<1>3. CASE /\ slots[e[1]] # None
           /\ event' = [event EXCEPT ![slots[e[1]]] = e[2]]
           /\ goto(Main, "add_task")
           /\ lfd' = [lfd EXCEPT ![Main] = e[1]]
           /\ UNCHANGED <<lconn, crash>>
  <2>1. LocalsOK'
    <3>1. lconn' = [lconn EXCEPT ![Main] = lconn[Main]] /\ lconn[Main] \in Conn \cup {None}
      BY <1>1, <1>3 DEF LocalsOK
    <3> QED BY <1>1, <1>3, <3>1, SetLocals DEF goto, MainPc, outside, untested
  <2>2. StateOK'
    BY <1>1, <1>3 DEF dispatch, StateOK, kernel, timers
  <2>3. FdKnown'
    BY <1>3, SameKnown DEF dispatch, timers, goto, LocalsOK, Thread, newPc
  <2> QED BY <2>1, <2>2, <2>3
<1> QED BY <1>2, <1>3 DEF dispatch, fail

LEMMA AddTaskType == ASSUME TypeInv, addTask PROVE TypeInv'
<1> USE DEF TypeInv
<1>1. Main \in Thread /\ lfd[Main] \in Fd /\ lconn[Main] \in Conn \cup {None}
  BY DEF addTask, at, LocalsOK, outside, Thread
<1>2. slots[lfd[Main]] \in Conn \cup {None} /\ queue \in Seq(Conn \cup {None})
  BY <1>1 DEF StateOK
<1>3. CASE fail("torn") /\ UNCHANGED queue
  <2>1. StateOK' /\ LocalsOK'
    BY <1>3 DEF addTask, fail, StateOK, LocalsOK, kernel, timers, data
  <2>2. FdKnown'
    BY <1>3, SameKnown DEF addTask, fail, timers
  <2> QED BY <2>1, <2>2
<1>4. CASE /\ queue' = Append(queue, slots[lfd[Main]])
           /\ goto(Main, "loop")
           /\ lfd' = [lfd EXCEPT ![Main] = None]
           /\ UNCHANGED <<crash, lconn>>
  <2>1. LocalsOK'
    <3>1. lconn' = [lconn EXCEPT ![Main] = lconn[Main]]
      BY <1>4 DEF LocalsOK
    <3> QED BY <1>1, <1>4, <3>1, SetLocals DEF goto, MainPc, outside, untested
  <2>2. StateOK'
    BY <1>2, <1>4 DEF addTask, StateOK, kernel, timers, data
  <2>3. \A i \in 1..Len(queue') : queue'[i] # None => fdof'[queue'[i]] \in Fd
    <3> TAKE i \in 1..Len(queue')
    <3>1. fdof' = fdof
      BY DEF addTask, timers
    <3>2. \/ i \in 1..Len(queue) /\ queue'[i] = queue[i]
          \/ queue'[i] = slots[lfd[Main]]
      BY <1>2, <1>4
    <3> QED BY <1>1, <3>1, <3>2 DEF FdKnown
  <2>4. FdKnown'
    BY <1>4, <2>3 DEF addTask, FdKnown, timers, goto, LocalsOK, Thread, newPc
  <2> QED BY <2>1, <2>2, <2>4
<1> QED BY <1>3, <1>4 DEF addTask

LEMMA HandleNewConnType ==
  ASSUME TypeInv, NEW fd \in Fd, NEW c \in Conn, handleNewConn(fd, c)
  PROVE  TypeInv'
<1> USE DEF TypeInv
<1>1. LocalsOK'
  BY SetLocals DEF handleNewConn, goto, Thread, MainPc, outside, untested
<1>2. StateOK'
  BY DEF handleNewConn, StateOK, Thread
<1>3. fdof'[c] = fd /\ \A d \in Conn : fdof[d] \in Fd => fdof'[d] \in Fd
  BY DEF handleNewConn, StateOK
<1>4. \A f \in Fd : slots'[f] # None => fdof'[slots'[f]] \in Fd
  BY <1>3 DEF handleNewConn, StateOK, FdKnown
<1>5. \A f \in Fd : map'[f] # None => fdof'[map'[f]] \in Fd
  BY <1>3 DEF handleNewConn, StateOK, FdKnown
<1>6. \A i \in 1..Len(queue') : queue'[i] # None => fdof'[queue'[i]] \in Fd
  <2> TAKE i \in 1..Len(queue')
  <2>1. queue' = queue /\ queue[i] \in Conn \cup {None}
    BY DEF handleNewConn, StateOK
  <2> QED BY <1>3, <2>1 DEF FdKnown
<1>7. \A n \in Node : /\ list'.last[n] # TailNode
                      /\ (list'.last[n] \in Conn => fdof'[list'.last[n]] \in Fd)
  BY <1>3 DEF handleNewConn, FdKnown
<1>8. cursor' # TailNode /\ (cursor' \in Conn => fdof'[cursor'] \in Fd)
  BY <1>3 DEF handleNewConn, FdKnown
<1>9. pc'[Main] = "nc_slot" /\ lconn'[Main] = c
  BY DEF handleNewConn, goto, LocalsOK, Thread
<1>10. FdKnown'
  BY <1>3, <1>4, <1>5, <1>6, <1>7, <1>8, <1>9 DEF FdKnown
<1> QED BY <1>1, <1>2, <1>10

LEMMA NewSlotType == ASSUME TypeInv, newSlot PROVE TypeInv'
<1> USE DEF TypeInv
<1>1. /\ Main \in Thread /\ lfd[Main] \in Fd /\ lconn[Main] \in Conn
      /\ fdof[lconn[Main]] \in Fd
  <2>1. Main \in Thread /\ lfd[Main] \in Fd /\ lconn[Main] \in Conn
    BY DEF newSlot, at, LocalsOK, outside, untested, Thread
  <2> QED BY <2>1 DEF newSlot, at, FdKnown, newPc
<1>2. LocalsOK'
  BY GotoLocals DEF newSlot, at, Thread, MainPc, outside, untested
<1>3. StateOK'
  BY <1>1 DEF newSlot, StateOK, kernel, timers, data
<1>4. \A fd \in Fd : slots'[fd] # None => fdof'[slots'[fd]] \in Fd
  BY <1>1 DEF newSlot, StateOK, FdKnown, timers
<1>5. FdKnown'
  BY <1>1, <1>4 DEF newSlot, FdKnown, timers, goto, LocalsOK, Thread
<1> QED BY <1>2, <1>3, <1>5

LEMMA AcceptFailsType == ASSUME TypeInv, acceptFails PROVE TypeInv'
<1> USE DEF TypeInv
<1>1. StateOK' /\ LocalsOK'
  BY DEF acceptFails, StateOK, LocalsOK, kernel, timers, data, locals
<1>2. FdKnown'
  BY SameKnown DEF acceptFails, timers, locals
<1> QED BY <1>1, <1>2

LEMMA NewTimerType == ASSUME TypeInv, newTimer PROVE TypeInv'
<1> USE DEF TypeInv
<1> DEFINE c == lconn[Main]
<1>1. Main \in Thread /\ lfd[Main] \in Fd /\ c \in Conn /\ fdof[c] \in Fd
  <2>1. Main \in Thread /\ lfd[Main] \in Fd /\ c \in Conn
    BY DEF newTimer, at, LocalsOK, outside, untested, Thread
  <2> QED BY <2>1 DEF newTimer, at, FdKnown, newPc
<1>2. CASE hasTimer(lfd[Main])
  <2>1. crash' = "assert" /\ UNCHANGED <<pc, lfd, lconn, timers>>
    BY <1>2 DEF newTimer, fail
  <2>2. StateOK' /\ LocalsOK'
    BY <2>1 DEF newTimer, StateOK, LocalsOK, kernel, timers, data
  <2>3. FdKnown'
    BY <2>1, SameKnown DEF newTimer, timers
  <2> QED BY <2>2, <2>3
<1>3. CASE ~hasTimer(lfd[Main])
  <2>1. /\ list' = addToHead(list, c)
        /\ map' = [map EXCEPT ![lfd[Main]] = c]
        /\ due' = due \ {c}
        /\ goto(Main, "nc_epoll")
        /\ UNCHANGED <<fdof, crash, lfd, lconn>>
    BY <1>3 DEF newTimer
  <2>2. LocalsOK'
    BY <2>1, GotoLocals DEF newTimer, at, Thread, MainPc, outside, untested
  <2>3. /\ list' \in List
        /\ \A n \in Node : /\ list'.last[n] # TailNode
                           /\ (list'.last[n] \in Conn => fdof'[list'.last[n]] \in Fd)
    BY <1>1, <2>1, LastKnown
  <2>4. StateOK'
    BY <1>1, <2>1, <2>3 DEF newTimer, StateOK, kernel, data
  <2>5. \A f \in Fd : map'[f] # None => fdof'[map'[f]] \in Fd
    BY <1>1, <2>1 DEF StateOK, FdKnown
  <2>6. FdKnown'
    BY <2>1, <2>3, <2>5 DEF newTimer, FdKnown, goto, LocalsOK, Thread, newPc
  <2> QED BY <2>2, <2>4, <2>6
<1> QED BY <1>2, <1>3

LEMMA NewEpollType == ASSUME TypeInv, newEpoll PROVE TypeInv'
<1> USE DEF TypeInv
<1>1. LocalsOK'
  BY SetLocals DEF newEpoll, goto, Thread, MainPc, outside, untested
<1>2. StateOK'
  BY DEF newEpoll, StateOK, timers, data
<1>3. FdKnown'
  BY SameKnown DEF newEpoll, timers, goto, LocalsOK, Thread, newPc
<1> QED BY <1>1, <1>2, <1>3

-----------------------------------------------------------------------------
LEMMA ClientType == ASSUME TypeInv, NEW c \in Conn, Client(c) PROVE TypeInv'
<1> USE DEF TypeInv, unchangedByClient, locals, data
<1>1. LocalsOK'
  BY DEF Client, Connect, Send, HangUp, Drain, Age, LocalsOK
<1>2. StateOK'
  <2>1. CASE Connect(c)
    BY <2>1 DEF Connect, StateOK
  <2>2. CASE Send(c)
    BY <2>2 DEF Send, StateOK
  <2>3. CASE HangUp(c)
    BY <2>3 DEF HangUp, StateOK
  <2>4. CASE Drain(c)
    BY <2>4 DEF Drain, StateOK
  <2>5. CASE Age(c)
    BY <2>5 DEF Age, StateOK
  <2> QED BY <2>1, <2>2, <2>3, <2>4, <2>5 DEF Client
<1>3. FdKnown'
  BY SameKnown DEF Client, Connect, Send, HangUp, Drain, Age
<1> QED BY <1>1, <1>2, <1>3

LEMMA StepType == TypeInv /\ [Next]_vars => TypeInv'
<1> SUFFICES ASSUME TypeInv, [Next]_vars PROVE TypeInv'
  OBVIOUS
<1>1. CASE UNCHANGED vars
  BY <1>1 DEF TypeInv, StateOK, LocalsOK, FdKnown, vars, kernel, timers, data, locals
<1>2. ASSUME NEW t \in Thread, handleClose(t) PROVE TypeInv'
  BY <1>2, PlainType, CloseTimerType DEF handleClose, plain
<1>3. ASSUME NEW t \in Worker, work(t) PROVE TypeInv'
  BY <1>2, <1>3, PlainType, GetTaskType, HandleEventType, RequestTimerType, WriteTimerType
     DEF work, handleRequest, handleWrite, plain, Thread
<1>4. CASE Start
  BY <1>2, <1>4, CloseExpireType, ScanCheckType, ScanStepType, EpollWaitType, DispatchType,
     AddTaskType, HandleNewConnType, AcceptFailsType, NewSlotType, NewTimerType, NewEpollType
     DEF Start, Thread
<1> QED BY <1>1, <1>3, <1>4, ClientType DEF Next, System, Environment

(* Every variable has its type, a thread inside a handler has the fd and   *)
(* the conn the handler expects, and all that the tables, the queue and    *)
(* the walk of closeExpire refer to has been accepted on some descriptor.  *)
THEOREM TypesInvariant == Spec => []TypeInv
  BY InitTypeInv, StepType, PTL DEF Spec

(* Every variable has its type; in particular no handler follows a conn    *)
(* that is null, whatever other threads do to the slot it was loaded from. *)
THEOREM TypeCorrect == Spec => []TypeOK
<1>1. TypeInv => TypeOK
  BY DEF TypeInv, TypeOK
<1> QED BY <1>1, TypesInvariant, PTL

-----------------------------------------------------------------------------
(* The part of handleClose that only one thread per descriptor reaches,    *)
(* since rmTimer has found a timer to remove.                              *)
closerPc == {"cl_slot", "cl_clear", "cl_fd"}
closer(t) == pc[t] \in closerPc

(* TableInv, the inductive invariant: TablesAgree; a socket is that of a    *)
(* connection accepted on its descriptor; *)
SockInv == \A fd \in Fd : sock[fd] # None => fdof[sock[fd]] = fd

(* the one thread that closes a descriptor has taken its timer, then its   *)
(* slot, and the socket is still open;                                     *)
ClosingInv ==
  \A t \in Thread : closer(t) =>
    /\ map[lfd[t]] = None
    /\ sock[lfd[t]] # None
    /\ ~at(t, "cl_slot") => slots[lfd[t]] = None
    /\ \A u \in Thread : closer(u) /\ lfd[u] = lfd[t] => u = t

(* and nobody closes a descriptor that has just been accepted.             *)
AcceptInv ==
  pc[Main] \in newPc =>
    /\ sock[lfd[Main]] = lconn[Main]
    /\ at(Main, "nc_timer") => slots[lfd[Main]] = lconn[Main]
    /\ map[lfd[Main]] = None
    /\ \A u \in Thread : closer(u) => lfd[u] # lfd[Main]

TableInv == TablesAgree /\ SockInv /\ ClosingInv /\ AcceptInv

LEMMA InitTableInv == Init => TableInv
  BY NamesDistinct
     DEF Init, TableInv, TablesAgree, SockInv, ClosingInv, AcceptInv, closer, closerPc, newPc,
         at, Thread

-----------------------------------------------------------------------------
(* What TableInv speaks of stays the same. *)
LEMMA TablesUnchanged ==
  ASSUME TableInv, UNCHANGED <<sock, slots, map, fdof, pc, lfd, lconn>>
  PROVE  TableInv'
<1>1. TablesAgree' /\ SockInv'
  BY DEF TableInv, TablesAgree, finalClose, accepting, SockInv
<1>2. ClosingInv' /\ AcceptInv'
  BY DEF TableInv, ClosingInv, AcceptInv, closer, at
<1> QED BY <1>1, <1>2 DEF TableInv

(* Only thread t moves, neither from nor to a place TableInv speaks of.    *)
LEMMA TablesKept ==
  ASSUME TypeInv, TableInv, NEW t \in Thread, UNCHANGED <<sock, slots, map, fdof>>,
         pc[t] \notin closerPc \cup newPc,
         pc'[t] \notin closerPc \cup newPc,
         \A u \in Thread \ {t} : pc'[u] = pc[u] /\ lfd'[u] = lfd[u] /\ lconn'[u] = lconn[u]
  PROVE  TableInv'
<1>1. Main \in Thread
  BY DEF Thread
<1>2. \A u \in Thread : closer(u) \/ closer(u)' => u # t
  BY DEF closer
<1>3. \A u \in Thread : /\ closer(u)' <=> closer(u)
                        /\ closer(u) => pc'[u] = pc[u] /\ lfd'[u] = lfd[u]
  BY <1>2 DEF closer
<1>4. pc[Main] \in newPc \/ pc'[Main] \in newPc
        => pc'[Main] = pc[Main] /\ lfd'[Main] = lfd[Main] /\ lconn'[Main] = lconn[Main]
  BY <1>1
<1>5. \A fd \in Fd : finalClose(fd) => finalClose(fd)'
  BY <1>3 DEF finalClose, closer, closerPc
<1>6. \A fd \in Fd : accepting(fd) => accepting(fd)'
  BY <1>4 DEF accepting, newPc
<1>7. TablesAgree'
  BY <1>5, <1>6 DEF TableInv, TablesAgree
<1>8. SockInv'
  BY DEF TableInv, SockInv
<1>9. ClosingInv'
  BY <1>3 DEF TableInv, ClosingInv, at
<1>10. AcceptInv'
  BY <1>3, <1>4 DEF TableInv, AcceptInv, at
<1> QED BY <1>7, <1>8, <1>9, <1>10 DEF TableInv

-----------------------------------------------------------------------------
(* handleClose *)

LEMMA CloseLoadTables ==
  ASSUME TypeInv, TableInv, NEW t \in Thread, closeLoad(t) PROVE TableInv'
<1>1. CASE fail("torn")
  BY <1>1, TablesUnchanged DEF closeLoad, fail, kernel, timers
<1>2. CASE ~fail("torn")
  BY <1>2, TablesKept
     DEF closeLoad, at, load, return, goto, kernel, timers, TypeInv, LocalsOK, closerPc, newPc
<1> QED BY <1>1, <1>2

LEMMA CloseTimerTables ==
  ASSUME TypeInv, TableInv, NEW t \in Thread, closeTimer(t) PROVE TableInv'
<1> DEFINE fd == lfd[t]
<1>1. fd \in Fd /\ Main \in Thread /\ map \in [Fd -> Conn \cup {None}]
  BY DEF closeTimer, at, TypeInv, StateOK, LocalsOK, outside, Thread
<1>2. CASE ~hasTimer(fd)
  BY <1>2, TablesUnchanged DEF closeTimer, fail, kernel, timers
<1>3. CASE hasTimer(fd)
  <2>1. /\ map[fd] # None /\ map' = [map EXCEPT ![fd] = None]
        /\ UNCHANGED <<sock, slots, fdof, lfd, lconn>>
    BY <1>3 DEF closeTimer, removed, unmapped, hasTimer, kernel
  <2>2. pc[t] = "cl_timer" /\ pc'[t] = "cl_slot" /\ \A u \in Thread \ {t} : pc'[u] = pc[u]
    BY <1>3 DEF closeTimer, at, goto, TypeInv, LocalsOK
  <2>3. \A u \in Thread : closer(u)' <=> closer(u) \/ u = t
    BY <2>2 DEF closer, closerPc
  <2>4. \A u \in Thread : closer(u) => lfd[u] # fd /\ u # t
    BY <2>1, <2>2 DEF TableInv, ClosingInv, closer, closerPc
  <2>5. pc'[Main] \in newPc => pc'[Main] = pc[Main] /\ lfd[Main] # fd
    BY <1>1, <2>1, <2>2 DEF TableInv, AcceptInv, newPc
  <2>6. sock[fd] # None /\ \A f \in Fd \ {fd} : map'[f] = map[f]
    BY <1>1, <2>1 DEF TableInv, TablesAgree
  <2>7. finalClose(fd)'
    BY <2>1, <2>2 DEF finalClose
  <2>8. \A f \in Fd : (finalClose(f) => finalClose(f)') /\ (accepting(f) => accepting(f)')
    BY <1>1, <2>1, <2>2 DEF finalClose, accepting
  <2>9. TablesAgree'
    BY <1>1, <2>1, <2>6, <2>7, <2>8 DEF TableInv, TablesAgree
  <2>10. SockInv'
    BY <2>1 DEF TableInv, SockInv
  <2>11. ClosingInv'
    <3> SUFFICES ASSUME NEW u \in Thread, closer(u)'
                 PROVE  /\ map'[lfd[u]] = None
                        /\ sock[lfd[u]] # None
                        /\ pc'[u] # "cl_slot" => slots[lfd[u]] = None
                        /\ \A v \in Thread : closer(v)' /\ lfd[v] = lfd[u] => v = u
      BY <2>1 DEF ClosingInv, at
    <3>1. CASE u = t
      BY <1>1, <2>1, <2>2, <2>3, <2>4, <2>6, <3>1
    <3>2. CASE u # t
      <4>1. closer(u) /\ lfd[u] # fd /\ pc'[u] = pc[u]
        BY <2>2, <2>3, <2>4, <3>2
      <4>2. lfd[u] \in Fd
        BY <4>1 DEF closer, closerPc, TypeInv, LocalsOK, outside
      <4> QED BY <2>3, <2>6, <4>1, <4>2 DEF TableInv, ClosingInv, at
    <3> QED BY <3>1, <3>2
  <2>12. AcceptInv'
    <3> SUFFICES ASSUME pc'[Main] \in newPc
                 PROVE  /\ sock[lfd[Main]] = lconn[Main]
                        /\ at(Main, "nc_timer")' => slots[lfd[Main]] = lconn[Main]
                        /\ map'[lfd[Main]] = None
                        /\ \A u \in Thread : closer(u)' => lfd[u] # lfd[Main]
      BY <2>1 DEF AcceptInv
    <3>1. lfd[Main] \in Fd
      BY <1>1, <2>5 DEF newPc, TypeInv, LocalsOK, outside
    <3> QED BY <2>3, <2>5, <2>6, <3>1 DEF TableInv, AcceptInv, at
  <2> QED BY <2>9, <2>10, <2>11, <2>12 DEF TableInv
<1> QED BY <1>2, <1>3

LEMMA CloseSlotTables ==
  ASSUME TypeInv, TableInv, NEW t \in Thread, closeSlot(t) PROVE TableInv'
<1> DEFINE fd == lfd[t]
<1>1. fd \in Fd /\ Main \in Thread /\ slots \in [Fd -> Conn \cup {None}]
  BY DEF closeSlot, storeSlots, at, TypeInv, StateOK, LocalsOK, outside, Thread
<1>2. slots' = [slots EXCEPT ![fd] = None] /\ UNCHANGED <<sock, map, fdof, lfd, lconn>>
  BY DEF closeSlot, storeSlots, kernel, timers
<1>3. pc[t] = "cl_slot" /\ pc'[t] = "cl_clear" /\ \A u \in Thread \ {t} : pc'[u] = pc[u]
  BY DEF closeSlot, storeSlots, at, goto, TypeInv, LocalsOK
<1>4. \A u \in Thread : closer(u)' <=> closer(u)
  BY <1>3 DEF closer, closerPc
<1>5. closer(t) /\ map[fd] = None
  BY <1>3 DEF TableInv, ClosingInv, closer, closerPc
<1>6. \A f \in Fd : (finalClose(f) => finalClose(f)') /\ (accepting(f) => accepting(f)')
  BY <1>1, <1>2, <1>3 DEF finalClose, accepting
<1>7. TablesAgree'
  BY <1>1, <1>2, <1>5, <1>6 DEF TableInv, TablesAgree
<1>8. SockInv'
  BY <1>2 DEF TableInv, SockInv
<1>9. ClosingInv'
  <2> SUFFICES ASSUME NEW u \in Thread, closer(u)
               PROVE  /\ map[lfd[u]] = None
                      /\ sock[lfd[u]] # None
                      /\ pc'[u] # "cl_slot" => slots'[lfd[u]] = None
                      /\ \A v \in Thread : closer(v) /\ lfd[v] = lfd[u] => v = u
    BY <1>2, <1>4 DEF ClosingInv, at
  <2>1. lfd[u] \in Fd
    BY DEF closer, closerPc, TypeInv, LocalsOK, outside
  <2>2. u # t => slots'[lfd[u]] = slots[lfd[u]] /\ pc'[u] = pc[u]
    BY <1>1, <1>2, <1>3, <1>5, <2>1 DEF TableInv, ClosingInv
  <2>3. u = t => slots'[lfd[u]] = None
    BY <1>1, <1>2
  <2> QED BY <2>2, <2>3 DEF TableInv, ClosingInv, at
<1>10. AcceptInv'
  <2> SUFFICES ASSUME pc'[Main] \in newPc
               PROVE  /\ sock[lfd[Main]] = lconn[Main]
                      /\ at(Main, "nc_timer")' => slots'[lfd[Main]] = lconn[Main]
                      /\ map[lfd[Main]] = None
                      /\ \A u \in Thread : closer(u) => lfd[u] # lfd[Main]
    BY <1>2, <1>4 DEF AcceptInv
  <2>1. pc[Main] \in newPc /\ pc'[Main] = pc[Main] /\ lfd[Main] \in Fd
    BY <1>1, <1>3 DEF newPc, TypeInv, LocalsOK, outside
  <2>2. lfd[Main] # fd
    BY <1>5, <2>1 DEF TableInv, AcceptInv
  <2> QED BY <1>1, <1>2, <2>1, <2>2 DEF TableInv, AcceptInv, at
<1> QED BY <1>7, <1>8, <1>9, <1>10 DEF TableInv

LEMMA ClearTables ==
  ASSUME TypeInv, TableInv, NEW t \in Thread, Clear(t) PROVE TableInv'
<1>1. UNCHANGED <<sock, slots, map, fdof, lfd, lconn>>
  BY DEF Clear, kernel, timers
<1>2. pc[t] = "cl_clear" /\ pc'[t] = "cl_fd" /\ \A u \in Thread \ {t} : pc'[u] = pc[u]
  BY DEF Clear, at, goto, TypeInv, LocalsOK
<1>3. \A u \in Thread : (closer(u)' <=> closer(u)) /\ (at(u, "cl_slot")' <=> at(u, "cl_slot"))
  BY <1>2 DEF closer, closerPc, at
<1>4. pc'[Main] \in newPc => pc'[Main] = pc[Main]
  BY <1>2 DEF newPc, Thread
<1>5. \A f \in Fd : (finalClose(f) => finalClose(f)') /\ (accepting(f) => accepting(f)')
  BY <1>1, <1>2 DEF finalClose, accepting, Thread
<1>6. TablesAgree' /\ SockInv'
  BY <1>1, <1>5 DEF TableInv, TablesAgree, SockInv
<1>7. ClosingInv'
  BY <1>1, <1>3 DEF TableInv, ClosingInv
<1>8. AcceptInv'
  BY <1>1, <1>3, <1>4 DEF TableInv, AcceptInv, at
<1> QED BY <1>6, <1>7, <1>8 DEF TableInv

LEMMA CloseFdTables ==
  ASSUME TypeInv, TableInv, NEW t \in Thread, closeFd(t) PROVE TableInv'
<1> DEFINE fd == lfd[t]
<1>1. fd \in Fd /\ Main \in Thread /\ sock \in [Fd -> Conn \cup {None}]
  BY DEF closeFd, at, TypeInv, StateOK, LocalsOK, outside, Thread
<1>2. sock' = [sock EXCEPT ![fd] = None] /\ UNCHANGED <<slots, map, fdof>>
  BY DEF closeFd, timers
<1>3. /\ pc[t] = "cl_fd" /\ pc'[t] \in {"scan", "idle"}
      /\ \A u \in Thread \ {t} : pc'[u] = pc[u] /\ lfd'[u] = lfd[u] /\ lconn'[u] = lconn[u]
  BY DEF closeFd, at, return, goto, TypeInv, LocalsOK
<1>4. closer(t) /\ map[fd] = None /\ slots[fd] = None
  BY <1>3 DEF TableInv, ClosingInv, closer, closerPc, at
<1>5. \A u \in Thread : closer(u)' <=> closer(u) /\ u # t
  BY <1>3 DEF closer, closerPc
<1>6. \A u \in Thread : closer(u)' => lfd'[u] = lfd[u] /\ lfd[u] \in Fd \ {fd}
  <2> TAKE u \in Thread
  <2> HAVE closer(u)'
  <2>1. closer(u) /\ u # t /\ lfd'[u] = lfd[u]
    BY <1>3, <1>5
  <2>2. lfd[u] \in Fd
    BY <2>1 DEF closer, closerPc, TypeInv, LocalsOK, outside
  <2> QED BY <1>4, <2>1, <2>2 DEF TableInv, ClosingInv
<1>7. \A f \in Fd \ {fd} : /\ finalClose(f) => finalClose(f)'
                           /\ accepting(f) => accepting(f)'
  BY <1>1, <1>3 DEF finalClose, accepting
<1>8. \A f \in Fd : IF f = fd THEN sock'[f] = None ELSE sock'[f] = sock[f]
  BY <1>1, <1>2
<1>9. TablesAgree'
  BY <1>1, <1>2, <1>4, <1>7, <1>8 DEF TableInv, TablesAgree
<1>10. SockInv'
  BY <1>2, <1>8 DEF TableInv, SockInv
<1>11. ClosingInv'
  <2> SUFFICES ASSUME NEW u \in Thread, closer(u)'
               PROVE  /\ map[lfd[u]] = None
                      /\ sock'[lfd[u]] # None
                      /\ pc'[u] # "cl_slot" => slots[lfd[u]] = None
                      /\ \A v \in Thread : closer(v)' /\ lfd[v] = lfd[u] => v = u
    BY <1>2, <1>6 DEF ClosingInv, at
  <2>1. closer(u) /\ pc'[u] = pc[u] /\ lfd[u] \in Fd \ {fd}
    BY <1>3, <1>5, <1>6
  <2> QED BY <1>5, <1>8, <2>1 DEF TableInv, ClosingInv, at
<1>12. AcceptInv'
  <2> SUFFICES ASSUME pc'[Main] \in newPc
               PROVE  /\ sock'[lfd'[Main]] = lconn'[Main]
                      /\ at(Main, "nc_timer")' => slots[lfd'[Main]] = lconn'[Main]
                      /\ map[lfd'[Main]] = None
                      /\ \A u \in Thread : closer(u)' => lfd'[u] # lfd'[Main]
    BY <1>2 DEF AcceptInv
  <2>1. /\ pc[Main] \in newPc /\ pc'[Main] = pc[Main] /\ lfd[Main] \in Fd
        /\ lfd'[Main] = lfd[Main] /\ lconn'[Main] = lconn[Main]
    BY <1>1, <1>3 DEF newPc, TypeInv, LocalsOK, outside
  <2>2. lfd[Main] # fd
    BY <1>4, <2>1 DEF TableInv, AcceptInv
  <2> QED BY <1>5, <1>6, <1>8, <2>1, <2>2 DEF TableInv, AcceptInv, at
<1> QED BY <1>9, <1>10, <1>11, <1>12 DEF TableInv

-----------------------------------------------------------------------------
(* The main thread *)

LEMMA HandleNewConnTables ==
  ASSUME TypeInv, TableInv, NEW fd \in Fd, NEW c \in Conn, handleNewConn(fd, c)
  PROVE  TableInv'
<1>1. /\ sock[fd] = None /\ sock' = [sock EXCEPT ![fd] = c]
      /\ slots' = slots /\ fdof' = [fdof EXCEPT ![c] = fd]
      /\ \A f \in Fd : sock[f] # c
      /\ map' = map
  BY DEF handleNewConn, backlog
<1>2. /\ sock \in [Fd -> Conn \cup {None}] /\ slots \in [Fd -> Conn \cup {None}]
      /\ fdof \in [Conn -> Fd \cup {None}] /\ c # None /\ Main \in Thread
  BY NamesDistinct DEF TypeInv, StateOK, Thread, Conn, Node
<1>3. /\ pc[Main] = "loop" /\ pc'[Main] = "nc_slot"
      /\ lfd'[Main] = fd /\ lconn'[Main] = c
      /\ \A u \in Thread \ {Main} : pc'[u] = pc[u] /\ lfd'[u] = lfd[u]
  BY DEF handleNewConn, at, goto, TypeInv, LocalsOK, Thread
<1>4. \A u \in Thread : /\ closer(u)' <=> closer(u)
                        /\ closer(u) => u # Main /\ lfd'[u] = lfd[u] /\ pc'[u] = pc[u]
  BY <1>3 DEF closer, closerPc
<1>5. map[fd] = None /\ slots[fd] = None
  BY <1>1, <1>2 DEF TableInv, TablesAgree, TypeInv, StateOK
<1>6. \A u \in Thread : closer(u) => lfd[u] \in Fd \ {fd}
  <2> TAKE u \in Thread
  <2> HAVE closer(u)
  <2>1. lfd[u] \in Fd
    BY DEF closer, closerPc, TypeInv, LocalsOK, outside
  <2> QED BY <1>1, <2>1 DEF TableInv, ClosingInv
<1>7. \A f \in Fd : IF f = fd THEN sock'[f] = c ELSE sock'[f] = sock[f]
  BY <1>1, <1>2
<1>8. TablesAgree'
  <2>1. accepting(fd)'
    BY <1>3 DEF accepting
  <2>2. \A f \in Fd : (finalClose(f) => finalClose(f)') /\ ~accepting(f)
    BY <1>3, <1>4 DEF finalClose, accepting, closer, closerPc
  <2> QED BY <1>1, <1>5, <1>7, <2>1, <2>2 DEF TableInv, TablesAgree
<1>9. SockInv'
  BY <1>1, <1>2, <1>7 DEF TableInv, SockInv
<1>10. ClosingInv'
  BY <1>1, <1>4, <1>6, <1>7 DEF TableInv, ClosingInv, at
<1>11. AcceptInv'
  BY <1>1, <1>3, <1>4, <1>5, <1>6, <1>7 DEF AcceptInv, at
<1> QED BY <1>8, <1>9, <1>10, <1>11 DEF TableInv

LEMMA NewSlotTables == ASSUME TypeInv, TableInv, newSlot PROVE TableInv'
<1> DEFINE fd == lfd[Main]
           c == lconn[Main]
<1>1. Main \in Thread /\ fd \in Fd /\ c \in Conn /\ slots \in [Fd -> Conn \cup {None}]
  BY DEF newSlot, at, TypeInv, StateOK, LocalsOK, outside, untested, Thread
<1>2. /\ sock[fd] = c /\ map[fd] = None
      /\ \A u \in Thread : closer(u) => lfd[u] # fd
  BY DEF newSlot, at, newPc, TableInv, AcceptInv
<1>3. slots' = [slots EXCEPT ![fd] = c] /\ UNCHANGED <<sock, map, fdof, lfd, lconn>>
  BY DEF newSlot, kernel, timers
<1>4. /\ pc[Main] = "nc_slot" /\ pc'[Main] = "nc_timer"
      /\ \A u \in Thread \ {Main} : pc'[u] = pc[u]
  BY DEF newSlot, at, goto, TypeInv, LocalsOK, Thread
<1>5. \A u \in Thread : (closer(u)' <=> closer(u)) /\ (closer(u) => pc'[u] = pc[u])
  BY <1>4 DEF closer, closerPc
<1>6. \A f \in Fd : IF f = fd THEN slots'[f] = c ELSE slots'[f] = slots[f]
  BY <1>1, <1>3
<1>7. TablesAgree'
  <2>1. \A f \in Fd : (finalClose(f) => finalClose(f)') /\ (accepting(f) => accepting(f)')
    BY <1>3, <1>4, <1>5 DEF finalClose, accepting, closer, closerPc
  <2> QED BY <1>2, <1>3, <1>6, <2>1 DEF TableInv, TablesAgree
<1>8. SockInv'
  BY <1>3 DEF TableInv, SockInv
<1>9. ClosingInv'
  <2>1. \A u \in Thread : closer(u) => lfd[u] \in Fd \ {fd}
    BY <1>2 DEF closer, closerPc, TypeInv, LocalsOK, outside
  <2> QED BY <1>3, <1>5, <1>6, <2>1 DEF TableInv, ClosingInv, at
<1>10. AcceptInv'
  BY <1>1, <1>2, <1>3, <1>5, <1>6 DEF AcceptInv
<1> QED BY <1>7, <1>8, <1>9, <1>10 DEF TableInv

LEMMA NewTimerTables == ASSUME TypeInv, TableInv, newTimer PROVE TableInv'
<1> DEFINE fd == lfd[Main]
           c == lconn[Main]
<1>1. /\ Main \in Thread /\ fd \in Fd /\ c \in Conn /\ map \in [Fd -> Conn \cup {None}]
  BY DEF newTimer, at, TypeInv, StateOK, LocalsOK, outside, untested, Thread
<1>2. /\ sock[fd] = c /\ slots[fd] = c /\ map[fd] = None
      /\ \A u \in Thread : closer(u) => lfd[u] # fd
  BY DEF newTimer, at, newPc, TableInv, AcceptInv
<1>3. map' = [map EXCEPT ![fd] = c] /\ goto(Main, "nc_epoll")
      /\ UNCHANGED <<sock, slots, fdof, lfd, lconn>>
  BY <1>2 DEF newTimer, hasTimer, kernel
<1>4. /\ pc[Main] = "nc_timer" /\ pc'[Main] = "nc_epoll"
      /\ \A u \in Thread \ {Main} : pc'[u] = pc[u]
  BY <1>3 DEF newTimer, at, goto, TypeInv, LocalsOK, Thread
<1>5. \A u \in Thread : (closer(u)' <=> closer(u)) /\ (closer(u) => pc'[u] = pc[u])
  BY <1>4 DEF closer, closerPc
<1>6. \A f \in Fd : IF f = fd THEN map'[f] = c ELSE map'[f] = map[f]
  BY <1>1, <1>3
<1>7. TablesAgree'
  <2>1. c # None
    BY <1>1, NamesDistinct DEF Conn, Node
  <2>2. \A f \in Fd : (finalClose(f) => finalClose(f)') /\ (accepting(f) => f = fd)
    BY <1>3, <1>5 DEF finalClose, accepting, closer, closerPc
  <2> QED BY <1>2, <1>3, <1>6, <2>1, <2>2 DEF TableInv, TablesAgree
<1>8. SockInv'
  BY <1>3 DEF TableInv, SockInv
<1>9. ClosingInv'
  <2>1. \A u \in Thread : closer(u) => lfd[u] \in Fd \ {fd}
    BY <1>2 DEF closer, closerPc, TypeInv, LocalsOK, outside
  <2> QED BY <1>3, <1>5, <1>6, <2>1 DEF TableInv, ClosingInv, at
<1>10. AcceptInv'
  BY <1>4 DEF AcceptInv, newPc
<1> QED BY <1>7, <1>8, <1>9, <1>10 DEF TableInv

(* Every other step of a thread. *)
LEMMA WorkerTables ==
  ASSUME TypeInv, TableInv, NEW t \in Worker, work(t)
  PROVE  TableInv'
<1>1. t \in Thread /\ t # Main
  BY NamesDistinct DEF Thread
<1>2. CASE handleClose(t)
  BY <1>1, <1>2, CloseLoadTables, CloseTimerTables, CloseSlotTables, ClearTables,
     CloseFdTables DEF handleClose
<1> USE <1>1, TablesKept
    DEF at, goto, return, kernel, timers, TypeInv, LocalsOK, closerPc, newPc
<1>3. CASE getTask(t)
  BY <1>3, TablesUnchanged DEF getTask, runTask, locals
<1>4. CASE handleEvent(t)
  <2>1. event[lconn[t]] \in {"in", "out", "err"}
    BY <1>4 DEF handleEvent, StateOK, untested, outside
  <2>2. \E l \in {"req_load", "wr_load", "cl_load"} : pc' = [pc EXCEPT ![t] = l]
    BY <1>4, <2>1 DEF handleEvent
  <2> QED BY <1>4, <2>2 DEF handleEvent
<1>5. CASE requestLoad(t) \/ writeLoad(t)
  <2>1. CASE fail("torn")
    BY <1>5, <2>1, TablesUnchanged DEF requestLoad, writeLoad, fail
  <2>2. CASE ~fail("torn")
    BY <1>5, <2>2 DEF requestLoad, writeLoad, load
  <2> QED BY <2>1, <2>2
<1>6. CASE requestTimer(t) \/ writeTimer(t)
  <2>1. CASE hasTimer(lfd[t])
    BY <1>6, <2>1 DEF requestTimer, writeTimer, refresh, updated
  <2>2. CASE ~hasTimer(lfd[t])
    BY <1>6, <2>2, TablesUnchanged DEF requestTimer, writeTimer, refresh, fail
  <2> QED BY <2>1, <2>2
<1>7. CASE Read(t)
  BY <1>7 DEF Read
<1>8. CASE processCore(t)
  BY <1>8 DEF processCore, processNone, processSome, respond
<1>9. CASE Write(t)
  BY <1>9 DEF Write, writeAll, writeSome, writeError, unchangedByWrite
<1>10. CASE armOut(t) \/ finish(t)
  BY <1>10 DEF armOut, finish
<1> QED
  BY <1>2, <1>3, <1>4, <1>5, <1>6, <1>7, <1>8, <1>9, <1>10 DEF work, handleRequest, handleWrite

LEMMA StartTables == ASSUME TypeInv, TableInv, Start PROVE TableInv'
<1>1. Main \in Thread
  BY DEF Thread
<1>2. CASE handleClose(Main)
  BY <1>1, <1>2, CloseLoadTables, CloseTimerTables, CloseSlotTables, ClearTables,
     CloseFdTables DEF handleClose
<1> USE <1>1, TablesKept DEF at, goto, kernel, timers, TypeInv, LocalsOK, closerPc, newPc
<1>3. CASE closeExpire \/ scanCheck \/ scanStep \/ epollWait
  BY <1>3 DEF closeExpire, walk, scanCheck, scanStep, epollWait, fetch
<1>4. ASSUME NEW e \in batch, dispatch(e) PROVE TableInv'
  <2>1. CASE UNCHANGED <<pc, lfd, lconn>>
    BY <1>4, <2>1, TablesUnchanged DEF dispatch
  <2>2. CASE goto(Main, "add_task")
    BY <1>4, <2>2 DEF dispatch, fail
  <2> QED BY <1>4, <2>1, <2>2 DEF dispatch, fail
<1>5. CASE addTask \/ newEpoll
  <2>1. CASE fail("torn")
    BY <1>5, <2>1, TablesUnchanged DEF addTask, newEpoll, fail
  <2>2. CASE ~fail("torn")
    BY <1>5, <2>2 DEF addTask, newEpoll
  <2> QED BY <2>1, <2>2
<1>6. CASE acceptFails
  BY <1>6, TablesUnchanged DEF acceptFails, locals
<1> QED
  BY <1>2, <1>3, <1>4, <1>5, <1>6, HandleNewConnTables, NewSlotTables, NewTimerTables
     DEF Start

LEMMA StepTables == TypeInv /\ TableInv /\ [Next]_vars => TableInv'
<1> SUFFICES ASSUME TypeInv, TableInv, [Next]_vars PROVE TableInv'
  OBVIOUS
<1>1. CASE UNCHANGED vars
  BY <1>1, TablesUnchanged DEF vars, kernel, timers, locals
<1>2. ASSUME NEW c \in Conn, Client(c) PROVE TableInv'
  BY <1>2, TablesUnchanged
     DEF Client, Connect, Send, HangUp, Drain, Age, unchangedByClient, locals
<1> QED BY <1>1, <1>2, WorkerTables, StartTables DEF Next, System, Environment

-----------------------------------------------------------------------------
(* The tables of the kernel, of _connections and of the timer manager agree *)
(* up to the step at which handleNewConn or handleClose is.                *)
THEOREM TablesInvariant == Spec => []TableInv
  BY InitTableInv, StepTables, TypesInvariant, PTL DEF Spec

(* A timer and a slot are those of the connection whose socket the         *)
(* descriptor is, and an open socket has a timer or is being opened or     *)
(* closed, whatever handlers and closeExpire meet on it.                   *)
THEOREM TablesCorrect == Spec => []TablesAgree
<1>1. TableInv => TablesAgree
  BY DEF TableInv
<1> QED BY <1>1, TablesInvariant, PTL

(* addTimer's assert never fails.                                          *)
THEOREM AcceptCorrect == Spec => []AcceptedIsNew
<1>1. TableInv => AcceptedIsNew
  BY DEF TableInv, AcceptInv, AcceptedIsNew, accepting, newPc
<1> QED BY <1>1, TablesInvariant, PTL

(* Only the thread that took the timer of a descriptor closes it.          *)
THEOREM CloseCorrect == Spec => []NoDoubleClose
<1>1. TableInv => NoDoubleClose
  BY DEF TableInv, ClosingInv, NoDoubleClose, closer, closerPc, at
<1> QED BY <1>1, TablesInvariant, PTL

-----------------------------------------------------------------------------
(* The list.  That its due timers are its end is that it is sorted by this *)
(* number.                                                                 *)
overdue(D) == [c \in Conn |-> IF c \in D THEN 1 ELSE 0]

ChainInv == WellLinked(list, Linked) /\ DueAtEnd

LEMMA DueIsSorted ==
  ASSUME NEW L \in List, NEW S \in SUBSET Timer, WellLinked(L, S), NEW D \in SUBSET Conn
  PROVE  (\A c \in S : L.last[c] \in D => c \in D) <=> SortedBy(L, S, overdue(D))
<1>1. \A c \in S : /\ c \in Conn
                   /\ L.last[c] # HeadNode <=> L.last[c] \in Conn
  BY SentinelsDistinct DEF WellLinked, BothWays, Conn
<1>2. \A c \in Conn : overdue(D)[c] = IF c \in D THEN 1 ELSE 0
  BY DEF overdue
<1>3. \A c \in S : L.last[c] \in D => L.last[c] \in Conn
  OBVIOUS
<1> QED BY <1>1, <1>2, <1>3 DEF SortedBy

LEMMA OwnTimers ==
  ASSUME TypeInv, TableInv, NEW fd \in Fd
  PROVE  /\ Linked \in SUBSET Timer
         /\ \A f \in Fd : map[f] # None => fdof[map[f]] = f
         /\ map[fd] # None => map[fd] \in Linked
         /\ map[fd] # None /\ map' = [map EXCEPT ![fd] = None]
              => Linked' = Linked \ {map[fd]}
         /\ \A t \in Timer : map[fd] = None /\ map' = [map EXCEPT ![fd] = t]
              => Linked' = Linked \cup {t}
<1>1. map \in [Fd -> Timer \cup {None}] /\ None \notin Timer
  BY NamesDistinct DEF TypeInv, StateOK, Conn, Node
<1>2. \A f \in Fd : map[f] # None => fdof[map[f]] = f
  BY DEF TableInv, TablesAgree, SockInv
<1> QED BY <1>1, <1>2 DEF Linked

LEMMA RemovedChain ==
  ASSUME TypeInv, TableInv, ChainInv, NEW fd \in Fd, hasTimer(fd), removed(fd)
  PROVE  ChainInv'
<1> DEFINE c == map[fd]
<1>1. /\ list \in List /\ list' = unlink(list, c) /\ due \in SUBSET Conn /\ due' = due
      /\ c \in Linked /\ Linked \in SUBSET Timer /\ Linked' = Linked \ {c}
  BY OwnTimers DEF removed, unmapped, hasTimer, TypeInv, StateOK
<1> HIDE DEF c
<1>2. WellLinked(list', Linked')
  BY <1>1, UnlinkIsWellLinked DEF ChainInv
<1>3. SortedBy(list, Linked, overdue(due))
  BY <1>1, DueIsSorted DEF ChainInv, DueAtEnd
<1>4. SortedBy(list', Linked', overdue(due))
  BY <1>1, <1>3, UnlinkIsSorted DEF ChainInv
<1>5. list' \in List
  BY <1>1, LinksType
<1> QED BY <1>1, <1>2, <1>4, <1>5, DueIsSorted DEF ChainInv, DueAtEnd

(* A timer that is no longer due goes to the head. *)
LEMMA AddedChain ==
  ASSUME NEW L \in List, NEW S \in SUBSET Timer, WellLinked(L, S), NEW D \in SUBSET Conn,
         SortedBy(L, S, overdue(D)), NEW c \in Timer, c \notin S
  PROVE  /\ WellLinked(addToHead(L, c), S \cup {c})
         /\ \A t \in S \cup {c} :
              addToHead(L, c).last[t] \in D \ {c} => t \in D \ {c}
<1>1. WellLinked(addToHead(L, c), S \cup {c}) /\ addToHead(L, c) \in List
  BY AddToHeadIsWellLinked, LinksType
<1>2. /\ overdue(D \ {c})[c] = 0
      /\ \A n \in S : overdue(D \ {c})[n] = overdue(D)[n]
  BY DEF overdue, Conn
<1>3. SortedBy(addToHead(L, c), S \cup {c}, overdue(D \ {c}))
  BY <1>2, AddToHeadIsSorted
<1> QED BY <1>1, <1>3, DueIsSorted

LEMMA UpdatedChain ==
  ASSUME TypeInv, TableInv, ChainInv, NEW fd \in Fd, hasTimer(fd), updated(fd)
  PROVE  ChainInv'
<1> DEFINE c == map[fd]
           U == unlink(list, c)
<1>1. /\ list \in List /\ list' = addToHead(U, c) /\ due \in SUBSET Conn
      /\ due' = due \ {c} /\ c \in Linked /\ Linked \in SUBSET Timer /\ map' = map
  BY OwnTimers DEF updated, hasTimer, moveToHead, TypeInv, StateOK
<1> HIDE DEF c
<1>2. Linked' = (Linked \ {c}) \cup {c} /\ c \in Timer
  BY <1>1 DEF Linked
<1>3. U \in List /\ WellLinked(U, Linked \ {c})
  BY <1>1, LinksType, UnlinkIsWellLinked DEF ChainInv
<1>4. SortedBy(list, Linked, overdue(due))
  BY <1>1, DueIsSorted DEF ChainInv, DueAtEnd
<1>5. SortedBy(U, Linked \ {c}, overdue(due))
  BY <1>1, <1>4, UnlinkIsSorted DEF ChainInv
<1> HIDE DEF U
<1>6. Linked \ {c} \in SUBSET Timer
  BY <1>1
<1> QED BY <1>1, <1>2, <1>3, <1>5, <1>6, AddedChain DEF ChainInv, DueAtEnd

LEMMA NewTimerChain == ASSUME TypeInv, TableInv, ChainInv, newTimer PROVE ChainInv'
<1> DEFINE fd == lfd[Main]
           c == lconn[Main]
<1>1. fd \in Fd /\ c \in Timer /\ list \in List /\ due \in SUBSET Conn
  BY DEF newTimer, at, TypeInv, StateOK, LocalsOK, outside, untested, Thread, Conn
<1>2. /\ map[fd] = None /\ map' = [map EXCEPT ![fd] = c]
      /\ list' = addToHead(list, c) /\ due' = due \ {c}
  BY DEF newTimer, hasTimer, TableInv, AcceptInv, at, newPc
<1>3. c \notin Linked
  <2> SUFFICES ASSUME NEW f \in Fd, map[f] = c PROVE FALSE
    BY <1>1, NamesDistinct DEF Linked
  <2>1. sock[f] = c /\ sock[fd] = c /\ c # None
    BY <1>1, NamesDistinct DEF newTimer, TableInv, TablesAgree, AcceptInv, Node, at, newPc
  <2>2. f = fd
    BY <1>1, <2>1 DEF TableInv, SockInv
  <2> QED BY <1>1, <1>2, <2>1, <2>2
<1>4. Linked' = Linked \cup {c} /\ Linked \in SUBSET Timer
  BY <1>1, <1>2, OwnTimers
<1>5. SortedBy(list, Linked, overdue(due))
  BY <1>1, <1>4, DueIsSorted DEF ChainInv, DueAtEnd
<1>6. WellLinked(list, Linked)
  BY DEF ChainInv
<1> HIDE DEF c, fd
<1>7. /\ WellLinked(addToHead(list, c), Linked \cup {c})
      /\ \A t \in Linked \cup {c} :
           addToHead(list, c).last[t] \in due \ {c} => t \in due \ {c}
  BY <1>1, <1>3, <1>4, <1>5, <1>6, AddedChain
<1> QED BY <1>2, <1>4, <1>7 DEF ChainInv, DueAtEnd

(* A walk that ends forgets the timers that are on the list no more.       *)
LEMMA ScanCheckChain == ASSUME TypeInv, ChainInv, scanCheck PROVE ChainInv'
<1>1. list' = list /\ Linked' = Linked /\ due' \in {due, due \cap Linked}
  BY DEF scanCheck, Linked
<1> QED BY <1>1 DEF ChainInv, DueAtEnd

(* Time runs out for a timer after those behind it. *)
LEMMA AgeChain == ASSUME TypeInv, ChainInv, NEW c \in Conn, Age(c) PROVE ChainInv'
<1>1. list' = list /\ Linked' = Linked /\ due' = due \cup {c}
  BY DEF Age, unchangedByClient, Linked
<1>2. ASSUME NEW d \in Linked, list.last[d] \in due \cup {c} PROVE d \in due \cup {c}
  <2>1. CASE list.last[d] \in due
    BY <1>2, <2>1 DEF ChainInv, DueAtEnd
  <2>2. CASE list.last[d] = c
    <3>1. d \in Timer /\ list.last[d] \in Linked \cup {HeadNode} /\ list.next[c] = d
      BY <2>2, NamesDistinct
         DEF ChainInv, WellLinked, BothWays, TypeInv, StateOK, Linked, Conn
    <3>2. c \in Linked /\ d # TailNode
      BY <2>2, <3>1, SentinelsDistinct DEF Conn
    <3> QED BY <3>1, <3>2 DEF Age
  <2> QED BY <1>2, <2>1, <2>2
<1> QED BY <1>1, <1>2 DEF ChainInv, DueAtEnd

LEMMA ChainUnchanged == ASSUME ChainInv, UNCHANGED <<list, map, due>> PROVE ChainInv'
  BY DEF ChainInv, DueAtEnd, Linked

LEMMA StepChain == TypeInv /\ TableInv /\ ChainInv /\ [Next]_vars => ChainInv'
<1> SUFFICES ASSUME TypeInv, TableInv, ChainInv, [Next]_vars PROVE ChainInv'
  OBVIOUS
<1>1. CASE UNCHANGED vars
  BY <1>1, ChainUnchanged DEF vars, timers
<1>2. ASSUME NEW t \in Thread, handleClose(t) PROVE ChainInv'
  <2>1. CASE closeTimer(t)
    <3>1. lfd[t] \in Fd
      BY <2>1 DEF closeTimer, at, TypeInv, LocalsOK, outside
    <3>2. CASE hasTimer(lfd[t])
      BY <2>1, <3>1, <3>2, RemovedChain DEF closeTimer
    <3>3. CASE ~hasTimer(lfd[t])
      BY <2>1, <3>3, ChainUnchanged DEF closeTimer, timers
    <3> QED BY <3>2, <3>3
  <2>2. CASE closeLoad(t) \/ closeSlot(t) \/ Clear(t) \/ closeFd(t)
    BY <2>2, ChainUnchanged DEF closeLoad, closeSlot, storeSlots, Clear, closeFd, timers
  <2> QED BY <1>2, <2>1, <2>2 DEF handleClose
<1>3. ASSUME NEW t \in Worker, work(t) PROVE ChainInv'
  <2>1. t \in Thread
    BY DEF Thread
  <2>2. CASE requestTimer(t) \/ writeTimer(t)
    <3>1. lfd[t] \in Fd
      BY <2>1, <2>2 DEF requestTimer, writeTimer, at, TypeInv, LocalsOK, outside
    <3>2. CASE hasTimer(lfd[t])
      BY <2>2, <3>1, <3>2, UpdatedChain DEF requestTimer, writeTimer, refresh
    <3>3. CASE ~hasTimer(lfd[t])
      BY <2>2, <3>3, ChainUnchanged DEF requestTimer, writeTimer, refresh, timers
    <3> QED BY <3>2, <3>3
  <2>3. CASE getTask(t) \/ handleEvent(t) \/ requestLoad(t) \/ Read(t) \/ processCore(t)
    BY <2>3, ChainUnchanged
       DEF getTask, runTask, handleEvent, requestLoad, Read, processCore, processNone,
           processSome, respond,
           timers
  <2>4. CASE writeLoad(t) \/ Write(t) \/ armOut(t) \/ finish(t)
    BY <2>4, ChainUnchanged
       DEF writeLoad, Write, writeAll, writeSome, writeError, unchangedByWrite, armOut,
           finish, timers
  <2> QED BY <1>2, <1>3, <2>1, <2>2, <2>3, <2>4 DEF work, handleRequest, handleWrite
<1>4. CASE Start
  <2>1. CASE \/ closeExpire \/ scanStep \/ epollWait \/ addTask \/ acceptFails
             \/ newSlot \/ newEpoll
    BY <2>1, ChainUnchanged
       DEF closeExpire, walk, scanStep, epollWait, fetch, addTask, acceptFails, newSlot, newEpoll,
           timers
  <2>2. ASSUME NEW e \in batch, dispatch(e) PROVE ChainInv'
    BY <2>2, ChainUnchanged DEF dispatch, timers
  <2>3. ASSUME NEW fd \in Fd, NEW c \in Conn, handleNewConn(fd, c) PROVE ChainInv'
    BY <2>3, ChainUnchanged DEF handleNewConn
  <2> QED
    BY <1>2, <1>4, <2>1, <2>2, <2>3, ScanCheckChain, NewTimerChain DEF Start, Thread
<1>5. ASSUME NEW c \in Conn, Client(c) PROVE ChainInv'
  BY <1>5, AgeChain, ChainUnchanged
     DEF Client, Connect, Send, HangUp, Drain, unchangedByClient
<1> QED BY <1>1, <1>3, <1>4, <1>5 DEF Next, System, Environment

LEMMA InitChain == Init => ChainInv
<1> SUFFICES ASSUME Init PROVE ChainInv
  OBVIOUS
<1>1. Linked = {}
  BY DEF Init, Linked
<1>2. WellLinked(list, {})
  BY EmptyIsWellLinked DEF Init
<1> QED BY <1>1, <1>2 DEF ChainInv, DueAtEnd

(* The links stay one chain, with the due timers at its end.               *)
THEOREM ChainInvariant == Spec => []ChainInv
  BY InitChain, StepChain, TypesInvariant, TablesInvariant, PTL DEF Spec

(* The list is one chain through the timers of the open connections, each  *)
(* that of its own descriptor.                                             *)
THEOREM ListCorrect == Spec => []ListInv
<1>1. TypeInv /\ TableInv /\ ChainInv => ListInv
  <2> SUFFICES ASSUME TypeInv, TableInv, ChainInv PROVE ListInv
    OBVIOUS
  <2>1. \A fd \in Fd : map[fd] # None => fdof[map[fd]] = fd
    BY DEF TableInv, TablesAgree, SockInv
  <2> QED BY <2>1 DEF ChainInv, ListInv
<1> QED BY <1>1, TypesInvariant, TablesInvariant, ChainInvariant, PTL

(* The due timers are at its end, so closeExpire, which stops at the first *)
(* that is not due, misses none.                                           *)
THEOREM OrderCorrect == Spec => []DueAtEnd
<1>1. ChainInv => DueAtEnd
  BY DEF ChainInv
<1> QED BY <1>1, ChainInvariant, PTL
-----------------------------------------------------------------------------
(* The server implements TimerList.  As in TimerManagerProofs, there must  *)
(* be a sequence that the pointers spell out.                              *)
Chained == \E s : IsChain(list, Linked, s)

ListedInv == TypeInv /\ TableInv /\ ChainInv /\ Chained

LEMMA FdsOfLinked ==
  ASSUME TypeInv, TableInv, ChainInv
  PROVE  /\ Linked \in SUBSET Timer /\ list \in List /\ WellLinked(list, Linked)
         /\ \A t \in Linked : fdof[t] \in Fd /\ map[fdof[t]] = t
         /\ \A fd \in Fd : map[fd] # None => map[fd] \in Linked /\ fdof[map[fd]] = fd
<1>1. map \in [Fd -> Timer \cup {None}] /\ None \notin Timer /\ list \in List
  BY NamesDistinct DEF TypeInv, StateOK, Conn, Node
<1>2. \A f \in Fd : map[f] # None => fdof[map[f]] = f
  BY DEF TableInv, TablesAgree, SockInv
<1>3. WellLinked(list, Linked)
  BY DEF ChainInv
<1> QED BY <1>1, <1>2, <1>3 DEF Linked

LEMMA InitImplements == Init => Chained /\ Abstract!Init
<1> SUFFICES ASSUME Init PROVE Chained /\ Abstract!Init
  OBVIOUS
<1>1. Linked = {} /\ list = EmptyList
  BY DEF Init, Linked
<1>2. Chained
  BY <1>1, EmptyIsChain DEF Chained
<1>3. order = <<>>
  BY <1>1, EmptyOrder DEF order
<1>4. expiredFds = {}
  BY DEF Init, expiredFds
<1> QED BY <1>2, <1>3, <1>4 DEF Abstract!Init

LEMMA OrderNext == order' = FdOrder(list', Linked', fdof')
  BY DEF order

(* Steps that leave the timers of the map and their descriptors alone.     *)
LEMMA NothingMoves ==
  ASSUME ListedInv, UNCHANGED <<list, map>>,
         \A t \in Linked : fdof'[t] = fdof[t] /\ (t \in due' <=> t \in due)
  PROVE  Chained' /\ [Abstract!Next]_Abstract!vars
<1>1. Linked' = Linked
  BY DEF Linked
<1>2. Chained'
  BY <1>1 DEF ListedInv, Chained
<1>3. order' = order
  <2>1. PICK s : IsChain(list, Linked, s)
    BY DEF ListedInv, Chained
  <2>2. order = along(s, fdof) /\ order' = along(s, fdof')
    <3>1. FdOrder(list, Linked, fdof) = along(s, fdof)
      BY <2>1, ChainIsOrder
    <3>2. FdOrder(list, Linked, fdof') = along(s, fdof')
      BY <2>1, ChainIsOrder
    <3> QED BY <3>1, <3>2, <1>1, OrderNext DEF order
  <2>3. \A k \in 1..Len(s) : fdof'[s[k]] = fdof[s[k]]
    BY <2>1 DEF IsChain
  <2> QED BY <2>2, <2>3 DEF along
<1>4. expiredFds' = expiredFds
  BY FdsOfLinked DEF expiredFds, ListedInv
<1> QED BY <1>2, <1>3, <1>4 DEF Abstract!vars

(* OrderTaken for this list.                                               *)
LEMMA OrderOfLinked ==
  ASSUME ListedInv, NEW s, IsChain(list, Linked, s), NEW t \in Linked
  PROVE  \E i \in 1..Len(order) :
           /\ order[i] = fdof[t]
           /\ FdOrder(unlink(list, t), Linked \ {t}, fdof) = without(order, i)
           /\ FdOrder(moveToHead(list, t), Linked, fdof) = <<fdof[t]>> \o without(order, i)
<1>1. Linked \in SUBSET Timer
  BY FdsOfLinked DEF ListedInv
<1>2. list \in List
  BY FdsOfLinked DEF ListedInv
<1>3. WellLinked(list, Linked)
  BY FdsOfLinked DEF ListedInv
<1> QED BY <1>1, <1>2, <1>3, OrderTaken, ZenonT(90) DEF order

LEMMA RemovedImplements ==
  ASSUME ListedInv, NEW fd \in Fd, hasTimer(fd), removed(fd)
  PROVE  Chained' /\ Abstract!Drop(fd)
<1> DEFINE t == map[fd]
<1>1. /\ list' = unlink(list, t) /\ map' = [map EXCEPT ![fd] = None] /\ t # None
      /\ UNCHANGED <<due, fdof>>
  BY DEF removed, unmapped, hasTimer
<1>2. t \in Linked /\ fdof[t] = fd /\ Linked' = Linked \ {t}
  BY <1>1, FdsOfLinked, OwnTimers DEF ListedInv
<1>3. PICK s : IsChain(list, Linked, s)
  BY DEF ListedInv, Chained
<1>4. PICK j \in 1..Len(s) : s[j] = t
  BY <1>2, <1>3 DEF IsChain
<1> HIDE DEF t
<1>5. Chained'
  BY <1>1, <1>2, <1>3, <1>4, FdsOfLinked, UnlinkChain DEF ListedInv, Chained
<1>6. \E i \in 1..Len(order) : order[i] = fd /\ order' = <<>> \o without(order, i)
  <2>1. PICK i \in 1..Len(order) : order[i] = fd /\ order' = without(order, i)
    <3>1. order' = FdOrder(unlink(list, t), Linked \ {t}, fdof)
      BY <1>1, <1>2, OrderNext
    <3> QED BY <3>1, <1>2, <1>3, OrderOfLinked
  <2>2. <<>> \o without(order, i) = without(order, i)
    <3>1. order \in Seq(image(fdof, Linked))
      <4>1. s \in Seq(Linked)
        BY <1>3 DEF IsChain
      <4>2. order = along(s, fdof)
        BY <1>3, ChainIsOrder DEF order
      <4> QED BY <4>1, <4>2, AlongElements
    <3>2. without(order, i) \in Seq(image(fdof, Linked))
      BY <3>1, WithoutElements
    <3> QED BY <3>2
  <2> QED BY <2>1, <2>2
<1>7. expiredFds' = expiredFds \ {fd}
  BY <1>1 DEF expiredFds, ListedInv, TypeInv, StateOK
<1> QED BY <1>5, <1>6, <1>7
        DEF Abstract!Drop, Abstract!taken, Abstract!RemoveAt, without

LEMMA UpdatedImplements ==
  ASSUME ListedInv, NEW fd \in Fd, hasTimer(fd), updated(fd)
  PROVE  Chained' /\ Abstract!Refresh(fd)
<1> DEFINE t == map[fd]
<1>1. /\ list' = moveToHead(list, t) /\ due' = due \ {t} /\ t # None
      /\ UNCHANGED <<map, fdof>>
  BY DEF updated, hasTimer
<1>2. t \in Linked /\ fdof[t] = fd /\ Linked' = Linked
  BY <1>1, FdsOfLinked DEF ListedInv, Linked
<1>3. PICK s : IsChain(list, Linked, s)
  BY DEF ListedInv, Chained
<1>4. PICK j \in 1..Len(s) : s[j] = t
  BY <1>2, <1>3 DEF IsChain
<1> HIDE DEF t
<1>5. Chained'
  BY <1>1, <1>2, <1>3, <1>4, FdsOfLinked, MoveToHeadChain DEF ListedInv, Chained
<1>6. \E i \in 1..Len(order) :
         order[i] = fd /\ order' = <<fd>> \o without(order, i)
  <2>1. order' = FdOrder(moveToHead(list, t), Linked, fdof)
    BY <1>1, <1>2, OrderNext
  <2> QED BY <2>1, <1>2, <1>3, OrderOfLinked
<1>7. expiredFds' = expiredFds \ {fd}
  <2>1. \A g \in Fd : map[g] = t <=> g = fd
    BY <1>1, <1>2, FdsOfLinked DEF ListedInv, t
  <2> QED BY <1>1, <2>1 DEF expiredFds
<1> QED BY <1>5, <1>6, <1>7
        DEF Abstract!Refresh, Abstract!taken, Abstract!RemoveAt, without

LEMMA NewTimerImplements ==
  ASSUME ListedInv, newTimer
  PROVE  Chained' /\ Abstract!Add(lfd[Main])
<1> DEFINE fd == lfd[Main]
           t == lconn[Main]
<1>1. fd \in Fd /\ t \in Timer
  BY DEF newTimer, at, ListedInv, TypeInv, LocalsOK, outside, untested, Thread, Conn
<1>2. /\ map[fd] = None /\ map' = [map EXCEPT ![fd] = t]
      /\ list' = addToHead(list, t) /\ due' = due \ {t} /\ fdof' = fdof
  BY DEF newTimer, hasTimer, ListedInv, TableInv, AcceptInv, at, newPc
<1>3. sock[fd] = t /\ fdof[t] = fd
  <2>1. sock[fd] = t
    BY DEF newTimer, ListedInv, TableInv, AcceptInv, at, newPc
  <2>2. t # None
    BY <1>1, NamesDistinct DEF Node
  <2> QED BY <1>1, <2>1, <2>2 DEF ListedInv, TableInv, SockInv
<1>4. t \notin Linked
  <2>1. \A u \in Linked : map[fdof[u]] = u
    BY FdsOfLinked DEF ListedInv
  <2>2. None \notin Linked
    BY DEF Linked
  <2> QED BY <1>2, <1>3, <2>1, <2>2
<1>5. Linked' = Linked \cup {t}
  BY <1>1, <1>2, OwnTimers DEF ListedInv
<1>6. PICK s : IsChain(list, Linked, s)
  BY DEF ListedInv, Chained
<1> HIDE DEF t, fd
<1>7. Chained'
  BY <1>1, <1>2, <1>4, <1>5, <1>6, FdsOfLinked, AddToHeadChain DEF ListedInv, Chained
<1>8. order' = <<fd>> \o order
  <2>1. FdOrder(addToHead(list, t), Linked \cup {t}, fdof)
          = <<fdof[t]>> \o FdOrder(list, Linked, fdof)
    <3>1. Linked \in SUBSET Timer
      BY FdsOfLinked DEF ListedInv
    <3>2. list \in List
      BY FdsOfLinked DEF ListedInv
    <3>3. WellLinked(list, Linked)
      BY FdsOfLinked DEF ListedInv
    <3>4. \A u \in Linked : fdof[u] = fdof[u]
      OBVIOUS
    <3> QED BY <3>1, <3>2, <3>3, <3>4, <1>1, <1>4, <1>6, OrderAdd, ZenonT(90)
  <2>2. order' = FdOrder(addToHead(list, t), Linked \cup {t}, fdof)
    BY <1>2, <1>5, OrderNext
  <2> QED BY <2>1, <2>2, <1>3 DEF order
<1>9. ~Abstract!Contains(order, fd)
  <2>1. \A i \in 1..Len(order) : \E u \in Linked : order[i] = fdof[u]
    BY <1>6, OrderElements DEF order
  <2>2. \A u \in Linked : fdof[u] # fd
    <3>1. None \notin Linked
      BY DEF Linked
    <3> QED BY <3>1, <1>2, FdsOfLinked DEF ListedInv
  <2> QED BY <2>1, <2>2 DEF Abstract!Contains
<1>10. expiredFds' = expiredFds \ {fd}
  <2>1. \A g \in Fd \ {fd} : map'[g] = map[g]
    BY <1>2 DEF ListedInv, TypeInv, StateOK
  <2>2. map'[fd] = t
    BY <1>1, <1>2 DEF ListedInv, TypeInv, StateOK
  <2>3. \A g \in Fd : map[g] # None => map[g] # t
    BY <1>4, FdsOfLinked DEF ListedInv
  <2> QED BY <1>2, <2>1, <2>2, <2>3 DEF expiredFds
<1> QED BY <1>7, <1>8, <1>9, <1>10 DEF Abstract!Add, fd

(* By DueAtEnd, the descriptors whose time has run out stand together at   *)
(* the end.                                                                *)
LEMMA AgeImplements ==
  ASSUME ListedInv, NEW c \in Conn, Age(c)
  PROVE  Chained' /\ [Abstract!Next]_Abstract!vars
<1>1. UNCHANGED <<list, map, fdof>> /\ Linked' = Linked /\ due' = due \cup {c}
  BY DEF Age, unchangedByClient, Linked
<1>2. Chained' /\ order' = order
  BY <1>1, OrderNext DEF ListedInv, Chained, order
<1>3. expiredFds \subseteq expiredFds'
  BY <1>1 DEF expiredFds
<1> DEFINE G == {t \in Linked : t \in due'}
<1>4. expiredFds' = image(fdof, G)
  <2>1. expiredFds' = {fd \in Fd : map[fd] # None /\ map[fd] \in due'}
    BY <1>1 DEF expiredFds
  <2>2. None \notin Linked
    BY DEF Linked
  <2> QED BY <2>1, <2>2, FdsOfLinked DEF image, ListedInv
<1>5. \A t \in Linked : list.last[t] \in G => t \in G
  <2>1. ChainInv'
    BY AgeChain DEF ListedInv
  <2> QED BY <2>1, <1>1 DEF ChainInv, DueAtEnd
<1>6. CASE G = {}
  <2>1. expiredFds' = expiredFds
    BY <1>3, <1>4, <1>6 DEF image
  <2> QED BY <2>1, <1>2 DEF Abstract!vars
<1>7. CASE G # {}
  <2>1. PICK s : IsChain(list, Linked, s)
    BY DEF ListedInv, Chained
  <2>2. G \in SUBSET Linked
    OBVIOUS
  <2> HIDE DEF G
  <2>3. \E k \in 1..Len(order) : image(fdof, G) = back(order, k)
    BY <2>1, <2>2, <1>5, <1>7, FdsOfLinked, OrderSuffix DEF order, ListedInv
  <2>4. expiredFds' = expiredFds \/ Abstract!Expire
    BY <2>3, <1>2, <1>3, <1>4 DEF Abstract!Expire, back
  <2> QED BY <2>4, <1>2 DEF Abstract!Next, Abstract!vars
<1> QED BY <1>6, <1>7

LEMMA StepImplements == ListedInv /\ [Next]_vars => Chained' /\ [Abstract!Next]_Abstract!vars
<1> DEFINE Implements == Chained' /\ [Abstract!Next]_Abstract!vars
<1> SUFFICES ASSUME ListedInv, [Next]_vars PROVE Implements
  OBVIOUS
<1>0. UNCHANGED timers => Implements
  BY NothingMoves DEF timers
<1>1. CASE UNCHANGED vars
  BY <1>0, <1>1 DEF vars
<1>2. ASSUME NEW fd \in Fd, hasTimer(fd), removed(fd) \/ updated(fd) PROVE Implements
  BY <1>2, RemovedImplements, UpdatedImplements DEF Abstract!Next
<1> HIDE DEF Implements
<1>3. ASSUME NEW t \in Thread, handleClose(t) PROVE Implements
  <2>1. CASE closeTimer(t)
    <3>1. lfd[t] \in Fd
      BY <2>1 DEF closeTimer, at, ListedInv, TypeInv, LocalsOK, outside
    <3> QED BY <2>1, <3>1, <1>0, <1>2 DEF closeTimer
  <2>2. CASE closeLoad(t) \/ closeSlot(t) \/ Clear(t) \/ closeFd(t)
    BY <2>2, <1>0 DEF closeLoad, closeSlot, storeSlots, Clear, closeFd
  <2> QED BY <1>3, <2>1, <2>2 DEF handleClose
<1>4. ASSUME NEW t \in Worker, work(t) PROVE Implements
  <2>1. t \in Thread
    BY DEF Thread
  <2>2. CASE requestTimer(t) \/ writeTimer(t)
    <3>1. lfd[t] \in Fd
      BY <2>1, <2>2
         DEF requestTimer, writeTimer, at, ListedInv, TypeInv, LocalsOK, outside
    <3> QED BY <2>2, <3>1, <1>0, <1>2 DEF requestTimer, writeTimer, refresh
  <2>3. CASE getTask(t) \/ handleEvent(t) \/ requestLoad(t) \/ Read(t) \/ processCore(t)
    BY <2>3, <1>0
       DEF getTask, runTask, handleEvent, requestLoad, Read, processCore, processNone,
           processSome, respond
  <2>4. CASE writeLoad(t) \/ Write(t) \/ armOut(t) \/ finish(t)
    BY <2>4, <1>0
       DEF writeLoad, Write, writeAll, writeSome, writeError, unchangedByWrite, armOut, finish
  <2> QED BY <1>3, <1>4, <2>1, <2>2, <2>3, <2>4 DEF work, handleRequest, handleWrite
<1>5. CASE Start
  <2>1. CASE \/ closeExpire \/ scanStep \/ epollWait \/ addTask \/ acceptFails
             \/ newSlot \/ newEpoll
    BY <2>1, <1>0
       DEF closeExpire, walk, scanStep, epollWait, fetch, addTask, acceptFails, newSlot, newEpoll
  <2>2. ASSUME NEW e \in batch, dispatch(e) PROVE Implements
    BY <2>2, <1>0 DEF dispatch
  <2>3. CASE scanCheck
    <3>1. UNCHANGED <<list, map, fdof>> /\ due' \in {due, due \cap Linked}
      BY <2>3 DEF scanCheck
    <3> QED BY <3>1, NothingMoves DEF Implements
  <2>4. ASSUME NEW fd \in Fd, NEW c \in Conn, handleNewConn(fd, c) PROVE Implements
    <3>1. UNCHANGED <<list, map, due>> /\ fdof' = [fdof EXCEPT ![c] = fd]
          /\ \A g \in Fd : sock[g] # c
      BY <2>4 DEF handleNewConn, backlog
    <3>2. c \notin Linked
      BY <3>1 DEF Linked, ListedInv, TableInv, TablesAgree
    <3> QED BY <3>1, <3>2, NothingMoves DEF Implements, ListedInv, TypeInv, StateOK, Linked
  <2>5. CASE newTimer
    <3>1. lfd[Main] \in Fd
      BY <2>5 DEF newTimer, at, ListedInv, TypeInv, LocalsOK, outside, Thread
    <3> QED BY <2>5, <3>1, NewTimerImplements DEF Implements, Abstract!Next
  <2> QED BY <1>3, <1>5, <2>1, <2>2, <2>3, <2>4, <2>5 DEF Start, Thread
<1>6. ASSUME NEW c \in Conn, Client(c) PROVE Implements
  <2>1. CASE Age(c)
    BY <2>1, AgeImplements DEF Implements
  <2>2. CASE Connect(c) \/ Send(c) \/ HangUp(c) \/ Drain(c)
    BY <2>2, <1>0 DEF Connect, Send, HangUp, Drain, unchangedByClient, timers
  <2> QED BY <1>6, <2>1, <2>2 DEF Client
<1> QED BY <1>1, <1>4, <1>5, <1>6 DEF Next, System, Environment

(* Every step of every thread does to the order of the descriptors what    *)
(* TimerList says, or nothing, late clients and torn pointers included.    *)
THEOREM Implementation == Spec => ImplementsTimerList
<1>1. Init => Chained /\ Abstract!Init
  BY InitImplements
<1>2. TypeInv /\ TableInv /\ ChainInv /\ Chained /\ [Next]_vars
        => Chained' /\ [Abstract!Next]_Abstract!vars
  BY StepImplements DEF ListedInv
<1> QED BY <1>1, <1>2, TypesInvariant, TablesInvariant, ChainInvariant, PTL
        DEF Spec, ImplementsTimerList, Abstract!Spec
=============================================================================
