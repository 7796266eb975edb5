----------------------------- MODULE TcpServer ------------------------------
(***************************************************************************)
(* The server at run time: the main thread's loop (closeExpire, epoll_wait,*)
(* accept, dispatch), the worker threads that take connections from the    *)
(* task queue and run their handlers, the timer list and the connection    *)
(* table they share, and the kernel's view of sockets and epoll.           *)
(*                                                                         *)
(* Grain.  Every access to shared state that no mutex protects is a step   *)
(* of its own: the loads of a slot of _connections, isTimeout, the Buffers *)
(* and flags of a Connection, each system call.  A section under a mutex   *)
(* that makes one access to state that is read outside the mutex is one    *)
(* step, taken when the mutex is free.                                     *)
(*                                                                         *)
(* Data.  Bytes are abstracted to "some are there"; what the parser makes  *)
(* of them is a choice among its results.  Time is abstracted to the set   *)
(* `due' of the timers for which isTimeout holds; a timer on the list is   *)
(* due only after those behind it, which TimerManager!Sorted justifies.  A *)
(* walk may stand on a timer that a worker has removed, so those stay in   *)
(* `due' until the walk ends.                                              *)
(***************************************************************************)
EXTENDS TimerLinks, Sequences, Naturals

CONSTANTS Fd,      \* descriptors the kernel gives to accepted sockets
          Listen,  \* _serv_sock
          Worker,  \* the threads of _threadpool
          Main,    \* the thread that runs TcpServer::Start
          None     \* null pointer, no descriptor, free mutex

(* A Connection and its Timer are created together and share their name.   *)
Conn == Timer
Thread == Worker \cup {Main}

ASSUME NamesDistinct == /\ None \notin Node \cup Fd \cup Thread
                        /\ Listen \notin Fd
                        /\ Main \notin Worker

VARIABLES
  (* kernel and clients *)
  sock,    \* connection whose socket a descriptor is, None if it is closed
  armed,   \* epoll: not registered, disabled by ONESHOT, or waiting for in / out
  peer,    \* the client's end: none, open, or hung up
  rx,      \* bytes wait in the receive buffer
  full,    \* the send buffer is full
  (* server *)
  slots,   \* _connections
  list, map, fdof, due,  \* _timermanager: links, _map, Timer::_fd, isTimeout
  lock,    \* Connection::_mutex: its holder
  queue,   \* TaskPool::_activeconn
  event,   \* Connection::_event
  out,     \* Connection::_outbuffer is not empty
  keep,    \* Connection::_keepalive
  crash,   \* what ends the process: a failed assert, a null pointer, a torn load
  (* threads *)
  batch,   \* Start: the events of the last epoll_wait still to be handled
  cursor,  \* closeExpire: timer
  pc,      \* where each thread is
  lfd,     \* its local fd
  lconn    \* its local conn

kernel == <<sock, armed, peer, rx, full>>
timers == <<list, map, fdof, due>>
data == <<event, out, keep>>
locals == <<pc, lfd, lconn>>
vars == <<kernel, slots, timers, lock, queue, data, crash, batch, cursor, locals>>

closing == {"cl_load", "cl_timer", "cl_slot", "cl_clear", "cl_fd"}
WorkerPc == {"idle", "event", "req_load", "req_timer", "read", "process", "wr_load",
             "wr_timer", "write", "mod_out", "finish"} \cup closing
MainPc == {"loop", "scan", "step", "wait", "add_task", "nc_slot", "nc_timer", "nc_epoll"}
            \cup closing

Linked == {map[fd] : fd \in Fd} \ {None}

(* A thread outside its handlers has no fd, and one that has tested its    *)
(* conn against null has a conn.                                           *)
outside == {"idle", "loop", "scan", "wait"}
untested == outside \cup {"step", "add_task", "req_load", "wr_load", "cl_load"}
LocalsOK ==
  /\ pc \in [Thread -> WorkerPc \cup MainPc]
  /\ lfd \in [Thread -> Fd \cup {None}]
  /\ lconn \in [Thread -> Conn \cup {None}]
  /\ \A t \in Thread :
       /\ pc[t] \in IF t = Main THEN MainPc ELSE WorkerPc
       /\ lfd[t] \in IF pc[t] \in outside THEN {None} ELSE Fd
       /\ lconn[t] \in IF pc[t] \in untested THEN Conn \cup {None} ELSE Conn

StateOK ==
  /\ sock \in [Fd -> Conn \cup {None}]
  /\ armed \in [Fd -> {"none", "off", "in", "out"}]
  /\ peer \in [Conn -> {"none", "open", "hup"}]
  /\ rx \in [Conn -> BOOLEAN] /\ full \in [Conn -> BOOLEAN]
  /\ slots \in [Fd -> Conn \cup {None}]
  /\ list \in List
  /\ map \in [Fd -> Conn \cup {None}]
  /\ fdof \in [Conn -> Fd \cup {None}]
  /\ due \subseteq Conn
  /\ lock \in [Conn -> Thread \cup {None}]
  /\ queue \in Seq(Conn \cup {None})
  /\ event \in [Conn -> {"in", "out", "err"}]
  /\ out \in [Conn -> BOOLEAN] /\ keep \in [Conn -> BOOLEAN]
  /\ crash \in {"no", "assert", "null", "torn"}
  /\ batch \subseteq (Fd \cup {Listen}) \X {"in", "out", "err"}
  /\ cursor \in Node

TypeOK == StateOK /\ LocalsOK

Init ==
  /\ sock = [fd \in Fd |-> None] /\ armed = [fd \in Fd |-> "none"]
  /\ peer = [c \in Conn |-> "none"]
  /\ rx = [c \in Conn |-> FALSE] /\ full = [c \in Conn |-> FALSE]
  /\ slots = [fd \in Fd |-> None]
  /\ list = EmptyList
  /\ map = [fd \in Fd |-> None]
  /\ fdof = [c \in Conn |-> None]
  /\ due = {}
  /\ lock = [c \in Conn |-> None]
  /\ queue = <<>>
  /\ event = [c \in Conn |-> "in"]
  /\ out = [c \in Conn |-> FALSE] /\ keep = [c \in Conn |-> FALSE]
  /\ crash = "no"
  /\ batch = {}
  /\ cursor = HeadNode
  /\ pc = [t \in Thread |-> IF t = Main THEN "loop" ELSE "idle"]
  /\ lfd = [t \in Thread |-> None]
  /\ lconn = [t \in Thread |-> None]

-----------------------------------------------------------------------------
(* Control of a thread *)

at(t, l) == pc[t] = l
goto(t, l) == pc' = [pc EXCEPT ![t] = l]

(* A handler returns: a worker goes back to getTask, the main thread, which *)
(* runs handlers only from closeExpire, to the loop there.                 *)
return(t) == /\ goto(t, IF t = Main THEN "scan" ELSE "idle")
             /\ lfd' = [lfd EXCEPT ![t] = None]
             /\ lconn' = [lconn EXCEPT ![t] = None]

fail(how) == crash' = how /\ UNCHANGED <<pc, lfd, lconn>>

(* Connections the kernel has completed and the server has not accepted.   *)
backlog == {c \in Conn : peer[c] # "none" /\ \A fd \in Fd : sock[fd] # c}

(* A thread other than t is about to store into the slot of fd.  A copy of *)
(* the shared_ptr made meanwhile may get the pointer without its count.    *)
storing(t, fd) ==
  \E u \in Thread \ {t} : lfd[u] = fd /\ pc[u] \in {"cl_slot", "nc_slot"}

(* Mistake: the null test is missing. *)
loadUntested(t, l) == /\ goto(t, l)
                      /\ lconn' = [lconn EXCEPT ![t] = slots[lfd[t]]]
                      /\ UNCHANGED <<lfd, crash>>

(* spConnection conn = _connections[fd]; if (conn==nullptr) return; *)
load(t, l) ==
  \/ /\ slots[lfd[t]] = None
     /\ return(t)
     /\ UNCHANGED crash
  \/ /\ slots[lfd[t]] # None
     /\ goto(t, l)
     /\ lconn' = [lconn EXCEPT ![t] = slots[lfd[t]]]
     /\ UNCHANGED <<lfd, crash>>
  \/ storing(t, lfd[t]) /\ fail("torn")

(* Timer calls; their asserts on _map are the IFs of the callers. *)
hasTimer(fd) == map[fd] # None
updated(fd) == /\ list' = moveToHead(list, map[fd])
               /\ due' = due \ {map[fd]}
               /\ UNCHANGED <<map, fdof>>
unmapped(fd, l) == /\ list' = l
                   /\ map' = [map EXCEPT ![fd] = None]
                   /\ UNCHANGED <<due, fdof>>

removedNot(fd) == UNCHANGED timers  \* Mistake: nothing is done,
removedFromMap(fd) == unmapped(fd, list)  \* or the timer stays on the list.
removed(fd) == unmapped(fd, unlink(list, map[fd]))

(* epoll_ctl MOD fails on a descriptor that is not registered. *)
modEpoll(fd, ev) ==
  armed' = [armed EXCEPT ![fd] = IF armed[fd] = "none" THEN "none" ELSE ev]

-----------------------------------------------------------------------------
(* handleClose, run by any thread *)

closeLoad(t) ==
  /\ at(t, "cl_load")
  /\ load(t, "cl_timer")
  /\ UNCHANGED <<kernel, slots, timers, lock, queue, data, batch, cursor>>

closeTimer(t) ==
  /\ at(t, "cl_timer")
  /\ lock[lconn[t]] = None
  /\ lock' = [lock EXCEPT ![lconn[t]] = t]
  /\ IF hasTimer(lfd[t])
     THEN removed(lfd[t]) /\ goto(t, "cl_slot") /\ UNCHANGED <<lfd, lconn, crash>>
     ELSE fail("assert") /\ UNCHANGED timers
  /\ UNCHANGED <<kernel, slots, queue, data, batch, cursor>>

storeSlots(t, s) ==
  /\ at(t, "cl_slot")
  /\ slots' = s
  /\ goto(t, "cl_clear")
  /\ UNCHANGED <<kernel, timers, lock, queue, data, crash, batch, cursor, lfd, lconn>>

closeSlotNot(t) == storeSlots(t, slots)  \* Mistake: the slot keeps its pointer.
closeSlot(t) == storeSlots(t, [slots EXCEPT ![lfd[t]] = None])

Clear(t) ==
  /\ at(t, "cl_clear")
  /\ out' = [out EXCEPT ![lconn[t]] = FALSE]
  /\ keep' = [keep EXCEPT ![lconn[t]] = FALSE]
  /\ goto(t, "cl_fd")
  /\ UNCHANGED <<kernel, slots, timers, lock, queue, event, crash, batch, cursor, lfd, lconn>>

(* delEpoll, close and the release of the mutex.  Whatever socket the      *)
(* descriptor is by now is the one that is closed.                         *)
closeFd(t) ==
  /\ at(t, "cl_fd")
  /\ armed' = [armed EXCEPT ![lfd[t]] = "none"]
  /\ sock' = [sock EXCEPT ![lfd[t]] = None]
  /\ peer' = [c \in Conn |-> IF c = sock[lfd[t]] THEN "none" ELSE peer[c]]
  /\ rx' = [c \in Conn |-> c # sock[lfd[t]] /\ rx[c]]
  /\ full' = [c \in Conn |-> c # sock[lfd[t]] /\ full[c]]
  /\ lock' = [lock EXCEPT ![lconn[t]] = None]
  /\ return(t)
  /\ UNCHANGED <<slots, timers, queue, data, crash, batch, cursor>>

handleClose(t) == closeLoad(t) \/ closeTimer(t) \/ closeSlot(t) \/ Clear(t) \/ closeFd(t)

-----------------------------------------------------------------------------
(* A worker: getTask, handleEvent, handleRequest, handleWrite *)

(* The head of the queue is taken off, and c is run, unless it is null. *)
runTask(t, c) ==
  /\ at(t, "idle")
  /\ queue # <<>>
  /\ queue' = Tail(queue)
  /\ IF c = None
     THEN UNCHANGED locals
     ELSE /\ goto(t, "event")
          /\ lconn' = [lconn EXCEPT ![t] = c]
          /\ lfd' = [lfd EXCEPT ![t] = fdof[c]]
  /\ UNCHANGED <<kernel, slots, timers, lock, data, crash, batch, cursor>>

getTaskDropping(t) == runTask(t, None)  \* Mistake: the task is not run.
getTask(t) == runTask(t, Head(queue))

(* handleError does nothing but handleClose. *)
handleEvent(t) ==
  /\ at(t, "event")
  /\ goto(t, CASE event[lconn[t]] = "in" -> "req_load"
               [] event[lconn[t]] = "out" -> "wr_load"
               [] event[lconn[t]] = "err" -> "cl_load")
  /\ lconn' = [lconn EXCEPT ![t] = None]
  /\ UNCHANGED <<kernel, slots, timers, lock, queue, data, crash, batch, cursor, lfd>>

requestLoad(t) ==
  /\ at(t, "req_load")
  /\ load(t, "req_timer")
  /\ UNCHANGED <<kernel, slots, timers, lock, queue, data, batch, cursor>>

(* Lock the connection, updateTimer, unlock, then go on at l. *)
refresh(t, l) ==
  /\ lock[lconn[t]] = None
  /\ IF hasTimer(lfd[t])
     THEN updated(lfd[t]) /\ goto(t, l) /\ UNCHANGED <<lfd, lconn, crash>>
     ELSE fail("assert") /\ UNCHANGED timers
  /\ UNCHANGED <<kernel, slots, lock, queue, data, batch, cursor>>

requestTimer(t) == at(t, "req_timer") /\ refresh(t, "read")

(* Connection::Read: all that the socket of the descriptor holds, or 0 when *)
(* there is nothing, the client has hung up or the descriptor is closed,   *)
(* which the caller does not tell apart.                                   *)
Read(t) ==
  LET s == sock[lfd[t]] IN
  /\ at(t, "read")
  /\ IF s # None /\ rx[s]
     THEN rx' = [rx EXCEPT ![s] = FALSE] /\ goto(t, "process")
     ELSE goto(t, "cl_load") /\ UNCHANGED rx
  /\ UNCHANGED <<sock, armed, peer, full, slots, timers, lock, queue, data, crash, batch,
                 cursor, lfd, lconn>>

(* No complete request yet: the handler returns, and does not re-arm.      *)
processNone(t) ==
  /\ at(t, "process")
  /\ return(t)
  /\ UNCHANGED <<kernel, slots, timers, lock, queue, data, crash, batch, cursor>>

(* A request, with or without keep-alive, or a malformed one. *)
respond(t, a) ==
  /\ at(t, "process")
  /\ \E k \in {TRUE, FALSE} : keep' = [keep EXCEPT ![lconn[t]] = k]
  /\ out' = [out EXCEPT ![lconn[t]] = TRUE]
  /\ armed' = a
  /\ goto(t, "wr_load")
  /\ UNCHANGED <<sock, peer, rx, full, slots, timers, lock, queue, event, crash, batch, cursor,
                 lfd, lconn>>

processSomeRearming(t) ==  \* Mistake: re-arms before the answer is written.
  respond(t, [armed EXCEPT ![lfd[t]] = "in"])
processSome(t) == respond(t, armed)

processCore(t) == processNone(t) \/ processSome(t)

writeLoad(t) ==
  /\ at(t, "wr_load")
  /\ load(t, "wr_timer")
  /\ UNCHANGED <<kernel, slots, timers, lock, queue, data, batch, cursor>>

writeTimer(t) == at(t, "wr_timer") /\ refresh(t, "write")

unchangedByWrite == <<sock, armed, peer, rx, slots, timers, lock, queue, event, keep, crash,
                      batch, cursor, lfd, lconn>>

(* Connection::Write to the socket of the descriptor: all of _outbuffer    *)
(* goes out, *)
writeAll(t) ==
  /\ at(t, "write")
  /\ out[lconn[t]] => sock[lfd[t]] # None /\ ~full[sock[lfd[t]]]
  /\ out' = [out EXCEPT ![lconn[t]] = FALSE]
  /\ goto(t, "finish")
  /\ UNCHANGED <<full, unchangedByWrite>>

(* or the send buffer is, or becomes, full, *)
writeSome(t) ==
  /\ at(t, "write")
  /\ out[lconn[t]] /\ sock[lfd[t]] # None
  /\ full' = [full EXCEPT ![sock[lfd[t]]] = TRUE]
  /\ goto(t, "mod_out")
  /\ UNCHANGED <<out, unchangedByWrite>>

(* or there is no one to write to. *)
writeError(t) ==
  /\ at(t, "write")
  /\ out[lconn[t]]
  /\ sock[lfd[t]] # None => peer[sock[lfd[t]]] = "hup"
  /\ goto(t, "cl_load")
  /\ UNCHANGED <<full, out, unchangedByWrite>>

Write(t) == writeAll(t) \/ writeSome(t) \/ writeError(t)

armOut(t) ==
  /\ at(t, "mod_out")
  /\ modEpoll(lfd[t], "out")
  /\ return(t)
  /\ UNCHANGED <<sock, peer, rx, full, slots, timers, lock, queue, data, crash, batch, cursor>>

(* Everything is sent: wait for the next request, or close. *)
finish(t) ==
  /\ at(t, "finish")
  /\ IF keep[lconn[t]]
     THEN modEpoll(lfd[t], "in") /\ return(t)
     ELSE goto(t, "cl_load") /\ UNCHANGED <<armed, lfd, lconn>>
  /\ UNCHANGED <<sock, peer, rx, full, slots, timers, lock, queue, data, crash, batch, cursor>>

handleRequest(t) == requestLoad(t) \/ requestTimer(t) \/ Read(t) \/ processCore(t)
handleWrite(t) == writeLoad(t) \/ writeTimer(t) \/ Write(t) \/ armOut(t) \/ finish(t)

work(t) == getTask(t) \/ handleEvent(t) \/ handleRequest(t) \/ handleWrite(t) \/ handleClose(t)

-----------------------------------------------------------------------------
(* The main thread: Start, closeExpire, handleNewConn *)

walk(from, to, n) ==
  /\ at(Main, from) /\ goto(Main, to)
  /\ cursor' = n
  /\ UNCHANGED <<kernel, slots, timers, lock, queue, data, crash, batch, lfd, lconn>>

closeExpireLate ==  \* Mistake: starts one timer too far.
  batch = {} /\ walk("loop", "scan", list.last[list.last[TailNode]])

closeExpire == batch = {} /\ walk("loop", "scan", list.last[TailNode])

scanCheck ==
  /\ at(Main, "scan")
  /\ IF cursor = HeadNode \/ cursor \notin due
     THEN /\ goto(Main, "wait")
          /\ cursor' = HeadNode
          /\ due' = due \cap Linked
          /\ UNCHANGED lfd
     ELSE /\ goto(Main, "step")
          /\ lfd' = [lfd EXCEPT ![Main] = fdof[cursor]]
          /\ UNCHANGED <<cursor, due>>
  /\ UNCHANGED <<kernel, slots, list, map, fdof, lock, queue, data, crash, batch, lconn>>

(* ... and then handleExpire, which does nothing but handleClose. *)
scanStep == walk("step", "cl_load", list.last[cursor])

(* What epoll has to report.  An end of stream counts as input; a hang-up  *)
(* while the send buffer is full is reported as an error.                  *)
readyEvents ==
  {e \in Fd \X {"in", "out", "err"} :
     LET s == sock[e[1]] IN
     \/ e[2] = "in" /\ armed[e[1]] = "in" /\ (rx[s] \/ peer[s] = "hup")
     \/ e[2] = "out" /\ armed[e[1]] = "out" /\ ~full[s]
     \/ e[2] = "err" /\ armed[e[1]] = "out" /\ full[s] /\ peer[s] = "hup"}

(* epoll_wait; with nothing to report it returns after TIMEOUT/10.         *)
fetch(a) ==
  /\ at(Main, "wait")
  /\ batch' = readyEvents \cup IF backlog = {} THEN {} ELSE {<<Listen, "in">>}
  /\ armed' = a
  /\ goto(Main, "loop")
  /\ UNCHANGED <<sock, peer, rx, full, slots, timers, lock, queue, data, crash, cursor, lfd,
                 lconn>>

epollWaitLevel == fetch(armed)  \* Mistake: EPOLLONESHOT is not set.
epollWait ==
  fetch([fd \in Fd |-> IF \E e \in readyEvents : e[1] = fd THEN "off" ELSE armed[fd]])

(* _connections[evfd]->setEvent(curev) *)
dispatch(e) ==
  /\ at(Main, "loop") /\ e \in batch /\ e[1] # Listen
  /\ batch' = batch \ {e}
  /\ \/ slots[e[1]] = None /\ fail("null") /\ UNCHANGED event
     \/ storing(Main, e[1]) /\ fail("torn") /\ UNCHANGED event
     \/ /\ slots[e[1]] # None
        /\ event' = [event EXCEPT ![slots[e[1]]] = e[2]]
        /\ goto(Main, "add_task")
        /\ lfd' = [lfd EXCEPT ![Main] = e[1]]
        /\ UNCHANGED <<lconn, crash>>
  /\ UNCHANGED <<kernel, slots, timers, lock, queue, out, keep, cursor>>

(* addTask(_connections[evfd]): the slot is loaded a second time. *)
addTask ==
  /\ at(Main, "add_task")
  /\ \/ /\ queue' = Append(queue, slots[lfd[Main]])
        /\ goto(Main, "loop")
        /\ lfd' = [lfd EXCEPT ![Main] = None]
        /\ UNCHANGED <<crash, lconn>>
     \/ storing(Main, lfd[Main]) /\ fail("torn") /\ UNCHANGED queue
  /\ UNCHANGED <<kernel, slots, timers, lock, data, batch, cursor>>

(* accept returns some free descriptor; a new Connection is made and locked, *)
(* which no other thread sees yet.  Its _event is not initialised, and is  *)
(* set before it is read.                                                  *)
handleNewConn(fd, c) ==
  /\ at(Main, "loop") /\ <<Listen, "in">> \in batch
  /\ sock[fd] = None /\ c \in backlog
  /\ batch' = batch \ {<<Listen, "in">>}
  /\ sock' = [sock EXCEPT ![fd] = c]
  /\ lock' = [lock EXCEPT ![c] = Main]
  /\ fdof' = [fdof EXCEPT ![c] = fd]
  /\ event' = [event EXCEPT ![c] = "in"]
  /\ out' = [out EXCEPT ![c] = FALSE]
  /\ keep' = [keep EXCEPT ![c] = FALSE]
  /\ goto(Main, "nc_slot")
  /\ lfd' = [lfd EXCEPT ![Main] = fd]
  /\ lconn' = [lconn EXCEPT ![Main] = c]
  /\ UNCHANGED <<armed, peer, rx, full, slots, list, map, due, queue, crash, cursor>>

(* _connections[clnt_sock] = conn                                          *)
newSlot ==
  /\ at(Main, "nc_slot")
  /\ slots' = [slots EXCEPT ![lfd[Main]] = lconn[Main]]
  /\ goto(Main, "nc_timer")
  /\ UNCHANGED <<kernel, timers, lock, queue, data, crash, batch, cursor, lfd, lconn>>

(* No descriptor is free: accept fails, and so will it at once next time.  *)
acceptFails ==
  /\ at(Main, "loop") /\ <<Listen, "in">> \in batch
  /\ \A fd \in Fd : sock[fd] # None
  /\ batch' = batch \ {<<Listen, "in">>}
  /\ UNCHANGED <<kernel, slots, timers, lock, queue, data, crash, cursor, locals>>

newTimer ==
  LET fd == lfd[Main]
      c == lconn[Main] IN
  /\ at(Main, "nc_timer")
  /\ IF hasTimer(fd)
     THEN fail("assert") /\ UNCHANGED timers
     ELSE /\ list' = addToHead(list, c)
          /\ map' = [map EXCEPT ![fd] = c]
          /\ due' = due \ {c}
          /\ goto(Main, "nc_epoll")
          /\ UNCHANGED <<fdof, crash, lfd, lconn>>
  /\ UNCHANGED <<kernel, slots, lock, queue, data, batch, cursor>>

(* ctlEpoll, which fails on a descriptor that is closed by now, and the    *)
(* release of the mutex                                                    *)
newEpoll ==
  /\ at(Main, "nc_epoll")
  /\ armed' = [armed EXCEPT ![lfd[Main]] = IF sock[lfd[Main]] = None THEN "none" ELSE "in"]
  /\ lock' = [lock EXCEPT ![lconn[Main]] = None]
  /\ goto(Main, "loop")
  /\ lfd' = [lfd EXCEPT ![Main] = None]
  /\ lconn' = [lconn EXCEPT ![Main] = None]
  /\ UNCHANGED <<sock, peer, rx, full, slots, timers, queue, data, crash, batch, cursor>>

Start == \/ closeExpire \/ scanCheck \/ scanStep \/ handleClose(Main)
         \/ epollWait \/ addTask \/ acceptFails
         \/ newSlot \/ newTimer \/ newEpoll
         \/ \E e \in batch : dispatch(e)
         \/ \E fd \in Fd, c \in Conn : handleNewConn(fd, c)

-----------------------------------------------------------------------------
(* Clients and the clock (external) *)

unchangedByClient == <<sock, armed, slots, list, map, fdof, lock, queue, data, crash, batch,
                       cursor, locals>>

(* A Connection object that nothing refers to any more may be a new one.   *)
unreferenced(c) == /\ c \notin Linked
                   /\ \A fd \in Fd : slots[fd] # c
                   /\ \A i \in 1..Len(queue) : queue[i] # c
                   /\ \A t \in Thread : lconn[t] # c

Connect(c) ==
  /\ peer[c] = "none" /\ unreferenced(c)
  /\ peer' = [peer EXCEPT ![c] = "open"]
  /\ UNCHANGED <<rx, full, due, unchangedByClient>>

Send(c) ==
  /\ peer[c] = "open"
  /\ rx' = [rx EXCEPT ![c] = TRUE]
  /\ UNCHANGED <<peer, full, due, unchangedByClient>>

HangUp(c) ==
  /\ peer[c] = "open"
  /\ peer' = [peer EXCEPT ![c] = "hup"]
  /\ UNCHANGED <<rx, full, due, unchangedByClient>>

(* The client takes in what was sent to it. *)
Drain(c) ==
  /\ peer[c] # "none" /\ full[c]
  /\ full' = [full EXCEPT ![c] = FALSE]
  /\ UNCHANGED <<peer, rx, due, unchangedByClient>>

(* TIMEOUT passes without activity on c, as it has for all behind it, or   *)
(* on a connection that is closed while closeExpire stands on its timer.   *)
Age(c) ==
  /\ c \notin due
  /\ IF c \in Linked THEN list.next[c] \in due \cup {TailNode} ELSE c = cursor
  /\ due' = due \cup {c}
  /\ UNCHANGED <<peer, rx, full, unchangedByClient>>

Client(c) == Connect(c) \/ Send(c) \/ HangUp(c) \/ Drain(c) \/ Age(c)

-----------------------------------------------------------------------------
System == Start \/ \E t \in Worker : work(t)
Environment == \E c \in Conn : Client(c)

Next == crash = "no" /\ (System \/ Environment)

(* The threads are scheduled; a mutex is held over no blocking call.       *)
Fairness == /\ WF_vars(crash = "no" /\ Start)
            /\ \A t \in Worker : WF_vars(crash = "no" /\ work(t))

Spec == Init /\ [][Next]_vars /\ Fairness

-----------------------------------------------------------------------------
(* What holds whatever the clients do and whenever timers run out *)

(* The timer list is one chain through exactly the timers of _map, and each *)
(* timer is that of its own descriptor: no interleaving of workers with    *)
(* closeExpire breaks the list (the claim of ReadMe.md:99).                *)
ListInv == /\ WellLinked(list, Linked)
           /\ \A fd \in Fd : map[fd] # None => fdof[map[fd]] = fd

(* The due timers are the end of the list.                                 *)
DueAtEnd == \A c \in Linked : list.last[c] \in due => c \in due

finalClose(fd) == \E t \in Thread : lfd[t] = fd /\ pc[t] \in {"cl_slot", "cl_clear", "cl_fd"}
accepting(fd) == lfd[Main] = fd /\ pc[Main] \in {"nc_slot", "nc_timer"}

(* No socket leaks and no timer or slot dangles: an open descriptor has a  *)
(* timer, or handleNewConn is about to add it or handleClose to close the  *)
(* descriptor; and a timer or a slot is that of the connection whose       *)
(* socket the descriptor is.                                               *)
TablesAgree ==
  \A fd \in Fd :
    /\ map[fd] # None => sock[fd] = map[fd] /\ slots[fd] = map[fd]
    /\ sock[fd] # None => map[fd] # None \/ finalClose(fd) \/ accepting(fd)
    /\ slots[fd] # None => slots[fd] = sock[fd]

(* addTimer never finds a timer that an earlier connection has left behind *)
(* for the descriptor, so its assert holds.                                *)
AcceptedIsNew == \A fd \in Fd : accepting(fd) => map[fd] = None

(* close is not called twice for one accept, not even by a worker that     *)
(* loaded the slot of an earlier connection of the same descriptor.        *)
NoDoubleClose ==
  \A t \in Thread : at(t, "cl_fd") =>
    /\ sock[lfd[t]] # None
    /\ \A u \in Thread \ {t} : at(u, "cl_fd") => lfd[u] # lfd[t]

(* A connection whose time has run out is closed or refreshed, if the      *)
(* process lives.                                                          *)
ExpiredIsClosed ==
  \A c \in Conn : (c \in due \cap Linked) ~> (crash # "no" \/ c \notin due \cap Linked)
=============================================================================
