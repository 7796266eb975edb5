--------------------------- MODULE TcpServerQuiet ---------------------------
(***************************************************************************)
(* The server when no client is active on a connection whose time has run  *)
(* out.  closeExpire closes such a connection within the 12 s its loop may *)
(* sleep, and nothing in the code keeps a worker off the connection in the *)
(* meantime.  Under this assumption, and only then (see the runs of        *)
(* MCTcpServerRaces), EPOLLONESHOT does what ReadMe.md:51 expects of it:   *)
(* one thread at a time works on a connection.                             *)
(***************************************************************************)
EXTENDS TcpServer

(* Everything that can lead to work on a descriptor: its registration with *)
(* epoll, events of it not yet dispatched, places in the queue, threads.   *)
(* The main thread in handleClose is not among them: it comes unasked.     *)
Holders(fd) ==
  {<<"epoll", ev>> : ev \in {armed[fd]} \cap {"in", "out"}}
    \cup {<<"batch", e>> : e \in {b \in batch : b[1] = fd}}
    \cup {<<"queue", i>> : i \in {j \in 1..Len(queue) : queue[j] # None /\ fdof[queue[j]] = fd}}
    \cup {<<"thread", t>> : t \in {w \in Worker : lfd[w] = fd}}
    \cup {<<"thread", Main>> : l \in {pc[Main]} \cap {"add_task", "nc_slot", "nc_timer", "nc_epoll"}
                                     \cap {x \in MainPc : lfd[Main] = fd}}

(* No event is under way, or about to be, for a connection that is due.    *)
QuietExpiry ==
  \A c \in due : LET fd == fdof[c] IN
    /\ Holders(fd) \subseteq {<<"epoll", "in">>, <<"epoll", "out">>}
    /\ \A e \in readyEvents : e[1] # fd

QuietNext == crash = "no" /\ (System \/ (Environment /\ QuietExpiry'))

QuietSpec == Init /\ [][QuietNext]_vars /\ Fairness

-----------------------------------------------------------------------------
(* No assert fails and no null pointer is followed.                        *)
NoCrash == crash = "no"

(* EPOLLONESHOT and the hand-over from epoll to queue to worker and back   *)
(* give each descriptor one holder at most, and an open one that has none  *)
(* waits for nothing but its timer.                                        *)
OneHolder == \A fd \in Fd : \A h, k \in Holders(fd) : h = k

(* The Buffers and flags of a Connection are used by one thread at a time, *)
(* although no mutex protects them.                                        *)
usesData(t) == pc[t] \in {"read", "process", "write", "mod_out", "finish", "cl_clear"}
ExclusiveUse ==
  \A t, u \in Thread : usesData(t) /\ usesData(u) /\ t # u => lconn[t] # lconn[u]

(* From handleEvent on, a thread reads, writes, arms and closes the socket *)
(* of the connection it works on, never that of a later one with the same  *)
(* descriptor.                                                             *)
OwnSocket == \A t \in Thread : pc[t] \notin untested => sock[lfd[t]] = lconn[t]

(* What ReadMe.md:51 says EPOLLONESHOT guarantees: at any time one thread   *)
(* at most reads from or writes to a socket.                               *)
OneWorkerPerSocket ==
  \A t, u \in Worker :
    pc[t] \in {"read", "write"} /\ pc[u] \in {"read", "write"} /\ t # u => lfd[t] # lfd[u]

(* Bytes that arrive while the server waits for them are read.             *)
BytesAreRead ==
  \A fd \in Fd :
    (armed[fd] = "in" /\ rx[sock[fd]]) ~> (sock[fd] = None \/ ~rx[sock[fd]])
=============================================================================
