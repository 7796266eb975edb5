------------------------ MODULE TcpServerQuietProofs ------------------------
(***************************************************************************)
(* What EPOLLONESHOT gives under the assumption of TcpServerQuiet: one     *)
(* holder per descriptor, and from it that the threads do not meet and     *)
(* that nothing fails.  For any number of descriptors, connections and     *)
(* workers.                                                                *)
(***************************************************************************)
EXTENDS TcpServerQuiet, TcpServerProofs

(* The holders of fd, kind by kind. *)
waits(fd) == armed[fd] \in {"in", "out"}
reported(fd) == \E e \in batch : e[1] = fd
queuedAt(i, fd) == queue[i] # None /\ fdof[queue[i]] = fd
queued(fd) == \E i \in 1..Len(queue) : queuedAt(i, fd)
worked(fd) == \E t \in Worker : lfd[t] = fd
givingPc == {"add_task", "nc_slot", "nc_timer", "nc_epoll"}
given(fd) == pc[Main] \in givingPc /\ lfd[Main] = fd

(* Somebody has been told of an event of fd, or is opening it.             *)
busy(fd) == reported(fd) \/ queued(fd) \/ worked(fd) \/ given(fd)

Once(fd) ==
  /\ waits(fd) => ~busy(fd)
  /\ reported(fd) => ~queued(fd) /\ ~worked(fd) /\ ~given(fd)
  /\ queued(fd) => ~worked(fd) /\ ~given(fd)
  /\ worked(fd) => ~given(fd)
  /\ \A e, f \in batch : e[1] = fd /\ f[1] = fd => e = f
  /\ \A i, j \in 1..Len(queue) : queuedAt(i, fd) /\ queuedAt(j, fd) => i = j
  /\ \A t, u \in Worker : lfd[t] = fd /\ lfd[u] = fd => t = u

LEMMA HolderCases ==
  ASSUME NEW fd, NEW h
  PROVE  h \in Holders(fd) <=>
           \/ waits(fd) /\ h = <<"epoll", armed[fd]>>
           \/ \E e \in batch : e[1] = fd /\ h = <<"batch", e>>
           \/ \E i \in 1..Len(queue) : queuedAt(i, fd) /\ h = <<"queue", i>>
           \/ \E t \in Worker : lfd[t] = fd /\ h = <<"thread", t>>
           \/ given(fd) /\ h = <<"thread", Main>>
<1>1. givingPc \subseteq MainPc
  BY DEF givingPc, MainPc
<1> QED BY <1>1 DEF Holders, waits, queuedAt, given, givingPc

LEMMA OnceIsOneHolder ==
  ASSUME NEW fd
  PROVE  (\A h, k \in Holders(fd) : h = k) <=> Once(fd)
<1>1. ASSUME \A h, k \in Holders(fd) : h = k PROVE Once(fd)
  <2>1. waits(fd) => <<"epoll", armed[fd]>> \in Holders(fd)
    BY HolderCases
  <2>2. \A e \in batch : e[1] = fd => <<"batch", e>> \in Holders(fd)
    BY HolderCases
  <2>3. \A i \in 1..Len(queue) : queuedAt(i, fd) => <<"queue", i>> \in Holders(fd)
    BY HolderCases
  <2>4. \A t \in Worker : lfd[t] = fd => <<"thread", t>> \in Holders(fd)
    BY HolderCases
  <2>5. given(fd) => <<"thread", Main>> \in Holders(fd)
    BY HolderCases
  <2>6. Main \notin Worker
    BY NamesDistinct
  <2>7. /\ \A e, f \in batch : e[1] = fd /\ f[1] = fd => e = f
        /\ \A i, j \in 1..Len(queue) : queuedAt(i, fd) /\ queuedAt(j, fd) => i = j
        /\ \A t, u \in Worker : lfd[t] = fd /\ lfd[u] = fd => t = u
    BY <1>1, <2>2, <2>3, <2>4
  <2>8. /\ waits(fd) => ~busy(fd)
        /\ reported(fd) => ~queued(fd) /\ ~worked(fd) /\ ~given(fd)
        /\ queued(fd) => ~worked(fd) /\ ~given(fd)
        /\ worked(fd) => ~given(fd)
    BY <1>1, <2>1, <2>2, <2>3, <2>4, <2>5, <2>6 DEF busy, reported, queued, worked
  <2> QED BY <2>7, <2>8 DEF Once
<1>2. ASSUME Once(fd), NEW h \in Holders(fd), NEW k \in Holders(fd) PROVE h = k
  BY <1>2, HolderCases DEF Once, busy, reported, queued, worked
<1> QED BY <1>1, <1>2

LEMMA BusyIsMore ==
  ASSUME NEW fd
  PROVE  Holders(fd) \subseteq {<<"epoll", "in">>, <<"epoll", "out">>} <=> ~busy(fd)
<1>1. ASSUME busy(fd) PROVE ~(Holders(fd) \subseteq {<<"epoll", "in">>, <<"epoll", "out">>})
  <2>1. \E k, x : k # "epoll" /\ <<k, x>> \in Holders(fd)
    <3>1. \A e \in batch : e[1] = fd => <<"batch", e>> \in Holders(fd)
      BY HolderCases
    <3>2. \A i \in 1..Len(queue) : queuedAt(i, fd) => <<"queue", i>> \in Holders(fd)
      BY HolderCases
    <3>3. \A t \in Thread :
            (t \in Worker /\ lfd[t] = fd) \/ (t = Main /\ given(fd))
               => <<"thread", t>> \in Holders(fd)
      BY HolderCases
    <3> QED BY <1>1, <3>1, <3>2, <3>3 DEF busy, reported, queued, worked, Thread
  <2> QED BY <2>1
<1>2. ASSUME ~busy(fd) PROVE Holders(fd) \subseteq {<<"epoll", "in">>, <<"epoll", "out">>}
  BY <1>2, HolderCases DEF busy, reported, queued, worked, waits
<1> QED BY <1>1, <1>2

-----------------------------------------------------------------------------
(* QuietInv, the inductive invariant: nothing has failed and each          *)
(* descriptor has one holder;                                              *)
OnceInv == \A fd \in Fd : Once(fd)

(* one that has a holder is open;                                          *)
OpenInv == \A fd \in Fd : waits(fd) \/ busy(fd) => sock[fd] # None

(* nobody has been or will be told of an event of a connection that is due;*)
DueInv == \A c \in due : ~busy(fdof[c]) /\ \A e \in readyEvents : e[1] # fdof[c]

(* a task is the connection whose socket its descriptor is, as is what a   *)
(* thread works on (OwnSocket);                                            *)
TasksInv == \A i \in 1..Len(queue) : queue[i] # None /\ sock[fdof[queue[i]]] = queue[i]

(* the main thread closes the descriptor of a timer that is due, and       *)
(* outside closeExpire all that is due is still on the list.               *)
expiringPc == closing \cup {"step"}
ExpiryInv ==
  /\ \A c \in due : fdof[c] \in Fd
  /\ pc[Main] \in expiringPc => \E c \in due : fdof[c] = lfd[Main]
  /\ pc[Main] \notin expiringPc \cup {"scan"} => due \subseteq Linked /\ cursor = HeadNode

HoldersInv == OnceInv /\ OpenInv /\ DueInv /\ OwnSocket /\ TasksInv

QuietInv == NoCrash /\ HoldersInv /\ ExpiryInv

LEMMA OnceIsOneHolderInv == OnceInv <=> OneHolder
  BY OnceIsOneHolder DEF OnceInv, OneHolder

LEMMA DueIsQuiet == DueInv <=> QuietExpiry
  BY BusyIsMore DEF DueInv, QuietExpiry

LEMMA DueIsQuietNext == DueInv' <=> QuietExpiry'
  BY DueIsQuiet, PTL

-----------------------------------------------------------------------------
(* What follows from it. *)

LEMMA Places ==
  ASSUME TypeInv, NEW t \in Thread, lfd[t] \in Fd
  PROVE  \/ t \in Worker /\ worked(lfd[t])
         \/ t = Main /\ pc[Main] \in expiringPc
         \/ t = Main /\ given(lfd[Main])
<1>1. pc[t] \notin outside /\ pc[t] \in IF t = Main THEN MainPc ELSE WorkerPc
  BY NamesDistinct DEF TypeInv, LocalsOK
<1>2. t = Main => pc[t] \in expiringPc \cup givingPc
  BY <1>1 DEF outside, MainPc, expiringPc, givingPc
<1> QED BY <1>2 DEF Thread, worked, given

(* No two threads are at the same descriptor. *)
LEMMA OneThread ==
  ASSUME TypeInv, QuietInv, NEW t \in Thread, NEW u \in Thread,
         lfd[t] \in Fd, lfd[u] = lfd[t]
  PROVE  t = u
<1>1. Once(lfd[t])
  BY DEF QuietInv, HoldersInv, OnceInv
<1>2. pc[Main] \in expiringPc => ~busy(lfd[Main])
  BY DEF QuietInv, HoldersInv, ExpiryInv, DueInv
<1> QED BY <1>1, <1>2, Places DEF Once, busy

LEMMA WorkerIsBusy ==
  ASSUME TypeInv, QuietInv, NEW t \in Worker, lfd[t] \in Fd
  PROVE  /\ busy(lfd[t]) /\ ~waits(lfd[t]) /\ sock[lfd[t]] # None
         /\ \A c \in due : fdof[c] # lfd[t]
<1>1. busy(lfd[t])
  BY DEF busy, worked
<1> QED BY <1>1 DEF QuietInv, HoldersInv, OnceInv, Once, OpenInv, DueInv

(* The asserts of rmTimer and updateTimer hold. *)
LEMMA OpenHasTimer ==
  ASSUME TypeInv, TableInv, QuietInv, NEW t \in Thread, lfd[t] \in Fd,
         pc[t] \notin closerPc \cup newPc, sock[lfd[t]] # None
  PROVE  /\ map[lfd[t]] # None /\ map[lfd[t]] = sock[lfd[t]]
         /\ slots[lfd[t]] = sock[lfd[t]]
<1>1. Main \in Thread
  BY DEF Thread
<1>2. ~finalClose(lfd[t])
  BY OneThread DEF finalClose, closerPc
<1>3. ~accepting(lfd[t])
  BY <1>1, OneThread DEF accepting, newPc
<1> QED BY <1>2, <1>3 DEF TableInv, TablesAgree

(* No load of a slot meets a store. *)
LEMMA NoStore ==
  ASSUME TypeInv, QuietInv, NEW t \in Thread, lfd[t] \in Fd
  PROVE  ~storing(t, lfd[t])
<1>1. \A u \in Thread \ {t} : lfd[u] # lfd[t]
  BY OneThread
<1> QED BY <1>1 DEF storing

-----------------------------------------------------------------------------
(* A step of a handler of t: nothing changes but at the descriptor that t  *)
(* holds, and if it gives that to epoll or closes it, it holds it no more. *)
LocalStep(t) ==
  /\ UNCHANGED <<batch, queue, fdof, due, cursor, crash>>
  /\ \A u \in Thread \ {t} : pc'[u] = pc[u] /\ lfd'[u] = lfd[u] /\ lconn'[u] = lconn[u]
  /\ lfd'[t] \in {lfd[t], None}
  /\ pc'[t] \notin untested => lfd'[t] = lfd[t] /\ lconn'[t] = sock'[lfd[t]]
  /\ \A fd \in Fd \ {lfd[t]} : armed'[fd] = armed[fd] /\ sock'[fd] = sock[fd] /\ map'[fd] = map[fd]
  /\ \A c \in Conn \ {sock[lfd[t]]} : rx'[c] = rx[c] /\ peer'[c] = peer[c] /\ full'[c] = full[c]
  /\ armed'[lfd[t]] = armed[lfd[t]] \/ lfd'[t] = None
  /\ \/ sock'[lfd[t]] = sock[lfd[t]]
     \/ armed'[lfd[t]] = "none" /\ lfd'[t] = None
  /\ t = Main => /\ pc[Main] \in closing
                 /\ pc'[Main] = "scan" \/ (pc'[Main] \in closing /\ lfd'[Main] = lfd[Main])
                 /\ UNCHANGED kernel \/ armed'[lfd[t]] = "none"

LEMMA LocalKeeps ==
  ASSUME TypeInv, TableInv, QuietInv, NEW t \in Thread, NEW F \in Fd, lfd[t] = F, LocalStep(t)
  PROVE  QuietInv'
<1>1. Main \in Thread /\ Main \notin Worker /\ None \notin Fd /\ Worker \subseteq Thread
  BY NamesDistinct DEF Thread
<1>2. \A u \in Thread \ {t} : lfd[u] # F
  BY OneThread
<1>3. ASSUME NEW fd
      PROVE  /\ reported(fd)' <=> reported(fd)
             /\ queued(fd)' <=> queued(fd)
             /\ \A i : queuedAt(i, fd)' <=> queuedAt(i, fd)
  BY DEF LocalStep, reported, queued, queuedAt
<1>4. ASSUME NEW fd \in Fd
      PROVE  /\ worked(fd)' => worked(fd)
             /\ given(fd)' => given(fd)
             /\ \A u \in Worker : lfd'[u] = fd => lfd[u] = fd
  <2>1. \A u \in Worker : lfd'[u] = fd => lfd[u] = fd
    BY <1>1 DEF LocalStep
  <2>2. given(fd)' => given(fd)
    BY <1>1 DEF LocalStep, given, givingPc, closing
  <2> QED BY <2>1, <2>2 DEF worked
<1>5. ASSUME NEW fd \in Fd PROVE busy(fd)' => busy(fd)
  BY <1>3, <1>4 DEF busy
<1>6. \A fd \in Fd \ {F} : waits(fd)' <=> waits(fd)
  BY DEF waits, LocalStep
<1>7. lfd'[t] = None => ~busy(F)'
  <2>1. CASE t = Main
    <3>1. ~busy(F)
      BY <2>1 DEF LocalStep, QuietInv, HoldersInv, ExpiryInv, DueInv, expiringPc
    <3> QED BY <3>1, <1>5
  <2>2. CASE t \in Worker
    <3>1. ~reported(F) /\ ~queued(F) /\ ~given(F)
      BY <2>2 DEF QuietInv, HoldersInv, OnceInv, Once, worked
    <3>2. lfd'[t] = None => ~worked(F)'
      BY <1>1, <1>2 DEF worked, LocalStep
    <3> QED BY <3>1, <3>2, <1>3, <1>4 DEF busy
  <2> QED BY <2>1, <2>2 DEF Thread
<1>8. OnceInv'
  <2> SUFFICES ASSUME NEW fd \in Fd PROVE Once(fd)'
    BY DEF OnceInv
  <2>1. Once(fd)
    BY DEF QuietInv, HoldersInv, OnceInv
  <2>2. waits(fd)' => ~busy(fd)'
    <3>1. CASE fd = F /\ lfd'[t] = None
      BY <3>1, <1>7
    <3>2. CASE fd # F \/ lfd'[t] # None
      <4>1. waits(fd)' => waits(fd)
        BY <3>2, <1>6 DEF LocalStep, waits
      <4> QED BY <4>1, <1>5, <2>1 DEF Once
    <3> QED BY <3>1, <3>2
  <2>3. batch' = batch /\ queue' = queue
    BY DEF LocalStep
  <2> QED BY <2>1, <2>2, <2>3, <1>3, <1>4 DEF Once
<1>9. OpenInv'
  <2> SUFFICES ASSUME NEW fd \in Fd, waits(fd)' \/ busy(fd)' PROVE sock'[fd] # None
    BY DEF OpenInv
  <2>1. CASE fd # F
    BY <2>1, <1>5, <1>6 DEF LocalStep, QuietInv, HoldersInv, OpenInv
  <2>2. CASE fd = F
    <3>1. sock'[F] = sock[F]
      BY <2>2, <1>7 DEF LocalStep, waits
    <3>2. CASE t \in Worker
      BY <2>2, <3>1, <3>2, WorkerIsBusy
    <3>3. CASE t = Main
      <4>1. waits(F) \/ busy(F)
        BY <2>2, <3>3, <1>5 DEF LocalStep, kernel, waits
      <4> QED BY <2>2, <3>1, <4>1 DEF QuietInv, HoldersInv, OpenInv
    <3> QED BY <3>2, <3>3 DEF Thread
  <2> QED BY <2>1, <2>2
<1>10. DueInv'
  <2> SUFFICES ASSUME NEW fd \in Fd, NEW c \in due, fdof[c] = fd
               PROVE  ~busy(fd)' /\ \A e \in readyEvents' : e[1] # fd
    BY DEF DueInv, LocalStep, QuietInv, HoldersInv, ExpiryInv
  <2>1. ~busy(fd) /\ \A e \in readyEvents : e[1] # fd
    BY DEF QuietInv, HoldersInv, DueInv
  <2>2. ~busy(fd)'
    BY <2>1, <1>5
  <2>3. ASSUME waits(fd)'
        PROVE  UNCHANGED <<armed[fd], sock[fd], rx[sock[fd]], peer[sock[fd]], full[sock[fd]]>>
    <3>1. CASE fd # F
      <4>1. armed'[fd] = armed[fd] /\ sock'[fd] = sock[fd]
        BY <3>1 DEF LocalStep
      <4>2. sock[fd] # None
        BY <4>1, <2>3 DEF QuietInv, HoldersInv, OpenInv, waits
      <4>3. sock[fd] # sock[F] /\ sock[fd] \in Conn
        BY <3>1, <4>2 DEF TableInv, SockInv, TypeInv, StateOK
      <4> QED BY <4>1, <4>3 DEF LocalStep
    <3>2. CASE fd = F
      <4>1. t = Main
        BY <3>2, WorkerIsBusy DEF Thread
      <4>2. UNCHANGED kernel
        BY <2>3, <3>2, <4>1 DEF LocalStep, waits
      <4> QED BY <4>2 DEF kernel
    <3> QED BY <3>1, <3>2
  <2>4. ASSUME NEW e \in readyEvents', e[1] = fd PROVE FALSE
    <3>1. waits(fd)'
      BY <2>4 DEF readyEvents, waits
    <3>2. e \in readyEvents
      BY <2>3, <2>4, <3>1 DEF readyEvents
    <3> QED BY <2>1, <2>4, <3>2
  <2> QED BY <2>2, <2>4
<1>11. OwnSocket'
  <2> SUFFICES ASSUME NEW u \in Thread, pc'[u] \notin untested
               PROVE  sock'[lfd'[u]] = lconn'[u]
    BY DEF OwnSocket
  <2>1. CASE u = t
    BY <2>1 DEF LocalStep
  <2>2. CASE u # t
    <3>1. pc'[u] = pc[u] /\ lfd'[u] = lfd[u] /\ lconn'[u] = lconn[u]
      BY <2>2 DEF LocalStep
    <3>2. lfd[u] \in Fd \ {F}
      BY <1>2, <2>2, <3>1 DEF TypeInv, LocalsOK, untested
    <3> QED BY <3>1, <3>2 DEF LocalStep, QuietInv, HoldersInv, OwnSocket
  <2> QED BY <2>1, <2>2
<1>12. TasksInv'
  <2> SUFFICES ASSUME NEW i \in 1..Len(queue)
               PROVE  queue[i] # None /\ sock'[fdof[queue[i]]] = queue[i]
    BY DEF TasksInv, LocalStep
  <2>1. queue[i] # None /\ sock[fdof[queue[i]]] = queue[i] /\ fdof[queue[i]] \in Fd
    BY DEF QuietInv, HoldersInv, TasksInv, TypeInv, FdKnown
  <2>2. queued(fdof[queue[i]])
    BY <2>1 DEF queued, queuedAt
  <2>3. fdof[queue[i]] # F
    <3>1. CASE t \in Worker
      BY <2>2, <3>1 DEF QuietInv, HoldersInv, OnceInv, Once, worked
    <3>2. CASE t = Main
      BY <2>2, <3>2 DEF QuietInv, HoldersInv, ExpiryInv, DueInv, LocalStep, expiringPc, busy
    <3> QED BY <3>1, <3>2 DEF Thread
  <2> QED BY <2>1, <2>3 DEF LocalStep
<1>13. ExpiryInv'
  <2>1. /\ due' = due /\ fdof' = fdof /\ cursor' = cursor
        /\ \A c \in due : fdof[c] \in Fd
    BY DEF LocalStep, QuietInv, HoldersInv, ExpiryInv
  <2>2. CASE t = Main
    <3>1. pc[Main] \in expiringPc /\ pc'[Main] \in expiringPc \cup {"scan"}
      BY <2>2 DEF LocalStep, expiringPc
    <3>2. pc'[Main] \in expiringPc => lfd'[Main] = lfd[Main]
      BY <2>2 DEF LocalStep, expiringPc, closing
    <3> QED BY <2>1, <3>1, <3>2 DEF QuietInv, HoldersInv, ExpiryInv
  <2>3. CASE t \in Worker
    <3>1. pc'[Main] = pc[Main] /\ lfd'[Main] = lfd[Main]
      BY <1>1, <2>3 DEF LocalStep
    <3>2. due \cap Linked \subseteq Linked'
      <4> SUFFICES ASSUME NEW c \in due, NEW fd \in Fd, map[fd] = c, c # None
                   PROVE  map'[fd] = c
        BY DEF Linked
      <4>1. fdof[c] = fd
        BY DEF TableInv, TablesAgree, SockInv
      <4>2. fd # F
        BY <2>3, <4>1, WorkerIsBusy
      <4> QED BY <4>2 DEF LocalStep
    <3> QED BY <2>1, <3>1, <3>2 DEF QuietInv, HoldersInv, ExpiryInv
  <2> QED BY <2>2, <2>3 DEF Thread
<1>14. NoCrash'
  BY DEF LocalStep, QuietInv, HoldersInv, NoCrash
<1> QED BY <1>8, <1>9, <1>10, <1>11, <1>12, <1>13, <1>14 DEF QuietInv, HoldersInv

-----------------------------------------------------------------------------
(* The handlers' steps are such steps, and none of their asserts fails. *)

(* A thread in a handler goes on to l. *)
LEMMA GotoIsLocal ==
  ASSUME TypeInv, QuietInv, NEW t \in Thread, NEW l, lfd[t] \in Fd, goto(t, l),
         UNCHANGED <<batch, queue, fdof, due, cursor, crash, lfd, lconn, sock, armed>>,
         \A fd \in Fd \ {lfd[t]} : map'[fd] = map[fd],
         \A c \in Conn \ {sock[lfd[t]]} :
            rx'[c] = rx[c] /\ peer'[c] = peer[c] /\ full'[c] = full[c],
         l \notin untested => lconn[t] = sock[lfd[t]],
         t = Main => UNCHANGED kernel /\ pc[Main] \in closing /\ l \in closing
  PROVE  LocalStep(t)
  BY DEF LocalStep, goto, TypeInv, LocalsOK

LEMMA ReturnIsLocal ==
  ASSUME TypeInv, QuietInv, NEW t \in Thread, lfd[t] \in Fd, return(t),
         UNCHANGED <<batch, queue, fdof, due, cursor, crash, map, sock, rx, peer, full>>,
         \A fd \in Fd \ {lfd[t]} : armed'[fd] = armed[fd],
         t = Main => UNCHANGED kernel /\ pc[Main] \in closing
  PROVE  LocalStep(t)
<1>1. /\ pc' = [pc EXCEPT ![t] = IF t = Main THEN "scan" ELSE "idle"]
      /\ lfd' = [lfd EXCEPT ![t] = None]
      /\ lconn' = [lconn EXCEPT ![t] = None]
  BY DEF return, goto
<1>2. pc'[t] \in untested
  BY <1>1 DEF TypeInv, LocalsOK, untested, outside
<1> QED BY <1>1, <1>2 DEF LocalStep, TypeInv, LocalsOK

LEMMA LoadIsLocal ==
  ASSUME TypeInv, TableInv, QuietInv, NEW t \in Thread, NEW l, lfd[t] \in Fd, load(t, l),
         UNCHANGED <<kernel, map, fdof, due, queue, batch, cursor>>,
         t = Main => pc[Main] \in closing /\ l \in closing
  PROVE  LocalStep(t)
<1>1. CASE slots[lfd[t]] = None /\ return(t) /\ UNCHANGED crash
  BY <1>1, ReturnIsLocal DEF kernel
<1>2. CASE slots[lfd[t]] # None /\ goto(t, l) /\ UNCHANGED <<lfd, crash>>
             /\ lconn' = [lconn EXCEPT ![t] = slots[lfd[t]]]
  <2>1. lconn'[t] = sock[lfd[t]]
    BY <1>2 DEF TableInv, TablesAgree, TypeInv, LocalsOK
  <2> QED BY <1>2, <2>1 DEF LocalStep, goto, kernel, TypeInv, LocalsOK
<1> QED BY <1>1, <1>2, NoStore DEF load

(* updateTimer: the timer of t's descriptor is not due, so that nothing    *)
(* is taken out of `due'.                                                  *)
LEMMA RefreshIsLocal ==
  ASSUME TypeInv, TableInv, QuietInv, NEW t \in Worker, NEW l, lfd[t] \in Fd, refresh(t, l),
         pc[t] \notin untested \cup closerPc
  PROVE  LocalStep(t)
<1>1. t \in Thread /\ t # Main
  BY NamesDistinct DEF Thread
<1>2. hasTimer(lfd[t]) /\ map[lfd[t]] = sock[lfd[t]] /\ sock[lfd[t]] # None
  <2>1. pc[t] \notin newPc
    BY <1>1 DEF newPc, TypeInv, LocalsOK, WorkerPc, closing
  <2> QED BY <1>1, <2>1, WorkerIsBusy, OpenHasTimer DEF hasTimer
<1>3. map[lfd[t]] \notin due
  BY <1>2, WorkerIsBusy DEF TableInv, SockInv
<1>4. due' = due
  BY <1>2, <1>3 DEF refresh, updated
<1>5. lconn[t] = sock[lfd[t]]
  BY <1>1 DEF QuietInv, HoldersInv, OwnSocket
<1> QED BY <1>1, <1>2, <1>4, <1>5, GotoIsLocal DEF refresh, updated, kernel

LEMMA CloseTimerIsLocal ==
  ASSUME TypeInv, TableInv, QuietInv, NEW t \in Thread, closeTimer(t)
  PROVE  LocalStep(t)
<1>1. pc[t] = "cl_timer" /\ lfd[t] \in Fd /\ lconn[t] \in Conn
  BY DEF closeTimer, at, TypeInv, LocalsOK, untested, outside
<1>2. lconn[t] = sock[lfd[t]]
  BY <1>1 DEF QuietInv, HoldersInv, OwnSocket, untested, outside
<1>3. hasTimer(lfd[t])
  BY <1>1, <1>2, NamesDistinct, OpenHasTimer DEF hasTimer, closerPc, newPc, Conn, Node
<1> QED
  BY <1>1, <1>2, <1>3, GotoIsLocal
     DEF closeTimer, removed, unmapped, kernel, closing, TypeInv, StateOK

LEMMA CloseFdIsLocal ==
  ASSUME TypeInv, TableInv, QuietInv, NEW t \in Thread, closeFd(t)
  PROVE  LocalStep(t)
<1>1. pc[t] = "cl_fd" /\ lfd[t] \in Fd
  BY DEF closeFd, at, TypeInv, LocalsOK, untested, outside
<1>2. /\ pc' = [pc EXCEPT ![t] = IF t = Main THEN "scan" ELSE "idle"]
      /\ lfd' = [lfd EXCEPT ![t] = None]
      /\ lconn' = [lconn EXCEPT ![t] = None]
  BY DEF closeFd, return, goto
<1>3. pc'[t] \in untested /\ lfd'[t] = None
  BY <1>2 DEF TypeInv, LocalsOK, untested, outside
<1>4. /\ armed' = [armed EXCEPT ![lfd[t]] = "none"]
      /\ sock' = [sock EXCEPT ![lfd[t]] = None]
      /\ \A c \in Conn \ {sock[lfd[t]]} : rx'[c] = rx[c] /\ peer'[c] = peer[c] /\ full'[c] = full[c]
      /\ UNCHANGED <<batch, queue, fdof, due, cursor, crash, map>>
  BY DEF closeFd, timers, TypeInv, StateOK
<1>5. armed'[lfd[t]] = "none"
  BY <1>1, <1>4 DEF TypeInv, StateOK
<1>6. t = Main => pc[Main] \in closing /\ pc'[Main] = "scan"
  BY <1>1, <1>2 DEF closing, TypeInv, LocalsOK
<1> QED BY <1>1, <1>2, <1>3, <1>4, <1>5, <1>6 DEF LocalStep, TypeInv, LocalsOK, StateOK

LEMMA HandleCloseIsLocal ==
  ASSUME TypeInv, TableInv, QuietInv, NEW t \in Thread, handleClose(t)
  PROVE  LocalStep(t) /\ lfd[t] \in Fd
<1>1. pc[t] \in closing /\ lfd[t] \in Fd
  BY DEF handleClose, closeLoad, closeTimer, closeSlot, storeSlots, Clear, closeFd, at, closing,
         TypeInv, LocalsOK, outside
<1>2. pc[t] \notin untested => lconn[t] = sock[lfd[t]]
  BY DEF QuietInv, HoldersInv, OwnSocket
<1>3. CASE closeLoad(t)
  BY <1>1, <1>3, LoadIsLocal DEF closeLoad, timers, closing
<1>4. CASE closeSlot(t)
  <2>1. pc[t] = "cl_slot" /\ goto(t, "cl_clear")
    BY <1>4 DEF closeSlot, storeSlots, at
  <2> QED BY <1>1, <1>2, <1>4, <2>1, GotoIsLocal
          DEF closeSlot, storeSlots, kernel, timers, closing, untested, outside
<1>5. CASE Clear(t)
  <2>1. pc[t] = "cl_clear" /\ goto(t, "cl_fd")
    BY <1>5 DEF Clear, at
  <2> QED BY <1>1, <1>2, <1>5, <2>1, GotoIsLocal
          DEF Clear, kernel, timers, closing, untested, outside
<1> QED BY <1>1, <1>3, <1>4, <1>5, CloseTimerIsLocal, CloseFdIsLocal DEF handleClose

(* The steps of a worker in its handlers, that is all but getTask. *)
LEMMA WorkIsLocal ==
  ASSUME TypeInv, TableInv, QuietInv, NEW t \in Worker, work(t), ~getTask(t)
  PROVE  LocalStep(t) /\ lfd[t] \in Fd
<1>1. t \in Thread /\ t # Main
  BY NamesDistinct DEF Thread
<1>2. CASE handleClose(t)
  BY <1>1, <1>2, HandleCloseIsLocal
<1>3. ~handleClose(t) => pc[t] \notin outside
  BY DEF work, handleEvent, handleRequest, requestLoad, requestTimer, Read, processCore,
         processNone, processSome, respond, handleWrite, writeLoad, writeTimer, Write, writeAll,
         writeSome, writeError, armOut, finish, at, outside
<1>4. CASE ~handleClose(t)
  <2>1. lfd[t] \in Fd
    BY <1>1, <1>3, <1>4 DEF TypeInv, LocalsOK
  <2>2. pc[t] \notin untested => lconn[t] = sock[lfd[t]]
    BY <1>1 DEF QuietInv, HoldersInv, OwnSocket
  <2> USE <1>1, <2>1, <2>2, GotoIsLocal, ReturnIsLocal
          DEF at, kernel, timers, data, untested, outside
  <2>3. CASE handleEvent(t)
    <3>1. event[lconn[t]] \in {"in", "out", "err"}
      BY <2>3 DEF handleEvent, TypeInv, StateOK, LocalsOK
    <3>2. PICK l \in {"req_load", "wr_load", "cl_load"} : pc' = [pc EXCEPT ![t] = l]
      BY <2>3, <3>1 DEF handleEvent, goto
    <3> QED BY <2>3, <3>2 DEF handleEvent, LocalStep, TypeInv, LocalsOK
  <2>4. CASE requestLoad(t) \/ writeLoad(t)
    BY <2>4, LoadIsLocal DEF requestLoad, writeLoad
  <2>5. CASE requestTimer(t) \/ writeTimer(t)
    BY <2>5, RefreshIsLocal DEF requestTimer, writeTimer, closerPc
  <2>6. CASE Read(t)
    BY <2>6 DEF Read, TypeInv, StateOK
  <2>7. CASE processCore(t)
    BY <2>7 DEF processCore, processNone, processSome, respond
  <2>8. CASE Write(t)
    BY <2>8 DEF Write, writeAll, writeSome, writeError, unchangedByWrite, TypeInv, StateOK
  <2>9. CASE armOut(t)
    BY <2>9 DEF armOut, modEpoll, TypeInv, StateOK
  <2>10. CASE finish(t)
    BY <2>10 DEF finish, modEpoll, TypeInv, StateOK
  <2> QED BY <1>4, <2>3, <2>4, <2>5, <2>6, <2>7, <2>8, <2>9, <2>10
          DEF work, handleRequest, handleWrite
<1> QED BY <1>2, <1>4

-----------------------------------------------------------------------------
(* The hand-over of a descriptor from one holder to the next. *)

(* fd has lost its holder or has the same one, but for its place in the    *)
(* queue.                                                                  *)
LEMMA SameHolder ==
  ASSUME NEW fd \in Fd, NEW d \in Nat, Once(fd), queue \in Seq(Conn \cup {None}),
         waits(fd)' => waits(fd),
         \A e \in batch' : e[1] = fd => e \in batch,
         \A i \in 1..Len(queue') :
            queuedAt(i, fd)' => i + d \in 1..Len(queue) /\ queuedAt(i + d, fd),
         \A w \in Worker : lfd'[w] = fd => lfd[w] = fd,
         given(fd)' => given(fd)
  PROVE  Once(fd)' /\ (busy(fd)' => busy(fd))
<1>1. reported(fd)' => reported(fd)
  BY DEF reported
<1>2. queued(fd)' => queued(fd)
  BY DEF queued
<1>3. worked(fd)' => worked(fd)
  BY DEF worked
<1>4. busy(fd)' => busy(fd)
  BY <1>1, <1>2, <1>3 DEF busy
<1>5. \A i, j \in 1..Len(queue') : queuedAt(i, fd)' /\ queuedAt(j, fd)' => i = j
  <2> SUFFICES ASSUME NEW i \in 1..Len(queue'), NEW j \in 1..Len(queue'),
                      queuedAt(i, fd)', queuedAt(j, fd)'
               PROVE  i = j
    OBVIOUS
  <2>1. i + d = j + d
    BY DEF Once
  <2> QED BY <2>1
<1>6. /\ \A e, f \in batch' : e[1] = fd /\ f[1] = fd => e = f
      /\ \A t, u \in Worker : lfd'[t] = fd /\ lfd'[u] = fd => t = u
  BY DEF Once
<1>7. /\ waits(fd)' => ~busy(fd)'
      /\ reported(fd)' => ~queued(fd)' /\ ~worked(fd)' /\ ~given(fd)'
      /\ queued(fd)' => ~worked(fd)' /\ ~given(fd)'
      /\ worked(fd)' => ~given(fd)'
  BY <1>1, <1>2, <1>3, <1>4 DEF Once
<1> QED BY <1>4, <1>5, <1>6, <1>7 DEF Once

(* At most one descriptor, F, gets another holder, and it has no timer     *)
(* that is due.                                                            *)
LEMMA HandOver ==
  ASSUME TypeInv, TableInv, QuietInv, NEW F,
         UNCHANGED <<rx, peer, full>>,
         \A fd \in Fd \ {F} : /\ Once(fd)' /\ (busy(fd)' => busy(fd))
                             /\ UNCHANGED <<armed[fd], sock[fd]>>,
         F \in Fd => Once(F)' /\ (waits(F)' \/ busy(F)' => sock'[F] # None),
         \A c \in due' : c \in due /\ fdof'[c] = fdof[c] /\ fdof[c] # F
  PROVE  OnceInv' /\ OpenInv' /\ DueInv' /\ \A c \in due' : fdof'[c] \in Fd
<1>1. OnceInv'
  BY DEF OnceInv
<1>2. \A fd \in Fd \ {F} : waits(fd)' => waits(fd)
  BY DEF waits
<1>3. OpenInv'
  BY <1>2 DEF QuietInv, HoldersInv, OpenInv
<1>4. \A c \in due' : fdof'[c] \in Fd
  BY DEF QuietInv, HoldersInv, ExpiryInv
<1>5. DueInv'
  <2> SUFFICES ASSUME NEW c \in due', NEW fd \in Fd \ {F}, fdof[c] = fd, fdof'[c] = fd
               PROVE  ~busy(fd)' /\ \A e \in readyEvents' : e[1] # fd
    BY <1>4 DEF DueInv
  <2>1. ~busy(fd) /\ \A e \in readyEvents : e[1] # fd
    BY DEF QuietInv, HoldersInv, DueInv
  <2>2. \A e \in readyEvents' : e[1] = fd => e \in readyEvents
    BY DEF readyEvents
  <2> QED BY <2>1, <2>2
<1> QED BY <1>1, <1>3, <1>4, <1>5

LEMMA GetTaskKeeps ==
  ASSUME TypeInv, TableInv, QuietInv, NEW t \in Worker, getTask(t)
  PROVE  QuietInv'
<1>1. t \in Thread /\ t # Main /\ Main \notin Worker /\ Main \in Thread /\ None \notin Fd
  BY NamesDistinct DEF Thread
<1> DEFINE n == Len(queue)
<1>2. /\ queue \in Seq(Conn \cup {None}) /\ n \in Nat \ {0}
      /\ queue' = Tail(queue) /\ Len(queue') = n - 1
      /\ \A i \in 1..n - 1 : queue'[i] = queue[i + 1]
  BY DEF getTask, runTask, TypeInv, StateOK
<1>3. PICK c \in Conn, F \in Fd : c = queue[1] /\ c # None /\ fdof[c] = F /\ sock[F] = c
  BY <1>2 DEF QuietInv, HoldersInv, TasksInv, TypeInv, FdKnown
<1>4. /\ pc' = [pc EXCEPT ![t] = "event"]
      /\ lconn' = [lconn EXCEPT ![t] = c]
      /\ lfd' = [lfd EXCEPT ![t] = F]
      /\ UNCHANGED <<sock, armed, peer, rx, full, fdof, due, map, batch, cursor, crash>>
  BY <1>2, <1>3 DEF getTask, runTask, goto, kernel, timers
<1>5. lfd[t] = None
  BY <1>1 DEF getTask, runTask, at, TypeInv, LocalsOK, outside
<1>6. /\ pc'[t] = "event" /\ lconn'[t] = c /\ lfd'[t] = F
      /\ \A u \in Thread \ {t} : pc'[u] = pc[u] /\ lconn'[u] = lconn[u] /\ lfd'[u] = lfd[u]
  BY <1>1, <1>4 DEF TypeInv, LocalsOK
<1>7. queuedAt(1, F) /\ queued(F)
  BY <1>2, <1>3 DEF queuedAt, queued
<1>8. ASSUME NEW fd \in Fd, NEW i \in 1..n - 1, queuedAt(i, fd)'
      PROVE  i + 1 \in 1..n /\ queuedAt(i + 1, fd)
  BY <1>2, <1>4, <1>8 DEF queuedAt
<1>9. ASSUME NEW fd \in Fd \ {F}
      PROVE  Once(fd)' /\ (busy(fd)' => busy(fd))
  <2>1. Once(fd) /\ (waits(fd)' => waits(fd)) /\ (given(fd)' => given(fd))
    BY <1>1, <1>4, <1>6 DEF QuietInv, HoldersInv, OnceInv, waits, given
  <2>2. \A w \in Worker : lfd'[w] = fd => lfd[w] = fd
    BY <1>1, <1>6 DEF Thread
  <2> QED BY <1>2, <1>4, <1>8, <2>1, <2>2, SameHolder
<1>10. Once(F)'
  <2>1. Once(F)
    BY DEF QuietInv, HoldersInv, OnceInv
  <2>2. ~waits(F) /\ ~reported(F) /\ ~worked(F) /\ ~given(F)
    BY <1>7, <2>1 DEF Once, busy
  <2>3. ~waits(F)' /\ ~reported(F)' /\ ~given(F)'
    BY <1>1, <1>4, <1>6, <2>2 DEF waits, reported, given
  <2>4. ~queued(F)'
    <3>1. \A i \in 1..n - 1 : ~queuedAt(i, F)'
      BY <1>2, <1>7, <1>8, <2>1 DEF Once
    <3> QED BY <1>2, <3>1 DEF queued
  <2>5. \A w \in Worker : lfd'[w] = F => w = t
    BY <1>6, <2>2 DEF worked, Thread
  <2>6. /\ \A e, f \in batch' : e[1] = F /\ f[1] = F => e = f
        /\ \A i, j \in 1..Len(queue') : queuedAt(i, F)' /\ queuedAt(j, F)' => i = j
    BY <2>3, <2>4 DEF reported, queued
  <2> QED BY <2>3, <2>4, <2>5, <2>6 DEF Once
<1>11. \A d \in due : fdof[d] # F
  BY <1>7 DEF QuietInv, HoldersInv, DueInv, busy
<1>12. OnceInv' /\ OpenInv' /\ DueInv' /\ \A d \in due' : fdof'[d] \in Fd
  BY <1>3, <1>4, <1>9, <1>10, <1>11, HandOver
<1>13. OwnSocket'
  BY <1>3, <1>4, <1>6 DEF QuietInv, HoldersInv, OwnSocket
<1>14. TasksInv'
  BY <1>2, <1>4 DEF QuietInv, HoldersInv, TasksInv
<1>15. ExpiryInv'
  BY <1>1, <1>4, <1>6, <1>12 DEF QuietInv, HoldersInv, ExpiryInv, Linked
<1> QED BY <1>4, <1>12, <1>13, <1>14, <1>15 DEF QuietInv, HoldersInv, NoCrash

-----------------------------------------------------------------------------
(* The main thread outside the handlers. *)

MainMoves(l, f, c) ==
  /\ pc' = [pc EXCEPT ![Main] = l]
  /\ lfd' = [lfd EXCEPT ![Main] = f]
  /\ lconn' = [lconn EXCEPT ![Main] = c]

LEMMA MovesAre ==
  ASSUME TypeInv, NEW l, NEW f, NEW c, MainMoves(l, f, c)
  PROVE  /\ pc'[Main] = l /\ lfd'[Main] = f /\ lconn'[Main] = c
         /\ \A w \in Worker : pc'[w] = pc[w] /\ lfd'[w] = lfd[w] /\ lconn'[w] = lconn[w]
  BY NamesDistinct DEF MainMoves, TypeInv, LocalsOK, Thread

(* Every descriptor keeps its holder. *)
LEMMA MainKeeps ==
  ASSUME TypeInv, TableInv, QuietInv, NEW l, NEW f, NEW c, MainMoves(l, f, c),
         UNCHANGED <<kernel, queue, fdof>>,
         batch' \subseteq batch, due' \subseteq due,
         pc[Main] \notin givingPc, l \notin givingPc,
         l \notin untested => sock[f] = c
  PROVE  HoldersInv' /\ \A d \in due' : fdof'[d] \in Fd
<1>1. ASSUME NEW fd \in Fd PROVE Once(fd)' /\ (busy(fd)' => busy(fd))
  <2>1. Once(fd) /\ (waits(fd)' => waits(fd)) /\ ~given(fd)'
    BY MovesAre DEF QuietInv, HoldersInv, OnceInv, waits, given, kernel
  <2>2. \A i \in 1..Len(queue') : queuedAt(i, fd)' => i + 0 \in 1..Len(queue) /\ queuedAt(i + 0, fd)
    BY DEF queuedAt
  <2>3. \A w \in Worker : lfd'[w] = fd => lfd[w] = fd
    BY MovesAre
  <2>4. queue \in Seq(Conn \cup {None})
    BY DEF TypeInv, StateOK
  <2> QED BY <2>1, <2>2, <2>3, <2>4, SameHolder
<1>2. OnceInv' /\ OpenInv' /\ DueInv' /\ \A d \in due' : fdof'[d] \in Fd
  <2>1. None \notin Fd
    BY NamesDistinct
  <2>2. \A d \in due' : d \in due /\ fdof'[d] = fdof[d] /\ fdof[d] # None
    BY <2>1 DEF QuietInv, HoldersInv, ExpiryInv
  <2> QED BY <1>1, <2>1, <2>2, HandOver DEF kernel
<1>3. OwnSocket'
  BY MovesAre DEF QuietInv, HoldersInv, OwnSocket, kernel, Thread
<1>4. TasksInv'
  BY DEF QuietInv, HoldersInv, TasksInv, kernel
<1> QED BY <1>2, <1>3, <1>4 DEF HoldersInv

LEMMA CloseExpireKeeps == ASSUME TypeInv, TableInv, QuietInv, closeExpire PROVE QuietInv'
<1>1. pc[Main] = "loop" /\ MainMoves("scan", lfd[Main], lconn[Main])
  BY DEF closeExpire, walk, at, goto, MainMoves, TypeInv, LocalsOK
<1>2. HoldersInv' /\ \A d \in due' : fdof'[d] \in Fd
  BY <1>1, MainKeeps DEF closeExpire, walk, timers, givingPc, untested, outside
<1>3. ExpiryInv'
  BY <1>1, <1>2, MovesAre DEF ExpiryInv, expiringPc, closing
<1> QED BY <1>2, <1>3 DEF QuietInv, HoldersInv, NoCrash, closeExpire, walk

LEMMA ScanCheckKeeps == ASSUME TypeInv, TableInv, QuietInv, scanCheck PROVE QuietInv'
<1>1. CASE cursor = HeadNode \/ cursor \notin due
  <2>1. pc[Main] = "scan" /\ MainMoves("wait", lfd[Main], lconn[Main])
    BY <1>1 DEF scanCheck, at, goto, MainMoves, TypeInv, LocalsOK
  <2>2. HoldersInv' /\ \A d \in due' : fdof'[d] \in Fd
    BY <1>1, <2>1, MainKeeps DEF scanCheck, givingPc, untested, outside
  <2>3. ExpiryInv'
    BY <1>1, <2>1, <2>2, MovesAre DEF ExpiryInv, expiringPc, closing, scanCheck, Linked
  <2> QED BY <2>2, <2>3 DEF QuietInv, HoldersInv, NoCrash, scanCheck
<1>2. CASE ~(cursor = HeadNode \/ cursor \notin due)
  <2>1. pc[Main] = "scan" /\ MainMoves("step", fdof[cursor], lconn[Main])
    BY <1>2 DEF scanCheck, at, goto, MainMoves, TypeInv, LocalsOK
  <2>2. HoldersInv' /\ \A d \in due' : fdof'[d] \in Fd
    BY <1>2, <2>1, MainKeeps DEF scanCheck, givingPc, untested, outside
  <2>3. ExpiryInv'
    BY <1>2, <2>1, <2>2, MovesAre DEF ExpiryInv, expiringPc, closing, scanCheck
  <2> QED BY <2>2, <2>3 DEF QuietInv, HoldersInv, NoCrash, scanCheck
<1> QED BY <1>1, <1>2

LEMMA ScanStepKeeps == ASSUME TypeInv, TableInv, QuietInv, scanStep PROVE QuietInv'
<1>1. pc[Main] = "step" /\ MainMoves("cl_load", lfd[Main], lconn[Main])
  BY DEF scanStep, walk, at, goto, MainMoves, TypeInv, LocalsOK
<1>2. HoldersInv' /\ \A d \in due' : fdof'[d] \in Fd
  BY <1>1, MainKeeps DEF scanStep, walk, timers, givingPc, untested, outside
<1>3. ExpiryInv'
  BY <1>1, <1>2, MovesAre
     DEF QuietInv, HoldersInv, ExpiryInv, expiringPc, closing, scanStep, walk, timers
<1> QED BY <1>2, <1>3 DEF QuietInv, HoldersInv, NoCrash, scanStep, walk

LEMMA AcceptFailsKeeps == ASSUME TypeInv, TableInv, QuietInv, acceptFails PROVE QuietInv'
<1>1. pc[Main] = "loop" /\ MainMoves("loop", lfd[Main], lconn[Main])
  BY DEF acceptFails, at, MainMoves, locals, TypeInv, LocalsOK
<1>2. HoldersInv' /\ \A d \in due' : fdof'[d] \in Fd
  BY <1>1, MainKeeps DEF acceptFails, timers, givingPc, untested, outside
<1>3. ExpiryInv'
  BY <1>1, <1>2 DEF QuietInv, HoldersInv, ExpiryInv, acceptFails, timers, locals, Linked
<1> QED BY <1>2, <1>3 DEF QuietInv, HoldersInv, NoCrash, acceptFails

(* epoll_wait disables what it reports, and that is all that it was.       *)
LEMMA EpollWaitKeeps == ASSUME TypeInv, TableInv, QuietInv, epollWait PROVE QuietInv'
<1>1. pc[Main] = "wait" /\ MainMoves("loop", lfd[Main], lconn[Main])
  BY DEF epollWait, fetch, at, goto, MainMoves, TypeInv, LocalsOK
<1>2. /\ UNCHANGED <<sock, peer, rx, full, queue, fdof, due, map, cursor, crash>>
      /\ armed' = [fd \in Fd |-> IF \E e \in readyEvents : e[1] = fd THEN "off" ELSE armed[fd]]
      /\ \A e \in batch' : e \in readyEvents \/ e[1] = Listen
  BY DEF epollWait, fetch, timers
<1>3. ASSUME NEW fd \in Fd, NEW e \in readyEvents, e[1] = fd
      PROVE  waits(fd) /\ \A f \in readyEvents : f[1] = fd => f = e
  BY <1>3 DEF waits, readyEvents
<1>4. ASSUME NEW fd \in Fd
      PROVE  /\ queued(fd)' <=> queued(fd)
             /\ \A i : queuedAt(i, fd)' <=> queuedAt(i, fd)
             /\ worked(fd)' <=> worked(fd)
             /\ ~given(fd)'
  BY <1>1, <1>2, MovesAre DEF queued, queuedAt, worked, given, givingPc
<1>5. ASSUME NEW fd \in Fd
      PROVE  /\ waits(fd)' => waits(fd) /\ ~reported(fd)'
             /\ reported(fd)' => waits(fd)
             /\ \A e, f \in batch' : e[1] = fd /\ f[1] = fd => e = f
  <2>1. Listen # fd
    BY NamesDistinct
  <2>2. ASSUME NEW e \in batch', e[1] = fd PROVE e \in readyEvents
    BY <1>2, <2>1, <2>2
  <2>3. reported(fd)' => armed'[fd] = "off" /\ waits(fd)
    BY <1>2, <1>3, <2>2 DEF reported
  <2>4. ~reported(fd)' => armed'[fd] \in {armed[fd], "off"}
    BY <1>2
  <2> QED BY <1>3, <2>2, <2>3, <2>4 DEF waits
<1>6. ASSUME NEW fd \in Fd PROVE Once(fd)
  BY DEF QuietInv, HoldersInv, OnceInv
<1>7. OnceInv'
  <2> SUFFICES ASSUME NEW fd \in Fd PROVE Once(fd)'
    BY DEF OnceInv
  <2>1. /\ waits(fd)' => ~busy(fd)'
        /\ reported(fd)' => ~queued(fd)' /\ ~worked(fd)' /\ ~given(fd)'
        /\ queued(fd)' => ~worked(fd)' /\ ~given(fd)'
        /\ worked(fd)' => ~given(fd)'
    BY <1>4, <1>5, <1>6 DEF Once, busy
  <2>2. /\ \A i, j \in 1..Len(queue') : queuedAt(i, fd)' /\ queuedAt(j, fd)' => i = j
        /\ \A t, u \in Worker : lfd'[t] = fd /\ lfd'[u] = fd => t = u
    BY <1>1, <1>2, <1>4, <1>6, MovesAre DEF Once
  <2> QED BY <1>5, <2>1, <2>2 DEF Once
<1>8. OpenInv'
  BY <1>2, <1>4, <1>5 DEF QuietInv, HoldersInv, OpenInv, busy
<1>9. DueInv'
  <2> SUFFICES ASSUME NEW c \in due, NEW fd \in Fd, fdof[c] = fd
               PROVE  ~busy(fd)' /\ \A e \in readyEvents' : e[1] # fd
    BY <1>2 DEF QuietInv, HoldersInv, ExpiryInv, DueInv
  <2>1. ~busy(fd) /\ \A e \in readyEvents : e[1] # fd
    BY DEF QuietInv, HoldersInv, DueInv
  <2>2. ~reported(fd)' /\ armed'[fd] = armed[fd]
    <3>1. \A e \in batch' : e[1] # fd
      BY <1>2, <2>1, NamesDistinct
    <3> QED BY <1>2, <2>1, <3>1 DEF reported
  <2>3. \A e \in readyEvents' : e[1] = fd => e \in readyEvents
    BY <1>2, <2>2 DEF readyEvents
  <2> QED BY <1>4, <2>1, <2>2, <2>3 DEF busy
<1>10. OwnSocket'
  BY <1>1, <1>2, MovesAre DEF QuietInv, HoldersInv, OwnSocket, Thread, untested, outside
<1>11. TasksInv'
  BY <1>2 DEF QuietInv, HoldersInv, TasksInv
<1>12. ExpiryInv'
  BY <1>1, <1>2, MovesAre DEF QuietInv, HoldersInv, ExpiryInv, expiringPc, closing, Linked
<1> QED BY <1>2, <1>7, <1>8, <1>9, <1>10, <1>11, <1>12 DEF QuietInv, HoldersInv, NoCrash

-----------------------------------------------------------------------------
(* It holds F and passes it on, or comes to hold it. *)
LEMMA MainHandsOver ==
  ASSUME TypeInv, TableInv, QuietInv, NEW l, NEW f, NEW c, MainMoves(l, f, c), NEW F \in Fd,
         UNCHANGED <<peer, rx, full, cursor>>,
         \A fd \in Fd \ {F} : UNCHANGED <<armed[fd], sock[fd], map[fd]>>,
         \A e \in batch' : e[1] \in Fd \ {F} => e \in batch,
         \A fd \in Fd \ {F} : \A i \in 1..Len(queue') :
            queuedAt(i, fd)' => i \in 1..Len(queue) /\ queuedAt(i, fd),
         \A d \in due' : d \in due /\ fdof'[d] = fdof[d] /\ fdof[d] # F,
         pc[Main] \notin expiringPc \cup {"scan"}, l \notin expiringPc \cup {"scan"},
         f \in {F, None},
         Once(F)', waits(F)' \/ busy(F)' => sock'[F] # None,
         l \notin untested => f = F /\ sock'[F] = c,
         \A w \in Worker : lfd[w] # F
  PROVE  OnceInv' /\ OpenInv' /\ DueInv' /\ OwnSocket' /\ ExpiryInv'
<1>1. ASSUME NEW fd \in Fd \ {F} PROVE Once(fd)' /\ (busy(fd)' => busy(fd))
  <2>1. Once(fd) /\ (waits(fd)' => waits(fd))
    BY DEF QuietInv, HoldersInv, OnceInv, waits
  <2>2. ~given(fd)'
    BY MovesAre, NamesDistinct DEF given
  <2>3. \A i \in 1..Len(queue') : queuedAt(i, fd)' => i + 0 \in 1..Len(queue) /\ queuedAt(i + 0, fd)
    OBVIOUS
  <2>4. \A w \in Worker : lfd'[w] = fd => lfd[w] = fd
    BY MovesAre
  <2>5. queue \in Seq(Conn \cup {None}) /\ \A e \in batch' : e[1] = fd => e \in batch
    BY DEF TypeInv, StateOK
  <2> QED BY <2>1, <2>2, <2>3, <2>4, <2>5, SameHolder
<1>2. OnceInv' /\ OpenInv' /\ DueInv' /\ \A d \in due' : fdof'[d] \in Fd
  BY <1>1, HandOver
<1>3. OwnSocket'
  <2> SUFFICES ASSUME NEW u \in Thread, pc'[u] \notin untested PROVE sock'[lfd'[u]] = lconn'[u]
    BY DEF OwnSocket
  <2>1. CASE u = Main
    BY <2>1, MovesAre
  <2>2. CASE u \in Worker
    <3>1. pc'[u] = pc[u] /\ lfd'[u] = lfd[u] /\ lconn'[u] = lconn[u]
      BY <2>2, MovesAre
    <3>2. lfd[u] \in Fd \ {F}
      BY <2>2, <3>1 DEF TypeInv, LocalsOK, untested
    <3> QED BY <3>1, <3>2 DEF QuietInv, HoldersInv, OwnSocket
  <2> QED BY <2>1, <2>2 DEF Thread
<1>4. due' \subseteq Linked'
  <2> SUFFICES ASSUME NEW d \in due', NEW fd \in Fd, map[fd] = d, d # None PROVE map'[fd] = d
    BY DEF QuietInv, HoldersInv, ExpiryInv, Linked
  <2>1. fdof[d] = fd
    BY DEF TableInv, TablesAgree, SockInv
  <2> QED BY <2>1
<1>5. ExpiryInv'
  BY <1>2, <1>4, MovesAre DEF QuietInv, HoldersInv, ExpiryInv
<1> QED BY <1>2, <1>3, <1>5

(* What a descriptor that has been reported or is being opened is like.    *)
LEMMA BusyIsOpen ==
  ASSUME TypeInv, QuietInv, NEW F \in Fd, reported(F) \/ given(F)
  PROVE  /\ Once(F) /\ ~waits(F) /\ ~queued(F) /\ ~worked(F) /\ sock[F] # None
         /\ \A w \in Worker : lfd[w] # F
         /\ \A d \in due : fdof[d] # F
<1>1. busy(F) /\ Once(F)
  BY DEF busy, QuietInv, HoldersInv, OnceInv
<1>2. \A d \in due : fdof[d] # F
  BY <1>1 DEF QuietInv, HoldersInv, DueInv
<1> QED BY <1>1, <1>2 DEF Once, QuietInv, HoldersInv, OpenInv, worked

LEMMA DispatchKeeps ==
  ASSUME TypeInv, TableInv, QuietInv, NEW e \in batch, dispatch(e)
  PROVE  QuietInv'
<1>1. PICK F \in Fd : F = e[1]
  BY DEF dispatch, TypeInv, StateOK
<1>2. reported(F) /\ pc[Main] = "loop" /\ Main \in Thread /\ Main \notin Worker
  BY <1>1, NamesDistinct DEF reported, dispatch, at, Thread
<1>3. /\ Once(F) /\ ~waits(F) /\ ~queued(F) /\ ~worked(F) /\ sock[F] # None
      /\ \A w \in Worker : lfd[w] # F
      /\ \A d \in due : fdof[d] # F
  BY <1>2, BusyIsOpen
<1>4. ~storing(Main, F)
  BY <1>3 DEF storing, Thread
<1>5. slots[F] # None
  BY <1>2, <1>3 DEF TableInv, TablesAgree, finalClose, accepting, Thread
<1>6. /\ MainMoves("add_task", F, lconn[Main])
      /\ batch' = batch \ {e}
      /\ UNCHANGED <<sock, armed, peer, rx, full, map, fdof, due, queue, cursor, crash>>
  BY <1>1, <1>4, <1>5 DEF dispatch, fail, MainMoves, goto, kernel, timers, TypeInv, LocalsOK
<1>7. ~waits(F)' /\ ~reported(F)' /\ ~queued(F)' /\ ~worked(F)'
  <2>1. \A f \in batch' : f[1] # F
    BY <1>1, <1>3, <1>6 DEF Once
  <2>2. ~queued(F)'
    BY <1>3, <1>6 DEF queued, queuedAt
  <2> QED BY <1>3, <1>6, <2>1, <2>2, MovesAre DEF waits, reported, worked
<1>8. Once(F)'
  BY <1>7 DEF Once, reported, queued, worked
<1>9. OnceInv' /\ OpenInv' /\ DueInv' /\ OwnSocket' /\ ExpiryInv'
  BY <1>2, <1>3, <1>6, <1>8, MainHandsOver DEF expiringPc, closing, untested, outside, queuedAt
<1>10. TasksInv'
  BY <1>6 DEF QuietInv, HoldersInv, TasksInv
<1> QED BY <1>6, <1>9, <1>10 DEF QuietInv, HoldersInv, NoCrash

LEMMA AddTaskKeeps == ASSUME TypeInv, TableInv, QuietInv, addTask PROVE QuietInv'
<1>1. PICK F \in Fd : F = lfd[Main]
  BY DEF addTask, at, TypeInv, LocalsOK, outside, Thread
<1>2. given(F) /\ pc[Main] = "add_task" /\ Main \in Thread /\ Main \notin Worker /\ None \notin Fd
  BY <1>1, NamesDistinct DEF given, givingPc, addTask, at, Thread
<1>3. /\ Once(F) /\ ~waits(F) /\ ~queued(F) /\ ~worked(F) /\ sock[F] # None
      /\ \A w \in Worker : lfd[w] # F
      /\ \A d \in due : fdof[d] # F
  BY <1>2, BusyIsOpen
<1>4. ~storing(Main, F)
  BY <1>1, <1>2, NoStore
<1> DEFINE n == Len(queue)
<1>5. slots[F] = sock[F] /\ slots[F] \in Conn /\ fdof[slots[F]] = F
  <2>1. slots[F] = sock[F]
    BY <1>1, <1>2, <1>3, OpenHasTimer DEF closerPc, newPc
  <2> QED BY <1>3, <2>1 DEF TableInv, SockInv, TypeInv, StateOK
<1>6. /\ MainMoves("loop", None, lconn[Main])
      /\ queue' = Append(queue, slots[F])
      /\ UNCHANGED <<sock, armed, peer, rx, full, map, fdof, due, batch, cursor, crash>>
  BY <1>1, <1>4 DEF addTask, fail, MainMoves, goto, kernel, timers, TypeInv, LocalsOK
<1>7. /\ n \in Nat /\ Len(queue') = n + 1
      /\ \A i \in 1..n : queue'[i] = queue[i]
      /\ queue'[n + 1] = slots[F]
  BY <1>6 DEF TypeInv, StateOK
<1>8. ASSUME NEW fd \in Fd \ {F}, NEW i \in 1..Len(queue'), queuedAt(i, fd)'
      PROVE  i \in 1..n /\ queuedAt(i, fd)
  BY <1>5, <1>6, <1>7, <1>8 DEF queuedAt
<1>9. \A i \in 1..Len(queue') : queuedAt(i, F)' => i = n + 1
  BY <1>3, <1>6, <1>7 DEF queued, queuedAt
<1>10. ~waits(F)' /\ ~reported(F)' /\ ~worked(F)' /\ ~given(F)'
  <2>1. ~reported(F)
    BY <1>2, <1>3 DEF Once
  <2> QED BY <1>2, <1>3, <1>6, <2>1, MovesAre DEF waits, reported, worked, given
<1>11. Once(F)'
  BY <1>9, <1>10 DEF Once, reported, worked
<1>12. OnceInv' /\ OpenInv' /\ DueInv' /\ OwnSocket' /\ ExpiryInv'
  BY <1>2, <1>3, <1>6, <1>8, <1>11, MainHandsOver DEF expiringPc, closing, untested, outside
<1>13. TasksInv'
  BY <1>3, <1>5, <1>6, <1>7 DEF QuietInv, HoldersInv, TasksInv
<1> QED BY <1>6, <1>12, <1>13 DEF QuietInv, HoldersInv, NoCrash

LEMMA HandleNewConnKeeps ==
  ASSUME TypeInv, TableInv, QuietInv, NEW F \in Fd, NEW c \in Conn, handleNewConn(F, c)
  PROVE  QuietInv'
<1>1. /\ pc[Main] = "loop" /\ sock[F] = None /\ \A fd \in Fd : sock[fd] # c
      /\ Main \notin Worker
  BY NamesDistinct DEF handleNewConn, at, backlog
<1>2. /\ MainMoves("nc_slot", F, c)
      /\ sock' = [sock EXCEPT ![F] = c]
      /\ fdof' = [fdof EXCEPT ![c] = F]
      /\ batch' = batch \ {<<Listen, "in">>}
      /\ UNCHANGED <<armed, peer, rx, full, map, due, queue, cursor, crash>>
  BY DEF handleNewConn, MainMoves, goto
<1>3. ~waits(F) /\ ~busy(F)
  BY <1>1 DEF QuietInv, HoldersInv, OpenInv
<1>4. \A i \in 1..Len(queue) : queue[i] # c /\ queue[i] \in Conn /\ fdof[queue[i]] \in Fd \ {F}
  BY <1>1 DEF QuietInv, HoldersInv, TasksInv, TypeInv, FdKnown, StateOK
<1>5. \A i \in 1..Len(queue) : fdof'[queue[i]] = fdof[queue[i]]
  BY <1>2, <1>4 DEF TypeInv, StateOK
<1>6. \A d \in due : d # c /\ fdof'[d] = fdof[d] /\ fdof[d] # F
  <2> SUFFICES ASSUME NEW d \in due PROVE d # c /\ fdof'[d] = fdof[d] /\ fdof[d] # F
    OBVIOUS
  <2>1. d \in Linked
    BY <1>1 DEF QuietInv, HoldersInv, ExpiryInv, expiringPc, closing
  <2>2. PICK fd \in Fd : map[fd] = d /\ d # None /\ sock[fd] = d /\ fdof[d] = fd
    BY <2>1 DEF Linked, TableInv, TablesAgree, SockInv
  <2>3. d # c /\ fd # F
    BY <1>1, <2>2
  <2> QED BY <1>2, <2>2, <2>3 DEF TypeInv, StateOK
<1>7. ASSUME NEW fd \in Fd, NEW i \in 1..Len(queue'), queuedAt(i, fd)'
      PROVE  i \in 1..Len(queue) /\ queuedAt(i, fd)
  BY <1>2, <1>5, <1>7 DEF queuedAt
<1>8. ~waits(F)' /\ ~reported(F)' /\ ~queued(F)' /\ ~worked(F)'
  BY <1>2, <1>3, <1>7, MovesAre DEF waits, busy, reported, queued, worked
<1>9. Once(F)'
  BY <1>8 DEF Once, reported, queued, worked
<1>10. sock'[F] = c /\ c # None /\ \A fd \in Fd \ {F} : sock'[fd] = sock[fd]
  BY <1>2, NamesDistinct DEF TypeInv, StateOK, Conn, Node
<1>11. OnceInv' /\ OpenInv' /\ DueInv' /\ OwnSocket' /\ ExpiryInv'
  <2>1. /\ pc[Main] \notin expiringPc \cup {"scan"}
        /\ "nc_slot" \notin expiringPc \cup {"scan"}
    BY <1>1 DEF expiringPc, closing
  <2>2. \A w \in Worker : lfd[w] # F
    BY <1>3 DEF busy, worked
  <2> QED BY <1>2, <1>6, <1>7, <1>9, <1>10, <2>1, <2>2, MainHandsOver
<1>12. TasksInv'
  BY <1>2, <1>4, <1>5, <1>10 DEF QuietInv, HoldersInv, TasksInv
<1> QED BY <1>2, <1>11, <1>12 DEF QuietInv, HoldersInv, NoCrash

LEMMA NewSlotKeeps == ASSUME TypeInv, TableInv, QuietInv, newSlot PROVE QuietInv'
<1>1. PICK F \in Fd : F = lfd[Main]
  BY DEF newSlot, at, TypeInv, LocalsOK, outside, Thread
<1>2. given(F) /\ pc[Main] = "nc_slot" /\ Main \in Thread /\ Main \notin Worker
  BY <1>1, NamesDistinct DEF given, givingPc, newSlot, at, Thread
<1>3. /\ Once(F) /\ ~waits(F) /\ ~queued(F) /\ ~worked(F) /\ sock[F] # None
      /\ \A w \in Worker : lfd[w] # F
      /\ \A d \in due : fdof[d] # F
  BY <1>2, BusyIsOpen
<1>4. /\ MainMoves("nc_timer", F, lconn[Main])
      /\ UNCHANGED <<sock, armed, peer, rx, full, map, fdof, due, queue, batch, cursor, crash>>
  BY <1>1 DEF newSlot, MainMoves, goto, kernel, timers, TypeInv, LocalsOK
<1>5. Once(F)'
  <2>1. \A i : queuedAt(i, F)' <=> queuedAt(i, F)
    BY <1>4 DEF queuedAt
  <2>2. ~waits(F)' /\ ~reported(F)' /\ ~queued(F)' /\ ~worked(F)'
    BY <1>2, <1>3, <1>4, <2>1, MovesAre DEF Once, waits, reported, queued, worked
  <2> QED BY <2>2 DEF Once, reported, queued, worked
<1>6. OnceInv' /\ OpenInv' /\ DueInv' /\ OwnSocket' /\ ExpiryInv'
  <2>1. sock[F] = lconn[Main]
    BY <1>1, <1>2 DEF TableInv, AcceptInv, newPc
  <2> QED BY <1>2, <1>3, <1>4, <1>5, <2>1, MainHandsOver DEF expiringPc, closing, queuedAt
<1>7. TasksInv'
  BY <1>4 DEF QuietInv, HoldersInv, TasksInv
<1> QED BY <1>4, <1>6, <1>7 DEF QuietInv, HoldersInv, NoCrash

LEMMA NewTimerKeeps == ASSUME TypeInv, TableInv, QuietInv, newTimer PROVE QuietInv'
<1>1. PICK F \in Fd : F = lfd[Main]
  BY DEF newTimer, at, TypeInv, LocalsOK, outside, Thread
<1>2. given(F) /\ pc[Main] = "nc_timer" /\ Main \in Thread /\ Main \notin Worker
  BY <1>1, NamesDistinct DEF given, givingPc, newTimer, at, Thread
<1>3. /\ Once(F) /\ ~waits(F) /\ ~queued(F) /\ ~worked(F) /\ sock[F] # None
      /\ \A w \in Worker : lfd[w] # F
      /\ \A d \in due : fdof[d] # F
  BY <1>2, BusyIsOpen
<1>4. ~hasTimer(F)
  BY <1>1, <1>2 DEF TableInv, AcceptInv, newPc, hasTimer
<1>5. /\ MainMoves("nc_epoll", F, lconn[Main])
      /\ map' = [map EXCEPT ![F] = lconn[Main]]
      /\ due' = due \ {lconn[Main]}
      /\ UNCHANGED <<sock, armed, peer, rx, full, fdof, queue, batch, cursor, crash>>
  BY <1>1, <1>4 DEF newTimer, MainMoves, goto, kernel, TypeInv, LocalsOK
<1>6. Once(F)'
  <2>1. \A i : queuedAt(i, F)' <=> queuedAt(i, F)
    BY <1>5 DEF queuedAt
  <2>2. ~waits(F)' /\ ~reported(F)' /\ ~queued(F)' /\ ~worked(F)'
    BY <1>2, <1>3, <1>5, <2>1, MovesAre DEF Once, waits, reported, queued, worked
  <2> QED BY <2>2 DEF Once, reported, queued, worked
<1>7. OnceInv' /\ OpenInv' /\ DueInv' /\ OwnSocket' /\ ExpiryInv'
  <2>1. sock[F] = lconn[Main]
    BY <1>1, <1>2 DEF TableInv, AcceptInv, newPc
  <2>2. \A fd \in Fd \ {F} : map'[fd] = map[fd]
    BY <1>5 DEF TypeInv, StateOK
  <2> QED BY <1>2, <1>3, <1>5, <1>6, <2>1, <2>2, MainHandsOver DEF expiringPc, closing, queuedAt
<1>8. TasksInv'
  BY <1>5 DEF QuietInv, HoldersInv, TasksInv
<1> QED BY <1>5, <1>7, <1>8 DEF QuietInv, HoldersInv, NoCrash

LEMMA NewEpollKeeps == ASSUME TypeInv, TableInv, QuietInv, newEpoll PROVE QuietInv'
<1>1. PICK F \in Fd : F = lfd[Main]
  BY DEF newEpoll, at, TypeInv, LocalsOK, outside, Thread
<1>2. given(F) /\ pc[Main] = "nc_epoll" /\ Main \in Thread /\ Main \notin Worker /\ None \notin Fd
  BY <1>1, NamesDistinct DEF given, givingPc, newEpoll, at, Thread
<1>3. /\ Once(F) /\ ~waits(F) /\ ~queued(F) /\ ~worked(F) /\ sock[F] # None
      /\ \A w \in Worker : lfd[w] # F
      /\ \A d \in due : fdof[d] # F
  BY <1>2, BusyIsOpen
<1>4. /\ MainMoves("loop", None, None)
      /\ armed' = [armed EXCEPT ![F] = "in"]
      /\ UNCHANGED <<sock, peer, rx, full, map, fdof, due, queue, batch, cursor, crash>>
  BY <1>1, <1>3 DEF newEpoll, MainMoves, goto, timers
<1>5. Once(F)'
  <2>1. \A i : queuedAt(i, F)' <=> queuedAt(i, F)
    BY <1>4 DEF queuedAt
  <2>2. ~reported(F)' /\ ~queued(F)' /\ ~worked(F)' /\ ~given(F)'
    BY <1>2, <1>3, <1>4, <2>1, MovesAre DEF Once, reported, queued, worked, given
  <2> QED BY <2>2 DEF Once, busy, reported, queued, worked
<1>6. OnceInv' /\ OpenInv' /\ DueInv' /\ OwnSocket' /\ ExpiryInv'
  <2>1. \A fd \in Fd \ {F} : armed'[fd] = armed[fd]
    BY <1>4 DEF TypeInv, StateOK
  <2>2. \A fd \in Fd \ {F} : \A i \in 1..Len(queue') :
           queuedAt(i, fd)' => i \in 1..Len(queue) /\ queuedAt(i, fd)
    BY <1>4 DEF queuedAt
  <2> QED BY <1>2, <1>3, <1>4, <1>5, <2>1, <2>2, MainHandsOver
          DEF expiringPc, closing, untested, outside
<1>7. TasksInv'
  BY <1>4 DEF QuietInv, HoldersInv, TasksInv
<1> QED BY <1>4, <1>6, <1>7 DEF QuietInv, HoldersInv, NoCrash

-----------------------------------------------------------------------------
(* Clients, who touch no descriptor; that none of them leaves the          *)
(* assumption is the assumption.                                           *)
LEMMA ClientKeeps ==
  ASSUME TypeInv, TableInv, QuietInv, NEW c \in Conn, Client(c), QuietExpiry'
  PROVE  QuietInv'
<1>1. UNCHANGED unchangedByClient
  BY DEF Client, Connect, Send, HangUp, Drain, Age
<1>2. ASSUME NEW fd
      PROVE  /\ waits(fd)' <=> waits(fd)
             /\ reported(fd)' <=> reported(fd)
             /\ queued(fd)' <=> queued(fd)
             /\ \A i : queuedAt(i, fd)' <=> queuedAt(i, fd)
             /\ worked(fd)' <=> worked(fd)
             /\ given(fd)' <=> given(fd)
  BY <1>1 DEF unchangedByClient, locals, waits, reported, queued, queuedAt, worked, given
<1>3. OnceInv' /\ OpenInv'
  BY <1>1, <1>2 DEF QuietInv, HoldersInv, OnceInv, OpenInv, Once, busy, unchangedByClient, locals
<1>4. DueInv'
  BY DueIsQuietNext
<1>5. NoCrash' /\ OwnSocket' /\ TasksInv'
  BY <1>1 DEF QuietInv, HoldersInv, NoCrash, OwnSocket, TasksInv, unchangedByClient, locals
<1>6. ExpiryInv'
  <2>1. due' = due \/ (due' = due \cup {c} /\ (c \in Linked \/ c = cursor))
    BY DEF Client, Connect, Send, HangUp, Drain, Age
  <2>2. c \in Linked \/ c = cursor => fdof[c] \in Fd
    BY DEF TypeInv, FdKnown, Linked
  <2>3. c # HeadNode
    BY SentinelsDistinct DEF Conn
  <2> QED BY <1>1, <2>1, <2>2, <2>3
          DEF QuietInv, HoldersInv, ExpiryInv, Linked, unchangedByClient, locals
<1> QED BY <1>3, <1>4, <1>5, <1>6 DEF QuietInv, HoldersInv

-----------------------------------------------------------------------------
LEMMA InitQuiet == Init => QuietInv
<1> SUFFICES ASSUME Init PROVE QuietInv
  OBVIOUS
<1>1. \A fd \in Fd : ~waits(fd) /\ ~busy(fd)
  BY NamesDistinct DEF Init, waits, busy, reported, queued, worked, given, givingPc, Thread
<1>2. OnceInv /\ OpenInv
  BY <1>1, NamesDistinct DEF OnceInv, OpenInv, Once, busy, Init, Thread
<1>3. OwnSocket
  BY DEF Init, OwnSocket, untested, outside
<1> QED BY <1>2, <1>3
        DEF QuietInv, HoldersInv, NoCrash, DueInv, TasksInv, ExpiryInv, Init, expiringPc, closing,
            Thread

LEMMA StepQuiet ==
  TypeInv /\ TableInv /\ QuietInv /\ [QuietNext]_vars => QuietInv'
<1> SUFFICES ASSUME TypeInv, TableInv, QuietInv, [QuietNext]_vars PROVE QuietInv'
  OBVIOUS
<1>1. CASE UNCHANGED vars
  <2>1. QuietInv <=> QuietInv'
    BY <1>1 DEF vars, kernel, timers, data, locals, QuietInv, HoldersInv, NoCrash, OnceInv,
                OpenInv, DueInv, OwnSocket, TasksInv, ExpiryInv, Once, busy, waits, reported,
                queued, queuedAt, worked, given, readyEvents, Linked
  <2> QED BY <2>1
<1>2. ASSUME NEW t \in Worker, work(t) PROVE QuietInv'
  <2>1. CASE getTask(t)
    BY <1>2, <2>1, GetTaskKeeps
  <2>2. CASE ~getTask(t)
    BY <1>2, <2>2, WorkIsLocal, LocalKeeps DEF Thread
  <2> QED BY <2>1, <2>2
<1>3. CASE Start
  <2>1. CASE handleClose(Main)
    BY <2>1, HandleCloseIsLocal, LocalKeeps DEF Thread
  <2> QED BY <1>3, <2>1, CloseExpireKeeps, ScanCheckKeeps, ScanStepKeeps, EpollWaitKeeps,
             AcceptFailsKeeps, DispatchKeeps, AddTaskKeeps, HandleNewConnKeeps, NewSlotKeeps,
             NewTimerKeeps, NewEpollKeeps DEF Start
<1>4. CASE Environment /\ QuietExpiry'
  BY <1>4, ClientKeeps DEF Environment
<1> QED BY <1>1, <1>2, <1>3, <1>4 DEF QuietNext, System

LEMMA QuietIsNext == [QuietNext]_vars => [Next]_vars
  BY DEF QuietNext, Next

THEOREM QuietInvariant == QuietSpec => [](TypeInv /\ TableInv /\ QuietInv)
<1>1. Init => TypeInv /\ TableInv /\ QuietInv
  BY InitTypeInv, InitTableInv, InitQuiet
<1>2. TypeInv /\ TableInv /\ QuietInv /\ [QuietNext]_vars => (TypeInv /\ TableInv /\ QuietInv)'
  BY QuietIsNext, StepType, StepTables, StepQuiet
<1> QED BY <1>1, <1>2, PTL DEF QuietSpec

-----------------------------------------------------------------------------
(* Under the assumption no assert fails and no null or torn pointer is     *)
(* followed, in whatever order threads, clients and the clock take turns.  *)
THEOREM NothingFails == QuietSpec => []NoCrash
<1>1. QuietInv => NoCrash
  BY DEF QuietInv, HoldersInv
<1> QED BY <1>1, QuietInvariant, PTL

(* A descriptor is in one place at a time on its way from epoll through    *)
(* the queue to a worker and back.                                         *)
THEOREM OneHolderAtATime == QuietSpec => []OneHolder
<1>1. QuietInv => OneHolder
  BY OnceIsOneHolderInv DEF QuietInv, HoldersInv
<1> QED BY <1>1, QuietInvariant, PTL

(* A thread works on the socket of its own connection.                     *)
THEOREM SocketsAreOwn == QuietSpec => []OwnSocket
<1>1. QuietInv => OwnSocket
  BY DEF QuietInv, HoldersInv
<1> QED BY <1>1, QuietInvariant, PTL

(* No two threads meet in the buffers and flags of a connection.           *)
THEOREM UseIsExclusive == QuietSpec => []ExclusiveUse
<1>1. TypeInv /\ TableInv /\ QuietInv => ExclusiveUse
  <2> SUFFICES ASSUME TypeInv, TableInv, QuietInv, NEW t \in Thread, NEW u \in Thread,
                      usesData(t), usesData(u), lconn[t] = lconn[u]
               PROVE  t = u
    BY DEF ExclusiveUse
  <2>1. pc[t] \notin untested /\ pc[u] \notin untested
    BY DEF usesData, untested, outside
  <2>2. /\ lfd[t] \in Fd /\ lfd[u] \in Fd /\ lconn[t] \in Conn
        /\ sock[lfd[t]] = lconn[t] /\ sock[lfd[u]] = lconn[t]
    BY <2>1 DEF untested, TypeInv, LocalsOK, QuietInv, HoldersInv, OwnSocket
  <2>3. lconn[t] # None
    BY <2>2, NamesDistinct DEF Conn, Node
  <2>4. lfd[t] = lfd[u]
    BY <2>2, <2>3 DEF TableInv, SockInv
  <2> QED BY <2>2, <2>4, OneThread
<1> QED BY <1>1, QuietInvariant, PTL

(* What ReadMe.md:51 says of EPOLLONESHOT.                                 *)
THEOREM OneWorkerAtATime == QuietSpec => []OneWorkerPerSocket
<1>1. TypeInv /\ QuietInv => OneWorkerPerSocket
  <2> SUFFICES ASSUME TypeInv, QuietInv, NEW t \in Worker, NEW u \in Worker,
                      pc[t] \in {"read", "write"}, lfd[t] = lfd[u]
               PROVE  t = u
    BY DEF OneWorkerPerSocket
  <2>1. lfd[t] \in Fd
    BY DEF TypeInv, LocalsOK, outside, Thread
  <2> QED BY <2>1, OneThread DEF Thread
<1> QED BY <1>1, QuietInvariant, PTL

(* The server itself never leaves the assumption: no step of it brings a   *)
(* connection that is due back into anybody's hands.                       *)
THEOREM AssumptionIsKept == QuietSpec => []QuietExpiry
<1>1. QuietInv => QuietExpiry
  BY DueIsQuiet DEF QuietInv, HoldersInv
<1> QED BY <1>1, QuietInvariant, PTL
=============================================================================
