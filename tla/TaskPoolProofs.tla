--------------------------- MODULE TaskPoolProofs ---------------------------
(***************************************************************************)
(* The mutex of the task queue is held by whom it says, no worker sleeps   *)
(* beside work, and no thread works once Quit has returned: for any number *)
(* of workers and tasks, and SIGINT at any moment and any number of times. *)
(***************************************************************************)
EXTENDS TaskPool, FiniteSetTheorems, TLAPS

(* A worker that is about to fall asleep holds the mutex, so that nothing  *)
(* has been added since it found the queue empty; a task that was added and*)
(* not yet notified is one more than the others are on their way to.       *)
Sharing ==
  /\ \A w \in Worker : wpc[w] = "block" => queue = <<>>
  /\ poolQuit => quit
  /\ ~quit /\ asleep # {} =>
       Len(queue) =< Cardinality(Seekers) + (IF mpc = "push" THEN 1 ELSE 0)

(* Every thread that has not ended can still be joined, and Quit goes on to*)
(* the end only with its flag set.                                         *)
Stopping ==
  /\ \A w \in Worker : wpc[w] \in {"new", "end"} \/ w \in unjoined
  /\ \A w \in Worker : task[w] # None => wpc[w] = "work"
  /\ hpc \in {"pool_quit", "notify", "join", "done"} => quit
  /\ hpc = "done" => \A w \in Worker : wpc[w] \in {"new", "loop", "end"}

Inv == TypeOK /\ Sharing /\ Stopping

-----------------------------------------------------------------------------
LEMMA InitType == Init => TypeOK
<1> SUFFICES ASSUME Init PROVE TypeOK
  OBVIOUS
<1>1. \A w \in Worker : mutex # w /\ wpc[w] = "new" /\ task[w] = None
  BY PoolNames DEF Init
<1>2. /\ queue \in Seq(Task)
      /\ mutex \in Worker \cup {Main, None} /\ mutex # Main
      /\ wpc \in [Worker -> {"new"}] /\ task \in [Worker -> {None}]
      /\ unjoined \subseteq Worker /\ pending \subseteq Task
  BY PoolNames DEF Init
<1>3. poolQuit \in BOOLEAN /\ quit \in BOOLEAN
  BY DEF Init
<1>4. mpc = "run" /\ hpc = "none"
  BY DEF Init
<1>5. \A w \in Worker : wpc[w] \in holding <=> mutex = w
  BY <1>1 DEF holding
<1>6. wpc \in [Worker -> {"new", "loop", "lock", "asleep", "work", "end"} \cup holding]
  BY <1>2
<1>7. task \in [Worker -> Task \cup {None}]
  BY <1>2
<1> QED BY <1>2, <1>3, <1>4, <1>5, <1>6, <1>7 DEF TypeOK

LEMMA NextType == TypeOK /\ [Next]_vars => TypeOK'
<1> SUFFICES ASSUME TypeOK, [Next]_vars PROVE TypeOK'
  OBVIOUS
<1> USE PoolNames DEF TypeOK, holding, flags, workers, goto, wake, asleep
<1>1. ASSUME NEW w \in Worker, work(w) PROVE TypeOK'
  BY <1>1 DEF work, loop
<1>2. ASSUME NEW w \in Worker, handleEvent(w) PROVE TypeOK'
  BY <1>2 DEF handleEvent
<1>3. ASSUME NEW w \in Worker, lock(w) PROVE TypeOK'
  BY <1>3 DEF lock
<1>4. ASSUME NEW w \in Worker, getTask(w) PROVE TypeOK'
  BY <1>4 DEF getTask
<1>5. ASSUME NEW w \in Worker, findNone(w) PROVE TypeOK'
  BY <1>5 DEF findNone
<1>6. ASSUME NEW w \in Worker, wait(w) PROVE TypeOK'
  BY <1>6 DEF wait, sleepWith
<1>7. ASSUME NEW w \in Worker, spurious(w) PROVE TypeOK'
  BY <1>7 DEF spurious
<1>8. CASE run
  BY <1>8 DEF run
<1>9. ASSUME NEW t \in Task, addTask(t) PROVE TypeOK'
  BY <1>9 DEF addTask
<1>10. CASE notifyOne
  BY <1>10 DEF notifyOne, notify
<1>11. CASE Start
  BY <1>11 DEF Start
<1>12. CASE destroy
  BY <1>12 DEF destroy
<1>13. CASE sigint
  BY <1>13 DEF sigint
<1>14. CASE setQuit
  BY <1>14 DEF setQuit
<1>15. CASE setPoolQuit
  BY <1>15 DEF setPoolQuit
<1>16. CASE notifyAll
  BY <1>16 DEF notifyAll
<1>17. CASE join
  BY <1>17 DEF join
<1>18. CASE UNCHANGED vars
  BY <1>18 DEF vars
<1> QED BY <1>1, <1>2, <1>3, <1>4, <1>5, <1>6, <1>7, <1>8, <1>9, <1>10, <1>11, <1>12,
           <1>13, <1>14, <1>15, <1>16, <1>17, <1>18 DEF Next, thread, main, Quit
-----------------------------------------------------------------------------
LEMMA SeekersAreFinite == IsFiniteSet(Seekers) /\ Cardinality(Seekers) \in Nat
<1>1. Seekers \in SUBSET Worker
  BY DEF Seekers
<1> QED BY <1>1, PoolNames, FS_Subset, FS_CardinalityType

LEMMA SeekersAreFiniteNext == IsFiniteSet(Seekers') /\ Cardinality(Seekers') \in Nat
<1>1. Seekers' \in SUBSET Worker
  BY DEF Seekers
<1> QED BY <1>1, PoolNames, FS_Subset, FS_CardinalityType

(* A step that takes no seeker away and adds no task.                      *)
LEMMA NoFewerSeekers ==
  ASSUME TypeOK, Sharing, queue' = queue, poolQuit' = poolQuit, quit' = quit,
         Seekers \subseteq Seekers', asleep' \subseteq asleep, mpc' = mpc,
         \A w \in Worker : wpc'[w] = "block" => wpc[w] = "block"
  PROVE  Sharing'
<1>1. Cardinality(Seekers) =< Cardinality(Seekers')
  BY SeekersAreFiniteNext, FS_Subset
<1>2. /\ Cardinality(Seekers) \in Nat /\ Cardinality(Seekers') \in Nat
      /\ Len(queue) \in Nat
  BY SeekersAreFinite, SeekersAreFiniteNext DEF TypeOK
<1>3. asleep' # {} => asleep # {}
  OBVIOUS
<1>4. CASE mpc = "push"
  BY <1>1, <1>2, <1>3, <1>4 DEF Sharing
<1>5. CASE mpc # "push"
  BY <1>1, <1>2, <1>3, <1>5 DEF Sharing
<1> QED BY <1>4, <1>5

(* A step of the shutdown: nobody is promised anything any more.           *)
LEMMA QuittingShares ==
  ASSUME Sharing, quit', queue' = queue,
         \A w \in Worker : wpc'[w] = "block" => wpc[w] = "block"
  PROVE  Sharing'
  BY DEF Sharing

LEMMA NextSharing == TypeOK /\ Sharing /\ Stopping /\ [Next]_vars => Sharing'
<1> SUFFICES ASSUME TypeOK, Sharing, Stopping, [Next]_vars PROVE Sharing'
  OBVIOUS
<1> USE DEF TypeOK, flags, workers, goto, wake
<1>1. ASSUME NEW w \in Worker, work(w) PROVE Sharing'
  <2>1. /\ Seekers \subseteq Seekers' /\ asleep' \subseteq asleep
        /\ \A v \in Worker : wpc'[v] = "block" => wpc[v] = "block"
    BY <1>1 DEF work, loop, Seekers, asleep
  <2> QED BY <1>1, <2>1, NoFewerSeekers DEF work, loop
<1>2. ASSUME NEW w \in Worker, handleEvent(w) PROVE Sharing'
  <2>1. /\ Seekers \subseteq Seekers' /\ asleep' \subseteq asleep
        /\ \A v \in Worker : wpc'[v] = "block" => wpc[v] = "block"
    BY <1>2 DEF handleEvent, Seekers, asleep
  <2> QED BY <1>2, <2>1, NoFewerSeekers DEF handleEvent
<1>3. ASSUME NEW w \in Worker, lock(w) PROVE Sharing'
  <2>1. /\ Seekers \subseteq Seekers' /\ asleep' \subseteq asleep
        /\ \A v \in Worker : wpc'[v] = "block" => wpc[v] = "block"
    BY <1>3 DEF lock, Seekers, asleep
  <2> QED BY <1>3, <2>1, NoFewerSeekers DEF lock
<1>4. ASSUME NEW w \in Worker, getTask(w) PROVE Sharing'
  <2>1. \A v \in Worker : wpc'[v] # "block"
    BY <1>4 DEF getTask, holding
  <2>2. CASE queue = <<>>
    <3>1. quit'
      BY <1>4, <2>2 DEF getTask, Sharing
    <3> QED BY <1>4, <2>1, <2>2, <3>1 DEF getTask, Sharing
  <2>3. CASE queue # <<>>
    <3>1. Seekers' = Seekers \ {w} /\ w \in Seekers /\ asleep' = asleep
      BY <1>4 DEF getTask, Seekers, asleep
    <3>2. Cardinality(Seekers') = Cardinality(Seekers) - 1
      BY <3>1, SeekersAreFinite, FS_RemoveElement
    <3>3. Len(queue') = Len(queue) - 1 /\ Len(queue) \in Nat
      BY <1>4, <2>3 DEF getTask
    <3>4. mpc' = mpc /\ quit' = quit /\ poolQuit' = poolQuit
      BY <1>4 DEF getTask
    <3>5. Cardinality(Seekers) \in Nat
      BY SeekersAreFinite
    <3>6. CASE mpc = "push"
      BY <2>1, <3>1, <3>2, <3>3, <3>4, <3>5, <3>6 DEF Sharing
    <3>7. CASE mpc # "push"
      BY <2>1, <3>1, <3>2, <3>3, <3>4, <3>5, <3>7 DEF Sharing
    <3> QED BY <3>6, <3>7
  <2> QED BY <2>2, <2>3
<1>5. ASSUME NEW w \in Worker, findNone(w) \/ wait(w) PROVE Sharing'
  <2>1. queue' = <<>> /\ poolQuit' = poolQuit /\ quit' = quit
    BY <1>5 DEF findNone, wait, sleepWith, Sharing
  <2>2. Len(queue') = 0
    BY <2>1
  <2> QED BY <2>1, <2>2, SeekersAreFiniteNext DEF Sharing
<1>6. ASSUME NEW w \in Worker, spurious(w) PROVE Sharing'
  <2>1. /\ Seekers \subseteq Seekers' /\ asleep' \subseteq asleep
        /\ \A v \in Worker : wpc'[v] = "block" => wpc[v] = "block"
    BY <1>6 DEF spurious, Seekers, asleep
  <2> QED BY <1>6, <2>1, NoFewerSeekers DEF spurious
<1>7. CASE run
  <2>1. /\ Seekers \subseteq Seekers' /\ asleep' = asleep /\ mpc # "push" /\ mpc' # "push"
        /\ \A v \in Worker : wpc'[v] = "block" => wpc[v] = "block"
    BY <1>7 DEF run, Seekers, asleep
  <2>2. Cardinality(Seekers) =< Cardinality(Seekers')
    BY <2>1, SeekersAreFiniteNext, FS_Subset
  <2>3. /\ Cardinality(Seekers) \in Nat /\ Cardinality(Seekers') \in Nat /\ Len(queue) \in Nat
    BY SeekersAreFinite, SeekersAreFiniteNext
  <2> QED BY <1>7, <2>1, <2>2, <2>3 DEF run, Sharing
<1>8. ASSUME NEW t \in Task, addTask(t) PROVE Sharing'
  <2>1. Seekers' = Seekers /\ asleep' = asleep
    BY <1>8 DEF addTask, Seekers, asleep
  <2>2. \A v \in Worker : wpc'[v] # "block"
    BY <1>8, PoolNames DEF addTask, holding
  <2>3. Len(queue') = Len(queue) + 1 /\ Len(queue) \in Nat
    BY <1>8 DEF addTask
  <2> QED BY <1>8, <2>1, <2>2, <2>3, SeekersAreFinite DEF addTask, Sharing
<1>9. CASE notifyOne
  <2>1. mpc = "push" /\ mpc' = "loop" /\ queue' = queue /\ quit' = quit /\ poolQuit' = poolQuit
    BY <1>9 DEF notifyOne, notify
  <2>2. CASE asleep = {}
    <3>1. asleep' = {} /\ \A v \in Worker : wpc'[v] = "block" => wpc[v] = "block"
      BY <1>9, <2>2 DEF notifyOne, notify, asleep
    <3> QED BY <2>1, <3>1 DEF Sharing
  <2>3. CASE asleep # {}
    <3>1. PICK w \in asleep : notify({w})
      BY <1>9, <2>3 DEF notifyOne
    <3>2. /\ Seekers' = Seekers \cup {w} /\ w \notin Seekers
          /\ \A v \in Worker : wpc'[v] = "block" => wpc[v] = "block"
      BY <3>1 DEF notify, asleep, Seekers
    <3>3. Cardinality(Seekers') = Cardinality(Seekers) + 1
      BY <3>2, SeekersAreFinite, FS_AddElement
    <3>4. Cardinality(Seekers) \in Nat /\ Len(queue) \in Nat
      BY SeekersAreFinite
    <3> QED BY <2>1, <2>3, <3>2, <3>3, <3>4 DEF Sharing
  <2> QED BY <2>2, <2>3
<1>10. CASE Start \/ sigint \/ join
  <2>1. /\ Seekers \subseteq Seekers' /\ asleep' = asleep
        /\ mpc = "push" <=> mpc' = "push"
        /\ wpc' = wpc
    BY <1>10 DEF Start, sigint, join, Seekers, asleep
  <2>2. queue' = queue /\ quit' = quit /\ poolQuit' = poolQuit
    BY <1>10 DEF Start, sigint, join
  <2>3. Seekers' = Seekers
    BY <2>1 DEF Seekers
  <2> QED BY <2>1, <2>2, <2>3 DEF Sharing
<1>11. CASE destroy \/ setQuit \/ setPoolQuit \/ notifyAll
  <2>1. /\ quit' /\ queue' = queue
        /\ \A v \in Worker : wpc'[v] = "block" => wpc[v] = "block"
    BY <1>11 DEF destroy, setQuit, setPoolQuit, notifyAll, Stopping
  <2> QED BY <2>1, QuittingShares
<1>12. CASE UNCHANGED vars
  BY <1>12 DEF vars, Sharing, Seekers, asleep
<1> QED BY <1>1, <1>2, <1>3, <1>4, <1>5, <1>6, <1>7, <1>8, <1>9, <1>10, <1>11, <1>12
        DEF Next, thread, main, Quit

-----------------------------------------------------------------------------
LEMMA NextStopping == TypeOK /\ Stopping /\ [Next]_vars => Stopping'
<1> SUFFICES ASSUME TypeOK, Stopping, [Next]_vars PROVE Stopping'
  OBVIOUS
<1> USE DEF TypeOK, Stopping, flags, workers, goto, wake, asleep
<1>1. ASSUME NEW w \in Worker, thread(w) \/ spurious(w) PROVE Stopping'
  <2>1. CASE work(w)
    BY <2>1 DEF work, loop
  <2>2. CASE handleEvent(w)
    BY <2>2 DEF handleEvent
  <2>3. CASE lock(w)
    BY <2>3 DEF lock
  <2>4. CASE getTask(w)
    BY <2>4 DEF getTask
  <2>5. CASE findNone(w)
    BY <2>5 DEF findNone
  <2>6. CASE wait(w)
    BY <2>6 DEF wait, sleepWith
  <2>7. CASE spurious(w)
    BY <2>7 DEF spurious
  <2> QED BY <1>1, <2>1, <2>2, <2>3, <2>4, <2>5, <2>6, <2>7 DEF thread
<1>2. CASE run
  BY <1>2 DEF run
<1>3. ASSUME NEW t \in Task, addTask(t) PROVE Stopping'
  BY <1>3 DEF addTask, uninterrupted
<1>4. CASE notifyOne
  BY <1>4 DEF notifyOne, notify
<1>5. CASE Start
  BY <1>5 DEF Start
<1>6. CASE destroy
  BY <1>6 DEF destroy
<1>7. CASE sigint
  BY <1>7 DEF sigint
<1>8. CASE setQuit
  BY <1>8 DEF setQuit
<1>9. CASE setPoolQuit
  BY <1>9 DEF setPoolQuit
<1>10. CASE notifyAll
  BY <1>10 DEF notifyAll
<1>11. CASE join
  BY <1>11 DEF join
<1>12. CASE UNCHANGED vars
  BY <1>12 DEF vars
<1> QED BY <1>1, <1>2, <1>3, <1>4, <1>5, <1>6, <1>7, <1>8, <1>9, <1>10, <1>11, <1>12
        DEF Next, main, Quit

LEMMA InitEstablishes == Init => Inv
<1> SUFFICES ASSUME Init PROVE Sharing /\ Stopping
  BY InitType DEF Inv
<1> QED BY DEF Init, Sharing, Stopping, asleep

LEMMA AlwaysInv == Spec => []Inv
<1>1. Inv /\ [Next]_vars => Inv'
  BY NextType, NextSharing, NextStopping DEF Inv
<1> QED BY InitEstablishes, <1>1, PTL DEF Spec

(* TaskPool, ThreadPool: the mutex has the holder that the places of the   *)
(* threads say, so at most one is in the queue at a time.                  *)
THEOREM TypeCorrect == Spec => []TypeOK
<1>1. Inv => TypeOK
  BY DEF Inv
<1> QED BY AlwaysInv, <1>1, PTL

(* TaskPool::addTask, getTask: one notification for each task is enough,   *)
(* however many workers there are and wherever each of them is.            *)
THEOREM SharingCorrect == Spec => []WorkIsShared
<1>1. Inv => WorkIsShared
  <2> SUFFICES ASSUME Inv, ~quit, mpc # "push", asleep # {}
               PROVE  Len(queue) =< Cardinality(Seekers)
    BY DEF WorkIsShared
  <2>1. Len(queue) =< Cardinality(Seekers) + 0 /\ Cardinality(Seekers) \in Nat
    BY SeekersAreFinite DEF Inv, Sharing
  <2> QED BY <2>1
<1> QED BY AlwaysInv, <1>1, PTL

(* TcpServer::Quit: when it has returned no thread works, sleeps or is in  *)
(* the queue, also if it came before all threads were created, or again.   *)
THEOREM QuitCorrect == Spec => []QuitStopsWork
<1>1. Inv => QuitStopsWork
  BY PoolNames DEF Inv, TypeOK, Stopping, QuitStopsWork, holding
<1> QED BY AlwaysInv, <1>1, PTL
=============================================================================
