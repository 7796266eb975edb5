------------------------------ MODULE TaskPool ------------------------------
(***************************************************************************)
(* The task queue with its mutex and condition variable, the worker threads*)
(* of ThreadPool that sleep on it, the main thread that fills it, and the  *)
(* end of the process: SIGINT interrupts the main thread wherever it is,   *)
(* and the handler stops and joins the workers before it returns to what   *)
(* it has interrupted.                                                     *)
(*                                                                         *)
(* getTask is split where the mutex does not help: Quit sets the flags     *)
(* without it, so that they may change between the test of the predicate   *)
(* and the wait.  A task stands for a call of Connection::handleEvent,     *)
(* which returns (TcpServer models what it does).                          *)
(***************************************************************************)
EXTENDS Sequences, Naturals, FiniteSets

CONSTANTS Worker,  \* the threads that run() creates
          Main,
          Task,    \* the tasks that the main thread may add, each once
          None     \* null task, free mutex

ASSUME PoolNames == /\ IsFiniteSet(Worker)
                    /\ Main \notin Worker
                    /\ None \notin Task \cup Worker \cup {Main}

VARIABLES
  queue,     \* TaskPool::_activeconn
  poolQuit,  \* TaskPool::_quit
  mutex,     \* TaskPool::_mutex: its holder
  quit,      \* ThreadPool::_quit
  wpc,       \* where each worker is
  task,      \* what getTask has returned to it
  unjoined,  \* _threadpool: the threads started and not joined
  mpc,       \* where the main thread is, the handler apart
  hpc,       \* where the handler of SIGINT is
  pending    \* tasks not yet added

workers == <<wpc, task>>
flags == <<poolQuit, quit>>
vars == <<queue, flags, mutex, workers, unjoined, mpc, hpc, pending>>

holding == {"test", "block"}

TypeOK ==
  /\ queue \in Seq(Task)
  /\ poolQuit \in BOOLEAN /\ quit \in BOOLEAN
  /\ mutex \in Worker \cup {Main, None}
  /\ wpc \in [Worker -> {"new", "loop", "lock", "asleep", "work", "end"} \cup holding]
  /\ task \in [Worker -> Task \cup {None}]
  /\ unjoined \subseteq Worker
  /\ mpc \in {"run", "loop", "push", "exit", "end", "abort"}
  /\ hpc \in {"none", "quit", "pool_quit", "notify", "join", "done"}
  /\ pending \subseteq Task
  /\ \A w \in Worker : wpc[w] \in holding <=> mutex = w
  /\ mpc = "push" <=> mutex = Main

Init ==
  /\ queue = <<>>
  /\ poolQuit = FALSE /\ quit = FALSE
  /\ mutex = None
  /\ wpc = [w \in Worker |-> "new"]
  /\ task = [w \in Worker |-> None]
  /\ unjoined = {}
  /\ mpc = "run"
  /\ hpc = "none"
  /\ pending = Task

goto(w, l) == wpc' = [wpc EXCEPT ![w] = l]
asleep == {w \in Worker : wpc[w] = "asleep"}
wake(S) == wpc' = [w \in Worker |-> IF w \in S THEN "lock" ELSE wpc[w]]

-----------------------------------------------------------------------------
(* ThreadPool::work *)

loop(w, l) == /\ wpc[w] = "loop"
              /\ goto(w, l)
              /\ UNCHANGED <<queue, flags, mutex, task, unjoined, mpc, hpc, pending>>

workOn(w) == loop(w, "lock")  \* Mistake: the loop does not end.
work(w) == loop(w, IF quit THEN "end" ELSE "lock")

handleEvent(w) == /\ wpc[w] = "work"
                  /\ goto(w, "loop")
                  /\ task' = [task EXCEPT ![w] = None]
                  /\ UNCHANGED <<queue, flags, mutex, unjoined, mpc, hpc, pending>>

(* TaskPool::getTask: take the mutex, at first or after having been woken, *)
lock(w) == /\ wpc[w] = "lock" /\ mutex = None
           /\ mutex' = w
           /\ goto(w, "test")
           /\ UNCHANGED <<queue, flags, task, unjoined, mpc, hpc, pending>>

(* test the predicate, and if it holds return the first task, if any,      *)
getTask(w) ==
  /\ wpc[w] = "test"
  /\ queue # <<>> \/ poolQuit
  /\ task' = [task EXCEPT ![w] = IF queue # <<>> THEN Head(queue) ELSE None]
  /\ queue' = IF queue # <<>> THEN Tail(queue) ELSE queue
  /\ mutex' = None
  /\ goto(w, "work")
  /\ UNCHANGED <<flags, unjoined, mpc, hpc, pending>>

findNone(w) == /\ wpc[w] = "test"
               /\ queue = <<>> /\ ~poolQuit
               /\ goto(w, "block")
               /\ UNCHANGED <<queue, flags, mutex, task, unjoined, mpc, hpc, pending>>

(* or else release the mutex and fall asleep, at once as others see it.    *)
sleepWith(w, m) == /\ wpc[w] = "block"
                   /\ mutex' = m
                   /\ goto(w, "asleep")
                   /\ UNCHANGED <<queue, flags, task, unjoined, mpc, hpc, pending>>

waitLocked(w) == sleepWith(w, mutex)  \* Mistake: it falls asleep with the mutex.
wait(w) == sleepWith(w, None)

(* The wait may return without a notification. *)
spurious(w) == /\ w \in asleep
               /\ wake({w})
               /\ UNCHANGED <<queue, flags, mutex, task, unjoined, mpc, hpc, pending>>

thread(w) == work(w) \/ handleEvent(w) \/ lock(w) \/ getTask(w) \/ findNone(w) \/ wait(w)

-----------------------------------------------------------------------------
(* The main thread, while no handler runs on it *)

uninterrupted == hpc \in {"none", "done"}

(* ThreadPool::run, one thread at a time; then the loop of TcpServer::Start *)
run == /\ uninterrupted /\ mpc = "run"
       /\ \E w \in Worker : /\ wpc[w] = "new"
                            /\ goto(w, "loop")
                            /\ unjoined' = unjoined \cup {w}
       /\ mpc' = IF \E v, w \in Worker : v # w /\ wpc[v] = "new" /\ wpc[w] = "new"
                 THEN "run" ELSE "loop"
       /\ UNCHANGED <<queue, flags, mutex, task, hpc, pending>>

(* TaskPool::addTask, on to the notification ...                           *)
addTask(t) == /\ uninterrupted /\ mpc = "loop"
              /\ t \in pending
              /\ mutex = None
              /\ mutex' = Main
              /\ queue' = Append(queue, t)
              /\ pending' = pending \ {t}
              /\ mpc' = "push"
              /\ UNCHANGED <<flags, workers, unjoined, hpc>>

(* ... and the unlock.                                                     *)
notify(S) == /\ uninterrupted /\ mpc = "push"
             /\ wake(S)
             /\ mutex' = None
             /\ mpc' = "loop"
             /\ UNCHANGED <<queue, flags, task, unjoined, hpc, pending>>

notifyNone == notify({})  \* Mistake: addTask does not notify.

(* One sleeper is woken, if there is one.                                  *)
notifyOne == IF asleep = {} THEN notify({}) ELSE \E w \in asleep : notify({w})

(* Start returns once Quit has set TcpServer::_quit, and main returns.     *)
Start == /\ hpc = "done" /\ mpc = "loop"
         /\ mpc' = "exit"
         /\ UNCHANGED <<queue, flags, mutex, workers, unjoined, hpc, pending>>

(* The destructor of ThreadPool stops them once more, and then that of its *)
(* vector meets the threads that were not joined.                          *)
destroy == /\ mpc = "exit"
           /\ quit' = TRUE /\ poolQuit' = TRUE
           /\ wake(asleep)
           /\ mpc' = IF unjoined = {} THEN "end" ELSE "abort"
           /\ UNCHANGED <<queue, mutex, task, unjoined, hpc, pending>>

main == run \/ notifyOne \/ Start \/ destroy

-----------------------------------------------------------------------------
(* The handler of SIGINT: HttpServer::Quit, hence TcpServer::Quit; it may *)
(* be called again after it has returned.                                 *)

sigint == /\ uninterrupted /\ mpc \in {"run", "loop", "push"}
          /\ hpc' = "quit"
          /\ UNCHANGED <<queue, flags, mutex, workers, unjoined, mpc, pending>>

(* ThreadPool::quit sets its flag, *)
setQuit == /\ hpc = "quit"
           /\ quit' = TRUE
           /\ hpc' = "pool_quit"
           /\ UNCHANGED <<queue, poolQuit, mutex, workers, unjoined, mpc, pending>>

(* TaskPool::Quit that of the pool, without the mutex, *)
setPoolQuit == /\ hpc = "pool_quit"
               /\ poolQuit' = TRUE
               /\ hpc' = "notify"
               /\ UNCHANGED <<queue, quit, mutex, workers, unjoined, mpc, pending>>

(* and wakes everybody; *)
notifyAll == /\ hpc = "notify"
             /\ wake(asleep)
             /\ hpc' = "join"
             /\ UNCHANGED <<queue, flags, mutex, task, unjoined, mpc, pending>>

(* ThreadPool::join returns when the threads there are have ended.         *)
join == /\ hpc = "join"
        /\ \A w \in unjoined : wpc[w] = "end"
        /\ unjoined' = {}
        /\ hpc' = "done"
        /\ UNCHANGED <<queue, flags, mutex, workers, mpc, pending>>

Quit == setQuit \/ setPoolQuit \/ notifyAll \/ join

-----------------------------------------------------------------------------
running == mpc \notin {"end", "abort"}

Next == \/ running /\ \E w \in Worker : thread(w) \/ spurious(w)
        \/ main \/ \E t \in Task : addTask(t)
        \/ sigint \/ Quit

(* Every thread is scheduled; nobody has to send tasks or signals.         *)
Fairness == /\ \A w \in Worker : WF_vars(running /\ thread(w))
            /\ WF_vars(main) /\ WF_vars(Quit)

Spec == Init /\ [][Next]_vars /\ Fairness

-----------------------------------------------------------------------------
(* Nobody sleeps beside work: while a worker is asleep, there are enough    *)
(* others on their way to the queue to take all that is in it.             *)
Seekers == {w \in Worker : wpc[w] \in {"lock", "test"}}
WorkIsShared == ~quit /\ mpc # "push" /\ asleep # {} => Len(queue) =< Cardinality(Seekers)

(* Every task is taken, unless the server is told to quit, which drops the *)
(* rest.                                                                   *)
TasksAreTaken ==
  \A t \in Task : (\E i \in 1..Len(queue) : queue[i] = t)
                     ~> (quit \/ \E w \in Worker : task[w] = t)

(* Nothing but a worker that falls asleep too late, or the mutex that the  *)
(* main thread held when it was interrupted, keeps join from returning.    *)
JoinReturns ==
  (hpc = "join" /\ mutex # Main /\ \A w \in Worker : wpc[w] \notin {"block", "asleep"})
     ~> hpc = "done"

(* TcpServer::Quit, ThreadPool::work: once Quit has returned, no thread has *)
(* a task, the mutex or a place in the wait: neither those that it has     *)
(* joined nor those that run, which it has interrupted, creates only then. *)
QuitStopsWork ==
  hpc = "done" => /\ \A w \in Worker : wpc[w] \in {"new", "loop", "end"} /\ task[w] = None
                  /\ mutex \notin Worker

(* TcpServer.cpp:298: Quit waits until all workers have ended; so they do, *)
(* and it returns.                                                         *)
QuitReturns == hpc = "quit" ~> hpc = "done"
=============================================================================
