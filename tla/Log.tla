--------------------------------- MODULE Log ---------------------------------
(***************************************************************************)
(* The logger: every thread of the server writes lines, directly or by way *)
(* of a queue that a thread of the logger empties; and how it ends, after  *)
(* SIGINT, or because the server did not come up.  The handler of SIGINT   *)
(* joins the workers that there are; those that ThreadPool::run creates    *)
(* afterwards still log while the logger ends.                             *)
(*                                                                         *)
(* Steps are cut at each access that the mutex does not cover: isOpen, the *)
(* test of _quit in the loop of the thread, and Quit, which sets the flags *)
(* without it.  A line is its writer and its number.                       *)
(***************************************************************************)
EXTENDS Sequences, Naturals

CONSTANTS Worker,   \* the worker threads
          Main, LogThread,
          None,     \* free mutex
          MaxLines  \* bound: how many lines each writer writes

ASSUME LogNames == /\ Main \notin Worker
                   /\ LogThread \notin Worker \cup {Main}
                   /\ None \notin Worker \cup {Main, LogThread}
                   /\ MaxLines \in [Worker \cup {Main} -> Nat]

VARIABLES
  async,  \* Log::_async: Init was given a queue length
  queue,  \* Log::_queue
  file,   \* what was written to Log::_fs
  mutex,  \* Log::_mutex: its holder
  open,   \* Log::_open
  quit,   \* Log::_quit
  lpc,    \* where the logger's thread is
  wpc,    \* where each writer is, the main thread among them
  lines,  \* how many lines it has put into the queue or the file
  mpc,    \* where the main thread is in its life
  sig,    \* the handler of SIGINT, on top of it
  unjoined, \* ThreadPool::_threadpool: the workers created and not joined
  late    \* History: those of them when Log::Quit was called

Writer == Worker \cup {Main}
flags == <<open, quit>>
writers == <<wpc, lines>>
output == <<queue, file>>
threads == <<unjoined, late>>
vars == <<async, output, mutex, flags, lpc, writers, mpc, sig, threads>>

holding == {"test", "block"}

TypeOK ==
  /\ async \in BOOLEAN /\ open \in BOOLEAN /\ quit \in BOOLEAN
  /\ queue \in Seq(Writer \X Nat)
  /\ file \in Seq((Writer \cup {LogThread}) \X Nat)
  /\ mutex \in Writer \cup {LogThread, None}
  /\ lpc \in {"none", "loop", "hasLog", "lock", "asleep", "woken", "close", "end"} \cup holding
  /\ wpc \in [Writer -> {"new", "idle", "write", "locked", "end"}]
  /\ lines \in [Writer -> Nat]
  /\ mpc \in {"new", "open", "init", "serve", "quit", "notify", "join", "exit"}
  /\ sig \in {"none", "join", "done"}
  /\ unjoined \subseteq Worker /\ late \subseteq Worker
  /\ mutex = LogThread <=> lpc \in holding
  /\ \A t \in Writer : mutex = t <=> wpc[t] = "locked"
  /\ lpc # "none" => async

(* HttpServer::Init has called Log::Init.                                  *)
Init ==
  /\ async \in BOOLEAN
  /\ queue = <<>> /\ file = <<>>
  /\ mutex = None
  /\ open = FALSE /\ quit = FALSE
  /\ lpc = "none"
  /\ wpc = [t \in Writer |-> IF t = Main THEN "idle" ELSE "new"]
  /\ lines = [t \in Writer |-> 0]
  /\ mpc = "new"
  /\ sig = "none"
  /\ unjoined = {} /\ late = {}

-----------------------------------------------------------------------------
(* Log::Start: the thread first, then _open *)

startThread == /\ mpc = "new"
               /\ lpc' = IF async THEN "loop" ELSE lpc
               /\ mpc' = "open"
               /\ UNCHANGED <<async, output, mutex, flags, writers, sig, threads>>

setOpen == /\ mpc = "open"
           /\ open' = TRUE
           /\ mpc' = "init"
           /\ UNCHANGED <<async, output, mutex, quit, lpc, writers, sig, threads>>

(* The constructor of TcpServer may exit, and ~Log then calls Quit.        *)
TcpServer == /\ mpc = "init"
             /\ mpc' \in {"serve", "quit"}
             /\ UNCHANGED <<async, output, mutex, flags, lpc, writers, sig, threads>>

-----------------------------------------------------------------------------
(* A thread that logs; the handler of SIGINT keeps the main thread from it. *)

runs(t) == t = Main => mpc = "serve" /\ sig # "join"

LOG_BASE(t) == /\ runs(t) /\ wpc[t] = "idle"
               /\ open /\ lines[t] < MaxLines[t]
               /\ wpc' = [wpc EXCEPT ![t] = "write"]
               /\ UNCHANGED <<async, output, mutex, flags, lpc, lines, mpc, sig, threads>>

(* Log::write                                                              *)
write(t) ==
  LET l == <<t, lines[t] + 1>> IN
  /\ runs(t) /\ wpc[t] = "write" /\ mutex = None
  /\ mutex' = t
  /\ lines' = [lines EXCEPT ![t] = @ + 1]
  /\ queue' = IF async THEN Append(queue, l) ELSE queue
  /\ file' = IF async THEN file ELSE Append(file, l)
  /\ wpc' = [wpc EXCEPT ![t] = "locked"]
  /\ UNCHANGED <<async, flags, lpc, mpc, sig, threads>>

notified == IF lpc = "asleep" THEN "woken" ELSE lpc

unlock(t, l) == /\ runs(t) /\ wpc[t] = "locked"
                /\ lpc' = l
                /\ mutex' = None
                /\ wpc' = [wpc EXCEPT ![t] = "idle"]
                /\ UNCHANGED <<async, output, flags, lines, mpc, sig, threads>>

notifyNone(t) == unlock(t, lpc)  \* Mistake: does not notify.
notifyOne(t) == unlock(t, IF async THEN notified ELSE lpc)

(* A worker that has been told to stop; its last line is one of the others.*)
end(w) == /\ sig # "none" /\ wpc[w] = "idle"
          /\ wpc' = [wpc EXCEPT ![w] = "end"]
          /\ UNCHANGED <<async, output, mutex, flags, lpc, lines, mpc, sig, threads>>

-----------------------------------------------------------------------------
(* Log::asyncWork *)

testQuit(l) == /\ lpc = "loop"
               /\ lpc' = IF quit THEN l ELSE "lock"
               /\ UNCHANGED <<async, output, mutex, flags, writers, mpc, sig, threads>>

loopNoLog == testQuit("close")  \* Mistake: ends with lines in the queue.
loop == testQuit("hasLog")

hasLog == /\ lpc = "hasLog" /\ mutex = None
          /\ lpc' = IF queue # <<>> THEN "lock" ELSE "close"
          /\ UNCHANGED <<async, output, mutex, flags, writers, mpc, sig, threads>>

lock == /\ lpc = "lock" /\ mutex = None
        /\ mutex' = LogThread
        /\ lpc' = "test"
        /\ UNCHANGED <<async, output, flags, writers, mpc, sig, threads>>

popTo(rest) == /\ lpc = "test" /\ queue # <<>>
               /\ file' = Append(file, Head(queue))
               /\ queue' = rest
               /\ mutex' = None
               /\ lpc' = "loop"
               /\ UNCHANGED <<async, flags, writers, mpc, sig, threads>>

popAll == popTo(<<>>)  \* Mistake: the whole queue is cleared.
pop == popTo(Tail(queue))

findNone == /\ lpc = "test" /\ queue = <<>>
            /\ lpc' = "block"
            /\ UNCHANGED <<async, output, mutex, flags, writers, mpc, sig, threads>>

(* The wait has no predicate.                                              *)
sleepWith(m) == /\ lpc = "block"
                /\ mutex' = m
                /\ lpc' = "asleep"
                /\ UNCHANGED <<async, output, flags, writers, mpc, sig, threads>>

waitLocked == sleepWith(mutex)  \* Mistake: it falls asleep with the mutex.
wait == sleepWith(None)

(* It returns with the mutex, which the end of the loop's body releases.   *)
wakeUp == /\ lpc = "woken" /\ mutex = None
          /\ lpc' = "loop"
          /\ UNCHANGED <<async, output, mutex, flags, writers, mpc, sig, threads>>

spurious == /\ lpc = "asleep"
            /\ lpc' = notified
            /\ UNCHANGED <<async, output, mutex, flags, writers, mpc, sig, threads>>

close == /\ lpc = "close"
         /\ file' = Append(file, <<LogThread, 1>>)
         /\ lpc' = "end"
         /\ UNCHANGED <<async, queue, mutex, flags, writers, mpc, sig, threads>>

asyncWork == loop \/ hasLog \/ lock \/ pop \/ findNone \/ wait \/ wakeUp \/ close

-----------------------------------------------------------------------------
(* The main thread and the handler of SIGINT, which interrupts it anywhere *)
(* from TcpServer::Start on.                                               *)

uninterrupted == sig # "join"

(* ThreadPool::run, one thread at a time                                   *)
run == /\ mpc = "serve" /\ uninterrupted
       /\ \E w \in Worker : /\ wpc[w] = "new"
                            /\ wpc' = [wpc EXCEPT ![w] = "idle"]
                            /\ unjoined' = unjoined \cup {w}
       /\ UNCHANGED <<async, output, mutex, flags, lpc, lines, mpc, sig, late>>

sigint == /\ mpc = "serve" \/ (mpc \in {"quit", "notify", "join"} /\ sig = "done")
          /\ uninterrupted
          /\ sig' = "join"
          /\ UNCHANGED <<async, output, mutex, flags, lpc, writers, mpc, threads>>

(* ThreadPool::join, of the workers that there are                         *)
join == /\ sig = "join" /\ \A w \in unjoined : wpc[w] = "end"
        /\ sig' = "done"
        /\ unjoined' = {}
        /\ UNCHANGED <<async, output, mutex, flags, lpc, writers, mpc, late>>

(* TcpServer::Start leaves its loop, after run, and calls Log::Quit, which *)
(* sets the flags without the mutex,                                       *)
Start == /\ mpc = "serve" /\ sig = "done" /\ wpc[Main] = "idle"
         /\ \A w \in Worker : wpc[w] # "new"
         /\ mpc' = "quit"
         /\ late' = unjoined
         /\ UNCHANGED <<async, output, mutex, flags, lpc, writers, sig, unjoined>>

setQuit == /\ mpc = "quit" /\ uninterrupted
           /\ open' = FALSE /\ quit' = TRUE
           /\ mpc' = "notify"
           /\ UNCHANGED <<async, output, mutex, lpc, writers, sig, threads>>

(* notifies,                                                               *)
tell(l) == /\ mpc = "notify" /\ uninterrupted
           /\ lpc' = l
           /\ mpc' = "join"
           /\ UNCHANGED <<async, output, mutex, flags, writers, sig, threads>>

quitSilently == tell(lpc)  \* Mistake: does not notify.
notifyQuit == tell(notified)

(* and joins the thread, if there is one.                                  *)
joinLog == /\ mpc = "join" /\ uninterrupted /\ lpc \in {"none", "end"}
           /\ mpc' = "exit"
           /\ UNCHANGED <<async, output, mutex, flags, lpc, writers, sig, threads>>

Quit == setQuit \/ notifyQuit \/ joinLog

-----------------------------------------------------------------------------
log(t) == LOG_BASE(t) \/ write(t) \/ notifyOne(t)

main == startThread \/ setOpen \/ TcpServer \/ run \/ Start \/ Quit

Next == \/ \E t \in Writer : log(t)
        \/ \E w \in Worker : end(w)
        \/ asyncWork \/ spurious
        \/ main \/ sigint \/ join

(* Every thread is scheduled, as long as the process lives, and SIGINT does*)
(* not keep the main thread from going on for ever.  A mutex that is free  *)
(* again and again might still never be had by one thread, but for the     *)
(* bound on lines.                                                         *)
running == mpc # "exit"
Fairness == /\ SF_vars(main) /\ WF_vars(join) /\ WF_vars(asyncWork)
            /\ \A t \in Writer : WF_vars(running /\ (write(t) \/ notifyOne(t)))
            /\ \A w \in Worker : WF_vars(running /\ end(w))

Spec == Init /\ [][Next]_vars /\ Fairness

-----------------------------------------------------------------------------
(* Of the lines of t, w holds all up to the n-th, once each and in order.  *)
linesOf(w, t, n) ==
  /\ \A k \in 1..n : \E i \in DOMAIN w : w[i] = <<t, k>>
  /\ \A i \in DOMAIN w : w[i][1] = t => w[i][2] =< n
  /\ \A i, j \in DOMAIN w : w[i][1] = t /\ w[j][1] = t /\ i < j => w[i][2] < w[j][2]

(* Log::write, asyncWork: the lines of each thread are in the file, or on  *)
(* the way to it, each once and in the order in which it wrote them.       *)
LinesInOrder == \A t \in Writer : linesOf(file \o queue, t, lines[t])

(* Log::hasLog: when the thread of the logger has closed the file, all     *)
(* lines are in it, including those written while it was told to quit, but *)
(* for those of workers that nobody had joined when Start called Log::Quit.*)
(* Such a worker was created by run after SIGINT, and loses what it logs.  *)
NothingIsLost ==
  lpc = "end" => /\ file[Len(file)] = <<LogThread, 1>>
                 /\ \A i \in DOMAIN queue : queue[i][1] \in late
                 /\ \A t \in Writer : wpc[t] = "locked" => t \in late

(* The handler waits for workers that wait for the main thread's mutex.    *)
interrupted == sig = "join" /\ mutex = Main

(* Log::write notifies: no line stays in the queue beside a thread that    *)
(* sleeps.  A line of a late worker may come when the thread has ended.    *)
LinesAreWritten ==
  \A t \in Writer : \A i \in 1..MaxLines[t] :
     lines[t] >= i ~> \/ \E j \in DOMAIN file : file[j] = <<t, i>>
                      \/ interrupted
                      \/ t \in late /\ lpc = "end"

(* Log::Quit returns, unless the thread of the logger has seen _quit false *)
(* and not yet fallen asleep, and finds nothing to write.                  *)
QuitReturns ==
  (mpc = "notify" /\ (queue # <<>> \/ lpc \notin {"lock"} \cup holding)) ~> mpc = "exit"
=============================================================================
