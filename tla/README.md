# Specification of BlogPoster

BlogPoster is a small static-page web server: one main thread waits on epoll,
accepts connections and puts those with an event into a task queue; four
workers take them from there and read, parse and answer; a list of timers
closes connections that have been idle for 120 s. This directory holds TLA+
models of it, the TLC configurations that check them, and proofs for TLAPS.
Paths like `TcpServer.cpp:142` are below `src/`.

## 1. Inventory

| part | state | operations | talks to |
|---|---|---|---|
| `TimerManager`, `Timer` | list from `_head` to `_tail`, `_map`, `_mutex` | `addTimer`, `updateTimer`, `rmTimer`, `closeExpire` | called by every thread; calls `TcpServer::handleExpire` |
| `TcpServer` | `_connections` (by descriptor), `_epoll_fd`, `_quit` | `Start`, `handleNewConn`, `handleRequest`, `handleWrite`, `handleClose`, `handleError`, `handleExpire`, `Quit` | main thread and workers share `_connections`; epoll; timers; task queue |
| `Connection` | `_event`, two `Buffer`s, parser, response, `_keepalive`, `_mutex` | `Read`, `Write`, `processCore`, `Clear`, `handleEvent` | used by whichever thread handles its descriptor |
| `TaskPool` | `_activeconn`, `_quit`, `_mutex`, `_cond` | `addTask`, `getTask`, `Quit` | main thread to workers |
| `ThreadPool` | `_threadpool`, `_quit` | `run`, `work`, `quit`, `join` | runs `Connection::handleEvent` |
| `HttpServer`, `main` | singleton | `Init`, `Start`, `Quit` from the SIGINT handler | interrupts the main thread |
| `Buffer` | bytes, read and write positions | `Read`, `Write`, `append`, `makeSpace` | one connection |
| `HttpParser`, `HttpResponse` | parse state, headers, URL; status, file, offset | `parseContent`, `parseUrl`, `urldecode`, `setStatus`, `setResponse`, `init` | one connection |
| `Log` | queue, mutex, condition, file | `Start`, `write`, `asyncWork`, `Quit` | every thread |
| `MysqlConnPool` | vector of handles, mutex, condition variable | `getSqlconn`, `returnSqlconn` | not built, not called |

What makes each part correct:

- timers: the list is one chain through the timers of `_map`, in order of their
  time, so that `closeExpire` may stop early; an idle connection is closed.
- server: the tables by descriptor agree with each other and with the sockets; one
  thread at a time works on a connection, and on its own socket; no descriptor is
  closed twice; no assert fails; bytes that arrive are read.
- task queue and threads: no task waits beside sleeping workers; shutdown ends.
- connection, buffer, parser: bytes arrive in order and once, and answers leave so;
  each request gets one answer, whatever the pieces; nothing is left over from one
  request in the next; the page looked up is the one the client has spelled.
- logger: each thread's lines are written once and in order, none is lost at the
  end, and it ends.
- pool of MySQL handles: a handle has one user at a time and comes back.

What is hard here. All threads share `_connections` and load its
`shared_ptr`s without a lock. Handlers are bound to a descriptor *number*, which
the kernel gives out again as soon as it is closed. What keeps two threads off
one connection is only `EPOLLONESHOT` and the discipline of re-arming it on each
path; `closeExpire`, on the main thread, is outside that discipline. The walk
of `closeExpire` holds the mutex for one pointer at a time. Shutdown runs in a
signal handler on top of the main thread. Within one connection, requests arrive
in pieces or several at once, answers leave in pieces, and buffers, parser and
`_keepalive` carry over from one request to the next. `PROJECT.json` lists these hazards one
by one with their lines and the properties aimed at them.

## 2. Modules

| module | models |
|---|---|
| `TimerLinks` | the linked list as functions on its `next` and `last` pointers, assignment by assignment |
| `TimerList` | what the timers promise, without pointers: descriptors in the order of their last activity, the expired ones a suffix |
| `TimerOrder` | pointers read as that sequence |
| `TimerManagerList`, `TcpServerList` | the refinement mappings from `TimerManager` and from the whole server to `TimerList` |
| `TimerManager` | `TimerManager.cpp` with its callers as free as its asserts let them be, and a clock |
| `TcpServer` | the main loop, the workers' handlers, the connection table, the timers, sockets and epoll |
| `TcpServerQuiet` | the same under an assumption on late clients, and the properties that need it |
| `TaskPool` | the queue with its mutex and condition variable, the workers' loop, start, SIGINT, quit and join |
| `Buffer` | `Buffer.cpp` as operators: the vector, both indices, moving, growing |
| `HttpConnection` | what one connection makes of its client's bytes: `Read`, parser, response, `Write`, re-arming |
| `HttpService`, `HttpConnectionService` | what the client of one connection is promised, without buffers, parser, events or pieces; how `HttpConnection` keeps it |
| `UrlDecode` | `parseUrl` and the loop of `urldecode` over real bytes, in place |
| `Log` | the logger's queue, thread, start and end |
| `MCTcpServerQuiet`, `MCTcpServerRaces`, `MCHttpConnection`, `MCUrlDecode`, `MCLog` | symmetry, bounds and sets of requests and URLs, for TLC |
| `TimerLinksProofs`, `TimerManagerProofs`, `TcpServerProofs`, `TcpServerQuietProofs`, `HttpConnectionProofs`, `TaskPoolProofs`, `UrlDecodeProofs`, `LogProofs` | the theorems |

`TcpServer` builds on `TimerLinks`, `HttpConnection` on `Buffer`. `TcpServer`
and `HttpConnection` are two views of the same handlers: the first has many
connections and threads and no bytes, the second the bytes of one connection
whose handlers do not overlap, which is what the first one's `ExclusiveUse`
says.

**TimerManager.** `list`, `map`, `fdof` are the pointers, `_map` and
`Timer::_fd`; `age` is the time since `_now`. `addTimer`, `updateTimer`,
`rmTimer` are one step each, being one section under `_mutex`. `closeExpire` is
four: take the last timer (`closeExpire`), the loop condition with the unlocked
`isTimeout` and `getfd` (`scanCheck`), `timer = timer->last` (`scanStep`), the
callback (`handleExpire`). `addTimer` happens only between walks, since the
thread that accepts is the one that walks. A connection has one `Timer`; the
finite pool of them in the model is refilled as the code's `shared_ptr`s are.

**TcpServer.** `pc`, `lfd`, `lconn` say where each thread is and hold its `fd`
and `conn`. Steps are cut at every access to shared state that no mutex covers
and at every system call; a section under a mutex with one such access is one
step. `handleClose` is `closeLoad` (load, null test), `closeTimer` (connection's
mutex, `rmTimer` with its assert), `closeSlot`, `Clear`, `closeFd` (`delEpoll`,
`close`, unlock). `handleRequest` is `requestLoad`, `requestTimer`, `Read`,
`processCore` and then `handleWrite`: `writeLoad`, `writeTimer`, `Write`, and
`armOut` or `finish`. The main thread: `closeExpire`, `scanCheck`, `scanStep`,
`epollWait`, then per event `dispatch` and `addTask`, or `handleNewConn` (accept
and the new `Connection`), `newSlot`, `newTimer`, `newEpoll`, or `acceptFails`.
`crash` is set where the process would end: an assert that fails (the build
does not define `NDEBUG`), a null pointer, or a *torn* load, a copy of a
`shared_ptr` made while another thread is about to store into it, which is a
data race and in practice a use after free. Nothing happens after a crash.

Bytes are abstracted to whether there are any (`rx`, `out`), the result of
parsing to a choice among "nothing yet", "request, with or without keep-alive"
and "malformed". Time is the set `due` of the timers whose `isTimeout` is true;
only the timer just ahead of those already due may become due, which is the
order proved in `TimerManager` (`Sorted`) and again here (`DueAtEnd`, a theorem; the
run sees it through `ImplementsTimerList`, whose clock needs it). The
kernel is external: a lowest free descriptor becomes *some* free descriptor,
`epollWait` reports every ready event at once (`MAX_CONN` is not reached), an
error and a hang-up show up as `Read` and `Write` meet them. An interrupted
`epoll_wait` is a wait that reports nothing: its events stay for the next one.

**TaskPool.** `getTask` is lock, test, and return or wait; the test and the wait
are two steps because `Quit` changes the flags without the mutex. SIGINT is
taken by the main thread (as the only thread that waits in the kernel for long,
and as `Outside Interrupt!` at `TcpServer.cpp:270` expects); the handler runs on
top of whatever it interrupts, which goes on only when the handler returns. It
may be called again after that, also while `run` is still creating threads.
`Start` is the end of the main loop, `destroy` the destructor of `ThreadPool`:
it quits once more, and then its vector finds no thread that could still be
joined (`end`) or the process ends by `std::terminate` (`abort`).

**HttpConnection.** `inbuffer`, `outbuffer`, `parser`, `keepalive` are the
members of `Connection`; `pc` is where the handler is and `armed` what epoll is to
report. A byte is a token of the size of a line or of a line's end (a split inside
CRLF, or inside a line, is a split between tokens here). `readSome` is one `readv`:
all there is, as far as it fits; Read ends when there is nothing, at the end of
the stream or on an error, as `readEnd`. Each line that `parseContent` finds is a
step, as is each part of the response; `abort` is an exception of `stoi` or the
assert of `parseBody`. `writeSome` takes as much as `write` may take; what follows
its end is `writeBlocks`, `writeFails`, `writeKeeps`, `writeCloses`. In this build
the answer is always the same page and no file is sent (`HttpResponse.cpp:88-97`);
code and URL that `setStatus` stores are not read. The client's requests are in
`asked`, their ends in `ends`, `sent` says how far they have arrived;
`received`, `parsed`, `told` are history. A client may ask for anything that `Request`
holds, in the runs eight kinds, in the theorems any tokens at all.

What the parser needs of a request is not what HTTP says. A body is read by lines,
and their ends are not counted: a body of two lines whose `Content-Length` counts the
line end between them, as HTTP has it, is one too short here, and so is a body that
really is too short. Then the parser stays in it and takes the lines of the *next*
request for the rest, until a line is too long and the assert of `parseBody`
(`HttpParser.cpp:90`) ends the process, or one happens to fit. `IsRequest` says which
requests are *exact*: a line that lacks a field; or a request line, one header to a
line, a blank line, and a body whose lines, without their ends, have just the length
that the last header for it gives, and which ends with a line (or is empty). `odd` is
the history of which requests are not; the connection is `astray` once the parser has
begun with one of these. Where requests begin is then undefined, and `Framed`,
`OneAnswerEach` and `AbortsOnlyOnInexact` speak of what comes before. They do not say
that an inexact request does no harm: it may end the process, at once or by way of the
next, correct one.

`HttpService` sees of this a list of requests (a page, malformed, a part of one, or odd),
each with its wish to keep the connection. Answers follow in that order, one at a
time, each when the ones before are out and its request has arrived; the next only if
a request so far has asked for it. An odd request may lose the server its place
(`mode` = "lost"); then answers are still whole and one at a time. `HttpConnectionService` reads its state off the
connection's: an answer has begun with its first part.

**UrlDecode.** `src` and `dst` are the two pointers of `urldecode`, `url` the
array they share, up to its NUL. A turn of the loop is a step; the three branches
are `percent`, `plus` and `copy`. The client's side is a record: the characters
meant, the string sent, and where in it each character's spelling begins
(`spelled`); it is what the result is compared with. An escape may spell NUL.

**Log.** `write` is the step of taking the mutex and pushing the line (or writing
it, in the synchronous mode), `notifyOne` notifies and releases the mutex. The
logger's thread tests `_quit` (`loop`) without the mutex, asks `hasLog` under it,
then takes it to write or to wait. `Quit` sets the flags, notifies and joins; it is
called at the end of `TcpServer::Start`, or by `~Log` if the server did not come
up (a second call changes nothing). `run` creates the workers one at a time; SIGINT
may come before, between or after, and once more, and `join` waits for those that
there are (`unjoined`). A worker created later still logs its farewell while the
logger ends, maybe into the queue of a thread that has gone: `late` records who these
workers are, and `NothingIsLost` and `LinesAreWritten` except their lines and no other. In this build `Log::Start` is commented out
(`HttpServer.cpp:50`), so that no line is ever written; the model is about the
logger when it is started there.

Definitions whose comment begins with *Mistake* are not part of any model. Each
is a plausible wrong version of the definition below it; `PROJECT.json`
("mutants") pairs each property with one that it must refute.

## 3. Runs

| run | specification and bounds | shows |
|---|---|---|
| `timer_list` | 3 descriptors, 3 timers, `Timeout` 1 | any interleaving of workers with the walk keeps the list linked (`ListInv`) and ordered (`Sorted`), the walk meets no null pointer (`WalkInv`), the whole implements `TimerList`, and an expired timer is closed or refreshed (`ExpiredIsClosed`) |
| `quiet_server` | `QuietSpec`, 2 descriptors, 2 connections, 2 workers, symmetry | one holder per descriptor (`OneHolder`), buffers and flags used by one thread at a time (`ExclusiveUse`), I/O on one's own socket (`OwnSocket`), no failed assert, null pointer or torn load (`NoCrash`), the server as a whole implements `TimerList` |
| `live_server` | `QuietSpec`, 1 descriptor, 2 connections, 2 workers | bytes that arrive while the server waits for them are read; expired connections are closed |
| `racing_server` | `RacesSpec`, 1 descriptor, 2 connections, 2 workers, 2 late clients | even so, sockets, slots and timers agree (`TablesAgree`), no descriptor is closed twice (`NoDoubleClose`), `addTimer` never finds an old timer (`AcceptedIsNew`) |
| `task_pool` | 3 workers, 3 tasks | no lost notification (`WorkIsShared`, `TasksAreTaken`); after `Quit` no thread works or will (`QuitStopsWork`); `join` returns except in the two cases that `JoinReturns` names |
| `http_connection` | 2 requests out of 8 kinds, initial vector 2, second segment 3, send buffer 2 tokens | bytes in (`InputIntact`) and out (`OutputIntact`) are neither lost nor repeated; as long as requests are exact, the parser starts each afresh (`Framed`) and each is answered once (`OneAnswerEach`), and none ends the process (`AbortsOnlyOnInexact`); epoll is armed for what is needed (`ArmedAsNeeded`); answers begun are sent (`AnswersAreSent`); an exact request, with a body or without, whose last part arrives while it is waited for is answered (`WholeRequestIsAnswered`; not the incomplete line with a known method, which the code answers never); the whole implements `HttpService` (`ImplementsService`) |
| `url_decode` | URLs of up to 4 characters, each in any of 11 spellings | reading and writing one array does no harm (`InPlace`); the result is what the client meant (`Decodes`) |
| `log` | 2 workers and the main thread, 2 lines of one worker, 1 of the others, both modes, SIGINT anywhere and again | lines in order (`LinesInOrder`), none lost at the end but for late workers' (`NothingIsLost`), each is written (`LinesAreWritten`); `Quit` returns but for the window that `QuitReturns` names |

Four runs each show one place where the code does not do what a comment or
`ReadMe.md` says; `PROJECT.json` ("findings") quotes the lines.

| run | refuted | what happens |
|---|---|---|
| `crash` | `NoCrash` | a worker loads `_connections[fd]` while the main thread, closing the connection because its time has run out, is about to store null there: a torn load |
| `one_worker` | `OneWorkerPerSocket` | a worker is past `updateTimer` and about to read when the connection is closed in the same way; the descriptor goes to a new client, and two workers read its socket |
| `pool_quit` | `QuitReturns` | a worker falls asleep after `notify_all`, or the interrupted main thread holds the mutex |
| `http_second` | `EveryRequestIsAnswered` | a request that arrives in two pieces: the handler of the first gives up without re-arming, and nobody reads the rest. (The specification has a second way: of two requests that arrive together only the first is answered.) |

*Quiet and racing.* `Spec` lets a timer run out at any time, also while an event
for the connection is in epoll, in the queue or in a worker's hands. Then
`NoCrash`, `OneHolder`, `ExclusiveUse` and `OwnSocket` fail (runs `crash` and
`one_worker`). `QuietSpec` restricts the *environment* alone: no client step may
lead to an event for a connection whose time has run out, and no timer runs out
while its connection is being worked on. That is what 120 s against a loop of at
most 12 s suggests, not what the code ensures. `QuietExpiry`, checked and proved,
says that the server's own steps never leave the assumption. Every
late client may leave one more stale task in the queue, so `Spec` has infinitely
many states; `RacesSpec` is `Spec` with at most `MaxUntimely` of them (two in
`racing_server`, one in the violation runs) and `MaxConnects` = 2 clients in all, which is one reuse of
the descriptor. The properties of that run are proved without these bounds (section 4).

*Bounds.* Two connections on one descriptor are what reuse of a descriptor
needs; two descriptors let the timer list have two members and the batch two
events; two workers are what a race between workers needs, with the main thread
as the third. `Timeout` = 1 already separates fresh, ageing and expired timers.
Three tasks and three workers cover sleepers, seekers and busy workers at once.
In `HttpConnection` the sizes are such that vectors are moved, grown and
overflown into the second segment, that an answer of three parts does not fit the
send buffer, and that a second request comes before, during and after the answer
to the first, and that a request may live on the keep-alive of the one before it. The
eight requests are one with keep-alive, the same with a body, one without that has a
body of two lines, a malformed first line, an incomplete one with a known method; and
three that are not exact: a length that is no number, a body without a line's end
behind it, and a length with no body. Behind the last, the lines of one request fill
up its body by chance, and those of another are too long for it and end the process.
Tokens arrive one at a time; as a handler need not look between two of them, pieces
have any size. In `UrlDecode` four
characters are what it takes to have an escape before, after and inside what looks
like one, and the proofs need no bound. In `Log` two lines of one
writer are what order needs; of two workers one may be joined and the other late, and
three writers queue lines while the thread is anywhere in its loop.
Every action of every module fires in one of the runs. The failing branch of
the assert in `newTimer` does not: that is `AcceptedIsNew`. Deadlock is checked
in `timer_list`, `quiet_server` and `live_server`; a server that has crashed
(`racing_server`), a pool that has quit (`task_pool`), a connection that is closed
(`http_connection`), a URL that is decoded (`url_decode`) or a logger that has
ended (`log`) does stop.

*Fairness.* Each thread is scheduled: weak fairness of each worker's steps and
of the main thread's, which never block for ever, since a mutex is never held
over a blocking call and `epoll_wait` has a timeout of `TIMEOUT`/10. Nothing is
assumed of clients, of signals, or of which ready thread is first, except that in
`HttpConnection` a client reads what it is sent (or else is gone, or runs out of
time): no server could send it an answer otherwise. In `Log` a thread that waits
for the mutex gets it in the end, because the lines are bounded. `TimerManager`
assumes only that the main loop calls `closeExpire` again and again.

## 4. Theorems

All are for any finite or infinite number of descriptors, connections, timers
and workers and any `Timeout`, from the assumptions that the sentinels, `None`,
the listening socket and the threads are different values.

`TimerLinksProofs` proves of the pointer operations what `WellLinked` says: both
directions agree, and no set of timers is closed under `last`, so that the walk
ends. It is stated with sets rather than by following pointers, because a proof
about following pointers would need induction.

Its second half reads the list as a sequence, for the refinements. `IsChain(L, S, s)`
says that `L` leads through the timers `s` in their order. That there is such a sequence is
carried from operation to operation: each lemma names the new one. That there is
but one, so that `TimerOrder`'s walk finds it, follows from the least place at
which two would differ. `OrderAdd`, `OrderTaken` and `OrderSuffix` say what the
operations, and the passing of time, do to the order of the descriptors.

`TimerManagerProofs`: `IInv` = `TypeOK`, `ListInv`, `WalkInv`, `Sorted`.
They need each other: `WalkInv` holds because nodes keep pointing, even when
unlinked, only at nodes that were once accepted; `Sorted` needs the links to be
inverse to know who is the neighbour of whom after a removal. From it
`TypeCorrect`, `ListCorrect`, `WalkCorrect`, `OrderCorrect`. With `Chained`, that a
sequence exists, it also gives `Implementation`: initial states map to the initial
state of `TimerList`, and every step to one of its steps or to a stutter. The
clock needs `Sorted`, which makes those who have run out a suffix.

`TcpServerProofs` is about `Spec`, with late clients without bound, in four
layers, each using the ones before it.
1. `TypeInv`: types, which thread has which local where (`LocalsOK`), and that
   whatever slots, timers, queue and walk refer to has once been accepted
   (`FdKnown`). Gives `TypeCorrect`.
2. `TableInv`: `TablesAgree` with the reason for it: the thread that has found
   and removed the timer of a descriptor is the only one past `closeTimer` for
   it, the socket stays open until it closes it, and nobody closes a descriptor
   that is being accepted. Gives `TablesCorrect`, `AcceptCorrect`, `CloseCorrect`.
3. `ChainInv`: the list is well linked through the timers of `_map`, the due
   ones at its end. The list cannot hold a timer twice because, by layer 2, no
   connection is the socket of two descriptors. Gives `ListCorrect`, `OrderCorrect`.
4. `Chained`, as for `TimerManager`: in every interleaving the server implements
   `TimerList` (`Implementation`). Run `quiet_server` checks it under `QuietSpec`
   only, since `Spec` has infinitely many states.

`TcpServerQuietProofs` is about `QuietSpec`, on top of `TypeInv` and `TableInv`.
That one thread at a time holds a descriptor (`OnceInv`, which is `OneHolder`) is
not inductive: a holder is epoll, the queue, the batch or a thread, and it is handed
on by a step that is guarded by nothing but the discipline itself. `QuietInv` adds
the reasons: what is held is open and armed at most once (`OpenInv`); a connection
that is due has no holder, which is `QuietExpiry` (`DueInv`); a thread that has
loaded a connection has that of its descriptor (`OwnSocket`), and so will the one
that takes a task (`TasksInv`); the walk closes only what is due, and outside it what
is due is on the list (`ExpiryInv`). `NoCrash` is a conjunct, since after a crash
nothing else need hold. Gives `NothingFails`, `OneHolderAtATime`, `SocketsAreOwn`,
`UseIsExclusive`, `OneWorkerAtATime`, `AssumptionIsKept`.

`HttpConnectionProofs` begins with the operators of `Buffer`: for every vector and every
piece, `append` and `Read` put the new bytes behind the content, and consuming
takes them off its front (`AppendAppends`, `ReadAppends`, `ConsumeDrops`). The
lemma they rest on is `RoomIsMade`: after `makeSpace` the content is the same and
the assert of `append` holds.

The next part lifts this to the connection: `TypeOK`, `InputIntact` and
`OutputIntact` together are inductive (`NextKeeps`), for any set of requests, any
`InitLen`, `Chunk` and `SendSpace`. Gives `TypeCorrect`, `InputCorrect`,
`OutputCorrect`. Assumed is that what the tokens stand for are bytes.

`ArmingCorrect` rests on a second invariant, `Arming`, which says why epoll is
armed for what is needed: all that there is to send has gone before anything is
read; an answer keeps the connection only if a header has asked for it; and a handler
that gives up in the middle of a request has read part of it.

The last part is about whole requests. Its invariant is `Grammar`, which adds to the
two above
- `Layout`: what the client has asked is one request after another, each exact but for
  those in `odd`;
- `Framing`: unless the connection is astray, for some k the parser is behind the first
  k requests, or inside the next with exactly what the lines read so far say (`At`), and
  the parts told are those of k answers, with the one begun (`Answered`);
- `Formed`: astray or not, what was told is whole answers and the one begun;
- `AbortsOnlyOnInexact` itself.

They need each other: where a request begins is known only if the one before was
exact and read to its end, and that it begins with a fresh parser only because `Arming`
says that nothing is read before the last answer is out. A line that the server refuses
is one that no exact request with an answer could begin with (`Refused`). Gives
`FramingCorrect`, `AnsweringCorrect`, `AbortCorrect`, and `ServiceImplemented`: from
every state with `Grammar` a step maps to a step of `HttpService` or to a stutter; the
step with which the parser begins an odd request is the service's `Lose`
(`ParseServes`). Nothing is assumed of what a client asks, nor of the pieces in which it
arrives; of the headers for the length only that their numbers are natural
(`ConnectionSizes`): the code compares a negative one as a very large one.

`TaskPoolProofs`: `Inv` = `TypeOK`, `Sharing`, `Stopping`, for any finite number
of workers, any set of tasks and SIGINT at any time. `Sharing` says that a worker about
to sleep has seen an empty queue and that `addTask` between its push and its
notification owes one seeker; it is `WorkIsShared` with the instant excluded
there. `Stopping` says that every thread that has not ended can still be joined.
Gives `TypeCorrect`, `SharingCorrect`, `QuitCorrect`.

`UrlDecodeProofs`: before each turn the pointer that writes is at the character
meant next and the one that reads at the start of its spelling (`Decoding`); hence
`DecodingInPlace` and `DecodingIsRight`, for URLs of any length.

`LogProofs`: `Inv` = `TypeOK`, `LinesInOrder`, `Ending`, for any number of workers and
lines. `Ending` says why no more is lost: `Quit` runs when all workers but the late ones have
ended and the main thread is between two lines, and the thread looks into the
queue for the last time only after it has been told to quit. What is in the queue after
that is of late workers. No assumption keeps SIGINT away from `run`. Gives `TypeCorrect`,
`OrderCorrect`, `NothingLost`.

Only model-checked: liveness (`ExpiredIsClosed`, `BytesAreRead`, `TasksAreTaken`,
`JoinReturns`, `AnswersAreSent`, `WholeRequestIsAnswered`, `LinesAreWritten`,
`QuitReturns`), which is out of the prover's reach. Every other property of a run
that passes is a theorem.

## 5. Not modelled

Files (`getResourse`, `sendfile`: not reached in this build), the text of headers,
answers and log lines, set-up and command-line code, the MySQL pool (it is not
built and its one caller is commented out), a SIGINT that comes while the handler
runs (the kernel gives it to a worker, which then joins itself), and what undefined behaviour does
after it has happened: a torn load ends the model; races on the buffers and flags
of a connection are what `ExclusiveUse` forbids, and beyond it `TcpServer` reads
them as if each access were atomic. `isTimeout` reads `_now` without the mutex
while `updateTimer` may write it; the model takes the old or the new value, not a
mixture of seconds of one and microseconds of the other, which is off by less
than a second of 120. The clock is monotonic in the models;
`gettimeofday` is not. Running out of memory and descriptor numbers beyond
`MAX_CONN` are left out.

## 6. Plan

Done: 1. timer list with proofs, down to the abstract list it implements; 2. server with its
races, proofs of the layers above, with and without late clients; 3. task pool,
shutdown and destructor, with proofs; 4. buffer and connection, with proofs, up to the
abstract service it implements; 5. logger, with proofs; 6. URL decoding, with proofs.

Next, in this order:
1. Proofs: an abstract hand-over of a connection (epoll, batch, queue, worker, and
   back), which `TcpServer` implements under `QuietSpec`.
2. Files in the response, for a build that opens them; `MysqlConnPool`, for one
   that uses it.
