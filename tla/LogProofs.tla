----------------------------- MODULE LogProofs ------------------------------
(***************************************************************************)
(* For any number of workers and lines, in either mode: each thread's      *)
(* lines reach the file in order, and all of them before it is closed.     *)
(***************************************************************************)
EXTENDS Log, SequenceTheorems, TLAPS

(* Why no more is lost.  Quit is called only when no other worker writes   *)
(* any more than the late ones: the handler of SIGINT has joined those     *)
(* there were, and the main thread, then in its own Start, is between two  *)
(* lines.  And the thread of the logger does not look for the last time    *)
(* before it has been told to quit.                                        *)
past == mpc \in {"quit", "notify", "join", "exit"}
away(w) == wpc[w] \in {"new", "end"}

Ending ==
  /\ mpc = "new" => lpc = "none"
  /\ mpc # "serve" => wpc[Main] = "idle"
  /\ mpc \in {"new", "open", "init"} => \A w \in Worker : wpc[w] = "new"
  /\ \A w \in Worker : w \notin unjoined => away(w)
  /\ past => \A w \in Worker : w \notin late => away(w)
  /\ quit => mpc \in {"notify", "join", "exit"}
  /\ ~async => queue = <<>>
  /\ lpc \in {"hasLog", "close", "end"} => quit
  /\ lpc \in {"close", "end"} => \A i \in DOMAIN queue : queue[i][1] \in late
  /\ lpc = "end" => file # <<>> /\ file[Len(file)] = <<LogThread, 1>>

Inv == TypeOK /\ LinesInOrder /\ Ending

LEMMA InitInv == Init => Inv
<1> SUFFICES ASSUME Init PROVE Inv
  OBVIOUS
<1>1. TypeOK
  <2>1. /\ mutex = None /\ lpc = "none" /\ \A t \in Writer : wpc[t] # "locked"
        /\ None # LogThread /\ \A t \in Writer : None # t
    BY LogNames DEF Init, Writer
  <2>2. wpc \in [Writer -> {"new", "idle", "write", "locked", "end"}] /\ lines \in [Writer -> Nat]
    BY DEF Init
  <2>3. queue \in Seq(Writer \X Nat) /\ file \in Seq((Writer \cup {LogThread}) \X Nat)
    BY DEF Init
  <2> QED BY <2>1, <2>2, <2>3 DEF Init, TypeOK, holding
<1>2. LinesInOrder
  <2>1. file \o queue = <<>> /\ \A t \in Writer : lines[t] = 0
    BY DEF Init
  <2> QED BY <2>1 DEF LinesInOrder, linesOf
<1>3. Ending
  BY LogNames DEF Init, Ending, past, away, Writer
<1> QED BY <1>1, <1>2, <1>3 DEF Inv

(* The lines, written and queued, as one sequence.                         *)
Line == (Writer \cup {LogThread}) \X Nat
all == file \o queue

LEMMA LinesTyped ==
  ASSUME TypeOK
  PROVE  file \in Seq(Line) /\ queue \in Seq(Line) /\ all \in Seq(Line)
<1>1. Writer \X Nat \subseteq Line
  BY DEF Line
<1>2. queue \in Seq(Writer \X Nat) /\ file \in Seq(Line)
  BY DEF TypeOK, Line
<1>3. queue \in Seq(Line)
  BY <1>1, <1>2
<1> QED BY <1>2, <1>3 DEF all

(* A line of t, the next in its order, or one of the logger's own comes    *)
(* last.                                                                   *)
LEMMA LineIsAdded ==
  ASSUME NEW w \in Seq(Line), NEW t \in Writer, NEW n \in Nat, linesOf(w, t, n),
         NEW l \in Line, NEW m \in Nat,
         \/ l[1] # t /\ m = n
         \/ l = <<t, n + 1>> /\ m = n + 1
  PROVE  linesOf(Append(w, l), t, m)
<1> DEFINE z == Append(w, l)
<1>1. /\ z \in Seq(Line) /\ Len(z) = Len(w) + 1 /\ z[Len(w) + 1] = l /\ Len(w) \in Nat
      /\ \A i \in 1..Len(w) : z[i] = w[i]
  BY AppendProperties
<1>2. DOMAIN z = 1..Len(w) + 1 /\ DOMAIN w = 1..Len(w)
  BY <1>1
<1>3. \A i \in DOMAIN w : w[i][2] \in Nat
  BY DEF Line
<1> HIDE DEF z
<1>4. ASSUME NEW k \in 1..m PROVE \E i \in DOMAIN z : z[i] = <<t, k>>
  <2>1. CASE k \in 1..n
    <3>1. PICK i \in DOMAIN w : w[i] = <<t, k>>
      BY <2>1 DEF linesOf
    <3> QED BY <3>1, <1>1, <1>2
  <2>2. CASE k \notin 1..n
    <3>1. l = <<t, k>>
      BY <2>2
    <3> QED BY <3>1, <1>1, <1>2
  <2> QED BY <2>1, <2>2
<1>5. ASSUME NEW i \in DOMAIN z, z[i][1] = t PROVE z[i][2] =< m
  <2>1. CASE i \in DOMAIN w
    BY <1>1, <1>2, <1>3, <1>5, <2>1 DEF linesOf
  <2>2. CASE i = Len(w) + 1
    BY <1>1, <1>5, <2>2
  <2> QED BY <1>1, <1>2, <2>1, <2>2
<1>6. ASSUME NEW i \in DOMAIN z, NEW j \in DOMAIN z, z[i][1] = t, z[j][1] = t, i < j
      PROVE  z[i][2] < z[j][2]
  <2>1. i \in DOMAIN w /\ z[i] = w[i]
    BY <1>1, <1>2, <1>6
  <2>2. CASE j \in DOMAIN w
    BY <1>1, <1>2, <1>6, <2>1, <2>2 DEF linesOf
  <2>3. CASE j = Len(w) + 1
    <3>1. z[j] = <<t, n + 1>>
      BY <1>1, <1>6, <2>3
    <3>2. w[i][2] =< n
      BY <1>6, <2>1 DEF linesOf
    <3> QED BY <1>3, <2>1, <3>1, <3>2
  <2> QED BY <1>1, <1>2, <2>2, <2>3
<1> QED BY <1>4, <1>5, <1>6 DEF linesOf, z

(* Steps that leave the lines alone, or move one from queue to file.       *)
LEMMA LinesUnchanged ==
  ASSUME LinesInOrder, all' = all, UNCHANGED lines
  PROVE  LinesInOrder'
  BY DEF LinesInOrder, all

LEMMA WriteOrders == ASSUME Inv, NEW t \in Writer, write(t) PROVE LinesInOrder'
<1> DEFINE l == <<t, lines[t] + 1>>
<1>1. /\ file \in Seq(Line) /\ queue \in Seq(Line) /\ all \in Seq(Line)
      /\ lines[t] \in Nat /\ l \in Line
  BY LinesTyped, LogNames DEF Inv, TypeOK, Line
<1>2. lines' = [lines EXCEPT ![t] = lines[t] + 1] /\ DOMAIN lines = Writer
  BY DEF write, Inv, TypeOK
<1>3. all' = Append(all, l)
  <2>1. CASE async
    <3>1. file' = file /\ queue' = Append(queue, l)
      BY <2>1 DEF write
    <3> HIDE DEF l
    <3>2. /\ Append(queue, l) = queue \o <<l>> /\ Append(all, l) = all \o <<l>>
          /\ <<l>> \in Seq(Line)
      BY <1>1, AppendIsConcat
    <3>3. (file \o queue) \o <<l>> = file \o (queue \o <<l>>)
      BY <1>1, <3>2, ConcatAssociative, SMTT(30)
    <3> QED BY <3>1, <3>2, <3>3 DEF all
  <2>2. CASE ~async
    <3>1. file' = Append(file, l) /\ queue' = <<>> /\ queue = <<>>
      BY <2>2 DEF write, Inv, Ending
    <3> HIDE DEF l
    <3>2. Append(file, l) \in Seq(Line)
      BY <1>1
    <3>3. file \o <<>> = file /\ Append(file, l) \o <<>> = Append(file, l)
      BY <1>1, <3>2, ConcatEmptySeq
    <3> QED BY <3>1, <3>3 DEF all
  <2> QED BY <2>1, <2>2
<1>4. ASSUME NEW u \in Writer PROVE linesOf(all', u, lines'[u])
  <2>1. linesOf(all, u, lines[u]) /\ lines[u] \in Nat /\ lines'[u] \in Nat
    BY <1>2, LogNames DEF Inv, LinesInOrder, all, TypeOK
  <2>2. IF u = t THEN l = <<u, lines[u] + 1>> /\ lines'[u] = lines[u] + 1
                 ELSE l[1] # u /\ lines'[u] = lines[u]
    BY <1>2
  <2> HIDE DEF l
  <2>3. linesOf(Append(all, l), u, lines'[u])
    BY <1>1, <2>1, <2>2, LineIsAdded
  <2> QED BY <1>3, <2>3
<1> QED BY <1>4 DEF LinesInOrder, all

LEMMA PopOrders == ASSUME Inv, pop PROVE LinesInOrder'
<1>1. /\ file \in Seq(Line) /\ queue \in Seq(Line) /\ queue # <<>>
      /\ file' = Append(file, Head(queue)) /\ queue' = Tail(queue)
  BY LinesTyped DEF pop, popTo, Inv
<1>2. /\ Head(queue) \in Line /\ Tail(queue) \in Seq(Line) /\ <<Head(queue)>> \in Seq(Line)
      /\ Append(file, Head(queue)) = file \o <<Head(queue)>>
  BY <1>1, HeadTailProperties, AppendIsConcat
<1>3. <<Head(queue)>> \o Tail(queue) = queue
  BY <1>1
<1>4. (file \o <<Head(queue)>>) \o Tail(queue) = file \o (<<Head(queue)>> \o Tail(queue))
  BY <1>1, <1>2, ConcatAssociative
<1>5. all' = all
  BY <1>1, <1>2, <1>3, <1>4 DEF all
<1> QED BY <1>5, LinesUnchanged DEF Inv, pop, popTo, writers

(* A line of the logger's own comes between.                               *)
LEMMA LineIsInserted ==
  ASSUME NEW f \in Seq(Line), NEW q \in Seq(Line), NEW l \in Line,
         NEW t \in Writer, NEW n \in Nat, linesOf(f \o q, t, n), l[1] # t
  PROVE  linesOf(Append(f, l) \o q, t, n)
<1> DEFINE w == f \o q
           g == Append(f, l)
           z == g \o q
           at(i) == IF i =< Len(f) THEN i ELSE i - 1
<1>1. /\ g \in Seq(Line) /\ Len(g) = Len(f) + 1 /\ g[Len(f) + 1] = l /\ Len(f) \in Nat
      /\ \A i \in 1..Len(f) : g[i] = f[i]
  BY AppendProperties
<1> HIDE DEF g
<1>2. /\ w \in Seq(Line) /\ Len(w) = Len(f) + Len(q) /\ Len(q) \in Nat
      /\ \A i \in 1..Len(w) : w[i] = IF i =< Len(f) THEN f[i] ELSE q[i - Len(f)]
  BY <1>1, ConcatProperties
<1>3. /\ z \in Seq(Line) /\ Len(z) = Len(g) + Len(q)
      /\ \A i \in 1..Len(z) : z[i] = IF i =< Len(g) THEN g[i] ELSE q[i - Len(g)]
  <2>1. g \in Seq(Line)
    BY <1>1
  <2> QED BY <2>1, ConcatProperties
<1>4. linesOf(w, t, n)
  OBVIOUS
<1> HIDE DEF w, z
<1>5. DOMAIN w = 1..Len(w) /\ DOMAIN z = 1..Len(w) + 1 /\ Len(w) \in Nat
  BY <1>1, <1>2, <1>3
<1>6. ASSUME NEW i \in DOMAIN z, i # Len(f) + 1 PROVE at(i) \in DOMAIN w /\ z[i] = w[at(i)]
  <2>1. CASE i =< Len(f)
    BY <1>1, <1>2, <1>3, <1>5, <2>1
  <2>2. CASE i > Len(f) + 1
    <3>1. at(i) = i - 1 /\ i - 1 \in DOMAIN w /\ ~(i - 1 =< Len(f)) /\ ~(i =< Len(g))
      BY <1>1, <1>2, <1>5, <2>2
    <3>2. i - Len(g) = i - 1 - Len(f) /\ i \in 1..Len(z) /\ i - 1 \in 1..Len(w)
      BY <1>1, <1>3, <1>5, <3>1
    <3>3. z[i] = q[i - Len(g)] /\ w[i - 1] = q[i - 1 - Len(f)]
      BY <1>2, <1>3, <3>1, <3>2
    <3> QED BY <3>1, <3>2, <3>3
  <2> QED BY <1>1, <1>5, <1>6, <2>1, <2>2
<1>7. z[Len(f) + 1] = l
  BY <1>1, <1>2, <1>3
<1>8. ASSUME NEW i \in DOMAIN z, z[i][1] = t PROVE i # Len(f) + 1
  BY <1>7, <1>8
<1>9. ASSUME NEW i \in DOMAIN w PROVE \E j \in DOMAIN z : z[j] = w[i]
  <2>1. CASE i =< Len(f)
    BY <1>1, <1>2, <1>3, <1>5, <2>1
  <2>2. CASE i > Len(f)
    <3>1. i + 1 \in DOMAIN z /\ i + 1 # Len(f) + 1 /\ at(i + 1) = i
      BY <1>1, <1>5, <2>2
    <3> QED BY <1>6, <3>1
  <2> QED BY <1>1, <1>5, <2>1, <2>2
<1>10. \A k \in 1..n : \E i \in DOMAIN z : z[i] = <<t, k>>
  BY <1>4, <1>9 DEF linesOf
<1>11. \A i \in DOMAIN z : z[i][1] = t => z[i][2] =< n
  BY <1>4, <1>6, <1>8 DEF linesOf
<1>12. ASSUME NEW i \in DOMAIN z, NEW j \in DOMAIN z, z[i][1] = t, z[j][1] = t, i < j
       PROVE  z[i][2] < z[j][2]
  <2>1. i # Len(f) + 1 /\ j # Len(f) + 1
    BY <1>8, <1>12
  <2>2. at(i) < at(j)
    BY <1>1, <1>5, <1>12, <2>1
  <2>3. at(i) \in DOMAIN w /\ at(j) \in DOMAIN w /\ z[i] = w[at(i)] /\ z[j] = w[at(j)]
    BY <1>6, <2>1
  <2> HIDE DEF at
  <2> QED BY <1>4, <1>12, <2>2, <2>3 DEF linesOf
<1>13. linesOf(z, t, n)
  BY <1>10, <1>11, <1>12 DEF linesOf
<1> QED BY <1>13 DEF z, g

LEMMA CloseOrders == ASSUME Inv, close PROVE LinesInOrder'
<1> DEFINE l == <<LogThread, 1>>
<1>1. /\ file \in Seq(Line) /\ queue \in Seq(Line) /\ l \in Line
      /\ file' = Append(file, l) /\ queue' = queue /\ lines' = lines
  BY LinesTyped DEF close, Inv, Line, writers
<1>2. ASSUME NEW u \in Writer PROVE linesOf(Append(file, l) \o queue, u, lines[u])
  <2>1. linesOf(file \o queue, u, lines[u]) /\ lines[u] \in Nat
    BY DEF Inv, LinesInOrder, TypeOK
  <2>2. l[1] # u
    BY LogNames DEF Writer
  <2> HIDE DEF l
  <2> QED BY <1>1, <2>1, <2>2, LineIsInserted
<1> QED BY <1>1, <1>2 DEF LinesInOrder

-----------------------------------------------------------------------------
(* What each action does to the types and to the reasons.                  *)
Kept == TypeOK' /\ Ending'

LEMMA Names == /\ LogThread \notin Writer /\ None \notin Writer /\ None # LogThread
               /\ Worker \subseteq Writer /\ Main \in Writer /\ Main \notin Worker
  BY LogNames DEF Writer

LEMMA BaseKeeps == ASSUME Inv, NEW t \in Writer, LOG_BASE(t) PROVE Kept
<1>1. TypeOK'
  BY Names DEF LOG_BASE, Inv, TypeOK, output, flags, threads
<1>2. Ending'
  BY Names DEF LOG_BASE, runs, Inv, TypeOK, Ending, past, away, output, flags, threads
<1> QED BY <1>1, <1>2 DEF Kept

(* When Log::Quit has been called, only late workers are still to write.   *)
LEMMA LateWrites ==
  ASSUME Inv, past, NEW t \in Writer, runs(t), wpc[t] \in {"idle", "write", "locked"}
  PROVE  t \in late
  BY DEF Inv, Ending, past, away, runs, Writer

LEMMA WriteKeeps == ASSUME Inv, NEW t \in Writer, write(t) PROVE Kept
<1> DEFINE l == <<t, lines[t] + 1>>
<1>1. lines[t] + 1 \in Nat /\ lines' = [lines EXCEPT ![t] = lines[t] + 1]
  BY Names, SMTT(30) DEF write, Inv, TypeOK
<1>2. /\ l \in Writer \X Nat /\ l \in (Writer \cup {LogThread}) \X Nat /\ l[1] = t
      /\ queue' = (IF async THEN Append(queue, l) ELSE queue)
      /\ file' = (IF async THEN file ELSE Append(file, l))
  BY <1>1 DEF write
<1> HIDE DEF l
<1>3. queue' \in Seq(Writer \X Nat) /\ file' \in Seq((Writer \cup {LogThread}) \X Nat)
  <2>1. Append(queue, l) \in Seq(Writer \X Nat) /\ queue \in Seq(Writer \X Nat)
    BY <1>2, AppendProperties DEF Inv, TypeOK
  <2>2. /\ Append(file, l) \in Seq((Writer \cup {LogThread}) \X Nat)
        /\ file \in Seq((Writer \cup {LogThread}) \X Nat)
    BY <1>2, AppendProperties DEF Inv, TypeOK
  <2> QED BY <1>2, <2>1, <2>2
<1>4. TypeOK'
  BY <1>1, <1>3, Names DEF write, Inv, TypeOK, flags, holding, threads
<1>5. /\ runs(t) /\ wpc[t] = "write" /\ wpc' = [wpc EXCEPT ![t] = "locked"]
      /\ UNCHANGED <<async, quit, lpc, mpc, sig, unjoined, late>>
  BY DEF write, flags, threads
<1>6. \A w \in Worker : away(w) => away(w)'
  BY <1>5, Names DEF Inv, TypeOK, away
<1>7. mpc # "serve" => wpc'[Main] = "idle"
  BY <1>5, Names DEF Inv, TypeOK, Ending, runs
<1>8. lpc \in {"close", "end"} => async /\ \A i \in DOMAIN queue' : queue'[i][1] \in late
  <2> SUFFICES ASSUME lpc \in {"close", "end"}
               PROVE  async /\ \A i \in DOMAIN queue' : queue'[i][1] \in late
    OBVIOUS
  <2>1. async /\ past /\ \A i \in DOMAIN queue : queue[i][1] \in late
    BY DEF Inv, TypeOK, Ending, past
  <2>2. t \in late
    BY <1>5, <2>1, LateWrites
  <2>3. queue \in Seq(Writer \X Nat) /\ queue' = Append(queue, l)
    BY <1>2, <2>1 DEF Inv, TypeOK
  <2>4. /\ DOMAIN queue' = 1..Len(queue) + 1 /\ DOMAIN queue = 1..Len(queue)
        /\ queue'[Len(queue) + 1] = l /\ Len(queue) \in Nat
        /\ \A i \in 1..Len(queue) : queue'[i] = queue[i]
    BY <1>2, <2>3, AppendProperties
  <2>5. ASSUME NEW i \in DOMAIN queue' PROVE queue'[i][1] \in late
    <3>1. CASE i \in 1..Len(queue)
      BY <2>1, <2>4, <3>1
    <3>2. CASE i = Len(queue) + 1
      BY <1>2, <2>2, <2>4, <3>2
    <3> QED BY <2>4, <3>1, <3>2
  <2> QED BY <2>1, <2>5
<1>9. Ending'
  <2>1. /\ mpc' = "new" => lpc' = "none"
        /\ mpc' \in {"new", "open", "init"} => \A w \in Worker : wpc'[w] = "new"
        /\ quit' => mpc' \in {"notify", "join", "exit"}
        /\ lpc' \in {"hasLog", "close", "end"} => quit'
    BY <1>5, Names DEF Inv, TypeOK, Ending, runs
  <2>2. /\ \A w \in Worker : w \notin unjoined' => away(w)'
        /\ past' => \A w \in Worker : w \notin late' => away(w)'
    BY <1>5, <1>6 DEF Inv, Ending, past
  <2>3. /\ ~async' => queue' = <<>>
        /\ lpc' = "end" => file' # <<>> /\ file'[Len(file')] = <<LogThread, 1>>
    BY <1>2, <1>5, <1>8 DEF Inv, Ending
  <2> QED BY <1>5, <1>7, <1>8, <2>1, <2>2, <2>3 DEF Ending
<1> QED BY <1>4, <1>9 DEF Kept

LEMMA NotifyKeeps == ASSUME Inv, NEW t \in Writer, notifyOne(t) PROVE Kept
<1>1. TypeOK'
  BY Names DEF notifyOne, unlock, notified, Inv, TypeOK, output, flags, holding, threads
<1>2. Ending'
  BY Names DEF notifyOne, unlock, runs, notified, Inv, TypeOK, Ending, past, away, output, flags,
               threads
<1> QED BY <1>1, <1>2 DEF Kept

LEMMA EndKeeps == ASSUME Inv, NEW w \in Worker, end(w) PROVE Kept
<1>1. TypeOK'
  BY Names DEF end, Inv, TypeOK, output, flags, threads
<1>2. Ending'
  BY Names DEF end, Inv, TypeOK, Ending, past, away, output, flags, threads
<1> QED BY <1>1, <1>2 DEF Kept

(* The thread of the logger                                                *)
LEMMA LoopKeeps ==
  ASSUME Inv, loop \/ hasLog \/ lock \/ findNone \/ wait \/ wakeUp \/ spurious
  PROVE  Kept
<1>1. TypeOK'
  BY Names
     DEF loop, testQuit, hasLog, lock, findNone, wait, sleepWith, wakeUp, spurious, notified,
         Inv, TypeOK, output, flags, writers, holding, threads
<1>2. Ending'
  BY DEF loop, testQuit, hasLog, lock, findNone, wait, sleepWith, wakeUp, spurious, notified,
         Inv, Ending, past, away, output, flags, writers, threads
<1> QED BY <1>1, <1>2 DEF Kept

LEMMA PopKeeps == ASSUME Inv, pop PROVE Kept
<1>1. /\ queue # <<>> /\ file' = Append(file, Head(queue)) /\ queue' = Tail(queue)
      /\ mutex' = None /\ lpc = "test" /\ lpc' = "loop"
      /\ UNCHANGED <<async, open, quit, wpc, lines, mpc, sig, unjoined, late>>
  BY DEF pop, popTo, flags, writers, threads
<1>2. /\ Head(queue) \in Writer \X Nat /\ Tail(queue) \in Seq(Writer \X Nat)
  BY <1>1, HeadTailProperties DEF Inv, TypeOK
<1>3. file' \in Seq((Writer \cup {LogThread}) \X Nat)
  <2> DEFINE l == Head(queue)
  <2>1. l \in (Writer \cup {LogThread}) \X Nat
    BY <1>2
  <2> HIDE DEF l
  <2> QED BY <1>1, <2>1 DEF Inv, TypeOK, l
<1>4. TypeOK'
  BY <1>1, <1>2, <1>3, Names DEF Inv, TypeOK, holding
<1>5. Ending'
  BY <1>1 DEF Inv, TypeOK, Ending, past, away
<1> QED BY <1>4, <1>5 DEF Kept

LEMMA CloseKeeps == ASSUME Inv, close PROVE Kept
<1>1. /\ file' = Append(file, <<LogThread, 1>>) /\ lpc = "close" /\ lpc' = "end"
      /\ UNCHANGED <<async, queue, mutex, open, quit, wpc, lines, mpc, sig, unjoined, late>>
  BY DEF close, flags, writers, threads
<1>2. /\ file' \in Seq((Writer \cup {LogThread}) \X Nat)
      /\ file' # <<>> /\ file'[Len(file')] = <<LogThread, 1>>
  <2> DEFINE l == <<LogThread, 1>>
  <2>1. l \in (Writer \cup {LogThread}) \X Nat
    OBVIOUS
  <2> HIDE DEF l
  <2>2. file' = Append(file, l) /\ file \in Seq((Writer \cup {LogThread}) \X Nat)
    BY <1>1 DEF l, Inv, TypeOK
  <2>3. /\ file' \in Seq((Writer \cup {LogThread}) \X Nat)
        /\ file' # <<>> /\ file'[Len(file')] = l
    BY <2>1, <2>2, AppendProperties
  <2> QED BY <2>3 DEF l
<1>3. TypeOK'
  BY <1>1, <1>2 DEF Inv, TypeOK, holding
<1>4. Ending'
  BY <1>1, <1>2 DEF Inv, Ending, past, away
<1> QED BY <1>3, <1>4 DEF Kept

(* The main thread and SIGINT                                              *)
MainPc == {"new", "open", "init", "serve", "quit", "notify", "join", "exit"}

LEMMA RunKeeps == ASSUME Inv, run PROVE Kept
<1>1. PICK w \in Worker : /\ wpc[w] = "new" /\ wpc' = [wpc EXCEPT ![w] = "idle"]
                          /\ unjoined' = unjoined \cup {w}
  BY DEF run
<1>2. /\ mpc = "serve"
      /\ UNCHANGED <<async, queue, file, mutex, open, quit, lpc, lines, mpc, sig, late>>
  BY DEF run, output, flags
<1>3. TypeOK'
  BY <1>1, <1>2, Names DEF Inv, TypeOK, holding
<1>4. Ending'
  BY <1>1, <1>2, Names DEF Inv, TypeOK, Ending, past, away
<1> QED BY <1>3, <1>4 DEF Kept

LEMMA MainKeeps == ASSUME Inv, main \/ sigint \/ join PROVE Kept
<1>1. CASE startThread
  <2>1. TypeOK'
    BY <1>1, Names DEF startThread, Inv, TypeOK, Ending, output, flags, writers, holding, threads
  <2>2. Ending'
    BY <1>1 DEF startThread, Inv, Ending, past, away, output, flags, writers, threads
  <2> QED BY <2>1, <2>2 DEF Kept
<1>2. CASE notifyQuit
  <2>1. TypeOK'
    BY <1>2, Names DEF notifyQuit, tell, notified, Inv, TypeOK, output, flags, writers, holding,
                       threads
  <2>2. Ending'
    BY <1>2 DEF notifyQuit, tell, notified, Inv, Ending, past, away, output, flags, writers, threads
  <2> QED BY <2>1, <2>2 DEF Kept
<1>3. CASE setOpen \/ TcpServer \/ Start \/ setQuit \/ joinLog \/ sigint \/ join
  <2>1. TypeOK'
    <3>1. ASSUME UNCHANGED <<async, queue, file, mutex, lpc, wpc, lines>>,
                 open' \in BOOLEAN, quit' \in BOOLEAN, mpc' \in MainPc,
                 sig' \in {"none", "join", "done"}, unjoined' \subseteq Worker, late' \subseteq Worker
          PROVE  TypeOK'
      BY <3>1 DEF Inv, TypeOK, MainPc
    <3>2. /\ mpc \in MainPc /\ sig \in {"none", "join", "done"} /\ open \in BOOLEAN
          /\ quit \in BOOLEAN /\ unjoined \subseteq Worker /\ late \subseteq Worker
      BY DEF Inv, TypeOK, MainPc
    <3>3. CASE setOpen \/ TcpServer \/ Start
      BY <3>1, <3>2, <3>3 DEF setOpen, TcpServer, Start, output, flags, writers, threads, MainPc
    <3>4. CASE sigint \/ join
      BY <3>1, <3>2, <3>4 DEF sigint, join, output, flags, writers, threads
    <3>5. CASE setQuit \/ joinLog
      BY <3>1, <3>2, <3>5 DEF setQuit, joinLog, output, flags, writers, threads, MainPc
    <3> QED BY <1>3, <3>3, <3>4, <3>5
  <2>2. Ending'
    <3>1. CASE setOpen
      BY <3>1 DEF setOpen, Inv, Ending, past, away, output, flags, writers, threads
    <3>2. CASE TcpServer
      <4>1. \A w \in Worker : w \notin late => away(w)
        BY <3>2 DEF TcpServer, Inv, Ending, away
      <4> QED BY <3>2, <4>1 DEF TcpServer, Inv, Ending, past, away, output, flags, writers, threads
    <3>3. CASE Start
      BY <3>3 DEF Start, Inv, Ending, past, away, output, flags, writers
    <3>4. CASE setQuit \/ joinLog
      BY <3>4 DEF setQuit, joinLog, Inv, Ending, past, away, output, flags, writers, threads
    <3>5. CASE sigint \/ join
      BY <3>5 DEF sigint, join, Inv, Ending, past, away, output, flags, writers, threads
    <3> QED BY <1>3, <3>1, <3>2, <3>3, <3>4, <3>5
  <2> QED BY <2>1, <2>2 DEF Kept
<1> QED BY <1>1, <1>2, <1>3, RunKeeps DEF main, Quit

LEMMA StepInv == Inv /\ [Next]_vars => Inv'
<1> SUFFICES ASSUME Inv, [Next]_vars PROVE Inv'
  OBVIOUS
<1>1. UNCHANGED <<file, queue, lines>> => LinesInOrder'
  BY LinesUnchanged DEF Inv, all
<1>2. ASSUME NEW t \in Writer, log(t) PROVE Kept /\ LinesInOrder'
  BY <1>1, <1>2, BaseKeeps, WriteKeeps, NotifyKeeps, WriteOrders
     DEF log, LOG_BASE, notifyOne, unlock, output
<1>3. ASSUME NEW w \in Worker, end(w) PROVE Kept /\ LinesInOrder'
  BY <1>1, <1>3, EndKeeps DEF end, output
<1>4. CASE asyncWork \/ spurious
  <2>1. CASE pop \/ close
    BY <2>1, PopKeeps, CloseKeeps, PopOrders, CloseOrders DEF Inv, Kept
  <2>2. CASE loop \/ hasLog \/ lock \/ findNone \/ wait \/ wakeUp \/ spurious
    <3>1. UNCHANGED <<file, queue, lines>>
      BY <2>2 DEF loop, testQuit, hasLog, lock, findNone, wait, sleepWith, wakeUp, spurious,
                  output, writers
    <3> QED BY <1>1, <2>2, <3>1, LoopKeeps DEF Inv, Kept
  <2> QED BY <1>4, <2>1, <2>2 DEF asyncWork
<1>5. CASE main \/ sigint \/ join
  <2>1. UNCHANGED <<file, queue, lines>>
    BY <1>5 DEF main, run, startThread, setOpen, TcpServer, join, Start, Quit, setQuit, notifyQuit,
                tell, joinLog, sigint, output, writers
  <2> QED BY <1>1, <1>5, <2>1, MainKeeps DEF Inv, Kept
<1>6. CASE UNCHANGED vars
  <2>1. UNCHANGED <<file, queue, lines>> /\ TypeOK' /\ Ending'
    BY <1>6 DEF vars, Inv, TypeOK, Ending, past, away, output, flags, writers, threads
  <2> QED BY <1>1, <2>1 DEF Inv
<1> QED BY <1>2, <1>3, <1>4, <1>5, <1>6 DEF Next, Inv, Kept

THEOREM Invariance == Spec => []Inv
  BY InitInv, StepInv, PTL DEF Spec

(* The variables have their types, the mutex has one holder.               *)
THEOREM TypeCorrect == Spec => []TypeOK
<1>1. Inv => TypeOK
  BY DEF Inv
<1> QED BY <1>1, Invariance, PTL

(* Log::write, asyncWork: the lines of each thread reach the file once and *)
(* in order, or are on the way to it.                                      *)
THEOREM OrderCorrect == Spec => []LinesInOrder
<1>1. Inv => LinesInOrder
  BY DEF Inv
<1> QED BY <1>1, Invariance, PTL

(* Log::hasLog: when the file is closed, the lines of all threads are in   *)
(* it, but for those of workers created after SIGINT that nobody joined.   *)
THEOREM NothingLost == Spec => []NothingIsLost
<1>1. Inv => NothingIsLost
  <2> SUFFICES ASSUME Inv, lpc = "end"
               PROVE  /\ file[Len(file)] = <<LogThread, 1>>
                      /\ \A i \in DOMAIN queue : queue[i][1] \in late
                      /\ \A t \in Writer : wpc[t] = "locked" => t \in late
    BY DEF NothingIsLost
  <2>1. quit /\ past
    BY DEF Inv, Ending, past
  <2> QED BY <2>1 DEF Inv, Ending, past, away, Writer
<1> QED BY <1>1, Invariance, PTL
=============================================================================
