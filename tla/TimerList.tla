----------------------------- MODULE TimerList ------------------------------
(***************************************************************************)
(* What TimerManager promises to the server, without pointers: the open    *)
(* descriptors in the order in which they were last active, most recent    *)
(* first, of which the expired ones are always at the end ("from head to   *)
(* tail in descending order of the time left", ReadMe.md:41).              *)
(***************************************************************************)
EXTENDS Naturals, Sequences, SequencesExt

CONSTANT Fd

VARIABLES order,   \* descriptors with a timer, most recently active first
          due      \* those whose time has run out

vars == <<order, due>>

Init == order = <<>> /\ due = {}

(* A new connection starts with all of its time. *)
Add(fd) == /\ ~Contains(order, fd)
           /\ order' = <<fd>> \o order
           /\ due' = due \ {fd}

(* The descriptor leaves its place, to be first or not to come back.       *)
taken(fd, front) == \E i \in 1..Len(order) :
                      /\ order[i] = fd
                      /\ order' = front \o RemoveAt(order, i)
                      /\ due' = due \ {fd}

(* Any activity gives a connection all of its time again. *)
Refresh(fd) == taken(fd, <<fd>>)

Drop(fd) == taken(fd, <<>>)

(* Time passes: the descriptors at the end of the order run out, so those  *)
(* that have run out are a suffix of it.                                   *)
Expire == \E k \in 1..Len(order) :
            /\ due' = { order[i] : i \in k..Len(order) }
            /\ due \subseteq due'
            /\ due # due'
            /\ UNCHANGED order

Next == Expire \/ \E fd \in Fd : Add(fd) \/ Refresh(fd) \/ Drop(fd)

Spec == Init /\ [][Next]_vars
=============================================================================
