----------------------------- MODULE TimerLinks -----------------------------
(***************************************************************************)
(* The doubly linked list of timers kept by TimerManager, as pure          *)
(* operators.  A list is a record of the two pointer fields of every Timer *)
(* object; every operator below runs under TimerManager::_mutex in the     *)
(* code, so it is one atomic function from lists to lists.  The pointers   *)
(* are written in the order in which the code writes them.                 *)
(*                                                                         *)
(* Here as in the other modules, a definition marked "Mistake" is not part *)
(* of the model: it is a wrong version of the one below it, which some     *)
(* property must refute (see README.md).                                   *)
(***************************************************************************)
CONSTANTS Timer,     \* the Timer objects a connection can own
          HeadNode,  \* TimerManager::_head, the sentinel before the most recent
          TailNode   \* TimerManager::_tail, the sentinel after the oldest

ASSUME SentinelsDistinct == /\ HeadNode # TailNode
                            /\ HeadNode \notin Timer
                            /\ TailNode \notin Timer

Node == Timer \cup {HeadNode, TailNode}

List == [next : [Node -> Node], last : [Node -> Node]]

(* The two sentinels linked to each other.  The pointers of a Timer that   *)
(* was never linked are null; nothing follows them, and the value HeadNode *)
(* stands for null there.                                                  *)
EmptyList == [next |-> [n \in Node |-> IF n = HeadNode THEN TailNode ELSE HeadNode],
              last |-> [n \in Node |-> HeadNode]]

(* Mistake: the old first timer keeps pointing back at the head.           *)
addToHeadHalf(L, t) ==
  [next |-> [L.next EXCEPT ![t] = L.next[HeadNode], ![HeadNode] = t],
   last |-> [L.last EXCEPT ![t] = HeadNode]]

(* Mistake: the timer goes to the other end.                               *)
addToTail(L, t) ==
  LET p == L.last[TailNode] IN
  [next |-> [L.next EXCEPT ![p] = t, ![t] = TailNode],
   last |-> [L.last EXCEPT ![t] = p, ![TailNode] = t]]

addToHead(L, t) ==
  LET n1 == [L.next EXCEPT ![t] = L.next[HeadNode]]
      l1 == [L.last EXCEPT ![n1[t]] = t]
      n2 == [n1 EXCEPT ![HeadNode] = t]
      l2 == [l1 EXCEPT ![t] = HeadNode]
  IN  [next |-> n2, last |-> l2]

(* Mistake: only the first of the two statements.                          *)
unlinkHalf(L, t) == [L EXCEPT !.next[L.last[t]] = L.next[t]]

(* The two statements with which updateTimer and rmTimer take a timer out. *)
unlink(L, t) ==
  LET n1 == [L.next EXCEPT ![L.last[t]] = L.next[t]]
      l1 == [L.last EXCEPT ![n1[t]] = L.last[t]]
  IN  [next |-> n1, last |-> l1]

moveToHead(L, t) == addToHead(unlink(L, t), t)

-----------------------------------------------------------------------------
(* WellLinked(L, S): L is one chain from HeadNode to TailNode through      *)
(* exactly the timers of S: next and last are inverse of each other, and   *)
(* no group of timers is closed under last, so that the walk from TailNode *)
(* that closeExpire makes leaves every group and ends at HeadNode.         *)
BothWays(L, S) ==
  /\ \A n \in S \cup {HeadNode} : L.next[n] \in S \cup {TailNode} /\ L.last[L.next[n]] = n
  /\ \A n \in S \cup {TailNode} : L.last[n] \in S \cup {HeadNode} /\ L.next[L.last[n]] = n

Acyclic(L, S) == \A G \in SUBSET S : G # {} => \E t \in G : L.last[t] \notin G

WellLinked(L, S) == BothWays(L, S) /\ Acyclic(L, S)
=============================================================================
