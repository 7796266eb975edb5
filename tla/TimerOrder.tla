----------------------------- MODULE TimerOrder -----------------------------
(***************************************************************************)
(* The list of TimerLinks read as a sequence, for showing that a module    *)
(* that keeps such a list implements TimerList.                            *)
(***************************************************************************)
EXTENDS TimerLinks, Naturals, FiniteSets

(* The first n timers met by following next from HeadNode.                   *)
Walk(L, n) ==
  LET at[k \in 0..n] == IF k = 0 THEN HeadNode ELSE L.next[at[k - 1]]
  IN  [k \in 1..n |-> at[k]]

(* The descriptors f[t] of the timers of S, in list order. *)
FdOrder(L, S, f) ==
  LET w == Walk(L, Cardinality(S)) IN [k \in 1..Cardinality(S) |-> f[w[k]]]
=============================================================================
