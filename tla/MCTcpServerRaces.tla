-------------------------- MODULE MCTcpServerRaces --------------------------
EXTENDS MCTcpServerQuiet

CONSTANTS MaxUntimely,  \* bound: how often a client is active on a due connection
          MaxConnects   \* bound: how many clients connect

VARIABLES untimely, connects  \* how often that has happened

RacesInit == Init /\ untimely = 0 /\ connects = 0

(* Spec, with a bound on what sets it apart from QuietSpec: every event for *)
(* a connection that is due may leave one more stale task in the queue.    *)
RacesNext ==
  /\ crash = "no"
  /\ \/ System /\ UNCHANGED <<untimely, connects>>
     \/ /\ Environment
        /\ untimely' = untimely + IF QuietExpiry /\ ~QuietExpiry' THEN 1 ELSE 0
        /\ untimely' =< MaxUntimely
        /\ connects' = connects + Cardinality({c \in Conn : peer[c] = "none" /\ peer'[c] # "none"})
        /\ connects' =< MaxConnects

RacesSpec == RacesInit /\ [][RacesNext]_<<vars, untimely, connects>> /\ Fairness
=============================================================================
