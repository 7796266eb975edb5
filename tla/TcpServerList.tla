--------------------------- MODULE TcpServerList ----------------------------
(***************************************************************************)
(* The server implements TimerList: in the interleaving of all its threads *)
(* the list of timers does what its contract says.                         *)
(***************************************************************************)
EXTENDS TcpServer, TimerOrder

order == FdOrder(list, Linked, fdof)
expiredFds == {fd \in Fd : map[fd] # None /\ map[fd] \in due}

Abstract == INSTANCE TimerList WITH due <- expiredFds

ImplementsTimerList == Abstract!Spec
=============================================================================
