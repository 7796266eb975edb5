-------------------------- MODULE TimerManagerList --------------------------
(***************************************************************************)
(* TimerManager implements TimerList: every call, the clock and every step *)
(* of the walk is a step of the pointer-free list or leaves it unchanged.  *)
(***************************************************************************)
EXTENDS TimerManager, TimerOrder

order == FdOrder(list, Linked, fdof)
due == {fd \in Fd : expired(fd)}

Abstract == INSTANCE TimerList

ImplementsTimerList == Abstract!Spec
=============================================================================
