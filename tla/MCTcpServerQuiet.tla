-------------------------- MODULE MCTcpServerQuiet --------------------------
EXTENDS TcpServerQuiet, TcpServerList, TLC

(* Descriptors, connections and workers are interchangeable. *)
Interchangeable ==
  Permutations(Fd) \cup Permutations(Conn) \cup Permutations(Worker)
=============================================================================
