-------------------------------- MODULE MCLog --------------------------------
(* The server's logger with two workers.                                   *)
EXTENDS Log

CONSTANTS w1, w2

(* Bound: two lines of one worker, one of the other and of the main thread *)
Lines == [t \in Writer |-> IF t = w1 THEN 2 ELSE 1]
=============================================================================
