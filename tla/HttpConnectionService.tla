----------------------- MODULE HttpConnectionService -----------------------
(***************************************************************************)
(* A connection implements HttpService: from all that its client and the   *)
(* network, its handlers, buffers and parser do, the client sees no more   *)
(* than what is promised there.                                            *)
(***************************************************************************)
EXTENDS HttpConnection

some(t, i, j) == \E n \in i..j : asked[n] = t

(* How the server may see the k-th request.                                *)
kindOf(k) == IF k \in odd THEN "odd"
             ELSE CASE asked[start(k - 1) + 1] = "req" -> "page"
                    [] asked[start(k - 1) + 1] = "part" -> "part"
                    [] OTHER -> "malformed"
requests == [k \in 1..Len(ends) |-> [kind |-> kindOf(k),
                                     keep |-> some("keep", start(k - 1) + 1, ends[k])]]

wholeIn(n) == Cardinality({k \in 1..Len(ends) : ends[k] =< n})

(* An answer has begun with its first part; Connection::_keepalive is set  *)
(* before that, and says after it whether another may follow.              *)
begun == (Len(told) + Len(Answer) - 1) \div Len(Answer)
mode == IF ~open THEN "closed" ELSE IF astray THEN "lost"
        ELSE IF told # <<>> /\ pc # Answer[1] /\ ~keepalive THEN "last" ELSE "open"

Service == INSTANCE HttpService WITH Parts <- Len(Answer), arrived <- wholeIn(sent),
                                     answered <- begun, out <- Len(wire)

(* TcpServer::handleRequest, Connection::processCore, HttpParser: whatever *)
(* the pieces and the sizes of the buffers, answers follow requests in     *)
(* order, one at a time, no page too early and nothing after the last.     *)
ImplementsService == Service!Spec
=============================================================================
