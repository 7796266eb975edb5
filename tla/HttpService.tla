---------------------------- MODULE HttpService ----------------------------
(***************************************************************************)
(* What the server promises the client of one connection, without buffers, *)
(* parser, events and pieces: answers come one at a time and in the order  *)
(* of the requests, no page before all of its request is there, and the    *)
(* next only if a request so far has asked to keep the connection; a line  *)
(* that the server does not understand gets the last answer.  An odd       *)
(* request, one whose end the server may not see where the client does, may*)
(* cost it its place: its answers are then still whole and one at a time.  *)
(***************************************************************************)
EXTENDS Naturals, Sequences

CONSTANT Parts   \* the length of an answer

VARIABLES requests,  \* what the client has asked for: a page, something that
                     \* is malformed, a part of a request, or something odd
          arrived,   \* how many of them are in the server's socket
          answered,  \* how many answers the server has begun
          out,       \* how much it has written
          mode       \* "last": no more answers follow; "lost": the server does
                     \* not know where requests begin

vars == <<requests, arrived, answered, out, mode>>

Init == /\ requests = <<>>
        /\ arrived = 0 /\ answered = 0 /\ out = 0
        /\ mode = "open"

Ask == /\ \E kind \in {"page", "malformed", "part", "odd"}, keep \in BOOLEAN :
             requests' = Append(requests, [kind |-> kind, keep |-> keep])
       /\ UNCHANGED <<arrived, answered, out, mode>>

Arrive == /\ arrived' \in arrived + 1..Len(requests)
          /\ UNCHANGED <<requests, answered, out, mode>>

(* All answers begun are out, and this is the next request.                *)
turn(kind) == /\ mode = "open" /\ out = Parts * answered
              /\ answered < Len(requests)
              /\ requests[answered + 1].kind = kind

reply(kind) == /\ turn(kind)
               /\ answered' = answered + 1
               /\ UNCHANGED <<requests, arrived, out>>

(* The connection goes on if this request or an earlier one asked for it.  *)
Answer == /\ reply("page")
          /\ answered < arrived
          /\ mode' = IF \E i \in 1..answered + 1 : requests[i].keep THEN "open" ELSE "last"

Refuse == (reply("malformed") \/ reply("odd")) /\ mode' = "last"

Lose == /\ turn("odd") /\ mode' = "lost"
        /\ UNCHANGED <<requests, arrived, answered, out>>

AnswerLost == /\ mode = "lost" /\ out = Parts * answered
              /\ answered' = answered + 1
              /\ UNCHANGED <<requests, arrived, out, mode>>

Send == /\ mode # "closed"
        /\ out' \in out + 1..Parts * answered
        /\ UNCHANGED <<requests, arrived, answered, mode>>

(* The client is gone, the time is up or the last answer is out.           *)
Close == /\ mode' = "closed"
         /\ UNCHANGED <<requests, arrived, answered, out>>

Next == \/ Ask \/ Arrive \/ Answer \/ Refuse \/ Lose \/ AnswerLost
        \/ Send \/ Close

Spec == Init /\ [][Next]_vars
=============================================================================
