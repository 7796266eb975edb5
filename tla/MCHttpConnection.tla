-------------------------- MODULE MCHttpConnection --------------------------
EXTENDS HttpConnectionService

Lengths == [len1 |-> 1, len3 |-> 3, len4 |-> 4]

(* Requests as sequences of tokens: five that are exact, with bodies of one*)
(* line and of two, and three that are not: one with a length that is no   *)
(* number, one whose body ends without a line's end and one whose body is  *)
(* missing.  Behind the last, the lines of KeepPost happen to fill up its  *)
(* body, and those of Post are too long for it.                            *)
KeepGet  == <<"req", "crlf", "keep", "crlf", "crlf">>
KeepPost == <<"req", "crlf", "keep", "crlf", "len1", "crlf", "crlf", "body", "crlf">>
Post     == <<"req", "crlf", "len3", "crlf", "crlf",
              "body", "crlf", "body", "body", "crlf">>
Bad      == <<"bad", "crlf">>
Part     == <<"part", "crlf">>
NoLen    == <<"req", "crlf", "nolen", "crlf">>
NoEnd    == <<"req", "crlf", "len1", "crlf", "crlf", "body">>
Short    == <<"req", "crlf", "len4", "crlf", "crlf">>

AllRequests == {KeepGet, KeepPost, Post, Bad, Part, NoLen, NoEnd, Short}
KeepGets == {KeepGet}

Bytes == Token \cup {"status", "headers", "page", "zero"}
=============================================================================
