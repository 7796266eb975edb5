--------------------------- MODULE HttpConnection ---------------------------
(***************************************************************************)
(* What one connection does with the bytes of its client: Connection::Read,*)
(* processCore and Write, the parser and the response, and the paths       *)
(* through TcpServer::handleRequest and handleWrite that decide what epoll *)
(* is to report next.  One handler runs at a time and the timer expires    *)
(* only between handlers; TcpServer is about what happens otherwise.       *)
(*                                                                         *)
(* A byte is a token: "crlf" ends a line, "req" is a request line with its *)
(* three fields, "part" one that begins with a known method and lacks a    *)
(* field, "bad" one that lacks a field and does not; "keep" is the header  *)
(* Connection: keep-alive, a member of DOMAIN Length the header            *)
(* Content-Length with its number, "nolen" the same with no number, "other"*)
(* another header; "body" is a byte of a body.  Sizes count tokens.        *)
(***************************************************************************)
EXTENDS Buffer, FiniteSets

CONSTANTS Request,      \* the requests that the client may make: any tokens
          Length,       \* the numbers of the Content-Length headers; the code
                        \* compares a negative one as a very large one
          InitLen,      \* BUF_SIZE
          Chunk,        \* the second segment of readv
          SendSpace,    \* the socket's send buffer
          MaxRequests   \* bound: requests of the client

Word == {"crlf", "req", "part", "bad", "keep", "nolen", "other", "body"}
Token == Word \cup DOMAIN Length
Answer == <<"status", "headers", "page">>

ASSUME ConnectionSizes ==
  /\ Token \cup {"status", "headers", "page"} \subseteq Byte
  /\ Length \in [DOMAIN Length -> Nat] /\ DOMAIN Length \cap Word = {}
  /\ Request \subseteq Seq(Token) \ {<<>>}
  /\ InitLen \in Nat /\ Chunk \in Nat \ {0}
  /\ SendSpace \in Nat \ {0} /\ MaxRequests \in Nat

isBlank(s, i) == s[i] = "crlf" /\ s[i - 1] = "crlf"

(* The headers in these places give the length n.                          *)
says(s, i, j, n) ==
  \/ n = 0 /\ \A m \in i..j : s[m] \notin DOMAIN Length
  \/ \E m \in i..j : /\ s[m] \in DOMAIN Length /\ n = Length[s[m]]
                     /\ \A l \in m + 1..j : s[l] \notin DOMAIN Length

(* The headers of a request that begins behind b end with the first blank  *)
(* line, at h.                                                             *)
headersEnd(s, b, h) == isBlank(s, h) /\ \A i \in b + 2..h - 1 : ~isBlank(s, i)

size(s, i, j) == Cardinality({m \in i..j : s[m] # "crlf"})

(* The tokens behind b up to e are a request that is exact: its line and   *)
(* headers are one token each, and the lines of its body, without the line *)
(* ends, have the length that its headers give, and end with a line.  A    *)
(* line that has not all its fields needs no more.  What HTTP allows is    *)
(* different: there the line ends in a body count, and none has to follow. *)
IsRequest(s, b, e) ==
  /\ b + 2 =< e /\ s[b + 1] # "crlf" /\ s[b + 2] = "crlf"
  /\ s[b + 1] = "req" =>
       \E h \in b + 3..e :
          /\ headersEnd(s, b, h)
          /\ \A i \in b + 1..h - 1 : s[i] = "crlf" \/ s[i + 1] = "crlf"
          /\ \A i \in b + 1..h : s[i] # "nolen"
          /\ \A i \in h + 1..e : s[i] \in {"body", "crlf"}
          /\ says(s, b + 1, h, size(s, h + 1, e))
          /\ h < e => s[e] = "crlf" /\ s[e - 1] # "crlf"

VARIABLES
  \* The client and the sockets
  asked,     \* all that the client has to say so far
  ends,      \* where its requests end in it
  odd,       \* history: which of them are not exact
  sent,      \* how much of it has arrived in the server's socket
  hup,       \* "fin": it has shut its side down; "rst": it is gone
  wire,      \* all that the server has written
  unread,    \* how much of it the client has yet to read
  \* Connection
  inbuffer, outbuffer, parser, keepalive,
  armed,     \* the events epoll reports for the descriptor
  pc,        \* where the handler is
  got,       \* Read's total is not 0
  \* History
  received,  \* tokens read from the socket
  parsed,    \* tokens that the parser has consumed
  told       \* all that was appended to the output buffer

client == <<asked, ends, odd, sent, hup>>
output == <<unread, wire, told, outbuffer>>
input == <<received, parsed, inbuffer>>
vars == <<pc, armed, got, keepalive, parser, client, input, output>>

(* HttpParser's constructor and init, as far as the parser reads it.       *)
initParser == [state |-> "requestline", content_len |-> 0, body |-> 0, keepalive |-> FALSE]

open == pc \notin {"closed", "expired", "aborted"}

TypeOK ==
  /\ asked \in Seq(Token)
  /\ ends \in Seq(Nat) /\ odd \subseteq 1..Len(ends)
  /\ sent \in Nat /\ received \in Nat /\ parsed \in Nat
  /\ hup \in {"no", "fin", "rst"}
  /\ wire \in Seq(Byte) /\ told \in Seq(Byte)
  /\ unread \in 0..SendSpace
  /\ IsBuffer(inbuffer) /\ IsBuffer(outbuffer)
  /\ parser \in [state : {"requestline", "header", "body", "finish"},
                 content_len : Nat, body : Nat, keepalive : BOOLEAN]
  /\ keepalive \in BOOLEAN
  /\ armed \in {"in", "out", "off"}
  /\ pc \in {"wait", "read", "parse", "status", "headers", "page", "write",
            "closed", "expired", "aborted"}
  /\ got \in BOOLEAN

Init ==
  /\ asked = <<>> /\ ends = <<>> /\ odd = {} /\ sent = 0 /\ hup = "no"
  /\ wire = <<>> /\ unread = 0
  /\ inbuffer = newBuffer(InitLen) /\ outbuffer = newBuffer(InitLen)
  /\ parser = initParser
  /\ keepalive = FALSE
  /\ armed = "in"
  /\ pc = "wait"
  /\ got = FALSE
  /\ received = 0 /\ parsed = 0 /\ told = <<>>

(* TcpServer::handleClose, with Connection::Clear.                         *)
handleClose(end) ==
  /\ inbuffer' = initBuffer /\ outbuffer' = initBuffer
  /\ parser' = initParser
  /\ keepalive' = FALSE
  /\ armed' = "off"
  /\ pc' = end
  /\ UNCHANGED <<client, wire, unread, told, received, parsed, got>>

-----------------------------------------------------------------------------
(* Connection::handleEvent: epoll reports an event once, then nothing until*)
(* the descriptor is armed again.                                          *)

event(kind, l) == /\ pc = "wait" /\ armed = kind
                  /\ armed' = "off"
                  /\ pc' = l
                  /\ got' = FALSE
                  /\ UNCHANGED <<client, output, input, parser, keepalive>>

handleRequest == (received < sent \/ hup # "no") /\ event("in", "read")

handleWrite == (unread < SendSpace \/ hup = "rst") /\ event("out", "write")

(* Connection::Read: one readv takes what there is and fits, *)
readv(next) ==
  /\ pc = "read"
  /\ LET space == writableSpace(inbuffer) + Chunk
     IN  \E n \in 1..sent - received :
            /\ n = space \/ (n < space /\ n = sent - received)
            /\ inbuffer' = bufferRead(inbuffer, SubSeq(asked, received + 1, received + n))
            /\ received' = received + n
  /\ got' = TRUE
  /\ pc' = next
  /\ UNCHANGED <<client, output, parsed, parser, keepalive, armed>>

readOnce == readv("parse")  \* Mistake: a single readv.

(* and then another one,                                                   *)
readSome == readv("read")

(* until there is nothing, the end or an error, which it does not tell     *)
(* apart; with nothing at all the connection is closed.                    *)
readEnd ==
  /\ pc = "read" /\ (received = sent \/ hup = "rst")
  /\ \/ got /\ pc' = "parse"
            /\ UNCHANGED <<client, output, input, parser, keepalive, armed, got>>
     \/ ~got /\ handleClose("closed")

Read == readSome \/ readEnd

-----------------------------------------------------------------------------
(* Connection::processCore: HttpParser::parseContent line by line          *)

lineEnds == LET c == content(inbuffer) IN {i \in 1..datasize(inbuffer) : c[i] = "crlf"}
lineEnd == CHOOSE i \in lineEnds : \A j \in lineEnds : i =< j
line == SubSeq(content(inbuffer), 1, lineEnd - 1)

(* The loop finds a line in this state.                                    *)
lineIn(state) == pc = "parse" /\ parser.state = state /\ lineEnds # {}

consume ==
  /\ inbuffer' = updateReadptr(inbuffer, lineEnd)
  /\ parsed' = parsed + lineEnd
  /\ UNCHANGED <<client, output, received, keepalive, armed, pc, got>>

hasFields == \E i \in DOMAIN line : line[i] = "req"
knownMethod == line = <<"part">>

parseRequestline ==
  /\ lineIn("requestline") /\ hasFields
  /\ parser' = [parser EXCEPT !.state = "header"]
  /\ consume

(* The blank line ends the headers.                                        *)
parseHeadersEnd ==
  /\ lineIn("header") /\ line = <<>>
  /\ parser' = [parser EXCEPT !.state = IF parser.content_len = 0 THEN "finish" ELSE "body"]
  /\ consume

isLength == Len(line) = 1 /\ line[1] \in DOMAIN Length

(* The last length counts.                                                 *)
parseHeader ==
  /\ lineIn("header") /\ line \notin {<<>>, <<"nolen">>}
  /\ parser' = [parser EXCEPT !.content_len = IF isLength THEN Length[line[1]] ELSE @,
                              !.keepalive = @ \/ line = <<"keep">>]
  /\ consume

(* A body may have several lines; their ends are not counted, and as long  *)
(* as it is too short, whatever line comes next is part of it.             *)
parseBody ==
  /\ lineIn("body") /\ parser.body + Len(line) =< parser.content_len
  /\ parser' = [parser EXCEPT
                  !.body = @ + Len(line),
                  !.state = IF parser.body + Len(line) = parser.content_len
                            THEN "finish" ELSE @]
  /\ consume

(* std::stoi throws, or the assert of parseBody fails.                     *)
abort ==
  /\ \/ lineIn("header") /\ line = <<"nolen">>
     \/ lineIn("body") /\ parser.body + Len(line) > parser.content_len
  /\ pc' = "aborted"
  /\ UNCHANGED <<client, output, input, parser, keepalive, armed, got>>

(* NO_REQUEST: handleRequest returns.                                      *)
noRequest ==
  /\ pc = "parse"
  /\ \/ parser.state # "finish" /\ lineEnds = {}
     \/ lineIn("requestline") /\ ~hasFields /\ knownMethod
  /\ pc' = "wait"
  /\ UNCHANGED <<client, output, input, parser, keepalive, armed, got>>

(* HttpResponse::setResponse: addResponseLine, addHeader and addBody, each *)
(* at the end of the output buffer.                                        *)
setResponse ==
  \E i \in DOMAIN Answer :
     /\ pc = Answer[i]
     /\ outbuffer' = append(outbuffer, <<Answer[i]>>)
     /\ told' = Append(told, Answer[i])
     /\ pc' = IF i = Len(Answer) THEN "write" ELSE Answer[i + 1]
     /\ UNCHANGED <<client, wire, unread, input, parser, keepalive, armed, got>>

(* GET_REQUEST                                                             *)
answer == /\ pc = "parse" /\ parser.state = "finish"
          /\ keepalive' = (keepalive \/ parser.keepalive)
          /\ pc' = Answer[1]
          /\ UNCHANGED <<client, output, input, parser, armed, got>>

(* BAD_REQUEST: the line stays in the buffer.                              *)
refuse(keep) == /\ lineIn("requestline") /\ ~hasFields /\ ~knownMethod
                /\ keepalive' = keep
                /\ pc' = Answer[1]
                /\ UNCHANGED <<client, output, input, parser, armed, got>>

answerBadKeeping == refuse(keepalive)  \* Mistake: goes on after it.
answerBad == refuse(FALSE)

processCore == \/ parseRequestline \/ parseHeadersEnd \/ parseHeader \/ parseBody
               \/ abort \/ noRequest \/ answer \/ answerBad \/ setResponse

-----------------------------------------------------------------------------
(* Connection::Write and what handleWrite makes of its result *)

(* write takes part or all of it, if there is space,                       *)
write(whole) ==
  /\ pc = "write" /\ hup # "rst"
  /\ \E n \in 1..datasize(outbuffer) :
        /\ unread + n =< SendSpace
        /\ wire' = wire \o SubSeq(content(outbuffer), 1, n)
        /\ unread' = unread + n
        /\ outbuffer' = updateReadptr(outbuffer, IF whole THEN datasize(outbuffer) ELSE n)
  /\ UNCHANGED <<client, told, input, parser, keepalive, armed, pc, got>>

writeSomeAsAll == write(TRUE)  \* Mistake: takes a partial write for a whole one.

(* and that part leaves the buffer.                                        *)
writeSome == write(FALSE)

waitFor(ev) ==
  /\ pc = "write" /\ hup # "rst"
  /\ datasize(outbuffer) > 0 /\ unread = SendSpace
  /\ armed' = ev
  /\ pc' = "wait"
  /\ UNCHANGED <<client, output, input, parser, keepalive, got>>

writeBlocksForIn == waitFor("in")     \* Mistake: for bytes rather than for space.
writeBlocksUnarmed == waitFor("off")  \* Mistake: for nothing.

(* EAGAIN                                                                  *)
writeBlocks == waitFor("out")

(* EPIPE or another error                                                  *)
writeFails == /\ pc = "write" /\ hup = "rst" /\ datasize(outbuffer) > 0
              /\ handleClose("closed")

(* All is written; no file is ever opened in this build.                   *)
keepWith(p) ==
  /\ pc = "write" /\ datasize(outbuffer) = 0 /\ keepalive
  /\ parser' = p
  /\ armed' = "in"
  /\ pc' = "wait"
  /\ UNCHANGED <<client, output, input, keepalive, got>>

writeKeepsParser == keepWith(parser)  \* Mistake: does not reset the parser,
writeKeepsFields == keepWith([parser EXCEPT !.state = "requestline"])  \* or just its state.
writeKeeps == keepWith(initParser)

writeCloses == /\ pc = "write" /\ datasize(outbuffer) = 0 /\ ~keepalive
               /\ handleClose("closed")

Write == writeSome \/ writeBlocks \/ writeFails \/ writeKeeps \/ writeCloses

(* The main thread closes a connection that has been idle.                 *)
handleExpire == pc = "wait" /\ handleClose("expired")

Server == handleRequest \/ handleWrite \/ Read \/ processCore \/ Write

-----------------------------------------------------------------------------
(* The client, which stops when the server has closed, and the network *)

clientOnly == UNCHANGED <<input, outbuffer, told, parser, keepalive, armed, pc, got>>

(* A new request, whether or not the ones before are answered.             *)
Ask(r) == /\ open /\ Len(ends) < MaxRequests
          /\ asked' = asked \o r
          /\ ends' = Append(ends, Len(asked'))
          /\ odd' = IF IsRequest(asked', Len(asked), Len(asked')) THEN odd
                    ELSE odd \cup {Len(ends')}
          /\ UNCHANGED <<sent, hup, wire, unread>> /\ clientOnly

(* More of what it has asked arrives: a piece of any size, if no handler   *)
(* looks before the next token is there.                                   *)
Arrive == /\ open /\ hup = "no" /\ sent < Len(asked)
          /\ sent' = sent + 1
          /\ UNCHANGED <<asked, ends, odd, hup, wire, unread>> /\ clientOnly

HangUp == /\ open /\ hup' \in {"fin", "rst"} /\ hup \notin {"rst", hup'}
          /\ UNCHANGED <<asked, ends, odd, sent, wire, unread>> /\ clientOnly

(* The client reads.                                                       *)
Drain == /\ unread > 0
         /\ unread' \in 0..unread - 1
         /\ UNCHANGED <<client, wire>> /\ clientOnly

Next == \/ Server \/ handleExpire
        \/ (\E r \in Request : Ask(r)) \/ Arrive \/ HangUp \/ Drain

(* The server goes on, and the client reads what it is sent.               *)
Spec == Init /\ [][Next]_vars /\ WF_vars(Server) /\ WF_vars(Drain)

-----------------------------------------------------------------------------
(* Properties *)

answers == Len(told) \div Len(Answer)

start(k) == IF k = 0 THEN 0 ELSE ends[k]

(* The parser has begun with a request that is not exact.                  *)
astray == \E k \in odd : start(k - 1) < parsed

(* Connection::Read, Buffer::makeSpace: whatever the sizes of the pieces in*)
(* which a request arrives, the unread part of the buffer is what has      *)
(* arrived and was not consumed, in order, with nothing lost or repeated.  *)
InputIntact ==
  /\ parsed =< received /\ received =< sent /\ sent =< Len(asked)
  /\ open => content(inbuffer) = SubSeq(asked, parsed + 1, received)

(* Connection::Write: what went out, followed by what is in the buffer, is *)
(* the answers, whole and in order; a closed connection has sent a prefix. *)
OutputIntact ==
  /\ open => wire \o content(outbuffer) = told
  /\ wire = SubSeq(told, 1, Len(wire))

(* HttpParser::init: between two requests nothing of the last one is left  *)
(* in the parser, and it takes a request to begin where one begins: as long*)
(* as all that it has begun with are exact.                                *)
Framed ==
  LET starts == {0} \cup {ends[i] : i \in DOMAIN ends} IN
  open /\ ~astray =>
          /\ parser.state \in {"requestline", "finish"} <=> parsed \in starts
          /\ parser.state = "requestline" => parser = initParser

(* TcpServer::handleWrite, handleRequest: while no handler runs, epoll is  *)
(* asked for just what the connection needs to go on: room if and only if  *)
(* there is more to send, bytes only if the last answer is out and some    *)
(* request asked for more, and nothing only in the middle of a request.    *)
ArmedAsNeeded ==
  pc = "wait" =>
    /\ armed = "out" <=> datasize(outbuffer) > 0
    /\ armed = "in" => /\ parser = initParser
                       /\ answers > 0 => \E i \in 1..parsed : asked[i] = "keep"
    /\ armed = "off" => /\ received > 0
                        /\ parser # initParser \/ received > parsed

(* Connection::processCore: one answer for every request consumed and one  *)
(* for a malformed one, none twice, also over partial writes.              *)
OneAnswerEach ==
  pc = "wait" /\ ~astray =>
    answers = Cardinality({i \in DOMAIN ends : ends[i] =< parsed})
                + IF armed = "out" /\ parser.state = "requestline" THEN 1 ELSE 0

lost == hup = "rst" \/ pc = "expired"

(* TcpServer::handleWrite: an answer begun is sent to the end, unless the  *)
(* client is gone or the connection runs out of time: also if the client   *)
(* has shut down its side, and if the connection is closed afterwards.     *)
AnswersAreSent == Len(wire) < Len(told) ~> (wire = told \/ lost)

(* TcpServer::handleRequest: the request whose last bytes arrive while the *)
(* connection waits for it is answered, if the requests so far are exact   *)
(* and it is not a part of one.                                            *)
arrives(i) == /\ pc = "wait" /\ armed = "in"
              /\ received < ends[i] /\ ends[i] =< sent
              /\ answers = i - 1
WholeRequestIsAnswered ==
  \A i \in 1..MaxRequests :
     (/\ i \in DOMAIN ends /\ arrives(i) /\ asked[start(i - 1) + 1] # "part"
      /\ odd \cap 1..i = {}) ~> (answers >= i \/ lost)

(* HttpParser::parseBody, parseHeader: exact requests never end the        *)
(* process, however many came before, in whatever pieces, and whatever is  *)
(* behind them in the buffer.  One that is not exact may: at once, by a    *)
(* length that is no number or a body that is too long, or later, if its   *)
(* body is too short: then the next request is taken for the rest of it.   *)
AbortsOnlyOnInexact == pc = "aborted" => astray

(* ReadMe.md:36, 94: new data are put into the queue when they come, and   *)
(* several requests of one client are read in a row.  So each request is   *)
(* answered once it has arrived, in one piece or several.                  *)
EveryRequestIsAnswered ==
  \A i \in 1..MaxRequests :
     (i \in DOMAIN ends /\ ends[i] =< sent) ~> (answers >= i \/ lost)
=============================================================================
