----------------------------- MODULE UrlDecode ------------------------------
(***************************************************************************)
(* HttpParser::parseUrl: the URL of a request line is replaced by the home *)
(* page, or decoded by urldecode in place, with one pointer that reads and *)
(* one that writes in the same array up to the NUL that ends it.           *)
(*                                                                         *)
(* What a client means and how it spells it are given side by side, so that*)
(* what the loop makes of the spelling can be compared with the meaning.   *)
(***************************************************************************)
EXTENDS Naturals, Sequences

CONSTANTS Asked,    \* the URLs a client may send, see spelled
          Homepage  \* HttpServer::_homepage

Byte == 0..255
Percent == 37
Plus == 43
Space == 32
Slash == 47

Digit == 48..57
Upper == 65..70
Lower == 97..102
isxdigit(c) == c \in Digit \cup Upper \cup Lower

(* The number a hexadecimal digit stands for.                              *)
meaning(c) == CASE c \in Digit -> c - 48
                [] c \in Upper -> 10 + (c - 65)
                [] c \in Lower -> 10 + (c - 97)

(* The characters of s from i to j - 1 spell the byte c: itself, a space,  *)
(* a percent sign that begins no escape, or an escape.                     *)
spells(s, i, j, c) ==
  \/ j = i + 1 /\ s[i] = c /\ c \notin {0, Percent, Plus}
  \/ j = i + 1 /\ s[i] = Plus /\ c = Space
  \/ j = i + 1 /\ s[i] = Percent /\ c = Percent /\ ~(isxdigit(s[i+1]) /\ isxdigit(s[i+2]))
  \/ /\ j = i + 3 /\ s[i] = Percent /\ isxdigit(s[i+1]) /\ isxdigit(s[i+2])
     /\ c = 16 * meaning(s[i+1]) + meaning(s[i+2])

(* The spelling of each byte of a.text begins at a.from in a.url, and after*)
(* the last one comes the NUL.                                             *)
spelled(a) ==
  LET n == Len(a.text) IN
  /\ a.url \in Seq(Byte) /\ a.text \in Seq(Byte)
  /\ a.from \in Seq(1..Len(a.url)) /\ Len(a.from) = n + 1
  /\ a.from[1] = 1 /\ a.from[n + 1] = Len(a.url)
  /\ a.url[Len(a.url)] = 0
  /\ \A i \in 1..n : spells(a.url, a.from[i], a.from[i + 1], a.text[i])

ASSUME UrlsAreSpelled == /\ \A a \in Asked : spelled(a)
                         /\ Homepage \in Seq(Byte)

VARIABLES asked,     \* what the client means, and how it spells it
          url,       \* HttpParser::url, with its NUL
          src, dst,  \* urldecode's pointers into it
          pc

vars == <<asked, url, src, dst, pc>>

Init == /\ asked \in Asked
        /\ url = asked.url
        /\ src = 1 /\ dst = 1
        /\ pc = "parseUrl"

isHome == asked.url = <<Slash, 0>>

parseUrl == /\ pc = "parseUrl"
            /\ \/ isHome /\ url' = <<Slash>> \o Homepage \o <<0>> /\ pc' = "done"
               \/ ~isHome /\ UNCHANGED url /\ pc' = "loop"
            /\ UNCHANGED <<asked, src, dst>>

-----------------------------------------------------------------------------
(* urldecode *)

isEscape == url[src] = Percent /\ isxdigit(url[src + 1]) /\ isxdigit(url[src + 2])

hexUpper(c) == IF c >= 65 THEN c - 55 ELSE c - 48  \* Mistake: knows no small letters.
hex(c) == hexUpper(IF c >= 97 THEN c - 32 ELSE c)

(* One turn of the loop reads n characters and writes one.                 *)
put(n, c) == /\ pc = "loop" /\ url[src] # 0
             /\ url' = [url EXCEPT ![dst] = c]
             /\ src' = src + n /\ dst' = dst + 1
             /\ UNCHANGED <<asked, pc>>

percent == isEscape /\ put(3, (16 * hex(url[src + 1]) + hex(url[src + 2])) % 256)

plusAgain == url[src] = Plus /\ put(0, Space)  \* Mistake: src is not advanced.
plus == url[src] = Plus /\ put(1, Space)

copy == ~isEscape /\ url[src] # Plus /\ put(1, url[src])

finish == /\ pc = "loop" /\ url[src] = 0
          /\ url' = [url EXCEPT ![dst] = 0]
          /\ pc' = "done"
          /\ UNCHANGED <<asked, src, dst>>

urldecode == percent \/ plus \/ copy \/ finish

Next == parseUrl \/ urldecode

Spec == Init /\ [][Next]_vars

-----------------------------------------------------------------------------
(* urldecode(&url, &url): the array is read and written at once, yet what  *)
(* is still to be read is as the client sent it, up to the NUL, and nothing*)
(* is written beyond that.                                                 *)
InPlace ==
  pc = "loop" => /\ dst =< src /\ src =< Len(url)
                 /\ Len(url) = Len(asked.url)
                 /\ \A i \in src..Len(url) : url[i] = asked.url[i]

(* What the client meant is what the server looks up: each escape is       *)
(* decoded once, what looks like one is left alone, and a NUL ends it.     *)
Decodes ==
  pc = "done" /\ ~isHome =>
    /\ Len(url) > Len(asked.text)
    /\ SubSeq(url, 1, Len(asked.text)) = asked.text
    /\ url[Len(asked.text) + 1] = 0
=============================================================================
