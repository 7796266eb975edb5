--------------------------- MODULE UrlDecodeProofs ---------------------------
(***************************************************************************)
(* A URL is decoded in place to what the client meant, and the two pointers*)
(* stay in the string: for URLs of every length and every spelling.        *)
(***************************************************************************)
EXTENDS UrlDecode, TLAPS

(* Before each turn the pointer that writes is at the character the client *)
(* means next, the one that reads where its spelling begins; what is behind*)
(* the one is decoded, and what is ahead of the other is as it came.       *)
Decoding ==
  /\ dst \in 1..Len(asked.text) + 1
  /\ src = asked.from[dst]
  /\ dst =< src
  /\ url \in Seq(Byte) /\ Len(url) = Len(asked.url)
  /\ \A i \in src..Len(asked.url) : url[i] = asked.url[i]
  /\ \A i \in 1..dst - 1 : url[i] = asked.text[i]

Decoded ==
  /\ url \in Seq(Byte) /\ Len(url) > Len(asked.text)
  /\ \A i \in 1..Len(asked.text) : url[i] = asked.text[i]
  /\ url[Len(asked.text) + 1] = 0

Inv ==
  /\ asked \in Asked
  /\ pc \in {"parseUrl", "loop", "done"}
  /\ pc = "parseUrl" => url = asked.url /\ src = 1 /\ dst = 1
  /\ pc = "loop" => Decoding
  /\ pc = "done" /\ ~isHome => Decoded

(* What is known of a URL that a client may send.                          *)
LEMMA Spelled ==
  ASSUME NEW a \in Asked
  PROVE  /\ a.url \in Seq(Byte) /\ a.text \in Seq(Byte)
         /\ Len(a.url) \in Nat /\ Len(a.text) \in Nat
         /\ a.from[1] = 1 /\ a.from[Len(a.text) + 1] = Len(a.url)
         /\ a.url[Len(a.url)] = 0
         /\ \A i \in 1..Len(a.text) + 1 : a.from[i] \in 1..Len(a.url)
         /\ \A i \in 1..Len(a.text) : spells(a.url, a.from[i], a.from[i + 1], a.text[i])
  BY UrlsAreSpelled, SMTT(30) DEF spelled

(* The conversion of a digit, by way of the capital letters.               *)
LEMMA HexIsMeaning ==
  ASSUME NEW c, isxdigit(c)
  PROVE  hex(c) = meaning(c) /\ meaning(c) \in 0..15 /\ c # 0 /\ c \in Nat
  BY DEF isxdigit, hex, hexUpper, meaning, Digit, Upper, Lower

(* At the NUL everything has been decoded, and nowhere else.               *)
LEMMA EndIsNul ==
  ASSUME Inv, pc = "loop"
  PROVE  /\ url[src] = asked.url[src]
         /\ src \in 1..Len(asked.url) /\ Len(asked.url) \in Nat
         /\ url[src] = 0 => dst = Len(asked.text) + 1
         /\ url[src] # 0 => dst \in 1..Len(asked.text) /\ src + 1 \in 1..Len(asked.url)
<1>1. Decoding /\ asked \in Asked
  BY DEF Inv
<1>2. src \in 1..Len(asked.url) /\ Len(asked.url) \in Nat /\ Len(asked.text) \in Nat
  BY <1>1, Spelled DEF Decoding
<1>3. url[src] = asked.url[src]
  BY <1>1, <1>2 DEF Decoding
<1>4. CASE dst \in 1..Len(asked.text)
  <2>1. spells(asked.url, src, asked.from[dst + 1], asked.text[dst])
    BY <1>1, <1>4, Spelled DEF Decoding
  <2>2. asked.url[src] # 0
    BY <2>1, <1>2 DEF spells, Percent, Plus
  <2>3. asked.url[Len(asked.url)] = 0
    BY <1>1, Spelled
  <2>4. src # Len(asked.url)
    BY <2>2, <2>3
  <2> QED BY <1>2, <1>3, <1>4, <2>2, <2>4
<1>5. CASE dst = Len(asked.text) + 1
  <2>1. src = Len(asked.url) /\ asked.url[src] = 0
    BY <1>1, <1>5, Spelled DEF Decoding
  <2> QED BY <1>2, <1>3, <1>5, <2>1
<1>6. dst \in 1..Len(asked.text) \/ dst = Len(asked.text) + 1
  BY <1>1, <1>2 DEF Decoding
<1> QED BY <1>4, <1>5, <1>6

(* The loop finds an escape where the client has written one.              *)
LEMMA EscapeIsMeant ==
  ASSUME Inv, pc = "loop", url[src] # 0
  PROVE  /\ isEscape <=> /\ asked.url[src] = Percent
                         /\ isxdigit(asked.url[src + 1]) /\ isxdigit(asked.url[src + 2])
         /\ isEscape => /\ url[src + 1] = asked.url[src + 1]
                        /\ url[src + 2] = asked.url[src + 2]
<1>1. /\ url[src] = asked.url[src] /\ src \in 1..Len(asked.url)
      /\ Len(asked.url) \in Nat /\ src + 1 \in 1..Len(asked.url)
  BY EndIsNul
<1>2. \A i \in src..Len(asked.url) : url[i] = asked.url[i]
  BY DEF Inv, Decoding
<1>3. url[src + 1] = asked.url[src + 1]
  BY <1>1, <1>2
<1>4. isxdigit(url[src + 1]) => url[src + 2] = asked.url[src + 2]
  <2> SUFFICES ASSUME isxdigit(url[src + 1]) PROVE url[src + 2] = asked.url[src + 2]
    OBVIOUS
  <2>1. url[src + 1] # 0
    BY HexIsMeaning
  <2>2. asked.url[Len(asked.url)] = 0
    BY Spelled DEF Inv
  <2>3. src + 1 # Len(asked.url)
    BY <2>1, <2>2, <1>3
  <2>4. src + 2 \in src..Len(asked.url)
    BY <2>3, <1>1
  <2> QED BY <2>4, <1>2
<1> QED BY <1>1, <1>3, <1>4 DEF isEscape

(* A turn that writes the character meant and reads its spelling.          *)
LEMMA TurnDecodes ==
  ASSUME Inv, NEW n, NEW c, put(n, c),
         c = asked.text[dst], src + n = asked.from[dst + 1]
  PROVE  Inv'
<1>1. pc = "loop" /\ url[src] # 0
  BY DEF put
<1>2. /\ src \in 1..Len(asked.url) /\ Len(asked.url) \in Nat
      /\ dst \in 1..Len(asked.text)
  BY <1>1, EndIsNul
<1>3. Decoding /\ asked \in Asked
  BY <1>1 DEF Inv
<1>4. /\ asked.text \in Seq(Byte) /\ Len(asked.text) \in Nat
      /\ asked.from[dst + 1] \in 1..Len(asked.url)
      /\ spells(asked.url, src, asked.from[dst + 1], asked.text[dst])
  BY <1>2, <1>3, Spelled DEF Decoding
<1>5. asked.from[dst + 1] >= src + 1
  BY <1>2, <1>4 DEF spells
<1>6. /\ url' = [url EXCEPT ![dst] = c] /\ src' = asked.from[dst + 1] /\ dst' = dst + 1
      /\ asked' = asked /\ pc' = pc
  BY DEF put
<1>7. url \in Seq(Byte) /\ Len(url) = Len(asked.url) /\ dst =< src /\ c \in Byte
  BY <1>2, <1>3, <1>4 DEF Decoding
<1>8. dst \in 1..Len(url)
  BY <1>2, <1>7
<1>9. /\ url' \in Seq(Byte) /\ Len(url') = Len(url)
      /\ \A i \in 1..Len(url) : url'[i] = IF i = dst THEN c ELSE url[i]
  BY <1>6, <1>7, <1>8
<1>10. ASSUME NEW i \in src'..Len(asked.url) PROVE url'[i] = asked.url[i]
  <2>1. i \in src..Len(asked.url) /\ i \in 1..Len(url) /\ i # dst
    BY <1>2, <1>4, <1>5, <1>6, <1>7
  <2> QED BY <2>1, <1>3, <1>9 DEF Decoding
<1>11. ASSUME NEW i \in 1..dst' - 1 PROVE url'[i] = asked.text[i]
  <2>1. i \in 1..Len(url) /\ (i = dst \/ i \in 1..dst - 1)
    BY <1>2, <1>6, <1>8
  <2> QED BY <2>1, <1>3, <1>9 DEF Decoding
<1>12. dst' \in 1..Len(asked.text) + 1 /\ src' = asked.from[dst'] /\ dst' =< src'
  BY <1>2, <1>4, <1>5, <1>6, <1>7
<1>13. Decoding'
  BY <1>6, <1>7, <1>9, <1>10, <1>11, <1>12 DEF Decoding
<1> QED BY <1>1, <1>3, <1>6, <1>13 DEF Inv

LEMMA InitEstablishes == Init => Inv
  BY DEF Init, Inv

LEMMA NextPreserves == Inv /\ [Next]_vars => Inv'
<1> SUFFICES ASSUME Inv, [Next]_vars PROVE Inv'
  OBVIOUS
<1>1. CASE parseUrl
  <2>1. CASE isHome
    BY <1>1, <2>1 DEF parseUrl, Inv, isHome
  <2>2. CASE ~isHome
    <3>1. asked' = asked /\ url' = url /\ src' = src /\ dst' = dst /\ pc' = "loop"
      BY <1>1, <2>2 DEF parseUrl
    <3>2. url = asked.url /\ src = 1 /\ dst = 1 /\ asked \in Asked
      BY <1>1 DEF parseUrl, Inv
    <3>3. /\ asked.url \in Seq(Byte) /\ Len(asked.text) \in Nat /\ asked.from[1] = 1
      BY <3>2, Spelled
    <3>4. Decoding
      BY <3>2, <3>3 DEF Decoding
    <3>5. Decoding'
      BY <3>1, <3>4 DEF Decoding
    <3> QED BY <3>1, <3>2, <3>5 DEF Inv
  <2> QED BY <2>1, <2>2
<1>2. ASSUME pc = "loop", url[src] # 0
      PROVE  /\ spells(asked.url, src, asked.from[dst + 1], asked.text[dst])
             /\ url[src] = asked.url[src] /\ src \in Nat
  <2>1. dst \in 1..Len(asked.text) /\ src = asked.from[dst] /\ asked \in Asked
    BY <1>2, EndIsNul DEF Inv, Decoding
  <2> QED BY <1>2, <2>1, EndIsNul, Spelled
<1>3. CASE percent
  <2>1. isEscape /\ put(3, (16 * hex(url[src + 1]) + hex(url[src + 2])) % 256)
    BY <1>3 DEF percent
  <2>2. pc = "loop" /\ url[src] # 0
    BY <2>1 DEF put
  <2>3. /\ url[src + 1] = asked.url[src + 1] /\ url[src + 2] = asked.url[src + 2]
        /\ asked.url[src] = Percent
        /\ isxdigit(asked.url[src + 1]) /\ isxdigit(asked.url[src + 2])
    BY <2>1, <2>2, EscapeIsMeant
  <2>4. /\ asked.from[dst + 1] = src + 3
        /\ asked.text[dst] = 16 * meaning(asked.url[src + 1]) + meaning(asked.url[src + 2])
    BY <1>2, <2>2, <2>3 DEF spells, Percent, Plus
  <2>5. /\ hex(url[src + 1]) = meaning(asked.url[src + 1])
        /\ hex(url[src + 2]) = meaning(asked.url[src + 2])
        /\ meaning(asked.url[src + 1]) \in 0..15 /\ meaning(asked.url[src + 2]) \in 0..15
    BY <2>3, HexIsMeaning
  <2>6. \A h, l \in 0..15 : (16 * h + l) % 256 = 16 * h + l
    OBVIOUS
  <2>7. (16 * hex(url[src + 1]) + hex(url[src + 2])) % 256 = asked.text[dst]
    BY <2>4, <2>5, <2>6
  <2> QED BY <2>1, <2>4, <2>7, TurnDecodes
<1>4. CASE plus
  <2>1. url[src] = Plus /\ put(1, Space)
    BY <1>4 DEF plus
  <2>2. pc = "loop" /\ url[src] # 0
    BY <2>1 DEF put
  <2>3. asked.from[dst + 1] = src + 1 /\ asked.text[dst] = Space
    BY <1>2, <2>1, <2>2 DEF spells, Percent, Plus
  <2> QED BY <2>1, <2>3, TurnDecodes
<1>5. CASE copy
  <2>1. ~isEscape /\ url[src] # Plus /\ put(1, url[src])
    BY <1>5 DEF copy
  <2>2. pc = "loop" /\ url[src] # 0
    BY <2>1 DEF put
  <2>3. ~(/\ asked.url[src] = Percent
          /\ isxdigit(asked.url[src + 1]) /\ isxdigit(asked.url[src + 2]))
    BY <2>1, <2>2, EscapeIsMeant
  <2>4. asked.from[dst + 1] = src + 1 /\ asked.text[dst] = url[src]
    BY <1>2, <2>1, <2>2, <2>3 DEF spells
  <2> QED BY <2>1, <2>4, TurnDecodes
<1>6. CASE finish
  <2>1. /\ pc = "loop" /\ url[src] = 0 /\ pc' = "done"
        /\ url' = [url EXCEPT ![dst] = 0] /\ asked' = asked
    BY <1>6 DEF finish
  <2>2. /\ dst = Len(asked.text) + 1 /\ src \in 1..Len(asked.url) /\ Len(asked.url) \in Nat
    BY <2>1, EndIsNul
  <2>3. Decoding /\ asked \in Asked
    BY <2>1 DEF Inv
  <2>4. Len(asked.text) \in Nat
    BY <2>3, Spelled
  <2>5. /\ url \in Seq(Byte) /\ Len(url) = Len(asked.url) /\ dst \in 1..Len(url)
    BY <2>2, <2>3, <2>4 DEF Decoding
  <2>6. /\ url' \in Seq(Byte) /\ Len(url') = Len(url)
        /\ \A i \in 1..Len(url) : url'[i] = IF i = dst THEN 0 ELSE url[i]
    BY <2>1, <2>5 DEF Byte
  <2>7. ASSUME NEW i \in 1..Len(asked.text) PROVE url'[i] = asked.text[i]
    <3>1. i \in 1..Len(url) /\ i # dst /\ i \in 1..dst - 1
      BY <2>2, <2>4, <2>5
    <3> QED BY <3>1, <2>3, <2>6 DEF Decoding
  <2>8. Decoded'
    BY <2>1, <2>2, <2>4, <2>5, <2>6, <2>7 DEF Decoded
  <2> QED BY <2>1, <2>3, <2>8 DEF Inv
<1>7. CASE UNCHANGED vars
  BY <1>7 DEF vars, Inv, Decoding, Decoded, isHome
<1> QED BY <1>1, <1>3, <1>4, <1>5, <1>6, <1>7 DEF Next, urldecode

LEMMA InvImplies == Inv => InPlace /\ Decodes
<1> SUFFICES ASSUME Inv PROVE InPlace /\ Decodes
  OBVIOUS
<1>1. asked \in Asked
  BY DEF Inv
<1>2. InPlace
  <2> SUFFICES ASSUME pc = "loop"
               PROVE  /\ dst =< src /\ src =< Len(url)
                      /\ Len(url) = Len(asked.url)
                      /\ \A i \in src..Len(url) : url[i] = asked.url[i]
    BY DEF InPlace
  <2>1. src \in 1..Len(asked.url) /\ Len(asked.url) \in Nat
    BY EndIsNul
  <2> QED BY <2>1 DEF Inv, Decoding
<1>3. Decodes
  <2> SUFFICES ASSUME pc = "done", ~isHome
               PROVE  /\ Len(url) > Len(asked.text)
                      /\ SubSeq(url, 1, Len(asked.text)) = asked.text
                      /\ url[Len(asked.text) + 1] = 0
    BY DEF Decodes
  <2>1. Decoded
    BY DEF Inv
  <2>2. asked.text \in Seq(Byte) /\ Len(asked.text) \in Nat
    BY <1>1, Spelled
  <2>3. ASSUME NEW s \in Seq(Byte), NEW t \in Seq(Byte), Len(s) > Len(t),
               \A i \in 1..Len(t) : s[i] = t[i]
        PROVE  SubSeq(s, 1, Len(t)) = t
    BY <2>3
  <2> QED BY <2>1, <2>2, <2>3 DEF Decoded
<1> QED BY <1>2, <1>3

LEMMA AlwaysInv == Spec => []Inv
  BY InitEstablishes, NextPreserves, PTL DEF Spec

(* HttpParser::urldecode, called with the same array twice: whatever the   *)
(* URL, the bytes still to be read are those that came, and neither pointer*)
(* passes the NUL.                                                         *)
THEOREM DecodingInPlace == Spec => []InPlace
  BY AlwaysInv, InvImplies, PTL

(* HttpParser::parseUrl: the result is what the client meant, whatever the *)
(* URL and whichever spelling it has chosen for each character.            *)
THEOREM DecodingIsRight == Spec => []Decodes
  BY AlwaysInv, InvImplies, PTL
=============================================================================
