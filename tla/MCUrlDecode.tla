---------------------------- MODULE MCUrlDecode -----------------------------
EXTENDS UrlDecode, SequencesExt, FiniteSets

CONSTANT MaxText  \* bound: characters the client means

Piece(code, byte) == [code |-> code, byte |-> byte]
Pieces == {Piece(<<c>>, c) : c \in {Slash, 52, 98, 71}}       \* / 4 b G
            \cup {Piece(<<Plus>>, Space), Piece(<<Percent>>, Percent)}
            \cup {Piece(<<Percent, 50, 98>>, Plus),           \* %2b %25 %41 %fF %00
                  Piece(<<Percent, 50, 53>>, Percent),
                  Piece(<<Percent, 52, 49>>, 65),
                  Piece(<<Percent, 102, 70>>, 255),
                  Piece(<<Percent, 48, 48>>, 0)}

Codes(p) == [i \in DOMAIN p |-> p[i].code]
Request(p) ==
  [url |-> Append(FlattenSeq(Codes(p)), 0),
   text |-> [i \in DOMAIN p |-> p[i].byte],
   from |-> [i \in 1..Len(p) + 1 |-> 1 + Len(FlattenSeq(SubSeq(Codes(p), 1, i - 1)))]]

(* A percent sign is left alone only where no escape begins.               *)
Requests == {a \in {Request(p) : p \in UNION {[1..n -> Pieces] : n \in 1..MaxText}} : spelled(a)}

Home == <<104, Percent, 50, 98>>  \* h%2b
=============================================================================
