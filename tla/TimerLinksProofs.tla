-------------------------- MODULE TimerLinksProofs --------------------------
(***************************************************************************)
(* What the pointer operations of TimerLinks do to a well-formed list.     *)
(* Both TimerManager and TcpServer keep such a list; their proofs cite     *)
(* these lemmas.                                                           *)
(***************************************************************************)
EXTENDS TimerOrder, SequenceTheorems, FiniteSetTheorems, TLAPS

(* The list of a new TimerManager is the chain through no timer.           *)
LEMMA EmptyIsWellLinked == EmptyList \in List /\ WellLinked(EmptyList, {})
  BY SentinelsDistinct DEF EmptyList, List, Node, WellLinked, BothWays, Acyclic

(* The pointer operations make lists of lists.                             *)
LEMMA LinksType ==
  ASSUME NEW L \in List, NEW t \in Timer
  PROVE  addToHead(L, t) \in List /\ unlink(L, t) \in List /\ moveToHead(L, t) \in List
<1>1. \A K \in List : addToHead(K, t) \in List /\ unlink(K, t) \in List
  BY DEF List, Node, addToHead, unlink
<1> QED BY <1>1 DEF moveToHead

(* addToHead writes these four pointers and no other.                      *)
LEMMA AddToHeadPointers ==
  ASSUME NEW L \in List, NEW S \in SUBSET Timer, WellLinked(L, S),
         NEW t \in Timer, t \notin S
  PROVE  LET A == addToHead(L, t)
             f == L.next[HeadNode] IN
         /\ A.next[t] = f /\ A.next[HeadNode] = t
         /\ A.last[f] = t /\ A.last[t] = HeadNode
         /\ \A n \in Node \ {t, HeadNode} : A.next[n] = L.next[n]
         /\ \A n \in Node \ {t, f} : A.last[n] = L.last[n]
<1> DEFINE f == L.next[HeadNode]
<1>1. f \in S \cup {TailNode} /\ f # t /\ f \in Node
  BY SentinelsDistinct DEF WellLinked, BothWays, Node
<1>2. L.next \in [Node -> Node] /\ L.last \in [Node -> Node] /\ t # HeadNode
      /\ t \in Node /\ HeadNode \in Node
  BY SentinelsDistinct DEF List, Node
<1> QED BY <1>1, <1>2 DEF addToHead

(* unlink writes these two pointers and no other.                          *)
LEMMA UnlinkPointers ==
  ASSUME NEW L \in List, NEW S \in SUBSET Timer, WellLinked(L, S), NEW t \in S
  PROVE  LET U == unlink(L, t) IN
         /\ U.next[L.last[t]] = L.next[t]
         /\ U.last[L.next[t]] = L.last[t]
         /\ \A n \in Node \ {L.last[t]} : U.next[n] = L.next[n]
         /\ \A n \in Node \ {L.next[t]} : U.last[n] = L.last[n]
<1>1. L.last[t] # t
  <2>1. {t} \in SUBSET S /\ {t} # {}
    OBVIOUS
  <2>2. \E u \in {t} : L.last[u] \notin {t}
    BY <2>1 DEF WellLinked, Acyclic
  <2> QED BY <2>2
<1>2. /\ L.next \in [Node -> Node] /\ L.last \in [Node -> Node]
      /\ t \in Node /\ L.last[t] \in Node /\ L.next[t] \in Node
  BY DEF List, Node
<1> QED BY <1>1, <1>2 DEF unlink

(* A timer that is not on the list is put on it, first.                    *)
THEOREM AddToHeadIsWellLinked ==
  ASSUME NEW L \in List, NEW S \in SUBSET Timer, WellLinked(L, S),
         NEW t \in Timer, t \notin S
  PROVE  WellLinked(addToHead(L, t), S \cup {t}) /\ addToHead(L, t).last[t] = HeadNode
<1> DEFINE f == L.next[HeadNode]
           A == addToHead(L, t)
<1>1. /\ A.next[t] = f /\ A.next[HeadNode] = t
      /\ A.last[f] = t /\ A.last[t] = HeadNode
      /\ \A n \in Node \ {t, HeadNode} : A.next[n] = L.next[n]
      /\ \A n \in Node \ {t, f} : A.last[n] = L.last[n]
  BY AddToHeadPointers
<1>2. /\ \A n \in S \cup {HeadNode} : L.next[n] \in S \cup {TailNode} /\ L.last[L.next[n]] = n
      /\ \A n \in S \cup {TailNode} : L.last[n] \in S \cup {HeadNode} /\ L.next[L.last[n]] = n
  BY DEF WellLinked, BothWays
<1>3. /\ S \subseteq Node /\ {t, HeadNode, TailNode} \subseteq Node
      /\ t \notin {HeadNode, TailNode} /\ HeadNode # TailNode
      /\ HeadNode \notin S /\ TailNode \notin S
  BY SentinelsDistinct DEF Node
<1> HIDE DEF A
<1>4. \A n \in S \cup {t, HeadNode} :
        A.next[n] \in S \cup {t, TailNode} /\ A.last[A.next[n]] = n
  BY <1>1, <1>2, <1>3
<1>5. \A n \in S \cup {t, TailNode} :
        A.last[n] \in S \cup {t, HeadNode} /\ A.next[A.last[n]] = n
  BY <1>1, <1>2, <1>3
<1>6. BothWays(A, S \cup {t})
  BY <1>4, <1>5 DEF BothWays
<1>7. Acyclic(A, S \cup {t})
  <2> SUFFICES ASSUME NEW G \in SUBSET (S \cup {t}), G # {}
               PROVE  \E u \in G : A.last[u] \notin G
    BY DEF Acyclic
  <2>1. CASE t \in G
    BY <2>1, <1>1, <1>3
  <2>2. CASE t \notin G
    <3>1. PICK u \in G : L.last[u] \notin G
      BY <2>2 DEF WellLinked, Acyclic
    <3> QED BY <3>1, <2>2, <1>1, <1>3
  <2> QED BY <2>1, <2>2
<1> QED BY <1>1, <1>6, <1>7 DEF WellLinked, A

(* A timer of the list is taken off it; the others stay.                   *)
THEOREM UnlinkIsWellLinked ==
  ASSUME NEW L \in List, NEW S \in SUBSET Timer, WellLinked(L, S), NEW t \in S
  PROVE  WellLinked(unlink(L, t), S \ {t})
<1> DEFINE U == unlink(L, t)
           p == L.last[t]
           q == L.next[t]
<1>1. /\ U.next[p] = q
      /\ U.last[q] = p
      /\ \A n \in Node \ {p} : U.next[n] = L.next[n]
      /\ \A n \in Node \ {q} : U.last[n] = L.last[n]
  BY UnlinkPointers
<1>2. /\ \A n \in S \cup {HeadNode} : L.next[n] \in S \cup {TailNode} /\ L.last[L.next[n]] = n
      /\ \A n \in S \cup {TailNode} : L.last[n] \in S \cup {HeadNode} /\ L.next[L.last[n]] = n
  BY DEF WellLinked, BothWays
<1>3. /\ S \subseteq Node /\ {t, HeadNode, TailNode} \subseteq Node
      /\ t \notin {HeadNode, TailNode} /\ HeadNode # TailNode
      /\ HeadNode \notin S /\ TailNode \notin S
  BY SentinelsDistinct DEF Node
<1>4. Acyclic(L, S)
  BY DEF WellLinked
<1> HIDE DEF U
<1>5. BothWays(U, S \ {t})
  <2>1. p # t /\ q # t
    <3>1. {t} \in SUBSET S /\ {t} # {}
      OBVIOUS
    <3>2. \E u \in {t} : L.last[u] \notin {t}
      BY <3>1, <1>4 DEF Acyclic
    <3> QED BY <3>2, <1>2
  <2>2. \A n \in (S \ {t}) \cup {HeadNode} :
          U.next[n] \in (S \ {t}) \cup {TailNode} /\ U.last[U.next[n]] = n
    BY <2>1, <1>1, <1>2, <1>3
  <2>3. \A n \in (S \ {t}) \cup {TailNode} :
          U.last[n] \in (S \ {t}) \cup {HeadNode} /\ U.next[U.last[n]] = n
    BY <2>1, <1>1, <1>2, <1>3
  <2> QED BY <2>2, <2>3 DEF BothWays
<1>6. Acyclic(U, S \ {t})
  <2> SUFFICES ASSUME NEW G \in SUBSET (S \ {t}), G # {}
               PROVE  \E u \in G : U.last[u] \notin G
    BY DEF Acyclic
  (* Where last of t's successor now skips t, look at the group with t.    *)
  <2>1. CASE q \in G
    <3>1. G \cup {t} \in SUBSET S /\ G \cup {t} # {}
      OBVIOUS
    <3>2. PICK u \in G \cup {t} : L.last[u] \notin G \cup {t}
      BY <3>1, <1>4 DEF Acyclic
    <3>3. u # q
      BY <3>2, <1>2
    <3>4. CASE u = t
      BY <3>2, <3>4, <2>1, <1>1
    <3>5. CASE u \in G
      BY <3>2, <3>3, <3>5, <1>1, <1>3
    <3> QED BY <3>4, <3>5
  <2>2. CASE q \notin G
    <3>1. PICK u \in G : L.last[u] \notin G
      BY <1>4 DEF Acyclic
    <3> QED BY <3>1, <2>2, <1>1, <1>3
  <2> QED BY <2>1, <2>2
<1> QED BY <1>5, <1>6 DEF WellLinked, U

(* A timer of the list becomes its first.                                  *)
THEOREM MoveToHeadIsWellLinked ==
  ASSUME NEW L \in List, NEW S \in SUBSET Timer, WellLinked(L, S), NEW t \in S
  PROVE  WellLinked(moveToHead(L, t), S)
<1>1. unlink(L, t) \in List
  BY LinksType
<1>2. WellLinked(unlink(L, t), S \ {t})
  BY UnlinkIsWellLinked
<1>3. WellLinked(addToHead(unlink(L, t), t), (S \ {t}) \cup {t})
  BY <1>1, <1>2, AddToHeadIsWellLinked
<1>4. (S \ {t}) \cup {t} = S
  OBVIOUS
<1> QED BY <1>3, <1>4 DEF moveToHead

-----------------------------------------------------------------------------
(* The operations put no pointer in a last field but these.                *)
LEMMA LastValues ==
  ASSUME NEW L \in List, NEW t \in Timer, NEW n \in Node
  PROVE  /\ addToHead(L, t).last[n] \in {L.last[n], t, HeadNode}
         /\ unlink(L, t).last[n] \in {L.last[n], L.last[t]}
         /\ moveToHead(L, t).last[n] \in {L.last[n], L.last[t], t, HeadNode}
<1>1. \A K \in List : /\ addToHead(K, t).last[n] \in {K.last[n], t, HeadNode}
                      /\ unlink(K, t).last[n] \in {K.last[n], K.last[t]}
  BY DEF List, Node, addToHead, unlink
<1>2. unlink(L, t) \in List
  BY LinksType
<1> QED BY <1>1, <1>2 DEF moveToHead

(* A list S in L whose ages f do not grow towards the head.                *)
SortedBy(L, S, f) ==
  \A n \in S : f[n] \in Nat /\ (L.last[n] # HeadNode => f[L.last[n]] =< f[n])

LEMMA AddToHeadIsSorted ==
  ASSUME NEW L \in List, NEW S \in SUBSET Timer, WellLinked(L, S),
         NEW t \in Timer, t \notin S, NEW f, SortedBy(L, S, f),
         NEW g, g[t] = 0, \A n \in S : g[n] = f[n]
  PROVE  SortedBy(addToHead(L, t), S \cup {t}, g)
<1> DEFINE A == addToHead(L, t)
           q == L.next[HeadNode]
<1>1. /\ A.last[q] = t /\ A.last[t] = HeadNode
      /\ \A n \in Node \ {t, q} : A.last[n] = L.last[n]
  BY AddToHeadPointers
<1>2. S \subseteq Node /\ \A n \in S : L.last[n] \in S \cup {HeadNode}
  BY DEF WellLinked, BothWays, Node
<1> HIDE DEF A, q
<1>3. ASSUME NEW n \in S \cup {t}
      PROVE  g[n] \in Nat /\ (A.last[n] # HeadNode => g[A.last[n]] =< g[n])
  <2>1. CASE n = t
    BY <2>1, <1>1
  <2>2. CASE n \in S /\ n = q
    BY <2>2, <1>1 DEF SortedBy
  <2>3. CASE n \in S /\ n # q
    BY <2>3, <1>1, <1>2 DEF SortedBy
  <2> QED BY <2>1, <2>2, <2>3
<1> QED BY <1>3 DEF SortedBy, A

LEMMA UnlinkIsSorted ==
  ASSUME NEW L \in List, NEW S \in SUBSET Timer, WellLinked(L, S), NEW t \in S,
         NEW f, SortedBy(L, S, f)
  PROVE  SortedBy(unlink(L, t), S \ {t}, f)
<1> DEFINE U == unlink(L, t)
           q == L.next[t]
<1>1. U.last[q] = L.last[t] /\ \A n \in Node \ {q} : U.last[n] = L.last[n]
  BY UnlinkPointers
<1>2. /\ S \subseteq Node
      /\ \A n \in S : L.last[n] \in S \cup {HeadNode}
      /\ L.last[q] = t /\ t # HeadNode
  BY SentinelsDistinct DEF WellLinked, BothWays, Node
<1> HIDE DEF U, q
<1>3. ASSUME NEW n \in S \ {t}
      PROVE  f[n] \in Nat /\ (U.last[n] # HeadNode => f[U.last[n]] =< f[n])
  <2>1. CASE n = q
    <3>1. f[n] \in Nat /\ f[t] \in Nat /\ f[t] =< f[n]
      BY <2>1, <1>2 DEF SortedBy
    <3>2. L.last[t] # HeadNode => f[L.last[t]] \in Nat /\ f[L.last[t]] =< f[t]
      BY <1>2 DEF SortedBy
    <3> QED BY <3>1, <3>2, <2>1, <1>1
  <2>2. CASE n # q
    BY <2>2, <1>1, <1>2 DEF SortedBy
  <2> QED BY <2>1, <2>2
<1> QED BY <1>3 DEF SortedBy, U
-----------------------------------------------------------------------------
(* The list as a sequence.  That a finite one lies on the list is carried  *)
(* along from operation to operation, because to construct it from the     *)
(* pointers would take induction; that there is but one follows from the   *)
(* least place at which two would differ.                                  *)

(* What comes before the i-th of the sequence s.                           *)
before(s, i) == IF i = 1 THEN HeadNode ELSE s[i - 1]

(* L leads from HeadNode through all of S, in the order of s.              *)
IsChain(L, S, s) ==
  /\ s \in Seq(S)
  /\ \A i, j \in 1..Len(s) : s[i] = s[j] => i = j
  /\ \A t \in S : \E i \in 1..Len(s) : s[i] = t
  /\ \A i \in 1..Len(s) : s[i] = L.next[before(s, i)]

(* A set of naturals that has elements has a least one.                    *)
LEMMA LeastElement ==
  ASSUME NEW T, T \subseteq Nat, T # {}
  PROVE  \E i \in T : \A j \in T : i =< j
<1>1. PICK i \in T : \A j \in T : <<j, i>> \notin OpToRel(<, Nat)
  BY NatLessThanWellFounded, WFMin
<1>2. ASSUME NEW j \in T PROVE i =< j
  <2>1. i \in Nat /\ j \in Nat
    OBVIOUS
  <2>2. ~(j < i)
    BY <1>1, <2>1 DEF OpToRel
  <2> QED BY <2>1, <2>2
<1> QED BY <1>2

(* A chain is what Walk finds.                                             *)
LEMMA ChainIsWalk ==
  ASSUME NEW L, NEW S, NEW s, IsChain(L, S, s)
  PROVE  Cardinality(S) = Len(s) /\ Walk(L, Len(s)) = s
<1> DEFINE n == Len(s)
           at == CHOOSE h : h = [k \in 0..n |-> IF k = 0 THEN HeadNode ELSE L.next[h[k - 1]]]
           g == [k \in 0..n |-> IF k = 0 THEN HeadNode ELSE s[k]]
<1>1. s \in Seq(S) /\ n \in Nat
  BY DEF IsChain
<1>2. Cardinality(S) = n
  <2>1. s \in [1..n -> S]
    BY <1>1
  <2>2. s \in Bijection(1..n, S)
    BY <2>1 DEF IsChain, Bijection, Injection, Surjection, IsInjective
  <2> QED BY <1>1, <2>2, FS_CountingElements DEF ExistsBijection
<1>3. g = [k \in 0..n |-> IF k = 0 THEN HeadNode ELSE L.next[g[k - 1]]]
  <2>1. ASSUME NEW k \in 1..n PROVE g[k] = L.next[g[k - 1]]
    <3>1. g[k] = s[k] /\ g[k - 1] = before(s, k)
      BY <1>1 DEF before
    <3> QED BY <3>1 DEF IsChain
  <2>2. \A k \in 0..n : g[k] = IF k = 0 THEN HeadNode ELSE L.next[g[k - 1]]
    BY <1>1, <2>1
  <2>3. g = [k \in 0..n |-> g[k]]
    OBVIOUS
  <2> HIDE DEF g
  <2> QED BY <2>2, <2>3
<1> HIDE DEF g, n
<1>4. at = [k \in 0..n |-> IF k = 0 THEN HeadNode ELSE L.next[at[k - 1]]]
  BY <1>3
<1>5. Walk(L, n) = [k \in 1..n |-> at[k]]
  BY DEF Walk
<1> HIDE DEF at
<1>6. ASSUME NEW k \in 0..n PROVE at[k] = g[k]
  <2> DEFINE T == {j \in 0..n : at[j] # g[j]}
  <2> SUFFICES ASSUME T # {} PROVE FALSE
    BY <1>6
  <2>1. PICK j \in T : \A i \in T : j =< i
    <3>1. T \subseteq Nat
      BY <1>1
    <3> HIDE DEF T
    <3> QED BY <3>1, LeastElement
  <2>2. at[0] = HeadNode /\ g[0] = HeadNode
    BY <1>1, <1>3, <1>4
  <2>3. j \in 1..n /\ j - 1 \in 0..n /\ j - 1 \notin T
    BY <1>1, <2>1, <2>2
  <2>4. at[j] = L.next[at[j - 1]] /\ g[j] = L.next[g[j - 1]]
    BY <1>3, <1>4, <2>3
  <2> QED BY <2>1, <2>3, <2>4
<1>7. \A k \in 1..n : at[k] = s[k]
  BY <1>1, <1>6 DEF g
<1> QED BY <1>1, <1>2, <1>5, <1>7 DEF n

(* The descriptors f along a sequence of timers; along a chain, they are   *)
(* the order.                                                              *)
along(s, f) == [k \in 1..Len(s) |-> f[s[k]]]

LEMMA ChainIsOrder ==
  ASSUME NEW L, NEW S, NEW s, IsChain(L, S, s), NEW f
  PROVE  FdOrder(L, S, f) = along(s, f)
<1>1. Cardinality(S) = Len(s) /\ Walk(L, Len(s)) = s
  BY ChainIsWalk
<1> QED BY <1>1 DEF FdOrder, along

(* The list of a new TimerManager.                                         *)
LEMMA EmptyIsChain == IsChain(EmptyList, {}, <<>>)
  BY DEF IsChain

(* A timer put on the list comes first.                                    *)
LEMMA AddToHeadChain ==
  ASSUME NEW L \in List, NEW S \in SUBSET Timer, WellLinked(L, S),
         NEW t \in Timer, t \notin S, NEW s, IsChain(L, S, s)
  PROVE  IsChain(addToHead(L, t), S \cup {t}, <<t>> \o s)
<1> DEFINE A == addToHead(L, t)
           z == <<t>> \o s
<1>1. /\ A.next[t] = L.next[HeadNode] /\ A.next[HeadNode] = t
      /\ \A n \in Node \ {t, HeadNode} : A.next[n] = L.next[n]
  BY AddToHeadPointers
<1>2. s \in Seq(S) /\ Len(s) \in Nat
  BY DEF IsChain
<1>3. /\ z \in Seq(S \cup {t}) /\ Len(z) = Len(s) + 1
      /\ z[1] = t /\ \A i \in 2..Len(z) : z[i] = s[i - 1] /\ s[i - 1] \in S
  BY <1>2
<1> HIDE DEF A, z
<1>4. \A i, j \in 1..Len(z) : z[i] = z[j] => i = j
  <2> SUFFICES ASSUME NEW i \in 1..Len(z), NEW j \in 1..Len(z), z[i] = z[j]
               PROVE  i = j
    OBVIOUS
  <2>1. i = 1 <=> j = 1
    BY <1>2, <1>3
  <2>2. CASE i # 1
    <3>1. i - 1 \in 1..Len(s) /\ j - 1 \in 1..Len(s) /\ s[i - 1] = s[j - 1]
      BY <2>1, <2>2, <1>2, <1>3
    <3>2. i - 1 = j - 1
      BY <3>1 DEF IsChain
    <3> QED BY <3>2, <1>2, <1>3
  <2> QED BY <2>1, <2>2
<1>5. \A u \in S \cup {t} : \E i \in 1..Len(z) : z[i] = u
  <2>1. ASSUME NEW u \in S PROVE \E i \in 1..Len(z) : z[i] = u
    <3>1. PICK i \in 1..Len(s) : s[i] = u
      BY DEF IsChain
    <3>2. i + 1 \in 2..Len(z) /\ z[i + 1] = s[i]
      BY <1>2, <1>3, <3>1, SMTT(30)
    <3> QED BY <3>1, <3>2
  <2> QED BY <2>1, <1>2, <1>3
<1>6. \A i \in 1..Len(z) : z[i] = A.next[before(z, i)]
  <2> SUFFICES ASSUME NEW i \in 1..Len(z) PROVE z[i] = A.next[before(z, i)]
    OBVIOUS
  <2>1. CASE i = 1
    BY <2>1, <1>1, <1>3 DEF before
  <2>2. CASE i = 2
    <3>1. z[2] = s[1] /\ before(z, 2) = t /\ 1 \in 1..Len(s)
      BY <2>2, <1>2, <1>3 DEF before
    <3>2. s[1] = L.next[HeadNode]
      BY <3>1 DEF IsChain, before
    <3> QED BY <2>2, <3>1, <3>2, <1>1
  <2>3. CASE i > 2
    <3>1. i - 1 \in 1..Len(s) /\ i - 2 \in 1..Len(s) /\ i \in 2..Len(z) /\ i - 1 \in 2..Len(z)
      BY <2>3, <1>2, <1>3
    <3>2. /\ z[i] = s[i - 1] /\ before(z, i) = z[i - 1]
          /\ z[i - 1] = s[i - 1 - 1] /\ before(s, i - 1) = s[i - 1 - 1]
          /\ s[i - 1 - 1] \in S
      BY <2>3, <3>1, <1>3 DEF before
    <3>3. s[i - 1] = L.next[s[i - 1 - 1]]
      BY <3>1, <3>2 DEF IsChain
    <3>4. s[i - 1 - 1] \in Node \ {t, HeadNode}
      BY <3>2, SentinelsDistinct DEF Node
    <3> QED BY <3>2, <3>3, <3>4, <1>1
  <2> QED BY <2>1, <2>2, <2>3, <1>2, <1>3
<1> QED BY <1>3, <1>4, <1>5, <1>6 DEF IsChain, A, z
(* The sequence s without its j-th element.                                *)
without(s, j) == SubSeq(s, 1, j - 1) \o SubSeq(s, j + 1, Len(s))

LEMMA ConcatElements ==
  ASSUME NEW S, NEW s \in Seq(S), NEW t \in Seq(S)
  PROVE  /\ s \o t \in Seq(S)
         /\ Len(s \o t) = Len(s) + Len(t)
         /\ \A i \in 1..Len(s) : (s \o t)[i] = s[i]
         /\ \A i \in Len(s) + 1..Len(s) + Len(t) : (s \o t)[i] = t[i - Len(s)]
  OBVIOUS

LEMMA WithoutElements ==
  ASSUME NEW S, NEW s \in Seq(S), NEW j \in 1..Len(s)
  PROVE  /\ without(s, j) \in Seq(S)
         /\ Len(without(s, j)) = Len(s) - 1
         /\ \A i \in 1..Len(s) - 1 :
              without(s, j)[i] = IF i < j THEN s[i] ELSE s[i + 1]
<1> DEFINE a == SubSeq(s, 1, j - 1)
           b == SubSeq(s, j + 1, Len(s))
<1>1. Len(s) \in Nat /\ j \in Nat
  OBVIOUS
<1>2. a \in Seq(S) /\ Len(a) = j - 1 /\ \A i \in 1..j - 1 : a[i] = s[i]
  BY <1>1
<1>3. b \in Seq(S) /\ Len(b) = Len(s) - j /\ \A i \in 1..Len(s) - j : b[i] = s[j + i]
  BY <1>1
<1> HIDE DEF a, b
<1>4. /\ a \o b \in Seq(S) /\ Len(a \o b) = Len(s) - 1
      /\ \A i \in 1..j - 1 : (a \o b)[i] = a[i]
      /\ \A i \in j..Len(s) - 1 : (a \o b)[i] = b[i - (j - 1)]
  <2>1. /\ a \o b \in Seq(S) /\ Len(a \o b) = Len(a) + Len(b)
        /\ \A i \in 1..Len(a) : (a \o b)[i] = a[i]
        /\ \A i \in Len(a) + 1..Len(a) + Len(b) : (a \o b)[i] = b[i - Len(a)]
    BY <1>2, <1>3, ConcatElements, ZenonT(30)
  <2> QED BY <2>1, <1>1, <1>2, <1>3
<1>5. ASSUME NEW i \in 1..Len(s) - 1
      PROVE  (a \o b)[i] = IF i < j THEN s[i] ELSE s[i + 1]
  <2>1. CASE i < j
    <3>1. i \in 1..j - 1
      BY <2>1, <1>1
    <3> QED BY <3>1, <2>1, <1>2, <1>4
  <2>2. CASE ~(i < j)
    <3>1. i \in j..Len(s) - 1 /\ i - (j - 1) \in 1..Len(s) - j /\ j + (i - (j - 1)) = i + 1
      BY <2>2, <1>1
    <3> QED BY <3>1, <2>2, <1>3, <1>4
  <2> QED BY <2>1, <2>2
<1> QED BY <1>4, <1>5 DEF without, a, b

(* A timer taken off the list leaves the others in their order.            *)
LEMMA UnlinkChain ==
  ASSUME NEW L \in List, NEW S \in SUBSET Timer, WellLinked(L, S),
         NEW s, IsChain(L, S, s), NEW j \in 1..Len(s)
  PROVE  IsChain(unlink(L, s[j]), S \ {s[j]}, without(s, j))
<1> DEFINE t == s[j]
           U == unlink(L, t)
           z == without(s, j)
<1>1. s \in Seq(S) /\ Len(s) \in Nat /\ t \in S /\ j \in Nat
  BY DEF IsChain
<1>2. \A i \in 1..Len(s) : before(s, i) \in S \cup {HeadNode} /\ before(s, i) \in Node
  BY <1>1 DEF before, Node
<1>3. L.last[t] = before(s, j)
  <2>1. t = L.next[before(s, j)]
    BY DEF IsChain
  <2> QED BY <2>1, <1>2 DEF WellLinked, BothWays
<1>4. /\ U.next[before(s, j)] = L.next[t]
      /\ \A n \in Node \ {before(s, j)} : U.next[n] = L.next[n]
  BY <1>1, <1>3, UnlinkPointers
<1>5. z \in Seq(S) /\ Len(z) = Len(s) - 1
      /\ \A i \in 1..Len(s) - 1 : z[i] = IF i < j THEN s[i] ELSE s[i + 1]
  BY <1>1, WithoutElements
<1> HIDE DEF U, z
<1>6. \A i, k \in 1..Len(s) : s[i] = s[k] => i = k
  BY DEF IsChain
<1>7. \A i \in 1..Len(z) : z[i] # t
  <2> SUFFICES ASSUME NEW i \in 1..Len(z) PROVE z[i] # t
    OBVIOUS
  <2>1. i \in 1..Len(s) /\ i + 1 \in 1..Len(s)
    BY <1>1, <1>5
  <2> QED BY <2>1, <1>1, <1>5, <1>6
<1>8. z \in Seq(S \ {t})
  <2>1. \A i \in 1..Len(z) : z[i] \in S \ {t}
    BY <1>5, <1>7
  <2> QED BY <2>1, <1>5
<1>9. \A i, k \in 1..Len(z) : z[i] = z[k] => i = k
  <2> SUFFICES ASSUME NEW i \in 1..Len(z), NEW k \in 1..Len(z), z[i] = z[k]
               PROVE  i = k
    OBVIOUS
  <2>1. i \in 1..Len(s) /\ i + 1 \in 1..Len(s) /\ k \in 1..Len(s) /\ k + 1 \in 1..Len(s)
    BY <1>1, <1>5
  <2> QED BY <2>1, <1>1, <1>5, <1>6
<1>10. \A u \in S \ {t} : \E i \in 1..Len(z) : z[i] = u
  <2> SUFFICES ASSUME NEW u \in S \ {t} PROVE \E i \in 1..Len(z) : z[i] = u
    OBVIOUS
  <2>1. PICK i \in 1..Len(s) : s[i] = u
    BY DEF IsChain
  <2>2. i # j
    BY <2>1
  <2>3. CASE i < j
    <3>1. i \in 1..Len(z) /\ z[i] = u
      BY <2>1, <2>3, <1>1, <1>5
    <3> QED BY <3>1
  <2>4. CASE i > j
    <3>1. i - 1 \in 1..Len(z) /\ z[i - 1] = u
      BY <2>1, <2>4, <1>1, <1>5
    <3> QED BY <3>1
  <2> QED BY <2>2, <2>3, <2>4, <1>1
<1>11. \A i \in 1..Len(z) : z[i] = U.next[before(z, i)]
  <2> SUFFICES ASSUME NEW i \in 1..Len(z) PROVE z[i] = U.next[before(z, i)]
    OBVIOUS
  <2>0. /\ i \in 1..Len(s) /\ i + 1 \in 1..Len(s) /\ i \in Nat
        /\ s[i] = L.next[before(s, i)] /\ s[i + 1] = L.next[s[i]]
    <3>1. i \in 1..Len(s) /\ i + 1 \in 1..Len(s) /\ i \in Nat
      BY <1>1, <1>5
    <3>2. before(s, i + 1) = s[i]
      BY <3>1 DEF before
    <3> QED BY <3>1, <3>2 DEF IsChain
  <2>1. CASE i < j
    <3>1. z[i] = s[i] /\ before(z, i) = before(s, i)
      BY <2>0, <2>1, <1>1, <1>5 DEF before
    <3>2. before(s, i) # before(s, j)
      <4>1. CASE i = 1
        BY <4>1, <2>1, <1>1, SentinelsDistinct DEF before
      <4>2. CASE i # 1
        <5>1. i - 1 \in 1..Len(s) /\ j - 1 \in 1..Len(s) /\ i - 1 # j - 1 /\ j # 1
          BY <4>2, <2>0, <2>1, <1>1
        <5> QED BY <5>1, <4>2, <1>6 DEF before
      <4> QED BY <4>1, <4>2
    <3> QED BY <3>1, <3>2, <2>0, <1>2, <1>4
  <2>2. CASE i = j
    <3>1. z[i] = s[i + 1] /\ before(z, i) = before(s, j)
      BY <2>0, <2>2, <1>1, <1>5 DEF before
    <3> QED BY <3>1, <2>0, <2>2, <1>4
  <2>3. CASE i > j
    <3>1. i - 1 \in 1..Len(s) - 1 /\ ~(i - 1 < j) /\ ~(i < j) /\ i # 1 /\ i - 1 + 1 = i
      BY <2>0, <2>3, <1>1
    <3>2. z[i] = s[i + 1] /\ before(z, i) = s[i]
      BY <3>1, <1>5 DEF before
    <3>3. s[i] # before(s, j)
      <4>1. CASE j = 1
        BY <4>1, <2>0, <1>1, SentinelsDistinct DEF before
      <4>2. CASE j # 1
        <5>1. j - 1 \in 1..Len(s) /\ i # j - 1
          BY <4>2, <2>3, <2>0, <1>1
        <5> QED BY <5>1, <4>2, <2>0, <1>6 DEF before
      <4> QED BY <4>1, <4>2
    <3>4. s[i] \in Node
      BY <2>0, <1>1 DEF Node
    <3> QED BY <3>2, <3>3, <3>4, <2>0, <1>4
  <2> QED BY <2>0, <2>1, <2>2, <2>3, <1>1
<1> QED BY <1>8, <1>9, <1>10, <1>11 DEF IsChain, U, z

LEMMA MoveToHeadChain ==
  ASSUME NEW L \in List, NEW S \in SUBSET Timer, WellLinked(L, S),
         NEW s, IsChain(L, S, s), NEW j \in 1..Len(s)
  PROVE  IsChain(moveToHead(L, s[j]), S, <<s[j]>> \o without(s, j))
<1> DEFINE t == s[j]
           U == unlink(L, t)
<1>1. t \in S /\ t \in Timer
  BY DEF IsChain
<1>2. U \in List /\ WellLinked(U, S \ {t}) /\ IsChain(U, S \ {t}, without(s, j))
  BY <1>1, LinksType, UnlinkIsWellLinked, UnlinkChain
<1> HIDE DEF U
<1>3. IsChain(addToHead(U, t), (S \ {t}) \cup {t}, <<t>> \o without(s, j))
  BY <1>1, <1>2, AddToHeadChain
<1>4. (S \ {t}) \cup {t} = S
  BY <1>1
<1> QED BY <1>3, <1>4 DEF moveToHead, U

(* A group of timers that with each timer has the ones behind it is a      *)
(* suffix of the chain.                                                    *)
back(s, k) == {s[i] : i \in k..Len(s)}

LEMMA SuffixOfChain ==
  ASSUME NEW L \in List, NEW S \in SUBSET Timer, WellLinked(L, S),
         NEW s, IsChain(L, S, s), NEW G \in SUBSET S, G # {},
         \A t \in S : L.last[t] \in G => t \in G
  PROVE  \E k \in 1..Len(s) : G = back(s, k)
<1>1. s \in Seq(S) /\ Len(s) \in Nat
  BY DEF IsChain
<1> DEFINE T == {i \in 1..Len(s) : s[i] \in G}
<1>2. T \subseteq Nat /\ T # {}
  BY <1>1, SMTT(30) DEF IsChain
<1>3. PICK k \in T : \A i \in T : k =< i
  <2> HIDE DEF T
  <2> QED BY <1>2, LeastElement
<1>4. ASSUME NEW i \in k..Len(s) PROVE s[i] \in G
  <2> DEFINE R == {m \in k..Len(s) : s[m] \notin G}
  <2> SUFFICES ASSUME R # {} PROVE FALSE
    BY <1>4
  <2>1. PICK m \in R : \A n \in R : m =< n
    <3>1. R \subseteq Nat
      BY <1>1
    <3> HIDE DEF R
    <3> QED BY <3>1, LeastElement
  <2>2. m # k /\ m - 1 \in k..Len(s) /\ m \in 1..Len(s) /\ m - 1 \notin R
    BY <2>1, <1>1
  <2>3. s[m - 1] \in G /\ before(s, m) = s[m - 1]
    BY <2>2, <1>1 DEF before
  <2>4. s[m] = L.next[s[m - 1]] /\ s[m] \in S
    <3>1. s[m] = L.next[before(s, m)]
      BY <2>2 DEF IsChain
    <3> QED BY <3>1, <2>2, <2>3, <1>1
  <2>5. L.last[s[m]] = s[m - 1]
    BY <2>3, <2>4 DEF WellLinked, BothWays
  <2> QED BY <2>1, <2>3, <2>4, <2>5
<1>5. ASSUME NEW t \in G PROVE t \in back(s, k)
  <2>1. PICK i \in 1..Len(s) : s[i] = t
    BY DEF IsChain
  <2>2. i \in k..Len(s)
    BY <2>1, <1>1, <1>3
  <2> QED BY <2>1, <2>2 DEF back
<1>6. G = back(s, k)
  BY <1>4, <1>5 DEF back
<1> QED BY <1>3, <1>6

-----------------------------------------------------------------------------
(* What the operations do to the order of the descriptors f of the timers. *)
LEMMA SameElements ==
  ASSUME NEW S, NEW s \in Seq(S), NEW t \in Seq(S), Len(s) = Len(t),
         \A i \in 1..Len(s) : s[i] = t[i]
  PROVE  s = t
  OBVIOUS

image(f, S) == {f[t] : t \in S}

LEMMA AlongElements ==
  ASSUME NEW S, NEW s \in Seq(S), NEW f
  PROVE  /\ along(s, f) \in Seq(image(f, S)) /\ Len(along(s, f)) = Len(s)
         /\ \A k \in 1..Len(s) : along(s, f)[k] = f[s[k]]
<1>1. Len(s) \in Nat /\ \A k \in 1..Len(s) : f[s[k]] \in image(f, S)
  BY DEF image
<1> QED BY <1>1 DEF along

LEMMA EmptyOrder == \A f : FdOrder(EmptyList, {}, f) = <<>>
  BY EmptyIsChain, ChainIsOrder DEF along

LEMMA AlongWithout ==
  ASSUME NEW S, NEW s \in Seq(S), NEW f, NEW j \in 1..Len(s)
  PROVE  along(without(s, j), f) = without(along(s, f), j)
<1> DEFINE a == along(without(s, j), f)
           b == without(along(s, f), j)
<1>1. Len(s) \in Nat /\ j \in Nat
  OBVIOUS
<1>2. /\ without(s, j) \in Seq(S) /\ Len(without(s, j)) = Len(s) - 1
      /\ \A i \in 1..Len(s) - 1 : without(s, j)[i] = IF i < j THEN s[i] ELSE s[i + 1]
  BY WithoutElements
<1>3. /\ a \in Seq(image(f, S)) /\ Len(a) = Len(s) - 1
      /\ \A i \in 1..Len(s) - 1 : a[i] = f[without(s, j)[i]]
  <2> DEFINE z == without(s, j)
  <2>1. z \in Seq(S) /\ Len(z) = Len(s) - 1
    BY <1>2
  <2> HIDE DEF z
  <2>2. /\ along(z, f) \in Seq(image(f, S)) /\ Len(along(z, f)) = Len(z)
        /\ \A k \in 1..Len(z) : along(z, f)[k] = f[z[k]]
    BY <2>1, AlongElements
  <2> QED BY <2>1, <2>2 DEF z
<1>4. /\ along(s, f) \in Seq(image(f, S)) /\ Len(along(s, f)) = Len(s)
      /\ \A k \in 1..Len(s) : along(s, f)[k] = f[s[k]]
  BY AlongElements
<1>5. /\ b \in Seq(image(f, S)) /\ Len(b) = Len(s) - 1
      /\ \A i \in 1..Len(s) - 1 :
           b[i] = IF i < j THEN along(s, f)[i] ELSE along(s, f)[i + 1]
  BY <1>4, WithoutElements
<1> HIDE DEF a, b
<1>6. ASSUME NEW i \in 1..Len(s) - 1 PROVE a[i] = b[i]
  <2>1. i \in 1..Len(s) /\ i + 1 \in 1..Len(s)
    BY <1>1
  <2> QED BY <2>1, <1>2, <1>3, <1>4, <1>5, ZenonT(30)
<1>7. a = b
  BY <1>3, <1>5, <1>6, SameElements
<1> QED BY <1>7 DEF a, b

LEMMA AlongFront ==
  ASSUME NEW S, NEW s \in Seq(S), NEW f, NEW t \in S
  PROVE  along(<<t>> \o s, f) = <<f[t]>> \o along(s, f)
<1> DEFINE a == along(<<t>> \o s, f)
           b == <<f[t]>> \o along(s, f)
<1>1. /\ <<t>> \o s \in Seq(S) /\ Len(<<t>> \o s) = Len(s) + 1 /\ Len(s) \in Nat
      /\ (<<t>> \o s)[1] = t
      /\ \A i \in 2..Len(s) + 1 : (<<t>> \o s)[i] = s[i - 1]
  OBVIOUS
<1>2. /\ a \in Seq(image(f, S)) /\ Len(a) = Len(s) + 1
      /\ \A i \in 1..Len(s) + 1 : a[i] = f[(<<t>> \o s)[i]]
  <2> DEFINE z == <<t>> \o s
  <2>1. z \in Seq(S) /\ Len(z) = Len(s) + 1
    BY <1>1
  <2> HIDE DEF z
  <2>2. /\ along(z, f) \in Seq(image(f, S)) /\ Len(along(z, f)) = Len(z)
        /\ \A k \in 1..Len(z) : along(z, f)[k] = f[z[k]]
    BY <2>1, AlongElements
  <2> QED BY <2>1, <2>2 DEF z
<1>3. /\ along(s, f) \in Seq(image(f, S)) /\ Len(along(s, f)) = Len(s)
      /\ \A k \in 1..Len(s) : along(s, f)[k] = f[s[k]]
  BY AlongElements
<1>4. /\ b \in Seq(image(f, S)) /\ Len(b) = Len(s) + 1 /\ b[1] = f[t]
      /\ \A i \in 2..Len(s) + 1 : b[i] = along(s, f)[i - 1]
  <2>1. f[t] \in image(f, S)
    BY DEF image
  <2> QED BY <2>1, <1>1, <1>3
<1> HIDE DEF a, b
<1>5. ASSUME NEW i \in 1..Len(s) + 1 PROVE a[i] = b[i]
  <2>1. CASE i = 1
    BY <2>1, <1>1, <1>2, <1>4
  <2>2. CASE i # 1
    <3>1. i \in 2..Len(s) + 1 /\ i - 1 \in 1..Len(s)
      BY <2>2, <1>1
    <3> QED BY <3>1, <1>1, <1>2, <1>3, <1>4
  <2> QED BY <2>1, <2>2
<1>6. a = b
  BY <1>2, <1>4, <1>5, SameElements
<1> QED BY <1>6 DEF a, b

(* A new timer's descriptor comes first.                                   *)
LEMMA OrderAdd ==
  ASSUME NEW L \in List, NEW S \in SUBSET Timer, WellLinked(L, S),
         NEW t \in Timer, t \notin S, NEW s, IsChain(L, S, s),
         NEW f, NEW g, \A u \in S : g[u] = f[u]
  PROVE  FdOrder(addToHead(L, t), S \cup {t}, g) = <<g[t]>> \o FdOrder(L, S, f)
<1>1. s \in Seq(S) /\ s \in Seq(S \cup {t})
  BY DEF IsChain
<1>2. FdOrder(L, S, f) = along(s, f)
  BY ChainIsOrder
<1>3. along(s, f) = along(s, g)
  <2>1. \A k \in 1..Len(s) : g[s[k]] = f[s[k]]
    BY <1>1
  <2> QED BY <2>1 DEF along
<1>4. FdOrder(addToHead(L, t), S \cup {t}, g) = along(<<t>> \o s, g)
  <2>1. IsChain(addToHead(L, t), S \cup {t}, <<t>> \o s)
    BY AddToHeadChain
  <2> QED BY <2>1, ChainIsOrder
<1>5. along(<<t>> \o s, g) = <<g[t]>> \o along(s, g)
  <2>1. t \in S \cup {t}
    OBVIOUS
  <2> QED BY <1>1, <2>1, AlongFront
<1> QED BY <1>2, <1>3, <1>4, <1>5

(* That of a timer which is taken off the list leaves its place,           *)
LEMMA OrderTaken ==
  ASSUME NEW L \in List, NEW S \in SUBSET Timer, WellLinked(L, S),
         NEW s, IsChain(L, S, s), NEW t \in S,
         NEW f
  PROVE  \E i \in 1..Len(FdOrder(L, S, f)) :
           /\ FdOrder(L, S, f)[i] = f[t]
           /\ FdOrder(unlink(L, t), S \ {t}, f) = without(FdOrder(L, S, f), i)
           /\ FdOrder(moveToHead(L, t), S, f) = <<f[t]>> \o without(FdOrder(L, S, f), i)
<1>1. s \in Seq(S)
  BY DEF IsChain
<1>2. PICK i \in 1..Len(s) : s[i] = t
  BY DEF IsChain
<1>3. FdOrder(L, S, f) = along(s, f)
  BY ChainIsOrder
<1>4. Len(along(s, f)) = Len(s) /\ along(s, f)[i] = f[t]
  BY <1>1, <1>2, AlongElements
<1>5. FdOrder(unlink(L, t), S \ {t}, f) = along(without(s, i), f)
  <2>1. IsChain(unlink(L, t), S \ {t}, without(s, i))
    BY <1>2, UnlinkChain
  <2> QED BY <2>1, ChainIsOrder
<1>6. FdOrder(moveToHead(L, t), S, f) = along(<<t>> \o without(s, i), f)
  <2>1. IsChain(moveToHead(L, t), S, <<t>> \o without(s, i))
    BY <1>2, MoveToHeadChain
  <2> QED BY <2>1, ChainIsOrder
<1>7. along(without(s, i), f) = without(along(s, f), i)
  BY <1>1, AlongWithout
<1>8. along(<<t>> \o without(s, i), f) = <<f[t]>> \o along(without(s, i), f)
  <2>1. without(s, i) \in Seq(S)
    BY <1>1, WithoutElements
  <2> QED BY <2>1, AlongFront
<1> QED BY <1>2, <1>3, <1>4, <1>5, <1>6, <1>7, <1>8

(* and those of a group as in SuffixOfChain are the last ones.             *)
LEMMA OrderSuffix ==
  ASSUME NEW L \in List, NEW S \in SUBSET Timer, WellLinked(L, S),
         NEW s, IsChain(L, S, s), NEW G \in SUBSET S, G # {},
         \A t \in S : L.last[t] \in G => t \in G, NEW f
  PROVE  \E k \in 1..Len(FdOrder(L, S, f)) :
           image(f, G) = back(FdOrder(L, S, f), k)
<1>1. PICK k \in 1..Len(s) : G = back(s, k)
  BY SuffixOfChain
<1>2. FdOrder(L, S, f) = along(s, f)
  BY ChainIsOrder
<1>3. s \in Seq(S) /\ Len(s) \in Nat
  BY DEF IsChain
<1>4. /\ Len(along(s, f)) = Len(s)
      /\ \A i \in 1..Len(s) : along(s, f)[i] = f[s[i]]
  BY <1>3, AlongElements
<1>5. \A i \in k..Len(s) : i \in 1..Len(s)
  BY <1>3
<1>6. image(f, G) = back(along(s, f), k)
  BY <1>1, <1>4, <1>5 DEF image, back
<1> QED BY <1>2, <1>4, <1>6

(* The descriptors in the order are those of the timers.                   *)
LEMMA OrderElements ==
  ASSUME NEW L, NEW S, NEW s, IsChain(L, S, s), NEW f
  PROVE  \A i \in 1..Len(FdOrder(L, S, f)) : \E t \in S : FdOrder(L, S, f)[i] = f[t]
<1>1. s \in Seq(S)
  BY DEF IsChain
<1>2. FdOrder(L, S, f) = along(s, f)
  BY ChainIsOrder
<1>3. /\ Len(along(s, f)) = Len(s)
      /\ \A i \in 1..Len(s) : along(s, f)[i] = f[s[i]]
  BY <1>1, AlongElements
<1> QED BY <1>1, <1>2, <1>3
=============================================================================
