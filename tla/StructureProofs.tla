-------------------------- MODULE StructureProofs ---------------------------
(***************************************************************************)
(* The data structures that several components have.  A ring is a queue,   *)
(* for rings of every size: filling the slot at the head appends, moving   *)
(* the tail takes the first.  A linked list stays one when a node is added *)
(* at its end or cut out.  With them, the facts about numbers and          *)
(* sequences that more than one of the proofs uses.                        *)
(***************************************************************************)
EXTENDS Ring, Links, SequenceTheorems, WellFoundedInduction, TLAPS

\* A non-empty set of numbers has a least element.
LEMMA LeastNumber ==
  ASSUME NEW T, T \subseteq Nat, T # {}
  PROVE  \E x \in T : \A y \in T : x <= y
<1> DEFINE R == {p \in Nat \X Nat : p[1] < p[2]}
<1>1. IsWellFoundedOn(R, Nat)
  BY NatLessThanWellFounded DEF OpToRel
<1>2. PICK x \in T : \A y \in T : ~(<<y, x>> \in R)
  <2> HIDE DEF R
  <2> QED
    BY <1>1, WFMin
<1>3. ASSUME NEW y \in T PROVE x <= y
  <2>1. x \in Nat /\ y \in Nat /\ ~(<<y, x>> \in R)
    BY <1>2
  <2>2. <<y, x>> \in Nat \X Nat /\ <<y, x>>[1] = y /\ <<y, x>>[2] = x
    BY <2>1
  <2>3. ~(y < x)
    BY <2>1, <2>2
  <2> QED
    BY <2>1, <2>3
<1> QED
  BY <1>3

-----------------------------------------------------------------------------
(* Rings.                                                                  *)

\* A ring of size n over the values S, with positions h and t.
IsRing(b, h, t, n, S) ==
    /\ n \in Nat \ {0}
    /\ b \in [0 .. (n - 1) -> S]
    /\ h \in 0 .. (n - 1) /\ t \in 0 .. (n - 1)

\* A value v is put in the ring: the array becomes w and the head g, which is
\* not the tail.
Puts(b, h, t, n, S, v, w, g) ==
    /\ IsRing(b, h, t, n, S) /\ v \in S
    /\ w = [b EXCEPT ![h] = v]
    /\ g = (h + 1) % n /\ g # t

\* A value is taken from a ring that is not empty: the tail becomes u.
Gets(b, h, t, n, S, u) ==
    /\ IsRing(b, h, t, n, S) /\ h # t
    /\ u = (t + 1) % n

\* How many items there are between the tail and the head.
Fill(h, t, n) == IF h < t THEN h - t + n ELSE h - t

\* The position k places behind position t.
Slot(t, k, n) == IF t + k < n THEN t + k ELSE t + k - n

\* The remainders the drivers compute, without division.
LEMMA Remainders ==
  ASSUME NEW n \in Nat \ {0}, NEW h \in 0 .. (n - 1), NEW t \in 0 .. (n - 1),
         NEW k \in 0 .. n
  PROVE  /\ (h - t) % n = Fill(h, t, n)
         /\ Fill(h, t, n) \in 0 .. (n - 1)
         /\ (t + k) % n = Slot(t, k, n)
         /\ Slot(t, k, n) \in 0 .. (n - 1)
<1>1. (h - t) % n = Fill(h, t, n)
  BY DEF Fill
<1>2. (t + k) % n = Slot(t, k, n)
  BY DEF Slot
<1> QED
  BY <1>1, <1>2 DEF Fill, Slot

\* The contents are a sequence of Fill items.
LEMMA ContentsAre ==
  ASSUME NEW S, NEW n, NEW b, NEW h, NEW t, IsRing(b, h, t, n, S)
  PROVE  /\ Contents(b, h, t, n) \in Seq(S)
         /\ Len(Contents(b, h, t, n)) = Fill(h, t, n)
         /\ \A k \in 1 .. Fill(h, t, n) :
               Contents(b, h, t, n)[k] = b[Slot(t, k - 1, n)]
         /\ Contents(b, h, t, n) = <<>> <=> h = t
<1> DEFINE f == Fill(h, t, n)
           c == Contents(b, h, t, n)
<1>1. f \in 0 .. (n - 1) /\ (h - t) % n = f
  <2> 0 \in 0 .. n
    BY DEF IsRing
  <2> QED
    BY Remainders DEF IsRing
<1>2. ASSUME NEW k \in 1 .. f
      PROVE  /\ (t + k - 1) % n = Slot(t, k - 1, n)
             /\ b[Slot(t, k - 1, n)] \in S
  <2>1. k - 1 \in 0 .. n /\ t + k - 1 = t + (k - 1)
    BY <1>1 DEF IsRing
  <2>2. (t + (k - 1)) % n = Slot(t, k - 1, n) /\ Slot(t, k - 1, n) \in 0 .. (n - 1)
    BY <2>1, Remainders DEF IsRing
  <2> QED
    BY <2>1, <2>2 DEF IsRing
<1>3. c = [k \in 1 .. f |-> b[Slot(t, k - 1, n)]]
  BY <1>1, <1>2 DEF Contents
<1>4. c \in [1 .. f -> S]
  BY <1>2, <1>3
<1>5. c \in Seq(S) /\ Len(c) = f
  BY <1>1, <1>4, LenProperties
<1>6. f = 0 <=> h = t
  BY DEF IsRing, Fill
<1>7. c = <<>> <=> f = 0
  BY <1>5, EmptySeq
<1> QED
  BY <1>3, <1>5, <1>6, <1>7

\* Filling the slot at the head and moving the head appends, when the head
\* does not reach the tail.
LEMMA RingPut ==
  ASSUME NEW S, NEW n, NEW b, NEW h, NEW t, NEW v, NEW w, NEW g,
         Puts(b, h, t, n, S, v, w, g)
  PROVE  /\ Contents(w, g, t, n) = Append(Contents(b, h, t, n), v)
         /\ Len(Contents(b, h, t, n)) < n - 1
<1>1. IsRing(b, h, t, n, S) /\ v \in S
  BY DEF Puts
<1>2. g = Slot(h, 1, n) /\ g \in 0 .. (n - 1)
  <2>1. n \in Nat \ {0} /\ h \in 0 .. (n - 1) /\ g = (h + 1) % n
    BY DEF IsRing, Puts
  <2> QED
    BY <2>1 DEF Slot
<1>3. IsRing(w, g, t, n, S)
  BY <1>2 DEF IsRing, Puts
<1>4. Fill(g, t, n) = Fill(h, t, n) + 1 /\ Fill(g, t, n) \in 0 .. (n - 1)
      /\ Fill(h, t, n) \in Nat
  BY <1>1, <1>2 DEF Fill, Slot, IsRing, Puts
<1> DEFINE c == Contents(b, h, t, n)
           d == Contents(w, g, t, n)
<1>5. c \in Seq(S) /\ Len(c) = Fill(h, t, n) /\ d \in Seq(S) /\ Len(d) = Fill(g, t, n)
  BY <1>1, <1>3, ContentsAre
<1>6. \A k \in 1 .. Fill(h, t, n) : c[k] = b[Slot(t, k - 1, n)]
  BY <1>1, ContentsAre
<1>7. \A k \in 1 .. Fill(g, t, n) : d[k] = w[Slot(t, k - 1, n)]
  BY <1>3, ContentsAre
<1>8. Append(c, v) \in Seq(S) /\ Len(Append(c, v)) = Len(c) + 1
      /\ (\A k \in 1 .. Len(c) : Append(c, v)[k] = c[k])
      /\ Append(c, v)[Len(c) + 1] = v
  BY <1>1, <1>5, AppendProperties
<1>9. ASSUME NEW k \in 1 .. Fill(g, t, n) PROVE d[k] = Append(c, v)[k]
  <2>1. CASE k = Fill(g, t, n)
    <3>1. Slot(t, k - 1, n) = h
      BY <1>1, <1>4, <2>1 DEF Slot, Fill, IsRing
    <3>2. w[h] = v
      BY DEF IsRing, Puts
    <3> QED
      BY <2>1, <3>1, <3>2, <1>4, <1>5, <1>7, <1>8
  <2>2. CASE k # Fill(g, t, n)
    <3>1. k \in 1 .. Fill(h, t, n)
      BY <2>2, <1>4
    <3>2. Slot(t, k - 1, n) # h /\ Slot(t, k - 1, n) \in 0 .. (n - 1)
      BY <1>1, <1>4, <3>1 DEF Slot, Fill, IsRing
    <3>3. w[Slot(t, k - 1, n)] = b[Slot(t, k - 1, n)]
      BY <3>2 DEF IsRing, Puts
    <3> QED
      BY <3>1, <3>3, <1>5, <1>6, <1>7, <1>8
  <2> QED
    BY <2>1, <2>2
<1>10. d = Append(c, v)
  <2>1. Len(d) = Len(Append(c, v))
    BY <1>4, <1>5, <1>8
  <2>2. \A k \in 1 .. Len(d) : d[k] = Append(c, v)[k]
    BY <1>5, <1>9
  <2> HIDE DEF c, d
  <2> QED
    BY <1>5, <1>8, <2>1, <2>2, SeqEqual
<1> QED
  BY <1>1, <1>4, <1>5, <1>10 DEF IsRing

\* A sequence is its head followed by its tail.
LEMMA HeadThenTail ==
  ASSUME NEW S, NEW c \in Seq(S), NEW m \in S
  PROVE  /\ <<m>> \o c # <<>> /\ Tail(<<m>> \o c) = c
         /\ c # <<>> => <<Head(c)>> \o Tail(c) = c
<1>1. <<m>> \in Seq(S) /\ Len(<<m>>) = 1 /\ <<m>>[1] = m
  OBVIOUS
<1>2. PICK d : d = <<m>> \o c
  OBVIOUS
<1>3. d \in Seq(S) /\ Len(d) = Len(c) + 1 /\ Len(c) \in Nat
      /\ \A k \in 1 .. Len(d) : d[k] = IF k <= 1 THEN <<m>>[k] ELSE c[k - 1]
  BY <1>1, <1>2, ConcatProperties, LenProperties
<1>4. d # <<>>
  BY <1>3, EmptySeq
<1>5. Tail(d) \in Seq(S) /\ Len(Tail(d)) = Len(c)
      /\ \A k \in 1 .. Len(c) : Tail(d)[k] = d[k + 1]
  BY <1>3, <1>4, HeadTailProperties
<1>6. \A k \in 1 .. Len(c) : Tail(d)[k] = c[k]
  BY <1>3, <1>5
<1>7. Tail(d) = c
  BY <1>5, <1>6, SeqEqual
<1>8. ASSUME c # <<>> PROVE <<Head(c)>> \o Tail(c) = c
  <2>1. PICK t : t = Tail(c)
    OBVIOUS
  <2>2. PICK a : a = Head(c)
    OBVIOUS
  <2>3. a \in S /\ a = c[1] /\ t \in Seq(S) /\ Len(t) = Len(c) - 1 /\ Len(c) \in Nat \ {0}
        /\ \A k \in 1 .. Len(t) : t[k] = c[k + 1]
    BY <1>8, <2>1, <2>2, HeadTailProperties, LenProperties, EmptySeq, ElementOfSeq
  <2>4. <<a>> \in Seq(S) /\ Len(<<a>>) = 1 /\ <<a>>[1] = a
    BY <2>3
  <2>5. PICK e : e = <<a>> \o t
    OBVIOUS
  <2>6. e \in Seq(S) /\ Len(e) = Len(c)
        /\ \A k \in 1 .. Len(e) : e[k] = IF k <= 1 THEN <<a>>[k] ELSE t[k - 1]
    BY <2>3, <2>4, <2>5, ConcatProperties
  <2>7. ASSUME NEW k \in 1 .. Len(e) PROVE e[k] = c[k]
    <3>1. CASE k = 1
      BY <3>1, <2>3, <2>4, <2>6
    <3>2. CASE k # 1
      <4>1. k - 1 \in 1 .. Len(t) /\ (k - 1) + 1 = k
        BY <3>2, <2>3, <2>6
      <4> QED
        BY <3>2, <4>1, <2>3, <2>6
    <3> QED
      BY <3>1, <3>2
  <2>8. e = c
    BY <2>6, <2>7, SeqEqual
  <2> QED
    BY <2>1, <2>2, <2>5, <2>8
<1> QED
  BY <1>2, <1>4, <1>7, <1>8

\* The slot at the head is not part of the contents: it may be filled before the
\* head moves.
LEMMA RingFill ==
  ASSUME NEW S, NEW n, NEW b, NEW h, NEW t, IsRing(b, h, t, n, S), NEW v \in S
  PROVE  /\ IsRing([b EXCEPT ![h] = v], h, t, n, S)
         /\ Contents([b EXCEPT ![h] = v], h, t, n) = Contents(b, h, t, n)
<1>1. PICK w : w = [b EXCEPT ![h] = v]
  OBVIOUS
<1>2. IsRing(w, h, t, n, S)
  BY <1>1 DEF IsRing
<1> DEFINE c == Contents(b, h, t, n)
           d == Contents(w, h, t, n)
<1>3. c \in Seq(S) /\ Len(c) = Fill(h, t, n) /\ d \in Seq(S) /\ Len(d) = Fill(h, t, n)
  BY <1>2, ContentsAre
<1>4. \A k \in 1 .. Fill(h, t, n) : c[k] = b[Slot(t, k - 1, n)]
  BY ContentsAre
<1>5. \A k \in 1 .. Fill(h, t, n) : d[k] = w[Slot(t, k - 1, n)]
  BY <1>2, ContentsAre
<1>6. ASSUME NEW k \in 1 .. Fill(h, t, n) PROVE d[k] = c[k]
  <2>1. Slot(t, k - 1, n) # h /\ Slot(t, k - 1, n) \in 0 .. (n - 1)
    BY DEF Slot, Fill, IsRing
  <2>2. w[Slot(t, k - 1, n)] = b[Slot(t, k - 1, n)]
    BY <2>1, <1>1 DEF IsRing
  <2> QED
    BY <2>2, <1>4, <1>5
<1>7. d = c
  <2>1. Len(d) = Len(c) /\ \A k \in 1 .. Len(d) : d[k] = c[k]
    BY <1>3, <1>6
  <2> HIDE DEF c, d
  <2> QED
    BY <1>3, <2>1, SeqEqual
<1> QED
  BY <1>1, <1>2, <1>7

\* Moving the tail of a ring that is not empty takes the first item.
LEMMA RingGet ==
  ASSUME NEW S, NEW n, NEW b, NEW h, NEW t, NEW u, Gets(b, h, t, n, S, u)
  PROVE  /\ Contents(b, h, t, n) # <<>>
         /\ Contents(b, h, u, n) = Tail(Contents(b, h, t, n))
         /\ Head(Contents(b, h, t, n)) = b[t]
<1>1. IsRing(b, h, t, n, S) /\ h # t
  BY DEF Gets
<1>2. u = Slot(t, 1, n) /\ u \in 0 .. (n - 1)
  <2>1. n \in Nat \ {0} /\ t \in 0 .. (n - 1) /\ u = (t + 1) % n
    BY DEF IsRing, Gets
  <2> QED
    BY <2>1 DEF Slot
<1>3. IsRing(b, h, u, n, S)
  BY <1>1, <1>2 DEF IsRing
<1>4. Fill(h, u, n) = Fill(h, t, n) - 1 /\ Fill(h, t, n) \in 1 .. (n - 1)
  BY <1>1, <1>2 DEF Fill, Slot, IsRing
<1> DEFINE c == Contents(b, h, t, n)
           d == Contents(b, h, u, n)
<1>5. c \in Seq(S) /\ Len(c) = Fill(h, t, n) /\ d \in Seq(S) /\ Len(d) = Fill(h, u, n)
      /\ c # <<>>
  BY <1>1, <1>3, ContentsAre
<1>6. \A k \in 1 .. Fill(h, t, n) : c[k] = b[Slot(t, k - 1, n)]
  BY <1>1, ContentsAre
<1>7. \A k \in 1 .. Fill(h, u, n) : d[k] = b[Slot(u, k - 1, n)]
  BY <1>1, <1>3, ContentsAre
<1>8. Tail(c) \in Seq(S) /\ Len(Tail(c)) = Len(c) - 1
      /\ (\A k \in 1 .. Len(Tail(c)) : Tail(c)[k] = c[k + 1])
  <2> HIDE DEF c
  <2> QED
    BY <1>5, HeadTailProperties
<1>9. ASSUME NEW k \in 1 .. Fill(h, u, n) PROVE d[k] = Tail(c)[k]
  <2>1. k + 1 \in 1 .. Fill(h, t, n) /\ k \in 1 .. Len(Tail(c))
    BY <1>4, <1>5, <1>8
  <2>2. Slot(u, k - 1, n) = Slot(t, (k + 1) - 1, n)
    BY <1>1, <1>2, <1>4 DEF Slot, IsRing
  <2> QED
    BY <2>1, <2>2, <1>6, <1>7, <1>8
<1>10. d = Tail(c)
  <2>1. Len(d) = Len(Tail(c)) /\ \A k \in 1 .. Len(d) : d[k] = Tail(c)[k]
    BY <1>4, <1>5, <1>8, <1>9
  <2> HIDE DEF c, d
  <2> QED
    BY <1>5, <1>8, <2>1, SeqEqual
<1>11. Head(c) = b[t]
  <2>1. Slot(t, 1 - 1, n) = t
    BY <1>1 DEF Slot, IsRing
  <2>2. c[1] = b[t]
    BY <2>1, <1>4, <1>6
  <2> HIDE DEF c
  <2> QED
    BY <1>5, <2>2, HeadTailProperties
<1> QED
  BY <1>5, <1>10, <1>11

-----------------------------------------------------------------------------
(* Linked lists.                                                           *)

\* Pointers among the nodes N.
ArePointers(head, next, null, N) ==
    /\ null \notin N
    /\ next \in [N -> N \cup {null}]
    /\ head \in N \cup {null}

\* The nodes L are a list: they are the ones a walk meets, each in one place,
\* nothing points back to the head, and the list has an end.
IsList(head, next, null, N, L) ==
    /\ ArePointers(head, next, null, N)
    /\ L = Reached(head, next, null)
    /\ \A a, b \in L : a # b => next[a] # next[b]
    /\ \A a \in L : next[a] # head
    /\ head # null => \E a \in L : next[a] = null

\* The nodes that are reached hold the list, and every set that holds it.
LEMMA ReachedIsLeast ==
  ASSUME NEW head, NEW next, NEW null, NEW N, ArePointers(head, next, null, N)
  PROVE  /\ Reached(head, next, null) \subseteq N
         /\ HoldsList(Reached(head, next, null), head, next, null)
         /\ \A S \in SUBSET N : HoldsList(S, head, next, null) =>
                                    Reached(head, next, null) \subseteq S
<1> DEFINE R == Reached(head, next, null)
<1>0. DOMAIN next = N
  BY DEF ArePointers
<1>1. R = {n \in N : \A S \in SUBSET N : HoldsList(S, head, next, null) => n \in S}
  BY <1>0 DEF Reached
<1> HIDE DEF R
<1>2. HoldsList(R, head, next, null)
  <2>1. ASSUME head # null PROVE head \in R
    BY <1>1, <2>1 DEF HoldsList, ArePointers
  <2>2. ASSUME NEW n \in R, next[n] # null PROVE next[n] \in R
    <3>1. n \in N /\ next[n] \in N
      BY <1>1, <2>2 DEF ArePointers
    <3>2. ASSUME NEW S \in SUBSET N, HoldsList(S, head, next, null)
          PROVE  next[n] \in S
      BY <1>1, <2>2, <3>2 DEF HoldsList
    <3> QED
      BY <1>1, <3>1, <3>2
  <2> QED
    BY <2>1, <2>2 DEF HoldsList
<1> QED
  BY <1>1, <1>2 DEF R

\* How to find out which nodes are reached.
LEMMA ReachedIs ==
  ASSUME NEW head, NEW next, NEW null, NEW N, ArePointers(head, next, null, N),
         NEW L, L \subseteq N, HoldsList(L, head, next, null),
         \A S \in SUBSET N : HoldsList(S, head, next, null) => L \subseteq S
  PROVE  Reached(head, next, null) = L
  BY ReachedIsLeast

\* A list holds its head, stays inside, and no node is its own successor.
LEMMA ListFacts ==
  ASSUME NEW head, NEW next, NEW null, NEW N, NEW L,
         IsList(head, next, null, N, L)
  PROVE  /\ L \subseteq N
         /\ head # null => head \in L
         /\ \A a \in L : next[a] \in L \cup {null} /\ next[a] # a
         /\ head = null <=> L = {}
         /\ \A S \in SUBSET N : HoldsList(S, head, next, null) => L \subseteq S
<1>1. /\ L \subseteq N /\ HoldsList(L, head, next, null)
      /\ \A S \in SUBSET N : HoldsList(S, head, next, null) => L \subseteq S
  BY ReachedIsLeast DEF IsList
<1>2. ASSUME NEW a \in L, next[a] = a PROVE FALSE
  <2>1. L \ {a} \in SUBSET N /\ HoldsList(L \ {a}, head, next, null)
    BY <1>1, <1>2 DEF HoldsList, IsList
  <2> QED
    BY <1>1, <2>1
<1>3. ASSUME head = null PROVE L = {}
  <2>1. HoldsList({}, head, next, null)
    BY <1>3 DEF HoldsList
  <2> QED
    BY <1>1, <2>1
<1> QED
  BY <1>1, <1>2, <1>3 DEF HoldsList

\* Pointers outside the list do not matter.
LEMMA ListIgnoresOthers ==
  ASSUME NEW head, NEW next, NEW null, NEW N, NEW L,
         IsList(head, next, null, N, L),
         NEW other \in [N -> N \cup {null}], \A a \in L : other[a] = next[a]
  PROVE  IsList(head, other, null, N, L)
<1>1. ArePointers(head, other, null, N)
  BY DEF IsList, ArePointers
<1>2. L \subseteq N /\ HoldsList(L, head, next, null)
      /\ \A S \in SUBSET N : HoldsList(S, head, next, null) => L \subseteq S
  BY ReachedIsLeast DEF IsList
<1>3. HoldsList(L, head, other, null)
  BY <1>2 DEF HoldsList
<1>4. ASSUME NEW S \in SUBSET N, HoldsList(S, head, other, null) PROVE L \subseteq S
  <2>1. S \cap L \in SUBSET N /\ HoldsList(S \cap L, head, next, null)
    BY <1>2, <1>4 DEF HoldsList
  <2> QED
    BY <1>2, <2>1
<1>5. Reached(head, other, null) = L
  BY <1>1, <1>2, <1>3, <1>4, ReachedIs
<1> QED
  BY <1>1, <1>2, <1>5 DEF IsList

\* No head, no list.
LEMMA EmptyList ==
  ASSUME NEW next, NEW null, NEW N, null \notin N, next \in [N -> N \cup {null}]
  PROVE  IsList(null, next, null, N, {})
<1>1. ArePointers(null, next, null, N)
  BY DEF ArePointers
<1>2. HoldsList({}, null, next, null)
  BY DEF HoldsList
<1>3. Reached(null, next, null) = {}
  BY <1>1, <1>2, ReachedIsLeast
<1> QED
  BY <1>1, <1>3 DEF IsList

\* A node without a successor is a list.
LEMMA FirstNode ==
  ASSUME NEW next, NEW null, NEW N, null \notin N, next \in [N -> N \cup {null}],
         NEW node \in N, next[node] = null
  PROVE  IsList(node, next, null, N, {node})
<1>1. ArePointers(node, next, null, N) /\ node # null
  BY DEF ArePointers
<1>2. {node} \subseteq N /\ HoldsList({node}, node, next, null)
  BY DEF HoldsList
<1>3. \A S \in SUBSET N : HoldsList(S, node, next, null) => {node} \subseteq S
  BY <1>1 DEF HoldsList
<1>4. Reached(node, next, null) = {node}
  BY <1>1, <1>2, <1>3, ReachedIs
<1> QED
  BY <1>1, <1>4 DEF IsList

\* A node that is not in the list, and has no successor, is added at its end.
LEMMA AddedLast ==
  ASSUME NEW head, NEW next, NEW null, NEW N, NEW L,
         IsList(head, next, null, N, L), head # null,
         NEW node \in N \ L, next[node] = null
  PROVE  IsList(head, LinkLast(head, next, null, node), null, N, L \cup {node})
<1> DEFINE new == LinkLast(head, next, null, node)
<1>0. /\ ArePointers(head, next, null, N) /\ DOMAIN next = N
      /\ L \subseteq N /\ head \in L /\ HoldsList(L, head, next, null)
      /\ \A S \in SUBSET N : HoldsList(S, head, next, null) => L \subseteq S
  BY ReachedIsLeast DEF IsList, ArePointers, HoldsList
<1>1. new = [n \in N |-> IF n \in L /\ next[n] = null THEN node ELSE next[n]]
  BY <1>0 DEF LinkLast, IsList
<1>2. PICK last \in L : next[last] = null
  BY DEF IsList
<1>3. \A a \in L : next[a] = null <=> a = last
  BY <1>2 DEF IsList
<1> HIDE DEF new
<1>4. ArePointers(head, new, null, N)
  BY <1>0, <1>1 DEF ArePointers
<1>5. new[node] = null /\ new[last] = node
      /\ \A a \in L : a # last => new[a] = next[a]
  BY <1>0, <1>1, <1>2, <1>3
<1>6. HoldsList(L \cup {node}, head, new, null)
  BY <1>0, <1>5 DEF HoldsList
<1>7. ASSUME NEW S \in SUBSET N, HoldsList(S, head, new, null)
      PROVE  L \cup {node} \subseteq S
  <2>1. HoldsList(S \cap L, head, next, null)
    <3>1. ASSUME NEW n \in S \cap L, next[n] # null PROVE next[n] \in S \cap L
      <4>1. new[n] = next[n] /\ next[n] \in L
        BY <1>0, <1>2, <1>5, <3>1 DEF HoldsList
      <4> QED
        BY <1>7, <3>1, <4>1 DEF HoldsList
    <3> QED
      BY <1>0, <1>7, <3>1 DEF HoldsList
  <2>2. L \subseteq S
    BY <1>0, <2>1
  <2>3. node \in S
    BY <1>2, <1>5, <1>7, <2>2 DEF HoldsList, IsList, ArePointers
  <2> QED
    BY <2>2, <2>3
<1>8. Reached(head, new, null) = L \cup {node}
  BY <1>0, <1>4, <1>6, <1>7, ReachedIs
<1>9. \A a \in L : next[a] # node /\ next[a] # head
  BY <1>0 DEF HoldsList, IsList, ArePointers
<1>10. \A a, b \in L \cup {node} : a # b => new[a] # new[b]
  <2>1. \A a, b \in L : a # b => new[a] # new[b]
    BY <1>5, <1>9 DEF IsList
  <2>2. \A a \in L : new[a] # null
    BY <1>0, <1>3, <1>5 DEF ArePointers
  <2> QED
    BY <1>5, <2>1, <2>2
<1>11. \A a \in L \cup {node} : new[a] # head
  BY <1>0, <1>5, <1>9 DEF ArePointers
<1> QED
  BY <1>4, <1>5, <1>8, <1>10, <1>11 DEF IsList, new

\* A node other than the head is cut out.
LEMMA CutOutInside ==
  ASSUME NEW head, NEW next, NEW null, NEW N, NEW L,
         IsList(head, next, null, N, L), NEW node \in L, node # head
  PROVE  IsList(head, CutOut(head, next, null, node), null, N, L \ {node})
<1> DEFINE new == CutOut(head, next, null, node)
<1>0. /\ ArePointers(head, next, null, N) /\ DOMAIN next = N
      /\ L \subseteq N /\ head \in L
      /\ \A a \in L : next[a] \in L \cup {null} /\ next[a] # a /\ next[a] # head
      /\ \A S \in SUBSET N : HoldsList(S, head, next, null) => L \subseteq S
  BY ListFacts DEF IsList, ArePointers
<1>1. new = [n \in N |-> IF n \in L /\ next[n] = node THEN next[node] ELSE next[n]]
  BY <1>0 DEF CutOut, IsList
<1> HIDE DEF new
<1>2. ArePointers(head, new, null, N) /\ node # null
  BY <1>0, <1>1 DEF ArePointers
<1>3. PICK prev \in L : next[prev] = node /\ prev # node
  <2>1. ASSUME \A a \in L : next[a] # node PROVE FALSE
    <3>1. HoldsList(L \ {node}, head, next, null)
      BY <1>0, <2>1 DEF HoldsList
    <3> QED
      BY <1>0, <3>1
  <2> QED
    BY <1>0, <2>1
<1>4. /\ new[prev] = next[node]
      /\ \A a \in L : a # prev => next[a] # node /\ new[a] = next[a]
  BY <1>0, <1>1, <1>3 DEF IsList
<1>5. HoldsList(L \ {node}, head, new, null)
  <2>1. ASSUME NEW n \in L \ {node}, new[n] # null PROVE new[n] \in L \ {node}
    BY <1>0, <1>3, <1>4, <2>1
  <2> QED
    BY <1>0, <2>1 DEF HoldsList
<1>6. ASSUME NEW S \in SUBSET N, HoldsList(S, head, new, null)
      PROVE  L \ {node} \subseteq S
  <2> DEFINE T == {n \in L : n \in S \/ (n = node /\ prev \in S)}
  <2>1. T \subseteq N /\ (head # null => head \in T)
    BY <1>0, <1>6 DEF HoldsList
  <2>2. ASSUME NEW n \in T, n # node, next[n] # null PROVE next[n] \in T
    <3>1. CASE n = prev
      BY <1>3, <2>2, <3>1
    <3>2. CASE n # prev
      BY <1>0, <1>4, <1>6, <2>2, <3>2 DEF HoldsList
    <3> QED
      BY <3>1, <3>2
  <2>3. ASSUME node \in T, next[node] # null PROVE next[node] \in T
    <3>1. CASE prev \in S
      BY <1>0, <1>4, <1>6, <2>3, <3>1 DEF HoldsList
    <3>2. CASE prev \notin S
      <4>1. node \in S /\ node # prev
        BY <1>3, <2>3, <3>2
      <4>2. new[node] = next[node]
        BY <1>4, <4>1
      <4> QED
        BY <1>0, <1>6, <2>3, <4>1, <4>2 DEF HoldsList
    <3> QED
      BY <3>1, <3>2
  <2>4. HoldsList(T, head, next, null)
    <3> HIDE DEF T
    <3> QED
      BY <2>1, <2>2, <2>3 DEF HoldsList
  <2> QED
    BY <1>0, <2>1, <2>4
<1>7. Reached(head, new, null) = L \ {node}
  <2>1. L \ {node} \subseteq N
    BY <1>0
  <2> QED
    BY <1>2, <1>5, <1>6, <2>1, ReachedIs
<1>8. \A a, b \in L \ {node} : a # b => new[a] # new[b]
  BY <1>3, <1>4 DEF IsList
<1>9. \A a \in L \ {node} : new[a] # head
  BY <1>0, <1>3, <1>4
<1>10. \E a \in L \ {node} : new[a] = null
  <2>1. PICK last \in L : next[last] = null
    BY <1>0 DEF IsList, ArePointers
  <2>2. CASE last = node
    BY <1>3, <1>4, <2>1, <2>2
  <2>3. CASE last # node
    BY <1>2, <1>3, <1>4, <2>1, <2>3
  <2> QED
    BY <2>2, <2>3
<1> QED
  BY <1>2, <1>7, <1>8, <1>9, <1>10 DEF IsList, new

\* The head is cut out: the list begins with its successor.
LEMMA CutOutHead ==
  ASSUME NEW head, NEW next, NEW null, NEW N, NEW L,
         IsList(head, next, null, N, L), head # null
  PROVE  IsList(next[head], next, null, N, L \ {head})
<1> DEFINE second == next[head]
<1>0. /\ ArePointers(head, next, null, N)
      /\ L \subseteq N /\ head \in L
      /\ \A a \in L : next[a] \in L \cup {null} /\ next[a] # a /\ next[a] # head
      /\ \A S \in SUBSET N : HoldsList(S, head, next, null) => L \subseteq S
  BY ListFacts DEF IsList
<1>1. ArePointers(second, next, null, N)
  BY <1>0 DEF ArePointers
<1>2. HoldsList(L \ {head}, second, next, null)
  BY <1>0 DEF HoldsList
<1>3. ASSUME NEW S \in SUBSET N, HoldsList(S, second, next, null)
      PROVE  L \ {head} \subseteq S
  <2>1. S \cup {head} \in SUBSET N
    BY <1>0
  <2>2. HoldsList(S \cup {head}, head, next, null)
    BY <1>3 DEF HoldsList
  <2> QED
    BY <1>0, <2>1, <2>2
<1>4. Reached(second, next, null) = L \ {head}
  <2>1. L \ {head} \subseteq N
    BY <1>0
  <2> QED
    BY <1>1, <1>2, <1>3, <2>1, ReachedIs
<1>5. \A a \in L \ {head} : next[a] # second
  BY <1>0 DEF IsList
<1>6. ASSUME second # null PROVE \E a \in L \ {head} : next[a] = null
  BY <1>0, <1>6 DEF IsList
<1> QED
  BY <1>1, <1>4, <1>5, <1>6 DEF IsList
=============================================================================
