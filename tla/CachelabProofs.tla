--------------------------- MODULE CachelabProofs ---------------------------
(***************************************************************************)
(* The cache simulator, for every shape of the cache and every trace, the   *)
(* ones that the transpose functions make included: the rings of lines are  *)
(* sound, and what is counted is what a cache with the least recently used  *)
(* replacement counts.  The submission of trans.c, for matrices of every     *)
(* size: it leaves the transpose in B and never undoes what it has done.     *)
(***************************************************************************)
EXTENDS TestTrans, NatProofs, SequenceTheorems

(* The nodes of a ring in order: the dummy before the first line and after  *)
(* the last of the sequence q of lines.                                     *)
Spot(q, k) == IF k \in 1 .. Len(q) THEN q[k] ELSE Dummy

Distinct(q) == \A j, k \in 1 .. Len(q) : q[j] = q[k] => j = k

(* A set with so many ways, in which the lines of q are linked in the order *)
(* of q.                                                                    *)
CacheSets(ways) ==
    [next : [0 .. ways -> 0 .. ways], prev : [0 .. ways -> 0 .. ways],
     valid : [1 .. ways -> BOOLEAN], tag : [1 .. ways -> Int]]
Ring(set, ways, q) ==
    /\ q \in Seq(1 .. ways) /\ Distinct(q)
    /\ \A k \in 0 .. Len(q) : /\ set.next[Spot(q, k)] = Spot(q, k + 1)
                              /\ set.prev[Spot(q, k + 1)] = Spot(q, k)

(* The walk along a ring finds its lines in order.                          *)
Follows(walk, set) ==
    walk = [n \in Nodes(set) |-> IF n = Dummy THEN <<>> ELSE <<n>> \o walk[set.next[n]]]

(* The lines of q from position k on.                                       *)
From(q, k) == [j \in 1 .. Len(q) + 1 - k |-> q[j + k - 1]]

LEMMA FunctionSeq ==
    ASSUME NEW S, NEW n \in Nat, NEW f \in [1 .. n -> S]
    PROVE  f \in Seq(S) /\ Len(f) = n
OBVIOUS

(* A suffix of the lines is its first line and the next suffix.            *)
LEMMA FromStep ==
    ASSUME NEW ways \in Nat, NEW q \in Seq(1 .. ways), NEW k \in 1 .. Len(q)
    PROVE  /\ From(q, k) = <<q[k]>> \o From(q, k + 1)
           /\ From(q, k) \in Seq(1 .. ways)
           /\ From(q, 1) = q /\ From(q, Len(q) + 1) = <<>>
<1>0. Len(q) \in Nat /\ k \in Nat /\ \A j \in 1 .. Len(q) : q[j] \in 1 .. ways
  OBVIOUS
<1>1. /\ From(q, k) \in Seq(1 .. ways) /\ Len(From(q, k)) = Len(q) + 1 - k
      /\ From(q, k + 1) \in Seq(1 .. ways) /\ Len(From(q, k + 1)) = Len(q) - k
  <2>1. ASSUME NEW i \in {k, k + 1}
        PROVE  From(q, i) \in Seq(1 .. ways) /\ Len(From(q, i)) = Len(q) + 1 - i
    <3> DEFINE n == Len(q) + 1 - i
               f == [j \in 1 .. n |-> q[j + i - 1]]
    <3>1. n \in Nat /\ \A j \in 1 .. n : j + i - 1 \in 1 .. Len(q)
      BY <1>0
    <3>2. f \in [1 .. n -> 1 .. ways]
      BY <1>0, <3>1
    <3> HIDE DEF f, n
    <3>3. f \in Seq(1 .. ways) /\ Len(f) = n
      BY <3>1, <3>2, FunctionSeq
    <3> QED BY <3>3 DEF From, f, n
  <2> QED BY <1>0, <2>1
<1>2. From(q, k) = <<q[k]>> \o From(q, k + 1)
  <2> DEFINE joined == <<q[k]>> \o From(q, k + 1)
  <2>1. /\ \A j \in 1 .. Len(q) + 1 - k : From(q, k)[j] = q[j + k - 1]
        /\ \A j \in 1 .. Len(q) - k : From(q, k + 1)[j] = q[j + k]
    BY <1>0 DEF From
  <2>2. <<q[k]>> \in Seq(1 .. ways) /\ Len(<<q[k]>>) = 1 /\ <<q[k]>>[1] = q[k]
    BY <1>0
  <2> DEFINE t == From(q, k + 1)
  <2> HIDE DEF t
  <2>3. /\ <<q[k]>> \o t \in Seq(1 .. ways) /\ Len(<<q[k]>> \o t) = 1 + (Len(q) - k)
        /\ (<<q[k]>> \o t)[1] = q[k]
        /\ \A j \in 1 .. Len(q) - k : (<<q[k]>> \o t)[1 + j] = t[j]
    <3>1. t \in Seq(1 .. ways) /\ Len(t) = Len(q) - k
      BY <1>1 DEF t
    <3>2. /\ <<q[k]>> \o t \in Seq(1 .. ways) /\ Len(<<q[k]>> \o t) = Len(<<q[k]>>) + Len(t)
          /\ \A i \in 1 .. Len(<<q[k]>>) + Len(t) :
                 (<<q[k]>> \o t)[i] = IF i <= Len(<<q[k]>>) THEN <<q[k]>>[i]
                                      ELSE t[i - Len(<<q[k]>>)]
      BY <2>2, <3>1, ConcatProperties
    <3>3. ASSUME NEW j \in 1 .. Len(q) - k PROVE (<<q[k]>> \o t)[1 + j] = t[j]
      <4>1. 1 + j \in 1 .. 1 + (Len(q) - k) /\ ~(1 + j <= 1) /\ (1 + j) - 1 = j
        BY <1>0
      <4> QED BY <2>2, <3>1, <3>2, <4>1
    <3>4. 1 \in 1 .. 1 + (Len(q) - k)
      BY <1>0
    <3> QED BY <2>2, <3>1, <3>2, <3>3, <3>4
  <2>31. joined = <<q[k]>> \o t
    BY DEF t
  <2> HIDE DEF joined
  <2>32. \A j \in 1 .. Len(q) - k : t[j] = q[j + k]
    BY <2>1 DEF t
  <2>4. joined \in Seq(1 .. ways) /\ Len(joined) = Len(From(q, k)) /\ joined[1] = q[k]
        /\ \A j \in 1 .. Len(q) - k : joined[1 + j] = q[j + k]
    <3>1. 1 + (Len(q) - k) = Len(q) + 1 - k
      BY <1>0
    <3> QED BY <1>1, <2>3, <2>31, <2>32, <3>1
  <2>5. ASSUME NEW j \in 1 .. Len(From(q, k)) PROVE From(q, k)[j] = joined[j]
    <3>1. CASE j = 1
      <4>1. 1 \in 1 .. Len(q) + 1 - k /\ 1 + k - 1 = k
        BY <1>0
      <4> QED BY <2>1, <2>4, <3>1, <4>1
    <3>2. CASE j # 1
      <4>1. /\ j \in 1 .. Len(q) + 1 - k /\ j - 1 \in 1 .. Len(q) - k
            /\ 1 + (j - 1) = j /\ (j - 1) + k = j + k - 1
        BY <1>0, <1>1, <3>2
      <4> QED BY <2>1, <2>4, <4>1
    <3> QED BY <3>1, <3>2
  <2>6. From(q, k) = joined
    BY <1>1, <2>4, <2>5, SeqEqual
  <2> QED BY <2>6 DEF joined
<1>3. From(q, 1) = q
  BY DEF From
<1>4. From(q, Len(q) + 1) = <<>>
  BY DEF From
<1> QED BY <1>1, <1>2, <1>3, <1>4

(* All lines of the set are linked.                                         *)
Full(ways, q) == Len(q) = ways /\ \A n \in 1 .. ways : \E k \in 1 .. Len(q) : q[k] = n

(* The recursive definition of the walk along a ring has a value, the      *)
(* suffix of the lines at each of them.                                    *)
LEMMA WalkExists ==
    ASSUME NEW ways \in Nat, NEW set \in CacheSets(ways), NEW q, Ring(set, ways, q), Full(ways, q)
    PROVE  \E walk : Follows(walk, set)
<1> DEFINE Place(n) == CHOOSE k \in 1 .. Len(q) : q[k] = n
           walk == [n \in Nodes(set) |-> IF n = Dummy THEN <<>> ELSE From(q, Place(n))]
<1>1. Nodes(set) = 0 .. ways /\ q \in Seq(1 .. ways) /\ Distinct(q)
  BY DEF CacheSets, Nodes, Ring
<1>2. ASSUME NEW k \in 1 .. Len(q) PROVE Place(q[k]) = k /\ q[k] \in 1 .. ways /\ q[k] # Dummy
  <2>1. Place(q[k]) \in 1 .. Len(q) /\ q[Place(q[k])] = q[k]
    OBVIOUS
  <2>2. q[k] \in 1 .. ways
    BY <1>1
  <2> HIDE DEF Place
  <2> QED BY <1>1, <2>1, <2>2 DEF Distinct, Dummy
<1> HIDE DEF Place
<1>3. ASSUME NEW n \in Nodes(set) PROVE walk[n] = IF n = Dummy THEN <<>> ELSE <<n>> \o walk[set.next[n]]
  <2>1. CASE n = Dummy
    BY <2>1
  <2>2. CASE n # Dummy
    <3>0. n \in 1 .. ways
      BY <1>1, <2>2 DEF Dummy
    <3>1. PICK k \in 1 .. Len(q) : q[k] = n
      BY <3>0 DEF Full
    <3>2. set.next[n] = Spot(q, k + 1)
      BY <1>1, <3>1 DEF Ring, Spot
    <3>3. walk[n] = <<n>> \o From(q, k + 1)
      <4>1. From(q, k) = <<q[k]>> \o From(q, k + 1)
        BY <1>1, FromStep
      <4>2. walk[n] = From(q, k)
        BY <1>2, <2>2, <3>1
      <4> QED BY <3>1, <4>1, <4>2
    <3>4. walk[set.next[n]] = From(q, k + 1)
      <4>1. CASE k = Len(q)
        <5>1. Len(q) \in Nat /\ k + 1 \notin 1 .. Len(q)
          BY <1>1, <4>1
        <5>2. set.next[n] = Dummy
          BY <3>2, <5>1 DEF Spot
        <5>3. From(q, k + 1) = <<>>
          BY <4>1, <1>1, FromStep
        <5>4. Dummy \in Nodes(set)
          BY <1>1 DEF Dummy
        <5> QED BY <5>2, <5>3, <5>4
      <4>2. CASE k # Len(q)
        <5>1. k + 1 \in 1 .. Len(q)
          BY <1>1, <4>2
        <5>2. set.next[n] = q[k + 1]
          BY <3>2, <5>1 DEF Spot
        <5> QED BY <5>1, <5>2, <1>2, <1>1
      <4> QED BY <4>1, <4>2
    <3> QED BY <2>2, <3>3, <3>4
  <2> QED BY <2>1, <2>2
<1> HIDE DEF walk
<1>4. walk = [n \in Nodes(set) |-> walk[n]]
  BY DEF walk
<1>5. Follows(walk, set)
  BY <1>3, <1>4 DEF Follows
<1> QED BY <1>5

(* The lines of a set are those of its ring, in order.                      *)
LEMMA AfterRing ==
    ASSUME NEW ways \in Nat, NEW set \in CacheSets(ways), NEW q, Ring(set, ways, q), Full(ways, q)
    PROVE  After(set, Dummy) = q
<1> DEFINE walk == CHOOSE walk : Follows(walk, set)
<1>1. Follows(walk, set)
  BY WalkExists
<1>2. After(set, Dummy) = walk[set.next[Dummy]]
  BY DEF After, Follows
<1> HIDE DEF walk
<1>21. \A k \in 0 .. Len(q) : set.next[Spot(q, k)] = Spot(q, k + 1)
  BY DEF Ring
<1>3. Nodes(set) = 0 .. ways /\ q \in Seq(1 .. ways)
  BY DEF CacheSets, Nodes, Ring
<1>4. Len(q) \in Nat /\ \A j \in 1 .. Len(q) : q[j] \in 1 .. ways
  BY <1>3
<1> DEFINE S == {k \in 0 .. Len(q) : walk[Spot(q, Len(q) + 1 - k)] = From(q, Len(q) + 1 - k)}
<1>5. 0 \in S
  <2>1. Spot(q, Len(q) + 1) = Dummy /\ Dummy \in Nodes(set)
    BY <1>3 DEF Spot, Dummy
  <2>2. walk[Dummy] = <<>>
    BY <1>1, <2>1 DEF Follows
  <2>3. From(q, Len(q) + 1) = <<>>
    BY <1>3 DEF From
  <2> QED BY <1>4, <2>1, <2>2, <2>3
<1>6. \A k \in 0 .. Len(q) : k \in S /\ k < Len(q) => k + 1 \in S
  <2> SUFFICES ASSUME NEW k \in S, k < Len(q) PROVE k + 1 \in S
    OBVIOUS
  <2> DEFINE j == Len(q) - k
  <2>1. j \in 1 .. Len(q) /\ Len(q) + 1 - k = j + 1 /\ Len(q) + 1 - (k + 1) = j /\ k + 1 \in 0 .. Len(q)
    BY <1>4
  <2>2. walk[Spot(q, j + 1)] = From(q, j + 1)
    BY <2>1
  <2> HIDE DEF j
  <2>3. Spot(q, j) = q[j] /\ q[j] \in 1 .. ways
    <3>1. Spot(q, j) = q[j]
      BY <2>1 DEF Spot
    <3> QED BY <1>4, <2>1, <3>1
  <2>31. q[j] \in Nodes(set) /\ q[j] # Dummy
    BY <1>3, <2>3 DEF Dummy
  <2>4. set.next[q[j]] = Spot(q, j + 1)
    <3>1. j \in 0 .. Len(q)
      BY <1>4, <2>1
    <3>2. set.next[Spot(q, j)] = Spot(q, j + 1)
      BY <1>21, <3>1
    <3> QED BY <2>3, <3>2
  <2>5. walk[q[j]] = <<q[j]>> \o walk[set.next[q[j]]]
    BY <1>1, <2>31 DEF Follows
  <2>51. From(q, j) = <<q[j]>> \o From(q, j + 1)
    BY <1>3, <2>1, FromStep
  <2>6. walk[q[j]] = From(q, j)
    BY <2>2, <2>4, <2>5, <2>51
  <2> QED BY <2>1, <2>3, <2>6
<1> HIDE DEF S
<1>7. Len(q) \in S
  <2>1. 0 .. Len(q) \subseteq S
    BY <1>4, <1>5, <1>6, BoundedInduct
  <2> QED BY <1>4, <2>1
<1>8. walk[Spot(q, 1)] = From(q, 1)
  BY <1>4, <1>7 DEF S
<1>9. set.next[Dummy] = Spot(q, 1)
  BY <1>4 DEF Ring, Spot, Dummy
<1>10. From(q, 1) = q
  BY <1>3 DEF From
<1> QED BY <1>2, <1>8, <1>9, <1>10

-----------------------------------------------------------------------------
(* Linking and unlinking.                                                   *)

(* Every line has one spot in the ring, and its neighbours are those of    *)
(* that spot.                                                              *)
LEMMA Spots ==
    ASSUME NEW ways \in Nat, NEW q \in Seq(1 .. ways), Distinct(q)
    PROVE  /\ \A k \in 0 .. Len(q) + 1 : Spot(q, k) \in 0 .. ways
           /\ \A k \in 1 .. Len(q) : Spot(q, k) = q[k] /\ q[k] \in 1 .. ways
           /\ Spot(q, 0) = Dummy /\ Spot(q, Len(q) + 1) = Dummy
           /\ \A j, k \in 0 .. Len(q) : Spot(q, j) = Spot(q, k) => j = k
           /\ \A j, k \in 1 .. Len(q) + 1 : Spot(q, j) = Spot(q, k) => j = k
<1>1. Len(q) \in Nat /\ \A k \in 1 .. Len(q) : q[k] \in 1 .. ways /\ q[k] # 0
  OBVIOUS
<1>2. \A k \in 1 .. Len(q) : Spot(q, k) = q[k]
  BY DEF Spot
<1>3. Spot(q, 0) = 0 /\ Spot(q, Len(q) + 1) = 0
  BY <1>1 DEF Spot, Dummy
<1>4. \A k \in 0 .. Len(q) + 1 : k \in 1 .. Len(q) \/ k = 0 \/ k = Len(q) + 1
  BY <1>1
<1>5. \A k \in 0 .. Len(q) + 1 : Spot(q, k) \in 0 .. ways
  BY <1>1, <1>2, <1>3, <1>4
<1>6. \A k \in 0 .. Len(q) + 1 : Spot(q, k) # 0 => k \in 1 .. Len(q)
  BY <1>3, <1>4
<1>7. \A j, k \in 1 .. Len(q) : Spot(q, j) = Spot(q, k) => j = k
  BY <1>2 DEF Distinct
<1>8. ASSUME NEW j \in 0 .. Len(q) + 1, NEW k \in 0 .. Len(q) + 1, Spot(q, j) = Spot(q, k),
             (j # 0 /\ k # 0) \/ (j # Len(q) + 1 /\ k # Len(q) + 1)
      PROVE  j = k
  <2>1. CASE Spot(q, j) = 0
    <3>1. j \notin 1 .. Len(q) /\ k \notin 1 .. Len(q)
      BY <1>1, <1>2, <1>8, <2>1
    <3> QED BY <1>4, <1>8, <3>1
  <2>2. CASE Spot(q, j) # 0
    BY <1>6, <1>7, <1>8, <2>2
  <2> QED BY <2>1, <2>2
<1>9. \A j, k \in 0 .. Len(q) : Spot(q, j) = Spot(q, k) => j = k
  BY <1>1, <1>8
<1>10. \A j, k \in 1 .. Len(q) + 1 : Spot(q, j) = Spot(q, k) => j = k
  BY <1>1, <1>8
<1> QED BY <1>1, <1>2, <1>3, <1>5, <1>9, <1>10 DEF Dummy

(* A change of the links only, after which they form another ring.          *)
Relinked(set, new, ways, q) ==
    /\ new \in CacheSets(ways) /\ Ring(new, ways, q)
    /\ new.valid = set.valid /\ new.tag = set.tag

(* InsertFirst puts a line that is not linked before the others.            *)
LEMMA InsertRing ==
    ASSUME NEW ways \in Nat, NEW set \in CacheSets(ways), NEW q, Ring(set, ways, q),
           NEW c \in 1 .. ways, \A k \in 1 .. Len(q) : q[k] # c
    PROVE  Relinked(set, InsertFirst(set, c), ways, <<c>> \o q)
<1> DEFINE new == InsertFirst(set, c)
           r == <<c>> \o q
           first == set.next[Dummy]
<1>1. /\ q \in Seq(1 .. ways) /\ Distinct(q) /\ Len(q) \in Nat
      /\ \A k \in 0 .. Len(q) : /\ set.next[Spot(q, k)] = Spot(q, k + 1)
                                /\ set.prev[Spot(q, k + 1)] = Spot(q, k)
  BY DEF Ring
<1>2. /\ first = Spot(q, 1) /\ first \in 0 .. ways /\ first # c
  <2>1. 0 \in 0 .. Len(q) /\ 1 \in 0 .. Len(q) + 1
    BY <1>1
  <2>2. first = Spot(q, 1) /\ first \in 0 .. ways
    BY <1>1, <2>1, Spots DEF Dummy
  <2>3. first # c
    BY <2>2 DEF Spot, Dummy
  <2> QED BY <2>2, <2>3
<1>3. /\ new.next = [[set.next EXCEPT ![c] = first] EXCEPT ![Dummy] = c]
      /\ new.prev = [[set.prev EXCEPT ![c] = Dummy] EXCEPT ![first] = c]
      /\ new.valid = set.valid /\ new.tag = set.tag
      /\ new \in CacheSets(ways)
  <2>1. set.next \in [0 .. ways -> 0 .. ways] /\ set.prev \in [0 .. ways -> 0 .. ways]
    BY DEF CacheSets
  <2>2. c \in 0 .. ways /\ Dummy \in 0 .. ways
    BY DEF Dummy
  <2> QED BY <2>1, <2>2, <1>2 DEF InsertFirst, CacheSets
<1>4. /\ new.next[Dummy] = c /\ new.next[c] = first
      /\ \A n \in 0 .. ways : n # Dummy /\ n # c => new.next[n] = set.next[n]
      /\ new.prev[first] = c /\ new.prev[c] = Dummy
      /\ \A n \in 0 .. ways : n # first /\ n # c => new.prev[n] = set.prev[n]
  <2>1. set.next \in [0 .. ways -> 0 .. ways] /\ set.prev \in [0 .. ways -> 0 .. ways]
    BY DEF CacheSets
  <2>2. c \in 0 .. ways /\ Dummy \in 0 .. ways /\ c # Dummy
    BY DEF Dummy
  <2> HIDE DEF new, first
  <2> QED BY <2>1, <2>2, <1>2, <1>3
<1> HIDE DEF new, first
<1>5. /\ r \in Seq(1 .. ways) /\ Len(r) = Len(q) + 1 /\ r[1] = c
      /\ \A k \in 1 .. Len(q) : r[k + 1] = q[k]
  BY <1>1
<1>6. Distinct(r)
  <2> SUFFICES ASSUME NEW j \in 1 .. Len(q) + 1, NEW k \in 1 .. Len(q) + 1, r[j] = r[k]
               PROVE  j = k
    BY <1>5 DEF Distinct
  <2>1. \A i \in 1 .. Len(q) + 1 : i = 1 \/ (i - 1 \in 1 .. Len(q) /\ r[i] = q[i - 1])
    <3> SUFFICES ASSUME NEW i \in 1 .. Len(q) + 1, i # 1
                 PROVE  i - 1 \in 1 .. Len(q) /\ r[i] = q[i - 1]
      OBVIOUS
    <3>1. i - 1 \in 1 .. Len(q) /\ (i - 1) + 1 = i
      BY <1>1
    <3> QED BY <1>5, <3>1
  <2>2. r[1] = c
    BY <1>5
  <2> QED BY <1>1, <2>1, <2>2 DEF Distinct
<1>7. /\ Spot(r, 0) = Dummy /\ Spot(r, 1) = c
      /\ \A k \in 1 .. Len(q) + 1 : Spot(r, k + 1) = Spot(q, k)
  <2>1. Spot(r, 0) = Dummy /\ Spot(r, 1) = c
    BY <1>1, <1>5 DEF Spot
  <2>2. ASSUME NEW k \in 1 .. Len(q) + 1 PROVE Spot(r, k + 1) = Spot(q, k)
    BY <1>1, <1>5 DEF Spot
  <2> QED BY <2>1, <2>2
<1> HIDE DEF r
<1>8. ASSUME NEW k \in 0 .. Len(r)
      PROVE  /\ new.next[Spot(r, k)] = Spot(r, k + 1)
             /\ new.prev[Spot(r, k + 1)] = Spot(r, k)
  <2>1. CASE k = 0
    BY <2>1, <1>4, <1>7
  <2>2. CASE k = 1
    <3>1. 1 \in 1 .. Len(q) + 1 /\ Spot(r, 2) = Spot(q, 1)
      BY <1>1, <1>7
    <3> QED BY <2>2, <3>1, <1>2, <1>4, <1>7
  <2>3. CASE k > 1
    <3> DEFINE j == k - 1
    <3>1. j \in 1 .. Len(q) /\ j + 1 = k /\ j \in 0 .. Len(q) /\ j \in 1 .. Len(q) + 1
          /\ j + 1 \in 1 .. Len(q) + 1 /\ j + 1 \in 0 .. Len(q) + 1 /\ 1 \in 1 .. Len(q) + 1 /\ j + 1 # 1
      BY <2>3, <1>1, <1>5, SMTT(30)
    <3> HIDE DEF j
    <3>2. Spot(r, k) = Spot(q, j) /\ Spot(r, k + 1) = Spot(q, j + 1)
      BY <3>1, <1>7
    <3>3. Spot(q, j) # Dummy /\ Spot(q, j) # c /\ Spot(q, j) \in 0 .. ways
      <4>1. Spot(q, j) = q[j] /\ q[j] \in 1 .. ways
        BY <3>1, <1>1, Spots
      <4> QED BY <3>1, <4>1 DEF Dummy
    <3>4. Spot(q, j + 1) # first /\ Spot(q, j + 1) \in 0 .. ways
      BY <3>1, <1>1, <1>2, Spots
    <3>5. Spot(q, j + 1) # c
      BY DEF Spot, Dummy
    <3> QED BY <1>1, <1>4, <3>1, <3>2, <3>3, <3>4, <3>5
  <2>4. k \in Nat
    BY <1>1, <1>5
  <2> QED BY <2>1, <2>2, <2>3, <2>4
<1>9. Ring(new, ways, r)
  BY <1>5, <1>6, <1>8 DEF Ring, r
<1> QED BY <1>3, <1>9 DEF r, new, Relinked

(* The sequence without its k-th line.                                      *)
Without(q, k) == [j \in 1 .. Len(q) - 1 |-> IF j < k THEN q[j] ELSE q[j + 1]]

LEMMA WithoutShape ==
    ASSUME NEW ways \in Nat, NEW q \in Seq(1 .. ways), NEW k \in 1 .. Len(q)
    PROVE  /\ Without(q, k) \in Seq(1 .. ways) /\ Len(Without(q, k)) = Len(q) - 1
           /\ \A j \in 1 .. Len(q) - 1 :
                  Without(q, k)[j] = IF j < k THEN q[j] ELSE q[j + 1]
<1> DEFINE n == Len(q) - 1
           f == [j \in 1 .. n |-> IF j < k THEN q[j] ELSE q[j + 1]]
<1>1. n \in Nat /\ n + 1 = Len(q) /\ \A j \in 1 .. Len(q) : q[j] \in 1 .. ways
  OBVIOUS
<1>2. f \in [1 .. n -> 1 .. ways]
  <2>1. \A j \in 1 .. n : j \in 1 .. Len(q) /\ j + 1 \in 1 .. Len(q)
    BY <1>1
  <2> QED BY <1>1, <2>1
<1>3. \A j \in 1 .. n : f[j] = IF j < k THEN q[j] ELSE q[j + 1]
  OBVIOUS
<1> HIDE DEF f, n
<1>4. f \in Seq(1 .. ways) /\ Len(f) = n
  BY <1>1, <1>2, FunctionSeq
<1> QED BY <1>3, <1>4 DEF Without, f, n

(* Unlink takes a line out of the ring and leaves the others in order.     *)
LEMMA UnlinkRing ==
    ASSUME NEW ways \in Nat, NEW set \in CacheSets(ways), NEW q, Ring(set, ways, q),
           NEW k \in 1 .. Len(q)
    PROVE  Relinked(set, Unlink(set, q[k]), ways, Without(q, k))
<1> DEFINE c == q[k]
           new == Unlink(set, q[k])
           r == Without(q, k)
           before == Spot(q, k - 1)
           after == Spot(q, k + 1)
<1>1. /\ q \in Seq(1 .. ways) /\ Distinct(q) /\ Len(q) \in Nat
      /\ \A j \in 0 .. Len(q) : /\ set.next[Spot(q, j)] = Spot(q, j + 1)
                                /\ set.prev[Spot(q, j + 1)] = Spot(q, j)
  BY DEF Ring
<1>11. /\ \A j \in 0 .. Len(q) + 1 : Spot(q, j) \in 0 .. ways
       /\ \A j \in 1 .. Len(q) : Spot(q, j) = q[j] /\ q[j] \in 1 .. ways
       /\ \A i, j \in 0 .. Len(q) : Spot(q, i) = Spot(q, j) => i = j
       /\ \A i, j \in 1 .. Len(q) + 1 : Spot(q, i) = Spot(q, j) => i = j
  BY <1>1, Spots
<1>2. /\ set.prev[c] = before /\ set.next[c] = after /\ before \in 0 .. ways /\ after \in 0 .. ways
      /\ c \in 1 .. ways
  <2>1. /\ k \in 0 .. Len(q) /\ k - 1 \in 0 .. Len(q) /\ (k - 1) + 1 = k
        /\ k - 1 \in 0 .. Len(q) + 1 /\ k + 1 \in 0 .. Len(q) + 1
    BY <1>1
  <2>2. Spot(q, k) = c /\ c \in 1 .. ways
    BY <1>1, <1>11
  <2> QED BY <1>1, <2>1, <2>2, <1>11
<1>3. /\ new.next = [set.next EXCEPT ![before] = after]
      /\ new.prev = [set.prev EXCEPT ![after] = before]
      /\ new.valid = set.valid /\ new.tag = set.tag
      /\ new \in CacheSets(ways)
  <2>1. set.next \in [0 .. ways -> 0 .. ways] /\ set.prev \in [0 .. ways -> 0 .. ways]
    BY DEF CacheSets
  <2> QED BY <2>1, <1>2 DEF Unlink, CacheSets
<1>4. /\ new.next[before] = after
      /\ \A n \in 0 .. ways : n # before => new.next[n] = set.next[n]
      /\ new.prev[after] = before
      /\ \A n \in 0 .. ways : n # after => new.prev[n] = set.prev[n]
  <2>1. set.next \in [0 .. ways -> 0 .. ways] /\ set.prev \in [0 .. ways -> 0 .. ways]
    BY DEF CacheSets
  <2> HIDE DEF new, before, after
  <2> QED BY <2>1, <1>2, <1>3
<1>5. /\ r \in Seq(1 .. ways) /\ Len(r) = Len(q) - 1
      /\ \A j \in 1 .. Len(q) - 1 : r[j] = IF j < k THEN q[j] ELSE q[j + 1]
  BY <1>1, WithoutShape
<1> HIDE DEF new, r
<1>6. Distinct(r)
  <2> SUFFICES ASSUME NEW i \in 1 .. Len(q) - 1, NEW j \in 1 .. Len(q) - 1, r[i] = r[j]
               PROVE  i = j
    BY <1>5 DEF Distinct
  <2> DEFINE x == IF i < k THEN i ELSE i + 1
             y == IF j < k THEN j ELSE j + 1
  <2>0. Len(q) \in Nat /\ k \in Nat
    BY <1>1
  <2>1. x \in 1 .. Len(q) /\ y \in 1 .. Len(q) /\ (x = y => i = j)
    BY <2>0
  <2>2. r[i] = q[x] /\ r[j] = q[y]
    BY <1>5
  <2> HIDE DEF x, y
  <2> QED BY <1>1, <2>1, <2>2 DEF Distinct
<1>7. ASSUME NEW j \in 0 .. Len(q)
      PROVE  Spot(r, j) = IF j < k THEN Spot(q, j) ELSE Spot(q, j + 1)
  <2>1. CASE j = 0
    BY <2>1, <1>1 DEF Spot
  <2>2. CASE j = Len(q)
    BY <2>2, <1>1, <1>5 DEF Spot
  <2>3. CASE j \in 1 .. Len(q) - 1
    <3>0. Len(q) \in Nat /\ Len(r) = Len(q) - 1
      BY <1>1, <1>5
    <3>1. j \in 1 .. Len(r) /\ j \in 1 .. Len(q) /\ j + 1 \in 1 .. Len(q)
      BY <2>3, <3>0
    <3> QED BY <1>5, <2>3, <3>1 DEF Spot
  <2> QED BY <1>1, <2>1, <2>2, <2>3
<1>8. ASSUME NEW j \in 0 .. Len(r)
      PROVE  /\ new.next[Spot(r, j)] = Spot(r, j + 1)
             /\ new.prev[Spot(r, j + 1)] = Spot(r, j)
  <2>0. j \in 0 .. Len(q) - 1 /\ j \in 0 .. Len(q) /\ j + 1 \in 0 .. Len(q) /\ k \in 1 .. Len(q)
        /\ j + 1 \in 0 .. Len(q) + 1 /\ j + 1 \in 1 .. Len(q) + 1 /\ k - 1 \in 0 .. Len(q)
        /\ k + 1 \in 1 .. Len(q) + 1 /\ Len(q) \in Nat /\ j + 2 \in 1 .. Len(q) + 1
        /\ (j + 1) + 1 = j + 2 /\ j \in Nat /\ k \in Nat /\ j + 2 \in 0 .. Len(q) + 1
        /\ j \in 0 .. Len(q) + 1
    <3>1. j \in 0 .. Len(q) - 1 /\ Len(q) \in Nat /\ k \in 1 .. Len(q)
      BY <1>1, <1>5
    <3> QED BY <3>1
  <2>1. CASE j < k - 1
    <3>1. Spot(r, j) = Spot(q, j) /\ Spot(r, j + 1) = Spot(q, j + 1)
      BY <1>7, <2>0, <2>1
    <3>2. Spot(q, j) # before /\ Spot(q, j) \in 0 .. ways
      <4>1. j # k - 1
        BY <2>0, <2>1
      <4> QED BY <1>1, <2>0, <4>1, <1>11
    <3>3. Spot(q, j + 1) # after /\ Spot(q, j + 1) \in 0 .. ways
      <4>1. j + 1 # k + 1
        BY <2>0, <2>1
      <4> QED BY <1>1, <2>0, <4>1, <1>11
    <3> QED BY <1>1, <1>4, <2>0, <3>1, <3>2, <3>3
  <2>2. CASE j = k - 1
    <3>1. j < k /\ ~(j + 1 < k) /\ k = j + 1
      BY <2>0, <2>2
    <3>2. Spot(r, j) = before /\ Spot(r, j + 1) = after
      BY <1>7, <2>0, <2>2, <3>1
    <3> QED BY <1>4, <3>2
  <2>3. CASE j > k - 1
    <3>1. ~(j < k) /\ ~(j + 1 < k) /\ j + 1 # k - 1 /\ j + 2 # k + 1
      BY <2>0, <2>3
    <3>2. Spot(r, j) = Spot(q, j + 1) /\ Spot(r, j + 1) = Spot(q, j + 2)
      BY <1>7, <2>0, <3>1
    <3>3. Spot(q, j + 1) # before /\ Spot(q, j + 1) \in 0 .. ways
      BY <1>1, <2>0, <3>1, <1>11
    <3>4. Spot(q, j + 2) # after /\ Spot(q, j + 2) \in 0 .. ways
      BY <1>1, <2>0, <3>1, <1>11
    <3>5. set.next[Spot(q, j + 1)] = Spot(q, j + 2) /\ set.prev[Spot(q, j + 2)] = Spot(q, j + 1)
      BY <1>1, <2>0
    <3> QED BY <1>4, <3>2, <3>3, <3>4, <3>5
  <2> QED BY <2>0, <2>1, <2>2, <2>3
<1>9. Ring(new, ways, r)
  BY <1>5, <1>6, <1>8 DEF Ring
<1> QED BY <1>3, <1>9 DEF r, new, Relinked

(* The sequence with its k-th line first.                                   *)
First(q, k) == <<q[k]>> \o Without(q, k)

(* The order in which a line has been moved to the front has all the       *)
(* lines.                                                                  *)
LEMMA FirstShape ==
    ASSUME NEW ways \in Nat, NEW q \in Seq(1 .. ways), NEW k \in 1 .. Len(q)
    PROVE  /\ First(q, k) \in Seq(1 .. ways) /\ Len(First(q, k)) = Len(q)
           /\ First(q, k)[1] = q[k]
           /\ \A j \in 1 .. k - 1 : First(q, k)[j + 1] = q[j]
           /\ \A j \in k + 1 .. Len(q) : First(q, k)[j] = q[j]
<1> DEFINE r == Without(q, k)
<1>1. Len(q) \in Nat /\ q[k] \in 1 .. ways
  OBVIOUS
<1>2. /\ r \in Seq(1 .. ways) /\ Len(r) = Len(q) - 1
      /\ \A j \in 1 .. Len(q) - 1 : r[j] = IF j < k THEN q[j] ELSE q[j + 1]
  BY <1>1, WithoutShape
<1> HIDE DEF r
<1>3. /\ First(q, k) \in Seq(1 .. ways) /\ Len(First(q, k)) = Len(q) /\ First(q, k)[1] = q[k]
      /\ \A j \in 1 .. Len(q) - 1 : First(q, k)[j + 1] = r[j]
  BY <1>1, <1>2 DEF First, r
<1>4. ASSUME NEW j \in 1 .. k - 1 PROVE First(q, k)[j + 1] = q[j]
  <2>1. j \in 1 .. Len(q) - 1 /\ j < k
    BY <1>1
  <2> QED BY <1>2, <1>3, <2>1
<1>5. ASSUME NEW j \in k + 1 .. Len(q) PROVE First(q, k)[j] = q[j]
  <2>1. j - 1 \in 1 .. Len(q) - 1 /\ ~(j - 1 < k) /\ (j - 1) + 1 = j
    BY <1>1
  <2> QED BY <1>2, <1>3, <2>1
<1> QED BY <1>3, <1>4, <1>5

(* MoveFirst: the line is unlinked and then linked in first, and the ring  *)
(* is whole again (checkAndUpdateSet, addOrReplaceLine).                   *)
LEMMA MoveRing ==
    ASSUME NEW ways \in Nat, NEW set \in CacheSets(ways), NEW q, Ring(set, ways, q), Full(ways, q),
           NEW k \in 1 .. Len(q)
    PROVE  Relinked(set, MoveFirst(set, q[k]), ways, First(q, k)) /\ Full(ways, First(q, k))
<1> DEFINE out == Unlink(set, q[k])
           r == Without(q, k)
           new == InsertFirst(out, q[k])
<1>1. q \in Seq(1 .. ways) /\ Distinct(q) /\ Len(q) \in Nat /\ q[k] \in 1 .. ways
  BY DEF Ring
<1>2. Relinked(set, out, ways, r)
  BY UnlinkRing
<1>3. \A j \in 1 .. Len(r) : r[j] # q[k]
  <2>1. /\ r \in Seq(1 .. ways) /\ Len(r) = Len(q) - 1
        /\ \A j \in 1 .. Len(q) - 1 : r[j] = IF j < k THEN q[j] ELSE q[j + 1]
    BY <1>1, WithoutShape
  <2> HIDE DEF r
  <2> SUFFICES ASSUME NEW j \in 1 .. Len(q) - 1, r[j] = q[k] PROVE FALSE
    BY <2>1
  <2>2. j \in 1 .. Len(q) /\ j + 1 \in 1 .. Len(q)
    BY <1>1
  <2>3. CASE j < k
    BY <1>1, <2>1, <2>2, <2>3 DEF Distinct
  <2>4. CASE ~(j < k)
    BY <1>1, <2>1, <2>2, <2>4 DEF Distinct
  <2> QED BY <2>3, <2>4
<1> HIDE DEF out, r
<1>31. out \in CacheSets(ways) /\ Ring(out, ways, r)
  BY <1>2 DEF Relinked
<1>4. Relinked(out, new, ways, <<q[k]>> \o r)
  BY <1>1, <1>31, <1>3, InsertRing
<1>5. Full(ways, First(q, k))
  <2>1. Len(First(q, k)) = ways
    BY <1>1, FirstShape DEF Full
  <2>2. ASSUME NEW n \in 1 .. ways PROVE \E j \in 1 .. Len(First(q, k)) : First(q, k)[j] = n
    <3>1. PICK i \in 1 .. Len(q) : q[i] = n
      BY DEF Full
    <3>2. Len(q) = ways /\ Len(First(q, k)) = ways
      BY <2>1 DEF Full
    <3>3. CASE i = k
      <4>1. 1 \in 1 .. ways
        BY <1>1, <3>2
      <4>2. First(q, k)[1] = n
        BY <1>1, <3>1, <3>3, FirstShape
      <4> QED BY <3>2, <4>1, <4>2
    <3>4. CASE i < k
      <4>1. i \in 1 .. k - 1 /\ i + 1 \in 1 .. ways
        BY <1>1, <3>2, <3>4
      <4>2. First(q, k)[i + 1] = n
        BY <1>1, <3>1, <4>1, FirstShape
      <4> QED BY <3>2, <4>1, <4>2
    <3>5. CASE i > k
      <4>1. i \in k + 1 .. Len(q)
        BY <1>1, <3>5
      <4>2. First(q, k)[i] = n
        BY <1>1, <3>1, <4>1, FirstShape
      <4> QED BY <3>2, <4>2
    <3> QED BY <3>3, <3>4, <3>5
  <2> QED BY <2>1, <2>2 DEF Full
<1> QED BY <1>2, <1>4, <1>5 DEF MoveFirst, First, Relinked, out, r

-----------------------------------------------------------------------------
(* A new set: lines 1 to n are linked, each before those of less number.    *)
NextAt(n, m) == IF m = 0 THEN n ELSE IF m <= n THEN m - 1 ELSE 0
PrevAt(n, m) == IF m = 0 THEN IF n = 0 THEN 0 ELSE 1 ELSE IF m < n THEN m + 1 ELSE 0
Built(ways, n) ==
    [next |-> [m \in 0 .. ways |-> NextAt(n, m)], prev |-> [m \in 0 .. ways |-> PrevAt(n, m)],
     valid |-> [m \in 1 .. ways |-> FALSE], tag |-> [m \in 1 .. ways |-> 0]]

(* createCacheSet's loop: after n lines they are linked, the last one      *)
(* first.                                                                  *)
LEMMA BuiltStep ==
    ASSUME NEW ways \in Nat, NEW n \in 1 .. ways
    PROVE  InsertFirst(Built(ways, n - 1), n) = Built(ways, n)
<1> DEFINE old == Built(ways, n - 1)
           new == InsertFirst(old, n)
<1>1. /\ old.next = [m \in 0 .. ways |-> NextAt(n - 1, m)]
      /\ old.prev = [m \in 0 .. ways |-> PrevAt(n - 1, m)]
      /\ old = [next |-> old.next, prev |-> old.prev,
                valid |-> [m \in 1 .. ways |-> FALSE], tag |-> [m \in 1 .. ways |-> 0]]
  BY DEF Built
<1> HIDE DEF old
<1>2. old.next[0] = n - 1 /\ n - 1 \in 0 .. ways /\ n \in 0 .. ways /\ 0 \in 0 .. ways
  BY <1>1 DEF NextAt
<1> DEFINE next == [[old.next EXCEPT ![n] = n - 1] EXCEPT ![0] = n]
           prev == [[old.prev EXCEPT ![n] = 0] EXCEPT ![n - 1] = n]
<1>3. new = [next |-> next, prev |-> prev,
             valid |-> [m \in 1 .. ways |-> FALSE], tag |-> [m \in 1 .. ways |-> 0]]
  <2> DEFINE v == [m \in 1 .. ways |-> FALSE]
             g == [m \in 1 .. ways |-> 0]
  <2>1. old = [next |-> old.next, prev |-> old.prev, valid |-> v, tag |-> g]
    BY <1>1
  <2>2. new = [old EXCEPT !.next[n] = n - 1, !.prev[n] = 0, !.prev[n - 1] = n, !.next[0] = n]
    BY <1>2 DEF InsertFirst, Dummy
  <2> HIDE DEF v, g, new
  <2>3. ASSUME NEW x, NEW y, old = [next |-> x, prev |-> y, valid |-> v, tag |-> g]
        PROVE  new = [next |-> [[x EXCEPT ![n] = n - 1] EXCEPT ![0] = n],
                      prev |-> [[y EXCEPT ![n] = 0] EXCEPT ![n - 1] = n], valid |-> v, tag |-> g]
    <3> DEFINE one == [old EXCEPT !.next[n] = n - 1]
               two == [one EXCEPT !.prev[n] = 0]
               three == [two EXCEPT !.prev[n - 1] = n]
    <3>1. one = [next |-> [x EXCEPT ![n] = n - 1], prev |-> y, valid |-> v, tag |-> g]
      BY <2>3
    <3>2. new = [three EXCEPT !.next[0] = n]
      BY <2>2
    <3> HIDE DEF one
    <3>3. two = [next |-> [x EXCEPT ![n] = n - 1], prev |-> [y EXCEPT ![n] = 0],
               valid |-> v, tag |-> g]
      BY <3>1
    <3> HIDE DEF two
    <3>4. three = [next |-> [x EXCEPT ![n] = n - 1],
               prev |-> [[y EXCEPT ![n] = 0] EXCEPT ![n - 1] = n], valid |-> v, tag |-> g]
      BY <3>3
    <3> HIDE DEF three
    <3> QED BY <3>2, <3>4
  <2>4. new = [next |-> next, prev |-> prev, valid |-> v, tag |-> g]
    BY <2>1, <2>3
  <2> QED BY <2>4 DEF v, g
<1>4. next = [m \in 0 .. ways |-> NextAt(n, m)]
  <2>1. ASSUME NEW m \in 0 .. ways PROVE next[m] = NextAt(n, m)
    <3>1. m # 0 /\ m # n => next[m] = NextAt(n - 1, m)
      BY <1>1
    <3>2. m = n /\ m # 0 => next[m] = n - 1
      BY <1>1
    <3>3. next[0] = n
      BY <1>1, <1>2
    <3> HIDE DEF next
    <3> QED BY <3>1, <3>2, <3>3 DEF NextAt
  <2>2. next = [m \in 0 .. ways |-> next[m]]
    BY <1>1
  <2> HIDE DEF next
  <2> QED BY <2>1, <2>2
<1>5. prev = [m \in 0 .. ways |-> PrevAt(n, m)]
  <2>1. \A m \in 0 .. ways : prev[m] = PrevAt(n, m)
    BY <1>1, <1>2 DEF PrevAt
  <2>2. prev = [m \in 0 .. ways |-> prev[m]]
    BY <1>1
  <2> HIDE DEF prev
  <2> QED BY <2>1, <2>2
<1> HIDE DEF next, prev, new
<1> QED BY <1>3, <1>4, <1>5 DEF Built, new, old

(* What createCacheSet returns is what that loop has built after all the   *)
(* lines.                                                                  *)
LEMMA CreatedSet ==
    ASSUME NEW ways \in Nat
    PROVE  createCacheSet(ways) = Built(ways, ways)
<1> DEFINE Base == [next |-> [m \in 0 .. ways |-> Dummy], prev |-> [m \in 0 .. ways |-> Dummy],
                    valid |-> [m \in 1 .. ways |-> FALSE], tag |-> [m \in 1 .. ways |-> 0]]
           Adds(f) == f = [n \in 0 .. ways |-> IF n = 0 THEN Base ELSE InsertFirst(f[n - 1], n)]
           added == CHOOSE f : Adds(f)
           built == [n \in 0 .. ways |-> Built(ways, n)]
<1>1. createCacheSet(ways) = added[ways]
  BY DEF createCacheSet
<1>2. Base = Built(ways, 0)
  <2>1. \A m \in 0 .. ways : NextAt(0, m) = 0 /\ PrevAt(0, m) = 0
    BY DEF NextAt, PrevAt
  <2> QED BY <2>1 DEF Built, Dummy
<1> HIDE DEF Base
<1>3. Adds(built)
  <2>1. ASSUME NEW n \in 0 .. ways
        PROVE  Built(ways, n) = IF n = 0 THEN Base ELSE InsertFirst(built[n - 1], n)
    <3>1. CASE n = 0
      BY <1>2, <3>1
    <3>2. CASE n # 0
      <4>1. n \in 1 .. ways /\ n - 1 \in 0 .. ways
        BY <3>2
      <4>2. built[n - 1] = Built(ways, n - 1)
        BY <4>1
      <4> QED BY <3>2, <4>1, <4>2, BuiltStep
    <3> QED BY <3>1, <3>2
  <2> QED BY <2>1
<1>4. Adds(added)
  <2> HIDE DEF Adds, built
  <2> QED BY <1>3
<1> HIDE DEF added
<1>5. /\ added[0] = Base
      /\ \A n \in 1 .. ways : added[n] = InsertFirst(added[n - 1], n)
  BY <1>4
<1> DEFINE S == {n \in 0 .. ways : added[n] = Built(ways, n)}
<1>6. 0 .. ways \subseteq S
  <2>1. 0 \in S
    BY <1>2, <1>5
  <2>2. ASSUME NEW k \in 0 .. ways, k \in S, k < ways PROVE k + 1 \in S
    <3>1. k + 1 \in 1 .. ways /\ (k + 1) - 1 = k /\ k + 1 \in 0 .. ways
      BY <2>2
    <3>2. added[k] = Built(ways, k)
      BY <2>2
    <3>3. added[k + 1] = InsertFirst(Built(ways, k), k + 1)
      BY <1>5, <3>1, <3>2
    <3>4. InsertFirst(Built(ways, k), k + 1) = Built(ways, k + 1)
      BY <3>1, BuiltStep
    <3> QED BY <3>1, <3>3, <3>4
  <2> HIDE DEF S
  <2> QED BY <2>1, <2>2, BoundedInduct
<1> QED BY <1>1, <1>6

(* The set it returns is a ring of all its lines, none of them valid.      *)
LEMMA BuiltRing ==
    ASSUME NEW ways \in Nat
    PROVE  LET set == createCacheSet(ways)
               q == [k \in 1 .. ways |-> ways + 1 - k]
           IN /\ set \in CacheSets(ways) /\ Ring(set, ways, q) /\ Full(ways, q)
              /\ \A n \in 1 .. ways : ~set.valid[n]
<1> DEFINE set == Built(ways, ways)
           q == [k \in 1 .. ways |-> ways + 1 - k]
<1>1. /\ set.next = [m \in 0 .. ways |-> NextAt(ways, m)]
      /\ set.prev = [m \in 0 .. ways |-> PrevAt(ways, m)]
      /\ \A n \in 1 .. ways : ~set.valid[n]
  BY DEF Built
<1>2. set \in CacheSets(ways)
  BY DEF Built, CacheSets, NextAt, PrevAt
<1>3. q \in Seq(1 .. ways) /\ Len(q) = ways /\ \A k \in 1 .. ways : q[k] = ways + 1 - k
  OBVIOUS
<1> HIDE DEF set, q
<1>4. Distinct(q)
  BY <1>3 DEF Distinct
<1>5. \A k \in 0 .. ways + 1 : Spot(q, k) = IF k = 0 THEN 0 ELSE ways + 1 - k
  BY <1>3 DEF Spot, Dummy
<1>6. ASSUME NEW k \in 0 .. Len(q)
      PROVE  set.next[Spot(q, k)] = Spot(q, k + 1) /\ set.prev[Spot(q, k + 1)] = Spot(q, k)
  <2>1. k \in 0 .. ways /\ k + 1 \in 0 .. ways + 1 /\ k \in 0 .. ways + 1 /\ k + 1 # 0
    BY <1>3
  <2>2. Spot(q, k + 1) = ways - k /\ Spot(q, k) = IF k = 0 THEN 0 ELSE ways + 1 - k
    BY <1>5, <2>1
  <2>3. \A m \in 0 .. ways : set.next[m] = NextAt(ways, m) /\ set.prev[m] = PrevAt(ways, m)
    BY <1>1
  <2>4. NextAt(ways, IF k = 0 THEN 0 ELSE ways + 1 - k) = ways - k
    BY <2>1 DEF NextAt
  <2>5. PrevAt(ways, ways - k) = IF k = 0 THEN 0 ELSE ways + 1 - k
    BY <2>1 DEF PrevAt
  <2>6. ways - k \in 0 .. ways /\ (IF k = 0 THEN 0 ELSE ways + 1 - k) \in 0 .. ways
    BY <2>1
  <2> QED BY <2>2, <2>3, <2>4, <2>5, <2>6
<1>7. Full(ways, q)
  <2>1. ASSUME NEW n \in 1 .. ways PROVE \E k \in 1 .. Len(q) : q[k] = n
    <3>1. ways + 1 - n \in 1 .. ways /\ ways + 1 - (ways + 1 - n) = n
      OBVIOUS
    <3> QED BY <1>3, <3>1
  <2> QED BY <1>3, <2>1 DEF Full
<1> QED BY <1>1, <1>2, <1>3, <1>4, <1>6, <1>7, CreatedSet DEF Ring, set, q

-----------------------------------------------------------------------------
(* A set between two accesses.                                              *)
InOrder(set, q) ==
    \A i, j \in 1 .. Len(q) :
        i < j /\ set.valid[q[j]] => set.valid[q[i]] /\ set.tag[q[i]] # set.tag[q[j]]

Sound(set, ways) ==
    /\ set \in CacheSets(ways)
    /\ LET q == After(set, Dummy)
       IN Ring(set, ways, q) /\ Full(ways, q) /\ InOrder(set, q)

(* A ring is what the walk along it finds.                                 *)
LEMMA SoundAfter ==
    ASSUME NEW ways \in Nat, NEW set \in CacheSets(ways), NEW q, Ring(set, ways, q), Full(ways, q),
           InOrder(set, q)
    PROVE  Sound(set, ways) /\ After(set, Dummy) = q
<1>1. After(set, Dummy) = q
  BY AfterRing
<1> QED BY <1>1 DEF Sound

(* A set is sound when it is created.                                      *)
LEMMA CreatedSound ==
    ASSUME NEW ways \in Nat
    PROVE  /\ Sound(createCacheSet(ways), ways)
           /\ \A n \in 1 .. ways : ~createCacheSet(ways).valid[n]
<1> DEFINE set == createCacheSet(ways)
           q == [k \in 1 .. ways |-> ways + 1 - k]
<1>1. /\ set \in CacheSets(ways) /\ Ring(set, ways, q) /\ Full(ways, q)
      /\ \A n \in 1 .. ways : ~set.valid[n]
  BY BuiltRing
<1>2. \A k \in 1 .. Len(q) : q[k] \in 1 .. ways
  OBVIOUS
<1> HIDE DEF q, set
<1>3. InOrder(set, q)
  BY <1>1, <1>2 DEF InOrder
<1>4. Sound(set, ways)
  BY <1>1, <1>3, SoundAfter
<1> QED BY <1>1, <1>4 DEF set

(* What the run checks of a set.                                            *)
LEMMA SoundIsOK ==
    ASSUME NEW ways \in Nat, NEW set, Sound(set, ways)
    PROVE  RingOK(set) /\ FilledInOrder(set)
<1> DEFINE q == After(set, Dummy)
<1>1. set \in CacheSets(ways) /\ Ring(set, ways, q) /\ Full(ways, q) /\ InOrder(set, q)
  BY DEF Sound
<1> HIDE DEF q
<1>2. /\ q \in Seq(1 .. ways) /\ Distinct(q) /\ Len(q) = ways
      /\ Nodes(set) = 0 .. ways /\ Lines(set) = 1 .. ways
  <2>1. Nodes(set) = 0 .. ways
    BY <1>1 DEF CacheSets, Nodes
  <2>2. (0 .. ways) \ {0} = 1 .. ways
    OBVIOUS
  <2> QED BY <1>1, <2>1, <2>2 DEF Ring, Full, Lines, Dummy
<1>3. ToSet(q) = Lines(set)
  <2>1. DOMAIN q = 1 .. Len(q)
    BY <1>2
  <2>2. \A n \in 1 .. ways : \E k \in 1 .. Len(q) : q[k] = n
    BY <1>1 DEF Full
  <2>3. \A k \in 1 .. Len(q) : q[k] \in 1 .. ways
    BY <1>2
  <2> QED BY <1>2, <2>1, <2>2, <2>3 DEF ToSet
<1>4. Len(q) = Cardinality(Lines(set))
  BY <1>2, FS_Interval
<1>5. ASSUME NEW n \in Nodes(set) PROVE set.prev[set.next[n]] = n
  <2>1. PICK k \in 0 .. Len(q) : Spot(q, k) = n
    <3>1. CASE n = 0
      <4>1. Spot(q, 0) = 0 /\ 0 \in 0 .. Len(q)
        BY <1>2 DEF Spot, Dummy
      <4> QED BY <3>1, <4>1
    <3>2. CASE n # 0
      <4>1. n \in 1 .. ways
        BY <1>2, <3>2
      <4>2. PICK k \in 1 .. Len(q) : q[k] = n
        BY <1>1, <4>1 DEF Full
      <4> QED BY <4>2 DEF Spot
    <3> QED BY <3>1, <3>2
  <2> QED BY <1>1, <2>1 DEF Ring
<1>6. RingOK(set)
  BY <1>3, <1>4, <1>5 DEF RingOK, q
<1>7. FilledInOrder(set)
  <2> SUFFICES ASSUME NEW i \in 1 .. Len(q), NEW j \in 1 .. Len(q), i < j
               PROVE  /\ set.valid[q[j]] => set.valid[q[i]]
                      /\ set.valid[q[j]] => set.tag[q[i]] # set.tag[q[j]]
    BY DEF FilledInOrder, q
  <2> QED BY <1>1 DEF InOrder
<1> QED BY <1>6, <1>7

-----------------------------------------------------------------------------
(* An access: the k-th line of q is moved to the front, valid and with tag  *)
(* t.  It had the tag before, or no line had and it is the last.            *)
Matches(set, n, t) == set.valid[n] /\ set.tag[n] = t
Touches(set, new, ways, q, k, t) ==
    /\ new \in CacheSets(ways) /\ Ring(new, ways, First(q, k)) /\ Full(ways, First(q, k))
    /\ new.valid = [set.valid EXCEPT ![q[k]] = TRUE]
    /\ new.tag = [set.tag EXCEPT ![q[k]] = t]
    /\ \A j \in 1 .. Len(q) : j # k => ~Matches(set, q[j], t)
    /\ k = Len(q) \/ Matches(set, q[k], t)
    /\ isMiss(set, t) <=> ~Matches(set, q[k], t)
    /\ isEviction(set, t) <=> ~Matches(set, q[k], t) /\ set.valid[q[Len(q)]]

(* The line that checkAndUpdateSet stops at is the only valid one with     *)
(* the tag; it finds none exactly if there is none, and then the last      *)
(* line is the one to replace.                                             *)
LEMMA FoundLine ==
    ASSUME NEW ways \in Nat, NEW set, Sound(set, ways), NEW t \in Int
    PROVE  LET q == After(set, Dummy)
           IN \/ /\ \A j \in 1 .. Len(q) : ~Matches(set, q[j], t)
                 /\ Found(set, t) = Dummy /\ isMiss(set, t)
              \/ \E k \in 1 .. Len(q) :
                    /\ Matches(set, q[k], t) /\ Found(set, t) = q[k] /\ ~isMiss(set, t)
                    /\ \A j \in 1 .. Len(q) : j # k => ~Matches(set, q[j], t)
<1> DEFINE q == After(set, Dummy)
           I == {j \in 1 .. Len(q) : set.valid[q[j]] /\ set.tag[q[j]] = t}
           k == SelectInSeq(q, LAMBDA n : set.valid[n] /\ set.tag[n] = t)
<1>1. k = IF I # {} THEN Min(I) ELSE 0
  BY DEF SelectInSeq
<1>2. Found(set, t) = IF k = 0 THEN Dummy ELSE q[k]
  BY DEF Found
<1> HIDE DEF k
<1>3. /\ q \in Seq(1 .. ways) /\ InOrder(set, q)
      /\ \A j \in 1 .. Len(q) : q[j] \in 1 .. ways /\ q[j] # Dummy
  <2>1. q \in Seq(1 .. ways) /\ InOrder(set, q)
    BY DEF Sound, Ring
  <2> QED BY <2>1 DEF Dummy
<1> HIDE DEF q
<1>4. CASE I = {}
  BY <1>1, <1>2, <1>4 DEF Matches, isMiss, q
<1>5. CASE I # {}
  <2>1. I \in SUBSET Nat
    OBVIOUS
  <2> HIDE DEF I
  <2>2. Min(I) \in I /\ \A x \in I : Min(I) <= x
    BY <1>5, <2>1, NatMin
  <2>3. k \in I /\ k \in 1 .. Len(q) /\ k # 0
    BY <1>1, <1>5, <2>2 DEF I
  <2>4. ASSUME NEW j \in 1 .. Len(q), j # k PROVE ~Matches(set, q[j], t)
    <3>1. CASE j < k
      <4>1. j \notin I
        <5>1. k = Min(I) /\ j \in Int /\ k \in Int
          BY <1>1, <1>5, <2>3
        <5> QED BY <2>2, <3>1, <5>1
      <4> QED BY <4>1 DEF I, Matches
    <3>2. CASE k < j
      BY <1>3, <2>3, <3>2 DEF InOrder, Matches, I
    <3> QED BY <2>3, <2>4, <3>1, <3>2
  <2>5. Matches(set, q[k], t)
    BY <2>3 DEF I, Matches
  <2>6. Found(set, t) = q[k] /\ ~isMiss(set, t)
    BY <1>2, <1>3, <2>3 DEF isMiss
  <2> QED BY <2>3, <2>4, <2>5, <2>6 DEF q
<1> QED BY <1>4, <1>5

(* Either way of accessing a set moves one line to the front.              *)
LEMMA UseTouches ==
    ASSUME NEW ways \in Nat \ {0}, NEW set, Sound(set, ways), NEW t \in Int
    PROVE  LET q == After(set, Dummy)
           IN \E k \in 1 .. Len(q) : Touches(set, Use(set, t, Found(set, t)), ways, q, k, t)
<1> DEFINE q == After(set, Dummy)
           new == Use(set, t, Found(set, t))
<1>1. /\ set \in CacheSets(ways) /\ Ring(set, ways, q) /\ Full(ways, q) /\ InOrder(set, q)
  BY DEF Sound
<1> HIDE DEF q
<1>2. /\ q \in Seq(1 .. ways) /\ Distinct(q) /\ Len(q) = ways /\ Len(q) \in 1 .. Len(q)
      /\ \A j \in 1 .. Len(q) : q[j] \in 1 .. ways /\ q[j] # Dummy
  <2>1. q \in Seq(1 .. ways) /\ Distinct(q) /\ Len(q) = ways
    BY <1>1 DEF Ring, Full
  <2> QED BY <2>1 DEF Dummy
<1>3. set.valid \in [1 .. ways -> BOOLEAN] /\ set.tag \in [1 .. ways -> Int]
  BY <1>1 DEF CacheSets
<1>4. set.prev[Dummy] = q[Len(q)]
  <2>1. Len(q) \in 0 .. Len(q) /\ Spot(q, Len(q) + 1) = Dummy /\ Spot(q, Len(q)) = q[Len(q)]
    BY <1>2, Spots, SMTT(30)
  <2> QED BY <1>1, <2>1 DEF Ring
<1>5. CASE /\ \A j \in 1 .. Len(q) : ~Matches(set, q[j], t)
           /\ Found(set, t) = Dummy /\ isMiss(set, t)
  <2> DEFINE k == Len(q)
             filled == [set EXCEPT !.valid[q[k]] = TRUE, !.tag[q[k]] = t]
  <2>1. /\ filled.next = set.next /\ filled.prev = set.prev
        /\ filled.valid = [set.valid EXCEPT ![q[k]] = TRUE]
        /\ filled.tag = [set.tag EXCEPT ![q[k]] = t]
        /\ filled \in CacheSets(ways)
    <3>1. q[k] \in 1 .. ways
      BY <1>2
    <3> QED BY <1>1, <3>1 DEF CacheSets
  <2>2. new = MoveFirst(filled, q[k])
    BY <1>4, <1>5 DEF Use, addOrReplaceLine
  <2> HIDE DEF filled, new
  <2>3. Ring(filled, ways, q)
    BY <1>1, <2>1 DEF Ring
  <2>4. Relinked(filled, new, ways, First(q, k)) /\ Full(ways, First(q, k))
    BY <1>1, <1>2, <2>1, <2>2, <2>3, MoveRing
  <2>5. isEviction(set, t) <=> ~Matches(set, q[k], t) /\ set.valid[q[Len(q)]]
    BY <1>2, <1>4, <1>5 DEF isEviction
  <2>6. Touches(set, new, ways, q, k, t)
    BY <1>2, <1>5, <2>1, <2>4, <2>5 DEF Touches, Relinked
  <2> QED BY <1>2, <2>6 DEF new, q
<1>6. ASSUME NEW k \in 1 .. Len(q),
             Matches(set, q[k], t), Found(set, t) = q[k], ~isMiss(set, t),
             \A j \in 1 .. Len(q) : j # k => ~Matches(set, q[j], t)
      PROVE  Touches(set, new, ways, q, k, t)
  <2>1. new = MoveFirst(set, q[k])
    BY <1>2, <1>6 DEF Use
  <2> HIDE DEF new
  <2>2. Relinked(set, new, ways, First(q, k)) /\ Full(ways, First(q, k))
    BY <1>1, <2>1, MoveRing
  <2>3. /\ set.valid = [set.valid EXCEPT ![q[k]] = TRUE]
        /\ set.tag = [set.tag EXCEPT ![q[k]] = t]
    <3>1. set.valid[q[k]] = TRUE /\ set.tag[q[k]] = t /\ q[k] \in 1 .. ways
      BY <1>2, <1>3, <1>6 DEF Matches
    <3> QED BY <1>3, <3>1
  <2>4. ~isEviction(set, t)
    BY <1>6 DEF isEviction
  <2> QED BY <1>6, <2>2, <2>3, <2>4 DEF Touches, Relinked
<1> HIDE DEF new
<1> QED BY <1>5, <1>6, FoundLine DEF q, new

(* The line at each position after an access was at this one before.        *)
Source(k, j) == IF j = 1 THEN k ELSE IF j <= k THEN j - 1 ELSE j

(* Where the line at each place of the new order was before.               *)
LinesOf(ways, q) == ways \in Nat /\ q \in Seq(1 .. ways)
Sources(q, k) ==
    \A j \in 1 .. Len(q) : /\ First(q, k)[j] = q[Source(k, j)]
                           /\ Source(k, j) \in 1 .. Len(q)
                           /\ j # 1 => Source(k, j) # k

LEMMA FirstFrom ==
    ASSUME NEW ways, NEW q, LinesOf(ways, q), NEW k \in 1 .. Len(q)
    PROVE  Sources(q, k)
<1> SUFFICES ASSUME NEW j \in 1 .. Len(q)
             PROVE  /\ First(q, k)[j] = q[Source(k, j)] /\ Source(k, j) \in 1 .. Len(q)
                    /\ j # 1 => Source(k, j) # k
  BY DEF Sources
<1>1. ways \in Nat /\ q \in Seq(1 .. ways) /\ Len(q) \in Nat
  BY DEF LinesOf
<1>2. CASE j = 1
  BY <1>1, <1>2, FirstShape DEF Source
<1>3. CASE j # 1 /\ j <= k
  <2>1. j - 1 \in 1 .. k - 1 /\ (j - 1) + 1 = j /\ j - 1 \in 1 .. Len(q) /\ j - 1 # k
    BY <1>1, <1>3
  <2>2. First(q, k)[(j - 1) + 1] = q[j - 1]
    BY <1>1, <2>1, FirstShape
  <2> QED BY <1>3, <2>1, <2>2 DEF Source
<1>4. CASE j # 1 /\ ~(j <= k)
  <2>1. j \in k + 1 .. Len(q) /\ j # k
    BY <1>1, <1>4
  <2>2. First(q, k)[j] = q[j]
    BY <1>1, <2>1, FirstShape
  <2> QED BY <1>4, <2>1, <2>2 DEF Source
<1> QED BY <1>2, <1>3, <1>4

Shifted(set, new, q, k, t) ==
    /\ new.valid[First(q, k)[1]] /\ new.tag[First(q, k)[1]] = t
    /\ \A j \in 2 .. Len(q) : /\ new.valid[First(q, k)[j]] = set.valid[q[Source(k, j)]]
                              /\ new.tag[First(q, k)[j]] = set.tag[q[Source(k, j)]]
                              /\ Source(k, j) \in 1 .. Len(q) /\ Source(k, j) # k

(* The lines in the new order carry the bits and tags they had, but for    *)
(* the first.                                                              *)
LEMMA TouchedLines ==
    ASSUME NEW ways \in Nat \ {0}, NEW set, Sound(set, ways), NEW t \in Int, NEW new,
           NEW q, q = After(set, Dummy), NEW k \in 1 .. Len(q), Touches(set, new, ways, q, k, t)
    PROVE  Shifted(set, new, q, k, t)
<1>1. set \in CacheSets(ways) /\ q \in Seq(1 .. ways) /\ Distinct(q) /\ Len(q) = ways
  BY DEF Sound, Ring, Full
<1>2. set.valid \in [1 .. ways -> BOOLEAN] /\ set.tag \in [1 .. ways -> Int]
  BY <1>1 DEF CacheSets
<1>3. /\ new.valid = [set.valid EXCEPT ![q[k]] = TRUE] /\ new.tag = [set.tag EXCEPT ![q[k]] = t]
      /\ q[k] \in 1 .. ways
  BY <1>1 DEF Touches
<1>4. First(q, k)[1] = q[k]
  <2>1. ways \in Nat /\ q \in Seq(1 .. ways)
    BY <1>1
  <2> QED BY <2>1, FirstShape
<1>5. ASSUME NEW j \in 2 .. Len(q)
      PROVE  /\ new.valid[First(q, k)[j]] = set.valid[q[Source(k, j)]]
             /\ new.tag[First(q, k)[j]] = set.tag[q[Source(k, j)]]
             /\ Source(k, j) \in 1 .. Len(q) /\ Source(k, j) # k
  <2>1. j \in 1 .. Len(q) /\ j # 1
    BY <1>1
  <2>2. First(q, k)[j] = q[Source(k, j)] /\ Source(k, j) \in 1 .. Len(q) /\ Source(k, j) # k
    <3>1. LinesOf(ways, q)
      BY <1>1 DEF LinesOf
    <3>2. Sources(q, k)
      BY <3>1, FirstFrom
    <3> QED BY <2>1, <3>2 DEF Sources
  <2>3. q[Source(k, j)] # q[k] /\ q[Source(k, j)] \in 1 .. ways
    BY <1>1, <2>2 DEF Distinct
  <2> QED BY <1>2, <1>3, <2>2, <2>3
<1> QED BY <1>2, <1>3, <1>4, <1>5 DEF Shifted

(* A set is sound after an access.                                         *)
LEMMA TouchedSound ==
    ASSUME NEW ways \in Nat \ {0}, NEW set, Sound(set, ways), NEW t \in Int, NEW new,
           NEW q, q = After(set, Dummy), NEW k \in 1 .. Len(q), Touches(set, new, ways, q, k, t)
    PROVE  Sound(new, ways) /\ After(new, Dummy) = First(q, k)
<1> DEFINE r == First(q, k)
<1>1. set \in CacheSets(ways) /\ q \in Seq(1 .. ways) /\ Len(q) = ways /\ InOrder(set, q)
  BY DEF Sound, Ring, Full
<1>2. /\ new.valid[r[1]] /\ new.tag[r[1]] = t
      /\ \A j \in 2 .. Len(q) : /\ new.valid[r[j]] = set.valid[q[Source(k, j)]]
                                /\ new.tag[r[j]] = set.tag[q[Source(k, j)]]
                                /\ Source(k, j) \in 1 .. Len(q) /\ Source(k, j) # k
  <2>1. Shifted(set, new, q, k, t)
    BY TouchedLines
  <2> QED BY <2>1 DEF Shifted
<1>3. Len(r) = Len(q)
  BY <1>1, FirstShape
<1> HIDE DEF r
<1>4. InOrder(new, r)
  <2> SUFFICES ASSUME NEW i \in 1 .. Len(q), NEW j \in 1 .. Len(q), i < j, new.valid[r[j]]
               PROVE  new.valid[r[i]] /\ new.tag[r[i]] # new.tag[r[j]]
    BY <1>3 DEF InOrder
  <2>1. j \in 2 .. Len(q) /\ Len(q) \in Nat
    BY <1>1
  <2> DEFINE y == Source(k, j)
  <2>2. set.valid[q[y]] /\ new.tag[r[j]] = set.tag[q[y]] /\ y \in 1 .. Len(q) /\ y # k
    BY <1>2, <2>1
  <2>3. set.tag[q[y]] # t
    BY <2>2 DEF Touches, Matches
  <2>4. CASE i = 1
    BY <1>2, <2>2, <2>3, <2>4
  <2>5. CASE i # 1
    <3> DEFINE x == Source(k, i)
    <3>1. i \in 2 .. Len(q)
      BY <2>5
    <3>2. /\ new.valid[r[i]] = set.valid[q[x]] /\ new.tag[r[i]] = set.tag[q[x]]
          /\ x \in 1 .. Len(q)
      BY <1>2, <3>1
    <3>3. x < y
      BY <2>1, <3>1 DEF Source
    <3> HIDE DEF x, y
    <3>4. set.valid[q[x]] /\ set.tag[q[x]] # set.tag[q[y]]
      BY <1>1, <2>2, <3>2, <3>3 DEF InOrder
    <3> QED BY <2>2, <3>2, <3>4
  <2> QED BY <2>4, <2>5
<1>5. new \in CacheSets(ways) /\ Ring(new, ways, r) /\ Full(ways, r)
  BY DEF Touches, r
<1>6. Sound(new, ways) /\ After(new, Dummy) = r
  BY <1>4, <1>5, SoundAfter
<1> QED BY <1>6 DEF r

-----------------------------------------------------------------------------
(* The tags in use are those of the first lines.                            *)
Used(set, q, v) ==
    /\ v \in 0 .. Len(q)
    /\ \A j \in 1 .. Len(q) : set.valid[q[j]] <=> j <= v
    /\ Recent(set) = [k \in 1 .. v |-> set.tag[q[k]]]

(* The tags in use are a sequence: unused lines come last.                 *)
LEMMA RecentShape ==
    ASSUME NEW ways \in Nat, NEW set, Sound(set, ways)
    PROVE  LET q == After(set, Dummy)
           IN \E v : Used(set, q, v) /\ Recent(set) \in Seq(Int) /\ Len(Recent(set)) = v
<1> DEFINE q == After(set, Dummy)
           V == {j \in 1 .. Len(q) : ~set.valid[q[j]]}
<1>1. /\ set \in CacheSets(ways) /\ q \in Seq(1 .. ways) /\ Len(q) = ways /\ InOrder(set, q)
  BY DEF Sound, Ring, Full
<1>2. /\ Recent(set) = [k \in {j \in DOMAIN q : set.valid[q[j]]} |-> set.tag[q[k]]]
      /\ DOMAIN q = 1 .. Len(q) /\ \A j \in 1 .. Len(q) : q[j] \in 1 .. ways
      /\ set.tag \in [1 .. ways -> Int]
  <2>1. set.tag \in [1 .. ways -> Int]
    BY <1>1 DEF CacheSets
  <2>2. DOMAIN q = 1 .. Len(q) /\ \A j \in 1 .. Len(q) : q[j] \in 1 .. ways
    BY <1>1
  <2>3. Recent(set) = [k \in {j \in DOMAIN q : set.valid[q[j]]} |-> set.tag[q[k]]]
    BY DEF Recent
  <2> QED BY <2>1, <2>2, <2>3
<1> HIDE DEF q
<1>3. \E v \in 0 .. Len(q) : \A j \in 1 .. Len(q) : set.valid[q[j]] <=> j <= v
  <2>1. CASE V = {}
    <3>1. \A j \in 1 .. Len(q) : set.valid[q[j]] /\ j <= Len(q)
      BY <2>1
    <3>2. Len(q) \in 0 .. Len(q)
      BY <1>1
    <3> QED BY <3>1, <3>2
  <2>2. CASE V # {}
    <3>1. V \in SUBSET Nat
      OBVIOUS
    <3> HIDE DEF V
    <3>2. Min(V) \in V /\ \A x \in V : Min(V) <= x
      BY <2>2, <3>1, NatMin
    <3> DEFINE v == Min(V) - 1
    <3>3. v \in 0 .. Len(q) /\ Min(V) \in 1 .. Len(q) /\ ~set.valid[q[Min(V)]]
      BY <3>2 DEF V
    <3>4. ASSUME NEW j \in 1 .. Len(q) PROVE set.valid[q[j]] <=> j <= v
      <4>1. ASSUME set.valid[q[j]], j > v PROVE FALSE
        <5>1. Min(V) = j \/ Min(V) < j
          BY <3>3, <4>1
        <5> QED BY <1>1, <3>3, <4>1, <5>1 DEF InOrder
      <4>2. ASSUME ~set.valid[q[j]], j <= v PROVE FALSE
        <5>1. j \in V
          BY <4>2 DEF V
        <5>2. Min(V) <= j /\ Min(V) \in Int
          BY <3>2, <3>3, <5>1
        <5> QED BY <4>2, <5>2
      <4>3. v \in Int /\ j \in Int
        BY <3>3
      <4> QED BY <4>1, <4>2, <4>3
    <3> QED BY <3>3, <3>4
  <2> QED BY <2>1, <2>2
<1>4. PICK v \in 0 .. Len(q) : \A j \in 1 .. Len(q) : set.valid[q[j]] <=> j <= v
  BY <1>3
<1>5. {j \in DOMAIN q : set.valid[q[j]]} = 1 .. v
  <2>1. \A j : (j \in 1 .. Len(q) /\ set.valid[q[j]]) <=> j \in 1 .. v
    BY <1>1, <1>4
  <2> QED BY <1>2, <2>1
<1>6. Recent(set) = [k \in 1 .. v |-> set.tag[q[k]]]
  BY <1>2, <1>5
<1>7. \A k \in 1 .. v : set.tag[q[k]] \in Int
  BY <1>1, <1>2, <1>4
<1>8. Recent(set) \in Seq(Int) /\ Len(Recent(set)) = v
  BY <1>6, <1>7, <1>4
<1> QED BY <1>4, <1>6, <1>8 DEF Used, q

(* RemoveFirst of a tag that is there once, and of one that is not.         *)
LEMMA RemoveOnce ==
    ASSUME NEW w \in Seq(Int), NEW t, NEW k \in 1 .. Len(w), w[k] = t,
           \A j \in 1 .. Len(w) : w[j] = t => j = k
    PROVE  RemoveFirst(w, t) = Without(w, k)
<1> DEFINE I == {i \in 1 .. Len(w) : w[i] = t}
           at == SelectInSeq(w, LAMBDA x : x = t)
<1>1. at = IF I # {} THEN Min(I) ELSE 0
  BY DEF SelectInSeq
<1>2. I = {k}
  OBVIOUS
<1>3. at = k
  <2>1. I \in SUBSET Nat
    OBVIOUS
  <2> HIDE DEF I, at
  <2>2. Min(I) \in I
    BY <1>2, <2>1, NatMin
  <2> QED BY <1>1, <1>2, <2>2
<1>4. RemoveFirst(w, t) = RemoveAt(w, at)
  BY DEF RemoveFirst
<1> HIDE DEF at, I
<1>5. RemoveFirst(w, t) = SubSeq(w, 1, k - 1) \o SubSeq(w, k + 1, Len(w))
  BY <1>3, <1>4 DEF RemoveAt
<1> DEFINE x == SubSeq(w, 1, k - 1)
           y == SubSeq(w, k + 1, Len(w))
<1>6. Len(w) \in Nat /\ k \in Nat /\ 1 <= k /\ k <= Len(w)
  OBVIOUS
<1>7. /\ x \in Seq(Int) /\ Len(x) = k - 1 /\ \A j \in 1 .. k - 1 : x[j] = w[j]
      /\ y \in Seq(Int) /\ Len(y) = Len(w) - k /\ \A j \in 1 .. Len(w) - k : y[j] = w[j + k]
  BY <1>6
<1> HIDE DEF x, y
<1>8. /\ x \o y \in Seq(Int) /\ Len(x \o y) = Len(w) - 1
      /\ \A j \in 1 .. Len(w) - 1 : (x \o y)[j] = IF j < k THEN w[j] ELSE w[j + 1]
  <2>1. x \o y \in Seq(Int) /\ Len(x \o y) = Len(w) - 1
    <3>1. x \o y \in Seq(Int) /\ Len(x \o y) = Len(x) + Len(y)
      BY <1>7, ConcatProperties
    <3> QED BY <1>6, <1>7, <3>1
  <2>2. ASSUME NEW j \in 1 .. Len(w) - 1 PROVE (x \o y)[j] = IF j < k THEN w[j] ELSE w[j + 1]
    <3>0. /\ j \in 1 .. Len(x) + Len(y)
          /\ (x \o y)[j] = IF j <= Len(x) THEN x[j] ELSE y[j - Len(x)]
      <4>1. j \in 1 .. Len(x) + Len(y)
        BY <1>6, <1>7
      <4> QED BY <1>7, <4>1, ConcatProperties
    <3>1. CASE j < k
      <4>1. j \in 1 .. k - 1 /\ j <= Len(x)
        BY <1>6, <1>7, <3>1
      <4> QED BY <1>7, <3>0, <3>1, <4>1
    <3>2. CASE ~(j < k)
      <4>1. j - (k - 1) \in 1 .. Len(w) - k /\ (j - (k - 1)) + k = j + 1
        BY <1>6, <3>2
      <4>2. (x \o y)[j] = y[j - (k - 1)]
        BY <1>6, <1>7, <3>0, <3>2
      <4> QED BY <1>7, <3>2, <4>1, <4>2
    <3> QED BY <3>1, <3>2
  <2> QED BY <2>1, <2>2
<1>9. /\ Without(w, k) \in Seq(Int) /\ Len(Without(w, k)) = Len(w) - 1
      /\ \A j \in 1 .. Len(w) - 1 : Without(w, k)[j] = IF j < k THEN w[j] ELSE w[j + 1]
  BY <1>6 DEF Without
<1>10. x \o y = Without(w, k)
  <2> DEFINE u == x \o y
             v == Without(w, k)
  <2>1. u \in Seq(Int) /\ v \in Seq(Int) /\ Len(u) = Len(v)
    BY <1>8, <1>9
  <2>2. \A j \in 1 .. Len(u) : u[j] = v[j]
    BY <1>8, <1>9
  <2> HIDE DEF u, v
  <2>3. u = v
    BY <2>1, <2>2, SeqEqual
  <2> QED BY <2>3 DEF u, v
<1> QED BY <1>5, <1>10 DEF x, y

(* What is to become of the tags of a set of that many ways.                *)
LruTags(tags, t, ways) ==
    LET u == <<t>> \o RemoveFirst(tags, t)
    IN SubSeq(u, 1, IF Len(u) > ways THEN ways ELSE Len(u))

SamePrefix(n, v, w) == \A j \in 1 .. n : j <= v <=> j <= w

(* Two prefixes with the same places are equally long.                     *)
LEMMA SameLength ==
    ASSUME NEW n \in Nat, NEW v \in 0 .. n, NEW w \in 0 .. n, SamePrefix(n, v, w)
    PROVE  v = w
<1>1. v > 0 => v \in 1 .. n
  OBVIOUS
<1>2. w > 0 => w \in 1 .. n
  OBVIOUS
<1> QED BY <1>1, <1>2 DEF SamePrefix

(* What is at each place when a tag is put in front.                       *)
LEMMA PushFront ==
    ASSUME NEW t \in Int, NEW w \in Seq(Int)
    PROVE  /\ <<t>> \o w \in Seq(Int) /\ Len(<<t>> \o w) = Len(w) + 1
           /\ (<<t>> \o w)[1] = t
           /\ \A j \in 2 .. Len(w) + 1 : (<<t>> \o w)[j] = w[j - 1]
<1> DEFINE x == <<t>>
<1>1. x \in Seq(Int) /\ Len(x) = 1 /\ x[1] = t /\ Len(w) \in Nat
  OBVIOUS
<1> HIDE DEF x
<1>2. /\ x \o w \in Seq(Int) /\ Len(x \o w) = Len(x) + Len(w)
      /\ \A i \in 1 .. Len(x) + Len(w) : (x \o w)[i] = IF i <= Len(x) THEN x[i] ELSE w[i - Len(x)]
  BY <1>1, ConcatProperties
<1>3. \A j \in 2 .. Len(w) + 1 : (x \o w)[j] = w[j - 1]
  BY <1>1, <1>2
<1>4. (x \o w)[1] = t
  BY <1>1, <1>2
<1>5. Len(x \o w) = Len(w) + 1
  BY <1>1, <1>2
<1> QED BY <1>2, <1>3, <1>4, <1>5 DEF x

(* An access makes of the tags what the abstract cache makes of them, and  *)
(* is a miss or an eviction for the simulator exactly if it is one for     *)
(* the abstract cache.                                                     *)
LEMMA TouchedRecent ==
    ASSUME NEW ways \in Nat \ {0}, NEW set, Sound(set, ways), NEW t \in Int, NEW new,
           NEW q, q = After(set, Dummy), NEW k \in 1 .. Len(q), Touches(set, new, ways, q, k, t)
    PROVE  /\ Recent(set) \in Seq(Int) /\ Recent(new) = LruTags(Recent(set), t, ways)
           /\ Contains(Recent(set), t) <=> ~isMiss(set, t)
           /\ isEviction(set, t) <=> isMiss(set, t) /\ ~(Len(Recent(set)) < ways)
<1> DEFINE r == First(q, k)
           w == Recent(set)
           z == Recent(new)
<1>0. ways \in Nat
  OBVIOUS
<1>1. q \in Seq(1 .. ways) /\ Len(q) = ways /\ Len(r) = ways
  <2>1. q \in Seq(1 .. ways) /\ Len(q) = ways /\ ways \in Nat
    BY DEF Sound, Ring, Full
  <2> QED BY <2>1, FirstShape
<1>2. PICK v : Used(set, q, v) /\ w \in Seq(Int) /\ Len(w) = v
  BY RecentShape
<1>3. Sound(new, ways) /\ After(new, Dummy) = r
  BY TouchedSound
<1>4. PICK y : Used(new, r, y) /\ z \in Seq(Int) /\ Len(z) = y
  BY <1>3, RecentShape
<1>5. /\ new.valid[r[1]] /\ new.tag[r[1]] = t
      /\ \A j \in 2 .. ways : /\ new.valid[r[j]] = set.valid[q[Source(k, j)]]
                              /\ new.tag[r[j]] = set.tag[q[Source(k, j)]]
                              /\ Source(k, j) \in 1 .. ways /\ Source(k, j) # k
  <2>1. Shifted(set, new, q, k, t)
    BY TouchedLines
  <2> QED BY <1>1, <2>1 DEF Shifted
<1>6. /\ v \in 0 .. ways /\ \A j \in 1 .. ways : set.valid[q[j]] <=> j <= v
      /\ \A j \in 1 .. v : w[j] = set.tag[q[j]]
  BY <1>1, <1>2 DEF Used
<1>7. /\ y \in 0 .. ways /\ \A j \in 1 .. ways : new.valid[r[j]] <=> j <= y
      /\ \A j \in 1 .. y : z[j] = new.tag[r[j]]
  BY <1>1, <1>4 DEF Used
<1>8. /\ \A j \in 1 .. ways : j # k => ~Matches(set, q[j], t)
      /\ k = ways \/ Matches(set, q[k], t)
      /\ isMiss(set, t) <=> ~Matches(set, q[k], t)
      /\ isEviction(set, t) <=> ~Matches(set, q[k], t) /\ set.valid[q[ways]]
      /\ k \in 1 .. ways
  BY <1>1 DEF Touches
<1> HIDE DEF r, w, z
<1>9. \A j \in 1 .. v : w[j] = t <=> Matches(set, q[j], t)
  BY <1>6 DEF Matches
<1>10. isEviction(set, t) <=> isMiss(set, t) /\ ~(Len(w) < ways)
  <2>1. set.valid[q[ways]] <=> ways <= v
    BY <1>6
  <2> QED BY <1>2, <1>6, <1>8, <2>1
<1>11. CASE Matches(set, q[k], t)
  <2>1. k \in 1 .. v
    BY <1>6, <1>8, <1>11 DEF Matches
  <2>2. w[k] = t /\ \A j \in 1 .. Len(w) : w[j] = t => j = k
    BY <1>2, <1>6, <1>8, <1>9, <1>11, <2>1
  <2>3. RemoveFirst(w, t) = Without(w, k)
    BY <1>2, <2>1, <2>2, RemoveOnce
  <2>4. Contains(w, t) /\ ~isMiss(set, t)
    BY <1>2, <1>8, <1>11, <2>1, <2>2 DEF Contains
  <2>5. y = v
    <3>1. ASSUME NEW j \in 1 .. ways PROVE j <= y <=> j <= v
      <4>1. CASE j = 1
        BY <1>5, <1>6, <1>7, <2>1, <4>1
      <4>2. CASE j # 1
        <5>1. j \in 2 .. ways
          BY <4>2
        <5>2. j <= y <=> Source(k, j) <= v
          BY <1>5, <1>6, <1>7, <5>1, SMTT(30)
        <5>3. Source(k, j) <= v <=> j <= v
          BY <1>6, <2>1, <5>1 DEF Source
        <5> QED BY <5>2, <5>3
      <4> QED BY <4>1, <4>2
    <3>2. SamePrefix(ways, y, v)
      BY <3>1 DEF SamePrefix
    <3> QED BY <1>6, <1>7, <3>2, <1>0, SameLength
  <2> DEFINE x == Without(w, k)
             u == <<t>> \o x
  <2>6. /\ x \in Seq(Int) /\ Len(x) = v - 1
        /\ \A j \in 1 .. v - 1 : x[j] = IF j < k THEN w[j] ELSE w[j + 1]
    <3>1. Len(w) = v /\ v \in Nat /\ k \in Nat
      BY <1>2, <1>6, <1>8
    <3> QED BY <1>2, <2>1, <3>1 DEF Without
  <2> HIDE DEF x
  <2>7. u \in Seq(Int) /\ Len(u) = v /\ u[1] = t /\ \A j \in 2 .. v : u[j] = x[j - 1]
    <3>1. Len(x) + 1 = v
      BY <1>6, <2>6
    <3> QED BY <2>6, <3>1, PushFront
  <2> HIDE DEF u
  <2>8. LruTags(w, t, ways) = u
    <3>1. LruTags(w, t, ways) = SubSeq(u, 1, Len(u))
      BY <1>6, <2>3, <2>7 DEF LruTags, u, x
    <3> QED BY <2>7, <3>1
  <2>9. \A j \in 1 .. v : z[j] = u[j]
    <3> SUFFICES ASSUME NEW j \in 1 .. v PROVE z[j] = u[j]
      OBVIOUS
    <3>1. CASE j = 1
      <4>1. z[1] = new.tag[r[1]]
        BY <1>7, <2>5, <3>1
      <4> QED BY <1>5, <2>7, <3>1, <4>1
    <3>2. CASE j # 1
      <4>1. j \in 2 .. v /\ j \in 2 .. ways /\ j - 1 \in 1 .. v - 1 /\ (j - 1) + 1 = j
        BY <1>6, <3>2
      <4>2. z[j] = set.tag[q[Source(k, j)]]
        BY <1>5, <1>7, <2>5, <4>1
      <4>3. u[j] = IF j - 1 < k THEN w[j - 1] ELSE w[j]
        BY <2>6, <2>7, <4>1
      <4>4. Source(k, j) = (IF j - 1 < k THEN j - 1 ELSE j) /\ j - 1 \in 1 .. v
        BY <1>6, <2>1, <4>1 DEF Source
      <4> QED BY <1>6, <4>1, <4>2, <4>3, <4>4
    <3> QED BY <3>1, <3>2
  <2>10. z = u
    BY <1>4, <2>5, <2>7, <2>9, SeqEqual
  <2> QED BY <1>2, <1>10, <2>4, <2>8, <2>10 DEF w, z
<1>12. CASE ~Matches(set, q[k], t)
  <2>1. k = ways /\ \A j \in 1 .. v : w[j] # t
    BY <1>6, <1>8, <1>9, <1>12
  <2>2. RemoveFirst(w, t) = w /\ ~Contains(w, t) /\ isMiss(set, t)
    BY <1>2, <1>8, <1>12, <2>1 DEF RemoveFirst, Contains
  <2> DEFINE u == <<t>> \o w
             len == IF v + 1 > ways THEN ways ELSE v + 1
  <2>3. y = len
    <3>1. ASSUME NEW j \in 1 .. ways PROVE j <= y <=> j <= len
      <4>1. CASE j = 1
        BY <1>5, <1>6, <1>7, <4>1
      <4>2. CASE j # 1
        <5>1. j \in 2 .. ways
          BY <4>2
        <5>2. j <= y <=> Source(k, j) <= v
          BY <1>5, <1>6, <1>7, <5>1
        <5>3. Source(k, j) <= v <=> j <= len
          BY <1>6, <2>1, <5>1 DEF Source
        <5> QED BY <5>2, <5>3
      <4> QED BY <4>1, <4>2
    <3>2. len \in 0 .. ways
      BY <1>6
    <3> HIDE DEF len
    <3>3. SamePrefix(ways, y, len)
      BY <3>1 DEF SamePrefix
    <3> QED BY <1>6, <1>7, <3>2, <3>3, <1>0, SameLength
  <2>4. u \in Seq(Int) /\ Len(u) = v + 1 /\ u[1] = t /\ \A j \in 2 .. v + 1 : u[j] = w[j - 1]
    BY <1>2, PushFront
  <2> HIDE DEF u
  <2>5. LruTags(w, t, ways) = SubSeq(u, 1, y)
    BY <2>2, <2>3, <2>4 DEF LruTags, u
  <2>6. len \in 1 .. v + 1 /\ len <= ways
    BY <1>6
  <2>7. /\ SubSeq(u, 1, y) \in Seq(Int) /\ Len(SubSeq(u, 1, y)) = y
        /\ \A j \in 1 .. y : SubSeq(u, 1, y)[j] = u[j]
    <3>1. y \in Int /\ 1 <= y /\ y - 1 + 1 = y /\ \A j \in 1 .. y : u[j] \in Int /\ 1 + j - 1 = j
      BY <1>6, <2>3, <2>4, <2>6
    <3> QED BY <3>1, SubSeqProperties
  <2>8. \A j \in 1 .. y : z[j] = u[j]
    <3> SUFFICES ASSUME NEW j \in 1 .. y PROVE z[j] = u[j]
      OBVIOUS
    <3>1. CASE j = 1
      <4>1. z[1] = new.tag[r[1]]
        BY <1>7, <3>1
      <4> QED BY <1>5, <2>4, <3>1, <4>1
    <3>2. CASE j # 1
      <4>1. j \in 2 .. v + 1 /\ j \in 2 .. ways /\ j - 1 \in 1 .. v /\ Source(k, j) = j - 1
        BY <1>6, <2>1, <2>3, <2>6, <3>2 DEF Source
      <4>2. z[j] = set.tag[q[j - 1]]
        BY <1>5, <1>7, <4>1
      <4> QED BY <1>6, <2>4, <4>1, <4>2
    <3> QED BY <3>1, <3>2
  <2>9. z = SubSeq(u, 1, y)
    BY <1>4, <2>7, <2>8, SeqEqual
  <2> QED BY <1>2, <1>10, <2>2, <2>5, <2>9 DEF w, z
<1> QED BY <1>11, <1>12

-----------------------------------------------------------------------------
(* A trace.  The recursive definitions of Csim and SetLru have values.      *)
Touched(f, st, asked, n) ==
    f = [k \in 0 .. n |-> IF k = 0 THEN st ELSE Promised!Touch(f[k - 1], asked[k])]

(* The recursive definition in TouchAll has a value.                       *)
LEMMA TouchesExist ==
    ASSUME NEW st, NEW asked, NEW n \in Nat
    PROVE  \E f : Touched(f, st, asked, n)
<1> DEFINE S == {k \in 0 .. n : \E f : Touched(f, st, asked, k)}
<1>1. 0 \in S
  <2> DEFINE f == [k \in 0 .. 0 |-> st]
  <2>1. Touched(f, st, asked, 0)
    BY DEF Touched
  <2> QED BY <2>1
<1>2. ASSUME NEW k \in 0 .. n, k \in S, k < n PROVE k + 1 \in S
  <2>1. PICK g : Touched(g, st, asked, k)
    BY <1>2
  <2> DEFINE f == [j \in 0 .. k + 1 |-> IF j <= k THEN g[j] ELSE Promised!Touch(g[k], asked[k + 1])]
  <2>2. ASSUME NEW j \in 0 .. k + 1
        PROVE  f[j] = IF j = 0 THEN st ELSE Promised!Touch(f[j - 1], asked[j])
    <3>1. CASE j = 0
      BY <2>1, <3>1 DEF Touched
    <3>2. CASE j # 0 /\ j <= k
      <4>1. j \in 0 .. k /\ j - 1 \in 0 .. k /\ j - 1 <= k /\ j - 1 \in 0 .. k + 1
        BY <3>2
      <4>2. f[j] = g[j] /\ f[j - 1] = g[j - 1]
        BY <3>2, <4>1
      <4> HIDE DEF f
      <4>3. g[j] = Promised!Touch(g[j - 1], asked[j])
        BY <2>1, <3>2, <4>1 DEF Touched
      <4> QED BY <3>2, <4>2, <4>3
    <3>3. CASE ~(j <= k)
      <4>1. j = k + 1 /\ j # 0 /\ k \in 0 .. k + 1 /\ j - 1 = k
        BY <1>2, <3>3
      <4>2. f[k] = g[k] /\ f[j] = Promised!Touch(g[k], asked[k + 1])
        BY <3>3, <4>1
      <4> HIDE DEF f
      <4> QED BY <4>1, <4>2
    <3> QED BY <3>1, <3>2, <3>3
  <2>3. f = [j \in 0 .. k + 1 |-> f[j]]
    OBVIOUS
  <2> HIDE DEF f
  <2>4. Touched(f, st, asked, k + 1)
    BY <2>2, <2>3 DEF Touched
  <2> QED BY <1>2, <2>4
<1>3. n \in S
  <2> HIDE DEF S
  <2>1. 0 .. n \subseteq S
    BY <1>1, <1>2, BoundedInduct
  <2> QED BY <2>1
<1> QED BY <1>3

Parsed(f, m, batch, n) ==
    f = [k \in 0 .. n |-> IF k = 0 THEN m ELSE parseLine(f[k - 1], batch[k])]

(* So has the one in parseLines.                                           *)
LEMMA LinesExist ==
    ASSUME NEW m, NEW batch, NEW n \in Nat
    PROVE  \E f : Parsed(f, m, batch, n)
<1> DEFINE S == {k \in 0 .. n : \E f : Parsed(f, m, batch, k)}
<1>1. 0 \in S
  <2> DEFINE f == [k \in 0 .. 0 |-> m]
  <2>1. Parsed(f, m, batch, 0)
    BY DEF Parsed
  <2> QED BY <2>1
<1>2. ASSUME NEW k \in 0 .. n, k \in S, k < n PROVE k + 1 \in S
  <2>1. PICK g : Parsed(g, m, batch, k)
    BY <1>2
  <2> DEFINE f == [j \in 0 .. k + 1 |-> IF j <= k THEN g[j] ELSE parseLine(g[k], batch[k + 1])]
  <2>2. ASSUME NEW j \in 0 .. k + 1
        PROVE  f[j] = IF j = 0 THEN m ELSE parseLine(f[j - 1], batch[j])
    <3>1. CASE j = 0
      BY <2>1, <3>1 DEF Parsed
    <3>2. CASE j # 0 /\ j <= k
      <4>1. j \in 0 .. k /\ j - 1 \in 0 .. k /\ j - 1 <= k /\ j - 1 \in 0 .. k + 1
        BY <3>2
      <4>2. f[j] = g[j] /\ f[j - 1] = g[j - 1]
        BY <3>2, <4>1
      <4> HIDE DEF f
      <4>3. g[j] = parseLine(g[j - 1], batch[j])
        BY <2>1, <3>2, <4>1 DEF Parsed
      <4> QED BY <3>2, <4>2, <4>3
    <3>3. CASE ~(j <= k)
      <4>1. j = k + 1 /\ j # 0 /\ k \in 0 .. k + 1 /\ j - 1 = k
        BY <1>2, <3>3
      <4>2. f[k] = g[k] /\ f[j] = parseLine(g[k], batch[k + 1])
        BY <3>3, <4>1
      <4> HIDE DEF f
      <4> QED BY <4>1, <4>2
    <3> QED BY <3>1, <3>2, <3>3
  <2>3. f = [j \in 0 .. k + 1 |-> f[j]]
    OBVIOUS
  <2> HIDE DEF f
  <2>4. Parsed(f, m, batch, k + 1)
    BY <2>2, <2>3 DEF Parsed
  <2> QED BY <1>2, <2>4
<1>3. n \in S
  <2> HIDE DEF S
  <2>1. 0 .. n \subseteq S
    BY <1>1, <1>2, BoundedInduct
  <2> QED BY <2>1
<1> QED BY <1>3

(* TouchAll is the last of the states that follow one another.             *)
LEMMA TouchAllValue ==
    ASSUME NEW st, NEW S, NEW asked \in Seq(S), NEW f, Touched(f, st, asked, Len(asked))
    PROVE  Promised!TouchAll(st, asked) = f[Len(asked)]
<1> DEFINE g == CHOOSE g : Touched(g, st, asked, Len(asked))
<1>1. Touched(g, st, asked, Len(asked))
  OBVIOUS
<1>2. Promised!TouchAll(st, asked) = g[Len(asked)]
  BY DEF Promised!TouchAll, Touched
<1> HIDE DEF g
<1>3. Len(asked) \in Nat
  OBVIOUS
<1> DEFINE Same == {k \in 0 .. Len(asked) : f[k] = g[k]}
<1>4. 0 \in Same
  BY <1>1, <1>3 DEF Touched
<1>5. ASSUME NEW k \in 0 .. Len(asked), k \in Same, k < Len(asked) PROVE k + 1 \in Same
  <2>1. k + 1 \in 0 .. Len(asked) /\ k + 1 # 0 /\ (k + 1) - 1 = k
    BY <1>3, <1>5
  <2>2. f[k + 1] = Promised!Touch(f[k], asked[k + 1]) /\ g[k + 1] = Promised!Touch(g[k], asked[k + 1])
    BY <1>1, <2>1 DEF Touched
  <2> QED BY <1>5, <2>1, <2>2
<1>6. 0 .. Len(asked) \subseteq Same
  <2> HIDE DEF Same
  <2> QED BY <1>3, <1>4, <1>5, BoundedInduct
<1> QED BY <1>2, <1>3, <1>6

(* No access changes nothing.                                              *)
LEMMA TouchNone ==
    ASSUME NEW st
    PROVE  Promised!TouchAll(st, <<>>) = st
<1>1. PICK f : Touched(f, st, <<>>, 0)
  BY TouchesExist
<1>2. <<>> \in Seq({}) /\ Len(<<>>) = 0
  OBVIOUS
<1>3. Promised!TouchAll(st, <<>>) = f[0]
  BY <1>1, <1>2, TouchAllValue
<1>4. f[0] = st
  BY <1>1 DEF Touched
<1> QED BY <1>3, <1>4

(* One more access is one more step.                                       *)
LEMMA TouchAllStep ==
    ASSUME NEW st, NEW S, NEW asked \in Seq(S), NEW x \in S
    PROVE  Promised!TouchAll(st, Append(asked, x)) = Promised!Touch(Promised!TouchAll(st, asked), x)
<1> DEFINE more == Append(asked, x)
           n == Len(asked)
<1>2. n \in Nat /\ more \in Seq(S) /\ Len(more) = n + 1 /\ more[n + 1] = x
      /\ \A k \in 1 .. n : more[k] = asked[k]
  OBVIOUS
<1> HIDE DEF more, n
<1>3. PICK f : Touched(f, st, more, n + 1)
  <2>1. n + 1 \in Nat
    BY <1>2
  <2>2. \A m \in Nat : \E f : Touched(f, st, more, m)
    BY TouchesExist
  <2> QED BY <2>1, <2>2
<1>4. Promised!TouchAll(st, more) = f[n + 1]
  BY <1>2, <1>3, TouchAllValue
<1> DEFINE g == [k \in 0 .. n |-> f[k]]
<1>5. Touched(g, st, asked, n)
  <2>1. ASSUME NEW k \in 0 .. n
        PROVE  g[k] = IF k = 0 THEN st ELSE Promised!Touch(g[k - 1], asked[k])
    <3>1. k \in 0 .. n + 1 /\ g[k] = f[k]
      BY <1>2
    <3>2. CASE k = 0
      BY <1>3, <3>1, <3>2 DEF Touched
    <3>3. CASE k # 0
      <4>1. k - 1 \in 0 .. n /\ k \in 1 .. n /\ g[k - 1] = f[k - 1] /\ more[k] = asked[k]
        BY <1>2, <3>3
      <4> HIDE DEF g
      <4>2. f[k] = Promised!Touch(f[k - 1], more[k])
        BY <1>3, <3>1, <3>3 DEF Touched
      <4> QED BY <3>1, <3>3, <4>1, <4>2
    <3> QED BY <3>2, <3>3
  <2>2. g = [k \in 0 .. n |-> g[k]]
    OBVIOUS
  <2> HIDE DEF g
  <2> QED BY <2>1, <2>2 DEF Touched
<1>6. Promised!TouchAll(st, asked) = g[n]
  <2> HIDE DEF g
  <2> QED BY <1>5, TouchAllValue DEF n
<1>7. g[n] = f[n]
  BY <1>2
<1>8. f[n + 1] = Promised!Touch(f[n], more[n + 1])
  <2>1. n + 1 \in 0 .. n + 1 /\ n + 1 # 0 /\ (n + 1) - 1 = n
    BY <1>2
  <2> QED BY <1>3, <2>1 DEF Touched
<1> QED BY <1>2, <1>4, <1>6, <1>7, <1>8 DEF more

Flattened(f, seqs, n) ==
    f = [k \in 0 .. n |-> IF k = 0 THEN <<>> ELSE f[k - 1] \o seqs[k]]

(* The sequences concatenated so far, as a recursive definition.           *)
LEMMA FlattensExist ==
    ASSUME NEW seqs, NEW n \in Nat
    PROVE  \E f : Flattened(f, seqs, n)
<1> DEFINE S == {k \in 0 .. n : \E f : Flattened(f, seqs, k)}
<1>1. 0 \in S
  <2> DEFINE f == [k \in 0 .. 0 |-> <<>>]
  <2>1. Flattened(f, seqs, 0)
    BY DEF Flattened
  <2> QED BY <2>1
<1>2. ASSUME NEW k \in 0 .. n, k \in S, k < n PROVE k + 1 \in S
  <2>1. PICK g : Flattened(g, seqs, k)
    BY <1>2
  <2> DEFINE v == g[k] \o seqs[k + 1]
  <2> HIDE DEF v
  <2> DEFINE f == [j \in 0 .. k + 1 |-> IF j <= k THEN g[j] ELSE v]
  <2>2. ASSUME NEW j \in 0 .. k + 1
        PROVE  f[j] = IF j = 0 THEN <<>> ELSE f[j - 1] \o seqs[j]
    <3>1. CASE j = 0
      BY <2>1, <3>1 DEF Flattened
    <3>2. CASE j # 0 /\ j <= k
      <4>1. j \in 0 .. k /\ j - 1 \in 0 .. k /\ j - 1 <= k /\ j - 1 \in 0 .. k + 1
        BY <3>2
      <4>2. f[j] = g[j] /\ f[j - 1] = g[j - 1]
        BY <3>2, <4>1
      <4> HIDE DEF f
      <4>3. g[j] = g[j - 1] \o seqs[j]
        BY <2>1, <3>2, <4>1 DEF Flattened
      <4> QED BY <3>2, <4>2, <4>3
    <3>3. CASE ~(j <= k)
      <4>1. j = k + 1 /\ j # 0 /\ k \in 0 .. k + 1 /\ j - 1 = k
        BY <1>2, <3>3
      <4>2. f[k] = g[k] /\ f[j] = v
        BY <3>3, <4>1
      <4> HIDE DEF f
      <4> QED BY <4>1, <4>2 DEF v
    <3> QED BY <3>1, <3>2, <3>3
  <2>3. f = [j \in 0 .. k + 1 |-> f[j]]
    OBVIOUS
  <2> HIDE DEF f
  <2>4. Flattened(f, seqs, k + 1)
    BY <2>2, <2>3 DEF Flattened
  <2> QED BY <1>2, <2>4
<1>3. n \in S
  <2> HIDE DEF S
  <2>1. 0 .. n \subseteq S
    BY <1>1, <1>2, BoundedInduct
  <2> QED BY <2>1
<1> QED BY <1>3

(* FlattenSeq is the last of them.                                         *)
LEMMA FlattenValue ==
    ASSUME NEW S, NEW seqs \in Seq(Seq(S)), NEW f, Flattened(f, seqs, Len(seqs))
    PROVE  /\ FlattenSeq(seqs) = f[Len(seqs)]
           /\ f[0] = <<>> /\ \A k \in 1 .. Len(seqs) : f[k] = f[k - 1] \o seqs[k]
           /\ \A k \in 0 .. Len(seqs) : f[k] \in Seq(S)
<1> DEFINE n == Len(seqs)
<1>1. n \in Nat /\ \A k \in 1 .. n : seqs[k] \in Seq(S)
  OBVIOUS
<1>2. f[0] = <<>> /\ \A k \in 1 .. n : f[k] = f[k - 1] \o seqs[k]
  <2>1. f[0] = <<>>
    BY <1>1 DEF Flattened
  <2>2. ASSUME NEW k \in 1 .. n PROVE f[k] = f[k - 1] \o seqs[k]
    <3>1. k \in 0 .. n /\ k # 0
      BY <1>1
    <3> QED BY <3>1 DEF Flattened
  <2> QED BY <2>1, <2>2
<1>3. \A k \in 0 .. n : f[k] \in Seq(S)
  <2> DEFINE T == {k \in 0 .. n : f[k] \in Seq(S)}
  <2>1. 0 \in T
    <3>1. f[0] \in Seq(S)
      BY <1>2, EmptySeq
    <3> QED BY <1>1, <3>1
  <2>2. ASSUME NEW k \in 0 .. n, k \in T, k < n PROVE k + 1 \in T
    <3>1. k + 1 \in 1 .. n /\ (k + 1) - 1 = k /\ k + 1 \in 0 .. n
      BY <1>1, <2>2
    <3>2. f[k + 1] = f[k] \o seqs[k + 1] /\ f[k] \in Seq(S) /\ seqs[k + 1] \in Seq(S)
      BY <1>1, <1>2, <2>2, <3>1
    <3> QED BY <3>1, <3>2, ConcatProperties
  <2> HIDE DEF T
  <2>3. 0 .. n \subseteq T
    BY <1>1, <2>1, <2>2, BoundedInduct
  <2> QED BY <2>3 DEF T
<1>4. FlattenSeq(seqs) = f[n]
  <2>1. CASE n = 0
    <3>1. seqs = <<>>
      BY <2>1
    <3> QED BY <1>2, <2>1, <3>1 DEF FlattenSeq
  <2>2. CASE n # 0
    <3> DEFINE Flat(g) == g = [k \in 1 .. n |-> IF k = 1 THEN seqs[k] ELSE g[k - 1] \o seqs[k]]
               flatten == CHOOSE g : Flat(g)
               h == [k \in 1 .. n |-> f[k]]
    <3>1. Flat(h)
      <4>1. ASSUME NEW k \in 1 .. n
            PROVE  h[k] = IF k = 1 THEN seqs[k] ELSE h[k - 1] \o seqs[k]
        <5>1. h[k] = f[k - 1] \o seqs[k]
          BY <1>2
        <5>2. CASE k = 1
          <6>1. seqs[1] \in Seq(S)
            BY <1>1, <5>2
          <6>2. <<>> \o seqs[1] = seqs[1]
            BY <6>1, ConcatEmptySeq
          <6>3. f[k - 1] = <<>>
            BY <1>2, <5>2
          <6> QED BY <5>1, <5>2, <6>2, <6>3
        <5>3. CASE k # 1
          <6>1. k - 1 \in 1 .. n
            BY <1>1, <5>3
          <6>2. h[k - 1] = f[k - 1]
            BY <6>1
          <6> QED BY <5>1, <5>3, <6>2
        <5> QED BY <5>2, <5>3
      <4>2. h = [k \in 1 .. n |-> h[k]]
        OBVIOUS
      <4> HIDE DEF h
      <4> QED BY <4>1, <4>2
    <3>2. Flat(flatten)
      <4> HIDE DEF Flat, h
      <4> QED BY <3>1
    <3>3. FlattenSeq(seqs) = flatten[n]
      BY <1>1, <2>2 DEF FlattenSeq
    <3> HIDE DEF flatten
    <3> DEFINE T == {k \in 0 .. n : k # 0 => flatten[k] = f[k]}
    <3>4. 0 \in T
      BY <1>1
    <3>5. ASSUME NEW k \in 0 .. n, k \in T, k < n PROVE k + 1 \in T
      <4>1. k + 1 \in 1 .. n /\ (k + 1) - 1 = k /\ k + 1 \in 0 .. n
        <5>1. n \in Nat /\ k \in 0 .. n /\ k < n
          BY <1>1, <3>5
        <5> HIDE DEF n, T
        <5> QED BY <5>1
      <4>2. flatten[k + 1] = IF k + 1 = 1 THEN seqs[k + 1] ELSE flatten[k] \o seqs[k + 1]
        BY <3>2, <4>1
      <4>3. f[k + 1] = f[k] \o seqs[k + 1]
        BY <1>2, <4>1
      <4>4. CASE k = 0
        <5>1. f[0] = <<>> /\ seqs[1] \in Seq(S)
          BY <1>1, <1>2, <4>1, <4>4
        <5>2. <<>> \o seqs[1] = seqs[1]
          BY <5>1, ConcatEmptySeq
        <5> QED BY <4>1, <4>2, <4>3, <4>4, <5>1, <5>2
      <4>5. CASE k # 0
        <5>1. flatten[k] = f[k] /\ k + 1 # 1
          BY <3>5, <4>5
        <5> QED BY <4>1, <4>2, <4>3, <5>1
      <4> QED BY <4>4, <4>5
    <3>6. 0 .. n \subseteq T
      <4> HIDE DEF T
      <4> QED BY <1>1, <3>4, <3>5, BoundedInduct
    <3>7. n \in T
      BY <1>1, <3>6
    <3> QED BY <2>2, <3>3, <3>7
  <2> QED BY <2>1, <2>2
<1> QED BY <1>2, <1>3, <1>4

-----------------------------------------------------------------------------
(* An access, for every address.                                            *)
LEMMA PowerPositive ==
    ASSUME NEW n \in Nat
    PROVE  2^n \in Nat \ {0}
<1>1. IsFiniteSet(1 .. n) /\ Cardinality(1 .. n) = n
  BY FS_Interval
<1>2. IsFiniteSet(SUBSET (1 .. n)) /\ Cardinality(SUBSET (1 .. n)) = 2^n
  BY <1>1, FS_SUBSET
<1>3. Cardinality(SUBSET (1 .. n)) \in Nat
  BY <1>2, FS_CardinalityType
<1>4. Cardinality(SUBSET (1 .. n)) # 0
  BY <1>2, FS_EmptySet
<1> QED BY <1>2, <1>3, <1>4

Indices(bits) == 0 .. 2^bits - 1
Counts == [hits : Nat, misses : Nat, evictions : Nat]
SimOK(m, bits, ways) ==
    /\ m \in [cache : [Indices(bits) -> CacheSets(ways)],
              hits : Nat, misses : Nat, evictions : Nat]
    /\ \A i \in Indices(bits) : Sound(m.cache[i], ways)

StateOf(m) ==
    [memory |-> [i \in DOMAIN m.cache |-> Recent(m.cache[i])],
     counts |-> [hits |-> m.hits, misses |-> m.misses, evictions |-> m.evictions]]

AccessOf(address) == [set |-> SetIndex(address), tag |-> Tag(address)]

Shaped == s \in Nat /\ b \in Nat /\ E \in Nat \ {0}

(* An address, even one that trans.c computes beyond its arrays, is in     *)
(* one of the sets.                                                        *)
LEMMA IndexRange ==
    ASSUME Shaped, NEW address \in Int
    PROVE  SetIndex(address) \in Indices(s) /\ Tag(address) \in Int
<1>1. 2^s \in Nat \ {0} /\ 2^b \in Nat \ {0} /\ 2^(s + b) \in Nat \ {0}
  <2>1. s \in Nat /\ b \in Nat /\ s + b \in Nat
    BY DEF Shaped
  <2> QED BY <2>1, PowerPositive
<1>2. \A x \in Int, p \in Nat \ {0} : x \div p \in Int /\ x % p \in 0 .. p - 1
  OBVIOUS
<1> QED BY <1>1, <1>2 DEF SetIndex, Tag, Indices

(* A new cache is sound and holds nothing.                                 *)
LEMMA FreshOK ==
    ASSUME NEW bits \in Nat, NEW ways \in Nat
    PROVE  /\ SimOK(Fresh(bits, ways), bits, ways)
           /\ \A i \in DOMAIN Fresh(bits, ways).cache : Recent(Fresh(bits, ways).cache[i]) = <<>>
           /\ Fresh(bits, ways).hits = 0 /\ Fresh(bits, ways).misses = 0
           /\ Fresh(bits, ways).evictions = 0
<1> DEFINE c == createCacheSet(ways)
           I == Indices(bits)
<1>1. Sound(c, ways) /\ \A n \in 1 .. ways : ~c.valid[n]
  BY CreatedSound
<1> HIDE DEF c
<1>2. c \in CacheSets(ways)
  BY <1>1 DEF Sound
<1>3. Recent(c) = <<>>
  <2> DEFINE q == After(c, Dummy)
  <2>1. q \in Seq(1 .. ways)
    BY <1>1 DEF Sound, Ring
  <2>2. \A k \in DOMAIN q : ~c.valid[q[k]]
    BY <1>1, <2>1
  <2> HIDE DEF q
  <2>3. Recent(c) = [k \in {j \in DOMAIN q : c.valid[q[j]]} |-> c.tag[q[k]]]
    BY DEF Recent, q
  <2>4. {j \in DOMAIN q : c.valid[q[j]]} = {}
    BY <2>2
  <2> QED BY <2>3, <2>4
<1>4. Fresh(bits, ways) = [cache |-> [i \in I |-> c], hits |-> 0, misses |-> 0, evictions |-> 0]
  BY DEF Fresh, createCache, c, Indices
<1> HIDE DEF I
<1> DEFINE m == [cache |-> [i \in I |-> c], hits |-> 0, misses |-> 0, evictions |-> 0]
<1>5. m \in [cache : [I -> CacheSets(ways)], hits : Nat, misses : Nat, evictions : Nat]
  BY <1>2
<1>6. \A i \in I : Sound(m.cache[i], ways)
  BY <1>1
<1>7. DOMAIN m.cache = I /\ \A i \in I : Recent(m.cache[i]) = <<>>
  BY <1>3
<1> QED BY <1>4, <1>5, <1>6, <1>7 DEF SimOK, I

(* The operators that SetLru takes from the library are those of the proofs.*)
LEMMA SameOperators ==
    ASSUME NEW tags, NEW t
    PROVE  /\ Promised!RemoveFirst(tags, t) = RemoveFirst(tags, t)
           /\ Promised!Contains(tags, t) <=> Contains(tags, t)
<1>1. Promised!Contains(tags, t) <=> Contains(tags, t)
  BY DEF Promised!Contains, Contains
<1> DEFINE I == {i \in 1 .. Len(tags) : tags[i] = t}
<1>2. Promised!SelectInSeq(tags, LAMBDA v : v = t) = SelectInSeq(tags, LAMBDA v : v = t)
  BY DEF Promised!SelectInSeq, SelectInSeq, Promised!Min, Min
<1> QED BY <1>1, <1>2 DEF Promised!RemoveFirst, RemoveFirst, Promised!RemoveAt, RemoveAt

(* What an access changes in the abstract cache.                           *)
LEMMA TouchShape ==
    ASSUME NEW memory, NEW counts, NEW i, NEW t
    PROVE  Promised!Touch([memory |-> memory, counts |-> counts], [set |-> i, tag |-> t])
             = [memory |-> [memory EXCEPT ![i] = LruTags(memory[i], t, E)],
                counts |-> Promised!Count(counts, Promised!Kind(memory[i], t))]
<1> DEFINE a == [set |-> i, tag |-> t]
           st == [memory |-> memory, counts |-> counts]
           v == Promised!Use(memory, a)
           u == Promised!Count(counts, Promised!Kind(memory[i], t))
<1>1. a.set = i /\ a.tag = t /\ st.memory = memory /\ st.counts = counts
  OBVIOUS
<1>2. v = [memory EXCEPT ![i] = LruTags(memory[i], t, E)]
  <2> DEFINE x == Promised!Truncate(<<t>> \o Promised!RemoveFirst(memory[i], t))
  <2> HIDE DEF a
  <2>1. v = [memory EXCEPT ![i] = x]
    BY <1>1 DEF Promised!Use
  <2>2. x = LruTags(memory[i], t, E)
    BY SameOperators DEF Promised!Truncate, LruTags
  <2> HIDE DEF v, x
  <2> QED BY <2>1, <2>2
<1>3. Promised!Touch(st, a) = [st EXCEPT !.memory = v, !.counts = u]
  <2> HIDE DEF a, st
  <2> QED BY <1>1 DEF Promised!Touch
<1>4. [st EXCEPT !.memory = v, !.counts = u] = [memory |-> v, counts |-> u]
  <2> HIDE DEF v, u
  <2> DEFINE y == [st EXCEPT !.memory = v]
  <2>1. y = [memory |-> v, counts |-> counts]
    OBVIOUS
  <2>2. [y EXCEPT !.counts = u] = [memory |-> v, counts |-> u]
    <3> HIDE DEF y
    <3> QED BY <2>1
  <2> QED BY <2>2
<1> HIDE DEF v
<1> QED BY <1>2, <1>3, <1>4

(* What accessSet changes in the simulator.                                *)
LEMMA SimUpdate ==
    ASSUME NEW m, NEW c, NEW h, NEW x, NEW y,
           m = [cache |-> m.cache, hits |-> m.hits, misses |-> m.misses, evictions |-> m.evictions]
    PROVE  [m EXCEPT !.cache = c, !.hits = h, !.misses = x, !.evictions = y]
             = [cache |-> c, hits |-> h, misses |-> x, evictions |-> y]
<1> DEFINE Rec(d, e, f, g) == [cache |-> d, hits |-> e, misses |-> f, evictions |-> g]
           u == [m EXCEPT !.cache = c]
           v == [u EXCEPT !.hits = h]
           w == [v EXCEPT !.misses = x]
<1>1. u = Rec(c, m.hits, m.misses, m.evictions)
  OBVIOUS
<1>2. v = Rec(c, h, m.misses, m.evictions)
  <2> HIDE DEF u
  <2> QED BY <1>1
<1>3. w = Rec(c, h, x, m.evictions)
  <2> HIDE DEF v
  <2> QED BY <1>2
<1>4. [w EXCEPT !.evictions = y] = Rec(c, h, x, y)
  <2> HIDE DEF w
  <2> QED BY <1>3
<1> QED BY <1>4

(* The step of an access, as one of the abstract cache.                     *)
LEMMA AccessStep ==
    ASSUME Shaped, NEW m, SimOK(m, s, E), NEW address \in Int
    PROVE  /\ SimOK(accessCache(m, address), s, E)
           /\ StateOf(accessCache(m, address)) = Promised!Touch(StateOf(m), AccessOf(address))
<1> DEFINE i == SetIndex(address)
           t == Tag(address)
           set == m.cache[i]
           new == Use(set, t, Found(set, t))
           q == After(set, Dummy)
           I == Indices(s)
<1>1. i \in I /\ t \in Int
  BY IndexRange
<1>2. E \in Nat \ {0} /\ E \in Nat
  BY DEF Shaped
<1> HIDE DEF i, t
<1>3. /\ m.cache \in [I -> CacheSets(E)] /\ m.hits \in Nat /\ m.misses \in Nat /\ m.evictions \in Nat
      /\ m = [cache |-> m.cache, hits |-> m.hits, misses |-> m.misses, evictions |-> m.evictions]
      /\ \A j \in I : Sound(m.cache[j], E)
  BY DEF SimOK
<1> HIDE DEF I
<1>4. Sound(set, E)
  BY <1>1, <1>3
<1>5. PICK k \in 1 .. Len(q) : Touches(set, new, E, q, k, t)
  BY <1>1, <1>2, <1>4, UseTouches
<1> HIDE DEF new, set
<1>6. Sound(new, E)
  <2> HIDE DEF q
  <2>1. q = After(set, Dummy)
    BY DEF q
  <2> QED BY <1>1, <1>2, <1>4, <1>5, <2>1, TouchedSound
<1>7. /\ Recent(set) \in Seq(Int) /\ Recent(new) = LruTags(Recent(set), t, E)
      /\ Contains(Recent(set), t) <=> ~isMiss(set, t)
      /\ isEviction(set, t) <=> isMiss(set, t) /\ ~(Len(Recent(set)) < E)
  <2> HIDE DEF q
  <2>1. q = After(set, Dummy)
    BY DEF q
  <2> QED BY <1>1, <1>2, <1>4, <1>5, <2>1, TouchedRecent
<1> DEFINE c == [m.cache EXCEPT ![i] = new]
           h == m.hits + One(~isMiss(set, t))
           x == m.misses + One(isMiss(set, t))
           y == m.evictions + One(isEviction(set, t))
<1>8. accessCache(m, address) = [cache |-> c, hits |-> h, misses |-> x, evictions |-> y]
  <2> HIDE DEF c, h, x, y
  <2>2. accessCache(m, address) = [m EXCEPT !.cache = c, !.hits = h, !.misses = x, !.evictions = y]
    BY DEF accessCache, accessSet, c, h, x, y, new, set, i, t
  <2> QED BY <1>3, <2>2, SimUpdate
<1>9. h \in Nat /\ x \in Nat /\ y \in Nat
  BY <1>3 DEF One
<1>10. new \in CacheSets(E)
  BY <1>6 DEF Sound
<1>11. c \in [I -> CacheSets(E)] /\ \A j \in I : Sound(c[j], E)
  BY <1>1, <1>3, <1>6, <1>10
<1>12. SimOK(accessCache(m, address), s, E)
  <2> HIDE DEF c, h, x, y
  <2> DEFINE new2 == accessCache(m, address)
  <2>1. /\ new2.cache = c
        /\ new2 \in [cache : [I -> CacheSets(E)], hits : Nat, misses : Nat, evictions : Nat]
    BY <1>8, <1>9, <1>11
  <2> HIDE DEF new2
  <2>2. SimOK(new2, s, E)
    BY <1>11, <2>1 DEF SimOK, I
  <2> QED BY <2>2 DEF new2
<1>13. StateOf(accessCache(m, address)) = Promised!Touch(StateOf(m), AccessOf(address))
  <2> DEFINE memory == [j \in I |-> Recent(m.cache[j])]
             counts == [hits |-> m.hits, misses |-> m.misses, evictions |-> m.evictions]
             kinds == Promised!Kind(memory[i], t)
  <2>1. StateOf(m) = [memory |-> memory, counts |-> counts]
    BY <1>3 DEF StateOf
  <2>2. AccessOf(address) = [set |-> i, tag |-> t]
    BY DEF AccessOf, i, t
  <2>3. memory[i] = Recent(set) /\ DOMAIN memory = I
    BY <1>1 DEF set
  <2>4. /\ "hits" \in kinds <=> ~isMiss(set, t)
        /\ "misses" \in kinds <=> isMiss(set, t)
        /\ "evictions" \in kinds <=> isEviction(set, t)
    <3> DEFINE tags == memory[i]
    <3>1. /\ Contains(tags, t) <=> ~isMiss(set, t)
          /\ isEviction(set, t) <=> isMiss(set, t) /\ ~(Len(tags) < E)
      BY <1>7, <2>3
    <3> HIDE DEF memory, tags
    <3>2. kinds = IF Contains(tags, t) THEN {"hits"}
                  ELSE IF Len(tags) < E THEN {"misses"} ELSE {"misses", "evictions"}
      BY SameOperators DEF Promised!Kind, tags
    <3>3. CASE ~isMiss(set, t)
      <4>1. kinds = {"hits"}
        BY <3>1, <3>2, <3>3
      <4> QED BY <3>1, <3>3, <4>1
    <3>4. CASE isMiss(set, t) /\ Len(tags) < E
      <4>1. kinds = {"misses"}
        BY <3>1, <3>2, <3>4
      <4> QED BY <3>1, <3>4, <4>1
    <3>5. CASE isMiss(set, t) /\ ~(Len(tags) < E)
      <4>1. kinds = {"misses", "evictions"}
        BY <3>1, <3>2, <3>5
      <4> QED BY <3>1, <3>5, <4>1
    <3> QED BY <3>3, <3>4, <3>5
  <2> HIDE DEF kinds
  <2>5. Promised!Count(counts, kinds) = [hits |-> h, misses |-> x, evictions |-> y]
    BY <2>4 DEF Promised!Count, One
  <2>6. [memory EXCEPT ![i] = LruTags(memory[i], t, E)] = [j \in I |-> Recent(c[j])]
    <3> HIDE DEF memory
    <3>1. \A j \in I : j # i => c[j] = m.cache[j]
      BY <1>3
    <3>2. c[i] = new
      BY <1>1, <1>3
    <3> HIDE DEF c
    <3> QED BY <1>1, <1>7, <2>3, <3>1, <3>2 DEF memory
  <2>7. StateOf(accessCache(m, address))
          = [memory |-> [j \in I |-> Recent(c[j])], counts |-> [hits |-> h, misses |-> x, evictions |-> y]]
    <3>1. DOMAIN c = I
      BY <1>11
    <3> HIDE DEF c, h, x, y
    <3> QED BY <1>8, <3>1 DEF StateOf
  <2>8. Promised!Touch(StateOf(m), AccessOf(address))
          = [memory |-> [memory EXCEPT ![i] = LruTags(memory[i], t, E)],
             counts |-> Promised!Count(counts, kinds)]
    <3> HIDE DEF memory, counts
    <3> QED BY <2>1, <2>2, TouchShape DEF kinds
  <2> HIDE DEF c, h, x, y, memory, counts
  <2> QED BY <2>5, <2>6, <2>7, <2>8
<1> QED BY <1>12, <1>13

(* A line of a trace, with the accesses it asks for.                        *)
Asked(line) == [n \in 1 .. Times(line.op) |-> AccessOf(line.address)]
AccessSet == [set : Int, tag : Int]

TraceLine(line) == line.address \in Int

(* m is what the accesses asked for so far make of the state st.            *)
Reached(m, st, asked) ==
    /\ SimOK(m, s, E) /\ asked \in Seq(AccessSet)
    /\ StateOf(m) = Promised!TouchAll(st, asked)

(* A line makes the accesses that Times counts.                            *)
LEMMA LineStep ==
    ASSUME Shaped, NEW m, NEW line, TraceLine(line), NEW st, NEW asked, Reached(m, st, asked)
    PROVE  /\ Asked(line) \in Seq(AccessSet)
           /\ Reached(parseLine(m, line), st, asked \o Asked(line))
<1> USE DEF Reached, TraceLine
<1> DEFINE x == AccessOf(line.address)
           one == accessCache(m, line.address)
           two == accessCache(one, line.address)
<1>1. x \in AccessSet
  <2>1. SetIndex(line.address) \in Int /\ Tag(line.address) \in Int
    <3>1. SetIndex(line.address) \in Indices(s) /\ Tag(line.address) \in Int
      BY IndexRange
    <3>2. 2^s \in Nat
      BY PowerPositive DEF Shaped
    <3> QED BY <3>1, <3>2 DEF Indices
  <2> QED BY <2>1 DEF AccessOf, AccessSet
<1>2. SimOK(one, s, E) /\ StateOf(one) = Promised!Touch(StateOf(m), x)
  BY AccessStep
<1>3. SimOK(two, s, E) /\ StateOf(two) = Promised!Touch(StateOf(one), x)
  <2> HIDE DEF one
  <2> QED BY <1>2, AccessStep
<1> HIDE DEF x, one, two
<1>4. StateOf(one) = Promised!TouchAll(st, Append(asked, x))
  BY <1>1, <1>2, TouchAllStep
<1>5. StateOf(two) = Promised!TouchAll(st, Append(Append(asked, x), x))
  <2> DEFINE z == Append(asked, x)
  <2>1. z \in Seq(AccessSet)
    BY <1>1
  <2> HIDE DEF z
  <2>2. Promised!TouchAll(st, Append(z, x)) = Promised!Touch(Promised!TouchAll(st, z), x)
    BY <1>1, <2>1, TouchAllStep
  <2> QED BY <1>3, <1>4, <2>2 DEF z
<1>6. CASE line.op = "I"
  <2>1. Asked(line) = <<>>
    <3>1. Times(line.op) = 0
      BY <1>6 DEF Times
    <3> QED BY <3>1 DEF Asked
  <2>2. asked \o <<>> = asked /\ <<>> \in Seq(AccessSet)
    BY ConcatEmptySeq, EmptySeq
  <2>3. parseLine(m, line) = m
    BY <1>6 DEF parseLine
  <2> QED BY <2>1, <2>2, <2>3
<1>7. CASE line.op = "M"
  <2>1. Asked(line) = <<x, x>>
    <3>1. Times(line.op) = 2
      BY <1>7 DEF Times
    <3> QED BY <3>1 DEF Asked, x
  <2>2. asked \o <<x, x>> = Append(Append(asked, x), x) /\ <<x, x>> \in Seq(AccessSet)
        /\ Append(Append(asked, x), x) \in Seq(AccessSet)
    BY <1>1
  <2>3. parseLine(m, line) = two
    BY <1>7 DEF parseLine, two, one
  <2> QED BY <1>3, <1>5, <2>1, <2>2, <2>3
<1>8. CASE line.op # "I" /\ line.op # "M"
  <2>1. Asked(line) = <<x>>
    <3>1. Times(line.op) = 1
      BY <1>8 DEF Times
    <3> QED BY <3>1 DEF Asked, x
  <2>2. asked \o <<x>> = Append(asked, x) /\ <<x>> \in Seq(AccessSet)
        /\ Append(asked, x) \in Seq(AccessSet)
    BY <1>1
  <2>3. parseLine(m, line) = one
    BY <1>8 DEF parseLine, one
  <2> QED BY <1>2, <1>4, <2>1, <2>2, <2>3
<1> QED BY <1>6, <1>7, <1>8

(* parseLines is the last of the simulators that follow one another.       *)
LEMMA ParseValue ==
    ASSUME NEW m, NEW S, NEW batch \in Seq(S), NEW f, Parsed(f, m, batch, Len(batch))
    PROVE  parseLines(m, batch) = f[Len(batch)]
<1> DEFINE g == CHOOSE g : Parsed(g, m, batch, Len(batch))
<1>1. Parsed(g, m, batch, Len(batch))
  OBVIOUS
<1>2. parseLines(m, batch) = g[Len(batch)]
  BY DEF parseLines, Parsed
<1> HIDE DEF g
<1>3. Len(batch) \in Nat
  OBVIOUS
<1> DEFINE Same == {k \in 0 .. Len(batch) : f[k] = g[k]}
<1>4. 0 \in Same
  BY <1>1, <1>3 DEF Parsed
<1>5. ASSUME NEW k \in 0 .. Len(batch), k \in Same, k < Len(batch) PROVE k + 1 \in Same
  <2>1. k + 1 \in 0 .. Len(batch) /\ k + 1 # 0 /\ (k + 1) - 1 = k
    BY <1>3, <1>5
  <2>2. f[k + 1] = parseLine(f[k], batch[k + 1]) /\ g[k + 1] = parseLine(g[k], batch[k + 1])
    BY <1>1, <2>1 DEF Parsed
  <2> QED BY <1>5, <2>1, <2>2
<1>6. 0 .. Len(batch) \subseteq Same
  <2> HIDE DEF Same
  <2> QED BY <1>3, <1>4, <1>5, BoundedInduct
<1> QED BY <1>2, <1>3, <1>6

(* A batch of lines, as the abstract cache takes the accesses it asks for.  *)
Asks(batch) == FlattenSeq([k \in DOMAIN batch |-> Asked(batch[k])])

LEMMA BatchStep ==
    ASSUME Shaped, NEW m, SimOK(m, s, E), NEW S, NEW batch \in Seq(S), \A line \in S : TraceLine(line)
    PROVE  /\ SimOK(parseLines(m, batch), s, E)
           /\ StateOf(parseLines(m, batch)) = Promised!TouchAll(StateOf(m), Asks(batch))
<1> DEFINE n == Len(batch)
           seqs == [k \in 1 .. n |-> Asked(batch[k])]
           st == StateOf(m)
<1>1. n \in Nat /\ DOMAIN batch = 1 .. n /\ \A k \in 1 .. n : TraceLine(batch[k])
  OBVIOUS
<1>2. PICK f : Parsed(f, m, batch, n)
  BY <1>1, LinesExist
<1>3. PICK g : Flattened(g, seqs, n)
  BY <1>1, FlattensExist
<1>4. parseLines(m, batch) = f[n]
  BY <1>2, ParseValue
<1>5. f[0] = m /\ \A k \in 1 .. n : f[k] = parseLine(f[k - 1], batch[k])
  <2>1. \A k \in 1 .. n : k \in 0 .. n /\ k # 0
    OBVIOUS
  <2> HIDE DEF n
  <2> QED BY <1>1, <1>2, <2>1 DEF Parsed
<1>6. g[0] = <<>> /\ \A k \in 1 .. n : g[k] = g[k - 1] \o Asked(batch[k])
  <2>1. g[0] = <<>>
    BY <1>1, <1>3 DEF Flattened
  <2>2. ASSUME NEW k \in 1 .. n PROVE g[k] = g[k - 1] \o Asked(batch[k])
    <3>1. k \in 0 .. n /\ k # 0 /\ seqs[k] = Asked(batch[k])
      BY <1>1
    <3> HIDE DEF n, seqs
    <3>2. g[k] = g[k - 1] \o seqs[k]
      BY <1>3, <3>1 DEF Flattened
    <3> QED BY <3>1, <3>2
  <2> QED BY <2>1, <2>2
<1> HIDE DEF n, st
<1> DEFINE Good(k) == /\ Reached(f[k], st, g[k])
                      /\ k # 0 => Asked(batch[k]) \in Seq(AccessSet)
           T == {k \in 0 .. n : Good(k)}
<1>7. 0 \in T
  <2>1. Promised!TouchAll(st, <<>>) = st /\ <<>> \in Seq(AccessSet)
    BY EmptySeq, TouchNone
  <2>2. Good(0)
    BY <1>5, <1>6, <2>1 DEF st, Reached
  <2> HIDE DEF Good
  <2> QED BY <1>1, <2>2
<1>8. ASSUME NEW k \in 0 .. n, k \in T, k < n PROVE k + 1 \in T
  <2>1. k + 1 \in 1 .. n /\ (k + 1) - 1 = k /\ k + 1 \in 0 .. n
    <3>1. n \in Nat /\ k \in 0 .. n /\ k < n
      BY <1>1, <1>8
    <3> HIDE DEF T
    <3> QED BY <3>1
  <2>2. f[k + 1] = parseLine(f[k], batch[k + 1]) /\ g[k + 1] = g[k] \o Asked(batch[k + 1])
    BY <1>5, <1>6, <2>1
  <2>3. TraceLine(batch[k + 1])
    BY <1>1, <2>1
  <2>4. Reached(f[k], st, g[k])
    BY <1>8
  <2>5. /\ Asked(batch[k + 1]) \in Seq(AccessSet)
        /\ Reached(parseLine(f[k], batch[k + 1]), st, g[k] \o Asked(batch[k + 1]))
    BY <2>3, <2>4, LineStep
  <2>6. Good(k + 1)
    BY <2>2, <2>5
  <2> HIDE DEF Good
  <2> QED BY <2>1, <2>6
<1>9. \A k \in 0 .. n : Good(k)
  <2>1. 0 .. n \subseteq T
    <3> HIDE DEF T
    <3> QED BY <1>1, <1>7, <1>8, BoundedInduct
  <2> HIDE DEF Good
  <2> QED BY <2>1
<1>10. Asks(batch) = g[n]
  <2>1. seqs \in Seq(Seq(AccessSet)) /\ Len(seqs) = n
    <3>1. \A k \in 1 .. n : seqs[k] \in Seq(AccessSet)
      <4>1. ASSUME NEW k \in 1 .. n PROVE Asked(batch[k]) \in Seq(AccessSet)
        <5>1. k \in 0 .. n /\ k # 0
          BY <1>1
        <5> QED BY <1>9, <5>1
      <4> QED BY <4>1
    <3> QED BY <1>1, <3>1
  <2> HIDE DEF seqs
  <2>2. FlattenSeq(seqs) = g[n]
    BY <1>3, <2>1, FlattenValue
  <2>3. Asks(batch) = FlattenSeq(seqs)
    BY <1>1 DEF Asks, seqs
  <2> QED BY <2>2, <2>3
<1>11. n \in 0 .. n
  BY <1>1
<1>12. Good(n)
  <2> HIDE DEF Good
  <2> QED BY <1>9, <1>11
<1> QED BY <1>4, <1>10, <1>12 DEF st, Reached

-----------------------------------------------------------------------------
(* What the transpose functions do, for every size of the matrices.         *)
Cells == [array : {"A", "B"}, index : Int]
Stores == [cell : Cells, reg : Nat]
Bursts == [loads : Seq(Cells), stores : Seq(Stores)]
LineSet == [op : {"L", "S"}, address : Int]

(* A sequence given by its elements, which is empty if its bound is        *)
(* negative.                                                               *)
LEMMA BuiltSeq ==
    ASSUME NEW k \in Int, NEW S, NEW F, \A j \in 1 .. k : F[j] \in S
    PROVE  [j \in 1 .. k |-> F[j]] \in Seq(S)
<1>1. CASE k >= 0
  BY <1>1
<1>2. CASE k < 0
  <2>1. 1 .. k = {}
    BY <1>2
  <2>2. [j \in 1 .. k |-> F[j]] = <<>>
    BY <2>1
  <2> QED BY <2>2, EmptySeq
<1> QED BY <1>1, <1>2

(* A row of copies, for all columns.                                       *)
LEMMA CopyRowType ==
    ASSUME NEW m \in Int, NEW n \in Int, NEW i \in Int, NEW first \in Int, NEW last \in Int
    PROVE  CopyRow(m, n, i, first, last) \in Seq(Bursts)
<1> DEFINE F == [k \in 1 .. last - first + 1 |-> Copy(m, n, i, first + k - 1)]
<1>1. last - first + 1 \in Int
  OBVIOUS
<1>2. ASSUME NEW k \in 1 .. last - first + 1 PROVE F[k] \in Bursts
  <2> DEFINE j == first + k - 1
  <2>1. j \in Int
    OBVIOUS
  <2> HIDE DEF j
  <2>2. i * m + j \in Int /\ j * n + i \in Int
    BY <2>1
  <2>3. InA(m, i, j) \in Cells /\ InB(n, j, i) \in Cells
    BY <2>2 DEF InA, InB, Cell, Cells
  <2> DEFINE c == InA(m, i, j)
             d == InB(n, j, i)
  <2> HIDE DEF c, d
  <2>4. Put(d, 1) \in Stores /\ c \in Cells
    BY <2>3 DEF Put, Stores, c, d
  <2>5. <<c>> \in Seq(Cells) /\ <<Put(d, 1)>> \in Seq(Stores)
    BY <2>4
  <2>6. Burst(<<c>>, <<Put(d, 1)>>) \in Bursts
    BY <2>5 DEF Burst, Bursts
  <2>7. F[k] = Burst(<<c>>, <<Put(d, 1)>>)
    BY DEF Copy, c, d, j
  <2> QED BY <2>6, <2>7
<1> HIDE DEF F
<1>3. [k \in 1 .. last - first + 1 |-> F[k]] \in Seq(Bursts)
  BY <1>1, <1>2, BuiltSeq
<1>4. CopyRow(m, n, i, first, last) = [k \in 1 .. last - first + 1 |-> F[k]]
  BY DEF CopyRow, F
<1> QED BY <1>3, <1>4

(* A loop over at least one row or column has at least one round.          *)
LEMMA UpType ==
    ASSUME NEW m \in Nat \ {0}, NEW k \in Nat \ {0}
    PROVE  Up(m, k) \in Nat \ {0}
<1>1. Up(m, k) \in Int
  BY DEF Up
<1>2. m + k - 1 >= k
  OBVIOUS
<1>3. \A x \in Nat : x >= k => x \div k >= 1
  OBVIOUS
<1> QED BY <1>1, <1>2, <1>3 DEF Up

LEMMA CellType ==
    ASSUME NEW m \in Int, NEW i \in Int, NEW j \in Int
    PROVE  InA(m, i, j) \in Cells /\ InB(m, i, j) \in Cells
<1>1. i * m + j \in Int
  OBVIOUS
<1> QED BY <1>1 DEF InA, InB, Cell, Cells

LEMMA PutType ==
    ASSUME NEW c \in Cells, NEW r \in Nat
    PROVE  Put(c, r) \in Stores
BY DEF Put, Stores

LEMMA BurstType ==
    ASSUME NEW x \in Seq(Cells), NEW y \in Seq(Stores)
    PROVE  Burst(x, y) \in Bursts
BY DEF Burst, Bursts

LEMMA UpperHalfType ==
    ASSUME NEW m \in Int, NEW n \in Int, NEW j \in Int, NEW k \in Int
    PROVE  UpperHalf(m, n, j, k) \in Bursts
<1> DEFINE F == [x \in 1 .. 8 |-> InA(m, k, j + x - 1)]
           G == [x \in 1 .. 8 |-> Put(InB(n, j + ((x - 1) % 4), IF x <= 4 THEN k ELSE k + 4), x)]
<1>1. ASSUME NEW x \in 1 .. 8 PROVE F[x] \in Cells
  <2>1. j + x - 1 \in Int
    OBVIOUS
  <2> QED BY <2>1, CellType
<1>2. ASSUME NEW x \in 1 .. 8 PROVE G[x] \in Stores
  <2> DEFINE y == j + ((x - 1) % 4)
             z == IF x <= 4 THEN k ELSE k + 4
  <2>1. y \in Int /\ z \in Int /\ x \in Nat
    OBVIOUS
  <2>2. G[x] = Put(InB(n, y, z), x)
    OBVIOUS
  <2> HIDE DEF y, z, G
  <2> QED BY <2>1, <2>2, CellType, PutType
<1>3. F \in Seq(Cells) /\ G \in Seq(Stores)
  BY <1>1, <1>2
<1>4. UpperHalf(m, n, j, k) = Burst(F, G)
  BY DEF UpperHalf
<1> HIDE DEF F, G
<1> QED BY <1>3, <1>4, BurstType

LEMMA ExchangeType ==
    ASSUME NEW m \in Int, NEW n \in Int, NEW i \in Int, NEW k \in Int
    PROVE  Exchange(m, n, i, k) \in Bursts
<1> DEFINE F == [x \in 1 .. 8 |-> IF x <= 4 THEN InB(n, k, i + 3 + x) ELSE InA(m, i + x - 1, k)]
           G == [x \in 1 .. 8 |-> IF x <= 4 THEN Put(InB(n, k, i + 3 + x), x + 4)
                                  ELSE Put(InB(n, k + 4, i + x - 5), x - 4)]
<1>1. ASSUME NEW x \in 1 .. 8 PROVE F[x] \in Cells
  <2>1. i + 3 + x \in Int /\ i + x - 1 \in Int
    OBVIOUS
  <2> QED BY <2>1, CellType
<1>2. ASSUME NEW x \in 1 .. 8 PROVE G[x] \in Stores
  <2>1. i + 3 + x \in Int /\ k + 4 \in Int /\ i + x - 5 \in Int /\ x + 4 \in Nat
    OBVIOUS
  <2>2. x > 4 => x - 4 \in Nat
    OBVIOUS
  <2>3. InB(n, k, i + 3 + x) \in Cells /\ InB(n, k + 4, i + x - 5) \in Cells
    BY <2>1, CellType
  <2> QED BY <2>1, <2>2, <2>3, PutType
<1>3. F \in Seq(Cells) /\ G \in Seq(Stores)
  BY <1>1, <1>2
<1>4. Exchange(m, n, i, k) = Burst(F, G)
  BY DEF Exchange
<1> HIDE DEF F, G
<1> QED BY <1>3, <1>4, BurstType

LEMMA LowerRightType ==
    ASSUME NEW m \in Int, NEW n \in Int, NEW j \in Int, NEW k \in Int
    PROVE  LowerRight(m, n, j, k) \in Bursts
<1> DEFINE F == [x \in 1 .. 4 |-> InA(m, k, j + 3 + x)]
           G == [x \in 1 .. 4 |-> Put(InB(n, j + 3 + x, k), x)]
<1>1. ASSUME NEW x \in 1 .. 4 PROVE F[x] \in Cells /\ G[x] \in Stores
  <2>1. j + 3 + x \in Int /\ x \in Nat
    OBVIOUS
  <2>2. InA(m, k, j + 3 + x) \in Cells /\ InB(n, j + 3 + x, k) \in Cells
    BY <2>1, CellType
  <2> QED BY <2>1, <2>2, PutType
<1>2. F \in Seq(Cells) /\ G \in Seq(Stores)
  BY <1>1
<1>3. LowerRight(m, n, j, k) = Burst(F, G)
  BY DEF LowerRight
<1> HIDE DEF F, G
<1> QED BY <1>2, <1>3, BurstType

TransFunctions == {"trans", "trans_32x32", "trans_64x64", "trans_61x67"}

(* Each function's next iteration is a sequence of bursts of loads and     *)
(* stores.                                                                 *)
LEMMA IterationType ==
    ASSUME NEW m \in Nat \ {0}, NEW n \in Nat \ {0}, NEW k \in Nat, NEW f \in TransFunctions
    PROVE  Iteration(f, m, n, k) \in Seq(Bursts)
<1>0. m \in Int /\ n \in Int /\ \A x \in Int, p \in Nat \ {0} : x \div p \in Int /\ x % p \in Int
  OBVIOUS
<1>1. CASE f = "trans"
  <2> DEFINE parts == Up(m, Chunk)
             first == Chunk * (k % parts)
             i == k \div parts
             last == Least(first + Chunk, m) - 1
  <2>1. parts \in Nat \ {0} /\ Chunk \in Nat
    BY ChunkAssumption, UpType
  <2> HIDE DEF parts
  <2>2. i \in Int /\ k % parts \in Int
    BY <1>0, <2>1
  <2>3. first \in Int
    BY <2>1, <2>2
  <2> HIDE DEF first, i
  <2>4. last \in Int
    BY <1>0, <2>1, <2>3 DEF Least
  <2>5. Iteration(f, m, n, k) = CopyRow(m, n, i, first, last)
    BY <1>1 DEF Iteration, trans, parts, first, i
  <2> HIDE DEF last
  <2> QED BY <1>0, <2>2, <2>3, <2>4, <2>5, CopyRowType
<1>2. CASE f = "trans_32x32"
  <2> DEFINE blocks == Up(m, 8)
             row == 8 * (k \div (8 * blocks))
             col == 8 * ((k \div 8) % blocks)
             i == row + (k % 8)
  <2>1. blocks \in Nat \ {0} /\ 8 * blocks \in Nat \ {0}
    <3>1. blocks \in Nat \ {0}
      BY UpType
    <3> HIDE DEF blocks
    <3> QED BY <3>1
  <2> HIDE DEF blocks
  <2>2. k \div (8 * blocks) \in Int /\ k \div 8 \in Int /\ k % 8 \in Int
    BY <1>0, <2>1
  <2>3. (k \div 8) % blocks \in Int
    BY <1>0, <2>1, <2>2
  <2>4. row \in Int /\ col \in Int /\ i \in Int
    BY <2>2, <2>3
  <2> HIDE DEF row, col
  <2>5. trans_32x32(m, n, k) = IF row # col THEN CopyRow(m, n, i, col, col + 7)
                               ELSE DiagonalLast(m, n, i, col)
    BY DEF trans_32x32, blocks, row, col
  <2> HIDE DEF i
  <2>6. col + 7 \in Int /\ i - 1 \in Int /\ i + 1 \in Int
    BY <2>4
  <2>7. CopyRow(m, n, i, col, col + 7) \in Seq(Bursts)
    BY <1>0, <2>4, <2>6, CopyRowType
  <2>8. DiagonalLast(m, n, i, col) \in Seq(Bursts)
    <3> DEFINE x == CopyRow(m, n, i, col, i - 1)
               y == CopyRow(m, n, i, i + 1, col + 7)
               z == <<Copy(m, n, i, i)>>
    <3>1. x \in Seq(Bursts) /\ y \in Seq(Bursts)
      BY <1>0, <2>4, <2>6, CopyRowType
    <3>2. z \in Seq(Bursts)
      <4>1. InA(m, i, i) \in Cells /\ InB(n, i, i) \in Cells
        BY <1>0, <2>4, CellType
      <4>2. Put(InB(n, i, i), 1) \in Stores
        BY <4>1, PutType
      <4>3. <<InA(m, i, i)>> \in Seq(Cells) /\ <<Put(InB(n, i, i), 1)>> \in Seq(Stores)
        BY <4>1, <4>2
      <4>4. Copy(m, n, i, i) \in Bursts
        BY <4>3, BurstType DEF Copy
      <4> QED BY <4>4
    <3> HIDE DEF x, y, z
    <3>3. (x \o y) \o z \in Seq(Bursts)
      BY <3>1, <3>2
    <3> QED BY <3>3 DEF DiagonalLast, x, y, z
  <2>9. Iteration(f, m, n, k) = trans_32x32(m, n, k)
    BY <1>2 DEF Iteration
  <2> QED BY <2>5, <2>7, <2>8, <2>9
<1>3. CASE f = "trans_64x64"
  <2> DEFINE i == 8 * (k \div 96)
             j == 8 * ((k \div 12) % 8)
             r == k % 12
  <2>1. i \in Int /\ j \in Int /\ r \in Int /\ i + r \in Int /\ j + r - 4 \in Int /\ i + r - 4 \in Int
    OBVIOUS
  <2>2. Iteration(f, m, n, k) = trans_64x64(m, n, k)
    BY <1>3 DEF Iteration
  <2>3. trans_64x64(m, n, k) = CASE r < 4 -> <<UpperHalf(m, n, j, i + r)>>
                                 [] r \in 4 .. 7 -> <<Exchange(m, n, i, j + r - 4)>>
                                 [] OTHER -> <<LowerRight(m, n, j, i + r - 4)>>
    BY DEF trans_64x64
  <2> HIDE DEF i, j, r
  <2> DEFINE x == UpperHalf(m, n, j, i + r)
             y == Exchange(m, n, i, j + r - 4)
             z == LowerRight(m, n, j, i + r - 4)
  <2>4. x \in Bursts /\ y \in Bursts /\ z \in Bursts
    BY <1>0, <2>1, UpperHalfType, ExchangeType, LowerRightType
  <2> HIDE DEF x, y, z
  <2>5. <<x>> \in Seq(Bursts) /\ <<y>> \in Seq(Bursts) /\ <<z>> \in Seq(Bursts)
    BY <2>4
  <2>6. Iteration(f, m, n, k) \in {<<x>>, <<y>>, <<z>>}
    BY <2>1, <2>2, <2>3 DEF x, y, z
  <2> QED BY <2>5, <2>6
<1>4. CASE f = "trans_61x67"
  <2> DEFINE blocks == Up(m, 16)
             i == 16 * (k \div (16 * blocks)) + (k % 16)
             col == 16 * ((k \div 16) % blocks)
             last == Columns(m, col) - 1
  <2>1. blocks \in Nat \ {0} /\ 16 * blocks \in Nat \ {0}
    <3>1. blocks \in Nat \ {0}
      BY UpType
    <3> HIDE DEF blocks
    <3> QED BY <3>1
  <2> HIDE DEF blocks
  <2>2. k \div (16 * blocks) \in Int /\ k \div 16 \in Int /\ k % 16 \in Int
    BY <1>0, <2>1
  <2>3. (k \div 16) % blocks \in Int
    BY <1>0, <2>1, <2>2
  <2>4. i \in Int /\ col \in Int
    BY <2>2, <2>3
  <2>5. trans_61x67(m, n, k) = IF i < n THEN CopyRow(m, n, i, col, last) ELSE <<>>
    BY DEF trans_61x67, blocks
  <2> HIDE DEF i, col
  <2>6. last \in Int
    BY <1>0, <2>4 DEF Columns, Least
  <2> HIDE DEF last
  <2>7. CopyRow(m, n, i, col, last) \in Seq(Bursts) /\ <<>> \in Seq(Bursts)
    BY <1>0, <2>4, <2>6, CopyRowType, EmptySeq
  <2>8. Iteration(f, m, n, k) = trans_61x67(m, n, k)
    BY <1>4 DEF Iteration
  <2> QED BY <2>5, <2>7, <2>8
<1> QED BY <1>1, <1>2, <1>3, <1>4 DEF TransFunctions

-----------------------------------------------------------------------------
(* What is traced of it, and what becomes of B.                             *)
LEMMA AccessType ==
    ASSUME NEW c \in Cells, NEW op \in {"L", "S"}
    PROVE  Access(op, c) \in LineSet
<1> DEFINE x == Address(c.array)
<1>1. x \in Int
  BY DEF Cells, Address
<1> HIDE DEF x
<1>2. c.index \in Int
  BY DEF Cells
<1>3. x + 4 * c.index \in Int
  BY <1>1, <1>2
<1> QED BY <1>3 DEF Access, Line, LineSet, x

LEMMA TracedType ==
    ASSUME NEW burst \in Bursts
    PROVE  Traced(burst) \in Seq(LineSet)
<1> DEFINE x == [k \in DOMAIN burst.loads |-> Access("L", burst.loads[k])]
           y == [k \in DOMAIN burst.stores |-> Access("S", burst.stores[k].cell)]
<1>1. burst.loads \in Seq(Cells) /\ burst.stores \in Seq(Stores)
  BY DEF Bursts
<1>2. \A k \in DOMAIN burst.loads : Access("L", burst.loads[k]) \in LineSet
  BY <1>1, AccessType
<1>3. \A k \in DOMAIN burst.stores : Access("S", burst.stores[k].cell) \in LineSet
  <2>1. ASSUME NEW k \in DOMAIN burst.stores PROVE burst.stores[k].cell \in Cells
    <3>1. burst.stores[k] \in Stores
      BY <1>1
    <3> QED BY <3>1 DEF Stores
  <2> QED BY <2>1, AccessType
<1>4. x \in Seq(LineSet)
  BY <1>1, <1>2
<1>5. y \in Seq(LineSet)
  BY <1>1, <1>3
<1> HIDE DEF x, y
<1>6. x \o y \in Seq(LineSet)
  BY <1>4, <1>5
<1> QED BY <1>6 DEF Traced, x, y

TracedAll(bursts) == FlattenSeq([k \in DOMAIN bursts |-> Traced(bursts[k])])

(* What is traced of an iteration are lines with addresses.                *)
LEMMA TracedAllType ==
    ASSUME NEW bursts \in Seq(Bursts)
    PROVE  TracedAll(bursts) \in Seq(LineSet)
<1> DEFINE seqs == [k \in DOMAIN bursts |-> Traced(bursts[k])]
<1>1. \A k \in DOMAIN bursts : Traced(bursts[k]) \in Seq(LineSet)
  BY TracedType
<1>2. seqs \in Seq(Seq(LineSet))
  BY <1>1
<1> HIDE DEF seqs
<1>3. PICK g : Flattened(g, seqs, Len(seqs))
  <2>1. Len(seqs) \in Nat
    BY <1>2
  <2> QED BY <2>1, FlattensExist
<1>4. FlattenSeq(seqs) = g[Len(seqs)] /\ \A k \in 0 .. Len(seqs) : g[k] \in Seq(LineSet)
  BY <1>2, <1>3, FlattenValue
<1>5. Len(seqs) \in 0 .. Len(seqs)
  BY <1>2
<1> QED BY <1>4, <1>5 DEF TracedAll, seqs

Stored(array, old, burst, k) ==
    [old EXCEPT ![burst.stores[k].cell.index] = Value(array, burst.loads[burst.stores[k].reg])]

Executed(f, array, burst, n) ==
    f = [k \in 0 .. n |-> IF k = 0 THEN array ELSE Stored(array, f[k - 1], burst, k)]

(* The recursive definition in Execute has a value.                        *)
LEMMA StoresExist ==
    ASSUME NEW array, NEW burst, NEW n \in Nat
    PROVE  \E f : Executed(f, array, burst, n)
<1> DEFINE S == {k \in 0 .. n : \E f : Executed(f, array, burst, k)}
<1>1. 0 \in S
  <2> DEFINE f == [k \in 0 .. 0 |-> array]
  <2>1. Executed(f, array, burst, 0)
    BY DEF Executed
  <2> QED BY <2>1
<1>2. ASSUME NEW k \in 0 .. n, k \in S, k < n PROVE k + 1 \in S
  <2>1. PICK g : Executed(g, array, burst, k)
    BY <1>2
  <2> DEFINE f == [j \in 0 .. k + 1 |-> IF j <= k THEN g[j] ELSE Stored(array, g[k], burst, k + 1)]
  <2>2. ASSUME NEW j \in 0 .. k + 1
        PROVE  f[j] = IF j = 0 THEN array ELSE Stored(array, f[j - 1], burst, j)
    <3>1. CASE j = 0
      BY <2>1, <3>1 DEF Executed
    <3>2. CASE j # 0 /\ j <= k
      <4>1. j \in 0 .. k /\ j - 1 \in 0 .. k /\ j - 1 <= k /\ j - 1 \in 0 .. k + 1
        BY <3>2
      <4>2. f[j] = g[j] /\ f[j - 1] = g[j - 1]
        BY <3>2, <4>1
      <4> HIDE DEF f
      <4>3. g[j] = Stored(array, g[j - 1], burst, j)
        BY <2>1, <3>2, <4>1 DEF Executed
      <4> QED BY <3>2, <4>2, <4>3
    <3>3. CASE ~(j <= k)
      <4>1. j = k + 1 /\ j # 0 /\ k \in 0 .. k + 1 /\ j - 1 = k
        BY <1>2, <3>3
      <4>2. f[k] = g[k] /\ f[j] = Stored(array, g[k], burst, k + 1)
        BY <3>3, <4>1
      <4> HIDE DEF f
      <4> QED BY <4>1, <4>2
    <3> QED BY <3>1, <3>2, <3>3
  <2>3. f = [j \in 0 .. k + 1 |-> f[j]]
    OBVIOUS
  <2> HIDE DEF f
  <2>4. Executed(f, array, burst, k + 1)
    BY <2>2, <2>3 DEF Executed
  <2> QED BY <1>2, <2>4
<1>3. n \in S
  <2> HIDE DEF S
  <2>1. 0 .. n \subseteq S
    BY <1>1, <1>2, BoundedInduct
  <2> QED BY <2>1
<1> QED BY <1>3

(* A store changes no more than an element of B.                           *)
LEMMA ExecuteDomain ==
    ASSUME NEW array, NEW burst \in Bursts
    PROVE  DOMAIN Execute(array, burst) = DOMAIN array
<1> DEFINE n == Len(burst.stores)
           f == CHOOSE f : Executed(f, array, burst, n)
<1>1. n \in Nat
  BY DEF Bursts
<1>2. Execute(array, burst) = f[n]
  BY DEF Execute, Executed, Stored
<1>3. Executed(f, array, burst, n)
  <2> HIDE DEF n
  <2> QED BY <1>1, StoresExist
<1> HIDE DEF f, n
<1> DEFINE T == {k \in 0 .. n : DOMAIN f[k] = DOMAIN array}
<1>4. 0 \in T
  BY <1>1, <1>3 DEF Executed
<1>5. ASSUME NEW k \in 0 .. n, k \in T, k < n PROVE k + 1 \in T
  <2>1. k + 1 \in 0 .. n /\ k + 1 # 0 /\ (k + 1) - 1 = k
    BY <1>1, <1>5
  <2>2. f[k + 1] = Stored(array, f[k], burst, k + 1)
    BY <1>3, <2>1 DEF Executed
  <2>3. DOMAIN Stored(array, f[k], burst, k + 1) = DOMAIN f[k]
    BY DEF Stored
  <2> QED BY <1>5, <2>1, <2>2, <2>3
<1>6. 0 .. n \subseteq T
  <2> HIDE DEF T
  <2> QED BY <1>1, <1>4, <1>5, BoundedInduct
<1> QED BY <1>1, <1>2, <1>6

ExecutedAll(f, array, bursts, n) ==
    f = [k \in 0 .. n |-> IF k = 0 THEN array ELSE Execute(f[k - 1], bursts[k])]

(* The recursive definition in ExecuteAll has a value.                     *)
LEMMA BurstsExist ==
    ASSUME NEW array, NEW bursts, NEW n \in Nat
    PROVE  \E f : ExecutedAll(f, array, bursts, n)
<1> DEFINE S == {k \in 0 .. n : \E f : ExecutedAll(f, array, bursts, k)}
<1>1. 0 \in S
  <2> DEFINE f == [k \in 0 .. 0 |-> array]
  <2>1. ExecutedAll(f, array, bursts, 0)
    BY DEF ExecutedAll
  <2> QED BY <2>1
<1>2. ASSUME NEW k \in 0 .. n, k \in S, k < n PROVE k + 1 \in S
  <2>1. PICK g : ExecutedAll(g, array, bursts, k)
    BY <1>2
  <2> DEFINE f == [j \in 0 .. k + 1 |-> IF j <= k THEN g[j] ELSE Execute(g[k], bursts[k + 1])]
  <2>2. ASSUME NEW j \in 0 .. k + 1
        PROVE  f[j] = IF j = 0 THEN array ELSE Execute(f[j - 1], bursts[j])
    <3>1. CASE j = 0
      BY <2>1, <3>1 DEF ExecutedAll
    <3>2. CASE j # 0 /\ j <= k
      <4>1. j \in 0 .. k /\ j - 1 \in 0 .. k /\ j - 1 <= k /\ j - 1 \in 0 .. k + 1
        BY <3>2
      <4>2. f[j] = g[j] /\ f[j - 1] = g[j - 1]
        BY <3>2, <4>1
      <4> HIDE DEF f
      <4>3. g[j] = Execute(g[j - 1], bursts[j])
        BY <2>1, <3>2, <4>1 DEF ExecutedAll
      <4> QED BY <3>2, <4>2, <4>3
    <3>3. CASE ~(j <= k)
      <4>1. j = k + 1 /\ j # 0 /\ k \in 0 .. k + 1 /\ j - 1 = k
        BY <1>2, <3>3
      <4>2. f[k] = g[k] /\ f[j] = Execute(g[k], bursts[k + 1])
        BY <3>3, <4>1
      <4> HIDE DEF f
      <4> QED BY <4>1, <4>2
    <3> QED BY <3>1, <3>2, <3>3
  <2>3. f = [j \in 0 .. k + 1 |-> f[j]]
    OBVIOUS
  <2> HIDE DEF f
  <2>4. ExecutedAll(f, array, bursts, k + 1)
    BY <2>2, <2>3 DEF ExecutedAll
  <2> QED BY <1>2, <2>4
<1>3. n \in S
  <2> HIDE DEF S
  <2>1. 0 .. n \subseteq S
    BY <1>1, <1>2, BoundedInduct
  <2> QED BY <2>1
<1> QED BY <1>3

LEMMA ExecuteAllDomain ==
    ASSUME NEW array, NEW bursts \in Seq(Bursts)
    PROVE  DOMAIN ExecuteAll(array, bursts) = DOMAIN array
<1> DEFINE n == Len(bursts)
           f == CHOOSE f : ExecutedAll(f, array, bursts, n)
<1>1. n \in Nat /\ \A k \in 1 .. n : bursts[k] \in Bursts
  OBVIOUS
<1>2. ExecuteAll(array, bursts) = f[n]
  BY DEF ExecuteAll, ExecutedAll
<1>3. ExecutedAll(f, array, bursts, n)
  <2> HIDE DEF n
  <2> QED BY <1>1, BurstsExist
<1> HIDE DEF f, n
<1> DEFINE T == {k \in 0 .. n : DOMAIN f[k] = DOMAIN array}
<1>4. 0 \in T
  BY <1>1, <1>3 DEF ExecutedAll
<1>5. ASSUME NEW k \in 0 .. n, k \in T, k < n PROVE k + 1 \in T
  <2>1. k + 1 \in 0 .. n /\ k + 1 \in 1 .. n /\ k + 1 # 0 /\ (k + 1) - 1 = k
    <3>1. n \in Nat /\ k \in 0 .. n /\ k < n
      BY <1>1, <1>5
    <3> HIDE DEF T
    <3> QED BY <3>1
  <2>2. f[k + 1] = Execute(f[k], bursts[k + 1])
    BY <1>3, <2>1 DEF ExecutedAll
  <2>3. DOMAIN Execute(f[k], bursts[k + 1]) = DOMAIN f[k]
    BY <1>1, <2>1, ExecuteDomain
  <2> QED BY <1>5, <2>1, <2>2, <2>3
<1>6. 0 .. n \subseteq T
  <2> HIDE DEF T
  <2> QED BY <1>1, <1>4, <1>5, BoundedInduct
<1> QED BY <1>1, <1>2, <1>6

-----------------------------------------------------------------------------
(* The invariant.  Whatever the shape of the cache, its rings are sound;    *)
(* while lines are read it has the shape that the globals say.              *)
Reports == [correct : BOOLEAN, hits : Nat, misses : Nat, evictions : Nat]

SimInv ==
    /\ csim \in CsimPCs /\ s \in Nat /\ E \in Nat /\ b \in Nat /\ lines \in 0 .. MaxLines
    /\ sim.hits \in Nat /\ sim.misses \in Nat /\ sim.evictions \in Nat
    /\ \E ways \in Nat : \A i \in DOMAIN sim.cache : Sound(sim.cache[i], ways)
    /\ csim = "start" => sim = Fresh(0, 0)
    /\ csim = "read" => Shaped /\ SimOK(sim, s, E)

TestInv ==
    /\ test \in {"off", "start", "generate", "call", "run", "over", "usage", "alarm"}
    /\ func \in 1 .. 6 /\ it \in Nat
    /\ DOMAIN B \subseteq 0 .. Reach
    /\ test \notin {"start", "usage", "off"} => M \in 1 .. MAXN /\ N \in 1 .. MAXN
    /\ func_list \in Seq(Reports)
    /\ test \in {"generate", "call", "run"} => Len(func_list) = 5
    /\ test \in {"call", "run"} => func \in 1 .. 5

GradingInv == SimInv /\ TestInv

(* A cache of the shape that the globals say is sound.                     *)
LEMMA SimOKSound ==
    ASSUME NEW bits \in Nat, NEW ways \in Nat, NEW m, SimOK(m, bits, ways)
    PROVE  /\ m.hits \in Nat /\ m.misses \in Nat /\ m.evictions \in Nat
           /\ \E w \in Nat : \A i \in DOMAIN m.cache : Sound(m.cache[i], w)
<1>1. DOMAIN m.cache = Indices(bits)
  BY DEF SimOK
<1> QED BY <1>1 DEF SimOK

(* Reading lines, from a trace file or from tracegen.                       *)
LEMMA SimulateStep ==
    ASSUME SimInv, NEW S, NEW batch \in Seq(S), \A line \in S : TraceLine(line), Simulate(batch)
    PROVE  /\ csim' = "read" /\ s' = s /\ E' = E /\ b' = b /\ SimOK(sim', s, E) /\ Shaped
           /\ Promised!Access
<1>1. csim = "read" /\ Shaped /\ SimOK(sim, s, E)
  BY DEF SimInv, Simulate
<1>2. sim' = parseLines(sim, batch) /\ trace' = batch /\ csim' = csim /\ s' = s /\ E' = E /\ b' = b
  BY DEF Simulate
<1>3. /\ SimOK(sim', s, E)
      /\ StateOf(sim') = Promised!TouchAll(StateOf(sim), Asks(batch))
  BY <1>1, <1>2, BatchStep
<1>4. Accesses' = Asks(batch)
  BY <1>2 DEF Accesses, SetIndex, Tag, Asks, Asked, AccessOf
<1>5. Promised!Access
  BY <1>2, <1>3, <1>4 DEF Promised!Access, StateOf
<1> QED BY <1>1, <1>2, <1>3, <1>5

(* Simulate keeps the invariant.                                           *)
LEMMA SimulateInv ==
    ASSUME SimInv, NEW S, NEW batch \in Seq(S), \A line \in S : TraceLine(line), Simulate(batch),
           lines' \in 0 .. MaxLines
    PROVE  SimInv' /\ Promised!Access
<1>1. csim' = "read" /\ s' = s /\ E' = E /\ b' = b /\ SimOK(sim', s, E) /\ Shaped /\ Promised!Access
  BY SimulateStep
<1>2. s \in Nat /\ E \in Nat /\ b \in Nat
  BY DEF SimInv
<1>3. /\ sim'.hits \in Nat /\ sim'.misses \in Nat /\ sim'.evictions \in Nat
      /\ \E w \in Nat : \A i \in DOMAIN sim'.cache : Sound(sim'.cache[i], w)
  BY <1>1, <1>2, SimOKSound
<1>4. "read" \in CsimPCs
  BY DEF CsimPCs
<1> QED BY <1>1, <1>2, <1>3, <1>4 DEF SimInv, Shaped

(* A new cache.                                                             *)
LEMMA FreshInv ==
    ASSUME NEW bits \in Nat, NEW ways \in Nat, sim' = Fresh(bits, ways)
    PROVE  /\ SimOK(sim', bits, ways) /\ Promised!Create
           /\ sim'.hits \in Nat /\ sim'.misses \in Nat /\ sim'.evictions \in Nat
           /\ \E w \in Nat : \A i \in DOMAIN sim'.cache : Sound(sim'.cache[i], w)
<1>1. /\ SimOK(sim', bits, ways)
      /\ \A i \in DOMAIN sim'.cache : Recent(sim'.cache[i]) = <<>>
      /\ sim'.hits = 0 /\ sim'.misses = 0 /\ sim'.evictions = 0
  BY FreshOK
<1>2. Promised!Create
  BY <1>1 DEF Promised!Create, Promised!Empty, Promised!Zero
<1> QED BY <1>1, <1>2, SimOKSound

(* The arguments make a new cache, or leave the one of no lines.           *)
LEMMA ParseArgsStep ==
    ASSUME SimInv, NEW opt \in CommandLines, parseArgs(opt)
    PROVE  SimInv' /\ Promised!Create
<1>1. opt.s \in Nat /\ opt.E \in Nat /\ opt.b \in Nat
  BY CsimAssumption DEF Options
<1>2. /\ csim = "start" /\ s' = opt.s /\ E' = opt.E /\ b' = opt.b /\ lines' = lines
      /\ lines \in 0 .. MaxLines
  BY DEF SimInv, parseArgs
<1>3. CASE sim' = sim /\ csim' \in {"help", "usage"}
  <2>1. sim' = Fresh(0, 0)
    BY <1>2, <1>3 DEF SimInv
  <2>2. /\ Promised!Create
        /\ sim'.hits \in Nat /\ sim'.misses \in Nat /\ sim'.evictions \in Nat
        /\ \E w \in Nat : \A i \in DOMAIN sim'.cache : Sound(sim'.cache[i], w)
    BY <2>1, FreshInv
  <2> QED BY <1>1, <1>2, <1>3, <2>2 DEF SimInv, CsimPCs
<1>4. CASE /\ csim' \in {"read", "missing"} /\ sim' = Fresh(opt.s, opt.E)
           /\ opt.s # 0 /\ opt.E # 0 /\ opt.b # 0
  <2>1. /\ SimOK(sim', opt.s, opt.E) /\ Promised!Create
        /\ sim'.hits \in Nat /\ sim'.misses \in Nat /\ sim'.evictions \in Nat
        /\ \E w \in Nat : \A i \in DOMAIN sim'.cache : Sound(sim'.cache[i], w)
    BY <1>1, <1>4, FreshInv
  <2> QED BY <1>1, <1>2, <1>4, <2>1 DEF SimInv, CsimPCs, Shaped
<1>5. \/ sim' = sim /\ csim' \in {"help", "usage"}
      \/ /\ csim' \in {"read", "missing"} /\ sim' = Fresh(opt.s, opt.E)
         /\ opt.s # 0 /\ opt.E # 0 /\ opt.b # 0
  BY DEF parseArgs
<1> QED BY <1>3, <1>4, <1>5

LEMMA UnknownOptionStep ==
    ASSUME SimInv, UnknownOption
    PROVE  SimInv' /\ UNCHANGED Promised!lruVars
BY DEF SimInv, UnknownOption, CsimPCs, Promised!lruVars, Accesses, SetIndex, Tag

LEMMA ReadLineStep ==
    ASSUME SimInv, ReadLine
    PROVE  SimInv' /\ Promised!Access
<1>1. lines' \in 0 .. MaxLines
  BY CsimAssumption DEF SimInv, ReadLine
<1>2. PICK line \in TraceLines : Simulate(<<line>>)
  BY DEF ReadLine
<1>3. <<line>> \in Seq(TraceLines) /\ \A x \in TraceLines : TraceLine(x)
  BY CsimAssumption DEF TraceLine
<1> QED BY <1>1, <1>2, <1>3, SimulateInv

(* The cache is freed; its counts remain.                                  *)
LEMMA EndOfFileStep ==
    ASSUME SimInv, EndOfFile
    PROVE  SimInv' /\ Promised!Discard
<1>1. csim = "read" /\ SimOK(sim, s, E) /\ sim' = [sim EXCEPT !.cache = <<>>] /\ csim' = "exit"
      /\ UNCHANGED <<s, E, b, trace, lines>>
  BY DEF SimInv, EndOfFile, freeCache
<1>2. sim = [cache |-> sim.cache, hits |-> sim.hits, misses |-> sim.misses, evictions |-> sim.evictions]
  BY <1>1 DEF SimOK
<1>3. sim' = [cache |-> <<>>, hits |-> sim.hits, misses |-> sim.misses, evictions |-> sim.evictions]
  BY <1>1, <1>2
<1>4. sim'.cache = <<>> /\ sim'.hits = sim.hits /\ sim'.misses = sim.misses
      /\ sim'.evictions = sim.evictions
  BY <1>3
<1>5. DOMAIN sim'.cache = {}
  BY <1>4
<1>6. Promised!Discard
  <2>1. [i \in DOMAIN sim'.cache |-> Recent(sim'.cache[i])] = <<>>
    BY <1>5
  <2> QED BY <1>4, <2>1 DEF Promised!Discard
<1>7. \E w \in Nat : \A i \in DOMAIN sim'.cache : Sound(sim'.cache[i], w)
  BY <1>5
<1> QED BY <1>1, <1>4, <1>6, <1>7 DEF SimInv, CsimPCs

(* tracegen, for every size of the matrices.                                *)
LEMMA InitOK ==
    ASSUME Init
    PROVE  GradingInv /\ Promised!Empty
<1>1. /\ s = 0 /\ E = 0 /\ b = 0 /\ lines = 0 /\ sim = Fresh(0, 0) /\ csim \in {"start", "exit"}
      /\ test \in {"off", "start"} /\ func = 1 /\ it = 0 /\ B = <<>> /\ func_list = <<>>
  BY DEF Init, InitA, InitB, CsimInit
<1>2. /\ SimOK(sim, 0, 0)
      /\ \A i \in DOMAIN sim.cache : Recent(sim.cache[i]) = <<>>
      /\ sim.hits = 0 /\ sim.misses = 0 /\ sim.evictions = 0
  BY <1>1, FreshOK
<1>3. \E w \in Nat : \A i \in DOMAIN sim.cache : Sound(sim.cache[i], w)
  BY <1>2, SimOKSound
<1>4. SimInv
  BY <1>1, <1>2, <1>3, CsimAssumption DEF SimInv, CsimPCs
<1>5. TestInv
  <2>1. <<>> \in Seq(Reports) /\ DOMAIN <<>> = {}
    BY EmptySeq
  <2> QED BY <1>1, <2>1 DEF TestInv
<1> QED BY <1>2, <1>4, <1>5 DEF GradingInv, Promised!Empty, Promised!Zero

LEMMA ArgumentsStep ==
    ASSUME GradingInv, NEW size \in Sizes, Arguments(size)
    PROVE  GradingInv' /\ UNCHANGED Promised!lruVars
<1>1. UNCHANGED csimVars
  BY DEF Arguments
<1>2. SimInv'
  BY <1>1 DEF GradingInv, SimInv, csimVars, Shaped
<1>3. UNCHANGED Promised!lruVars
  BY <1>1 DEF csimVars, Promised!lruVars, Accesses, SetIndex, Tag
<1>4. M' \in Nat /\ N' \in Nat
  BY TransAssumption DEF Arguments
<1>5. test' = "usage" \/ (test' = "generate" /\ M' \in 1 .. MAXN /\ N' \in 1 .. MAXN)
  BY <1>4 DEF Arguments, Refused, MAXN
<1>6. func_list' \in Seq(Reports) /\ Len(func_list') = 5
  <2>1. DOMAIN registerFunctions = 1 .. 5
    BY DEF registerFunctions
  <2>2. func_list' = [f \in 1 .. 5 |-> Untested]
    BY <2>1 DEF Arguments
  <2>3. Untested \in Reports
    BY DEF Untested, Reports
  <2> QED BY <2>2, <2>3
<1>7. TestInv'
  BY <1>5, <1>6 DEF GradingInv, TestInv, Arguments
<1> QED BY <1>2, <1>3, <1>7 DEF GradingInv

LEMMA GenerateStep ==
    ASSUME GradingInv, Generate
    PROVE  GradingInv' /\ Promised!Create
<1>1. sim' = Fresh(5, 1) /\ csim' = "read" /\ s' = 5 /\ E' = 1 /\ b' = 5 /\ lines' = lines
  BY DEF Generate
<1>2. /\ SimOK(sim', 5, 1) /\ Promised!Create
      /\ sim'.hits \in Nat /\ sim'.misses \in Nat /\ sim'.evictions \in Nat
      /\ \E w \in Nat : \A i \in DOMAIN sim'.cache : Sound(sim'.cache[i], w)
  BY <1>1, FreshInv
<1>3. SimInv'
  BY <1>1, <1>2 DEF GradingInv, SimInv, CsimPCs, Shaped
<1>4. DOMAIN B' = 0 .. Reach
  BY DEF Generate, InitialB
<1>5. /\ test = "generate" /\ func <= Len(func_list) /\ test' = "call" /\ it' = 0
      /\ UNCHANGED <<M, N, func, func_list>>
  BY DEF Generate
<1>6. func \in 1 .. 5
  <2>1. Len(func_list) = 5 /\ func \in 1 .. 6
    BY <1>5 DEF GradingInv, TestInv
  <2> QED BY <1>5, <2>1
<1>7. TestInv'
  <2>1. 0 \in Nat
    OBVIOUS
  <2> QED BY <1>4, <1>5, <1>6, <2>1 DEF GradingInv, TestInv
<1> QED BY <1>2, <1>3, <1>7 DEF GradingInv

LEMMA CallStep ==
    ASSUME GradingInv, Call
    PROVE  GradingInv' /\ Promised!Access
<1> DEFINE batch == <<Line("S", MarkerStart), Line("L", FuncPtr(func)), Line("L", GlobalN),
                      Line("L", GlobalM)>>
<1>1. \A line \in LineSet : TraceLine(line)
  BY DEF LineSet, TraceLine
<1>2. batch \in Seq(LineSet)
  <2>1. func \in Int
    BY DEF GradingInv, TestInv
  <2>2. FuncPtr(func) \in Int
    BY <2>1, SMT DEF FuncPtr
  <2>3. MarkerStart \in Int /\ GlobalN \in Int /\ GlobalM \in Int
    BY SMT DEF MarkerStart, GlobalN, GlobalM
  <2>4. \A op \in {"L", "S"}, a \in Int : Line(op, a) \in LineSet
    BY DEF Line, LineSet
  <2>5. /\ Line("S", MarkerStart) \in LineSet /\ Line("L", FuncPtr(func)) \in LineSet
        /\ Line("L", GlobalN) \in LineSet /\ Line("L", GlobalM) \in LineSet
    BY <2>2, <2>3, <2>4
  <2> QED BY <2>5
<1>3. Simulate(batch) /\ lines' \in 0 .. MaxLines
  BY DEF Call, GradingInv, SimInv
<1> HIDE DEF batch
<1>4. SimInv' /\ Promised!Access
  BY <1>1, <1>2, <1>3, SimulateInv DEF GradingInv
<1>5. TestInv'
  BY DEF GradingInv, TestInv, Call
<1> QED BY <1>4, <1>5 DEF GradingInv

LEMMA TransposeStep ==
    ASSUME GradingInv, Transpose
    PROVE  GradingInv' /\ Promised!Access
<1> DEFINE bursts == Iteration(Running, M, N, it)
<1>1. \A line \in LineSet : TraceLine(line)
  BY DEF LineSet, TraceLine
<1>2. Running \in TransFunctions
  <2>1. func \in 1 .. 5
    BY DEF GradingInv, TestInv, Transpose
  <2>2. registerFunctions[func] \in TransFunctions \cup {"transpose_submit"}
    BY <2>1 DEF registerFunctions, TransFunctions
  <2>3. transpose_submit(M, N) \in TransFunctions
    BY DEF transpose_submit, TransFunctions
  <2> QED BY <2>2, <2>3 DEF Running, Called
<1>3. M \in Nat \ {0} /\ N \in Nat \ {0} /\ it \in Nat /\ test = "run"
  <2>1. test = "run"
    BY DEF Transpose
  <2>2. M \in 1 .. MAXN /\ N \in 1 .. MAXN /\ it \in Nat
    BY <2>1 DEF GradingInv, TestInv
  <2>3. MAXN \in Nat
    BY DEF MAXN
  <2> QED BY <2>1, <2>2, <2>3
<1>4. bursts \in Seq(Bursts)
  BY <1>2, <1>3, IterationType
<1>5. B' = ExecuteAll(B, bursts) /\ Simulate(TracedAll(bursts)) /\ it' = it + 1
  BY DEF Transpose, TracedAll
<1>6. lines' \in 0 .. MaxLines /\ UNCHANGED <<test, M, N, func, func_list>>
  BY DEF Transpose, GradingInv, SimInv
<1> HIDE DEF bursts
<1>7. TracedAll(bursts) \in Seq(LineSet) /\ DOMAIN B' = DOMAIN B
  BY <1>4, <1>5, TracedAllType, ExecuteAllDomain
<1>8. SimInv' /\ Promised!Access
  BY <1>1, <1>5, <1>6, <1>7, SimulateInv DEF GradingInv
<1>9. TestInv'
  BY <1>3, <1>5, <1>6, <1>7 DEF GradingInv, TestInv
<1> QED BY <1>8, <1>9 DEF GradingInv

(* A report is filed in func_list.                                         *)
LEMMA FiledReport ==
    ASSUME NEW q \in Seq(Reports), NEW k \in 1 .. Len(q), NEW report \in Reports
    PROVE  [q EXCEPT ![k] = report] \in Seq(Reports) /\ Len([q EXCEPT ![k] = report]) = Len(q)
<1> DEFINE u == [q EXCEPT ![k] = report]
<1>1. Len(q) \in Nat /\ DOMAIN u = 1 .. Len(q) /\ \A j \in 1 .. Len(q) : u[j] \in Reports
  OBVIOUS
<1>2. u = [j \in 1 .. Len(q) |-> u[j]]
  BY <1>1
<1> HIDE DEF u
<1>3. [j \in 1 .. Len(q) |-> u[j]] \in Seq(Reports) /\ Len([j \in 1 .. Len(q) |-> u[j]]) = Len(q)
  BY <1>1
<1> QED BY <1>2, <1>3 DEF u

LEMMA CollectStep ==
    ASSUME GradingInv, Collect
    PROVE  GradingInv' /\ Promised!Access
<1> DEFINE batch == <<Line("S", MarkerEnd)>>
<1>1. \A line \in LineSet : TraceLine(line)
  BY DEF LineSet, TraceLine
<1>2. batch \in Seq(LineSet)
  BY SMT DEF Line, LineSet, MarkerEnd
<1>3. Simulate(batch) /\ lines' \in 0 .. MaxLines
  BY DEF Collect, GradingInv, SimInv
<1> HIDE DEF batch
<1>4. SimInv' /\ Promised!Access
  BY <1>1, <1>2, <1>3, SimulateInv DEF GradingInv
<1>5. func_list' \in Seq(Reports) /\ Len(func_list') = 5
  <2>1. func_list \in Seq(Reports) /\ Len(func_list) = 5
    BY DEF GradingInv, TestInv, Collect
  <2>2. CASE func_list' = func_list
    BY <2>1, <2>2
  <2>3. CASE /\ csim_results' = printSummary(sim')
             /\ func_list' = [func_list EXCEPT ![func] =
                    [correct |-> TRUE, hits |-> csim_results'[1], misses |-> csim_results'[2],
                     evictions |-> csim_results'[3]]]
    <3>1. csim_results'[1] \in Nat /\ csim_results'[2] \in Nat /\ csim_results'[3] \in Nat
      BY <1>4, <2>3 DEF SimInv, printSummary
    <3> DEFINE report == [correct |-> TRUE, hits |-> csim_results'[1], misses |-> csim_results'[2],
                          evictions |-> csim_results'[3]]
    <3>2. report \in Reports
      BY <3>1 DEF Reports
    <3>3. func_list' = [func_list EXCEPT ![func] = report]
      BY <2>3
    <3> HIDE DEF report
    <3>4. func \in 1 .. Len(func_list)
      BY <2>1 DEF GradingInv, TestInv, Collect
    <3>5. /\ [func_list EXCEPT ![func] = report] \in Seq(Reports)
          /\ Len([func_list EXCEPT ![func] = report]) = Len(func_list)
      BY <2>1, <3>2, <3>4, FiledReport
    <3> QED BY <2>1, <3>3, <3>5
  <2> QED BY <2>2, <2>3 DEF Collect
<1>6. test = "run" /\ test' = "generate" /\ func' = func + 1 /\ UNCHANGED <<M, N, it, B>>
  BY DEF Collect
<1>7. TestInv'
  BY <1>5, <1>6 DEF GradingInv, TestInv
<1> QED BY <1>4, <1>7 DEF GradingInv

(* A step that leaves the simulator alone.                                 *)
LEMMA QuietStep ==
    ASSUME GradingInv, UNCHANGED csimVars, TestInv'
    PROVE  GradingInv' /\ UNCHANGED Promised!lruVars
<1>1. SimInv'
  BY DEF GradingInv, SimInv, csimVars, Shaped
<1>2. UNCHANGED Promised!lruVars
  BY DEF csimVars, Promised!lruVars, Accesses, SetIndex, Tag
<1> QED BY <1>1, <1>2 DEF GradingInv

(* Every step keeps the invariant, and is a step of the abstract cache.    *)
LEMMA Step ==
    ASSUME GradingInv, [Next]_vars
    PROVE  /\ GradingInv'
           /\ [Promised!Access \/ Promised!Create \/ Promised!Discard]_Promised!lruVars
<1> DEFINE Goal == /\ GradingInv'
                   /\ [Promised!Access \/ Promised!Create \/ Promised!Discard]_Promised!lruVars
<1>1. CASE PartA
  <2>1. TestInv'
    BY <1>1 DEF PartA, transVars, GradingInv, TestInv
  <2>2. CASE \E opt \in CommandLines : parseArgs(opt)
    BY <2>1, <2>2, ParseArgsStep DEF GradingInv
  <2>3. CASE UnknownOption
    BY <2>1, <2>3, UnknownOptionStep DEF GradingInv
  <2>4. CASE ReadLine
    BY <2>1, <2>4, ReadLineStep DEF GradingInv
  <2>5. CASE EndOfFile
    BY <2>1, <2>5, EndOfFileStep DEF GradingInv
  <2> QED BY <1>1, <2>2, <2>3, <2>4, <2>5 DEF PartA, CsimNext, Start
<1>2. CASE \E size \in Sizes : Arguments(size)
  BY <1>2, ArgumentsStep
<1>3. CASE Generate
  BY <1>3, GenerateStep
<1>4. CASE Call
  BY <1>4, CallStep
<1>5. CASE Transpose
  BY <1>5, TransposeStep
<1>6. CASE Collect
  BY <1>6, CollectStep
<1>7. CASE Summary \/ sigalrm_handler
  <2>1. UNCHANGED csimVars
    BY <1>7 DEF Summary, sigalrm_handler
  <2>2. TestInv'
    <3>1. DOMAIN <<>> = {}
      OBVIOUS
    <3> QED BY <1>7, <3>1 DEF GradingInv, TestInv, Summary, sigalrm_handler
  <2> QED BY <2>1, <2>2, QuietStep
<1>8. CASE UNCHANGED vars
  <2>1. UNCHANGED csimVars /\ TestInv'
    BY <1>8 DEF vars, transVars, GradingInv, TestInv
  <2> QED BY <2>1, QuietStep
<1> QED BY <1>1, <1>2, <1>3, <1>4, <1>5, <1>6, <1>7, <1>8 DEF Next, PartB

(* What the proofs below rest on: rings are sound, and the evaluation of   *)
(* the functions keeps to its bounds (csim.c, test-trans.c).               *)
THEOREM Invariant == Spec => []GradingInv
<1>1. Init => GradingInv
  BY InitOK
<1>2. GradingInv /\ [Next]_vars => GradingInv'
  BY Step
<1> QED BY <1>1, <1>2, PTL DEF Spec

(* main of csim.c and of test-trans.c keep their variables in their types.  *)
THEOREM TypeCorrect == Spec => []TypeOK
<1>1. GradingInv => TypeOK
  <2> SUFFICES ASSUME GradingInv PROVE TypeOK
    OBVIOUS
  <2>1. Len(registerFunctions) = 5
    BY DEF registerFunctions
  <2>2. \A f \in DOMAIN func_list : func_list[f].correct \in BOOLEAN
    <3>1. func_list \in Seq(Reports)
      BY DEF GradingInv, TestInv
    <3>2. \A f \in DOMAIN func_list : func_list[f] \in Reports
      BY <3>1
    <3> QED BY <3>2 DEF Reports
  <2>3. SimInv /\ TestInv
    BY DEF GradingInv
  <2> QED BY <2>1, <2>2, <2>3, SMTT(30) DEF TypeOK, SimInv, TestInv
<1> QED BY <1>1, Invariant, PTL

(* In no set of any cache is a line lost, or a tag held twice, or a line    *)
(* replaced while another is unused (checkAndUpdateSet, addOrReplaceLine).  *)
THEOREM RingsSound == Spec => []RingsIntact
<1>1. GradingInv => RingsIntact
  BY SoundIsOK DEF GradingInv, SimInv, RingsIntact
<1> QED BY <1>1, Invariant, PTL

(* Whatever lines are read and whatever a transpose function accesses, the  *)
(* simulator counts the hits, misses and evictions of a cache that replaces *)
(* the line used least recently, and holds the tags that it holds.          *)
THEOREM Implements == Spec => ImplementsLru
<1>1. Init => Promised!Empty
  BY InitOK
<1>2. GradingInv /\ [Next]_vars =>
          [Promised!Access \/ Promised!Create \/ Promised!Discard]_Promised!lruVars
  BY Step
<1> QED BY <1>1, <1>2, Invariant, PTL DEF Spec, ImplementsLru, Promised!Spec

-----------------------------------------------------------------------------
(* Copying blocks: arithmetic of flat arrays.                               *)
(* Division by a positive number.                                          *)
LEMMA Division ==
    ASSUME NEW x \in Nat, NEW n \in Nat \ {0}
    PROVE  x = (x \div n) * n + (x % n) /\ x % n \in 0 .. n - 1 /\ x \div n \in Nat
<1>1. x = (x \div n) * n + (x % n)
  OBVIOUS
<1>2. x % n \in 0 .. n - 1
  OBVIOUS
<1>3. x \div n \in Int /\ x \div n >= 0
  OBVIOUS
<1> QED BY <1>1, <1>2, <1>3

(* A product grows with its factor.                                        *)
LEMMA ProductGrows ==
    ASSUME NEW p \in Nat, NEW q \in Nat, NEW n \in Nat, p < q
    PROVE  p * n + n <= q * n
<1>1. PICK d \in Nat : q = p + 1 + d
  <2>1. q - p - 1 \in Nat /\ q = p + 1 + (q - p - 1)
    OBVIOUS
  <2> QED BY <2>1
<1>2. d * n >= 0 /\ p * n \in Nat /\ d * n \in Nat
  BY SMT
<1>3. q * n = p * n + n + d * n
  BY <1>1, SMT
<1> QED BY <1>2, <1>3

(* Row and column of an int of a flat array.                               *)
LEMMA RowAndColumn ==
    ASSUME NEW n \in Nat \ {0}, NEW i \in 0 .. n - 1, NEW j \in Nat
    PROVE  (j * n + i) % n = i /\ (j * n + i) \div n = j
<1> DEFINE x == j * n + i
           q == x \div n
           r == x % n
<1>1. x \in Nat /\ j * n \in Nat
  BY SMT
<1>2. x = (q * n) + r /\ r \in 0 .. n - 1 /\ q \in Nat
  <2> HIDE DEF x
  <2> QED BY <1>1, Division
<1>3. x = j * n + i
  OBVIOUS
<1> HIDE DEF x, q, r
<1>4. ~(q < j)
  <2>1. q < j => q * n + n <= j * n
    BY <1>2, ProductGrows
  <2>2. q * n \in Nat
    BY <1>2, SMT
  <2> QED BY <1>1, <1>2, <1>3, <2>1, <2>2
<1>5. ~(j < q)
  <2>1. j < q => j * n + n <= q * n
    BY <1>2, ProductGrows
  <2>2. q * n \in Nat
    BY <1>2, SMT
  <2> QED BY <1>1, <1>2, <1>3, <2>1, <2>2
<1>6. q = j
  BY <1>2, <1>4, <1>5
<1>7. r = i
  BY <1>1, <1>2, <1>3, <1>6
<1> QED BY <1>6, <1>7 DEF q, r, x

LEMMA CellsApart ==
    ASSUME NEW n \in Nat \ {0}, NEW i \in 0 .. n - 1, NEW j \in Nat, NEW k \in 0 .. n - 1,
           NEW l \in Nat, j * n + i = l * n + k
    PROVE  i = k /\ j = l
<1>1. (j * n + i) % n = i /\ (j * n + i) \div n = j
  BY RowAndColumn
<1>2. (l * n + k) % n = k /\ (l * n + k) \div n = l
  BY RowAndColumn
<1> QED BY <1>1, <1>2

-----------------------------------------------------------------------------
(* What a burst leaves in a cell of B: what its stores to the cell give, if *)
(* they all give the same, or what was there, if there are none.            *)
Gives(array, burst, c, v) ==
    \A k \in 1 .. Len(burst.stores) :
        burst.stores[k].cell.index = c => Value(array, burst.loads[burst.stores[k].reg]) = v
Spares(burst, c) == \A k \in 1 .. Len(burst.stores) : burst.stores[k].cell.index # c

LEMMA ExecuteAt ==
    ASSUME NEW array, NEW burst \in Bursts, NEW c \in DOMAIN array, NEW v, Gives(array, burst, c, v)
    PROVE  Execute(array, burst)[c] = v \/ (Spares(burst, c) /\ Execute(array, burst)[c] = array[c])
<1> DEFINE n == Len(burst.stores)
           f == CHOOSE f : Executed(f, array, burst, n)
           At(k) == burst.stores[k].cell.index
<1>1. n \in Nat
  BY DEF Bursts
<1>2. Execute(array, burst) = f[n]
  BY DEF Execute, Executed, Stored
<1>3. Executed(f, array, burst, n)
  <2> HIDE DEF n
  <2> QED BY <1>1, StoresExist
<1> HIDE DEF f, n
<1> DEFINE T == {k \in 0 .. n : /\ DOMAIN f[k] = DOMAIN array
                                /\ \/ f[k][c] = v
                                   \/ f[k][c] = array[c] /\ \A j \in 1 .. k : At(j) # c}
<1>4. 0 \in T
  <2>1. f[0] = array /\ 0 \in 0 .. n
    BY <1>1, <1>3 DEF Executed
  <2>2. 1 .. 0 = {}
    OBVIOUS
  <2> QED BY <2>1, <2>2
<1>5. ASSUME NEW k \in 0 .. n, k \in T, k < n PROVE k + 1 \in T
  <2>1. k + 1 \in 0 .. n /\ k + 1 \in 1 .. n /\ k + 1 # 0 /\ (k + 1) - 1 = k /\ k \in Nat
    BY <1>1, <1>5
  <2>2. f[k + 1] = Stored(array, f[k], burst, k + 1)
    BY <1>3, <2>1 DEF Executed
  <2> DEFINE w == Value(array, burst.loads[burst.stores[k + 1].reg])
  <2>3. f[k + 1] = [f[k] EXCEPT ![At(k + 1)] = w]
    BY <2>2 DEF Stored
  <2>4. At(k + 1) = c => w = v
    BY <2>1 DEF Gives, n
  <2>5. DOMAIN f[k + 1] = DOMAIN array /\ DOMAIN f[k] = DOMAIN array
    BY <1>5, <2>3
  <2>6. CASE At(k + 1) = c
    <3>1. f[k + 1][c] = v
      BY <2>3, <2>4, <2>5, <2>6
    <3> QED BY <2>1, <2>5, <3>1
  <2>7. CASE At(k + 1) # c
    <3>1. f[k + 1][c] = f[k][c]
      BY <2>3, <2>5, <2>7
    <3>2. CASE f[k][c] = v
      BY <2>1, <2>5, <3>1, <3>2
    <3>3. CASE f[k][c] = array[c] /\ \A j \in 1 .. k : At(j) # c
      <4>1. \A j \in 1 .. k + 1 : j \in 1 .. k \/ j = k + 1
        BY <2>1
      <4> HIDE DEF At
      <4>2. \A j \in 1 .. k + 1 : At(j) # c
        BY <2>7, <3>3, <4>1
      <4> QED BY <2>1, <2>5, <3>1, <3>3, <4>2
    <3> QED BY <1>5, <3>2, <3>3
  <2> QED BY <2>6, <2>7
<1>6. n \in T
  <2> HIDE DEF T
  <2>1. 0 .. n \subseteq T
    BY <1>1, <1>4, <1>5, BoundedInduct
  <2> QED BY <1>1, <2>1
<1> QED BY <1>2, <1>6 DEF Spares, n

(* A cell that no store is made to.                                        *)
LEMMA ExecuteSpares ==
    ASSUME NEW array, NEW burst \in Bursts, NEW c \in DOMAIN array, Spares(burst, c)
    PROVE  Execute(array, burst)[c] = array[c]
<1>1. Gives(array, burst, c, array[c])
  BY DEF Gives, Spares
<1> QED BY <1>1, ExecuteAt

(* A cell that is stored to.                                               *)
LEMMA ExecuteGives ==
    ASSUME NEW array, NEW burst \in Bursts, NEW c \in DOMAIN array, NEW v,
           Gives(array, burst, c, v), ~Spares(burst, c)
    PROVE  Execute(array, burst)[c] = v
BY ExecuteAt

LEMMA OneBurst ==
    ASSUME NEW array, NEW burst
    PROVE  ExecuteAll(array, <<burst>>) = Execute(array, burst)
<1> DEFINE f == CHOOSE f : ExecutedAll(f, array, <<burst>>, 1)
<1>1. ExecuteAll(array, <<burst>>) = f[1]
  <2>1. Len(<<burst>>) = 1
    OBVIOUS
  <2> QED BY <2>1 DEF ExecuteAll, ExecutedAll
<1>2. ExecutedAll(f, array, <<burst>>, 1)
  <2>1. 1 \in Nat
    OBVIOUS
  <2> QED BY <2>1, BurstsExist
<1> HIDE DEF f
<1>3. f[0] = array /\ f[1] = Execute(f[0], burst)
  BY <1>2 DEF ExecutedAll
<1> QED BY <1>1, <1>3

-----------------------------------------------------------------------------
(* A[i][j], and B[j][i] that shall hold it, as C finds them in the flat     *)
(* arrays.                                                                 *)
Entry(i, j) == InitialA(i * M + j)
Place(j, i) == j * N + i
Holds(array, j, i) == Place(j, i) \in DOMAIN array => array[Place(j, i)] = Entry(i, j)

Dims == M \in Nat \ {0} /\ N \in Nat \ {0}
IsCopy(burst, i, j) == burst = Copy(M, N, i, j)
Copying(burst) == \E i \in 0 .. N - 1, j \in 0 .. M - 1 : IsCopy(burst, i, j)

LEMMA PlaceType ==
    ASSUME Dims, NEW i \in Int, NEW j \in Int
    PROVE  Place(j, i) \in Int /\ i * M + j \in Int
<1>1. j * N \in Int /\ i * M \in Int
  BY SMT DEF Dims
<1> QED BY <1>1 DEF Place

LEMMA PlacesApart ==
    ASSUME Dims, NEW i \in 0 .. N - 1, NEW j \in Nat, NEW k \in 0 .. N - 1, NEW l \in Nat,
           Place(j, i) = Place(l, k)
    PROVE  i = k /\ j = l
BY CellsApart DEF Place, Dims

LEMMA CopyShape ==
    ASSUME Dims, NEW i \in Int, NEW j \in Int, NEW burst, IsCopy(burst, i, j), NEW array
    PROVE  /\ burst \in Bursts /\ Len(burst.stores) = 1
           /\ burst.stores[1].cell.index = Place(j, i)
           /\ Value(array, burst.loads[burst.stores[1].reg]) = Entry(i, j)
<1> DEFINE c == InA(M, i, j)
           d == InB(N, j, i)
<1>1. burst = Burst(<<c>>, <<Put(d, 1)>>)
  BY DEF IsCopy, Copy
<1>2. c \in Cells /\ d \in Cells
  BY CellType DEF Dims
<1>3. c.array = "A" /\ c.index = i * M + j /\ d.index = Place(j, i)
  BY DEF InA, InB, Cell, Place
<1> HIDE DEF c, d
<1>4. <<c>> \in Seq(Cells) /\ <<Put(d, 1)>> \in Seq(Stores)
  BY <1>2, PutType
<1>5. burst \in Bursts
  BY <1>1, <1>4, BurstType
<1>6. burst.loads = <<c>> /\ burst.stores = <<Put(d, 1)>>
  BY <1>1 DEF Burst
<1>7. Put(d, 1).cell = d /\ Put(d, 1).reg = 1
  BY DEF Put
<1>8. Value(array, c) = Entry(i, j)
  BY <1>3 DEF Value, Entry
<1> QED BY <1>3, <1>5, <1>6, <1>7, <1>8

(* One copy: B[j][i] holds its element, and every other one it held.       *)
LEMMA CopyHolds ==
    ASSUME Dims, NEW burst, Copying(burst), NEW array, NEW k \in 0 .. N - 1, NEW l \in Nat,
           Holds(array, l, k) \/ IsCopy(burst, k, l)
    PROVE  Holds(Execute(array, burst), l, k)
<1>1. PICK i \in 0 .. N - 1, j \in 0 .. M - 1 : IsCopy(burst, i, j)
  BY DEF Copying
<1>2. i \in Int /\ j \in Int /\ j \in Nat /\ k \in Int /\ l \in Int
  BY DEF Dims
<1>3. burst \in Bursts
  BY <1>1, <1>2, CopyShape
<1>4. DOMAIN Execute(array, burst) = DOMAIN array
  BY <1>3, ExecuteDomain
<1> SUFFICES ASSUME Place(l, k) \in DOMAIN array
             PROVE  Execute(array, burst)[Place(l, k)] = Entry(k, l)
  BY <1>4 DEF Holds
<1>5. CASE IsCopy(burst, k, l)
  <2>1. /\ Len(burst.stores) = 1 /\ burst.stores[1].cell.index = Place(l, k)
        /\ Value(array, burst.loads[burst.stores[1].reg]) = Entry(k, l)
    BY <1>2, <1>5, CopyShape
  <2>2. Gives(array, burst, Place(l, k), Entry(k, l)) /\ ~Spares(burst, Place(l, k))
    BY <2>1 DEF Gives, Spares
  <2> QED BY <1>3, <2>2, ExecuteGives
<1>6. CASE ~IsCopy(burst, k, l)
  <2>1. Len(burst.stores) = 1 /\ burst.stores[1].cell.index = Place(j, i)
    BY <1>1, <1>2, CopyShape
  <2>2. Place(j, i) # Place(l, k)
    BY <1>1, <1>2, <1>6, PlacesApart
  <2>3. Spares(burst, Place(l, k))
    BY <2>1, <2>2 DEF Spares
  <2>4. array[Place(l, k)] = Entry(k, l)
    BY <1>6 DEF Holds
  <2> QED BY <1>3, <2>3, <2>4, ExecuteSpares
<1> QED BY <1>5, <1>6

(* A sequence of copies.                                                   *)
AllCopies(bursts) == \A n \in 1 .. Len(bursts) : Copying(bursts[n])
Copies(bursts, i, j) == \E n \in 1 .. Len(bursts) : IsCopy(bursts[n], i, j)

LEMMA CopiesHold ==
    ASSUME Dims, NEW bursts \in Seq(Bursts), AllCopies(bursts), NEW array,
           NEW k \in 0 .. N - 1, NEW l \in Nat,
           Holds(array, l, k) \/ Copies(bursts, k, l)
    PROVE  Holds(ExecuteAll(array, bursts), l, k)
<1> DEFINE n == Len(bursts)
           f == CHOOSE f : ExecutedAll(f, array, bursts, n)
<1>1. n \in Nat
  OBVIOUS
<1>2. ExecuteAll(array, bursts) = f[n]
  BY DEF ExecuteAll, ExecutedAll
<1>3. ExecutedAll(f, array, bursts, n)
  <2> HIDE DEF n
  <2> QED BY <1>1, BurstsExist
<1> HIDE DEF f
<1> DEFINE Done(m) == Holds(array, l, k) \/ \E j \in 1 .. m : IsCopy(bursts[j], k, l)
           T == {m \in 0 .. n : Done(m) => Holds(f[m], l, k)}
<1>4. 0 \in T
  <2>1. f[0] = array /\ 0 \in 0 .. n
    BY <1>1, <1>3 DEF ExecutedAll
  <2>2. 1 .. 0 = {}
    OBVIOUS
  <2> QED BY <2>1, <2>2
<1>5. ASSUME NEW m \in 0 .. n, m \in T, m < n PROVE m + 1 \in T
  <2>1. m + 1 \in 0 .. n /\ m + 1 \in 1 .. n /\ m + 1 # 0 /\ (m + 1) - 1 = m /\ m \in Nat
    BY <1>1, <1>5
  <2>2. f[m + 1] = Execute(f[m], bursts[m + 1])
    BY <1>3, <2>1 DEF ExecutedAll
  <2>3. Copying(bursts[m + 1])
    BY <2>1 DEF AllCopies
  <2>4. \A j \in 1 .. m + 1 : j \in 1 .. m \/ j = m + 1
    BY <2>1
  <2>5. Done(m + 1) => Done(m) \/ IsCopy(bursts[m + 1], k, l)
    BY <2>4
  <2>6. Done(m + 1) => Holds(f[m], l, k) \/ IsCopy(bursts[m + 1], k, l)
    BY <1>5, <2>5
  <2>7. Done(m + 1) => Holds(Execute(f[m], bursts[m + 1]), l, k)
    BY <2>3, <2>6, CopyHolds
  <2> QED BY <2>1, <2>2, <2>7
<1>6. n \in T
  <2> HIDE DEF T
  <2>1. 0 .. n \subseteq T
    <3> HIDE DEF n
    <3> QED BY <1>1, <1>4, <1>5, BoundedInduct
  <2> QED BY <1>1, <2>1
<1>7. Done(n)
  BY DEF Copies
<1> QED BY <1>2, <1>6, <1>7

(* The iterations of the functions that copy, and which of them copies an  *)
(* element.                                                                *)
CopyFunction(f) ==
    \/ f = "trans"
    \/ f = "trans_32x32" /\ M = 32 /\ N = 32
    \/ f = "trans_61x67" /\ M \in {32, 61} /\ N = 67

Turn(f, i, j) ==
    CASE f = "trans" -> i * Up(M, Chunk) + (j \div Chunk)
      [] f = "trans_32x32" -> 32 * (i \div 8) + 8 * (j \div 8) + (i % 8)
      [] f = "trans_61x67" -> 16 * Up(M, 16) * (i \div 16) + 16 * (j \div 16) + (i % 16)

LEMMA RowCopies ==
    ASSUME Dims, NEW i \in 0 .. N - 1, NEW first \in Nat, NEW last \in Int, last <= M - 1
    PROVE  /\ CopyRow(M, N, i, first, last) \in Seq(Bursts)
           /\ AllCopies(CopyRow(M, N, i, first, last))
           /\ \A j \in first .. last : Copies(CopyRow(M, N, i, first, last), i, j)
<1> DEFINE row == CopyRow(M, N, i, first, last)
           long == last - first + 1
<1>1. row \in Seq(Bursts)
  <2>1. M \in Int /\ N \in Int /\ i \in Int /\ first \in Int
    BY DEF Dims
  <2> QED BY <2>1, CopyRowType
<1>2. DOMAIN row = 1 .. long /\ \A k \in 1 .. long : row[k] = Copy(M, N, i, first + k - 1)
  BY DEF CopyRow
<1>3. Len(row) \in Nat /\ DOMAIN row = 1 .. Len(row)
  BY <1>1, LenProperties
<1> HIDE DEF row
<1>4. ASSUME NEW k \in 1 .. Len(row) PROVE Copying(row[k])
  <2>1. k \in 1 .. long
    BY <1>2, <1>3
  <2>2. first + k - 1 \in 0 .. M - 1
    BY <2>1 DEF Dims
  <2>3. IsCopy(row[k], i, first + k - 1)
    BY <1>2, <2>1 DEF IsCopy
  <2> QED BY <2>2, <2>3 DEF Copying
<1>5. ASSUME NEW j \in first .. last PROVE Copies(row, i, j)
  <2> DEFINE k == j - first + 1
  <2>1. k \in 1 .. long /\ first + k - 1 = j
    OBVIOUS
  <2> HIDE DEF k
  <2>2. k \in 1 .. Len(row) /\ IsCopy(row[k], i, j)
    BY <1>2, <1>3, <2>1 DEF IsCopy
  <2> QED BY <2>2 DEF Copies
<1> QED BY <1>1, <1>4, <1>5 DEF AllCopies, row

LEMMA JoinedCopies ==
    ASSUME NEW x \in Seq(Bursts), NEW y \in Seq(Bursts), AllCopies(x), AllCopies(y)
    PROVE  /\ x \o y \in Seq(Bursts) /\ AllCopies(x \o y)
           /\ \A i, j : Copies(x, i, j) \/ Copies(y, i, j) => Copies(x \o y, i, j)
<1>1. x \o y \in Seq(Bursts) /\ Len(x \o y) = Len(x) + Len(y) /\ Len(x) \in Nat /\ Len(y) \in Nat
  OBVIOUS
<1>2. /\ \A k \in 1 .. Len(x) : k \in 1 .. Len(x) + Len(y) /\ (x \o y)[k] = x[k]
      /\ \A k \in 1 .. Len(y) : /\ Len(x) + k \in 1 .. Len(x) + Len(y)
                                /\ (x \o y)[Len(x) + k] = y[k]
  OBVIOUS
<1>3. \A k \in 1 .. Len(x) + Len(y) :
          k \in 1 .. Len(x) \/ (k - Len(x) \in 1 .. Len(y) /\ Len(x) + (k - Len(x)) = k)
  BY <1>1
<1> DEFINE z == x \o y
<1> HIDE DEF z
<1>4. AllCopies(z)
  <2> SUFFICES ASSUME NEW k \in 1 .. Len(z) PROVE Copying(z[k])
    BY DEF AllCopies
  <2>1. k \in 1 .. Len(x) + Len(y)
    BY <1>1 DEF z
  <2>2. CASE k \in 1 .. Len(x)
    <3>1. z[k] = x[k]
      BY <1>2, <2>2 DEF z
    <3> QED BY <2>2, <3>1 DEF AllCopies
  <2>3. CASE k - Len(x) \in 1 .. Len(y) /\ Len(x) + (k - Len(x)) = k
    <3>1. z[k] = y[k - Len(x)]
      BY <1>2, <2>3 DEF z
    <3> QED BY <2>3, <3>1 DEF AllCopies
  <2> QED BY <1>3, <2>1, <2>2, <2>3
<1>5. ASSUME NEW i, NEW j, Copies(x, i, j) \/ Copies(y, i, j) PROVE Copies(z, i, j)
  <2>1. ASSUME Copies(x, i, j) PROVE Copies(z, i, j)
    <3>1. PICK k \in 1 .. Len(x) : IsCopy(x[k], i, j)
      BY <2>1 DEF Copies
    <3>2. k \in 1 .. Len(z) /\ z[k] = x[k]
      BY <1>1, <1>2 DEF z
    <3> QED BY <3>1, <3>2 DEF Copies
  <2>2. ASSUME Copies(y, i, j) PROVE Copies(z, i, j)
    <3>1. PICK k \in 1 .. Len(y) : IsCopy(y[k], i, j)
      BY <2>2 DEF Copies
    <3>2. Len(x) + k \in 1 .. Len(z) /\ z[Len(x) + k] = y[k]
      BY <1>1, <1>2 DEF z
    <3> QED BY <3>1, <3>2 DEF Copies
  <2> QED BY <1>5, <2>1, <2>2
<1> QED BY <1>1, <1>4, <1>5 DEF z

LEMMA LastCopy ==
    ASSUME Dims, NEW i \in 0 .. N - 1, NEW j \in 0 .. M - 1
    PROVE  /\ <<Copy(M, N, i, j)>> \in Seq(Bursts) /\ AllCopies(<<Copy(M, N, i, j)>>)
           /\ Copies(<<Copy(M, N, i, j)>>, i, j)
<1> DEFINE c == Copy(M, N, i, j)
<1>1. IsCopy(c, i, j)
  BY DEF IsCopy
<1>2. i \in Int /\ j \in Int
  BY DEF Dims
<1>3. c \in Bursts
  BY <1>1, <1>2, CopyShape
<1> HIDE DEF c
<1>4. Copying(c)
  BY <1>1 DEF Copying
<1>5. Len(<<c>>) = 1 /\ <<c>>[1] = c /\ <<c>> \in Seq(Bursts) /\ 1 .. 1 = {1}
  BY <1>3
<1>6. AllCopies(<<c>>) /\ Copies(<<c>>, i, j)
  BY <1>1, <1>4, <1>5 DEF AllCopies, Copies
<1> QED BY <1>5, <1>6 DEF c

(* An iteration of a function that copies.                                 *)
CopiesInTurn(f, k, bursts) ==
    /\ bursts \in Seq(Bursts) /\ AllCopies(bursts)
    /\ \A i \in 0 .. N - 1, j \in 0 .. M - 1 : Turn(f, i, j) = k => Copies(bursts, i, j)

LEMMA Rounds ==
    ASSUME NEW m \in Nat \ {0}, NEW c \in Nat \ {0}, NEW j \in 0 .. m - 1
    PROVE  j \div c \in 0 .. Up(m, c) - 1 /\ Up(m, c) \in Nat \ {0}
<1> DEFINE q == j \div c
           p == Up(m, c)
           x == m + c - 1
<1>1. p \in Nat \ {0}
  BY UpType
<1>2. j = q * c + (j % c) /\ j % c \in 0 .. c - 1 /\ q \in Nat
  <2>1. j \in Nat
    OBVIOUS
  <2> QED BY <2>1, Division
<1>3. x \in Nat /\ p = x \div c
  BY DEF Up
<1> HIDE DEF q, p
<1>4. x = p * c + (x % c) /\ x % c \in 0 .. c - 1
  <2> HIDE DEF x
  <2> QED BY <1>3, Division
<1>5. ~(p < q)
  <2>1. p < q => p * c + c <= q * c
    BY <1>1, <1>2, ProductGrows
  <2>2. q * c \in Nat /\ p * c \in Nat
    BY <1>1, <1>2, SMT
  <2> QED BY <1>1, <1>2, <1>4, <2>1, <2>2
<1>6. p # q
  <2> SUFFICES ASSUME p = q PROVE FALSE
    OBVIOUS
  <2> DEFINE z == p * c
  <2>1. z \in Nat
    BY <1>1, SMT
  <2>2. x = z + (x % c) /\ j = z + (j % c)
    BY <1>2, <1>4
  <2> HIDE DEF z
  <2> QED BY <1>2, <1>4, <2>1, <2>2
<1> QED BY <1>1, <1>2, <1>5, <1>6 DEF p, q

LEMMA TransInTurn ==
    ASSUME Dims, NEW k \in 0 .. Iterations("trans", M, N) - 1
    PROVE  CopiesInTurn("trans", k, Iteration("trans", M, N, k))
<1> DEFINE p == Up(M, Chunk)
           i == k \div p
           part == k % p
           first == Chunk * part
           last == Least(first + Chunk, M) - 1
           row == CopyRow(M, N, i, first, last)
<1>0. Chunk \in Nat \ {0} /\ M \in Nat \ {0} /\ N \in Nat \ {0}
  BY ChunkAssumption DEF Dims
<1>1. p \in Nat \ {0}
  BY <1>0, UpType
<1>2. Iteration("trans", M, N, k) = row
  BY DEF Iteration, trans
<1>3. k \in Nat /\ k < N * p
  <2>1. Iterations("trans", M, N) = N * p
    BY DEF Iterations
  <2> HIDE DEF p
  <2>2. N * p \in Nat
    BY <1>0, <1>1, SMT
  <2> QED BY <2>1, <2>2
<1>4. k = i * p + part /\ part \in 0 .. p - 1 /\ i \in Nat
  <2> HIDE DEF p
  <2> QED BY <1>1, <1>3, Division
<1> HIDE DEF p, i, part
<1>5. i \in 0 .. N - 1
  <2>1. N < i => N * p + p <= i * p
    BY <1>0, <1>1, <1>4, ProductGrows
  <2>2. i * p \in Nat /\ N * p \in Nat
    BY <1>0, <1>1, <1>4, SMT
  <2> QED BY <1>0, <1>1, <1>3, <1>4, <2>1, <2>2
<1>6. first \in Nat
  BY <1>0, <1>4, SMT
<1>7. /\ last \in Int /\ last <= M - 1
      /\ \A j \in 0 .. M - 1 : first <= j /\ j < first + Chunk => j \in first .. last
  <2> HIDE DEF first
  <2> QED BY <1>0, <1>6 DEF Least
<1>8. /\ row \in Seq(Bursts) /\ AllCopies(row)
      /\ \A j \in first .. last : Copies(row, i, j)
  <2> HIDE DEF first, last
  <2> QED BY <1>5, <1>6, <1>7, RowCopies
<1> HIDE DEF last, row
<1>9. ASSUME NEW a \in 0 .. N - 1, NEW j \in 0 .. M - 1, Turn("trans", a, j) = k
      PROVE  Copies(row, a, j)
  <2> DEFINE q == j \div Chunk
  <2>1. k = a * p + q
    BY <1>9 DEF Turn, p
  <2>2. q \in 0 .. p - 1
    BY <1>0, Rounds DEF p
  <2>3. j = q * Chunk + (j % Chunk) /\ j % Chunk \in 0 .. Chunk - 1 /\ q \in Nat
    <3>1. j \in Nat
      BY <1>0
    <3> QED BY <1>0, <3>1, Division
  <2> HIDE DEF q
  <2>4. a = i /\ q = part
    <3>1. a \in Nat /\ i \in Nat
      BY <1>0, <1>4
    <3> QED BY <1>1, <1>4, <2>1, <2>2, <3>1, CellsApart
  <2>5. q * Chunk = first
    BY <1>0, <2>3, <2>4, SMT
  <2>6. first <= j /\ j < first + Chunk
    BY <1>0, <1>6, <2>3, <2>5
  <2> QED BY <1>7, <1>8, <2>4, <2>6
<1> QED BY <1>2, <1>8, <1>9 DEF CopiesInTurn

LEMMA SquareInTurn ==
    ASSUME M = 32, N = 32, NEW k \in 0 .. Iterations("trans_32x32", M, N) - 1
    PROVE  CopiesInTurn("trans_32x32", k, Iteration("trans_32x32", M, N, k))
<1> DEFINE row == 8 * (k \div 32)
           col == 8 * ((k \div 8) % 4)
           i == row + (k % 8)
           bursts == IF row # col THEN CopyRow(M, N, i, col, col + 7)
                     ELSE DiagonalLast(M, N, i, col)
<1>0. Dims
  BY DEF Dims
<1>1. Up(M, 8) = 4 /\ Up(N, 8) = 4
  BY DEF Up
<1>2. k \in 0 .. 127
  BY <1>1 DEF Iterations
<1>3. Iteration("trans_32x32", M, N, k) = bursts
  <2>1. 8 * Up(M, 8) = 32
    BY <1>1
  <2> QED BY <1>1, <2>1 DEF Iteration, trans_32x32
<1>4. row \in {0, 8, 16, 24} /\ col \in {0, 8, 16, 24} /\ i \in row .. row + 7
  <2>1. k \div 32 \in 0 .. 3
    BY <1>2
  <2>2. (k \div 8) % 4 \in 0 .. 3
    BY <1>2
  <2>3. k % 8 \in 0 .. 7
    BY <1>2
  <2> QED BY <2>1, <2>2, <2>3
<1>5. \A a \in 0 .. 31, j \in 0 .. 31 :
          Turn("trans_32x32", a, j) = k => a = i /\ j \in col .. col + 7
  <2> SUFFICES ASSUME NEW a \in 0 .. 31, NEW j \in 0 .. 31,
                      32 * (a \div 8) + 8 * (j \div 8) + (a % 8) = k
               PROVE  a = i /\ j \in col .. col + 7
    BY DEF Turn
  <2> DEFINE x == a \div 8
             y == j \div 8
             z == a % 8
  <2>1. x \in 0 .. 3 /\ z \in 0 .. 7 /\ a = 8 * x + z
    OBVIOUS
  <2>2. y \in 0 .. 3 /\ 8 * y <= j /\ j <= 8 * y + 7
    OBVIOUS
  <2>3. k = 32 * x + 8 * y + z
    OBVIOUS
  <2> HIDE DEF x, y, z
  <2>4. k \div 32 = x /\ k % 8 = z
    BY <2>1, <2>2, <2>3
  <2>5. (k \div 8) % 4 = y
    BY <2>1, <2>2, <2>3
  <2>6. row = 8 * x /\ col = 8 * y /\ i = 8 * x + z
    BY <2>4, <2>5
  <2> HIDE DEF row, col, i
  <2> QED BY <2>1, <2>2, <2>6
<1> HIDE DEF row, col, i
<1>6. i \in 0 .. N - 1 /\ col \in Nat /\ col + 7 \in 0 .. M - 1
  BY <1>4
<1>7. CASE row # col
  <2>1. bursts = CopyRow(M, N, i, col, col + 7)
    BY <1>7
  <2> HIDE DEF bursts
  <2>2. /\ bursts \in Seq(Bursts) /\ AllCopies(bursts)
        /\ \A j \in col .. col + 7 : Copies(bursts, i, j)
    <3> DEFINE last == col + 7
    <3>1. last \in Int /\ last <= M - 1
      BY <1>6
    <3> HIDE DEF last
    <3>2. /\ CopyRow(M, N, i, col, last) \in Seq(Bursts)
          /\ AllCopies(CopyRow(M, N, i, col, last))
          /\ \A j \in col .. last : Copies(CopyRow(M, N, i, col, last), i, j)
      BY <1>0, <1>6, <3>1, RowCopies
    <3> QED BY <2>1, <3>2 DEF last
  <2>3. \A a \in 0 .. N - 1, j \in 0 .. M - 1 :
            Turn("trans_32x32", a, j) = k => Copies(bursts, a, j)
    <3>1. \A j \in col .. col + 7 : Copies(bursts, i, j)
      BY <2>2
    <3> QED BY <1>5, <3>1
  <2>4. bursts \in Seq(Bursts) /\ AllCopies(bursts)
    BY <2>2
  <2> QED BY <1>3, <2>3, <2>4 DEF CopiesInTurn
<1>8. CASE row = col
  <2> DEFINE before == CopyRow(M, N, i, col, i - 1)
             after == CopyRow(M, N, i, i + 1, col + 7)
             last == <<Copy(M, N, i, i)>>
  <2>1. bursts = (before \o after) \o last
    BY <1>8 DEF DiagonalLast
  <2>2. /\ before \in Seq(Bursts) /\ AllCopies(before)
        /\ \A j \in col .. i - 1 : Copies(before, i, j)
    <3> DEFINE x == i - 1
    <3>1. x \in Int /\ x <= M - 1
      BY <1>6
    <3> HIDE DEF x
    <3>2. /\ CopyRow(M, N, i, col, x) \in Seq(Bursts)
          /\ AllCopies(CopyRow(M, N, i, col, x))
          /\ \A j \in col .. x : Copies(CopyRow(M, N, i, col, x), i, j)
      BY <1>0, <1>6, <3>1, RowCopies
    <3> QED BY <3>2 DEF x
  <2>3. /\ after \in Seq(Bursts) /\ AllCopies(after)
        /\ \A j \in i + 1 .. col + 7 : Copies(after, i, j)
    <3> DEFINE x == i + 1
               y == col + 7
    <3>1. x \in Nat /\ y \in Int /\ y <= M - 1
      BY <1>6
    <3> HIDE DEF x, y
    <3>2. /\ CopyRow(M, N, i, x, y) \in Seq(Bursts)
          /\ AllCopies(CopyRow(M, N, i, x, y))
          /\ \A j \in x .. y : Copies(CopyRow(M, N, i, x, y), i, j)
      BY <1>0, <1>6, <3>1, RowCopies
    <3> QED BY <3>2 DEF x, y
  <2>4. last \in Seq(Bursts) /\ AllCopies(last) /\ Copies(last, i, i)
    <3>1. i \in 0 .. M - 1
      BY <1>6
    <3> QED BY <1>0, <1>6, <3>1, LastCopy
  <2> HIDE DEF before, after, last
  <2>5. /\ before \o after \in Seq(Bursts) /\ AllCopies(before \o after)
        /\ \A a, j : Copies(before, a, j) \/ Copies(after, a, j) => Copies(before \o after, a, j)
    BY <2>2, <2>3, JoinedCopies
  <2> DEFINE both == before \o after
  <2> HIDE DEF both
  <2>6. /\ both \o last \in Seq(Bursts) /\ AllCopies(both \o last)
        /\ \A a, j : Copies(both, a, j) \/ Copies(last, a, j) => Copies(both \o last, a, j)
    <3>1. both \in Seq(Bursts) /\ AllCopies(both)
      BY <2>5 DEF both
    <3> QED BY <2>4, <3>1, JoinedCopies
  <2>7. bursts = both \o last
    BY <2>1 DEF both
  <2> HIDE DEF bursts
  <2>8. ASSUME NEW j \in col .. col + 7 PROVE Copies(bursts, i, j)
    <3>1. j \in col .. i - 1 \/ j \in i + 1 .. col + 7 \/ j = i
      BY <1>6
    <3>2. Copies(before, i, j) \/ Copies(after, i, j) \/ Copies(last, i, j)
      BY <2>2, <2>3, <2>4, <3>1
    <3> QED BY <2>5, <2>6, <2>7, <3>2 DEF both
  <2>9. \A a \in 0 .. N - 1, j \in 0 .. M - 1 :
            Turn("trans_32x32", a, j) = k => Copies(bursts, a, j)
    BY <1>5, <2>8
  <2> QED BY <1>3, <2>6, <2>7, <2>9 DEF CopiesInTurn
<1> QED BY <1>7, <1>8

LEMMA BlocksInTurn ==
    ASSUME M \in {32, 61}, N = 67, NEW k \in 0 .. Iterations("trans_61x67", M, N) - 1
    PROVE  CopiesInTurn("trans_61x67", k, Iteration("trans_61x67", M, N, k))
<1> DEFINE blocks == Up(M, 16)
           i == 16 * (k \div (16 * blocks)) + (k % 16)
           col == 16 * ((k \div 16) % blocks)
           last == Columns(M, col) - 1
           bursts == IF i < N THEN CopyRow(M, N, i, col, last) ELSE <<>>
<1>0. Dims
  BY DEF Dims
<1>1. blocks = (IF M = 32 THEN 2 ELSE 4) /\ Up(N, 16) = 5
  BY DEF Up
<1>2. k \in Nat /\ k < 80 * blocks
  BY <1>1 DEF Iterations
<1>3. Iteration("trans_61x67", M, N, k) = bursts
  BY DEF Iteration, trans_61x67
<1>4. i \in Nat /\ col \in Nat
  <2>1. CASE M = 32
    <3>1. blocks = 2 /\ 16 * blocks = 32
      BY <1>1, <2>1
    <3> QED BY <1>2, <3>1
  <2>2. CASE M = 61
    <3>1. blocks = 4 /\ 16 * blocks = 64
      BY <1>1, <2>2
    <3> QED BY <1>2, <3>1
  <2> QED BY <2>1, <2>2
<1>5. \A a \in 0 .. N - 1, j \in 0 .. M - 1 :
          Turn("trans_61x67", a, j) = k => a = i /\ j \in col .. col + 15
  <2> SUFFICES ASSUME NEW a \in 0 .. N - 1, NEW j \in 0 .. M - 1,
                      16 * blocks * (a \div 16) + 16 * (j \div 16) + (a % 16) = k
               PROVE  a = i /\ j \in col .. col + 15
    BY DEF Turn
  <2> DEFINE x == a \div 16
             y == j \div 16
             z == a % 16
  <2>1. x \in 0 .. 4 /\ z \in 0 .. 15 /\ a = 16 * x + z
    OBVIOUS
  <2>2. y \in 0 .. 3 /\ 16 * y <= j /\ j <= 16 * y + 15 /\ (M = 32 => y \in 0 .. 1)
    OBVIOUS
  <2>3. k = 16 * blocks * x + 16 * y + z
    OBVIOUS
  <2> HIDE DEF x, y, z
  <2>4. k \div (16 * blocks) = x /\ (k \div 16) % blocks = y /\ k % 16 = z
    <3>1. CASE M = 32
      <4>1. blocks = 2 /\ 16 * blocks = 32
        BY <1>1, <3>1
      <4>2. k = 32 * x + 16 * y + z
        BY <2>3, <4>1
      <4> HIDE DEF blocks
      <4>3. k \div 32 = x /\ k % 16 = z
        BY <2>1, <2>2, <3>1, <4>2
      <4>4. (k \div 16) % 2 = y
        BY <2>1, <2>2, <3>1, <4>2
      <4> QED BY <4>1, <4>3, <4>4
    <3>2. CASE M = 61
      <4>1. blocks = 4 /\ 16 * blocks = 64
        BY <1>1, <3>2
      <4>2. k = 64 * x + 16 * y + z
        BY <2>3, <4>1
      <4> HIDE DEF blocks
      <4>3. k \div 64 = x /\ k % 16 = z
        BY <2>1, <2>2, <4>2
      <4>4. (k \div 16) % 4 = y
        BY <2>1, <2>2, <4>2
      <4> QED BY <4>1, <4>3, <4>4
    <3> QED BY <3>1, <3>2
  <2>5. col = 16 * y /\ i = 16 * x + z
    BY <2>4
  <2> HIDE DEF col, i
  <2> QED BY <2>1, <2>2, <2>5
<1> HIDE DEF i, col
<1>6. /\ last \in Int /\ last <= M - 1
      /\ \A j \in 0 .. M - 1 : j \in col .. col + 15 => j \in col .. last
  BY <1>4 DEF Columns, Least
<1> HIDE DEF last
<1>7. CASE i < N
  <2>1. bursts = CopyRow(M, N, i, col, last)
    BY <1>7
  <2>2. i \in 0 .. N - 1
    BY <1>4, <1>7
  <2> HIDE DEF bursts
  <2>3. /\ bursts \in Seq(Bursts) /\ AllCopies(bursts)
        /\ \A j \in col .. last : Copies(bursts, i, j)
    BY <1>0, <1>4, <1>6, <2>1, <2>2, RowCopies
  <2>4. \A a \in 0 .. N - 1, j \in 0 .. M - 1 :
            Turn("trans_61x67", a, j) = k => Copies(bursts, a, j)
    BY <1>5, <1>6, <2>3
  <2> QED BY <1>3, <2>3, <2>4 DEF CopiesInTurn
<1>8. CASE ~(i < N)
  <2>1. bursts = <<>>
    BY <1>8
  <2> HIDE DEF bursts
  <2>2. bursts \in Seq(Bursts) /\ Len(bursts) = 0 /\ 1 .. 0 = {}
    BY <2>1
  <2>3. AllCopies(bursts)
    BY <2>2 DEF AllCopies
  <2>4. \A a \in 0 .. N - 1, j \in 0 .. M - 1 :
            Turn("trans_61x67", a, j) = k => Copies(bursts, a, j)
    BY <1>5, <1>8
  <2> QED BY <1>3, <2>2, <2>3, <2>4 DEF CopiesInTurn
<1> QED BY <1>7, <1>8

LEMMA IterationsType ==
    ASSUME Dims
    PROVE  \A f \in TransFunctions : Iterations(f, M, N) \in Int
<1>1. Up(M, Chunk) \in Int /\ Up(M, 8) \in Int /\ Up(N, 8) \in Int /\ Up(M, 16) \in Int
      /\ Up(N, 16) \in Int /\ N \in Int
  BY ChunkAssumption, UpType DEF Dims
<1>2. Iterations("trans", M, N) \in Int
  <2>1. Iterations("trans", M, N) = N * Up(M, Chunk)
    BY DEF Iterations
  <2> QED BY <1>1, <2>1, SMT
<1>3. Iterations("trans_32x32", M, N) \in Int
  <2>1. Iterations("trans_32x32", M, N) = 8 * Up(N, 8) * Up(M, 8)
    BY DEF Iterations
  <2> QED BY <1>1, <2>1, SMT
<1>4. Iterations("trans_61x67", M, N) \in Int
  <2>1. Iterations("trans_61x67", M, N) = 16 * Up(N, 16) * Up(M, 16)
    BY DEF Iterations
  <2> QED BY <1>1, <2>1, SMT
<1>5. Iterations("trans_64x64", M, N) \in Int
  BY DEF Iterations
<1> QED BY <1>2, <1>3, <1>4, <1>5 DEF TransFunctions

(* Every element has its turn.                                             *)
LEMMA TurnInTime ==
    ASSUME Dims, NEW f, CopyFunction(f), NEW i \in 0 .. N - 1, NEW j \in 0 .. M - 1
    PROVE  Turn(f, i, j) \in 0 .. Iterations(f, M, N) - 1
<1>1. CASE f = "trans"
  <2> DEFINE p == Up(M, Chunk)
             q == j \div Chunk
  <2>0. Chunk \in Nat \ {0} /\ M \in Nat \ {0} /\ N \in Nat \ {0}
    BY ChunkAssumption DEF Dims
  <2>1. q \in 0 .. p - 1 /\ p \in Nat \ {0}
    BY <2>0, Rounds
  <2>2. Turn(f, i, j) = i * p + q /\ Iterations(f, M, N) = N * p
    BY <1>1 DEF Turn, Iterations
  <2> HIDE DEF p, q
  <2>3. i * p + p <= N * p
    BY <2>0, <2>1, ProductGrows
  <2>4. i * p \in Nat /\ N * p \in Nat
    BY <2>0, <2>1, SMT
  <2> QED BY <2>1, <2>2, <2>3, <2>4
<1>2. CASE f = "trans_32x32" /\ M = 32 /\ N = 32
  <2>1. Up(M, 8) = 4 /\ Up(N, 8) = 4
    BY <1>2 DEF Up
  <2>2. Iterations(f, M, N) = 128
    BY <1>2, <2>1 DEF Iterations
  <2>3. i \div 8 \in 0 .. 3 /\ j \div 8 \in 0 .. 3 /\ i % 8 \in 0 .. 7
    BY <1>2
  <2>4. Turn(f, i, j) = 32 * (i \div 8) + 8 * (j \div 8) + (i % 8)
    BY <1>2 DEF Turn
  <2> QED BY <2>2, <2>3, <2>4
<1>3. CASE f = "trans_61x67" /\ M = 32 /\ N = 67
  <2>1. Up(M, 16) = 2 /\ Up(N, 16) = 5
    BY <1>3 DEF Up
  <2>2. Iterations(f, M, N) = 160
    BY <1>3, <2>1 DEF Iterations
  <2>3. i \div 16 \in 0 .. 4 /\ j \div 16 \in 0 .. 1 /\ i % 16 \in 0 .. 15
    BY <1>3
  <2>4. Turn(f, i, j) = 32 * (i \div 16) + 16 * (j \div 16) + (i % 16)
    BY <1>3, <2>1 DEF Turn
  <2> QED BY <2>2, <2>3, <2>4
<1>4. CASE f = "trans_61x67" /\ M = 61 /\ N = 67
  <2>1. Up(M, 16) = 4 /\ Up(N, 16) = 5
    BY <1>4 DEF Up
  <2>2. Iterations(f, M, N) = 320
    BY <1>4, <2>1 DEF Iterations
  <2>3. i \div 16 \in 0 .. 4 /\ j \div 16 \in 0 .. 3 /\ i % 16 \in 0 .. 15
    BY <1>4
  <2>4. Turn(f, i, j) = 64 * (i \div 16) + 16 * (j \div 16) + (i % 16)
    BY <1>4, <2>1 DEF Turn
  <2> QED BY <2>2, <2>3, <2>4
<1> QED BY <1>1, <1>2, <1>3, <1>4 DEF CopyFunction

-----------------------------------------------------------------------------
(* The bursts of trans_64x64: what becomes of B[r][c].                     *)
HalfDone(array, after, j, k, r, c) ==
    /\ r \in j .. j + 3 /\ c = k => after[Place(r, c)] = Entry(k, r)
    /\ r \in j .. j + 3 /\ c = k + 4 => after[Place(r, c)] = Entry(k, r + 4)
    /\ ~(r \in j .. j + 3 /\ c \in {k, k + 4}) => after[Place(r, c)] = array[Place(r, c)]
Exchanged(array, after, i, k, r, c) ==
    /\ r = k /\ c \in i + 4 .. i + 7 => after[Place(r, c)] = Entry(c, r)
    /\ r = k + 4 /\ c \in i .. i + 3 => after[Place(r, c)] = array[Place(k, c + 4)]
    /\ ~(\/ r = k /\ c \in i + 4 .. i + 7
         \/ r = k + 4 /\ c \in i .. i + 3) => after[Place(r, c)] = array[Place(r, c)]
RightDone(array, after, j, k, r, c) ==
    /\ r \in j + 4 .. j + 7 /\ c = k => after[Place(r, c)] = Entry(k, r)
    /\ ~(r \in j + 4 .. j + 7 /\ c = k) => after[Place(r, c)] = array[Place(r, c)]

LEMMA UpperHalfAt ==
    ASSUME Dims, NEW j \in Nat, NEW k \in 0 .. N - 5, NEW r \in Nat, NEW c \in 0 .. N - 1,
           NEW burst, burst = UpperHalf(M, N, j, k), NEW array, Place(r, c) \in DOMAIN array
    PROVE  burst \in Bursts /\ HalfDone(array, Execute(array, burst), j, k, r, c)
<1> DEFINE Row(n) == j + ((n - 1) % 4)
           Col(n) == IF n <= 4 THEN k ELSE k + 4
           x == burst.stores
<1>1. burst \in Bursts
  <2>1. j \in Int /\ k \in Int /\ M \in Int /\ N \in Int
    BY DEF Dims
  <2> QED BY <2>1, UpperHalfType
<1>2. /\ Len(x) = 8
      /\ \A n \in 1 .. 8 : /\ x[n] = Put(InB(N, Row(n), Col(n)), n)
                           /\ burst.loads[n] = InA(M, k, j + n - 1)
  BY DEF UpperHalf, Burst
<1>3. \A n \in 1 .. 8 : Row(n) \in Nat /\ Col(n) \in 0 .. N - 1
  BY DEF Dims
<1>4. \A n \in 1 .. 8 : (n <= 4 => Row(n) = j + n - 1) /\ (n > 4 => Row(n) = j + n - 5)
  <2>1. \A n \in 1 .. 8 : (n <= 4 => (n - 1) % 4 = n - 1) /\ (n > 4 => (n - 1) % 4 = n - 5)
    OBVIOUS
  <2> QED BY <2>1
<1>5. \A n \in 1 .. 8 : Col(n) = IF n <= 4 THEN k ELSE k + 4
  OBVIOUS
<1> HIDE DEF Row, Col
<1>6. ASSUME NEW n \in 1 .. 8
      PROVE  /\ x[n].cell.index = Place(Row(n), Col(n))
             /\ Value(array, burst.loads[x[n].reg]) = Entry(k, j + n - 1)
  <2>1. x[n].cell = InB(N, Row(n), Col(n)) /\ x[n].reg = n
    BY <1>2 DEF Put
  <2>2. InB(N, Row(n), Col(n)).index = Place(Row(n), Col(n))
    BY DEF InB, Cell, Place
  <2>3. Value(array, InA(M, k, j + n - 1)) = Entry(k, j + n - 1)
    BY DEF Value, InA, Cell, Entry
  <2> QED BY <1>2, <2>1, <2>2, <2>3
<1>7. \A n \in 1 .. 8 : x[n].cell.index = Place(r, c) => Row(n) = r /\ Col(n) = c
  <2> SUFFICES ASSUME NEW n \in 1 .. 8, Place(Row(n), Col(n)) = Place(r, c)
               PROVE  Row(n) = r /\ Col(n) = c
    BY <1>6
  <2>1. Row(n) \in Nat /\ Col(n) \in 0 .. N - 1
    BY <1>3
  <2> QED BY <2>1, PlacesApart
<1>8. ASSUME r \in j .. j + 3, c = k
      PROVE  Execute(array, burst)[Place(r, c)] = Entry(k, r)
  <2>1. Gives(array, burst, Place(r, c), Entry(k, r))
    <3> SUFFICES ASSUME NEW n \in 1 .. 8, x[n].cell.index = Place(r, c)
                 PROVE  Value(array, burst.loads[x[n].reg]) = Entry(k, r)
      BY <1>2 DEF Gives
    <3>1. j + n - 1 = r
      BY <1>4, <1>5, <1>7, <1>8
    <3> QED BY <1>6, <3>1
  <2>2. ~Spares(burst, Place(r, c))
    <3> DEFINE n == r - j + 1
    <3>1. n \in 1 .. 8 /\ n <= 4 /\ j + n - 1 = r
      BY <1>8
    <3> HIDE DEF n
    <3>2. x[n].cell.index = Place(r, c)
      BY <1>4, <1>5, <1>6, <1>8, <3>1
    <3> QED BY <1>2, <3>1, <3>2 DEF Spares
  <2> QED BY <1>1, <2>1, <2>2, ExecuteGives
<1>9. ASSUME r \in j .. j + 3, c = k + 4
      PROVE  Execute(array, burst)[Place(r, c)] = Entry(k, r + 4)
  <2>1. Gives(array, burst, Place(r, c), Entry(k, r + 4))
    <3> SUFFICES ASSUME NEW n \in 1 .. 8, x[n].cell.index = Place(r, c)
                 PROVE  Value(array, burst.loads[x[n].reg]) = Entry(k, r + 4)
      BY <1>2 DEF Gives
    <3>1. j + n - 1 = r + 4
      BY <1>4, <1>5, <1>7, <1>9
    <3> QED BY <1>6, <3>1
  <2>2. ~Spares(burst, Place(r, c))
    <3> DEFINE n == r - j + 5
    <3>1. n \in 1 .. 8 /\ n > 4 /\ j + n - 5 = r
      BY <1>9
    <3> HIDE DEF n
    <3>2. x[n].cell.index = Place(r, c)
      BY <1>4, <1>5, <1>6, <1>9, <3>1
    <3> QED BY <1>2, <3>1, <3>2 DEF Spares
  <2> QED BY <1>1, <2>1, <2>2, ExecuteGives
<1>10. ASSUME ~(r \in j .. j + 3 /\ c \in {k, k + 4})
       PROVE  Execute(array, burst)[Place(r, c)] = array[Place(r, c)]
  <2>1. ASSUME NEW n \in 1 .. 8 PROVE x[n].cell.index # Place(r, c)
    BY <1>4, <1>5, <1>7, <1>10
  <2>2. Spares(burst, Place(r, c))
    BY <1>2, <2>1 DEF Spares
  <2> QED BY <1>1, <2>2, ExecuteSpares
<1> DEFINE after == Execute(array, burst)
<1> HIDE DEF after
<1>11. HalfDone(array, after, j, k, r, c)
  BY <1>8, <1>9, <1>10 DEF HalfDone, after
<1> QED BY <1>1, <1>11 DEF after

LEMMA ExchangeAt ==
    ASSUME Dims, NEW i \in 0 .. N - 8, NEW k \in Nat, NEW r \in Nat, NEW c \in 0 .. N - 1,
           NEW burst, burst = Exchange(M, N, i, k), NEW array, Place(r, c) \in DOMAIN array
    PROVE  burst \in Bursts /\ Exchanged(array, Execute(array, burst), i, k, r, c)
<1> DEFINE Row(n) == IF n <= 4 THEN k ELSE k + 4
           Col(n) == IF n <= 4 THEN i + 3 + n ELSE i + n - 5
           Reg(n) == IF n <= 4 THEN n + 4 ELSE n - 4
           Loaded(n) == IF n <= 4 THEN InB(N, k, i + 3 + n) ELSE InA(M, i + n - 1, k)
           x == burst.stores
<1>1. burst \in Bursts
  <2>1. i \in Int /\ k \in Int /\ M \in Int /\ N \in Int
    BY DEF Dims
  <2> QED BY <2>1, ExchangeType
<1>2. /\ Len(x) = 8
      /\ \A n \in 1 .. 8 : /\ x[n] = Put(InB(N, Row(n), Col(n)), Reg(n))
                           /\ burst.loads[n] = Loaded(n)
  BY DEF Exchange, Burst
<1>3. \A n \in 1 .. 8 : Row(n) \in Nat /\ Col(n) \in 0 .. N - 1 /\ Reg(n) \in 1 .. 8
  BY DEF Dims
<1>4. \A n \in 1 .. 8 : /\ n <= 4 => Row(n) = k /\ Col(n) = i + 3 + n /\ Reg(n) = n + 4
                        /\ n > 4 => Row(n) = k + 4 /\ Col(n) = i + n - 5 /\ Reg(n) = n - 4
  OBVIOUS
<1>5. \A n \in 1 .. 8 : /\ n <= 4 => Loaded(n) = InB(N, k, i + 3 + n)
                        /\ n > 4 => Loaded(n) = InA(M, i + n - 1, k)
  OBVIOUS
<1> HIDE DEF Row, Col, Reg, Loaded
<1>6. ASSUME NEW n \in 1 .. 8
      PROVE  /\ x[n].cell.index = Place(Row(n), Col(n))
             /\ Value(array, burst.loads[x[n].reg]) = Value(array, Loaded(Reg(n)))
  <2>1. x[n].cell = InB(N, Row(n), Col(n)) /\ x[n].reg = Reg(n)
    BY <1>2 DEF Put
  <2>2. InB(N, Row(n), Col(n)).index = Place(Row(n), Col(n))
    BY DEF InB, Cell, Place
  <2>3. burst.loads[Reg(n)] = Loaded(Reg(n))
    BY <1>2, <1>3
  <2> QED BY <2>1, <2>2, <2>3
<1>7. \A n \in 1 .. 8 : x[n].cell.index = Place(r, c) => Row(n) = r /\ Col(n) = c
  <2> SUFFICES ASSUME NEW n \in 1 .. 8, Place(Row(n), Col(n)) = Place(r, c)
               PROVE  Row(n) = r /\ Col(n) = c
    BY <1>6
  <2>1. Row(n) \in Nat /\ Col(n) \in 0 .. N - 1
    BY <1>3
  <2> QED BY <2>1, PlacesApart
<1>8. ASSUME r = k, c \in i + 4 .. i + 7
      PROVE  Execute(array, burst)[Place(r, c)] = Entry(c, r)
  <2> DEFINE m == c - i - 3
  <2>1. m \in 1 .. 8 /\ m <= 4 /\ i + 3 + m = c /\ m + 4 \in 1 .. 8 /\ m + 4 > 4
        /\ i + (m + 4) - 1 = c
    BY <1>8
  <2> HIDE DEF m
  <2>2. Value(array, Loaded(m + 4)) = Entry(c, r)
    <3>1. Loaded(m + 4) = InA(M, c, k)
      BY <1>5, <2>1
    <3> QED BY <1>8, <3>1 DEF Value, InA, Cell, Entry
  <2>3. Gives(array, burst, Place(r, c), Entry(c, r))
    <3> SUFFICES ASSUME NEW n \in 1 .. 8, x[n].cell.index = Place(r, c)
                 PROVE  Value(array, burst.loads[x[n].reg]) = Entry(c, r)
      BY <1>2 DEF Gives
    <3>1. n = m /\ Reg(n) = m + 4
      BY <1>4, <1>7, <1>8, <2>1
    <3> QED BY <1>6, <2>2, <3>1
  <2>4. ~Spares(burst, Place(r, c))
    <3>1. x[m].cell.index = Place(r, c)
      BY <1>4, <1>6, <1>8, <2>1
    <3> QED BY <1>2, <2>1, <3>1 DEF Spares
  <2> QED BY <1>1, <2>3, <2>4, ExecuteGives
<1>9. ASSUME r = k + 4, c \in i .. i + 3
      PROVE  Execute(array, burst)[Place(r, c)] = array[Place(k, c + 4)]
  <2> DEFINE m == c - i + 5
  <2>1. m \in 1 .. 8 /\ m > 4 /\ i + m - 5 = c /\ m - 4 \in 1 .. 8 /\ m - 4 <= 4
        /\ i + 3 + (m - 4) = c + 4
    BY <1>9
  <2> HIDE DEF m
  <2> DEFINE v == array[Place(k, c + 4)]
  <2>2. Value(array, Loaded(m - 4)) = v
    <3>1. Loaded(m - 4) = InB(N, k, c + 4)
      BY <1>5, <2>1
    <3>2. InB(N, k, c + 4).array = "B" /\ InB(N, k, c + 4).index = Place(k, c + 4)
      BY DEF InB, Cell, Place
    <3> QED BY <3>1, <3>2 DEF Value
  <2> HIDE DEF v
  <2>3. Gives(array, burst, Place(r, c), v)
    <3> SUFFICES ASSUME NEW n \in 1 .. 8, x[n].cell.index = Place(r, c)
                 PROVE  Value(array, burst.loads[x[n].reg]) = v
      BY <1>2 DEF Gives
    <3>1. n = m /\ Reg(n) = m - 4
      BY <1>4, <1>7, <1>9, <2>1
    <3> QED BY <1>6, <2>2, <3>1
  <2>4. ~Spares(burst, Place(r, c))
    <3>1. x[m].cell.index = Place(r, c)
      BY <1>4, <1>6, <1>9, <2>1
    <3> QED BY <1>2, <2>1, <3>1 DEF Spares
  <2> QED BY <1>1, <2>3, <2>4, ExecuteGives DEF v
<1>10. ASSUME ~(\/ r = k /\ c \in i + 4 .. i + 7
                \/ r = k + 4 /\ c \in i .. i + 3)
       PROVE  Execute(array, burst)[Place(r, c)] = array[Place(r, c)]
  <2>1. ASSUME NEW n \in 1 .. 8 PROVE x[n].cell.index # Place(r, c)
    BY <1>4, <1>7, <1>10
  <2>2. Spares(burst, Place(r, c))
    BY <1>2, <2>1 DEF Spares
  <2> QED BY <1>1, <2>2, ExecuteSpares
<1> DEFINE after == Execute(array, burst)
<1> HIDE DEF after
<1>11. Exchanged(array, after, i, k, r, c)
  BY <1>8, <1>9, <1>10 DEF Exchanged, after
<1> QED BY <1>1, <1>11 DEF after

LEMMA LowerRightAt ==
    ASSUME Dims, NEW j \in Nat, NEW k \in 0 .. N - 1, NEW r \in Nat, NEW c \in 0 .. N - 1,
           NEW burst, burst = LowerRight(M, N, j, k), NEW array, Place(r, c) \in DOMAIN array
    PROVE  burst \in Bursts /\ RightDone(array, Execute(array, burst), j, k, r, c)
<1> DEFINE x == burst.stores
<1>1. burst \in Bursts
  <2>1. j \in Int /\ k \in Int /\ M \in Int /\ N \in Int
    BY DEF Dims
  <2> QED BY <2>1, LowerRightType
<1>2. /\ Len(x) = 4
      /\ \A n \in 1 .. 4 : /\ x[n] = Put(InB(N, j + 3 + n, k), n)
                           /\ burst.loads[n] = InA(M, k, j + 3 + n)
  BY DEF LowerRight, Burst
<1>3. ASSUME NEW n \in 1 .. 4
      PROVE  /\ x[n].cell.index = Place(j + 3 + n, k)
             /\ Value(array, burst.loads[x[n].reg]) = Entry(k, j + 3 + n)
  <2>1. x[n].cell = InB(N, j + 3 + n, k) /\ x[n].reg = n
    BY <1>2 DEF Put
  <2>2. InB(N, j + 3 + n, k).index = Place(j + 3 + n, k)
    BY DEF InB, Cell, Place
  <2>3. Value(array, InA(M, k, j + 3 + n)) = Entry(k, j + 3 + n)
    BY DEF Value, InA, Cell, Entry
  <2> QED BY <1>2, <2>1, <2>2, <2>3
<1>4. \A n \in 1 .. 4 : x[n].cell.index = Place(r, c) => j + 3 + n = r /\ k = c
  <2> SUFFICES ASSUME NEW n \in 1 .. 4, Place(j + 3 + n, k) = Place(r, c)
               PROVE  j + 3 + n = r /\ k = c
    BY <1>3
  <2> DEFINE y == j + 3 + n
  <2>1. y \in Nat /\ Place(y, k) = Place(r, c)
    OBVIOUS
  <2> HIDE DEF y
  <2>2. y = r /\ k = c
    BY <2>1, PlacesApart
  <2> QED BY <2>2 DEF y
<1>5. ASSUME r \in j + 4 .. j + 7, c = k
      PROVE  Execute(array, burst)[Place(r, c)] = Entry(k, r)
  <2>1. Gives(array, burst, Place(r, c), Entry(k, r))
    <3> SUFFICES ASSUME NEW n \in 1 .. 4, x[n].cell.index = Place(r, c)
                 PROVE  Value(array, burst.loads[x[n].reg]) = Entry(k, r)
      BY <1>2 DEF Gives
    <3>1. j + 3 + n = r
      BY <1>4
    <3> QED BY <1>3, <3>1
  <2>2. ~Spares(burst, Place(r, c))
    <3> DEFINE n == r - j - 3
    <3>1. n \in 1 .. 4 /\ j + 3 + n = r
      BY <1>5
    <3> HIDE DEF n
    <3>2. x[n].cell.index = Place(r, c)
      BY <1>3, <1>5, <3>1
    <3> QED BY <1>2, <3>1, <3>2 DEF Spares
  <2> QED BY <1>1, <2>1, <2>2, ExecuteGives
<1>6. ASSUME ~(r \in j + 4 .. j + 7 /\ c = k)
      PROVE  Execute(array, burst)[Place(r, c)] = array[Place(r, c)]
  <2>1. ASSUME NEW n \in 1 .. 4 PROVE x[n].cell.index # Place(r, c)
    <3>1. x[n].cell.index = Place(r, c) => j + 3 + n = r /\ k = c
      BY <1>4
    <3>2. j + 3 + n \in j + 4 .. j + 7
      OBVIOUS
    <3> QED BY <1>6, <3>1, <3>2
  <2>2. Spares(burst, Place(r, c))
    BY <1>2, <2>1 DEF Spares
  <2> QED BY <1>1, <2>2, ExecuteSpares
<1> DEFINE after == Execute(array, burst)
<1> HIDE DEF after
<1>7. RightDone(array, after, j, k, r, c)
  BY <1>5, <1>6 DEF RightDone, after
<1> QED BY <1>1, <1>7 DEF after

(* How far trans_64x64 is with B[r][c]: the iterations of its block that   *)
(* have been made, the one that puts the element in its place, and whether *)
(* another one is parked there until then.                                 *)
Age(k, r, c) == k - 12 * (8 * (c \div 8) + (r \div 8))
Final(r, c) == IF r < 4 THEN IF c < 4 THEN c ELSE r + 4
                        ELSE IF c < 4 THEN r ELSE c + 4
Placed(k, r, c) == Age(k, r, c) > Final(r % 8, c % 8)
Parked(k, r, c) == r % 8 < 4 /\ c % 8 >= 4 /\ ~Placed(k, r, c) /\ Age(k, r, c) > (c % 8) - 4

Staged(array, k, r, c) ==
    Place(r, c) \in DOMAIN array =>
        /\ Placed(k, r, c) => array[Place(r, c)] = Entry(c, r)
        /\ Parked(k, r, c) => array[Place(r, c)] = Entry(c - 4, r + 4)
        /\ ~Placed(k, r, c) /\ ~Parked(k, r, c) => array[Place(r, c)] = InitialB[Place(r, c)]
AllStaged(array, k) == \A r \in 0 .. 63, c \in 0 .. 63 : Staged(array, k, r, c)

Unmoved(k, r, c) ==
    /\ Placed(k + 1, r, c) <=> Placed(k, r, c)
    /\ Parked(k + 1, r, c) <=> Parked(k, r, c)

LEMMA AgeType ==
    ASSUME NEW k \in Nat, NEW r \in 0 .. 63, NEW c \in 0 .. 63
    PROVE  /\ Age(k, r, c) \in Int /\ Age(k + 1, r, c) = Age(k, r, c) + 1
           /\ r % 8 \in 0 .. 7 /\ c % 8 \in 0 .. 7 /\ Final(r % 8, c % 8) \in 0 .. 11
<1>1. r \div 8 \in 0 .. 7 /\ c \div 8 \in 0 .. 7 /\ r % 8 \in 0 .. 7 /\ c % 8 \in 0 .. 7
  OBVIOUS
<1> DEFINE x == r \div 8
           y == c \div 8
           u == r % 8
           v == c % 8
<1>2. Age(k, r, c) = k - 12 * (8 * y + x) /\ Age(k + 1, r, c) = (k + 1) - 12 * (8 * y + x)
  BY DEF Age
<1>3. x \in 0 .. 7 /\ y \in 0 .. 7 /\ u \in 0 .. 7 /\ v \in 0 .. 7
  BY <1>1
<1> HIDE DEF x, y, u, v
<1>4. Final(u, v) \in 0 .. 11
  BY <1>3 DEF Final
<1> QED BY <1>1, <1>2, <1>3, <1>4 DEF u, v

(* The block at A[i][j] and B[j][i] is the next, for the p-th time.  Only  *)
(* that block moves.                                                       *)
BlockNext(k, i, j, p) == i = 8 * (k \div 96) /\ j = 8 * ((k \div 12) % 8) /\ p = k % 12
InBlock(i, j, r, c) == r \in j .. j + 7 /\ c \in i .. i + 7
BlockAges(k, i, j, p, r, c) ==
    /\ i \in 0 .. 56 /\ j \in 0 .. 56 /\ p \in 0 .. 11
    /\ InBlock(i, j, r, c) => Age(k, r, c) = p /\ r % 8 = r - j /\ c % 8 = c - i
    /\ ~InBlock(i, j, r, c) => Unmoved(k, r, c)

LEMMA BlockAge ==
    ASSUME NEW k \in 0 .. 767, NEW r \in 0 .. 63, NEW c \in 0 .. 63,
           NEW i, NEW j, NEW p, BlockNext(k, i, j, p)
    PROVE  BlockAges(k, i, j, p, r, c)
<1> DEFINE x == r \div 8
           y == c \div 8
           bi == k \div 96
           bj == (k \div 12) % 8
<1>1. bi \in 0 .. 7 /\ bj \in 0 .. 7 /\ p \in 0 .. 11 /\ i = 8 * bi /\ j = 8 * bj
  BY DEF BlockNext
<1>2. k = 96 * bi + 12 * bj + p
  BY DEF BlockNext
<1>3. /\ x \in 0 .. 7 /\ r % 8 \in 0 .. 7 /\ r = 8 * x + (r % 8)
      /\ y \in 0 .. 7 /\ c % 8 \in 0 .. 7 /\ c = 8 * y + (c % 8)
  OBVIOUS
<1>4. Age(k, r, c) = k - 12 * (8 * y + x)
  BY DEF Age
<1>5. k \in Nat
  OBVIOUS
<1>6. /\ Age(k, r, c) \in Int /\ Age(k + 1, r, c) = Age(k, r, c) + 1
      /\ Final(r % 8, c % 8) \in 0 .. 11
  BY <1>5, AgeType, Zenon
<1> DEFINE u == r % 8
           v == c % 8
           a == Age(k, r, c)
           f == Final(u, v)
<1> HIDE DEF x, y, bi, bj, u, v, a, f
<1>7. ASSUME r \in j .. j + 7, c \in i .. i + 7
      PROVE  a = p /\ u = r - j /\ v = c - i
  <2>1. x = bj /\ y = bi
    BY <1>1, <1>3, <1>7 DEF u, v
  <2> QED BY <1>1, <1>2, <1>3, <1>4, <2>1 DEF u, v, a
<1>8. ASSUME ~(r \in j .. j + 7 /\ c \in i .. i + 7)
      PROVE  a < 0 \/ a >= 12
  <2>1. x # bj \/ y # bi
    BY <1>1, <1>3, <1>8 DEF u, v
  <2>2. 8 * y + x < 8 * bi + bj \/ 8 * y + x > 8 * bi + bj
    BY <1>1, <1>3, <2>1
  <2>3. a = 12 * ((8 * bi + bj) - (8 * y + x)) + p
    BY <1>1, <1>2, <1>3, <1>4 DEF a
  <2> QED BY <1>1, <1>3, <2>2, <2>3
<1>9. ASSUME a < 0 \/ a >= 12 PROVE Unmoved(k, r, c)
  <2>1. Placed(k, r, c) <=> a > f
    BY DEF Placed, a, f, u, v
  <2>2. Placed(k + 1, r, c) <=> a + 1 > f
    BY <1>6 DEF Placed, a, f, u, v
  <2>3. Parked(k, r, c) <=> u < 4 /\ v >= 4 /\ ~(a > f) /\ a > v - 4
    BY <2>1 DEF Parked, a, u, v
  <2>4. Parked(k + 1, r, c) <=> u < 4 /\ v >= 4 /\ ~(a + 1 > f) /\ a + 1 > v - 4
    BY <1>6, <2>2 DEF Parked, a, u, v
  <2>5. a \in Int /\ f \in 0 .. 11 /\ u \in 0 .. 7 /\ v \in 0 .. 7
    BY <1>3, <1>6 DEF a, f, u, v
  <2> QED BY <1>9, <2>1, <2>2, <2>3, <2>4, <2>5 DEF Unmoved
<1>10. i \in 0 .. 56 /\ j \in 0 .. 56
  BY <1>1
<1> QED BY <1>1, <1>7, <1>8, <1>9, <1>10 DEF BlockAges, InBlock, a, u, v

(* Inside of it, by the number of the iteration.                           *)
BlockMove(k, r, c, p, u, v) ==
    /\ p < 4 => /\ u < 4 /\ v = p => Placed(k + 1, r, c)
                /\ u < 4 /\ v = p + 4 => ~Placed(k + 1, r, c) /\ Parked(k + 1, r, c)
                /\ ~(u < 4 /\ v \in {p, p + 4}) => Unmoved(k, r, c)
    /\ p \in 4 .. 7 => /\ u = p - 4 /\ v >= 4 => Placed(k + 1, r, c) /\ ~Placed(k, r, c)
                                                  /\ Parked(k, r, c)
                       /\ u = p /\ v < 4 => Placed(k + 1, r, c)
                       /\ ~((u = p - 4 /\ v >= 4) \/ (u = p /\ v < 4)) => Unmoved(k, r, c)
    /\ p >= 8 => /\ u >= 4 /\ v = p - 4 => Placed(k + 1, r, c)
                 /\ ~(u >= 4 /\ v = p - 4) => Unmoved(k, r, c)

LEMMA BlockMoves ==
    ASSUME NEW k \in Nat, NEW r \in 0 .. 63, NEW c \in 0 .. 63, NEW p \in 0 .. 11,
           NEW u, NEW v, Age(k, r, c) = p, u = r % 8, v = c % 8
    PROVE  BlockMove(k, r, c, p, u, v)
<1> DEFINE f == Final(u, v)
<1>1. Age(k + 1, r, c) = p + 1 /\ u \in 0 .. 7 /\ v \in 0 .. 7
  BY AgeType, Zenon
<1>2. f = IF u < 4 THEN IF v < 4 THEN v ELSE u + 4 ELSE IF v < 4 THEN u ELSE v + 4
  BY DEF Final
<1>3. Placed(k, r, c) <=> p > f
  BY DEF Placed
<1>4. Placed(k + 1, r, c) <=> p + 1 > f
  BY <1>1 DEF Placed
<1>5. Parked(k, r, c) <=> u < 4 /\ v >= 4 /\ ~(p > f) /\ p > v - 4
  BY <1>3 DEF Parked
<1>6. Parked(k + 1, r, c) <=> u < 4 /\ v >= 4 /\ ~(p + 1 > f) /\ p + 1 > v - 4
  BY <1>1, <1>4 DEF Parked
<1> HIDE DEF f
<1>7. CASE p < 4
  <2>1. u < 4 /\ v = p => p + 1 > f
    BY <1>1, <1>2, <1>7
  <2>2. u < 4 /\ v = p + 4 => ~(p + 1 > f) /\ p + 1 > v - 4
    BY <1>1, <1>2, <1>7
  <2>3. ~(u < 4 /\ v \in {p, p + 4}) => Unmoved(k, r, c)
    BY <1>1, <1>2, <1>3, <1>4, <1>5, <1>6, <1>7 DEF Unmoved
  <2> QED BY <1>1, <1>4, <1>6, <1>7, <2>1, <2>2, <2>3 DEF BlockMove
<1>8. CASE p \in 4 .. 7
  <2>1. u = p - 4 /\ v >= 4 => p + 1 > f /\ ~(p > f) /\ p > v - 4 /\ u < 4
    BY <1>1, <1>2, <1>8
  <2>2. u = p /\ v < 4 => p + 1 > f
    BY <1>1, <1>2, <1>8
  <2>3. ~((u = p - 4 /\ v >= 4) \/ (u = p /\ v < 4)) => Unmoved(k, r, c)
    BY <1>1, <1>2, <1>3, <1>4, <1>5, <1>6, <1>8 DEF Unmoved
  <2> QED BY <1>1, <1>3, <1>4, <1>5, <1>8, <2>1, <2>2, <2>3 DEF BlockMove
<1>9. CASE p >= 8
  <2>1. u >= 4 /\ v = p - 4 => p + 1 > f
    BY <1>1, <1>2, <1>9
  <2>2. ~(u >= 4 /\ v = p - 4) => Unmoved(k, r, c)
    BY <1>1, <1>2, <1>3, <1>4, <1>5, <1>6, <1>9 DEF Unmoved
  <2> QED BY <1>1, <1>4, <1>9, <2>1, <2>2 DEF BlockMove
<1> QED BY <1>7, <1>8, <1>9

(* An element that an iteration leaves alone stays as far as it was.       *)
LEMMA StagedStays ==
    ASSUME NEW array, NEW after, NEW k, NEW r, NEW c, Staged(array, k, r, c), Unmoved(k, r, c),
           DOMAIN after = DOMAIN array, after[Place(r, c)] = array[Place(r, c)]
    PROVE  Staged(after, k + 1, r, c)
BY DEF Staged, Unmoved

LEMMA StagedPlaced ==
    ASSUME NEW array, NEW k, NEW r, NEW c, Placed(k, r, c), array[Place(r, c)] = Entry(c, r)
    PROVE  Staged(array, k, r, c)
BY DEF Staged, Parked

LEMMA StagedParked ==
    ASSUME NEW array, NEW k, NEW r, NEW c, ~Placed(k, r, c), Parked(k, r, c),
           array[Place(r, c)] = Entry(c - 4, r + 4)
    PROVE  Staged(array, k, r, c)
BY DEF Staged

LEMMA StagedStep ==
    ASSUME Dims, N = 64, NEW array, DOMAIN array = 0 .. Reach, NEW k \in 0 .. 767,
           AllStaged(array, k)
    PROVE  AllStaged(ExecuteAll(array, Iteration("trans_64x64", M, N, k)), k + 1)
<1> DEFINE i == 8 * (k \div 96)
           j == 8 * ((k \div 12) % 8)
           p == k % 12
           burst == IF p < 4 THEN UpperHalf(M, N, j, i + p)
                    ELSE IF p \in 4 .. 7 THEN Exchange(M, N, i, j + p - 4)
                    ELSE LowerRight(M, N, j, i + p - 4)
           after == Execute(array, burst)
<1>1. ExecuteAll(array, Iteration("trans_64x64", M, N, k)) = after
  <2>1. Iteration("trans_64x64", M, N, k) = <<burst>>
    BY DEF Iteration, trans_64x64
  <2> HIDE DEF burst
  <2> QED BY <2>1, OneBurst
<1>2. BlockNext(k, i, j, p)
  BY DEF BlockNext
<1> HIDE DEF i, j, p, burst, after
<1>3. ASSUME NEW r \in 0 .. 63, NEW c \in 0 .. 63
      PROVE  Staged(after, k + 1, r, c)
  <2>1. BlockAges(k, i, j, p, r, c)
    BY <1>2, BlockAge, ZenonT(40)
  <2>2. i \in 0 .. 56 /\ j \in 0 .. 56 /\ p \in 0 .. 11
    BY <2>1 DEF BlockAges
  <2>3. Staged(array, k, r, c)
    BY Zenon DEF AllStaged
  <2>4. k \in Nat /\ r \in Nat /\ c \in 0 .. N - 1 /\ Reach \in Nat
    BY TransAssumption
  <2>5. burst \in Bursts
    <3>1. M \in Int /\ N \in Int /\ j \in Int /\ i \in Int /\ i + p \in Int /\ j + p - 4 \in Int
          /\ i + p - 4 \in Int
      BY <2>2 DEF Dims
    <3> QED BY <3>1, UpperHalfType, ExchangeType, LowerRightType DEF burst
  <2>6. DOMAIN after = DOMAIN array
    BY <2>5, ExecuteDomain DEF after
  <2>7. CASE Place(r, c) \notin DOMAIN array
    BY <2>6, <2>7 DEF Staged
  <2> DEFINE u == r - j
             v == c - i
  <2>8. InBlock(i, j, r, c) => BlockMove(k, r, c, p, u, v)
    <3> SUFFICES ASSUME InBlock(i, j, r, c) PROVE BlockMove(k, r, c, p, u, v)
      OBVIOUS
    <3>1. Age(k, r, c) = p /\ u = r % 8 /\ v = c % 8
      BY <2>1 DEF BlockAges
    <3> HIDE DEF u, v
    <3> QED BY <2>2, <2>4, <3>1, BlockMoves, Zenon
  <2>9. ~InBlock(i, j, r, c) => Unmoved(k, r, c)
    BY <2>1 DEF BlockAges
  <2> DEFINE Stays == Unmoved(k, r, c) /\ after[Place(r, c)] = array[Place(r, c)]
             Arrives == Placed(k + 1, r, c) /\ after[Place(r, c)] = Entry(c, r)
             Waits == /\ ~Placed(k + 1, r, c) /\ Parked(k + 1, r, c)
                      /\ after[Place(r, c)] = Entry(c - 4, r + 4)
  <2>10. Stays \/ Arrives \/ Waits => Staged(after, k + 1, r, c)
    BY <2>3, <2>6, StagedStays, StagedPlaced, StagedParked
  <2> SUFFICES ASSUME Place(r, c) \in DOMAIN array PROVE Stays \/ Arrives \/ Waits
    BY <2>7, <2>10
  <2>11. CASE p < 4
    <3> DEFINE l == i + p
    <3>1. burst = UpperHalf(M, N, j, l) /\ l \in 0 .. N - 5 /\ j \in Nat
      BY <2>2, <2>11 DEF burst
    <3>2. \/ r \in j .. j + 3 /\ c = l /\ u < 4 /\ v = p /\ InBlock(i, j, r, c)
          \/ r \in j .. j + 3 /\ c = l + 4 /\ c - 4 = l /\ u < 4 /\ v = p + 4 /\ InBlock(i, j, r, c)
          \/ /\ ~(r \in j .. j + 3 /\ c \in {l, l + 4})
             /\ InBlock(i, j, r, c) => ~(u < 4 /\ v \in {p, p + 4})
      BY <2>2, <2>4, <2>11 DEF InBlock
    <3> HIDE DEF l, u, v
    <3>3. HalfDone(array, after, j, l, r, c)
      BY <2>4, <3>1, UpperHalfAt DEF after
    <3>4. InBlock(i, j, r, c) =>
              /\ u < 4 /\ v = p => Placed(k + 1, r, c)
              /\ u < 4 /\ v = p + 4 => ~Placed(k + 1, r, c) /\ Parked(k + 1, r, c)
              /\ ~(u < 4 /\ v \in {p, p + 4}) => Unmoved(k, r, c)
      BY <2>8, <2>11 DEF BlockMove
    <3>5. CASE r \in j .. j + 3 /\ c = l /\ u < 4 /\ v = p /\ InBlock(i, j, r, c)
      BY <3>3, <3>4, <3>5 DEF HalfDone
    <3>6. CASE /\ r \in j .. j + 3 /\ c = l + 4 /\ c - 4 = l /\ u < 4 /\ v = p + 4
               /\ InBlock(i, j, r, c)
      BY <3>3, <3>4, <3>6 DEF HalfDone
    <3>7. CASE /\ ~(r \in j .. j + 3 /\ c \in {l, l + 4})
               /\ InBlock(i, j, r, c) => ~(u < 4 /\ v \in {p, p + 4})
      BY <2>9, <3>3, <3>4, <3>7 DEF HalfDone
    <3> QED BY <3>2, <3>5, <3>6, <3>7
  <2>12. CASE p \in 4 .. 7
    <3> DEFINE l == j + p - 4
    <3>1. burst = Exchange(M, N, i, l) /\ i \in 0 .. N - 8 /\ l \in Nat
      BY <2>2, <2>12 DEF burst
    <3>2. \/ r = l /\ c \in i + 4 .. i + 7 /\ u = p - 4 /\ v >= 4 /\ InBlock(i, j, r, c)
          \/ r = l + 4 /\ c \in i .. i + 3 /\ u = p /\ v < 4 /\ InBlock(i, j, r, c)
          \/ /\ ~(\/ r = l /\ c \in i + 4 .. i + 7
                  \/ r = l + 4 /\ c \in i .. i + 3)
             /\ InBlock(i, j, r, c) => ~((u = p - 4 /\ v >= 4) \/ (u = p /\ v < 4))
      BY <2>2, <2>4, <2>12 DEF InBlock
    <3> HIDE DEF l, u, v
    <3>3. Exchanged(array, after, i, l, r, c)
      BY <2>4, <3>1, ExchangeAt DEF after
    <3>4. InBlock(i, j, r, c) =>
              /\ u = p - 4 /\ v >= 4 => Placed(k + 1, r, c)
              /\ u = p /\ v < 4 => Placed(k + 1, r, c)
              /\ ~((u = p - 4 /\ v >= 4) \/ (u = p /\ v < 4)) => Unmoved(k, r, c)
      BY <2>8, <2>12 DEF BlockMove
    <3>5. CASE r = l /\ c \in i + 4 .. i + 7 /\ u = p - 4 /\ v >= 4 /\ InBlock(i, j, r, c)
      BY <3>3, <3>4, <3>5 DEF Exchanged
    <3>6. CASE r = l + 4 /\ c \in i .. i + 3 /\ u = p /\ v < 4 /\ InBlock(i, j, r, c)
      <4>1. Placed(k + 1, r, c) /\ after[Place(r, c)] = array[Place(l, c + 4)]
        BY <3>3, <3>4, <3>6 DEF Exchanged
      <4> DEFINE d == c + 4
                 x == l - j
                 y == d - i
      <4>2. /\ l \in 0 .. 63 /\ d \in 0 .. 63 /\ InBlock(i, j, l, d)
            /\ x = p - 4 /\ y >= 4 /\ d - 4 = c /\ l + 4 = r
        BY <2>2, <2>12, <3>6 DEF l, InBlock
      <4>3. Place(l, d) \in DOMAIN array
        <5>1. Place(r, c) = r * 64 + c /\ Place(l, d) = l * 64 + d
          BY DEF Place
        <5>2. Place(r, c) \in 0 .. Reach
          OBVIOUS
        <5>3. l * 64 + d \in 0 .. Reach
          BY <2>4, <4>2, <5>1, <5>2
        <5> QED BY <5>1, <5>3
      <4> HIDE DEF d
      <4>4. ~Placed(k, l, d) /\ Parked(k, l, d)
        <5>1. BlockAges(k, i, j, p, l, d)
          BY <1>2, <4>2, BlockAge, ZenonT(40)
        <5>2. Age(k, l, d) = p /\ x = l % 8 /\ y = d % 8
          BY <4>2, <5>1 DEF BlockAges
        <5> HIDE DEF x, y
        <5>3. BlockMove(k, l, d, p, x, y)
          BY <2>2, <2>4, <4>2, <5>2, BlockMoves, Zenon
        <5> QED BY <2>12, <4>2, <5>3 DEF BlockMove
      <4>5. array[Place(l, d)] = Entry(d - 4, l + 4)
        <5>1. Staged(array, k, l, d)
          BY <4>2, Zenon DEF AllStaged
        <5> QED BY <4>3, <4>4, <5>1 DEF Staged
      <4>6. after[Place(r, c)] = Entry(c, r)
        <5>1. d - 4 = c /\ l + 4 = r
          BY <4>2
        <5> QED BY <4>1, <4>5, <5>1 DEF d
      <4> QED BY <4>1, <4>6
    <3>7. CASE /\ ~(\/ r = l /\ c \in i + 4 .. i + 7
                    \/ r = l + 4 /\ c \in i .. i + 3)
               /\ InBlock(i, j, r, c) => ~((u = p - 4 /\ v >= 4) \/ (u = p /\ v < 4))
      BY <2>9, <3>3, <3>4, <3>7 DEF Exchanged
    <3> QED BY <3>2, <3>5, <3>6, <3>7
  <2>13. CASE p >= 8
    <3> DEFINE l == i + p - 4
    <3>1. burst = LowerRight(M, N, j, l) /\ l \in 0 .. N - 1 /\ j \in Nat
      BY <2>2, <2>13 DEF burst
    <3>2. \/ r \in j + 4 .. j + 7 /\ c = l /\ u >= 4 /\ v = p - 4 /\ InBlock(i, j, r, c)
          \/ /\ ~(r \in j + 4 .. j + 7 /\ c = l)
             /\ InBlock(i, j, r, c) => ~(u >= 4 /\ v = p - 4)
      BY <2>2, <2>4, <2>13 DEF InBlock
    <3> HIDE DEF l, u, v
    <3>3. RightDone(array, after, j, l, r, c)
      BY <2>4, <3>1, LowerRightAt DEF after
    <3>4. InBlock(i, j, r, c) =>
              /\ u >= 4 /\ v = p - 4 => Placed(k + 1, r, c)
              /\ ~(u >= 4 /\ v = p - 4) => Unmoved(k, r, c)
      BY <2>8, <2>13 DEF BlockMove
    <3>5. CASE r \in j + 4 .. j + 7 /\ c = l /\ u >= 4 /\ v = p - 4 /\ InBlock(i, j, r, c)
      BY <3>3, <3>4, <3>5 DEF RightDone
    <3>6. CASE /\ ~(r \in j + 4 .. j + 7 /\ c = l)
               /\ InBlock(i, j, r, c) => ~(u >= 4 /\ v = p - 4)
      BY <2>9, <3>3, <3>4, <3>6 DEF RightDone
    <3> QED BY <3>2, <3>5, <3>6
  <2> QED BY <2>2, <2>11, <2>12, <2>13
<1> QED BY <1>1, <1>3, Zenon DEF AllStaged

-----------------------------------------------------------------------------
(* The cells that the submission gets to for the graded sizes.             *)
Fits(cell) == cell.index \in 0 .. M * N - 1
BurstFits(burst) ==
    /\ burst \in Bursts
    /\ \A k \in DOMAIN burst.loads : Fits(burst.loads[k])
    /\ \A k \in DOMAIN burst.stores : Fits(burst.stores[k].cell)

InsideLine(line) ==
    \A array \in {"A", "B"} :
        LET offset == line.address - Address(array)
        IN offset \in 0 .. 4 * MAXN * MAXN - 1 => offset < 4 * M * N
InsideLines == {line \in LineSet : InsideLine(line)}

LEMMA GradedSizes ==
    ASSUME Graded
    PROVE  (M = 32 /\ N = 32) \/ (M = 64 /\ N = 64) \/ (M = 61 /\ N = 67)
BY DEF Graded

LEMMA AccessInside ==
    ASSUME Graded, NEW c \in Cells, Fits(c), NEW op \in {"L", "S"}
    PROVE  Access(op, c) \in InsideLines
<1> DEFINE x == c.index
           y == Access(op, c).address
           size == M * N
           at == Address("A")
           bt == Address("B")
           reach == 4 * MAXN * MAXN
<1>1. c.array \in {"A", "B"} /\ x \in Int /\ Access(op, c) \in LineSet
  BY AccessType DEF Cells
<1>2. y = Address(c.array) + 4 * x
  BY DEF Access, Line
<1>3. size \in Nat /\ 4 * size <= reach /\ 4 * M * N = 4 * size
  <2>1. CASE M = 32 /\ N = 32
    BY <2>1, SMT DEF MAXN
  <2>2. CASE M = 64 /\ N = 64
    BY <2>2, SMT DEF MAXN
  <2>3. CASE M = 61 /\ N = 67
    BY <2>3, SMT DEF MAXN
  <2> QED BY <2>1, <2>2, <2>3, GradedSizes
<1>4. x \in 0 .. size - 1
  BY DEF Fits
<1>5. at \in Int /\ bt = at + reach /\ reach \in Nat
  BY SMT DEF Address, MAXN
<1> HIDE DEF x, y, size, at, bt, reach
<1>6. y = at + 4 * x \/ y = bt + 4 * x
  BY <1>1, <1>2 DEF at, bt
<1>7. y - at \in 0 .. reach - 1 => y - at < 4 * size
  BY <1>3, <1>4, <1>5, <1>6, SMT
<1>8. y - bt \in 0 .. reach - 1 => y - bt < 4 * size
  BY <1>3, <1>4, <1>5, <1>6, SMT
<1>9. InsideLine(Access(op, c))
  <2> SUFFICES ASSUME NEW array \in {"A", "B"}
               PROVE  y - Address(array) \in 0 .. reach - 1 => y - Address(array) < 4 * M * N
    BY DEF InsideLine, y, reach
  <2>1. Address(array) = at \/ Address(array) = bt
    BY DEF at, bt
  <2> DEFINE z == Address(array)
             bound == 4 * M * N
  <2>2. z = at \/ z = bt
    BY <2>1
  <2>3. bound = 4 * size
    BY <1>3
  <2> HIDE DEF z, bound
  <2>4. y - z \in 0 .. reach - 1 => y - z < bound
    BY <1>7, <1>8, <2>2, <2>3
  <2> QED BY <2>4 DEF z, bound
<1> QED BY <1>1, <1>9 DEF InsideLines

LEMMA TracedInside ==
    ASSUME Graded, NEW burst, BurstFits(burst)
    PROVE  Traced(burst) \in Seq(InsideLines)
<1> DEFINE x == [k \in DOMAIN burst.loads |-> Access("L", burst.loads[k])]
           y == [k \in DOMAIN burst.stores |-> Access("S", burst.stores[k].cell)]
<1>1. burst.loads \in Seq(Cells) /\ burst.stores \in Seq(Stores)
  BY DEF Bursts, BurstFits
<1>2. \A k \in DOMAIN burst.loads : Access("L", burst.loads[k]) \in InsideLines
  <2> SUFFICES ASSUME NEW k \in DOMAIN burst.loads
               PROVE  Access("L", burst.loads[k]) \in InsideLines
    OBVIOUS
  <2>1. burst.loads[k] \in Cells /\ Fits(burst.loads[k])
    BY <1>1 DEF BurstFits
  <2> QED BY <2>1, AccessInside
<1>3. \A k \in DOMAIN burst.stores : Access("S", burst.stores[k].cell) \in InsideLines
  <2> SUFFICES ASSUME NEW k \in DOMAIN burst.stores
               PROVE  Access("S", burst.stores[k].cell) \in InsideLines
    OBVIOUS
  <2>1. burst.stores[k] \in Stores /\ Fits(burst.stores[k].cell)
    BY <1>1 DEF BurstFits
  <2>2. burst.stores[k].cell \in Cells
    BY <2>1 DEF Stores
  <2> QED BY <2>1, <2>2, AccessInside
<1>4. x \in Seq(InsideLines)
  BY <1>1, <1>2
<1>5. y \in Seq(InsideLines)
  BY <1>1, <1>3
<1> HIDE DEF x, y
<1>6. x \o y \in Seq(InsideLines)
  BY <1>4, <1>5
<1> QED BY <1>6 DEF Traced, x, y

LEMMA TracedAllInside ==
    ASSUME Graded, NEW bursts \in Seq(Bursts), \A k \in DOMAIN bursts : BurstFits(bursts[k])
    PROVE  TracedAll(bursts) \in Seq(InsideLines)
<1> DEFINE seqs == [k \in DOMAIN bursts |-> Traced(bursts[k])]
<1>1. \A k \in DOMAIN bursts : Traced(bursts[k]) \in Seq(InsideLines)
  BY TracedInside
<1>2. seqs \in Seq(Seq(InsideLines))
  BY <1>1
<1> HIDE DEF seqs
<1>3. PICK g : Flattened(g, seqs, Len(seqs))
  <2>1. Len(seqs) \in Nat
    BY <1>2
  <2> QED BY <2>1, FlattensExist
<1>4. FlattenSeq(seqs) = g[Len(seqs)] /\ \A k \in 0 .. Len(seqs) : g[k] \in Seq(InsideLines)
  BY <1>2, <1>3, FlattenValue
<1>5. Len(seqs) \in 0 .. Len(seqs)
  BY <1>2
<1> QED BY <1>4, <1>5 DEF TracedAll, seqs

LEMMA CopyFits ==
    ASSUME Graded, NEW burst, Copying(burst)
    PROVE  BurstFits(burst)
<1>1. Dims
  BY GradedSizes DEF Dims
<1>2. PICK i \in 0 .. N - 1, j \in 0 .. M - 1 : IsCopy(burst, i, j)
  BY DEF Copying
<1>3. i \in Int /\ j \in Int
  BY <1>1 DEF Dims
<1>4. burst \in Bursts /\ Len(burst.stores) = 1 /\ burst.stores[1].cell.index = Place(j, i)
  BY <1>1, <1>2, <1>3, CopyShape
<1>5. burst.loads = <<InA(M, i, j)>>
  BY <1>2 DEF IsCopy, Copy, Burst
<1>6. i * M + j \in 0 .. M * N - 1 /\ Place(j, i) \in 0 .. M * N - 1
  <2>1. CASE M = 32 /\ N = 32
    BY <1>2, <2>1 DEF Place
  <2>2. CASE M = 64 /\ N = 64
    BY <1>2, <2>2 DEF Place
  <2>3. CASE M = 61 /\ N = 67
    BY <1>2, <2>3 DEF Place
  <2> QED BY <2>1, <2>2, <2>3, GradedSizes
<1>7. \A k \in DOMAIN burst.loads : Fits(burst.loads[k])
  <2>1. DOMAIN burst.loads = {1} /\ burst.loads[1] = InA(M, i, j)
    BY <1>5
  <2>2. InA(M, i, j).index = i * M + j
    BY DEF InA, Cell
  <2> QED BY <1>6, <2>1, <2>2 DEF Fits
<1>8. \A k \in DOMAIN burst.stores : Fits(burst.stores[k].cell)
  <2>1. burst.stores \in Seq(Stores)
    BY <1>4 DEF Bursts
  <2>2. DOMAIN burst.stores = 1 .. 1
    BY <1>4, <2>1
  <2> QED BY <1>4, <1>6, <2>2 DEF Fits
<1> QED BY <1>4, <1>7, <1>8 DEF BurstFits

(* A cell of a 64 x 64 matrix.                                             *)
LEMMA SquareFits ==
    ASSUME M = 64, N = 64, NEW i \in 0 .. 63, NEW j \in 0 .. 63
    PROVE  Fits(InA(M, i, j)) /\ Fits(InB(N, j, i))
BY DEF Fits, InA, InB, Cell

LEMMA BlockFits ==
    ASSUME M = 64, N = 64, NEW k \in 0 .. 767,
           NEW x \in DOMAIN Iteration("trans_64x64", M, N, k)
    PROVE  BurstFits(Iteration("trans_64x64", M, N, k)[x])
<1> DEFINE i == 8 * (k \div 96)
           j == 8 * ((k \div 12) % 8)
           p == k % 12
           burst == IF p < 4 THEN UpperHalf(M, N, j, i + p)
                    ELSE IF p \in 4 .. 7 THEN Exchange(M, N, i, j + p - 4)
                    ELSE LowerRight(M, N, j, i + p - 4)
<1>1. Iteration("trans_64x64", M, N, k)[x] = burst
  <2>1. Iteration("trans_64x64", M, N, k) = <<burst>>
    BY DEF Iteration, trans_64x64
  <2> HIDE DEF burst
  <2>2. x = 1
    BY <2>1
  <2> QED BY <2>1, <2>2
<1> SUFFICES BurstFits(burst)
  BY <1>1
<1>2. i \in 0 .. 56 /\ j \in 0 .. 56 /\ p \in 0 .. 11
  OBVIOUS
<1> HIDE DEF i, j, p
<1>3. burst \in Bursts
  <2>1. M \in Int /\ N \in Int /\ j \in Int /\ i \in Int /\ i + p \in Int /\ j + p - 4 \in Int
        /\ i + p - 4 \in Int
    BY <1>2
  <2> QED BY <2>1, UpperHalfType, ExchangeType, LowerRightType
<1>4. CASE p < 4
  <2> DEFINE l == i + p
  <2>1. burst = UpperHalf(M, N, j, l) /\ l \in 0 .. 59
    BY <1>2, <1>4
  <2> HIDE DEF l, burst
  <2>2. /\ DOMAIN burst.loads = 1 .. 8 /\ DOMAIN burst.stores = 1 .. 8
        /\ \A n \in 1 .. 8 : /\ burst.loads[n] = InA(M, l, j + n - 1)
                             /\ burst.stores[n].cell
                                    = InB(N, j + ((n - 1) % 4), IF n <= 4 THEN l ELSE l + 4)
    BY <2>1 DEF UpperHalf, Burst, Put
  <2>3. ASSUME NEW n \in 1 .. 8
        PROVE  Fits(burst.loads[n]) /\ Fits(burst.stores[n].cell)
    <3> DEFINE y == j + n - 1
               z == j + ((n - 1) % 4)
               w == IF n <= 4 THEN l ELSE l + 4
    <3>1. y \in 0 .. 63 /\ z \in 0 .. 63 /\ w \in 0 .. 63 /\ l \in 0 .. 63
      BY <1>2, <2>1
    <3>2. burst.loads[n] = InA(M, l, y) /\ burst.stores[n].cell = InB(N, z, w)
      BY <2>2
    <3> HIDE DEF y, z, w
    <3> QED BY <3>1, <3>2, SquareFits, ZenonT(40)
  <2>4. DOMAIN burst.loads = 1 .. 8 /\ DOMAIN burst.stores = 1 .. 8
    BY <2>2
  <2> QED BY <1>3, <2>3, <2>4 DEF BurstFits
<1>5. CASE p \in 4 .. 7
  <2> DEFINE l == j + p - 4
  <2>1. burst = Exchange(M, N, i, l) /\ l \in 0 .. 59
    BY <1>2, <1>5
  <2> HIDE DEF l, burst
  <2>2. /\ DOMAIN burst.loads = 1 .. 8 /\ DOMAIN burst.stores = 1 .. 8
        /\ \A n \in 1 .. 8 :
               /\ n <= 4 => /\ burst.loads[n] = InB(N, l, i + 3 + n)
                            /\ burst.stores[n].cell = InB(N, l, i + 3 + n)
               /\ n > 4 => /\ burst.loads[n] = InA(M, i + n - 1, l)
                           /\ burst.stores[n].cell = InB(N, l + 4, i + n - 5)
    BY <2>1 DEF Exchange, Burst, Put
  <2>3. ASSUME NEW n \in 1 .. 8
        PROVE  Fits(burst.loads[n]) /\ Fits(burst.stores[n].cell)
    <3> DEFINE y == i + 3 + n
               z == i + n - 1
               w == i + n - 5
               m == l + 4
    <3>1. /\ l \in 0 .. 63 /\ m \in 0 .. 63 /\ z \in 0 .. 63
          /\ n <= 4 => y \in 0 .. 63
          /\ n > 4 => w \in 0 .. 63
      BY <1>2, <2>1
    <3>2. /\ n <= 4 => burst.loads[n] = InB(N, l, y) /\ burst.stores[n].cell = InB(N, l, y)
          /\ n > 4 => burst.loads[n] = InA(M, z, l) /\ burst.stores[n].cell = InB(N, m, w)
      BY <2>2
    <3> HIDE DEF y, z, w, m
    <3>3. CASE n <= 4
      <4>1. burst.loads[n] = InB(N, l, y) /\ burst.stores[n].cell = InB(N, l, y)
        BY <3>2, <3>3
      <4>2. Fits(InB(N, l, y))
        BY <3>1, <3>3, SquareFits, Zenon
      <4> QED BY <4>1, <4>2
    <3>4. CASE n > 4
      <4>1. burst.loads[n] = InA(M, z, l) /\ burst.stores[n].cell = InB(N, m, w)
        BY <3>2, <3>4
      <4>2. Fits(InA(M, z, l))
        BY <3>1, SquareFits, Zenon
      <4>3. Fits(InB(N, m, w))
        BY <3>1, <3>4, SquareFits, Zenon
      <4> QED BY <4>1, <4>2, <4>3
    <3> QED BY <3>3, <3>4
  <2>4. DOMAIN burst.loads = 1 .. 8 /\ DOMAIN burst.stores = 1 .. 8
    BY <2>2
  <2> QED BY <1>3, <2>3, <2>4 DEF BurstFits
<1>6. CASE p >= 8
  <2> DEFINE l == i + p - 4
  <2>1. burst = LowerRight(M, N, j, l) /\ l \in 0 .. 63
    BY <1>2, <1>6
  <2> HIDE DEF l, burst
  <2>2. /\ DOMAIN burst.loads = 1 .. 4 /\ DOMAIN burst.stores = 1 .. 4
        /\ \A n \in 1 .. 4 : /\ burst.loads[n] = InA(M, l, j + 3 + n)
                             /\ burst.stores[n].cell = InB(N, j + 3 + n, l)
    BY <2>1 DEF LowerRight, Burst, Put
  <2>3. ASSUME NEW n \in 1 .. 4
        PROVE  Fits(burst.loads[n]) /\ Fits(burst.stores[n].cell)
    <3> DEFINE y == j + 3 + n
    <3>1. y \in 0 .. 63
      BY <1>2
    <3>2. burst.loads[n] = InA(M, l, y) /\ burst.stores[n].cell = InB(N, y, l)
      BY <2>2
    <3> HIDE DEF y
    <3> QED BY <2>1, <3>1, <3>2, SquareFits, ZenonT(40)
  <2>4. DOMAIN burst.loads = 1 .. 4 /\ DOMAIN burst.stores = 1 .. 4
    BY <2>2
  <2> QED BY <1>3, <2>3, <2>4 DEF BurstFits
<1> HIDE DEF burst
<1> QED BY <1>2, <1>4, <1>5, <1>6

-----------------------------------------------------------------------------
(* What the submission has achieved after so many iterations.              *)
Submission == transpose_submit(M, N)

Progress(f, array, k) ==
    /\ DOMAIN array = 0 .. Reach
    /\ f # "trans_64x64" =>
           \A i \in 0 .. N - 1, j \in 0 .. M - 1 : Turn(f, i, j) < k => Holds(array, j, i)
    /\ f = "trans_64x64" => AllStaged(array, k)

LEMMA SubmissionType == Submission \in TransFunctions
BY DEF Submission, transpose_submit, TransFunctions

(* Whichever function transpose_submit falls through to, it copies, or it   *)
(* is trans_64x64 for a matrix of 64 rows and no more columns.              *)
LEMMA Dispatched ==
    \/ Submission = "trans_64x64" /\ N = 64 /\ M \in {32, 61, 64}
    \/ Submission # "trans_64x64" /\ CopyFunction(Submission)
<1>1. CASE M = 32 /\ N = 32
  BY <1>1 DEF Submission, transpose_submit, CopyFunction
<1>2. CASE M \in {32, 61} /\ N = 67
  BY <1>2 DEF Submission, transpose_submit, CopyFunction
<1>3. CASE M \in {32, 61, 64} /\ N = 64
  BY <1>3 DEF Submission, transpose_submit, CopyFunction
<1>4. CASE ~(M = 32 /\ N = 32) /\ ~(M \in {32, 61} /\ N = 67) /\ ~(M \in {32, 61, 64} /\ N = 64)
  BY <1>4 DEF Submission, transpose_submit, CopyFunction
<1> QED BY <1>1, <1>2, <1>3, <1>4

LEMMA CopyIteration ==
    ASSUME Dims, NEW f, CopyFunction(f), NEW k \in 0 .. Iterations(f, M, N) - 1
    PROVE  CopiesInTurn(f, k, Iteration(f, M, N, k))
<1>1. CASE f = "trans"
  BY <1>1, TransInTurn
<1>2. CASE f = "trans_32x32" /\ M = 32 /\ N = 32
  BY <1>2, SquareInTurn
<1>3. CASE f = "trans_61x67" /\ M \in {32, 61} /\ N = 67
  BY <1>3, BlocksInTurn
<1> QED BY <1>1, <1>2, <1>3 DEF CopyFunction

LEMMA ProgressStep ==
    ASSUME Dims, NEW k \in 0 .. Iterations(Submission, M, N) - 1, NEW array,
           Progress(Submission, array, k)
    PROVE  Progress(Submission, ExecuteAll(array, Iteration(Submission, M, N, k)), k + 1)
<1> DEFINE f == Submission
           bursts == Iteration(f, M, N, k)
           after == ExecuteAll(array, bursts)
<1> HIDE DEF f, bursts, after
<1>1. CASE f = "trans_64x64" /\ N = 64
  <2>1. k \in 0 .. 767
    BY <1>1 DEF Iterations, f
  <2>2. DOMAIN array = 0 .. Reach /\ AllStaged(array, k)
    BY <1>1 DEF Progress, f
  <2>3. AllStaged(after, k + 1)
    BY <1>1, <2>1, <2>2, StagedStep DEF after, bursts
  <2>4. DOMAIN after = DOMAIN array
    <3>1. f \in TransFunctions /\ k \in Nat /\ M \in Nat \ {0} /\ N \in Nat \ {0}
      BY <1>1, <2>1 DEF TransFunctions, Dims
    <3>2. bursts \in Seq(Bursts)
      BY <3>1, IterationType DEF bursts
    <3> QED BY <3>2, ExecuteAllDomain DEF after
  <2>5. Progress(f, after, k + 1)
    BY <1>1, <2>2, <2>3, <2>4 DEF Progress
  <2> QED BY <2>5 DEF f, after, bursts
<1>2. CASE f # "trans_64x64" /\ CopyFunction(f)
  <2>1. CopiesInTurn(f, k, bursts)
    BY <1>2, CopyIteration DEF f, bursts
  <2>2. bursts \in Seq(Bursts) /\ AllCopies(bursts)
    BY <2>1 DEF CopiesInTurn
  <2>3. DOMAIN after = DOMAIN array /\ DOMAIN array = 0 .. Reach
    BY <2>2, ExecuteAllDomain DEF after, f, Progress
  <2>4. ASSUME NEW i \in 0 .. N - 1, NEW j \in 0 .. M - 1, Turn(f, i, j) < k + 1
        PROVE  Holds(after, j, i)
    <3>1. Turn(f, i, j) \in Int
      BY <1>2, TurnInTime
    <3>2. k \in Int
      OBVIOUS
    <3>3. Turn(f, i, j) < k \/ Turn(f, i, j) = k
      BY <2>4, <3>1, <3>2
    <3>4. Turn(f, i, j) < k => Holds(array, j, i)
      BY <1>2 DEF Progress, f
    <3>5. Turn(f, i, j) = k => Copies(bursts, i, j)
      BY <2>1 DEF CopiesInTurn
    <3>6. j \in Nat
      BY DEF Dims
    <3> QED BY <2>2, <3>3, <3>4, <3>5, <3>6, CopiesHold DEF after
  <2>5. Progress(f, after, k + 1)
    BY <1>2, <2>3, <2>4 DEF Progress
  <2> QED BY <2>5 DEF f, after, bursts
<1> QED BY <1>1, <1>2, Dispatched DEF f

LEMMA ProgressStarts ==
    ASSUME Dims
    PROVE  Progress(Submission, InitialB, 0)
<1>1. DOMAIN InitialB = 0 .. Reach
  BY DEF InitialB
<1>2. ASSUME CopyFunction(Submission), NEW i \in 0 .. N - 1, NEW j \in 0 .. M - 1
      PROVE  ~(Turn(Submission, i, j) < 0)
  <2>1. Turn(Submission, i, j) \in 0 .. Iterations(Submission, M, N) - 1
    BY <1>2, TurnInTime
  <2> QED BY <2>1
<1>3. ASSUME NEW r \in 0 .. 63, NEW c \in 0 .. 63 PROVE Staged(InitialB, 0, r, c)
  <2>1. 0 \in Nat
    OBVIOUS
  <2>2. Final(r % 8, c % 8) \in 0 .. 11 /\ c % 8 \in 0 .. 7
    BY <2>1, AgeType, Zenon
  <2>3. Age(0, r, c) \in Int /\ Age(0, r, c) <= 0
    <3>1. r \div 8 \in 0 .. 7 /\ c \div 8 \in 0 .. 7
      OBVIOUS
    <3> QED BY <3>1 DEF Age
  <2>4. ~Placed(0, r, c)
    BY <2>2, <2>3 DEF Placed
  <2>5. ~Parked(0, r, c)
    BY <2>2, <2>3 DEF Parked
  <2> QED BY <2>4, <2>5 DEF Staged
<1> QED BY <1>1, <1>2, <1>3, Dispatched DEF Progress, AllStaged

(* Where an int of B is.                                                   *)
LEMMA IntsOfB ==
    ASSUME Dims, NEW n \in 0 .. M * N - 1
    PROVE  n % N \in 0 .. N - 1 /\ n \div N \in 0 .. M - 1 /\ Place(n \div N, n % N) = n
<1> DEFINE i == n % N
           j == n \div N
<1>1. n \in Nat /\ n < M * N
  <2>1. M * N \in Nat
    BY SMT DEF Dims
  <2> QED BY <2>1
<1>2. n = j * N + i /\ i \in 0 .. N - 1 /\ j \in Nat
  BY <1>1, Division DEF Dims
<1> HIDE DEF i, j
<1>3. j < M
  <2>1. M < j => M * N + N <= j * N
    BY <1>2, ProductGrows DEF Dims
  <2>2. j * N \in Nat /\ M * N \in Nat
    BY <1>2, SMT DEF Dims
  <2> QED BY <1>1, <1>2, <2>1, <2>2 DEF Dims
<1>4. j \in 0 .. M - 1 /\ Place(j, i) = n
  BY <1>2, <1>3 DEF Dims, Place
<1> QED BY <1>2, <1>4 DEF i, j

(* After the last iteration every element is in its place.                 *)
LEMMA ProgressEnds ==
    ASSUME Dims, Progress(Submission, B, Iterations(Submission, M, N)), M * N <= Reach + 1
    PROVE  validate
<1> DEFINE f == Submission
           last == Iterations(f, M, N)
<1>1. ASSUME NEW i \in 0 .. N - 1, NEW j \in 0 .. M - 1 PROVE Holds(B, j, i)
  <2>1. CASE f = "trans_64x64" /\ N = 64 /\ M \in {32, 61, 64}
    <3>1. last = 768
      BY <2>1 DEF Iterations
    <3>2. AllStaged(B, 768)
      BY <2>1, <3>1 DEF Progress
    <3>3. j \in 0 .. 63 /\ i \in 0 .. 63
      BY <2>1
    <3>4. Staged(B, 768, j, i)
      BY <3>2, <3>3, ZenonT(40) DEF AllStaged
    <3>5. Placed(768, j, i)
      <4>1. 768 \in Nat
        OBVIOUS
      <4>2. Final(j % 8, i % 8) \in 0 .. 11
        BY <3>3, <4>1, AgeType, Zenon
      <4>3. Age(768, j, i) >= 12 /\ Age(768, j, i) \in Int
        <5>1. j \div 8 \in 0 .. 7 /\ i \div 8 \in 0 .. 7
          BY <3>3
        <5> QED BY <5>1 DEF Age
      <4> QED BY <4>2, <4>3 DEF Placed
    <3> QED BY <3>4, <3>5 DEF Staged, Holds
  <2>2. CASE f # "trans_64x64" /\ CopyFunction(f)
    <3>1. Turn(f, i, j) \in 0 .. last - 1
      BY <2>2, TurnInTime
    <3>2. last \in Int => Turn(f, i, j) < last
      BY <3>1
    <3>3. last \in Int
      BY <2>2, IterationsType DEF CopyFunction, TransFunctions
    <3> HIDE DEF f, last
    <3>4. Progress(f, B, last)
      BY DEF f, last
    <3> QED BY <2>2, <3>2, <3>3, <3>4 DEF Progress
  <2> QED BY <2>1, <2>2, Dispatched
<1>2. ASSUME NEW n \in 0 .. M * N - 1 PROVE Right(n)
  <2>1. n % N \in 0 .. N - 1 /\ n \div N \in 0 .. M - 1 /\ Place(n \div N, n % N) = n
    BY IntsOfB
  <2>2. n \in DOMAIN B
    <3>1. DOMAIN B = 0 .. Reach
      BY DEF Progress
    <3>2. M * N \in Nat /\ Reach \in Nat
      BY TransAssumption, SMT DEF Dims
    <3>3. n \in 0 .. Reach
      BY <3>2
    <3> QED BY <3>1, <3>3
  <2>3. Holds(B, n \div N, n % N)
    BY <1>1, <2>1
  <2> QED BY <2>1, <2>2, <2>3 DEF Holds, Right, Entry
<1> QED BY <1>2 DEF validate

(* No iteration changes an element that is right.                          *)
LEMMA RightStays ==
    ASSUME Dims, Graded, NEW k \in 0 .. Iterations(Submission, M, N) - 1,
           Progress(Submission, B, k), M * N <= Reach + 1,
           NEW n \in 0 .. M * N - 1, Right(n)
    PROVE  ExecuteAll(B, Iteration(Submission, M, N, k))[n] = B[n]
<1> DEFINE f == Submission
           bursts == Iteration(f, M, N, k)
           after == ExecuteAll(B, bursts)
           i == n % N
           j == n \div N
<1>1. i \in 0 .. N - 1 /\ j \in 0 .. M - 1 /\ Place(j, i) = n
  BY IntsOfB
<1>2. B[n] = Entry(i, j)
  BY DEF Right, Entry
<1>3. n \in DOMAIN B
  <2>1. DOMAIN B = 0 .. Reach
    BY DEF Progress
  <2>2. M * N \in Nat /\ Reach \in Nat
    BY TransAssumption, SMT DEF Dims
  <2>3. n \in 0 .. Reach
    BY <2>2
  <2> QED BY <2>1, <2>3
<1>4. Holds(B, j, i)
  BY <1>1, <1>2 DEF Holds
<1> HIDE DEF f, bursts, after, i, j
<1>5. SUFFICES after[n] = Entry(i, j)
  BY <1>2 DEF after, bursts, f
<1>6. CASE f # "trans_64x64" /\ CopyFunction(f)
  <2>1. CopiesInTurn(f, k, bursts)
    BY <1>6, CopyIteration DEF f, bursts
  <2>2. bursts \in Seq(Bursts) /\ AllCopies(bursts)
    BY <2>1 DEF CopiesInTurn
  <2>3. j \in Nat
    BY <1>1 DEF Dims
  <2>4. Holds(after, j, i)
    BY <1>1, <1>4, <2>2, <2>3, CopiesHold DEF after
  <2>5. DOMAIN after = DOMAIN B
    BY <2>2, ExecuteAllDomain DEF after
  <2> QED BY <1>1, <1>3, <2>4, <2>5 DEF Holds
<1>7. CASE f = "trans_64x64" /\ N = 64
  <2>1. M = 64
    BY <1>7, GradedSizes
  <2>2. k \in 0 .. 767 /\ k \in Nat /\ i \in 0 .. 63 /\ j \in 0 .. 63
    <3>1. k \in 0 .. 767
      BY <1>7 DEF Iterations, f
    <3> QED BY <1>1, <1>7, <2>1, <3>1
  <2>3. AllStaged(B, k)
    BY <1>7 DEF Progress, f
  <2>4. Staged(B, k, j, i)
    BY <2>2, <2>3, Zenon DEF AllStaged
  <2>5. Placed(k, j, i)
    <3> SUFFICES ASSUME ~Placed(k, j, i) PROVE FALSE
      OBVIOUS
    <3>1. Entry(i, j) = i * 64 + j + 1
      <4>1. i * 64 + j < N * M
        BY <1>7, <2>1, <2>2
      <4> QED BY <2>1, <4>1 DEF Entry, InitialA
    <3>2. CASE Parked(k, j, i)
      <4>1. i >= 4 /\ j + 4 < 64
        <5>1. j % 8 < 4 /\ i % 8 >= 4
          BY <3>2 DEF Parked
        <5> QED BY <2>2, <5>1
      <4> DEFINE x == i - 4
                 y == j + 4
      <4>2. B[n] = Entry(x, y)
        BY <1>1, <1>3, <2>4, <3>2 DEF Staged
      <4>3. x \in 0 .. 63 /\ y \in 0 .. 63 /\ x * 64 + y # i * 64 + j
        BY <2>2, <4>1
      <4> HIDE DEF x, y
      <4>4. Entry(x, y) = x * 64 + y + 1
        <5>1. x * 64 + y < N * M
          BY <1>7, <2>1, <4>3
        <5> QED BY <2>1, <5>1 DEF Entry, InitialA
      <4> QED BY <1>2, <2>2, <3>1, <4>2, <4>3, <4>4
    <3>3. CASE ~Parked(k, j, i)
      <4>1. B[n] = InitialB[n]
        BY <1>1, <1>3, <2>4, <3>3 DEF Staged
      <4>2. n \in 0 .. Reach /\ n < N * M
        <5>1. DOMAIN B = 0 .. Reach
          BY DEF Progress
        <5>2. n < N * M
          BY <1>7, <2>1
        <5> QED BY <1>3, <5>1, <5>2
      <4>3. InitialB[n] = -(n + 1)
        BY <4>2 DEF InitialB
      <4> QED BY <1>2, <2>2, <3>1, <4>1, <4>2, <4>3
    <3> QED BY <3>2, <3>3
  <2>6. Placed(k + 1, j, i)
    <3>1. Age(k, j, i) \in Int /\ Age(k + 1, j, i) = Age(k, j, i) + 1
          /\ Final(j % 8, i % 8) \in 0 .. 11
      BY <2>2, AgeType, Zenon
    <3> QED BY <2>5, <3>1 DEF Placed
  <2>7. DOMAIN B = 0 .. Reach
    BY DEF Progress
  <2>8. AllStaged(after, k + 1)
    BY <1>7, <2>2, <2>3, <2>7, StagedStep, Zenon DEF after, bursts
  <2>9. Staged(after, k + 1, j, i)
    BY <2>2, <2>8, Zenon DEF AllStaged
  <2>10. DOMAIN after = DOMAIN B
    <3>1. f \in TransFunctions /\ M \in Nat \ {0} /\ N \in Nat \ {0}
      BY <1>7 DEF TransFunctions, Dims
    <3>2. bursts \in Seq(Bursts)
      BY <2>2, <3>1, IterationType DEF bursts
    <3> QED BY <3>2, ExecuteAllDomain DEF after
  <2> QED BY <1>1, <1>3, <2>6, <2>9, <2>10 DEF Staged
<1> QED BY <1>6, <1>7, Dispatched DEF f

-----------------------------------------------------------------------------
(* The submission under test, for every size of the matrices.              *)
Roomy == \A size \in Sizes : Refused(size[1], size[2]) \/ size[1] * size[2] <= Reach + 1
Scores == [funcid : Int, correct : BOOLEAN, misses : Int]

SubmitInv ==
    /\ results \in Scores
    /\ test \in {"generate", "call", "run"} => <<M, N>> \in Sizes /\ ~Refused(M, N)
    /\ func = 1 /\ test \in {"call", "run"} => results.funcid = 0
    /\ func = 1 /\ test = "call" => it = 0 /\ B = InitialB
    /\ func = 1 /\ test = "run" => /\ it \in 0 .. Iterations(Submission, M, N)
                                   /\ Progress(Submission, B, it)
                                   /\ Graded => trace \in Seq(InsideLines)
    /\ Roomy => SubmissionCorrect

LEMMA TestedDims ==
    ASSUME GradingInv, test \in {"generate", "call", "run"}
    PROVE  Dims /\ M \in 1 .. MAXN /\ N \in 1 .. MAXN
<1>1. M \in 1 .. MAXN /\ N \in 1 .. MAXN
  BY DEF GradingInv, TestInv
<1>2. MAXN \in Nat
  BY DEF MAXN
<1> QED BY <1>1, <1>2 DEF Dims

LEMMA RunsSubmission ==
    ASSUME func = 1
    PROVE  Running = Submission
BY DEF Running, Called, registerFunctions, Submission

LEMMA RoomyHere ==
    ASSUME Roomy, SubmitInv, test \in {"generate", "call", "run"}
    PROVE  M * N <= Reach + 1
<1> DEFINE size == <<M, N>>
<1>1. size \in Sizes /\ ~Refused(M, N) /\ size[1] = M /\ size[2] = N
  BY DEF SubmitInv
<1> HIDE DEF size
<1>2. Refused(size[1], size[2]) \/ size[1] * size[2] <= Reach + 1
  BY <1>1 DEF Roomy
<1> QED BY <1>1, <1>2

LEMMA SubmitInit ==
    ASSUME Init
    PROVE  SubmitInv
<1>1. test \in {"off", "start"} /\ func = 1 /\ results = NoResults
  BY DEF Init, InitA, InitB
<1>2. NoResults \in Scores
  BY DEF NoResults, Scores
<1> QED BY <1>1, <1>2 DEF SubmitInv, SubmissionCorrect

LEMMA SubmitArguments ==
    ASSUME GradingInv, SubmitInv, NEW size \in Sizes, Arguments(size)
    PROVE  SubmitInv'
<1>1. /\ test = "start" /\ M' = size[1] /\ N' = size[2] /\ func' = func /\ results' = results
      /\ test' = IF Refused(M', N') THEN "usage" ELSE "generate"
  BY DEF Arguments
<1>2. size = <<M', N'>>
  <2>1. size \in Nat \X Nat
    BY TransAssumption
  <2> QED BY <1>1, <2>1
<1>3. test' \in {"generate", "call", "run"} => <<M', N'>> \in Sizes /\ ~Refused(M', N')
  BY <1>1, <1>2
<1>4. test' # "call" /\ test' # "run"
  BY <1>1
<1>5. SubmissionCorrect' <=> SubmissionCorrect
  BY <1>1 DEF SubmissionCorrect
<1>6. Refused(M, N)' <=> Refused(M', N')
  BY DEF Refused, MAXN
<1> QED BY <1>1, <1>3, <1>4, <1>5, <1>6 DEF SubmitInv

LEMMA SubmitGenerate ==
    ASSUME GradingInv, SubmitInv, Generate
    PROVE  SubmitInv'
<1>1. /\ test = "generate" /\ func <= Len(func_list) /\ test' = "call"
      /\ it' = 0 /\ B' = InitialB
      /\ results' = IF registerFunctions[func] = "transpose_submit"
                    THEN [results EXCEPT !.funcid = func - 1] ELSE results
      /\ UNCHANGED <<M, N, func>>
  BY DEF Generate
<1>2. func \in 1 .. 5
  <2>1. func \in 1 .. 6 /\ Len(func_list) = 5
    BY <1>1 DEF GradingInv, TestInv
  <2> QED BY <1>1, <2>1
<1>3. results \in Scores
  BY DEF SubmitInv
<1>4. results' \in Scores /\ results'.correct = results.correct
  <2>1. func - 1 \in Int
    BY <1>2
  <2>2. CASE results' = results
    BY <1>3, <2>2
  <2>3. CASE results' = [results EXCEPT !.funcid = func - 1]
    BY <1>3, <2>1, <2>3 DEF Scores
  <2> QED BY <1>1, <2>2, <2>3
<1>5. func = 1 => results'.funcid = 0
  <2>1. func = 1 => registerFunctions[func] = "transpose_submit" /\ func - 1 = 0
    BY DEF registerFunctions
  <2>2. func = 1 => results' = [results EXCEPT !.funcid = 0]
    BY <1>1, <2>1
  <2> QED BY <1>3, <2>2 DEF Scores
<1>6. InitialB' = InitialB
  BY <1>1 DEF InitialB
<1>7. (<<M, N>> \in Sizes /\ ~Refused(M, N))'
  BY <1>1 DEF SubmitInv, Refused, MAXN
<1>8. SubmissionCorrect => SubmissionCorrect'
  BY <1>1, <1>4 DEF SubmissionCorrect
<1> QED BY <1>1, <1>4, <1>5, <1>6, <1>7, <1>8 DEF SubmitInv

(* The markers and the parameters are not in the matrices.                 *)
LEMMA CallInside ==
    ASSUME func = 1, Graded
    PROVE  <<Line("S", MarkerStart), Line("L", FuncPtr(func)), Line("L", GlobalN),
             Line("L", GlobalM)>> \in Seq(InsideLines)
<1>1. \A op \in {"L", "S"}, a \in Int : Line(op, a) \in LineSet /\ Line(op, a).address = a
  BY DEF Line, LineSet
<1> DEFINE Outside(a) == a < 1102176 \/ a >= 1626464
<1>2. ASSUME NEW op \in {"L", "S"}, NEW a \in Int, Outside(a)
      PROVE  Line(op, a) \in InsideLines
  <2>1. Line(op, a) \in LineSet /\ Line(op, a).address = a
    BY <1>1
  <2>2. 4 * MAXN * MAXN - 1 = 262143
    BY SMT DEF MAXN
  <2>3. Address("A") = 1102176 /\ Address("B") = 1364320
    BY SMT DEF Address
  <2> DEFINE last == 4 * MAXN * MAXN - 1
  <2>4. last = 262143
    BY <2>2
  <2> HIDE DEF last
  <2>5. \A array \in {"A", "B"} : ~(a - Address(array) \in 0 .. last)
    <3> SUFFICES ASSUME NEW array \in {"A", "B"} PROVE ~(a - Address(array) \in 0 .. last)
      OBVIOUS
    <3> DEFINE z == Address(array)
    <3>1. z = 1102176 \/ z = 1364320
      BY <2>3
    <3> HIDE DEF z
    <3>2. a - z < 0 \/ a - z > 262143
      BY <1>2, <3>1, SMT
    <3>3. a - z \in Int
      BY <3>1, SMT
    <3> DEFINE y == a - z
    <3>4. y \in Int /\ last \in Int /\ (y < 0 \/ y > last)
      BY <2>4, <3>2, <3>3
    <3> HIDE DEF y
    <3>5. y \notin 0 .. last
      BY <3>4
    <3> QED BY <3>5 DEF y, z
  <2>6. InsideLine(Line(op, a))
    BY <2>1, <2>5, SMT DEF InsideLine, last
  <2> QED BY <2>1, <2>6 DEF InsideLines
<1>3. MarkerStart \in Int /\ Outside(MarkerStart)
  BY SMT DEF MarkerStart
<1>4. FuncPtr(func) \in Int /\ Outside(FuncPtr(func))
  <2>1. FuncPtr(func) = 1626496
    BY SMT DEF FuncPtr
  <2> QED BY <2>1, SMT
<1>5. GlobalN \in Int /\ Outside(GlobalN) /\ GlobalM \in Int /\ Outside(GlobalM)
  BY SMT DEF GlobalN, GlobalM
<1> HIDE DEF Outside
<1>6. /\ Line("S", MarkerStart) \in InsideLines /\ Line("L", FuncPtr(func)) \in InsideLines
      /\ Line("L", GlobalN) \in InsideLines /\ Line("L", GlobalM) \in InsideLines
  BY <1>2, <1>3, <1>4, <1>5
<1> QED BY <1>6

(* The parameters of a function do not change while it runs.               *)
LEMMA SameMatrices ==
    ASSUME UNCHANGED <<M, N>>
    PROVE  /\ Submission' = Submission /\ (Graded' <=> Graded)
           /\ InsideLines' = InsideLines
           /\ Progress(Submission, B, it)' <=> Progress(Submission, B', it')
           /\ Iterations(Submission, M, N)' = Iterations(Submission, M, N)
<1>1. Submission' = Submission
  BY DEF Submission
<1>2. Graded' <=> Graded
  BY DEF Graded
<1>3. InsideLines' = InsideLines
  BY DEF InsideLines, InsideLine
<1>4. Iterations(Submission, M, N)' = Iterations(Submission, M, N)
  BY <1>1
<1>5. \A i, j : Entry(i, j)' = Entry(i, j) /\ Place(j, i)' = Place(j, i)
  BY DEF Entry, InitialA, Place
<1>6. \A i, j : Turn(Submission, i, j)' = Turn(Submission, i, j)
  BY <1>1 DEF Turn
<1>7. InitialB' = InitialB
  BY DEF InitialB
<1>8. \A i, j : Holds(B, j, i)' <=> Holds(B', j, i)
  BY <1>5 DEF Holds
<1>9. AllStaged(B, it)' <=> AllStaged(B', it')
  <2>1. \A r, c : Staged(B, it, r, c)' <=> Staged(B', it', r, c)
    BY <1>5, <1>7 DEF Staged
  <2> QED BY <2>1 DEF AllStaged
<1>10. Progress(Submission, B, it)' <=> Progress(Submission, B', it')
  BY <1>1, <1>6, <1>8, <1>9 DEF Progress
<1> QED BY <1>1, <1>2, <1>3, <1>4, <1>10

LEMMA SubmitCall ==
    ASSUME GradingInv, SubmitInv, Call
    PROVE  SubmitInv'
<1>1. /\ test = "call" /\ test' = "run" /\ UNCHANGED <<M, N, func, it, B, results>>
      /\ trace' = <<Line("S", MarkerStart), Line("L", FuncPtr(func)), Line("L", GlobalN),
                    Line("L", GlobalM)>>
  BY DEF Call, Simulate
<1>2. Dims
  BY <1>1, TestedDims
<1>3. (<<M, N>> \in Sizes /\ ~Refused(M, N))'
  BY <1>1 DEF SubmitInv, Refused, MAXN
<1>4. ASSUME func' = 1
      PROVE  /\ results.funcid = 0
             /\ (it \in 0 .. Iterations(Submission, M, N))' /\ Progress(Submission, B, it)'
             /\ Graded' => trace' \in Seq(InsideLines')
  <2>1. func = 1 /\ it = 0 /\ B = InitialB /\ results.funcid = 0
    BY <1>1, <1>4 DEF SubmitInv
  <2>2. Progress(Submission, B, it)'
    <3>1. Progress(Submission, B', it')
      BY <1>1, <1>2, <2>1, ProgressStarts
    <3> QED BY <1>1, <3>1, SameMatrices
  <2>3. it' \in 0 .. Iterations(Submission, M, N)
    <3>1. 1 \in Nat \ {0}
      OBVIOUS
    <3>2. CASE Submission = "trans_64x64"
      BY <1>1, <2>1, <3>2 DEF Iterations
    <3>3. CASE CopyFunction(Submission)
      <4>1. 0 \in 0 .. N - 1 /\ 0 \in 0 .. M - 1
        BY <1>2 DEF Dims
      <4>2. Turn(Submission, 0, 0) \in 0 .. Iterations(Submission, M, N) - 1
        BY <1>2, <3>3, <4>1, TurnInTime
      <4>3. Iterations(Submission, M, N) \in Int
        BY <1>2, IterationsType, SubmissionType
      <4> QED BY <1>1, <2>1, <4>2, <4>3
    <3> QED BY <3>2, <3>3, Dispatched
  <2>4. Graded' => trace' \in Seq(InsideLines')
    <3>1. Graded => trace' \in Seq(InsideLines)
      BY <1>1, <2>1, CallInside
    <3> QED BY <1>1, <3>1, SameMatrices
  <2> QED BY <1>1, <2>1, <2>2, <2>3, <2>4, SameMatrices
<1>5. SubmissionCorrect => SubmissionCorrect'
  BY <1>1 DEF SubmissionCorrect
<1> QED BY <1>1, <1>3, <1>4, <1>5 DEF SubmitInv

LEMMA SubmitTranspose ==
    ASSUME GradingInv, SubmitInv, Transpose
    PROVE  SubmitInv'
<1> DEFINE bursts == Iteration(Running, M, N, it)
<1>1. /\ test = "run" /\ it < Iterations(Running, M, N) /\ B' = ExecuteAll(B, bursts)
      /\ trace' = TracedAll(bursts) /\ it' = it + 1
      /\ UNCHANGED <<test, M, N, func, results>>
  BY DEF Transpose, Simulate, TracedAll
<1> HIDE DEF bursts
<1>2. Dims /\ it \in Nat
  BY <1>1, TestedDims DEF GradingInv, TestInv
<1>3. (<<M, N>> \in Sizes /\ ~Refused(M, N))'
  BY <1>1 DEF SubmitInv, Refused, MAXN
<1>4. ASSUME func' = 1
      PROVE  /\ results.funcid = 0
             /\ (it \in 0 .. Iterations(Submission, M, N))' /\ Progress(Submission, B, it)'
             /\ Graded' => trace' \in Seq(InsideLines')
  <2>1. /\ func = 1 /\ results.funcid = 0 /\ it \in 0 .. Iterations(Submission, M, N)
        /\ Progress(Submission, B, it)
    BY <1>1, <1>4 DEF SubmitInv
  <2>2. Running = Submission /\ bursts = Iteration(Submission, M, N, it)
    BY <2>1, RunsSubmission DEF bursts
  <2>3. Iterations(Submission, M, N) \in Int
    BY <1>2, IterationsType, SubmissionType
  <2>4. it \in 0 .. Iterations(Submission, M, N) - 1 /\ it + 1 \in 0 .. Iterations(Submission, M, N)
    BY <1>1, <1>2, <2>1, <2>2, <2>3
  <2>5. Progress(Submission, B', it')
    BY <1>1, <1>2, <2>1, <2>2, <2>4, ProgressStep
  <2>6. ASSUME Graded PROVE trace' \in Seq(InsideLines)
    <3>1. Submission \in TransFunctions
      BY SubmissionType
    <3>2. bursts \in Seq(Bursts)
      BY <1>2, <2>2, <3>1, IterationType DEF Dims
    <3>3. \A k \in DOMAIN bursts : BurstFits(bursts[k])
      <4>1. CASE Submission = "trans_64x64" /\ N = 64
        <5>1. M = 64 /\ it \in 0 .. 767
          <6>1. M = 64
            BY <2>6, <4>1, GradedSizes
          <6> QED BY <2>4, <4>1, <6>1 DEF Iterations
        <5> QED BY <2>2, <4>1, <5>1, BlockFits
      <4>2. CASE CopyFunction(Submission)
        <5>1. AllCopies(bursts)
          BY <1>2, <2>2, <2>4, <4>2, CopyIteration DEF CopiesInTurn
        <5>2. \A k \in DOMAIN bursts : Copying(bursts[k])
          BY <3>2, <5>1 DEF AllCopies
        <5> QED BY <2>6, <5>2, CopyFits
      <4> QED BY <4>1, <4>2, Dispatched
    <3> QED BY <1>1, <2>6, <3>2, <3>3, TracedAllInside
  <2> QED BY <1>1, <2>1, <2>4, <2>5, <2>6, SameMatrices
<1>5. SubmissionCorrect => SubmissionCorrect'
  BY <1>1 DEF SubmissionCorrect
<1> QED BY <1>1, <1>3, <1>4, <1>5 DEF SubmitInv

LEMMA SubmitCollect ==
    ASSUME GradingInv, SubmitInv, Collect, GradingInv'
    PROVE  SubmitInv'
<1>1. /\ test = "run" /\ it = Iterations(Running, M, N) /\ test' = "generate" /\ func' = func + 1
      /\ UNCHANGED <<M, N, it, B>>
  BY DEF Collect
<1>2. Dims /\ func \in 1 .. 5 /\ results \in Scores
  BY <1>1, TestedDims DEF GradingInv, TestInv, SubmitInv
<1>3. (<<M, N>> \in Sizes /\ ~Refused(M, N))'
  BY <1>1 DEF SubmitInv, Refused, MAXN
<1>4. \/ validate /\ csim_results' = printSummary(sim')
         /\ results' = IF results.funcid = func - 1
                       THEN [results EXCEPT !.correct = TRUE, !.misses = csim_results'[2]]
                       ELSE results
      \/ ~validate /\ results' = results
  BY DEF Collect
<1>5. results' \in Scores /\ (results.correct => results'.correct)
  <2>1. CASE results' = results
    BY <1>2, <2>1
  <2>2. CASE csim_results' = printSummary(sim')
             /\ results' = [results EXCEPT !.correct = TRUE, !.misses = csim_results'[2]]
    <3>1. csim_results'[2] \in Int
      BY <2>2 DEF GradingInv, SimInv, printSummary
    <3> DEFINE x == [results EXCEPT !.correct = TRUE]
               y == [x EXCEPT !.misses = csim_results'[2]]
    <3>2. x \in Scores /\ x.correct = TRUE
      BY <1>2 DEF Scores
    <3> HIDE DEF x
    <3>3. y \in Scores /\ y.correct = TRUE
      BY <3>1, <3>2 DEF Scores
    <3>4. results' = y
      BY <2>2 DEF x
    <3> QED BY <3>3, <3>4
  <2> QED BY <1>4, <2>1, <2>2
<1>6. func' \in Int /\ func' > 1
  BY <1>1, <1>2
<1>7. ASSUME Roomy PROVE results'.correct
  <2>1. CASE func > 1
    BY <1>5, <1>7, <2>1 DEF SubmitInv, SubmissionCorrect
  <2>2. CASE func = 1
    <3>1. results.funcid = 0 /\ Progress(Submission, B, it)
      BY <1>1, <2>2 DEF SubmitInv
    <3>2. it = Iterations(Submission, M, N)
      BY <1>1, <2>2, RunsSubmission
    <3>3. M * N <= Reach + 1
      BY <1>1, <1>7, RoomyHere
    <3>4. validate
      BY <1>2, <3>1, <3>2, <3>3, ProgressEnds
    <3>5. results' = [results EXCEPT !.correct = TRUE, !.misses = csim_results'[2]]
      BY <1>4, <2>2, <3>1, <3>4
    <3> QED BY <1>2, <3>5 DEF Scores
  <2> QED BY <1>2, <2>1, <2>2
<1> QED BY <1>1, <1>3, <1>5, <1>6, <1>7 DEF SubmitInv, SubmissionCorrect

(* A step that leaves the test alone, or ends it.                          *)
LEMMA SubmitQuiet ==
    ASSUME SubmitInv, UNCHANGED <<M, N, func, results>>,
           \/ test' \in {"over", "alarm"}
           \/ test' = test /\ (test \in {"generate", "call", "run"} => UNCHANGED <<it, B, trace>>)
    PROVE  SubmitInv'
<1>1. (<<M, N>> \in Sizes /\ ~Refused(M, N))' <=> <<M, N>> \in Sizes /\ ~Refused(M, N)
  BY DEF Refused, MAXN
<1>2. SubmissionCorrect' <=> SubmissionCorrect
  BY DEF SubmissionCorrect
<1>3. InitialB' = InitialB
  BY DEF InitialB
<1>4. CASE test' \in {"over", "alarm"}
  BY <1>2, <1>4 DEF SubmitInv
<1>5. CASE test' = test /\ test \notin {"generate", "call", "run"}
  BY <1>2, <1>5 DEF SubmitInv
<1>6. CASE test' = test /\ UNCHANGED <<it, B, trace>>
  BY <1>1, <1>2, <1>3, <1>6, SameMatrices DEF SubmitInv
<1> QED BY <1>4, <1>5, <1>6

LEMMA SubmitStep ==
    ASSUME GradingInv, SubmitInv, [Next]_vars, GradingInv'
    PROVE  SubmitInv'
<1>1. CASE PartA
  <2>1. test = "off" /\ UNCHANGED <<test, M, N, func, results>>
    BY <1>1 DEF PartA, transVars
  <2> QED BY <2>1, SubmitQuiet
<1>2. CASE \E size \in Sizes : Arguments(size)
  BY <1>2, SubmitArguments
<1>3. CASE Generate
  BY <1>3, SubmitGenerate
<1>4. CASE Call
  BY <1>4, SubmitCall
<1>5. CASE Transpose
  BY <1>5, SubmitTranspose
<1>6. CASE Collect
  BY <1>6, SubmitCollect
<1>7. CASE Summary \/ sigalrm_handler
  <2>1. test' \in {"over", "alarm"} /\ UNCHANGED <<M, N, func, results>>
    BY <1>7 DEF Summary, sigalrm_handler
  <2> QED BY <2>1, SubmitQuiet
<1>8. CASE UNCHANGED vars
  <2>1. UNCHANGED <<test, M, N, func, results, it, B, trace>>
    BY <1>8 DEF vars, transVars, csimVars
  <2> QED BY <2>1, SubmitQuiet
<1> QED BY <1>1, <1>2, <1>3, <1>4, <1>5, <1>6, <1>7, <1>8 DEF Next, PartB

(* What the theorems about the submission rest on: how far it is with the  *)
(* transpose.                                                              *)
THEOREM SubmitInvariant == Spec => []SubmitInv
<1>1. Init => SubmitInv
  BY SubmitInit
<1>2. GradingInv /\ GradingInv' /\ SubmitInv /\ [Next]_vars => SubmitInv'
  BY SubmitStep
<1>3. Spec => []GradingInv
  BY Invariant
<1> QED BY <1>1, <1>2, <1>3, PTL DEF Spec

(* Whatever size the matrices have, transpose_submit of trans.c leaves the *)
(* transpose in B, also when its switch falls through to a function made   *)
(* for another size.  Roomy: the part of B that is modelled holds the      *)
(* matrices, as Reach = MAXN * MAXN - 1, the whole array, always does.     *)
THEOREM SubmissionRight == Roomy /\ Spec => []SubmissionCorrect
<1>1. Roomy /\ SubmitInv => SubmissionCorrect
  BY DEF SubmitInv
<1>2. Spec => []SubmitInv
  BY SubmitInvariant
<1>3. Roomy => Roomy'
  BY DEF Roomy
<1> QED BY <1>1, <1>2, <1>3, PTL

(* For the graded sizes trans.c reads and writes no element that the        *)
(* matrices do not have.                                                   *)
THEOREM SubmissionInBounds == Spec => []InBounds
<1>1. GradingInv /\ SubmitInv => InBounds
  <2> SUFFICES ASSUME GradingInv, SubmitInv, test = "run", Graded, func = 1,
                      NEW k \in DOMAIN trace, NEW array \in {"A", "B"}
               PROVE  LET offset == trace[k].address - Address(array)
                      IN offset \in 0 .. 4 * MAXN * MAXN - 1 => offset < 4 * M * N
    BY Zenon DEF InBounds
  <2>1. trace \in Seq(InsideLines)
    BY DEF SubmitInv
  <2>2. trace[k] \in InsideLines
    BY <2>1
  <2>3. InsideLine(trace[k])
    BY <2>2 DEF InsideLines
  <2> QED BY <2>3, Zenon DEF InsideLine
<1>2. Spec => []SubmitInv
  BY SubmitInvariant
<1>3. Spec => []GradingInv
  BY Invariant
<1> QED BY <1>1, <1>2, <1>3, PTL

(* No element that trans.c has put in its place is lost again, although    *)
(* trans_64x64 parks others in B.                                          *)
THEOREM NothingLost == Roomy /\ Spec => NothingUndone
<1>1. ASSUME Roomy, GradingInv, SubmitInv, [Next]_vars,
             test = "run", Graded, func = 1, test' = "run",
             NEW n \in 0 .. M * N - 1, Right(n)
      PROVE  B'[n] = B[n]
  <2>1. CASE Transpose
    <3>1. /\ it < Iterations(Running, M, N) /\ B' = ExecuteAll(B, Iteration(Running, M, N, it))
          /\ Running = Submission
      BY <1>1, <2>1, RunsSubmission DEF Transpose
    <3>2. Dims /\ it \in Nat /\ Progress(Submission, B, it) /\ M * N <= Reach + 1
      BY <1>1, TestedDims, RoomyHere DEF GradingInv, TestInv, SubmitInv
    <3>3. it \in 0 .. Iterations(Submission, M, N) - 1
      <4>1. Iterations(Submission, M, N) \in Int
        BY <3>2, IterationsType, SubmissionType
      <4> QED BY <3>1, <3>2, <4>1
    <3> QED BY <1>1, <3>1, <3>2, <3>3, RightStays
  <2>2. CASE UNCHANGED B
    BY <2>2
  <2>3. Transpose \/ UNCHANGED B
    <3>1. CASE PartA
      BY <3>1 DEF PartA, transVars
    <3>2. CASE PartB
      BY <1>1, <3>2
      DEF PartB, Arguments, Generate, Call, Collect, Summary, sigalrm_handler
    <3>3. CASE UNCHANGED vars
      BY <3>3 DEF vars, transVars
    <3> QED BY <1>1, <3>1, <3>2, <3>3 DEF Next
  <2> QED BY <2>1, <2>2, <2>3
<1> DEFINE Kept == (test = "run" /\ Graded /\ func = 1 /\ test' = "run") =>
                       \A n \in 0 .. M * N - 1 : Right(n) => B'[n] = B[n]
<1>2. Roomy /\ GradingInv /\ SubmitInv /\ [Next]_vars => [Kept]_vars
  BY <1>1
<1>3. Spec => []SubmitInv
  BY SubmitInvariant
<1>4. Spec => []GradingInv
  BY Invariant
<1>5. Roomy => Roomy'
  BY DEF Roomy
<1> QED BY <1>2, <1>3, <1>4, <1>5, PTL DEF Spec, NothingUndone
=============================================================================
