------------------------------ MODULE QueueLemmas ------------------------------
(***************************************************************************)
(* Facts about queues used by the proofs about the gates, the lanes and    *)
(* the host's records: what queueing, handing over to the head and giving  *)
(* up do to the queue, and to the set of those who wait where nobody does  *)
(* so twice.  Searches and folds over a queue rest on the least number of  *)
(* a set.                                                                  *)
(***************************************************************************)
EXTENDS Integers, Sequences, FiniteSets, SequencesExt, SequenceTheorems,
        FiniteSetTheorems, WellFoundedInduction, TLAPS

\* Every set of numbers has a least one: what holds of 0, and of n + 1 whenever
\* of n, holds of all.
LEMMA LeastNumber ==
  ASSUME NEW I \in SUBSET Nat, I # {}
  PROVE  \E x \in I : \A y \in I : x <= y
<1> DEFINE R == OpToRel(<, Nat)
<1>1. IsWellFoundedOn(R, Nat)
  BY NatLessThanWellFounded
<1>2. \A x, y \in Nat : y < x => <<y, x>> \in R
  BY DEF OpToRel
<1> HIDE DEF R
<1>3. \E x \in I : \A y \in I : ~ (<<y, x>> \in R)
  BY <1>1, WFMin
<1>4. PICK x \in I : \A y \in I : ~ (<<y, x>> \in R)
  BY <1>3
<1>5. ASSUME NEW y \in I PROVE x <= y
  <2>1. ~(y < x)
    BY <1>2, <1>4, <1>5
  <2>2. x \in Nat /\ y \in Nat
    OBVIOUS
  <2> QED BY <2>1, <2>2
<1> QED BY <1>4, <1>5

\* The first place that satisfies a search is one that does.
LEMMA FirstPlace ==
  ASSUME NEW I \in SUBSET Nat, I # {}
  PROVE  Min(I) \in I /\ \A y \in I : Min(I) <= y
BY LeastNumber DEF Min

\* Any element leaves: those behind it move up.
LEMMA RemoveAtPlace ==
  ASSUME NEW S, NEW q \in Seq(S), NEW i \in 1..Len(q)
  PROVE  /\ RemoveAt(q, i) \in Seq(S)
         /\ Len(RemoveAt(q, i)) = Len(q) - 1
         /\ \A j \in 1..(Len(q)-1) : RemoveAt(q, i)[j] = IF j < i THEN q[j] ELSE q[j+1]
<1> DEFINE a == SubSeq(q, 1, i-1)
           b == SubSeq(q, i+1, Len(q))
           p == a \o b
<1>0. RemoveAt(q, i) = p
  BY DEF RemoveAt
<1>a. \A j \in 1..Len(q) : q[j] \in S
  BY ElementOfSeq
<1>b. Len(q) \in Nat /\ DOMAIN q = 1..Len(q)
  BY LenProperties
<1>1. /\ a \in Seq(S) /\ Len(a) = i-1
      /\ \A j \in 1..(i-1) : a[j] = q[j]
  <2>1. \A j \in 1..(i-1) : q[j] \in S
    BY <1>a, <1>b
  <2> QED BY <2>1, <1>b, SubSeqProperties
<1>2. /\ b \in Seq(S) /\ Len(b) = Len(q) - i
      /\ \A j \in 1..(Len(q)-i) : b[j] = q[j+i]
  <2>1. \A j \in (i+1)..Len(q) : q[j] \in S
    BY <1>a, <1>b
  <2>2. /\ b \in Seq(S)
        /\ Len(b) = IF i+1 <= Len(q) THEN Len(q) - (i+1) + 1 ELSE 0
        /\ \A j \in 1..(Len(q)-(i+1)+1) : b[j] = q[(i+1)+j-1]
    BY <2>1, <1>b, SubSeqProperties
  <2>3. \A j \in 1..(Len(q)-i) : /\ j \in 1..(Len(q)-(i+1)+1)
                                  /\ (i+1)+j-1 = j+i
    BY <1>b
  <2> HIDE DEF b
  <2>4. \A n \in Nat : \A k \in 1..n :
          (IF k+1 <= n THEN n - (k+1) + 1 ELSE 0) = n - k
    OBVIOUS
  <2>5. Len(b) = Len(q) - i
    BY <2>2, <2>4, <1>b
  <2> QED BY <2>2, <2>3, <2>5
<1> HIDE DEF a, b
<1>3. /\ p \in Seq(S)
      /\ Len(p) = Len(q) - 1
      /\ \A j \in 1..(Len(q)-1) : p[j] = IF j < i THEN q[j] ELSE q[j+1]
  <2>1. /\ p \in Seq(S) /\ Len(p) = Len(a) + Len(b)
        /\ \A j \in 1..(Len(a)+Len(b)) :
             p[j] = IF j <= Len(a) THEN a[j] ELSE b[j - Len(a)]
    BY <1>1, <1>2, ConcatProperties
  <2> QED BY <2>1, <1>1, <1>2, <1>b
<1> QED BY <1>0, <1>3

\* Giving up: one element leaves, the others stay, once each, in order.
LEMMA RemoveAtQueue ==
  ASSUME NEW S, NEW q \in Seq(S), NEW i \in 1..Len(q), IsInjective(q)
  PROVE  /\ RemoveAt(q, i) \in Seq(S)
         /\ ToSet(RemoveAt(q, i)) = ToSet(q) \ {q[i]}
         /\ IsInjective(RemoveAt(q, i))
         /\ Len(RemoveAt(q, i)) = Len(q) - 1
<1> DEFINE p == RemoveAt(q, i)
<1>b. Len(q) \in Nat /\ DOMAIN q = 1..Len(q)
  BY LenProperties
<1>3. /\ p \in Seq(S)
      /\ Len(p) = Len(q) - 1
      /\ \A j \in 1..(Len(q)-1) : p[j] = IF j < i THEN q[j] ELSE q[j+1]
  BY RemoveAtPlace
<1>c. DOMAIN p = 1..(Len(q)-1)
  BY <1>3, LenProperties
<1> HIDE DEF p
<1> DEFINE old(j) == IF j < i THEN j ELSE j+1
<1>d. \A j \in DOMAIN p : /\ old(j) \in DOMAIN q /\ old(j) # i
                          /\ p[j] = q[old(j)]
  BY <1>3, <1>b, <1>c
<1>e. \A j, k \in DOMAIN p : old(j) = old(k) => j = k
  BY <1>b, <1>c
<1> HIDE DEF old
<1>4. ToSet(p) \subseteq ToSet(q) \ {q[i]}
  BY <1>d, <1>b DEF ToSet, IsInjective
<1>5. ASSUME NEW j \in 1..Len(q), j # i
      PROVE  q[j] \in ToSet(p)
  <2>1. CASE j < i
    <3>1. j \in DOMAIN p /\ p[j] = q[j]
      BY <1>3, <1>b, <1>c, <2>1
    <3> QED BY <3>1 DEF ToSet
  <2>2. CASE j > i
    <3>1. j-1 \in DOMAIN p /\ p[j-1] = q[j]
      BY <1>3, <1>b, <1>c, <2>2
    <3> QED BY <3>1 DEF ToSet
  <2> QED BY <1>5, <2>1, <2>2
<1>6. ToSet(q) \ {q[i]} \subseteq ToSet(p)
  BY <1>5, <1>b DEF ToSet
<1>7. IsInjective(p)
  BY <1>d, <1>e DEF IsInjective
<1> QED BY <1>3, <1>4, <1>6, <1>7 DEF p

\* Whoever waits once is removed by name where it waits.
LEMMA RemoveFirstIsRemoveAt ==
  ASSUME NEW S, NEW q \in Seq(S), NEW i \in 1..Len(q), IsInjective(q)
  PROVE  RemoveFirst(q, q[i]) = RemoveAt(q, i)
<1>1. DOMAIN q = 1..Len(q) /\ Len(q) \in Nat
  BY LenProperties
<1>2. {j \in 1..Len(q) : q[j] = q[i]} = {i}
  BY <1>1 DEF IsInjective
<1>3. Min({i}) = i
  BY <1>1 DEF Min
<1>4. SelectInSeq(q, LAMBDA v : v = q[i]) = i
  BY <1>2, <1>3 DEF SelectInSeq
<1> QED BY <1>4 DEF RemoveFirst

\* Giving up by name: one element leaves, wherever it waits.
LEMMA RemoveFirstQueue ==
  ASSUME NEW S, NEW q \in Seq(S), NEW x \in ToSet(q), IsInjective(q)
  PROVE  /\ RemoveFirst(q, x) \in Seq(S)
         /\ ToSet(RemoveFirst(q, x)) = ToSet(q) \ {x}
         /\ IsInjective(RemoveFirst(q, x))
         /\ Len(RemoveFirst(q, x)) = Len(q) - 1
<1>1. DOMAIN q = 1..Len(q)
  BY LenProperties
<1>2. PICK i \in 1..Len(q) : q[i] = x
  BY <1>1 DEF ToSet
<1>3. RemoveFirst(q, x) = RemoveAt(q, i)
  BY <1>2, RemoveFirstIsRemoveAt
<1>4. /\ RemoveAt(q, i) \in Seq(S)
      /\ ToSet(RemoveAt(q, i)) = ToSet(q) \ {q[i]}
      /\ IsInjective(RemoveAt(q, i))
      /\ Len(RemoveAt(q, i)) = Len(q) - 1
  BY RemoveAtQueue
<1> QED BY <1>2, <1>3, <1>4

\* Giving up by name where nobody is known to wait, or not only once.
LEMMA RemoveFirstAnyone ==
  ASSUME NEW S, NEW q \in Seq(S), NEW x
  PROVE  RemoveFirst(q, x) \in Seq(S) /\ Len(RemoveFirst(q, x)) <= Len(q)
<1> DEFINE I == {i \in 1..Len(q) : q[i] = x}
<1>1. Len(q) \in Nat
  BY LenProperties
<1>2. CASE I = {}
  <2>1. RemoveFirst(q, x) = q
    BY <1>2 DEF RemoveFirst
  <2> QED BY <1>1, <2>1
<1>3. CASE I # {}
  <2>1. RemoveFirst(q, x) = RemoveAt(q, Min(I))
    <3>1. SelectInSeq(q, LAMBDA v : v = x) = Min(I)
      BY <1>3 DEF SelectInSeq
    <3>2. \E i \in 1..Len(q) : q[i] = x
      BY <1>3
    <3> QED BY <3>1, <3>2 DEF RemoveFirst
  <2>2. Min(I) \in I
    <3>1. I \in SUBSET Nat
      BY <1>1
    <3> QED BY <1>3, <3>1, FirstPlace
  <2> HIDE DEF I
  <2>3. Min(I) \in 1..Len(q)
    BY <2>2 DEF I
  <2>4. RemoveAt(q, Min(I)) \in Seq(S) /\ Len(RemoveAt(q, Min(I))) = Len(q) - 1
    BY <2>3, RemoveAtPlace
  <2> QED BY <1>1, <2>1, <2>4
<1> QED BY <1>2, <1>3

\* A finite set as a queue.
LEMMA QueueOfSet ==
  ASSUME NEW S, IsFiniteSet(S)
  PROVE  SetToSeq(S) \in Seq(S)
<1> DEFINE n == Cardinality(S)
<1>1. n \in Nat /\ ExistsBijection(1..n, S)
  BY FS_NatBijection, FS_CountingElements, FS_CardinalityType
<1>2. PICK g \in Bijection(1..n, S) : TRUE
  BY <1>1 DEF ExistsBijection
<1>3. g \in [1..n -> S] /\ IsInjective(g)
  BY <1>2 DEF Bijection, Injection, IsInjective
<1>4. SetToSeq(S) \in [1..n -> S]
  BY <1>3 DEF SetToSeq
<1> HIDE DEF n
<1> QED BY <1>1, <1>4

\* Handing over: the head leaves, and it waits nowhere else in the queue.
LEMMA TailQueue ==
  ASSUME NEW S, NEW q \in Seq(S), q # <<>>, IsInjective(q)
  PROVE  /\ Head(q) \in S /\ Head(q) \in ToSet(q)
         /\ Tail(q) \in Seq(S)
         /\ ToSet(Tail(q)) = ToSet(q) \ {Head(q)}
         /\ IsInjective(Tail(q))
         /\ Len(Tail(q)) = Len(q) - 1
<1> DEFINE p == Tail(q)
<1>1. /\ p \in Seq(S) /\ Head(q) \in S
      /\ Len(p) = Len(q) - 1
      /\ \A j \in 1..Len(p) : p[j] = q[j+1]
  BY HeadTailProperties
<1>2. Len(q) \in Nat \ {0} /\ DOMAIN q = 1..Len(q) /\ DOMAIN p = 1..Len(p)
  BY <1>1, LenProperties, EmptySeq
<1>3. Head(q) = q[1]
  OBVIOUS
<1> HIDE DEF p
<1>4. ToSet(p) \subseteq ToSet(q) \ {Head(q)}
  BY <1>1, <1>2, <1>3 DEF ToSet, IsInjective
<1>5. ASSUME NEW j \in 1..Len(q), j # 1
      PROVE  q[j] \in ToSet(p)
  <2>1. j-1 \in DOMAIN p /\ p[j-1] = q[j]
    BY <1>1, <1>2, <1>5
  <2> QED BY <2>1 DEF ToSet
<1>6. ToSet(q) \ {Head(q)} \subseteq ToSet(p)
  BY <1>2, <1>3, <1>5 DEF ToSet
<1>7. IsInjective(p)
  BY <1>1, <1>2, SMTT(40) DEF IsInjective
<1>8. Head(q) \in ToSet(q)
  BY <1>2, <1>3 DEF ToSet
<1> QED BY <1>1, <1>4, <1>6, <1>7, <1>8 DEF p

\* Queueing: a newcomer joins at the end.
LEMMA AppendQueue ==
  ASSUME NEW S, NEW q \in Seq(S), NEW x \in S, IsInjective(q), x \notin ToSet(q)
  PROVE  /\ Append(q, x) \in Seq(S)
         /\ ToSet(Append(q, x)) = ToSet(q) \cup {x}
         /\ IsInjective(Append(q, x))
         /\ Len(Append(q, x)) = Len(q) + 1
<1> DEFINE p == Append(q, x)
<1>1. /\ p \in Seq(S) /\ Len(p) = Len(q) + 1
      /\ \A j \in 1..Len(q) : p[j] = q[j]
      /\ p[Len(q) + 1] = x
  BY AppendProperties
<1>2. Len(q) \in Nat /\ DOMAIN q = 1..Len(q) /\ DOMAIN p = 1..(Len(q)+1)
  BY <1>1, LenProperties
<1> HIDE DEF p
<1>3. ToSet(p) = ToSet(q) \cup {x}
  <2>1. Len(q) + 1 \in DOMAIN p
    BY <1>2
  <2>2. ToSet(q) \subseteq ToSet(p)
    BY <1>1, <1>2 DEF ToSet
  <2>3. x \in ToSet(p)
    BY <1>1, <2>1 DEF ToSet
  <2>4. ToSet(p) \subseteq ToSet(q) \cup {x}
    BY <1>1, <1>2 DEF ToSet
  <2> QED BY <2>2, <2>3, <2>4
<1>4. IsInjective(p)
  BY <1>1, <1>2 DEF IsInjective, ToSet
<1> QED BY <1>1, <1>3, <1>4 DEF p

\* The empty queue.
LEMMA EmptyQueue ==
  /\ \A S : <<>> \in Seq(S)
  /\ ToSet(<<>>) = {}
  /\ IsInjective(<<>>)
BY DEF ToSet, IsInjective

\* Somebody in the queue is at its head or behind it.
LEMMA NonEmptyQueue ==
  ASSUME NEW S, NEW q \in Seq(S)
  PROVE  q = <<>> <=> ToSet(q) = {}
<1>1. q # <<>> => Len(q) \in Nat \ {0}
  BY EmptySeq
<1>2. DOMAIN q = 1..Len(q)
  BY LenProperties
<1>3. q # <<>> => q[1] \in ToSet(q)
  BY <1>1, <1>2 DEF ToSet
<1> QED BY <1>3, EmptyQueue

\* Whoever does not wait yet finds room: a queue is no longer than its set.
LEMMA ShortQueue ==
  ASSUME NEW S, IsFiniteSet(S), NEW q \in Seq(S), IsInjective(q),
         NEW x \in S, x \notin ToSet(q)
  PROVE  Len(q) < Cardinality(S)
<1> DEFINE T == S \ {x}
<1>1. DOMAIN q = 1..Len(q) /\ Len(q) \in Nat /\ q = [i \in 1..Len(q) |-> q[i]]
  BY LenProperties
<1>2. \A i \in 1..Len(q) : q[i] \in T
  BY <1>1, ElementOfSeq DEF ToSet
<1>3. q \in [1..Len(q) -> T]
  BY <1>1, <1>2
<1>4. q \in Injection(1..Len(q), T)
  BY <1>1, <1>3 DEF Injection, IsInjective
<1>5. IsFiniteSet(T) /\ Cardinality(T) = Cardinality(S) - 1 /\ Cardinality(S) \in Nat
  BY FS_RemoveElement, FS_CardinalityType
<1>6. Cardinality(1..Len(q)) = Len(q)
  <2>1. 1 \in Int /\ Len(q) \in Int
    BY <1>1
  <2>2. Cardinality(1..Len(q)) = IF 1 > Len(q) THEN 0 ELSE Len(q) - 1 + 1
    BY <2>1, FS_Interval
  <2> QED BY <2>2, <1>1
<1>7. Cardinality(1..Len(q)) <= Cardinality(T)
  BY <1>4, <1>5, FS_Injection
<1> QED BY <1>1, <1>5, <1>6, <1>7
===============================================================================
