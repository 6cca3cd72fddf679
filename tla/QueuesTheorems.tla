-------------------------- MODULE QueuesTheorems --------------------------
(***************************************************************************)
(* What the list operators of module Queues return, for every list, and    *)
(* what holds of whatever is made step by step.                            *)
(***************************************************************************)
EXTENDS Queues, FiniteSetTheorems, SequenceTheorems,
        WellFoundedInduction, TLAPS

\* A nonempty set of naturals has a least element.
LEMMA LeastNat ==
  ASSUME NEW S, S \subseteq Nat, S # {}
  PROVE  \E m \in S : \A k \in S : m <= k
<1> DEFINE F == {1..m : m \in S}
           R == StrictSubsetOrdering(Nat)
<1>1. IsWellFoundedOn(R, FiniteSubsetsOf(Nat))
  BY FS_StrictSubsetOrderingWellFounded
<1>2. F \subseteq FiniteSubsetsOf(Nat)
  <2> SUFFICES ASSUME NEW m \in S PROVE 1..m \in FiniteSubsetsOf(Nat)
    OBVIOUS
  <2>1. m \in Int /\ 1 \in Int
    OBVIOUS
  <2>2. IsFiniteSet(1..m)
    BY <2>1, FS_Interval
  <2>3. 1..m \subseteq Nat
    OBVIOUS
  <2> QED BY <2>2, <2>3 DEF FiniteSubsetsOf
<1>3. F # {}
  OBVIOUS
<1>4. \E I \in F : \A J \in F : ~(<<J, I>> \in R)
  <2> HIDE DEF F, R
  <2> QED BY <1>1, <1>2, <1>3, WFMin
<1>5. PICK m \in S : \A k \in S : ~(<<1..k, 1..m>> \in R)
  BY <1>4
<1>6. ASSUME NEW k \in S, k < m PROVE FALSE
  <2>1. 1..k \subseteq 1..m /\ 1..k # 1..m
    <3>1. m \in 1..m /\ m \notin 1..k
      BY <1>6
    <3> QED BY <3>1, <1>6
  <2>2. 1..k \in SUBSET Nat /\ 1..m \in SUBSET Nat
    OBVIOUS
  <2> QED BY <2>1, <2>2, <1>5 DEF StrictSubsetOrdering
<1> QED BY <1>6

\* 1..n is finite and has n elements.
LEMMA IntervalSize ==
  ASSUME NEW n \in Nat
  PROVE  IsFiniteSet(1..n) /\ Cardinality(1..n) = n
<1>1. IsFiniteSet(1..n) /\ Cardinality(1..n) = IF 1 > n THEN 0 ELSE n - 1 + 1
  BY FS_Interval
<1>2. (IF 1 > n THEN 0 ELSE n - 1 + 1) = n
  OBVIOUS
<1> QED BY <1>1, <1>2

\* Two lists with the same positions have the same length.
LEMMA SameDomain ==
  ASSUME NEW S, NEW q \in Seq(S), NEW r \in Seq(S), DOMAIN q = DOMAIN r
  PROVE  Len(q) = Len(r)
<1>1. /\ DOMAIN q = 1..Len(q) /\ Len(q) \in Nat
      /\ DOMAIN r = 1..Len(r) /\ Len(r) \in Nat
  OBVIOUS
<1>2. Cardinality(1..Len(q)) = Len(q) /\ Cardinality(1..Len(r)) = Len(r)
  BY <1>1, IntervalSize
<1> QED BY <1>1, <1>2

\* A set of positions has a j-th smallest element for every j up to its size, so
\* Nth chooses one.
LEMMA NthExists ==
  ASSUME NEW n \in Nat, NEW K, K \subseteq 1..n, NEW j \in 1..Cardinality(K)
  PROVE  Nth(K, j) \in K /\ Cardinality(K \cap (1..Nth(K, j))) = j
<1> DEFINE c(m) == Cardinality(K \cap (1..m))
           S == {m \in 0..n : c(m) >= j}
<1>1. IsFiniteSet(K) /\ Cardinality(K) \in Nat
  <2>1. IsFiniteSet(1..n)
    BY FS_Interval
  <2> QED BY <2>1, FS_Subset, FS_CardinalityType
<1>2. \A m \in Nat : IsFiniteSet(K \cap (1..m)) /\ c(m) \in Nat
  BY <1>1, FS_Intersection, FS_CardinalityType
<1>3. n \in S
  <2>1. K \cap (1..n) = K
    OBVIOUS
  <2> QED BY <2>1, <1>1
<1>4. PICK m \in S : \A k \in S : m <= k
  <2>1. S \subseteq Nat
    OBVIOUS
  <2>2. S # {}
    BY <1>3
  <2> HIDE DEF S
  <2> QED BY <2>1, <2>2, LeastNat
<1>5. m # 0
  <2>1. K \cap (1..0) = {}
    OBVIOUS
  <2>2. c(0) = 0
    BY <2>1, FS_EmptySet
  <2> QED BY <2>2
<1>6. m - 1 \in 0..n /\ c(m - 1) < j
  <2>1. m - 1 \in 0..n /\ m - 1 \in Nat
    BY <1>5
  <2>2. m - 1 \notin S
    BY <1>4, <1>5
  <2> QED BY <2>1, <2>2, <1>2
<1>7. c(m) <= c(m - 1) + (IF m \in K THEN 1 ELSE 0)
  <2>1. IsFiniteSet(K \cap (1..(m - 1))) /\ m - 1 \in Nat
    BY <1>6, <1>2
  <2>2. CASE m \in K
    <3>1. K \cap (1..m) = (K \cap (1..(m - 1))) \cup {m}
      BY <2>2, <1>5
    <3>2. m \notin K \cap (1..(m - 1))
      OBVIOUS
    <3>3. c(m) = c(m - 1) + 1
      BY <2>1, <3>1, <3>2, FS_AddElement
    <3> QED BY <3>3, <2>2, <2>1, <1>2
  <2>3. CASE m \notin K
    <3>1. K \cap (1..m) = K \cap (1..(m - 1))
      BY <2>3, <1>5
    <3> QED BY <3>1, <2>3, <2>1, <1>2
  <2> QED BY <2>2, <2>3
<1>8. m \in K /\ c(m) = j
  <2>1. m \in Nat /\ m - 1 \in Nat /\ j \in Nat
    BY <1>1, <1>5
  <2>2. c(m) \in Nat /\ c(m - 1) \in Nat
    BY <1>2, <2>1
  <2>3. c(m) >= j
    OBVIOUS
  <2> HIDE DEF c
  <2> QED BY <1>6, <1>7, <2>1, <2>2, <2>3
<1> QED BY <1>8 DEF Nth

\* Keep returns a list of the kept entries, one for each position it keeps.
LEMMA KeepType ==
  ASSUME NEW S, NEW q \in Seq(S), NEW K, K \subseteq DOMAIN q
  PROVE  /\ Keep(q, K) \in Seq({q[i] : i \in K})
         /\ Keep(q, K) \in Seq(S)
         /\ Len(Keep(q, K)) = Cardinality(K)
         /\ Cardinality(K) \in 0..Len(q)
<1> DEFINE n == Cardinality(K)
<1>1. DOMAIN q = 1..Len(q) /\ Len(q) \in Nat
  OBVIOUS
<1>2. n \in Nat /\ n <= Len(q)
  <2>1. IsFiniteSet(1..Len(q)) /\ Cardinality(1..Len(q)) = Len(q)
    BY <1>1, IntervalSize
  <2>2. IsFiniteSet(K) /\ n <= Len(q)
    BY <1>1, <2>1, FS_Subset
  <2> QED BY <2>2, FS_CardinalityType
<1>3. \A j \in 1..n : Nth(K, j) \in K
  BY <1>1, NthExists
<1>4. Keep(q, K) \in [1..n -> {q[i] : i \in K}]
  BY <1>3 DEF Keep
<1>5. {q[i] : i \in K} \subseteq S
  OBVIOUS
<1> HIDE DEF n
<1>6. Keep(q, K) \in Seq({q[i] : i \in K}) /\ Len(Keep(q, K)) = n
  BY <1>2, <1>4
<1> QED BY <1>2, <1>5, <1>6 DEF n

\* Purge leaves a list without the entries of Out, and adds none.
LEMMA PurgeType ==
  ASSUME NEW S, NEW q \in Seq(S), NEW Out
  PROVE  /\ Purge(q, Out) \in Seq(S)
         /\ Elems(Purge(q, Out)) \subseteq Elems(q) \ Out
         /\ Len(Purge(q, Out)) \in 0..Len(q)
<1> DEFINE K == {i \in DOMAIN q : q[i] \notin Out}
           T == {q[i] : i \in K}
<1>1. /\ Keep(q, K) \in Seq(T) /\ Keep(q, K) \in Seq(S)
      /\ Len(Keep(q, K)) \in 0..Len(q)
  <2>1. K \subseteq DOMAIN q
    OBVIOUS
  <2> HIDE DEF K
  <2> QED BY <2>1, KeepType
<1>2. T \subseteq Elems(q) \ Out
  BY DEF Elems
<1>3. Elems(Keep(q, K)) \subseteq T
  <2> HIDE DEF T, K
  <2> QED BY <1>1 DEF Elems
<1> QED BY <1>1, <1>2, <1>3 DEF Purge

\* irlist_delete takes one entry out and keeps the others.
LEMMA DropType ==
  ASSUME NEW S, NEW q \in Seq(S), NEW i \in DOMAIN q
  PROVE  /\ Drop(q, i) \in Seq(S)
         /\ Elems(Drop(q, i)) \subseteq Elems(q)
         /\ Len(Drop(q, i)) = Len(q) - 1
<1> DEFINE K == DOMAIN q \ {i}
<1>1. Cardinality(K) = Len(q) - 1
  <2>1. DOMAIN q = 1..Len(q) /\ Len(q) \in Nat
    OBVIOUS
  <2>2. IsFiniteSet(1..Len(q)) /\ Cardinality(1..Len(q)) = Len(q)
    BY <2>1, IntervalSize
  <2>3. i \in 1..Len(q)
    BY <2>1
  <2>4. Cardinality((1..Len(q)) \ {i}) = Cardinality(1..Len(q)) - 1
    BY <2>2, <2>3, FS_RemoveElement
  <2> QED BY <2>1, <2>2, <2>4
<1>2. /\ Keep(q, K) \in Seq({q[j] : j \in K}) /\ Keep(q, K) \in Seq(S)
      /\ Len(Keep(q, K)) = Cardinality(K)
  <2>1. K \subseteq DOMAIN q
    OBVIOUS
  <2> HIDE DEF K
  <2> QED BY <2>1, KeepType
<1>3. {q[j] : j \in K} \subseteq Elems(q)
  BY DEF Elems
<1>4. Elems(Keep(q, K)) \subseteq {q[j] : j \in K}
  <2> HIDE DEF K
  <2> QED BY <1>2 DEF Elems
<1> QED BY <1>1, <1>2, <1>3, <1>4 DEF Drop

\* First is the least of the positions a forward search accepts.
LEMMA FirstType ==
  ASSUME NEW K, K \subseteq Nat, K # {}
  PROVE  First(K) \in K /\ \A j \in K : First(K) <= j
<1>1. PICK m \in K : \A j \in K : m <= j
  BY LeastNat
<1> QED BY <1>1 DEF First

\* Count is a number no greater than the length of the list.
LEMMA CountType ==
  ASSUME NEW T, NEW q \in Seq(T), NEW S
  PROVE  /\ IsFiniteSet({i \in DOMAIN q : q[i] \in S})
         /\ Count(q, S) \in Nat /\ Count(q, S) <= Len(q)
<1>1. DOMAIN q = 1..Len(q) /\ Len(q) \in Nat
  OBVIOUS
<1>2. {i \in DOMAIN q : q[i] \in S} \in SUBSET (1..Len(q))
  BY <1>1
<1>3. IsFiniteSet(1..Len(q)) /\ Cardinality(1..Len(q)) = Len(q)
  BY <1>1, IntervalSize
<1>4. /\ IsFiniteSet({i \in DOMAIN q : q[i] \in S})
      /\ Cardinality({i \in DOMAIN q : q[i] \in S}) <= Len(q)
  BY <1>2, <1>3, FS_Subset
<1> QED BY <1>1, <1>4, FS_CardinalityType DEF Count

\* An appended entry counts once.
LEMMA CountAppend ==
  ASSUME NEW T, NEW q \in Seq(T), NEW x \in T, NEW S
  PROVE  Count(Append(q, x), S) = Count(q, S) + (IF x \in S THEN 1 ELSE 0)
<1> DEFINE r == Append(q, x)
           A == {i \in DOMAIN q : q[i] \in S}
           B == {i \in DOMAIN r : r[i] \in S}
<1>1. DOMAIN q = 1..Len(q) /\ Len(q) \in Nat /\ DOMAIN r = 1..(Len(q) + 1)
  OBVIOUS
<1>2. \A i \in 1..Len(q) : r[i] = q[i]
  OBVIOUS
<1>3. r[Len(q) + 1] = x
  OBVIOUS
<1>4. IsFiniteSet(A) /\ Cardinality(A) \in Nat
  BY CountType, FS_CardinalityType
<1> HIDE DEF r
<1>5. CASE x \in S
  <2>1. B = A \cup {Len(q) + 1}
    BY <1>1, <1>2, <1>3, <1>5
  <2>2. Len(q) + 1 \notin A
    BY <1>1
  <2>3. Cardinality(B) = Cardinality(A) + 1
    BY <1>4, <2>1, <2>2, FS_AddElement
  <2> QED BY <1>5, <2>3 DEF Count, r
<1>6. CASE x \notin S
  <2>1. B = A
    BY <1>1, <1>2, <1>3, <1>6
  <2>2. Count(r, S) = Count(q, S)
    BY <2>1 DEF Count
  <2>3. Count(q, S) \in Nat
    BY <1>4 DEF Count
  <2> QED BY <1>6, <2>2, <2>3 DEF r
<1> QED BY <1>5, <1>6

\* Keeping some entries never raises a count.
LEMMA CountKeep ==
  ASSUME NEW T, NEW q \in Seq(T), NEW K, K \subseteq DOMAIN q, NEW S
  PROVE  Count(Keep(q, K), S) <= Count(q, S)
<1> DEFINE r == Keep(q, K)
           A == {i \in DOMAIN q : q[i] \in S}
           B == {j \in DOMAIN r : r[j] \in S}
           f == [j \in B |-> Nth(K, j)]
<1>1. /\ DOMAIN q = 1..Len(q) /\ Len(q) \in Nat
      /\ DOMAIN r = 1..Cardinality(K)
      /\ \A j \in 1..Cardinality(K) : r[j] = q[Nth(K, j)]
  BY DEF Keep
<1>2. \A j \in 1..Cardinality(K) :
        Nth(K, j) \in K /\ Cardinality(K \cap (1..Nth(K, j))) = j
  BY <1>1, NthExists
<1> HIDE DEF r
<1>3. f \in [B -> A]
  BY <1>1, <1>2
<1>4. \A j, k \in B : f[j] = f[k] => j = k
  <2> SUFFICES ASSUME NEW j \in B, NEW k \in B, f[j] = f[k] PROVE j = k
    OBVIOUS
  <2>1. Nth(K, j) = Nth(K, k) /\ j \in 1..Cardinality(K) /\ k \in 1..Cardinality(K)
    BY <1>1
  <2> QED BY <1>2, <2>1
<1>5. f \in Injection(B, A)
  BY <1>3, <1>4 DEF Injection, IsInjective
<1>6. IsFiniteSet(A)
  BY CountType
<1>7. Cardinality(B) <= Cardinality(A)
  BY <1>5, <1>6, FS_Injection
<1> QED BY <1>7 DEF Count, r

\* Nor does deleting one.
LEMMA CountDrop ==
  ASSUME NEW T, NEW q \in Seq(T), NEW i \in DOMAIN q, NEW S
  PROVE  Count(Drop(q, i), S) <= Count(q, S)
<1>1. DOMAIN q \ {i} \subseteq DOMAIN q
  OBVIOUS
<1> QED BY <1>1, CountKeep DEF Drop

\* Nor does deleting every entry of a kind.
LEMMA CountPurge ==
  ASSUME NEW T, NEW q \in Seq(T), NEW Out, NEW S
  PROVE  Count(Purge(q, Out), S) <= Count(q, S)
<1>1. {i \in DOMAIN q : q[i] \notin Out} \subseteq DOMAIN q
  OBVIOUS
<1> QED BY <1>1, CountKeep DEF Purge

\* A wider criterion counts at least as many.
LEMMA CountSubset ==
  ASSUME NEW T, NEW q \in Seq(T), NEW S, NEW R, S \subseteq R
  PROVE  Count(q, S) <= Count(q, R)
<1> DEFINE A == {i \in DOMAIN q : q[i] \in S}
           B == {i \in DOMAIN q : q[i] \in R}
<1>1. A \in SUBSET B
  OBVIOUS
<1>2. IsFiniteSet(B)
  BY CountType
<1>3. Cardinality(A) <= Cardinality(B)
  BY <1>1, <1>2, FS_Subset
<1> QED BY <1>3 DEF Count

\* The elements of a list with one more entry.
LEMMA AppendElems ==
  ASSUME NEW T, NEW q \in Seq(T), NEW x \in T
  PROVE  Elems(Append(q, x)) = Elems(q) \cup {x}
<1> DEFINE r == Append(q, x)
<1>1. DOMAIN q = 1..Len(q) /\ Len(q) \in Nat /\ DOMAIN r = 1..(Len(q) + 1)
  OBVIOUS
<1>2. (\A i \in 1..Len(q) : r[i] = q[i]) /\ r[Len(q) + 1] = x
  OBVIOUS
<1> HIDE DEF r
<1>3. Elems(r) = Elems(q) \cup {x}
  BY <1>1, <1>2 DEF Elems
<1> QED BY <1>3 DEF r

\* InsertAt returns a list, with no other new element than x.
LEMMA InsertElems ==
  ASSUME NEW T, NEW q \in Seq(T), NEW n \in 1..(Len(q) + 1), NEW x \in T
  PROVE  /\ InsertAt(q, n, x) \in Seq(T)
         /\ Elems(InsertAt(q, n, x)) \subseteq Elems(q) \cup {x}
<1> DEFINE U == Elems(q) \cup {x}
           front == SubSeq(q, 1, n - 1)
           back == SubSeq(q, n, Len(q))
<1>1. Len(q) \in Nat /\ n \in Nat /\ \A i \in 1..Len(q) : q[i] \in U /\ q[i] \in T
  BY DEF Elems
<1>2. U \subseteq T
  BY DEF Elems
<1> HIDE DEF U
<1>3. front \in Seq(U)
  <2>1. \A i \in 1..(n - 1) : q[i] \in U
    BY <1>1
  <2> QED BY <1>1, <2>1, SubSeqProperties
<1>4. back \in Seq(U)
  <2>1. \A i \in n..Len(q) : q[i] \in U
    BY <1>1
  <2> QED BY <1>1, <2>1, SubSeqProperties
<1>5. <<x>> \in Seq(U)
  BY DEF U
<1> DEFINE r == front \o <<x>> \o back
<1>6. r \in Seq(U)
  <2> HIDE DEF front, back
  <2>1. front \o <<x>> \in Seq(U)
    BY <1>3, <1>5, ConcatProperties
  <2> QED BY <2>1, <1>4, ConcatProperties
<1> HIDE DEF r
<1>7. Elems(r) \subseteq U /\ r \in Seq(T)
  BY <1>2, <1>6 DEF Elems
<1>8. InsertAt(q, n, x) = r
  BY DEF InsertAt, r
<1> QED BY <1>7, <1>8 DEF U

\* Different elements of a set of positions are the j-th smallest for different j.
LEMMA NthUnique ==
  ASSUME NEW n \in Nat, NEW K, K \subseteq 1..n, NEW i \in K, NEW k \in K,
         Cardinality(K \cap (1..i)) = Cardinality(K \cap (1..k))
  PROVE  i = k
<1>1. ASSUME NEW a \in K, NEW b \in K, a < b
      PROVE  Cardinality(K \cap (1..a)) # Cardinality(K \cap (1..b))
  <2>1. K \cap (1..a) \in SUBSET (K \cap (1..b))
    BY <1>1
  <2>2. b \in K \cap (1..b) /\ b \notin K \cap (1..a)
    BY <1>1
  <2>3. IsFiniteSet(K \cap (1..b))
    <3>1. IsFiniteSet(1..n)
      BY IntervalSize
    <3>2. K \cap (1..b) \in SUBSET (1..n)
      OBVIOUS
    <3> QED BY <3>1, <3>2, FS_Subset
  <2> QED BY <2>1, <2>2, <2>3, FS_Subset
<1>2. i \in Nat /\ k \in Nat
  OBVIOUS
<1> QED BY <1>1, <1>2

\* Keep keeps every position of K once: it counts what K counts.
LEMMA CountKept ==
  ASSUME NEW T, NEW q \in Seq(T), NEW K, K \subseteq DOMAIN q, NEW S
  PROVE  Count(Keep(q, K), S) = Cardinality({i \in K : q[i] \in S})
<1> DEFINE r == Keep(q, K)
           A == {i \in K : q[i] \in S}
           B == {j \in DOMAIN r : r[j] \in S}
           f == [j \in B |-> Nth(K, j)]
           c(i) == Cardinality(K \cap (1..i))
<1>1. /\ DOMAIN q = 1..Len(q) /\ Len(q) \in Nat
      /\ DOMAIN r = 1..Cardinality(K)
      /\ \A j \in 1..Cardinality(K) : r[j] = q[Nth(K, j)]
  BY DEF Keep
<1>2. \A j \in 1..Cardinality(K) : Nth(K, j) \in K /\ c(Nth(K, j)) = j
  BY <1>1, NthExists
<1>3. \A i \in K : c(i) \in 1..Cardinality(K) /\ Nth(K, c(i)) = i
  <2> SUFFICES ASSUME NEW i \in K PROVE c(i) \in 1..Cardinality(K) /\ Nth(K, c(i)) = i
    OBVIOUS
  <2>1. IsFiniteSet(K) /\ Cardinality(K) \in Nat
    <3>1. IsFiniteSet(1..Len(q)) /\ K \in SUBSET (1..Len(q))
      BY <1>1, IntervalSize
    <3> QED BY <3>1, FS_Subset, FS_CardinalityType
  <2>2. K \cap (1..i) \in SUBSET K /\ i \in K \cap (1..i)
    BY <1>1
  <2>3. /\ IsFiniteSet(K \cap (1..i)) /\ c(i) <= Cardinality(K) /\ c(i) \in Nat
        /\ c(i) # 0
    BY <2>1, <2>2, FS_Subset, FS_CardinalityType, FS_EmptySet
  <2>4. c(i) \in 1..Cardinality(K)
    <3> HIDE DEF c
    <3> QED BY <2>1, <2>3
  <2>5. Nth(K, c(i)) \in K /\ c(Nth(K, c(i))) = c(i)
    BY <1>2, <2>4
  <2> DEFINE m == Nth(K, c(i))
  <2>6. m \in K /\ Cardinality(K \cap (1..m)) = Cardinality(K \cap (1..i))
    BY <2>5
  <2> HIDE DEF m
  <2>7. m = i
    BY <1>1, <2>6, NthUnique
  <2> QED BY <2>4, <2>7 DEF m
<1> HIDE DEF r, c
<1>4. f \in [B -> A]
  BY <1>1, <1>2
<1>5. \A j, k \in B : f[j] = f[k] => j = k
  <2> SUFFICES ASSUME NEW j \in B, NEW k \in B, f[j] = f[k] PROVE j = k
    OBVIOUS
  <2>1. Nth(K, j) = Nth(K, k) /\ j \in 1..Cardinality(K) /\ k \in 1..Cardinality(K)
    BY <1>1
  <2> QED BY <1>2, <2>1
<1>6. \A i \in A : \E j \in B : f[j] = i
  <2> SUFFICES ASSUME NEW i \in A PROVE c(i) \in B /\ f[c(i)] = i
    OBVIOUS
  <2>1. c(i) \in 1..Cardinality(K) /\ Nth(K, c(i)) = i
    BY <1>3
  <2>2. c(i) \in B
    BY <1>1, <2>1
  <2> QED BY <2>1, <2>2
<1>7. ExistsBijection(B, A)
  BY <1>4, <1>5, <1>6 DEF ExistsBijection, Bijection, Injection, IsInjective, Surjection
<1>8. IsFiniteSet(B)
  <2>1. r \in Seq(T)
    BY KeepType DEF r
  <2> QED BY <2>1, CountType
<1>9. Cardinality(A) = Cardinality(B)
  BY <1>7, <1>8, FS_Bijection
<1> QED BY <1>9 DEF Count, r

\* Deleting an entry takes away exactly that one.
LEMMA CountDropped ==
  ASSUME NEW T, NEW q \in Seq(T), NEW i \in DOMAIN q, NEW S
  PROVE  Count(Drop(q, i), S) = Count(q, S) - (IF q[i] \in S THEN 1 ELSE 0)
<1> DEFINE A == {k \in DOMAIN q : q[k] \in S}
           B == {k \in DOMAIN q \ {i} : q[k] \in S}
<1>1. Count(Drop(q, i), S) = Cardinality(B)
  <2>1. DOMAIN q \ {i} \subseteq DOMAIN q
    OBVIOUS
  <2> QED BY <2>1, CountKept DEF Drop
<1>2. IsFiniteSet(A) /\ Cardinality(A) \in Nat /\ Count(q, S) = Cardinality(A)
  BY CountType DEF Count
<1>3. B = A \ {i} /\ (i \in A <=> q[i] \in S)
  OBVIOUS
<1> HIDE DEF A, B
<1>4. Cardinality(B) = IF i \in A THEN Cardinality(A) - 1 ELSE Cardinality(A)
  BY <1>2, <1>3, FS_RemoveElement
<1> QED BY <1>1, <1>2, <1>3, <1>4

\* An inserted entry counts once, wherever it is put.
LEMMA CountInserted ==
  ASSUME NEW T, NEW q \in Seq(T), NEW n \in 1..(Len(q) + 1), NEW x \in T, NEW S
  PROVE  Count(InsertAt(q, n, x), S) = Count(q, S) + (IF x \in S THEN 1 ELSE 0)
<1> DEFINE r == InsertAt(q, n, x)
           A == {i \in DOMAIN q : q[i] \in S}
           B == {i \in DOMAIN r : r[i] \in S}
           C == B \ {n}
           f == [i \in A |-> IF i < n THEN i ELSE i + 1]
           front == SubSeq(q, 1, n - 1)
           back == SubSeq(q, n, Len(q))
<1>1. /\ DOMAIN q = 1..Len(q) /\ Len(q) \in Nat /\ n \in Nat /\ n >= 1 /\ n <= Len(q) + 1
      /\ \A i \in 1..Len(q) : q[i] \in T
  OBVIOUS
<1>2. /\ front \in Seq(T) /\ Len(front) = n - 1
      /\ \A i \in 1..(n - 1) : front[i] = q[i]
  <2>1. \A i \in 1..(n - 1) : q[i] \in T
    BY <1>1
  <2> QED BY <1>1, <2>1, SubSeqProperties
<1>3. /\ back \in Seq(T) /\ Len(back) = Len(q) - n + 1
      /\ \A i \in 1..(Len(q) - n + 1) : back[i] = q[n + i - 1]
  <2>1. \A i \in n..Len(q) : q[i] \in T
    BY <1>1
  <2> QED BY <1>1, <2>1, SubSeqProperties
<1> HIDE DEF front, back
<1> DEFINE g == front \o <<x>>
<1>4. /\ g \in Seq(T) /\ Len(g) = n
      /\ \A i \in 1..n : g[i] = IF i < n THEN front[i] ELSE x
  BY <1>1, <1>2
<1> HIDE DEF g
<1>5. /\ g \o back \in Seq(T) /\ Len(g \o back) = Len(q) + 1
      /\ \A i \in 1..(Len(q) + 1) : (g \o back)[i] = IF i <= n THEN g[i] ELSE back[i - n]
  BY <1>1, <1>3, <1>4
<1>6. r = g \o back
  BY DEF InsertAt, g, front, back
<1>7. r \in Seq(T) /\ DOMAIN r = 1..(Len(q) + 1)
  BY <1>1, <1>5, <1>6
<1>8. r[n] = x /\ n \in DOMAIN r
  BY <1>1, <1>4, <1>5, <1>6, <1>7
<1>9. ASSUME NEW i \in 1..Len(q)
      PROVE  /\ i < n => r[i] = q[i]
             /\ i >= n => r[i + 1] = q[i]
  <2> HIDE DEF r
  <2>1. CASE i < n
    <3>1. i \in 1..(n - 1) /\ i \in 1..n /\ i \in 1..(Len(q) + 1) /\ i <= n /\ ~(i >= n)
      BY <1>1, <2>1
    <3>2. g[i] = front[i] /\ front[i] = q[i]
      BY <1>2, <1>4, <2>1, <3>1
    <3>3. (g \o back)[i] = g[i]
      BY <1>5, <3>1
    <3> QED BY <1>6, <3>1, <3>2, <3>3
  <2>2. CASE i >= n
    <3>0. /\ i + 1 - n \in 1..(Len(q) - n + 1)
          /\ i + 1 \in 1..(Len(q) + 1) /\ ~(i + 1 <= n)
      BY <1>1, <2>2
    <3>1. r[i + 1] = back[i + 1 - n]
      BY <1>5, <1>6, <3>0
    <3> DEFINE k == i + 1 - n
    <3>2. back[k] = q[n + k - 1]
      BY <1>3, <3>0
    <3>3. n + k - 1 = i
      BY <1>1
    <3> QED BY <3>1, <3>2, <3>3, <2>2, <1>1
  <2> QED BY <2>1, <2>2, <1>1
<1> HIDE DEF r
<1>10. f \in [A -> C]
  <2> SUFFICES ASSUME NEW i \in A PROVE (IF i < n THEN i ELSE i + 1) \in C
    OBVIOUS
  <2>1. i \in 1..Len(q) /\ q[i] \in S /\ i \in Nat
    BY <1>1
  <2>2. CASE i < n
    BY <1>1, <1>7, <1>9, <2>1, <2>2
  <2>3. CASE i >= n
    BY <1>1, <1>7, <1>9, <2>1, <2>3
  <2> QED BY <1>1, <2>1, <2>2, <2>3
<1>11. \A i, k \in A : f[i] = f[k] => i = k
  BY <1>1
<1>12. \A j \in C : \E i \in A : f[i] = j
  <2> SUFFICES ASSUME NEW j \in C PROVE \E i \in A : f[i] = j
    OBVIOUS
  <2>1. j \in 1..(Len(q) + 1) /\ r[j] \in S /\ j # n /\ j \in Nat
    BY <1>7
  <2>2. CASE j < n
    <3>1. j \in A
      BY <1>1, <1>9, <2>1, <2>2
    <3> QED BY <2>2, <3>1
  <2>3. CASE j > n
    <3> DEFINE i == j - 1
    <3>1. i \in 1..Len(q) /\ i >= n /\ i + 1 = j
      BY <1>1, <2>1, <2>3
    <3> HIDE DEF i
    <3>2. i \in A
      BY <1>1, <1>9, <2>1, <3>1
    <3>3. f[i] = j
      BY <3>1, <3>2, <1>1
    <3> QED BY <3>2, <3>3
  <2> QED BY <2>1, <2>2, <2>3, <1>1
<1>13. IsFiniteSet(A) /\ Cardinality(A) \in Nat /\ Count(q, S) = Cardinality(A)
  BY CountType DEF Count
<1>14. IsFiniteSet(C) /\ Cardinality(C) = Cardinality(A)
  <2>1. ExistsBijection(A, C)
    BY <1>10, <1>11, <1>12 DEF ExistsBijection, Bijection, Injection, IsInjective, Surjection
  <2> QED BY <1>13, <2>1, FS_Bijection
<1>15. B = IF x \in S THEN C \cup {n} ELSE C
  BY <1>8
<1>16. Count(r, S) = Cardinality(B)
  BY DEF Count
<1>17. n \notin C
  OBVIOUS
<1> HIDE DEF A, B, C
<1>18. Cardinality(C \cup {n}) = Cardinality(C) + 1
  BY <1>14, <1>17, FS_AddElement
<1> QED BY <1>13, <1>14, <1>15, <1>16, <1>18 DEF r

\* Two entries of a kind count two, one counts one.
LEMMA CountSeen ==
  ASSUME NEW T, NEW q \in Seq(T), NEW S, NEW i \in DOMAIN q, q[i] \in S
  PROVE  /\ Count(q, S) >= 1
         /\ \A j \in DOMAIN q : j # i /\ q[j] \in S => Count(q, S) >= 2
<1> DEFINE A == {k \in DOMAIN q : q[k] \in S}
<1>1. IsFiniteSet(A) /\ Cardinality(A) \in Nat /\ Count(q, S) = Cardinality(A)
  BY CountType DEF Count
<1>2. i \in A
  OBVIOUS
<1>3. /\ IsFiniteSet(A \ {i}) /\ Cardinality(A \ {i}) = Cardinality(A) - 1
      /\ Cardinality(A \ {i}) \in Nat
  <2> HIDE DEF A
  <2> QED BY <1>1, <1>2, FS_RemoveElement, FS_CardinalityType
<1>4. ASSUME NEW j \in DOMAIN q, j # i, q[j] \in S PROVE Cardinality(A \ {i}) # 0
  <2>1. j \in A \ {i}
    BY <1>4
  <2> HIDE DEF A
  <2> QED BY <1>3, <2>1, FS_EmptySet
<1>5. Count(q, S) >= 1
  <2> HIDE DEF A
  <2> QED BY <1>1, <1>3
<1>6. ASSUME NEW j \in DOMAIN q, j # i, q[j] \in S PROVE Count(q, S) >= 2
  <2>1. Cardinality(A \ {i}) # 0
    BY <1>4, <1>6
  <2> HIDE DEF A
  <2> QED BY <1>1, <1>3, <2>1
<1> QED BY <1>5, <1>6

\* No entry of a kind counts nothing.
LEMMA CountNone ==
  ASSUME NEW q, NEW S, \A i \in DOMAIN q : q[i] \notin S
  PROVE  Count(q, S) = 0
<1>1. {i \in DOMAIN q : q[i] \in S} = {}
  OBVIOUS
<1> QED BY <1>1, FS_EmptySet DEF Count

\* Changing one entry changes the count by that entry.
LEMMA CountChanged ==
  ASSUME NEW T, NEW q \in Seq(T), NEW i \in DOMAIN q, NEW x \in T, NEW S
  PROVE  /\ [q EXCEPT ![i] = x] \in Seq(T) /\ Len([q EXCEPT ![i] = x]) = Len(q)
         /\ Count([q EXCEPT ![i] = x], S) =
              Count(q, S) - (IF q[i] \in S THEN 1 ELSE 0) + (IF x \in S THEN 1 ELSE 0)
<1> DEFINE r == [q EXCEPT ![i] = x]
           A == {k \in DOMAIN q : q[k] \in S}
           B == {k \in DOMAIN r : r[k] \in S}
           C == {k \in DOMAIN q \ {i} : q[k] \in S}
<1>1. /\ r \in Seq(T) /\ Len(r) = Len(q) /\ DOMAIN r = DOMAIN q /\ r[i] = x
      /\ \A k \in DOMAIN q : k # i => r[k] = q[k]
  OBVIOUS
<1> HIDE DEF r
<1>2. IsFiniteSet(A) /\ Count(q, S) = Cardinality(A) /\ Count(r, S) = Cardinality(B)
  BY CountType DEF Count
<1>3. C = A \ {i} /\ C = B \ {i}
  BY <1>1
<1>4. (i \in A <=> q[i] \in S) /\ (i \in B <=> x \in S)
  BY <1>1
<1>5. IsFiniteSet(C) /\ i \notin C
  BY <1>2, <1>3, FS_Subset
<1>6. IsFiniteSet(C \cup {i}) /\ Cardinality(C \cup {i}) = Cardinality(C) + 1 /\ Cardinality(C) \in Nat
  BY <1>5, FS_AddElement, FS_CardinalityType
<1>7. Cardinality(A) = Cardinality(C) + (IF q[i] \in S THEN 1 ELSE 0)
  <2>1. CASE q[i] \in S
    <3>1. A = C \cup {i}
      BY <1>3, <1>4, <2>1
    <3> HIDE DEF A, B, C
    <3> QED BY <1>6, <2>1, <3>1
  <2>2. CASE q[i] \notin S
    <3>1. A = C
      BY <1>3, <1>4, <2>2
    <3> HIDE DEF A, B, C
    <3> QED BY <1>6, <2>2, <3>1
  <2> QED BY <2>1, <2>2
<1>8. Cardinality(B) = Cardinality(C) + (IF x \in S THEN 1 ELSE 0)
  <2>1. CASE x \in S
    <3>1. B = C \cup {i}
      BY <1>3, <1>4, <2>1
    <3> HIDE DEF A, B, C
    <3> QED BY <1>6, <2>1, <3>1
  <2>2. CASE x \notin S
    <3>1. B = C
      BY <1>3, <1>4, <2>2
    <3> HIDE DEF A, B, C
    <3> QED BY <1>6, <2>2, <3>1
  <2> QED BY <2>1, <2>2
<1>9. Count(r, S) = Count(q, S) - (IF q[i] \in S THEN 1 ELSE 0) + (IF x \in S THEN 1 ELSE 0)
  <2> HIDE DEF A, B, C
  <2> QED BY <1>2, <1>6, <1>7, <1>8
<1> QED BY <1>1, <1>9 DEF r
-----------------------------------------------------------------------------
(* What is done step by step *)

\* From 0 up to n, one after another.
LEMMA Climb ==
  ASSUME NEW n \in Nat, NEW P, 0 \in P, \A k \in 1..n : k - 1 \in P => k \in P
  PROVE  0..n \subseteq P
<1> DEFINE Bad == {m \in 0..n : m \notin P}
<1>1. ASSUME Bad # {} PROVE FALSE
  <2>1. PICK m \in Bad : \A i \in Bad : m <= i
    <3>1. Bad \subseteq Nat
      OBVIOUS
    <3> QED BY <1>1, <3>1, LeastNat
  <2>2. m \in 1..n /\ m - 1 \in 0..n /\ m - 1 < m
    BY <2>1
  <2>3. m - 1 \notin Bad
    <3> HIDE DEF Bad
    <3> QED BY <2>1, <2>2
  <2> QED BY <2>1, <2>2, <2>3
<1> QED BY <1>1

StepsOf(n, S) == [1..n -> [S -> S]]
Made(n, S, x, D) ==
  /\ \E f \in [0..n -> S] : f[0] = x /\ \A k \in 1..n : f[k] = D[k][f[k - 1]]
  /\ \A g : g[0] = x /\ (\A k \in 1..n : g[k - 1] \in S => g[k] = D[k][g[k - 1]])
              => \A k \in 0..n : g[k] \in S

\* What is made step by step, each time from what there is, can be made, and stays
\* in a set that no step leaves.
LEMMA Iterated ==
  ASSUME NEW n \in Nat, NEW S, NEW x \in S, NEW D \in StepsOf(n, S)
  PROVE  Made(n, S, x, D)
<1> DEFINE Is(f, m) == f[0] = x /\ \A k \in 1..m : f[k] = D[k][f[k - 1]]
           P == {m \in 0..n : \E f \in [0..m -> S] : Is(f, m)}
<1>1. 0 \in P
  <2> DEFINE f == [k \in 0..0 |-> x]
  <2>1. f \in [0..0 -> S] /\ Is(f, 0)
    OBVIOUS
  <2> HIDE DEF f, Is
  <2> QED BY <2>1
<1>0. D \in [1..n -> [S -> S]]
  BY DEF StepsOf
<1>2. ASSUME NEW m \in 1..n, m - 1 \in P PROVE m \in P
  <2>1. PICK f \in [0..(m - 1) -> S] : Is(f, m - 1)
    BY <1>2
  <2> DEFINE g == [k \in 0..m |-> IF k = m THEN D[m][f[m - 1]] ELSE f[k]]
  <2>2. m - 1 \in 0..(m - 1) /\ D[m][f[m - 1]] \in S
    BY <1>0
  <2>3. ASSUME NEW k \in 0..m PROVE g[k] \in S
    <3>1. CASE k = m
      BY <2>2, <3>1
    <3>2. CASE k # m
      <4>1. k \in 0..(m - 1)
        BY <3>2
      <4> QED BY <3>2, <4>1
    <3> QED BY <3>1, <3>2
  <2>4. g[0] = x
    BY <2>1
  <2>5. ASSUME NEW k \in 1..m PROVE g[k] = D[k][g[k - 1]]
    <3>1. k - 1 \in 0..m /\ k - 1 # m /\ k \in 0..m
      OBVIOUS
    <3>2. g[k - 1] = f[k - 1]
      BY <3>1
    <3>3. CASE k = m
      BY <3>1, <3>2, <3>3
    <3>4. CASE k # m
      <4>1. k \in 1..(m - 1)
        BY <3>4
      <4>2. g[k] = f[k] /\ f[k] = D[k][f[k - 1]]
        BY <2>1, <3>1, <3>4, <4>1
      <4> QED BY <3>2, <4>2
    <3> QED BY <3>3, <3>4
  <2>6. g \in [0..m -> S]
    <3>1. DOMAIN g = 0..m /\ g = [k \in 0..m |-> g[k]]
      OBVIOUS
    <3> HIDE DEF g
    <3> QED BY <2>3, <3>1
  <2> HIDE DEF g
  <2>7. Is(g, m) /\ m \in 0..n
    BY <2>4, <2>5
  <2> HIDE DEF Is
  <2> QED BY <2>6, <2>7
<1>3. n \in P
  <2> HIDE DEF P
  <2>1. 0..n \subseteq P
    BY <1>1, <1>2, Climb
  <2> QED BY <2>1
<1>4. ASSUME NEW g, g[0] = x, \A k \in 1..n : g[k - 1] \in S => g[k] = D[k][g[k - 1]]
      PROVE  \A k \in 0..n : g[k] \in S
  <2> DEFINE Q == {k \in 0..n : g[k] \in S}
  <2>1. 0 \in Q
    BY <1>4
  <2>2. ASSUME NEW k \in 1..n, k - 1 \in Q PROVE k \in Q
    BY <1>0, <1>4, <2>2
  <2>3. 0..n \subseteq Q
    <3> HIDE DEF Q
    <3> QED BY <2>1, <2>2, Climb
  <2> QED BY <2>3
<1> QED BY <1>3, <1>4 DEF Made

\* An entry that is kept is still there.
LEMMA KeepFinds ==
  ASSUME NEW T, NEW q \in Seq(T), NEW K, K \subseteq DOMAIN q, NEW i \in K
  PROVE  \E j \in DOMAIN Keep(q, K) : Keep(q, K)[j] = q[i]
<1> DEFINE n == Len(q)
           c == Cardinality(K \cap (1..i))
<1>1. n \in Nat /\ K \subseteq 1..n /\ i \in 1..n
  OBVIOUS
<1>2. IsFiniteSet(K) /\ IsFiniteSet(K \cap (1..i)) /\ Cardinality(K) \in Nat /\ c \in Nat /\ c <= Cardinality(K)
  <2>1. IsFiniteSet(K)
    BY <1>1, IntervalSize, FS_Subset
  <2>2. K \cap (1..i) \in SUBSET K
    OBVIOUS
  <2> QED BY <2>1, <2>2, FS_Subset, FS_CardinalityType
<1>3. c >= 1
  <2>1. {i} \in SUBSET (K \cap (1..i))
    BY <1>1
  <2>2. Cardinality({i}) <= c
    BY <1>2, <2>1, FS_Subset
  <2> QED BY <1>2, <2>2, FS_Singleton
<1>4. c \in 1..Cardinality(K)
  BY <1>2, <1>3
<1>5. Nth(K, c) \in K /\ Cardinality(K \cap (1..Nth(K, c))) = c
  <2> HIDE DEF c, n
  <2> QED BY <1>1, <1>4, NthExists
<1>6. Nth(K, c) = i
  <2> DEFINE k == Nth(K, c)
  <2>1. k \in K /\ Cardinality(K \cap (1..k)) = Cardinality(K \cap (1..i))
    BY <1>5
  <2> HIDE DEF k
  <2> QED BY <1>1, <2>1, NthUnique DEF k
<1>7. c \in DOMAIN Keep(q, K) /\ Keep(q, K)[c] = q[Nth(K, c)]
  BY <1>4 DEF Keep
<1> QED BY <1>6, <1>7

\* A product grows with its factor.
LEMMA TimesOrder ==
  ASSUME NEW a \in Nat, NEW b \in Nat, NEW d \in Nat, a <= b
  PROVE  a * d <= b * d /\ a * d \in Nat /\ b * d \in Nat
<1>1. \E k \in Nat : b = a + k
  <2>1. b - a \in Nat /\ b = a + (b - a)
    OBVIOUS
  <2> QED BY <2>1
<1>2. PICK k \in Nat : b = a + k
  BY <1>1
<1>3. b * d = a * d + k * d
  BY <1>2
<1>4. k * d \in Nat /\ a * d \in Nat
  OBVIOUS
<1> QED BY <1>3, <1>4

\* Without its i-th element a list goes on with the next one.
LEMMA DropIndex ==
  ASSUME NEW T, NEW q \in Seq(T), NEW i \in DOMAIN q
  PROVE  /\ Drop(q, i) \in Seq(T) /\ Len(Drop(q, i)) = Len(q) - 1 /\ DOMAIN Drop(q, i) = 1..(Len(q) - 1)
         /\ \A j \in 1..(Len(q) - 1) : Drop(q, i)[j] = q[IF j < i THEN j ELSE j + 1]
<1> DEFINE n == Len(q)
           K == DOMAIN q \ {i}
           r == Drop(q, i)
<1>1. DOMAIN q = 1..n /\ n \in Nat /\ i \in 1..n /\ n >= 1 /\ K = 1..n \ {i} /\ K \subseteq 1..n
  OBVIOUS
<1>2. r \in Seq(T) /\ Len(r) = n - 1
  BY DropType
<1>3. DOMAIN r = 1..(n - 1)
  <2> HIDE DEF r
  <2> QED BY <1>2
<1>4. ASSUME NEW j \in 1..(n - 1) PROVE r[j] = q[IF j < i THEN j ELSE j + 1]
  <2> DEFINE x == IF j < i THEN j ELSE j + 1
             y == Nth(K, j)
  <2>1. x \in K /\ x \in Nat /\ j \in Nat
    BY <1>1
  <2>2. Cardinality(K \cap (1..x)) = j
    <3>1. CASE j < i
      <4>1. K \cap (1..x) = 1..j
        BY <1>1, <3>1
      <4> QED BY <2>1, <4>1, IntervalSize
    <3>2. CASE ~(j < i)
      <4>1. x = j + 1 /\ i \in 1..x /\ x <= n
        BY <1>1, <3>2
      <4>2. K \cap (1..x) = (1..x) \ {i}
        BY <1>1, <4>1
      <4>3. IsFiniteSet(1..x) /\ Cardinality(1..x) = x
        BY <2>1, IntervalSize
      <4> HIDE DEF x, K
      <4>4. Cardinality((1..x) \ {i}) = x - 1
        BY <4>1, <4>3, FS_RemoveElement
      <4>5. Cardinality(K \cap (1..x)) = x - 1
        BY <4>2, <4>4
      <4>6. j \in Nat /\ x = j + 1
        BY <2>1, <4>1
      <4> QED BY ONLY <4>5, <4>6
    <3> QED BY <3>1, <3>2
  <2>3. Cardinality(K) = n - 1
    <3>1. IsFiniteSet(1..n) /\ Cardinality(1..n) = n
      BY <1>1, IntervalSize
    <3> HIDE DEF n, K
    <3> QED BY <1>1, <3>1, FS_RemoveElement
  <2> HIDE DEF n, K
  <2>4. y \in K /\ Cardinality(K \cap (1..y)) = j
    BY <1>1, <2>3, NthExists
  <2> HIDE DEF x, y
  <2>5. y = x
    BY <1>1, <2>1, <2>2, <2>4, NthUnique
  <2>6. r[j] = q[y]
    BY <2>3, <1>4 DEF Drop, Keep, K, y
  <2> QED BY <2>5, <2>6 DEF x
<1> QED BY <1>2, <1>3, <1>4

\* With a new n-th element a list goes on with the old one.
LEMMA InsertIndex ==
  ASSUME NEW T, NEW q \in Seq(T), NEW n \in 1..(Len(q) + 1), NEW x \in T
  PROVE  /\ InsertAt(q, n, x) \in Seq(T) /\ Len(InsertAt(q, n, x)) = Len(q) + 1
         /\ DOMAIN InsertAt(q, n, x) = 1..(Len(q) + 1)
         /\ \A j \in 1..(Len(q) + 1) :
              InsertAt(q, n, x)[j] = IF j < n THEN q[j] ELSE IF j = n THEN x ELSE q[j - 1]
<1> DEFINE r == InsertAt(q, n, x)
           front == SubSeq(q, 1, n - 1)
           back == SubSeq(q, n, Len(q))
<1>1. /\ DOMAIN q = 1..Len(q) /\ Len(q) \in Nat /\ n \in Nat /\ n >= 1 /\ n <= Len(q) + 1
      /\ \A i \in 1..Len(q) : q[i] \in T
  OBVIOUS
<1>2. /\ front \in Seq(T) /\ Len(front) = n - 1
      /\ \A i \in 1..(n - 1) : front[i] = q[i]
  <2>1. \A i \in 1..(n - 1) : q[i] \in T
    BY <1>1
  <2> QED BY <1>1, <2>1, SubSeqProperties
<1>3. /\ back \in Seq(T) /\ Len(back) = Len(q) - n + 1
      /\ \A i \in 1..(Len(q) - n + 1) : back[i] = q[n + i - 1]
  <2>1. \A i \in n..Len(q) : q[i] \in T
    BY <1>1
  <2> QED BY <1>1, <2>1, SubSeqProperties
<1> HIDE DEF front, back
<1> DEFINE g == front \o <<x>>
<1>4. /\ g \in Seq(T) /\ Len(g) = n
      /\ \A i \in 1..n : g[i] = IF i < n THEN front[i] ELSE x
  BY <1>1, <1>2
<1> HIDE DEF g
<1>5. /\ g \o back \in Seq(T) /\ Len(g \o back) = Len(q) + 1
      /\ \A i \in 1..(Len(q) + 1) : (g \o back)[i] = IF i <= n THEN g[i] ELSE back[i - n]
  BY <1>1, <1>3, <1>4
<1>6. r = g \o back
  BY DEF InsertAt, g, front, back
<1> HIDE DEF r
<1>7. r \in Seq(T) /\ Len(r) = Len(q) + 1 /\ DOMAIN r = 1..(Len(q) + 1)
  BY <1>1, <1>5, <1>6
<1>8. ASSUME NEW j \in 1..(Len(q) + 1)
      PROVE  r[j] = IF j < n THEN q[j] ELSE IF j = n THEN x ELSE q[j - 1]
  <2>1. r[j] = IF j <= n THEN g[j] ELSE back[j - n]
    BY <1>5, <1>6
  <2>2. CASE j < n
    <3>1. j \in 1..(n - 1) /\ j \in 1..n /\ j <= n
      BY <1>1, <2>2
    <3> QED BY <1>2, <1>4, <2>1, <2>2, <3>1
  <2>3. CASE j = n
    <3>1. j \in 1..n /\ j <= n /\ ~(j < n)
      BY <1>1, <2>3
    <3> QED BY <1>4, <2>1, <2>3, <3>1
  <2>4. CASE j > n
    <3>1. j - n \in 1..(Len(q) - n + 1) /\ n + (j - n) - 1 = j - 1 /\ ~(j <= n) /\ ~(j < n) /\ j # n
      BY <1>1, <2>4
    <3> QED BY <1>3, <2>1, <3>1
  <2>5. j < n \/ j = n \/ j > n
    BY <1>1
  <2> QED BY <2>2, <2>3, <2>4, <2>5
<1> QED BY <1>7, <1>8 DEF r
=============================================================================
