--------------------------- MODULE TrainStepProofs ---------------------------
(***************************************************************************)
(* What one step of the trainer does to a batch, for every batch, every    *)
(* lengths of its rollouts, every size of micro- and mini-batches, and     *)
(* every mesh of the workers whose reporting ranks are in the order of     *)
(* their data-parallel ranks.                                              *)
(*                                                                         *)
(* The first half is about SeqlenBalancing and DataProto alone.  The       *)
(* largest differencing method ends and shares the rows out, whatever      *)
(* their lengths: a heap of states, each a sequence of disjoint sets, loses *)
(* one state in every round and no row.  So its partitions pass the        *)
(* assertions of get_seqlen_balanced_partitions, a partition put in a row  *)
(* is a permutation, and undoing the permutation puts outputs back.  The   *)
(* second half is the inductive invariant of TrainStep: the batch is a     *)
(* permutation of whole rows, and a training pass visits every rank's      *)
(* share once.  The end is about Advantages, which balances with the same  *)
(* partitions: what the estimators compute for every batch.                *)
(***************************************************************************)
EXTENDS TrainStep, Advantages, FiniteSetTheorems, FunctionTheorems, SequenceTheorems,
        WellFoundedInduction, NaturalsInduction, TLAPS

-----------------------------------------------------------------------------
(* Induction and recursion.                                                *)

\* Of the numbers that are bad there is a least one.
LEMMA Least ==
    ASSUME NEW D \in SUBSET Nat, D # {}
    PROVE  \E d \in D : \A e \in D : d <= e
  <1> DEFINE R == OpToRel(<, Nat)
  <1>1. \A x, y \in Nat : <<x, y>> \in R <=> x < y
    BY Zenon DEF OpToRel
  <1>2. IsWellFoundedOn(R, Nat)
    BY NatLessThanWellFounded, Zenon
  <1> HIDE DEF R
  <1>3. \E d \in D : \A e \in D : ~(<<e, d>> \in R)
    BY <1>2, WFMin, Zenon
  <1>4. PICK d \in D : \A e \in D : ~(<<e, d>> \in R)
    BY <1>3
  <1>5. ASSUME NEW e \in D PROVE d <= e
    <2>1. e \in Nat /\ d \in Nat /\ <<e, d>> \notin R
      BY <1>4
    <2>2. ~(e < d)
      BY <1>1, <2>1, Zenon
    <2> QED BY <2>1, <2>2
  <1> QED BY <1>5

\* A step for each number up to n, from a start, defines a function.
Stepping(step, X, start, n) == n \in Nat /\ start \in X /\ step \in [X \X (1..n) -> X]

\* What is so for 0 and passes from each number to the next is so for all.
LEMMA Steps ==
    ASSUME NEW X, NEW start, NEW n, NEW step, Stepping(step, X, start, n)
    PROVE  \E f \in [0..n -> X] : /\ f[0] = start
                                  /\ \A m \in 1..n : f[m] = step[<<f[m - 1], m>>]
  <1>0. n \in Nat /\ start \in X /\ step \in [X \X (1..n) -> X]
    BY DEF Stepping
  <1> DEFINE Q(m) == \E f \in [0..m -> X] : /\ f[0] = start
                                            /\ \A j \in 1..m : f[j] = step[<<f[j - 1], j>>]
             Bad == {m \in 0..n : ~Q(m)}
  <1> SUFFICES ASSUME Bad # {} PROVE FALSE
    <2>1. n \in 0..n
      BY <1>0
    <2>2. Bad = {} => Q(n)
      BY <2>1
    <2> QED BY <2>2
  <1>1. PICK b \in Bad : \A e \in Bad : b <= e
    <2>1. Bad \in SUBSET Nat
      BY <1>0
    <2> HIDE DEF Bad
    <2> QED BY <2>1, Least
  <1>2. b \in 0..n /\ ~Q(b)
    OBVIOUS
  <1>3. b # 0
    <2> SUFFICES Q(0)
      BY <1>2
    <2> DEFINE f == [j \in 0..0 |-> start]
    <2>1. f \in [0..0 -> X] /\ f[0] = start /\ \A j \in 1..0 : f[j] = step[<<f[j - 1], j>>]
      BY <1>0
    <2> QED BY <2>1
  <1>4. b - 1 \in 0..n /\ b - 1 \notin Bad
    <2>1. b - 1 \in 0..n /\ ~(b <= b - 1)
      BY <1>0, <1>2, <1>3
    <2> HIDE DEF Bad
    <2> QED BY <1>1, <2>1
  <1>5. PICK f \in [0..b - 1 -> X] : /\ f[0] = start
                                     /\ \A j \in 1..b - 1 : f[j] = step[<<f[j - 1], j>>]
    BY <1>4
  <1> DEFINE g == [j \in 0..b |-> IF j = b THEN step[<<f[b - 1], b>>] ELSE f[j]]
  <1>6. f[b - 1] \in X /\ b \in 1..n /\ b \in Nat
    BY <1>0, <1>2, <1>3, <1>5
  <1>7. g \in [0..b -> X]
    <2> SUFFICES ASSUME NEW j \in 0..b, j # b PROVE f[j] \in X
      BY <1>0, <1>6
    <2>1. j \in 0..b - 1
      BY <1>2
    <2> QED BY <2>1, <1>5
  <1>8. g[0] = start
    BY <1>3, <1>2, <1>5
  <1>9. ASSUME NEW j \in 1..b PROVE g[j] = step[<<g[j - 1], j>>]
    <2>1. g[j - 1] = f[j - 1]
      BY <1>2
    <2>2. CASE j = b
      BY <2>1, <2>2
    <2>3. CASE j # b
      <3>1. j \in 1..b - 1
        BY <1>2, <2>3
      <3> QED BY <2>1, <2>3, <3>1, <1>5
    <2> QED BY <2>2, <2>3
  <1>10. Q(b)
    <2> HIDE DEF g
    <2> QED BY <1>7, <1>8, <1>9
  <1> QED BY <1>2, <1>10

-----------------------------------------------------------------------------
(* Sorting.                                                                *)

Triples == Int \X Int \X Int

Keyed(keys, n) == {[key |-> keys[i], place |-> i] : i \in 1..n}

Permutes(perm, n) ==
    /\ perm \in [1..n -> 1..n]
    /\ \A i, j \in 1..n : perm[i] = perm[j] => i = j
    /\ \A j \in 1..n : \E i \in 1..n : perm[i] = j

\* Keys are in a linear order.
LEMMA LessIsOrder ==
    ASSUME NEW a \in Triples, NEW b \in Triples, NEW c \in Triples
    PROVE  /\ ~Less(a, a)
           /\ Less(a, b) /\ Less(b, c) => Less(a, c)
           /\ Less(a, b) \/ Less(b, a) \/ a = b
  BY DEF Triples, Less

\* ... and so are keyed places.
LEMMA EarlierIsOrder ==
    ASSUME NEW n \in Nat, NEW keys \in [1..n -> Triples]
    PROVE  \A a, b, c \in Keyed(keys, n) :
              /\ ~Earlier(a, a)
              /\ Earlier(a, b) /\ Earlier(b, c) => Earlier(a, c)
              /\ Earlier(a, b) \/ Earlier(b, a) \/ a = b
  <1> SUFFICES ASSUME NEW a \in Keyed(keys, n), NEW b \in Keyed(keys, n),
                      NEW c \in Keyed(keys, n)
               PROVE  /\ ~Earlier(a, a)
                      /\ Earlier(a, b) /\ Earlier(b, c) => Earlier(a, c)
                      /\ Earlier(a, b) \/ Earlier(b, a) \/ a = b
    OBVIOUS
  <1>a. PICK i \in 1..n : a = [key |-> keys[i], place |-> i]
    BY Zenon DEF Keyed
  <1>b. PICK j \in 1..n : b = [key |-> keys[j], place |-> j]
    BY Zenon DEF Keyed
  <1>c. PICK k \in 1..n : c = [key |-> keys[k], place |-> k]
    BY Zenon DEF Keyed
  <1>1. keys[i] \in Triples /\ keys[j] \in Triples /\ keys[k] \in Triples
    OBVIOUS
  <1> DEFINE x == keys[i]
             y == keys[j]
             z == keys[k]
  <1>2. /\ a.key = x /\ b.key = y /\ c.key = z
        /\ a.place = i /\ b.place = j /\ c.place = k
        /\ x = y /\ i = j => a = b
    BY <1>a, <1>b, <1>c
  <1>3. /\ ~Less(x, x) /\ ~Less(y, y)
        /\ Less(x, y) /\ Less(y, z) => Less(x, z)
        /\ Less(x, y) \/ Less(y, x) \/ x = y
    BY <1>1, LessIsOrder
  <1>4. i \in Nat /\ j \in Nat /\ k \in Nat
    OBVIOUS
  <1> HIDE DEF x, y, z
  <1>5. /\ Earlier(a, a) <=> Less(x, x) \/ i < i
        /\ Earlier(a, b) <=> Less(x, y) \/ (x = y /\ i < j)
        /\ Earlier(b, a) <=> Less(y, x) \/ (y = x /\ j < i)
        /\ Earlier(b, c) <=> Less(y, z) \/ (y = z /\ j < k)
        /\ Earlier(a, c) <=> Less(x, z) \/ (x = z /\ i < k)
    BY <1>2, Zenon DEF Earlier
  <1> QED BY <1>2, <1>3, <1>4, <1>5

\* A sort is a permutation, and of two places it gives back in order the key of
\* the second is not less than that of the first.
LEMMA SortOrderPermutes ==
    ASSUME NEW n \in Nat, NEW keys \in [1..n -> Triples]
    PROVE  LET perm == SortOrder(Keyed(keys, n))
           IN  /\ Permutes(perm, n)
               /\ \A i, j \in 1..n : i < j => ~Less(keys[perm[j]], keys[perm[i]])
  <1> DEFINE E == Keyed(keys, n)
             Ahead(a) == {b \in E : Earlier(b, a)}
             rank == [a \in E |-> Cardinality(Ahead(a))]
             keyAt == [i \in 1..n |-> [key |-> keys[i], place |-> i]]
  <1>1. keyAt \in Bijection(1..n, E)
    <2>1. keyAt \in [1..n -> E]
      BY DEF Keyed
    <2>2. \A i, j \in 1..n : keyAt[i] = keyAt[j] => i = j
      OBVIOUS
    <2>3. \A a \in E : \E i \in 1..n : keyAt[i] = a
      BY DEF Keyed
    <2> HIDE DEF keyAt, E
    <2> QED BY <2>1, <2>2, <2>3, Fun_IsBij
  <1>2. IsFiniteSet(E) /\ Cardinality(E) = n
    <2>1. IsFiniteSet(1..n) /\ Cardinality(1..n) = n
      BY FS_Interval
    <2>2. ExistsBijection(1..n, E)
      BY <1>1 DEF ExistsBijection
    <2> HIDE DEF E
    <2> QED BY <2>1, <2>2, FS_Bijection
  <1>3. \A a, b, c \in E : /\ ~Earlier(a, a)
                           /\ Earlier(a, b) /\ Earlier(b, c) => Earlier(a, c)
                           /\ Earlier(a, b) \/ Earlier(b, a) \/ a = b
    BY EarlierIsOrder
  <1>4. \A a \in E : a.place \in 1..n /\ a = keyAt[a.place]
    BY DEF Keyed
  <1> HIDE DEF E, keyAt
  <1>5. ASSUME NEW a \in E
        PROVE  IsFiniteSet(Ahead(a)) /\ Cardinality(Ahead(a)) \in 0..n - 1
    <2>1. Ahead(a) \subseteq E \ {a}
      BY <1>3
    <2>2. IsFiniteSet(E \ {a}) /\ Cardinality(E \ {a}) = n - 1
      BY <1>2, FS_RemoveElement
    <2> HIDE DEF Ahead
    <2>3. IsFiniteSet(Ahead(a)) /\ Cardinality(Ahead(a)) <= n - 1
      BY <2>1, <2>2, FS_Subset
    <2>4. Cardinality(Ahead(a)) \in Nat
      BY <2>3, FS_CardinalityType
    <2> QED BY <2>3, <2>4
  <1>6. ASSUME NEW a \in E, NEW b \in E, Earlier(a, b)
        PROVE  rank[a] < rank[b]
    <2>1. Ahead(a) \subseteq Ahead(b) \ {a}
      BY <1>3, <1>6
    <2>2. a \in Ahead(b)
      BY <1>6
    <2>3. rank[a] = Cardinality(Ahead(a)) /\ rank[b] = Cardinality(Ahead(b))
      OBVIOUS
    <2>4. IsFiniteSet(Ahead(b)) /\ Cardinality(Ahead(b)) \in Nat
      BY <1>5
    <2>5. Cardinality(Ahead(a)) \in 0..n - 1
      BY <1>5, Zenon
    <2> HIDE DEF Ahead, rank
    <2>6. /\ IsFiniteSet(Ahead(b) \ {a})
          /\ Cardinality(Ahead(b) \ {a}) = Cardinality(Ahead(b)) - 1
      BY <2>2, <2>4, FS_RemoveElement
    <2>7. Cardinality(Ahead(a)) <= Cardinality(Ahead(b)) - 1
      BY <2>1, <2>6, FS_Subset
    <2> QED BY <2>3, <2>4, <2>5, <2>7
  <1>7. rank \in [E -> 0..n - 1]
    <2>1. \A a \in E : Cardinality(Ahead(a)) \in 0..n - 1
      BY <1>5, Zenon
    <2> DEFINE T == 0..n - 1
    <2> HIDE DEF Ahead, T
    <2>2. \A a \in E : Cardinality(Ahead(a)) \in T
      BY <2>1 DEF T
    <2>3. rank \in [E -> T]
      BY <2>2
    <2> QED BY <2>3 DEF T
  <1>8. \A a, b \in E : rank[a] = rank[b] => a = b
    <2> HIDE DEF rank
    <2> SUFFICES ASSUME NEW a \in E, NEW b \in E, rank[a] = rank[b], a # b PROVE FALSE
      OBVIOUS
    <2>1. rank[a] \in Nat /\ rank[b] \in Nat
      BY <1>7
    <2>2. Earlier(a, b) \/ Earlier(b, a)
      BY <1>3
    <2> QED BY <1>6, <2>1, <2>2
  <1>9. \A m \in 0..n - 1 : \E a \in E : rank[a] = m
    <2>1. IsFiniteSet(0..n - 1) /\ Cardinality(0..n - 1) = n
      <3>1. IsFiniteSet(0..n - 1) /\ Cardinality(0..n - 1) = IF 0 > n - 1 THEN 0 ELSE n - 1 - 0 + 1
        BY FS_Interval
      <3> QED BY <3>1
    <2> DEFINE T == 0..n - 1
    <2> HIDE DEF T, rank
    <2>2. rank \in Injection(E, T)
      BY <1>7, <1>8, Fun_IsInj DEF T
    <2>3. rank \in Surjection(E, T)
      BY <1>2, <2>1, <2>2, FS_Injection DEF T
    <2>4. \A m \in T : \E a \in E : rank[a] = m
      BY <2>3, Fun_SurjectionProperties
    <2> QED BY <2>4 DEF T
  <1> DEFINE Nth(m) == CHOOSE a \in E : Cardinality(Ahead(a)) = m - 1
             perm == SortOrder(E)
  <1>10. perm = [m \in 1..n |-> Nth(m).place]
    BY <1>2 DEF SortOrder
  <1>11. ASSUME NEW m \in 1..n PROVE Nth(m) \in E /\ rank[Nth(m)] = m - 1
    <2>1. m - 1 \in 0..n - 1
      OBVIOUS
    <2>2. \E a \in E : rank[a] = m - 1
      BY <1>9, <2>1
    <2>3. \A a \in E : rank[a] = Cardinality(Ahead(a))
      OBVIOUS
    <2> HIDE DEF rank, Ahead
    <2>4. \E a \in E : Cardinality(Ahead(a)) = m - 1
      BY <2>2, <2>3
    <2>5. Nth(m) \in E /\ Cardinality(Ahead(Nth(m))) = m - 1
      BY <2>4
    <2> QED BY <2>3, <2>5
  <1> HIDE DEF Nth, perm, rank, Ahead
  <1>12. perm \in [1..n -> 1..n]
    BY <1>4, <1>10, <1>11
  <1>13. ASSUME NEW i \in 1..n, NEW j \in 1..n, perm[i] = perm[j] PROVE i = j
    <2>1. Nth(i).place = Nth(j).place
      BY <1>10, <1>13
    <2>2. Nth(i) = Nth(j)
      BY <1>4, <1>11, <2>1
    <2>3. i - 1 = j - 1
      BY <1>11, <2>2
    <2> QED BY <2>3
  <1>14. ASSUME NEW j \in 1..n PROVE \E i \in 1..n : perm[i] = j
    <2>1. keyAt[j] \in E /\ keyAt[j].place = j
      BY DEF E, keyAt, Keyed
    <2>2. rank[keyAt[j]] + 1 \in 1..n
      BY <1>7, <2>1
    <2> DEFINE i == rank[keyAt[j]] + 1
    <2>3. i - 1 = rank[keyAt[j]] /\ i \in 1..n
      BY <1>7, <2>1, <2>2
    <2> HIDE DEF i
    <2>4. Nth(i) = keyAt[j]
      BY <1>8, <1>11, <2>1, <2>3
    <2> QED BY <1>10, <2>1, <2>3, <2>4
  <1>15. ASSUME NEW i \in 1..n, NEW j \in 1..n, i < j
         PROVE  ~Less(keys[perm[j]], keys[perm[i]])
    <2> SUFFICES ASSUME Less(keys[perm[j]], keys[perm[i]]) PROVE FALSE
      OBVIOUS
    <2>1. perm[i] = Nth(i).place /\ perm[j] = Nth(j).place
      BY <1>10
    <2>2. Nth(i).key = keys[perm[i]] /\ Nth(j).key = keys[perm[j]]
      <3>1. \A m \in 1..n : keyAt[m].key = keys[m]
        BY DEF keyAt
      <3>2. Nth(i) = keyAt[perm[i]] /\ Nth(j) = keyAt[perm[j]]
        BY <1>4, <1>11, <2>1
      <3> QED BY <1>12, <3>1, <3>2
    <2>3. Earlier(Nth(j), Nth(i))
      BY <2>2 DEF Earlier
    <2>4. rank[Nth(j)] < rank[Nth(i)]
      BY <1>6, <1>11, <2>3
    <2> QED BY <1>11, <1>15, <2>4
  <1> QED BY <1>12, <1>13, <1>14, <1>15 DEF Permutes, perm, E

-----------------------------------------------------------------------------
(* Parts: sequences of sequences of rows.                                  *)

Places(p) == {x \in (DOMAIN p) \X Nat : x[2] \in 1..Len(p[x[1]])}
RowAt(p, x) == p[x[1]][x[2]]

\* No row is in two places of the parts.
Once(p) == \A x, y \in Places(p) : RowAt(p, x) = RowAt(p, y) => x = y

\* The rows that the parts have.
Held(p) == {RowAt(p, x) : x \in Places(p)}

IsParts(p, k, D) == k \in Nat /\ p \in [1..k -> Seq(D)]

\* The parts and their lengths.
LEMMA PartTypes ==
    ASSUME NEW p, NEW k, NEW D, IsParts(p, k, D)
    PROVE  /\ k \in Nat /\ DOMAIN p = 1..k /\ p = [c \in 1..k |-> p[c]]
           /\ \A c \in 1..k : p[c] \in Seq(D) /\ Len(p[c]) \in Nat
  BY DEF IsParts

\* A number within a part is a place, and its row is there.
LEMMA ToPlace ==
    ASSUME NEW p, NEW k, NEW D, IsParts(p, k, D), NEW c \in 1..k, NEW i \in 1..Len(p[c])
    PROVE  <<c, i>> \in Places(p) /\ RowAt(p, <<c, i>>) = p[c][i] /\ p[c][i] \in D
  <1>1. i \in Nat /\ p[c] \in Seq(D) /\ c \in DOMAIN p
    BY DEF IsParts
  <1>2. <<c, i>> \in (DOMAIN p) \X Nat
    BY <1>1
  <1> QED BY <1>1, <1>2 DEF Places, RowAt

\* A place is a pair of a part and a number within it.
LEMMA FromPlace ==
    ASSUME NEW p, NEW k, NEW D, IsParts(p, k, D), NEW x, x \in Places(p)
    PROVE  /\ x[1] \in 1..k /\ x[2] \in 1..Len(p[x[1]])
           /\ x = <<x[1], x[2]>> /\ RowAt(p, x) = p[x[1]][x[2]]
           /\ RowAt(p, x) \in D
  <1>1. DOMAIN p = 1..k
    BY DEF IsParts
  <1>2. x[1] \in 1..k /\ x[2] \in 1..Len(p[x[1]]) /\ x = <<x[1], x[2]>>
    BY <1>1 DEF Places
  <1>3. p[x[1]] \in Seq(D)
    BY <1>2 DEF IsParts
  <1> QED BY <1>2, <1>3 DEF RowAt

\* Parts whose places are those of others, put elsewhere, hold the same rows.
Moves(f, q, p) ==
    /\ f \in [Places(q) -> Places(p)]
    /\ \A x \in Places(q) : RowAt(q, x) = RowAt(p, f[x])
    /\ \A x, y \in Places(q) : f[x] = f[y] => x = y
    /\ \A y \in Places(p) : \E x \in Places(q) : f[x] = y

\* Parts that have the rows of others, each in a place of its own, have each row
\* once when the others do.
LEMMA Moved ==
    ASSUME NEW p, NEW q, NEW f, Moves(f, q, p)
    PROVE  Held(q) = Held(p) /\ (Once(p) => Once(q))
  <1>0. /\ f \in [Places(q) -> Places(p)]
        /\ \A x \in Places(q) : RowAt(q, x) = RowAt(p, f[x])
        /\ \A x, y \in Places(q) : f[x] = f[y] => x = y
        /\ \A y \in Places(p) : \E x \in Places(q) : f[x] = y
    BY DEF Moves
  <1>1. Held(q) = Held(p)
    BY <1>0 DEF Held
  <1>2. ASSUME Once(p), NEW x \in Places(q), NEW y \in Places(q), RowAt(q, x) = RowAt(q, y)
        PROVE  x = y
    <2>1. f[x] \in Places(p) /\ f[y] \in Places(p) /\ RowAt(p, f[x]) = RowAt(p, f[y])
      BY <1>0, <1>2
    <2>2. f[x] = f[y]
      BY <1>2, <2>1, Zenon DEF Once
    <2> QED BY <1>0, <2>2
  <1> QED BY <1>1, <1>2, Zenon DEF Once

\* The parts in another order.
LEMMA PermutedParts ==
    ASSUME NEW D, NEW k, NEW p, IsParts(p, k, D), NEW perm, Permutes(perm, k),
           NEW q, IsParts(q, k, D), \A n \in 1..k : q[n] = p[perm[n]]
    PROVE  Held(q) = Held(p) /\ (Once(p) => Once(q))
  <1> DEFINE f == [x \in Places(q) |-> <<perm[x[1]], x[2]>>]
  <1>1. \A n \in 1..k : perm[n] \in 1..k
    BY DEF Permutes
  <1>2. ASSUME NEW x \in Places(q)
        PROVE  f[x] \in Places(p) /\ RowAt(q, x) = RowAt(p, f[x])
    <2>1. x[1] \in 1..k /\ x[2] \in 1..Len(q[x[1]]) /\ RowAt(q, x) = q[x[1]][x[2]]
      BY FromPlace
    <2>2. perm[x[1]] \in 1..k /\ x[2] \in 1..Len(p[perm[x[1]]])
      BY <1>1, <2>1
    <2>3. /\ <<perm[x[1]], x[2]>> \in Places(p)
          /\ RowAt(p, <<perm[x[1]], x[2]>>) = p[perm[x[1]]][x[2]]
      BY <2>2, ToPlace
    <2> QED BY <2>1, <2>3
  <1>3. ASSUME NEW x \in Places(q), NEW y \in Places(q), f[x] = f[y]
        PROVE  x = y
    <2>1. x[1] \in 1..k /\ y[1] \in 1..k /\ x = <<x[1], x[2]>> /\ y = <<y[1], y[2]>>
      BY FromPlace
    <2>2. perm[x[1]] = perm[y[1]] /\ x[2] = y[2]
      BY <1>3
    <2>3. x[1] = y[1]
      BY <2>1, <2>2 DEF Permutes
    <2> QED BY <2>1, <2>2, <2>3
  <1>4. ASSUME NEW y \in Places(p)
        PROVE  \E x \in Places(q) : f[x] = y
    <2>1. y[1] \in 1..k /\ y[2] \in 1..Len(p[y[1]]) /\ y = <<y[1], y[2]>>
      BY FromPlace
    <2>2. PICK n \in 1..k : perm[n] = y[1]
      BY <2>1 DEF Permutes
    <2>3. y[2] \in 1..Len(q[n])
      BY <2>1, <2>2
    <2>4. <<n, y[2]>> \in Places(q)
      BY <2>3, ToPlace
    <2> QED BY <2>1, <2>2, <2>4
  <1>5. f \in [Places(q) -> Places(p)]
    BY <1>2
  <1> HIDE DEF f
  <1>6. Moves(f, q, p)
    BY <1>2, <1>3, <1>4, <1>5 DEF Moves
  <1> QED BY <1>6, Moved

\* Each part in another order.
LEMMA PermutedRows ==
    ASSUME NEW D, NEW k, NEW p, IsParts(p, k, D), NEW q, IsParts(q, k, D),
           NEW perm,
           \A c \in 1..k : /\ Len(q[c]) = Len(p[c]) /\ Permutes(perm[c], Len(p[c]))
                           /\ \A i \in 1..Len(p[c]) : q[c][i] = p[c][perm[c][i]]
    PROVE  Held(q) = Held(p) /\ (Once(p) => Once(q))
  <1> DEFINE f == [x \in Places(q) |-> <<x[1], perm[x[1]][x[2]]>>]
  <1>2. ASSUME NEW x \in Places(q)
        PROVE  f[x] \in Places(p) /\ RowAt(q, x) = RowAt(p, f[x])
    <2> DEFINE c == x[1]
               i == perm[x[1]][x[2]]
    <2>1. c \in 1..k /\ x[2] \in 1..Len(p[c]) /\ RowAt(q, x) = q[c][x[2]]
      <3>1. c \in 1..k /\ x[2] \in 1..Len(q[c]) /\ RowAt(q, x) = q[c][x[2]]
        BY FromPlace
      <3> QED BY <3>1
    <2>2. i \in 1..Len(p[c]) /\ q[c][x[2]] = p[c][i]
      <3>1. Permutes(perm[c], Len(p[c])) /\ q[c][x[2]] = p[c][perm[c][x[2]]]
        BY <2>1
      <3> QED BY <2>1, <3>1 DEF Permutes
    <2> HIDE DEF i
    <2>3. <<c, i>> \in Places(p) /\ RowAt(p, <<c, i>>) = p[c][i]
      BY <2>1, <2>2, ToPlace
    <2> QED BY <2>1, <2>2, <2>3 DEF i
  <1>3. ASSUME NEW x \in Places(q), NEW y \in Places(q), f[x] = f[y]
        PROVE  x = y
    <2>1. /\ x[1] \in 1..k /\ x = <<x[1], x[2]>> /\ x[2] \in 1..Len(p[x[1]])
          /\ y[1] \in 1..k /\ y = <<y[1], y[2]>> /\ y[2] \in 1..Len(p[y[1]])
      <3>1. /\ x[1] \in 1..k /\ x = <<x[1], x[2]>> /\ x[2] \in 1..Len(q[x[1]])
            /\ y[1] \in 1..k /\ y = <<y[1], y[2]>> /\ y[2] \in 1..Len(q[y[1]])
        BY FromPlace
      <3> QED BY <3>1
    <2>2. x[1] = y[1] /\ perm[x[1]][x[2]] = perm[x[1]][y[2]]
      BY <1>3
    <2>3. x[2] = y[2]
      <3> DEFINE o == perm[x[1]]
                 n == Len(p[x[1]])
      <3>1. Permutes(o, n) /\ x[2] \in 1..n /\ y[2] \in 1..n /\ o[x[2]] = o[y[2]]
        BY <2>1, <2>2
      <3> HIDE DEF o, n
      <3> QED BY <3>1 DEF Permutes
    <2> QED BY <2>1, <2>2, <2>3
  <1>4. ASSUME NEW y \in Places(p)
        PROVE  \E x \in Places(q) : f[x] = y
    <2>1. y[1] \in 1..k /\ y[2] \in 1..Len(p[y[1]]) /\ y = <<y[1], y[2]>>
      BY FromPlace
    <2>2. PICK i \in 1..Len(p[y[1]]) : perm[y[1]][i] = y[2]
      BY <2>1 DEF Permutes
    <2>3. i \in 1..Len(q[y[1]])
      BY <2>1, <2>2
    <2>4. <<y[1], i>> \in Places(q)
      BY <2>1, <2>3, ToPlace
    <2> QED BY <2>1, <2>2, <2>4
  <1>5. f \in [Places(q) -> Places(p)]
    BY <1>2
  <1> HIDE DEF f
  <1>6. Moves(f, q, p)
    BY <1>2, <1>3, <1>4, <1>5 DEF Moves
  <1> QED BY <1>6, Moved

Joins(r, p, q, k) == \A n \in 1..k : r[n] = p[n] \o q[k + 1 - n]

\* Parts without a common row are joined, the first with the last.
LEMMA JoinedParts ==
    ASSUME NEW D, NEW k, NEW p, IsParts(p, k, D), NEW q, IsParts(q, k, D),
           NEW r, IsParts(r, k, D), Joins(r, p, q, k)
    PROVE  /\ Held(r) = Held(p) \cup Held(q)
           /\ Once(p) /\ Once(q) /\ Held(p) \cap Held(q) = {} => Once(r)
  <1> DEFINE There(x) == <<k + 1 - x[1], x[2] - Len(p[x[1]])>>
  <1>1. ASSUME NEW n \in 1..k
        PROVE  /\ k + 1 - n \in 1..k
               /\ Len(p[n]) \in Nat /\ Len(q[k + 1 - n]) \in Nat
               /\ \A i \in 1..Len(r[n]) :
                     \/ i \in 1..Len(p[n]) /\ r[n][i] = p[n][i]
                     \/ i - Len(p[n]) \in 1..Len(q[k + 1 - n])
                        /\ r[n][i] = q[k + 1 - n][i - Len(p[n])]
               /\ \A i \in 1..Len(p[n]) : i \in 1..Len(r[n]) /\ r[n][i] = p[n][i]
               /\ \A i \in 1..Len(q[k + 1 - n]) :
                     i + Len(p[n]) \in 1..Len(r[n]) /\ r[n][i + Len(p[n])] = q[k + 1 - n][i]
    <2>1. k + 1 - n \in 1..k
      <3>1. k \in Nat
        BY PartTypes
      <3> QED BY <3>1
    <2> DEFINE a == p[n]
               b == q[k + 1 - n]
               ab == r[n]
    <2>2. a \in Seq(D) /\ b \in Seq(D) /\ ab = a \o b
      BY <2>1, PartTypes DEF Joins
    <2> HIDE DEF a, b, ab
    <2>3. /\ Len(a) \in Nat /\ Len(b) \in Nat /\ Len(ab) = Len(a) + Len(b)
          /\ \A i \in 1..Len(a) + Len(b) : ab[i] = IF i <= Len(a) THEN a[i] ELSE b[i - Len(a)]
      <3>1. Len(a) \in Nat /\ Len(b) \in Nat
        BY <2>2
      <3>2. /\ Len(a \o b) = Len(a) + Len(b)
            /\ \A i \in 1..Len(a) + Len(b) :
                  (a \o b)[i] = IF i <= Len(a) THEN a[i] ELSE b[i - Len(a)]
        BY <2>2, ConcatProperties
      <3> QED BY <2>2, <3>1, <3>2
    <2>4. \A i \in 1..Len(ab) : \/ i \in 1..Len(a) /\ ab[i] = a[i]
                                \/ i - Len(a) \in 1..Len(b) /\ ab[i] = b[i - Len(a)]
      BY <2>3
    <2>5. \A i \in 1..Len(a) : i \in 1..Len(ab) /\ ab[i] = a[i]
      BY <2>3
    <2>6. \A i \in 1..Len(b) : i + Len(a) \in 1..Len(ab) /\ ab[i + Len(a)] = b[i]
      <3> SUFFICES ASSUME NEW i \in 1..Len(b)
                   PROVE  i + Len(a) \in 1..Len(ab) /\ ab[i + Len(a)] = b[i]
        OBVIOUS
      <3>1. i + Len(a) \in 1..Len(a) + Len(b) /\ ~(i + Len(a) <= Len(a)) /\ (i + Len(a)) - Len(a) = i
        BY <2>3
      <3> QED BY <2>3, <3>1
    <2> QED BY <2>1, <2>3, <2>4, <2>5, <2>6 DEF a, b, ab
  <1>2. ASSUME NEW x \in Places(r)
        PROVE  \/ x \in Places(p) /\ RowAt(r, x) = RowAt(p, x)
               \/ There(x) \in Places(q) /\ RowAt(r, x) = RowAt(q, There(x))
    <2> DEFINE c == x[1]
               i == x[2]
               e == k + 1 - c
               m == i - Len(p[c])
    <2>1. c \in 1..k /\ i \in 1..Len(r[c]) /\ x = <<c, i>> /\ RowAt(r, x) = r[c][i]
      BY FromPlace
    <2>2. /\ e \in 1..k
          /\ \/ i \in 1..Len(p[c]) /\ r[c][i] = p[c][i]
             \/ m \in 1..Len(q[e]) /\ r[c][i] = q[e][m]
      BY <1>1, <2>1
    <2>3. There(x) = <<e, m>>
      OBVIOUS
    <2> HIDE DEF There, c, i, e, m
    <2>4. CASE i \in 1..Len(p[c]) /\ r[c][i] = p[c][i]
      <3>1. <<c, i>> \in Places(p) /\ RowAt(p, <<c, i>>) = p[c][i]
        BY <2>1, <2>4, ToPlace
      <3> QED BY <2>1, <2>4, <3>1
    <2>5. CASE m \in 1..Len(q[e]) /\ r[c][i] = q[e][m]
      <3>1. <<e, m>> \in Places(q) /\ RowAt(q, <<e, m>>) = q[e][m]
        BY <2>2, <2>5, ToPlace
      <3> QED BY <2>1, <2>3, <2>5, <3>1
    <2> QED BY <2>2, <2>4, <2>5
  <1>3. ASSUME NEW x \in Places(p)
        PROVE  x \in Places(r) /\ RowAt(r, x) = RowAt(p, x)
    <2> DEFINE c == x[1]
               i == x[2]
    <2>1. c \in 1..k /\ i \in 1..Len(p[c]) /\ x = <<c, i>> /\ RowAt(p, x) = p[c][i]
      BY FromPlace
    <2>2. i \in 1..Len(r[c]) /\ r[c][i] = p[c][i]
      BY <1>1, <2>1
    <2> HIDE DEF c, i
    <2>3. <<c, i>> \in Places(r) /\ RowAt(r, <<c, i>>) = r[c][i]
      BY <2>1, <2>2, ToPlace
    <2> QED BY <2>1, <2>2, <2>3
  <1>4. ASSUME NEW x \in Places(q)
        PROVE  \E y \in Places(r) : RowAt(r, y) = RowAt(q, x)
    <2> DEFINE e == x[1]
               m == x[2]
               c == k + 1 - e
               i == m + Len(p[c])
    <2>1. e \in 1..k /\ m \in 1..Len(q[e]) /\ RowAt(q, x) = q[e][m]
      BY FromPlace
    <2>2. c \in 1..k /\ k + 1 - c = e
      <3>1. k \in Nat
        BY PartTypes
      <3> QED BY <2>1, <3>1
    <2>3. i \in 1..Len(r[c]) /\ r[c][i] = q[e][m]
      <3>1. \A j \in 1..Len(q[k + 1 - c]) :
               j + Len(p[c]) \in 1..Len(r[c]) /\ r[c][j + Len(p[c])] = q[k + 1 - c][j]
        BY <1>1, <2>2
      <3> HIDE DEF c, e, m
      <3>2. \A j \in 1..Len(q[e]) :
               j + Len(p[c]) \in 1..Len(r[c]) /\ r[c][j + Len(p[c])] = q[e][j]
        BY <2>2, <3>1
      <3> QED BY <2>1, <3>2
    <2> HIDE DEF c, i, e, m
    <2>4. <<c, i>> \in Places(r) /\ RowAt(r, <<c, i>>) = r[c][i]
      BY <2>2, <2>3, ToPlace
    <2> QED BY <2>1, <2>3, <2>4
  <1>5. ASSUME NEW x \in Places(r), NEW y \in Places(r), There(x) = There(y)
        PROVE  x = y
    <2>1. /\ x[1] \in 1..k /\ x = <<x[1], x[2]>> /\ x[2] \in Int
          /\ y[1] \in 1..k /\ y = <<y[1], y[2]>> /\ y[2] \in Int
      BY FromPlace
    <2>2. k + 1 - x[1] = k + 1 - y[1] /\ x[2] - Len(p[x[1]]) = y[2] - Len(p[y[1]])
      BY <1>5
    <2>3. x[1] = y[1]
      <3>1. k \in Nat
        BY PartTypes
      <3> QED BY <2>1, <2>2, <3>1
    <2>4. Len(p[x[1]]) \in Nat
      BY <1>1, <2>1
    <2>5. x[2] = y[2]
      BY <2>1, <2>2, <2>3, <2>4
    <2> QED BY <2>1, <2>3, <2>5
  <1> HIDE DEF There
  <1>6. Held(r) = Held(p) \cup Held(q)
    <2>1. Held(r) \subseteq Held(p) \cup Held(q)
      BY <1>2 DEF Held
    <2>2. Held(p) \subseteq Held(r)
      BY <1>3 DEF Held
    <2>3. Held(q) \subseteq Held(r)
      BY <1>4 DEF Held
    <2> QED BY <2>1, <2>2, <2>3
  <1>7. ASSUME Once(p), Once(q), Held(p) \cap Held(q) = {},
               NEW x \in Places(r), NEW y \in Places(r), RowAt(r, x) = RowAt(r, y)
        PROVE  x = y
    <2>1. \A z \in Places(p) : RowAt(p, z) \in Held(p)
      BY DEF Held
    <2>2. \A z \in Places(q) : RowAt(q, z) \in Held(q)
      BY DEF Held
    <2>3. CASE /\ x \in Places(p) /\ RowAt(r, x) = RowAt(p, x)
               /\ y \in Places(p) /\ RowAt(r, y) = RowAt(p, y)
      BY <1>7, <2>3, Zenon DEF Once
    <2>4. CASE /\ There(x) \in Places(q) /\ RowAt(r, x) = RowAt(q, There(x))
               /\ There(y) \in Places(q) /\ RowAt(r, y) = RowAt(q, There(y))
      <3>1. RowAt(q, There(x)) = RowAt(q, There(y))
        BY <1>7, <2>4
      <3>2. There(x) = There(y)
        BY <1>7, <2>4, <3>1, Zenon DEF Once
      <3> QED BY <1>5, <3>2
    <2>5. CASE /\ x \in Places(p) /\ RowAt(r, x) = RowAt(p, x)
               /\ There(y) \in Places(q) /\ RowAt(r, y) = RowAt(q, There(y))
      BY <1>7, <2>1, <2>2, <2>5
    <2>6. CASE /\ There(x) \in Places(q) /\ RowAt(r, x) = RowAt(q, There(x))
               /\ y \in Places(p) /\ RowAt(r, y) = RowAt(p, y)
      BY <1>7, <2>1, <2>2, <2>6
    <2> QED BY <1>2, <2>3, <2>4, <2>5, <2>6
  <1> QED BY <1>6, <1>7, Zenon DEF Once

-----------------------------------------------------------------------------
(* Sets and states of the largest differencing method.                     *)

SetsOver(D) == [sum : Nat, rows : Seq(D)]
RowsIn(s) == [c \in DOMAIN s |-> s[c].rows]

IsSets(s, k, D) ==
    /\ k \in Nat \ {0} /\ D \in SUBSET Nat /\ s \in [1..k -> SetsOver(D)]
    /\ \A c \in 1..k : s[c].rows # <<>> <=> s[c].sum > 0
    /\ Once(RowsIn(s))

\* A set has a sum and rows.
LEMMA SetTypes ==
    ASSUME NEW s, NEW k, NEW D, IsSets(s, k, D)
    PROVE  /\ k \in Nat \ {0} /\ D \in SUBSET Nat /\ DOMAIN s = 1..k
           /\ IsParts(RowsIn(s), k, D) /\ Once(RowsIn(s))
           /\ \A c \in 1..k : /\ s[c] \in SetsOver(D) /\ s[c].sum \in Nat
                              /\ s[c].rows \in Seq(D) /\ Len(s[c].rows) \in Nat
                              /\ RowsIn(s)[c] = s[c].rows
  <1>1. /\ k \in Nat \ {0} /\ D \in SUBSET Nat /\ DOMAIN s = 1..k /\ Once(RowsIn(s))
        /\ s \in [1..k -> SetsOver(D)]
    BY DEF IsSets
  <1>2. \A c \in 1..k : /\ s[c] \in SetsOver(D) /\ s[c].sum \in Nat /\ s[c].rows \in Seq(D)
                        /\ RowsIn(s)[c] = s[c].rows
    BY <1>1 DEF SetsOver, RowsIn
  <1>3. \A c \in 1..k : Len(s[c].rows) \in Nat
    BY <1>2
  <1>4. RowsIn(s) \in [1..k -> Seq(D)]
    BY <1>1, <1>2 DEF RowsIn
  <1> QED BY <1>1, <1>2, <1>3, <1>4 DEF IsParts

\* The heaviest come first.
Descending(s, k) == \A c, d \in 1..k : c < d => ~Less(Weight(s[c]), Weight(s[d]))

\* Its weight is a key.
LEMMA WeightType ==
    ASSUME NEW D \in SUBSET Nat, NEW a \in SetsOver(D)
    PROVE  /\ Weight(a) \in Triples /\ Opposite(Weight(a)) \in Triples
           /\ Weight(a)[1] = a.sum
  <1>1. a.sum \in Nat /\ a.rows \in Seq(D)
    BY DEF SetsOver
  <1>2. Len(a.rows) \in Nat /\ First(a.rows) \in Nat
    <2>1. CASE a.rows = <<>>
      BY <1>1, <2>1 DEF First
    <2>2. CASE a.rows # <<>>
      <3>1. a.rows[1] \in D
        BY <1>1, <2>2
      <3>2. First(a.rows) = a.rows[1]
        BY <2>2 DEF First
      <3>3. First(a.rows) \in Nat
        BY <3>1, <3>2
      <3> QED BY <1>1, <3>3
    <2> QED BY <2>1, <2>2
  <1> DEFINE n == Len(a.rows)
             f == First(a.rows)
  <1>3. Weight(a) = <<a.sum, n, f>>
    BY DEF Weight
  <1>4. n \in Int /\ f \in Int /\ a.sum \in Int
    BY <1>1, <1>2
  <1> HIDE DEF n, f
  <1> QED BY <1>3, <1>4 DEF Triples, Opposite

\* The opposite order is one of keys, too.
LEMMA OppositeOrder ==
    ASSUME NEW a \in Triples, NEW b \in Triples
    PROVE  Less(Opposite(a), Opposite(b)) <=> Less(b, a)
  BY DEF Triples, Opposite, Less

\* h has what m has, in another order.
Rearranged(h, m, k) == \E perm : Permutes(perm, k) /\ \A n \in 1..k : h[n] = m[perm[n]]

\* Putting the heaviest first neither loses nor repeats a row.
LEMMA HeaviestSorts ==
    ASSUME NEW m, NEW k, NEW D, IsSets(m, k, D)
    PROVE  LET h == Heaviest(m)
           IN  /\ IsSets(h, k, D) /\ Descending(h, k) /\ Held(RowsIn(h)) = Held(RowsIn(m))
               /\ Rearranged(h, m, k)
  <1> DEFINE h == Heaviest(m)
             keys == [c \in 1..k |-> Opposite(Weight(m[c]))]
             perm == SortOrder(Keyed(keys, k))
  <1>1. k \in Nat /\ D \in SUBSET Nat /\ DOMAIN m = 1..k /\ \A c \in 1..k : m[c] \in SetsOver(D)
    BY SetTypes
  <1>2. \A c \in 1..k : Weight(m[c]) \in Triples /\ Opposite(Weight(m[c])) \in Triples
    BY <1>1, WeightType
  <1>3. keys \in [1..k -> Triples]
    BY <1>2
  <1>4. /\ Permutes(perm, k)
        /\ \A i, j \in 1..k : i < j => ~Less(keys[perm[j]], keys[perm[i]])
    <2> HIDE DEF keys
    <2> QED BY <1>1, <1>3, SortOrderPermutes
  <1>5. h = [n \in 1..k |-> m[perm[n]]]
    <2>1. Keyed(keys, k) = {[key |-> Opposite(Weight(m[c])), place |-> c] : c \in 1..k}
      BY DEF Keyed
    <2> QED BY <1>1, <2>1, Zenon DEF Heaviest, Sorted
  <1> HIDE DEF perm, h
  <1>6. \A n \in 1..k : perm[n] \in 1..k
    BY <1>4 DEF Permutes
  <1>7. DOMAIN h = 1..k /\ \A n \in 1..k : h[n] = m[perm[n]]
    BY <1>5
  <1>8. Descending(h, k)
    <2> SUFFICES ASSUME NEW i \in 1..k, NEW j \in 1..k, i < j
                 PROVE  ~Less(Weight(h[i]), Weight(h[j]))
      BY DEF Descending
    <2> DEFINE a == Weight(m[perm[i]])
               b == Weight(m[perm[j]])
    <2>1. a \in Triples /\ b \in Triples /\ a = Weight(h[i]) /\ b = Weight(h[j])
      BY <1>2, <1>6, <1>7
    <2>2. keys[perm[i]] = Opposite(a) /\ keys[perm[j]] = Opposite(b)
      BY <1>6
    <2>3. ~Less(keys[perm[j]], keys[perm[i]])
      BY <1>4
    <2> HIDE DEF a, b, keys
    <2> QED BY <2>1, <2>2, <2>3, OppositeOrder
  <1>9. IsParts(RowsIn(m), k, D) /\ Once(RowsIn(m)) /\ \A c \in 1..k : RowsIn(m)[c] = m[c].rows
    BY SetTypes
  <1>10. IsParts(RowsIn(h), k, D) /\ \A n \in 1..k : RowsIn(h)[n] = RowsIn(m)[perm[n]]
    <2>1. \A n \in 1..k : RowsIn(h)[n] = RowsIn(m)[perm[n]]
      BY <1>6, <1>7, <1>9 DEF RowsIn
    <2>2. \A n \in 1..k : RowsIn(h)[n] \in Seq(D)
      BY <1>6, <1>9, <2>1, PartTypes
    <2>3. RowsIn(h) \in [1..k -> Seq(D)]
      <3>1. RowsIn(h) = [n \in 1..k |-> RowsIn(h)[n]]
        BY <1>7 DEF RowsIn
      <3> QED BY <2>2, <3>1
    <2> QED BY <1>1, <2>1, <2>3 DEF IsParts
  <1>11. Held(RowsIn(h)) = Held(RowsIn(m)) /\ Once(RowsIn(h))
    <2> DEFINE p == RowsIn(m)
               q == RowsIn(h)
    <2>1. /\ IsParts(p, k, D) /\ IsParts(q, k, D) /\ Once(p)
          /\ \A n \in 1..k : q[n] = p[perm[n]]
      BY <1>9, <1>10
    <2> HIDE DEF p, q
    <2>2. Held(q) = Held(p) /\ Once(q)
      BY <1>4, <2>1, PermutedParts
    <2> QED BY <2>2 DEF p, q
  <1>12. IsSets(h, k, D)
    <2>1. h \in [1..k -> SetsOver(D)]
      BY <1>1, <1>5, <1>6
    <2>2. \A c \in 1..k : m[c].rows # <<>> <=> m[c].sum > 0
      BY DEF IsSets
    <2>3. \A c \in 1..k : h[c].rows # <<>> <=> h[c].sum > 0
      BY <1>6, <1>7, <2>2
    <2>4. k \in Nat \ {0}
      BY SetTypes
    <2> QED BY <1>1, <1>11, <2>1, <2>3, <2>4 DEF IsSets
  <1> QED BY <1>4, <1>7, <1>8, <1>11, <1>12 DEF h, Rearranged

-----------------------------------------------------------------------------
(* A merge of two states.                                                  *)

\* What a state keeps: with equal sizes its sets have as many rows as each
\* other, otherwise none of them is empty while there are rows enough.
IsState(s, k, D, equalSize) ==
    /\ IsSets(s, k, D) /\ Descending(s, k) /\ IsFiniteSet(D)
    /\ s[1].rows # <<>>
    /\ equalSize => \A c, d \in 1..k : Len(s[c].rows) = Len(s[d].rows)
    /\ ~equalSize => \A c \in 1..k : c <= Cardinality(Held(RowsIn(s))) => s[c].rows # <<>>

\* Of the last k + 1 - c places of a permutation one is among the first a or
\* the last b when c is at most a + b.
LEMMA OneIsFull ==
    ASSUME NEW k \in Nat, NEW perm, Permutes(perm, k), NEW a \in Nat, NEW b \in Nat,
           NEW c \in 1..k, c <= a + b
    PROVE  \E d \in c..k : perm[d] <= a \/ k + 1 - perm[d] <= b
  <1> SUFFICES ASSUME \A d \in c..k : ~(perm[d] <= a) /\ ~(k + 1 - perm[d] <= b)
               PROVE  FALSE
    OBVIOUS
  <1> DEFINE S == c..k
             lo == a + 1
             hi == k - b
             T == lo..hi
             f == [d \in S |-> perm[d]]
  <1>1. \A d \in S : d \in 1..k /\ perm[d] \in 1..k
    BY DEF Permutes
  <1>2. f \in [S -> T]
    <2> SUFFICES ASSUME NEW d \in S PROVE perm[d] \in T
      OBVIOUS
    <2>1. perm[d] \in 1..k /\ ~(perm[d] <= a) /\ ~(k + 1 - perm[d] <= b)
      BY <1>1
    <2> DEFINE o == perm[d]
    <2> HIDE DEF o
    <2>2. o \in lo..hi
      BY <2>1 DEF o
    <2> QED BY <2>2 DEF o
  <1>3. \A x, y \in S : f[x] = f[y] => x = y
    BY <1>1 DEF Permutes
  <1>4. IsFiniteSet(S) /\ Cardinality(S) = k - c + 1
    <2>1. k \in Int /\ c \in Int /\ ~(c > k)
      OBVIOUS
    <2> QED BY <2>1, FS_Interval
  <1>5. IsFiniteSet(T) /\ Cardinality(T) = IF lo > hi THEN 0 ELSE hi - lo + 1
    <2>1. lo \in Int /\ hi \in Int
      OBVIOUS
    <2> HIDE DEF lo, hi
    <2> QED BY <2>1, FS_Interval
  <1> HIDE DEF S, T, f
  <1>6. f \in Injection(S, T)
    BY <1>2, <1>3, Fun_IsInj
  <1>7. Cardinality(S) <= Cardinality(T)
    BY <1>5, <1>6, FS_Injection
  <1> QED BY <1>4, <1>5, <1>7

\* In what order sets come, what is joined of two states is a state again.
LEMMA MergeIsState ==
    ASSUME NEW s, NEW t, NEW k, NEW D, NEW equalSize,
           IsState(s, k, D, equalSize), IsState(t, k, D, equalSize),
           Held(RowsIn(s)) \cap Held(RowsIn(t)) = {}
    PROVE  /\ IsState(Merge(s, t), k, D, equalSize)
           /\ Held(RowsIn(Merge(s, t))) = Held(RowsIn(s)) \cup Held(RowsIn(t))
  <1> DEFINE m == [i \in 1..k |-> Joined(s[i], t[k + 1 - i])]
             h == Merge(s, t)
             A == Held(RowsIn(s))
             B == Held(RowsIn(t))
  <1>1. IsSets(s, k, D) /\ IsSets(t, k, D) /\ IsFiniteSet(D)
    BY DEF IsState
  <1>2. /\ k \in Nat \ {0} /\ D \in SUBSET Nat /\ DOMAIN s = 1..k /\ DOMAIN t = 1..k
        /\ \A c \in 1..k : /\ s[c].sum \in Nat /\ s[c].rows \in Seq(D) /\ Len(s[c].rows) \in Nat
                           /\ RowsIn(s)[c] = s[c].rows
        /\ \A c \in 1..k : /\ t[c].sum \in Nat /\ t[c].rows \in Seq(D) /\ Len(t[c].rows) \in Nat
                           /\ RowsIn(t)[c] = t[c].rows
        /\ IsParts(RowsIn(s), k, D) /\ Once(RowsIn(s))
        /\ IsParts(RowsIn(t), k, D) /\ Once(RowsIn(t))
    BY <1>1, SetTypes
  <1>3. h = Heaviest(m)
    <2>1. Len(t) = k
      <3>1. t \in [1..k -> SetsOver(D)]
        BY <1>1 DEF IsSets
      <3> QED BY <1>2, <3>1
    <2> QED BY <1>2, <2>1, Zenon DEF Merge
  <1>4. \A i \in 1..k : k + 1 - i \in 1..k
    BY <1>2
  <1>5. ASSUME NEW i \in 1..k
        PROVE  /\ m[i].sum = s[i].sum + t[k + 1 - i].sum
               /\ m[i].rows = s[i].rows \o t[k + 1 - i].rows
               /\ m[i].rows \in Seq(D)
               /\ Len(m[i].rows) = Len(s[i].rows) + Len(t[k + 1 - i].rows)
               /\ m[i] \in SetsOver(D)
    <2> DEFINE a == s[i]
               b == t[k + 1 - i]
    <2>1. a.sum \in Nat /\ b.sum \in Nat /\ a.rows \in Seq(D) /\ b.rows \in Seq(D)
      BY <1>2, <1>4
    <2>2. m[i] = [sum |-> a.sum + b.sum, rows |-> a.rows \o b.rows]
      BY DEF Joined
    <2> HIDE DEF a, b, m
    <2>3. a.rows \o b.rows \in Seq(D) /\ Len(a.rows \o b.rows) = Len(a.rows) + Len(b.rows)
      BY <2>1, ConcatProperties
    <2>4. a.sum + b.sum \in Nat
      BY <2>1
    <2>5. m[i] \in SetsOver(D)
      BY <2>2, <2>3, <2>4 DEF SetsOver
    <2>6. /\ m[i].sum = a.sum + b.sum /\ m[i].rows = a.rows \o b.rows
          /\ m[i].rows \in Seq(D) /\ Len(m[i].rows) = Len(a.rows) + Len(b.rows)
      <3>1. m[i].sum = a.sum + b.sum
        BY <2>2
      <3>2. m[i].rows = a.rows \o b.rows
        <4> DEFINE ab == a.rows \o b.rows
                   n == a.sum + b.sum
        <4>1. m[i] = [sum |-> n, rows |-> ab]
          BY <2>2
        <4> HIDE DEF ab, n
        <4>2. m[i].rows = ab
          BY <4>1
        <4> QED BY <4>2 DEF ab
      <3> QED BY <2>3, <3>1, <3>2
    <2> QED BY <2>5, <2>6 DEF a, b
  <1>6. DOMAIN m = 1..k
    OBVIOUS
  <1> HIDE DEF m, h
  <1>7. IsParts(RowsIn(m), k, D) /\ \A i \in 1..k : RowsIn(m)[i] = m[i].rows
    <2>1. RowsIn(m) \in [1..k -> Seq(D)] /\ \A i \in 1..k : RowsIn(m)[i] = m[i].rows
      BY <1>5, <1>6 DEF RowsIn
    <2> QED BY <1>2, <2>1 DEF IsParts
  <1>8. Once(RowsIn(m)) /\ Held(RowsIn(m)) = A \cup B
    <2> DEFINE p == RowsIn(s)
               q == RowsIn(t)
               r == RowsIn(m)
    <2>1. /\ IsParts(p, k, D) /\ IsParts(q, k, D) /\ IsParts(r, k, D)
          /\ Once(p) /\ Once(q) /\ Held(p) \cap Held(q) = {}
      BY <1>2, <1>7
    <2>2. Joins(r, p, q, k)
      BY <1>2, <1>4, <1>5, <1>7 DEF Joins
    <2> HIDE DEF p, q, r
    <2>3. Once(r) /\ Held(r) = Held(p) \cup Held(q)
      BY <2>1, <2>2, JoinedParts
    <2> QED BY <2>3 DEF p, q, r
  <1>9. ASSUME NEW i \in 1..k
        PROVE  /\ m[i].rows # <<>> <=> m[i].sum > 0
               /\ m[i].rows # <<>> <=> s[i].rows # <<>> \/ t[k + 1 - i].rows # <<>>
    <2> DEFINE a == s[i]
               b == t[k + 1 - i]
    <2>1. /\ a.sum \in Nat /\ b.sum \in Nat /\ a.rows \in Seq(D) /\ b.rows \in Seq(D)
          /\ a.rows # <<>> <=> a.sum > 0
          /\ b.rows # <<>> <=> b.sum > 0
      BY <1>1, <1>2, <1>4 DEF IsSets
    <2>2. m[i].sum = a.sum + b.sum /\ m[i].rows = a.rows \o b.rows
      BY <1>5
    <2> HIDE DEF a, b
    <2>3. a.rows \o b.rows = <<>> <=> a.rows = <<>> /\ b.rows = <<>>
      BY <2>1, ConcatEqualIffEmpty
    <2>4. m[i].rows # <<>> <=> m[i].sum > 0
      BY <2>1, <2>2, <2>3
    <2>5. m[i].rows # <<>> <=> a.rows # <<>> \/ b.rows # <<>>
      BY <2>2, <2>3
    <2> QED BY <2>4, <2>5 DEF a, b
  <1>10. IsSets(m, k, D)
    <2>1. m \in [1..k -> SetsOver(D)]
      <3>1. m = [i \in 1..k |-> m[i]]
        BY DEF m
      <3> QED BY <1>5, <3>1
    <2> QED BY <1>2, <1>8, <1>9, <2>1 DEF IsSets
  <1>11. /\ IsSets(h, k, D) /\ Descending(h, k) /\ Held(RowsIn(h)) = A \cup B
         /\ Rearranged(h, m, k)
    BY <1>3, <1>8, <1>10, HeaviestSorts
  <1>12. PICK perm : Permutes(perm, k) /\ \A n \in 1..k : h[n] = m[perm[n]]
    BY <1>11 DEF Rearranged
  <1>13. \A n \in 1..k : perm[n] \in 1..k
    BY <1>12 DEF Permutes
  <1>14. ASSUME NEW c \in 1..k, NEW d \in c..k, h[d].rows # <<>>
         PROVE  h[c].rows # <<>>
    <2>1. d \in 1..k /\ (c = d \/ c < d)
      BY <1>2
    <2>2. ASSUME c < d PROVE h[c].rows # <<>>
      <3>1. ~Less(Weight(h[c]), Weight(h[d]))
        BY <1>11, <2>1, <2>2 DEF Descending
      <3>2. h[c].sum \in Nat /\ h[d].sum \in Nat
        BY <1>11, <2>1, SetTypes
      <3>3. Weight(h[c])[1] = h[c].sum /\ Weight(h[d])[1] = h[d].sum
        BY DEF Weight
      <3>4. ~(h[c].sum < h[d].sum)
        BY <3>1, <3>3 DEF Less
      <3>5. h[d].sum > 0
        BY <1>11, <1>14, <2>1 DEF IsSets
      <3>6. h[c].sum > 0
        BY <3>2, <3>4, <3>5
      <3> QED BY <1>11, <3>6 DEF IsSets
    <2> QED BY <1>14, <2>1, <2>2
  <1>15. h[1].rows # <<>>
    <2>1. 1 \in 1..k /\ m[1].rows # <<>>
      <3>1. 1 \in 1..k /\ s[1].rows # <<>>
        BY <1>2 DEF IsState
      <3> QED BY <1>9, <3>1
    <2>2. PICK d \in 1..k : perm[d] = 1
      BY <1>12, <2>1 DEF Permutes
    <2>3. h[d].rows # <<>>
      BY <1>12, <2>1, <2>2
    <2> QED BY <1>14, <2>1, <2>3
  <1>16. ASSUME equalSize, NEW c \in 1..k, NEW d \in 1..k
         PROVE  Len(h[c].rows) = Len(h[d].rows)
    <2>1. \A i, j \in 1..k : Len(s[i].rows) = Len(s[j].rows) /\ Len(t[i].rows) = Len(t[j].rows)
      BY <1>16 DEF IsState
    <2>2. ASSUME NEW i \in 1..k, NEW j \in 1..k PROVE Len(m[i].rows) = Len(m[j].rows)
      <3>1. /\ Len(m[i].rows) = Len(s[i].rows) + Len(t[k + 1 - i].rows)
            /\ Len(m[j].rows) = Len(s[j].rows) + Len(t[k + 1 - j].rows)
        BY <1>5
      <3>2. Len(s[i].rows) = Len(s[j].rows)
        BY <2>1
      <3>3. Len(t[k + 1 - i].rows) = Len(t[k + 1 - j].rows)
        BY <1>4, <2>1
      <3> QED BY <3>1, <3>2, <3>3
    <2> QED BY <1>12, <1>13, <2>2
  <1>17. ASSUME ~equalSize, NEW c \in 1..k, c <= Cardinality(A \cup B)
         PROVE  h[c].rows # <<>>
    <2> DEFINE a == Cardinality(A)
               b == Cardinality(B)
    <2>1. a \in Nat /\ b \in Nat /\ Cardinality(A \cup B) = a + b
      <3>1. A \in SUBSET D /\ B \in SUBSET D
        BY <1>2, FromPlace DEF Held
      <3>2. A \cap B = {}
        OBVIOUS
      <3> HIDE DEF A, B
      <3>3. IsFiniteSet(A) /\ IsFiniteSet(B)
        BY <1>1, <3>1, FS_Subset
      <3>4. Cardinality(A) \in Nat /\ Cardinality(B) \in Nat
        BY <3>3, FS_CardinalityType
      <3>5. Cardinality(A \cup B) = Cardinality(A) + Cardinality(B) - Cardinality({})
        BY <3>2, <3>3, FS_Union
      <3>6. Cardinality({}) = 0
        BY FS_EmptySet
      <3> QED BY <3>4, <3>5, <3>6
    <2>2. /\ \A i \in 1..k : i <= a => s[i].rows # <<>>
          /\ \A i \in 1..k : i <= b => t[i].rows # <<>>
      BY <1>17 DEF IsState
    <2> HIDE DEF a, b, A, B
    <2>3. PICK d \in c..k : perm[d] <= a \/ k + 1 - perm[d] <= b
      <3>1. k \in Nat /\ c <= a + b
        BY <1>2, <1>17, <2>1
      <3> QED BY <1>12, <2>1, <3>1, OneIsFull
    <2>4. d \in 1..k
      BY <1>2
    <2>5. m[perm[d]].rows # <<>>
      BY <1>4, <1>9, <1>13, <2>2, <2>3, <2>4
    <2>6. h[d].rows # <<>>
      BY <1>12, <2>4, <2>5
    <2> QED BY <1>14, <2>6
  <1> QED BY <1>1, <1>11, <1>15, <1>16, <1>17 DEF IsState, h

\* A sum of natural numbers is one, and not less than the last of them.
LEMMA SummedIsNat ==
    ASSUME NEW numbers \in Seq(Nat)
    PROVE  /\ Summed(numbers) \in Nat
           /\ Len(numbers) > 0 => Summed(numbers) >= numbers[Len(numbers)]
  <1> DEFINE n == Len(numbers)
             step == [x \in Nat \X (1..n) |-> x[1] + numbers[x[2]]]
             Sums(f) == f = [m \in 0..n |-> IF m = 0 THEN 0 ELSE f[m - 1] + numbers[m]]
             sum == CHOOSE f : Sums(f)
  <1>1. n \in Nat /\ \A m \in 1..n : numbers[m] \in Nat
    OBVIOUS
  <1>2. Summed(numbers) = sum[n]
    BY DEF Summed
  <1>3. step \in [Nat \X (1..n) -> Nat]
    <2> SUFFICES ASSUME NEW x \in Nat \X (1..n) PROVE x[1] + numbers[x[2]] \in Nat
      OBVIOUS
    <2>1. x[1] \in Nat /\ x[2] \in 1..n
      OBVIOUS
    <2> QED BY <1>1, <2>1
  <1>4. \A a \in Nat, m \in 1..n : step[<<a, m>>] = a + numbers[m]
    OBVIOUS
  <1> HIDE DEF n, step
  <1>5. PICK f \in [0..n -> Nat] : f[0] = 0 /\ \A m \in 1..n : f[m] = step[<<f[m - 1], m>>]
    <2>1. Stepping(step, Nat, 0, n)
      BY <1>1, <1>3 DEF Stepping
    <2> QED BY <2>1, Steps
  <1>6. Sums(f)
    <2>1. \A m \in 1..n : f[m - 1] \in Nat
      BY <1>1
    <2>2. \A m \in 1..n : f[m] = f[m - 1] + numbers[m]
      BY <1>4, <1>5, <2>1
    <2>3. \A m \in 0..n : f[m] = IF m = 0 THEN 0 ELSE f[m - 1] + numbers[m]
      BY <1>1, <1>5, <2>2
    <2>4. f = [m \in 0..n |-> f[m]]
      OBVIOUS
    <2> QED BY <2>3, <2>4
  <1>7. sum = [m \in 0..n |-> IF m = 0 THEN 0 ELSE sum[m - 1] + numbers[m]]
    BY <1>6
  <1> HIDE DEF sum
  <1>8. sum[0] = 0 /\ \A m \in 1..n : sum[m] = sum[m - 1] + numbers[m]
    BY <1>1, <1>7
  <1>9. \A m \in 0..n : sum[m] \in Nat
    <2> DEFINE Bad == {m \in 0..n : sum[m] \notin Nat}
    <2> SUFFICES ASSUME Bad # {} PROVE FALSE
      OBVIOUS
    <2>1. Bad \in SUBSET Nat
      BY <1>1
    <2>2. PICK b \in Bad : \A e \in Bad : b <= e
      <3> HIDE DEF Bad
      <3> QED BY <2>1, Least
    <2>3. b \in 0..n /\ sum[b] \notin Nat
      OBVIOUS
    <2>4. b \in 1..n /\ b - 1 \in 0..n /\ ~(b <= b - 1)
      BY <1>1, <1>8, <2>3
    <2>5. sum[b - 1] \in Nat
      BY <2>2, <2>4
    <2>6. sum[b] = sum[b - 1] + numbers[b] /\ numbers[b] \in Nat
      BY <1>1, <1>8, <2>4
    <2> QED BY <2>3, <2>5, <2>6
  <1>10. n > 0 => n \in 1..n /\ n - 1 \in 0..n
    BY <1>1
  <1>11. n > 0 => sum[n] >= numbers[n]
    <2> SUFFICES ASSUME n > 0 PROVE sum[n] >= numbers[n]
      OBVIOUS
    <2>1. sum[n] = sum[n - 1] + numbers[n] /\ sum[n - 1] \in Nat /\ numbers[n] \in Nat
      BY <1>1, <1>8, <1>9, <1>10
    <2> QED BY <2>1
  <1> QED BY <1>1, <1>2, <1>9, <1>11 DEF n

-----------------------------------------------------------------------------
(* The heap.                                                               *)

Orders(R, S) ==
    \A a, b, c \in S : /\ <<a, a>> \notin R
                       /\ <<a, b>> \in R /\ <<b, c>> \in R => <<a, c>> \in R
                       /\ a = b \/ <<a, b>> \in R \/ <<b, a>> \in R

\* A finite set that is ordered has a first element.
LEMMA FirstExists ==
    ASSUME NEW S, NEW R, IsFiniteSet(S), S # {}, Orders(R, S)
    PROVE  \E s \in S : \A t \in S \ {s} : <<s, t>> \in R
  <1> DEFINE Below(a) == {b \in S : <<b, a>> \in R}
             N == {Cardinality(Below(a)) : a \in S}
  <1>1. ASSUME NEW a \in S PROVE IsFiniteSet(Below(a)) /\ Cardinality(Below(a)) \in Nat
    <2>1. Below(a) \in SUBSET S
      OBVIOUS
    <2> HIDE DEF Below
    <2>2. IsFiniteSet(Below(a))
      BY <2>1, FS_Subset
    <2> QED BY <2>2, FS_CardinalityType
  <1>2. N \in SUBSET Nat /\ N # {}
    <2>1. \A a \in S : Cardinality(Below(a)) \in Nat
      BY <1>1, Zenon
    <2> HIDE DEF Below
    <2> QED BY <2>1
  <1>3. PICK n \in N : \A e \in N : n <= e
    <2> HIDE DEF N
    <2> QED BY <1>2, Least
  <1>4. PICK a \in S : n = Cardinality(Below(a))
    OBVIOUS
  <1>5. \A b \in S : n <= Cardinality(Below(b))
    BY <1>3
  <1>6. Below(a) = {}
    <2> SUFFICES ASSUME NEW b \in Below(a) PROVE FALSE
      OBVIOUS
    <2>1. b \in S /\ <<b, a>> \in R
      OBVIOUS
    <2>2. Below(b) \in SUBSET (Below(a) \ {b})
      BY <2>1 DEF Orders
    <2>3. IsFiniteSet(Below(a)) /\ Cardinality(Below(a)) \in Nat /\ Cardinality(Below(b)) \in Nat
      BY <1>1, <2>1, Zenon
    <2>4. n <= Cardinality(Below(b))
      BY <1>5, <2>1
    <2> HIDE DEF Below
    <2>5. /\ IsFiniteSet(Below(a) \ {b})
          /\ Cardinality(Below(a) \ {b}) = Cardinality(Below(a)) - 1
      BY <2>3, FS_RemoveElement
    <2>6. Cardinality(Below(b)) <= Cardinality(Below(a)) - 1
      BY <2>2, <2>5, FS_Subset
    <2> QED BY <1>4, <2>3, <2>4, <2>6
  <1>7. ASSUME NEW t \in S \ {a} PROVE <<a, t>> \in R
    <2>1. <<t, a>> \notin R
      BY <1>6
    <2> QED BY <2>1 DEF Orders
  <1> QED BY <1>7

\* The states of the heap have each row of D in one place of one of them.
IsHeap(S, k, D, equalSize) ==
    /\ IsFiniteSet(S) /\ S # {}
    /\ \A s \in S : IsState(s, k, D, equalSize)
    /\ \A s, t \in S : s # t => Held(RowsIn(s)) \cap Held(RowsIn(t)) = {}

\* The state that comes first is one of the heap's.
LEMMA HeldFirst ==
    ASSUME NEW s, NEW k, NEW D, NEW equalSize, IsState(s, k, D, equalSize)
    PROVE  /\ Weight(s[1]) \in Triples /\ Spread(s) \in Int
           /\ Weight(s[1])[3] \in Held(RowsIn(s))
  <1>1. IsSets(s, k, D) /\ s[1].rows # <<>>
    BY DEF IsState
  <1>2. /\ k \in Nat \ {0} /\ D \in SUBSET Nat
        /\ IsParts(RowsIn(s), k, D)
        /\ \A c \in 1..k : /\ s[c] \in SetsOver(D) /\ s[c].sum \in Nat
                           /\ s[c].rows \in Seq(D) /\ Len(s[c].rows) \in Nat
                           /\ RowsIn(s)[c] = s[c].rows
    BY <1>1, SetTypes
  <1>3. 1 \in 1..k /\ k \in 1..k
    BY <1>2
  <1>4. Weight(s[1]) \in Triples
    BY <1>2, <1>3, WeightType
  <1>5. Spread(s) \in Int
    <2>1. Len(s) = k
      <3>1. s \in [1..k -> SetsOver(D)]
        BY <1>1 DEF IsSets
      <3> QED BY <1>2, <3>1
    <2>2. s[1].sum \in Nat /\ s[k].sum \in Nat
      BY <1>2, <1>3
    <2> QED BY <2>1, <2>2 DEF Spread
  <1>6. Weight(s[1])[3] \in Held(RowsIn(s))
    <2>1. Weight(s[1])[3] = s[1].rows[1]
      BY <1>1 DEF Weight, First
    <2>2. 1 \in 1..Len(s[1].rows) /\ RowsIn(s)[1] = s[1].rows
      BY <1>1, <1>2, <1>3
    <2> DEFINE p == RowsIn(s)
    <2>3. IsParts(p, k, D) /\ 1 \in 1..k /\ 1 \in 1..Len(p[1]) /\ p[1][1] = s[1].rows[1]
      BY <1>2, <1>3, <2>2
    <2> HIDE DEF p
    <2>4. <<1, 1>> \in Places(p) /\ RowAt(p, <<1, 1>>) = p[1][1]
      BY <2>3, ToPlace
    <2>5. p[1][1] \in Held(p)
      BY <2>4 DEF Held
    <2> QED BY <2>1, <2>3, <2>5 DEF p
  <1> QED BY <1>4, <1>5, <1>6

\* The heap gives back one of its states.
LEMMA FirstIsThere ==
    ASSUME NEW S, NEW k, NEW D, NEW equalSize, IsHeap(S, k, D, equalSize)
    PROVE  FirstOf(S) \in S
  <1> DEFINE R == {x \in S \X S : Before(x[1], x[2])}
  <1>1. \A a, b \in S : <<a, b>> \in R <=> Before(a, b)
    OBVIOUS
  <1>2. \A s \in S : Weight(s[1]) \in Triples /\ Spread(s) \in Int /\ Weight(s[1])[3] \in Held(RowsIn(s))
    BY HeldFirst DEF IsHeap
  <1> HIDE DEF R
  <1>3. Orders(R, S)
    <2> SUFFICES ASSUME NEW a \in S, NEW b \in S, NEW c \in S
                 PROVE  /\ <<a, a>> \notin R
                        /\ <<a, b>> \in R /\ <<b, c>> \in R => <<a, c>> \in R
                        /\ a = b \/ <<a, b>> \in R \/ <<b, a>> \in R
      BY Zenon DEF Orders
    <2> DEFINE u == Weight(a[1])
               v == Weight(b[1])
               w == Weight(c[1])
               i == Spread(a)
               j == Spread(b)
               l == Spread(c)
    <2>1. u \in Triples /\ v \in Triples /\ w \in Triples /\ i \in Int /\ j \in Int /\ l \in Int
      BY <1>2
    <2>2. /\ <<a, a>> \in R <=> (i > i \/ (i = i /\ Less(u, u)))
          /\ <<a, b>> \in R <=> (i > j \/ (i = j /\ Less(v, u)))
          /\ <<b, a>> \in R <=> (j > i \/ (j = i /\ Less(u, v)))
          /\ <<b, c>> \in R <=> (j > l \/ (j = l /\ Less(w, v)))
          /\ <<a, c>> \in R <=> (i > l \/ (i = l /\ Less(w, u)))
      BY <1>1 DEF Before
    <2>3. a # b => u # v
      <3> SUFFICES ASSUME a # b, u = v PROVE FALSE
        OBVIOUS
      <3>1. Held(RowsIn(a)) \cap Held(RowsIn(b)) = {}
        BY DEF IsHeap
      <3>2. u[3] \in Held(RowsIn(a)) /\ v[3] \in Held(RowsIn(b))
        BY <1>2
      <3> QED BY <3>1, <3>2
    <2> HIDE DEF u, v, w, i, j, l
    <2>4. /\ ~Less(u, u)
          /\ Less(w, v) /\ Less(v, u) => Less(w, u)
      BY <2>1, LessIsOrder
    <2>5. Less(u, v) \/ Less(v, u) \/ u = v
      BY <2>1, LessIsOrder
    <2> QED BY <2>1, <2>2, <2>3, <2>4, <2>5
  <1>4. \E s \in S : \A t \in S \ {s} : <<s, t>> \in R
    BY <1>3, FirstExists DEF IsHeap
  <1>5. \E s \in S : \A t \in S \ {s} : Before(s, t)
    BY <1>1, <1>4
  <1> QED BY <1>5 DEF FirstOf

\* The rows on the heap.
OnHeap(S) == UNION {Held(RowsIn(s)) : s \in S}

\* A round leaves one state less, with the same rows.
LEMMA DifferencedIsHeap ==
    ASSUME NEW S, NEW k, NEW D, NEW equalSize, IsHeap(S, k, D, equalSize), Cardinality(S) > 1
    PROVE  /\ IsHeap(Differenced(S), k, D, equalSize)
           /\ Cardinality(Differenced(S)) = Cardinality(S) - 1
           /\ OnHeap(Differenced(S)) = OnHeap(S)
  <1> DEFINE s == FirstOf(S)
             t == FirstOf(S \ {s})
             rest == S \ {s, t}
             m == Merge(s, t)
  <1>1. s \in S
    BY FirstIsThere
  <1>2. IsFiniteSet(S) /\ Cardinality(S) \in Nat
    BY FS_CardinalityType DEF IsHeap
  <1>3. IsFiniteSet(S \ {s}) /\ Cardinality(S \ {s}) = Cardinality(S) - 1
    <2> HIDE DEF s
    <2> QED BY <1>1, <1>2, FS_RemoveElement
  <1>4. IsHeap(S \ {s}, k, D, equalSize)
    <2>1. S \ {s} # {}
      <3> SUFFICES ASSUME S \ {s} = {} PROVE FALSE
        OBVIOUS
      <3>1. Cardinality({}) = 0
        BY FS_EmptySet
      <3> QED BY <1>2, <1>3, <3>1
    <2> HIDE DEF s
    <2> QED BY <1>3, <2>1 DEF IsHeap
  <1>5. t \in S \ {s}
    BY <1>4, FirstIsThere
  <1>6. Differenced(S) = rest \cup {m}
    BY DEF Differenced
  <1> HIDE DEF s, t
  <1>7. /\ IsState(s, k, D, equalSize) /\ IsState(t, k, D, equalSize)
        /\ Held(RowsIn(s)) \cap Held(RowsIn(t)) = {}
    BY <1>1, <1>5 DEF IsHeap
  <1>8. /\ IsState(m, k, D, equalSize)
        /\ Held(RowsIn(m)) = Held(RowsIn(s)) \cup Held(RowsIn(t))
    BY <1>7, MergeIsState
  <1> HIDE DEF m
  <1>9. IsFiniteSet(rest) /\ Cardinality(rest) = Cardinality(S) - 2
    <2>1. rest = (S \ {s}) \ {t}
      OBVIOUS
    <2> HIDE DEF rest
    <2>2. IsFiniteSet((S \ {s}) \ {t}) /\ Cardinality((S \ {s}) \ {t}) = Cardinality(S \ {s}) - 1
      BY <1>3, <1>5, FS_RemoveElement
    <2> QED BY <1>2, <1>3, <2>1, <2>2
  <1>10. ASSUME NEW u \in rest PROVE Held(RowsIn(u)) \cap Held(RowsIn(m)) = {}
    <2>1. u \in S /\ u # s /\ u # t
      OBVIOUS
    <2>2. Held(RowsIn(u)) \cap Held(RowsIn(s)) = {} /\ Held(RowsIn(u)) \cap Held(RowsIn(t)) = {}
      BY <1>1, <1>5, <2>1 DEF IsHeap
    <2> QED BY <1>8, <2>2
  <1>11. m \notin rest
    <2> SUFFICES ASSUME m \in rest PROVE FALSE
      OBVIOUS
    <2>1. Held(RowsIn(m)) = {}
      BY <1>10
    <2>2. Held(RowsIn(m)) # {}
      BY <1>8, HeldFirst
    <2> QED BY <2>1, <2>2
  <1>12. IsFiniteSet(rest \cup {m}) /\ Cardinality(rest \cup {m}) = Cardinality(rest) + 1
    <2> HIDE DEF rest
    <2> QED BY <1>9, <1>11, FS_AddElement
  <1>13. IsHeap(rest \cup {m}, k, D, equalSize)
    <2>1. \A u \in rest \cup {m} : IsState(u, k, D, equalSize)
      BY <1>8 DEF IsHeap
    <2>2. ASSUME NEW u \in rest \cup {m}, NEW v \in rest \cup {m}, u # v
          PROVE  Held(RowsIn(u)) \cap Held(RowsIn(v)) = {}
      <3>1. CASE u \in rest /\ v \in rest
        BY <2>2, <3>1 DEF IsHeap
      <3>2. CASE u = m /\ v \in rest
        BY <1>10, <3>2
      <3>3. CASE v = m /\ u \in rest
        BY <1>10, <3>3
      <3> QED BY <2>2, <3>1, <3>2, <3>3
    <2> QED BY <1>12, <2>1, <2>2 DEF IsHeap
  <1>14. OnHeap(rest \cup {m}) = OnHeap(S)
    <2>1. OnHeap(rest \cup {m}) = OnHeap(rest) \cup Held(RowsIn(m))
      BY DEF OnHeap
    <2>2. S = rest \cup {s, t}
      BY <1>1, <1>5
    <2>3. OnHeap(S) = OnHeap(rest) \cup Held(RowsIn(s)) \cup Held(RowsIn(t))
      BY <2>2 DEF OnHeap
    <2> QED BY <1>8, <2>1, <2>3
  <1> QED BY <1>2, <1>6, <1>9, <1>12, <1>13, <1>14

\* After each of the rounds that a heap allows there is a heap with one state
\* less and the same rows.
Round(h, start, n, k, D, equalSize) ==
    /\ h[0] = start
    /\ \A m \in 1..n : IsHeap(h[m - 1], k, D, equalSize) /\ Cardinality(h[m - 1]) > 1 =>
          h[m] = Differenced(h[m - 1])

\* The heap after each round, as a recursive function.
LEMMA AfterRounds ==
    ASSUME NEW start, NEW k, NEW D, NEW equalSize, IsHeap(start, k, D, equalSize),
           NEW n \in Nat, Cardinality(start) = n + 1,
           NEW h, Round(h, start, n, k, D, equalSize)
    PROVE  \A m \in 0..n : /\ IsHeap(h[m], k, D, equalSize)
                           /\ Cardinality(h[m]) = n + 1 - m
                           /\ OnHeap(h[m]) = OnHeap(start)
  <1> DEFINE Good(m) == /\ IsHeap(h[m], k, D, equalSize)
                        /\ Cardinality(h[m]) = n + 1 - m
                        /\ OnHeap(h[m]) = OnHeap(start)
             Bad == {m \in 0..n : ~Good(m)}
  <1> SUFFICES ASSUME Bad # {} PROVE FALSE
    OBVIOUS
  <1>1. PICK b \in Bad : \A e \in Bad : b <= e
    <2>1. Bad \in SUBSET Nat
      OBVIOUS
    <2> HIDE DEF Bad
    <2> QED BY <2>1, Least
  <1>2. b \in 0..n /\ ~Good(b)
    OBVIOUS
  <1>3. b # 0
    <2>1. Good(0)
      BY DEF Round
    <2> HIDE DEF Good
    <2> QED BY <1>2, <2>1
  <1>4. b \in 1..n /\ b - 1 \in 0..n /\ ~(b <= b - 1)
    BY <1>2, <1>3
  <1>5. Good(b - 1)
    <2>1. b - 1 \notin Bad
      <3> HIDE DEF Bad
      <3> QED BY <1>1, <1>4
    <2> HIDE DEF Good
    <2> QED BY <1>4, <2>1
  <1>6. Cardinality(h[b - 1]) > 1 /\ Cardinality(h[b - 1]) - 1 = n + 1 - b
    BY <1>4, <1>5
  <1>7. h[b] = Differenced(h[b - 1])
    BY <1>4, <1>5, <1>6 DEF Round
  <1>8. /\ IsHeap(h[b], k, D, equalSize)
        /\ Cardinality(h[b]) = Cardinality(h[b - 1]) - 1
        /\ OnHeap(h[b]) = OnHeap(h[b - 1])
    BY <1>5, <1>6, <1>7, DifferencedIsHeap
  <1>9. Good(b)
    BY <1>5, <1>6, <1>8
  <1> HIDE DEF Good
  <1> QED BY <1>2, <1>9

\* The loop ends with one state, which has all rows of the heap.
LEMMA LoopEnds ==
    ASSUME NEW start, NEW k, NEW D, NEW equalSize, IsHeap(start, k, D, equalSize)
    PROVE  LET rounds == Cardinality(start) - 1
               after[n \in 0..rounds] == IF n = 0 THEN start ELSE Differenced(after[n - 1])
               s == FirstOf(after[rounds])
           IN  /\ IsState(s, k, D, equalSize)
               /\ Held(RowsIn(s)) = OnHeap(start)
  <1> DEFINE N == Cardinality(start) - 1
             X == SUBSET [1..k -> SetsOver(D)]
             step == [x \in X \X (1..N) |->
                         IF Differenced(x[1]) \in X THEN Differenced(x[1]) ELSE x[1]]
             Loops(f) == f = [n \in 0..N |-> IF n = 0 THEN start ELSE Differenced(f[n - 1])]
             after == CHOOSE f : Loops(f)
             s == FirstOf(after[N])
  <1>1. N \in Nat /\ Cardinality(start) = N + 1
    <2>1. IsFiniteSet(start) /\ start # {}
      BY DEF IsHeap
    <2>2. Cardinality(start) \in Nat /\ Cardinality(start) # 0
      BY <2>1, FS_CardinalityType, FS_EmptySet
    <2> QED BY <2>2
  <1>2. \A S : IsHeap(S, k, D, equalSize) => S \in X
    BY DEF IsHeap, IsState, IsSets
  <1>3. step \in [X \X (1..N) -> X]
    <2> HIDE DEF X, N
    <2> SUFFICES ASSUME NEW x \in X \X (1..N)
                 PROVE (IF Differenced(x[1]) \in X THEN Differenced(x[1]) ELSE x[1]) \in X
      OBVIOUS
    <2>1. x[1] \in X
      OBVIOUS
    <2> QED BY <2>1
  <1>4. \A S \in X, n \in 1..N : Differenced(S) \in X => step[<<S, n>>] = Differenced(S)
    <2> HIDE DEF X, N
    <2> QED OBVIOUS
  <1> HIDE DEF step, X, N
  <1>5. PICK f \in [0..N -> X] : f[0] = start /\ \A m \in 1..N : f[m] = step[<<f[m - 1], m>>]
    <2>1. Stepping(step, X, start, N)
      BY <1>1, <1>2, <1>3 DEF Stepping
    <2> QED BY <2>1, Steps
  <1>6. Round(f, start, N, k, D, equalSize)
    <2>1. ASSUME NEW m \in 1..N, IsHeap(f[m - 1], k, D, equalSize), Cardinality(f[m - 1]) > 1
          PROVE  f[m] = Differenced(f[m - 1])
      <3>1. f[m - 1] \in X
        BY <1>2, <2>1
      <3>2. Differenced(f[m - 1]) \in X
        BY <1>2, <2>1, DifferencedIsHeap
      <3> QED BY <1>4, <1>5, <3>1, <3>2
    <2> QED BY <1>5, <2>1 DEF Round
  <1>7. \A m \in 0..N : /\ IsHeap(f[m], k, D, equalSize) /\ Cardinality(f[m]) = N + 1 - m
                        /\ OnHeap(f[m]) = OnHeap(start)
    BY <1>1, <1>6, AfterRounds
  <1>8. Loops(f)
    <2>1. ASSUME NEW m \in 0..N
          PROVE  f[m] = IF m = 0 THEN start ELSE Differenced(f[m - 1])
      <3> SUFFICES ASSUME m # 0 PROVE f[m] = Differenced(f[m - 1])
        BY <1>5
      <3>1. m \in 1..N /\ m - 1 \in 0..N
        BY <1>1
      <3>2. IsHeap(f[m - 1], k, D, equalSize) /\ Cardinality(f[m - 1]) = N + 1 - (m - 1)
        BY <1>7, <3>1
      <3>3. Cardinality(f[m - 1]) > 1
        BY <1>1, <3>1, <3>2
      <3> QED BY <1>6, <3>1, <3>2, <3>3 DEF Round
    <2>2. f = [m \in 0..N |-> f[m]]
      OBVIOUS
    <2> QED BY <2>1, <2>2
  <1>9. after = [n \in 0..N |-> IF n = 0 THEN start ELSE Differenced(after[n - 1])]
    BY <1>8
  <1> HIDE DEF after
  <1>10. Round(after, start, N, k, D, equalSize)
    <2>1. after[0] = start
      BY <1>1, <1>9
    <2>2. \A m \in 1..N : after[m] = Differenced(after[m - 1])
      <3>1. \A m \in 1..N : m \in 0..N /\ m # 0
        BY <1>1
      <3> QED BY <1>9, <3>1
    <2> QED BY <2>1, <2>2 DEF Round
  <1>11. /\ IsHeap(after[N], k, D, equalSize) /\ Cardinality(after[N]) = 1
         /\ OnHeap(after[N]) = OnHeap(start)
    <2>1. N \in 0..N /\ N + 1 - N = 1
      BY <1>1
    <2> QED BY <1>1, <1>10, <2>1, AfterRounds
  <1>12. s \in after[N]
    BY <1>11, FirstIsThere
  <1>13. after[N] = {s}
    <2>1. \E x : after[N] = {x}
      BY <1>11, FS_Singleton DEF IsHeap
    <2> HIDE DEF s
    <2> QED BY <1>12, <2>1
  <1> HIDE DEF s
  <1>14. OnHeap(after[N]) = Held(RowsIn(s))
    BY <1>13 DEF OnHeap
  <1>15. IsState(s, k, D, equalSize) /\ Held(RowsIn(s)) = OnHeap(start)
    BY <1>11, <1>12, <1>14 DEF IsHeap
  <1> QED BY <1>15 DEF s, after, N

-----------------------------------------------------------------------------
(* The states that the heap starts with.                                   *)

\* What a sequence of one row is.
LEMMA OneRow ==
    ASSUME NEW D, NEW e \in D
    PROVE  <<e>> \in Seq(D) /\ Len(<<e>>) = 1 /\ <<e>>[1] = e /\ <<e>> # <<>>
  OBVIOUS

\* Sets of one row each, no row in two of them.
Singles(m, k, D, sizes, f) ==
    /\ k \in Nat \ {0} /\ D \in SUBSET Nat /\ \A i \in D : sizes[i] \in Nat \ {0}
    /\ \A c \in 1..k : f[c] \in D
    /\ \A a, b \in 1..k : f[a] = f[b] => a = b
    /\ m = [c \in 1..k |-> [sum |-> sizes[f[c]], rows |-> <<f[c]>>]]

\* States of one row consist of sets.
LEMMA SinglesAreSets ==
    ASSUME NEW k, NEW D, NEW sizes, NEW f, NEW m, Singles(m, k, D, sizes, f)
    PROVE  /\ IsSets(m, k, D) /\ Held(RowsIn(m)) = {f[c] : c \in 1..k}
           /\ \A c \in 1..k : Len(m[c].rows) = 1
  <1> DEFINE p == RowsIn(m)
  <1>0. /\ k \in Nat \ {0} /\ D \in SUBSET Nat /\ DOMAIN m = 1..k
        /\ m = [c \in 1..k |-> m[c]]
    BY DEF Singles
  <1>1. ASSUME NEW c \in 1..k
        PROVE  /\ m[c] \in SetsOver(D) /\ m[c].sum > 0 /\ f[c] \in D
               /\ m[c].rows = <<f[c]>> /\ p[c] = <<f[c]>>
    <2>1. f[c] \in D /\ sizes[f[c]] \in Nat \ {0}
      BY DEF Singles
    <2>2. m[c] = [sum |-> sizes[f[c]], rows |-> <<f[c]>>]
      BY DEF Singles
    <2>3. <<f[c]>> \in Seq(D)
      BY <2>1, OneRow
    <2>4. m[c].sum = sizes[f[c]] /\ m[c].rows = <<f[c]>>
      BY <2>2
    <2>5. m[c] \in SetsOver(D)
      BY <2>1, <2>2, <2>3 DEF SetsOver
    <2>6. p[c] = m[c].rows
      BY <1>0 DEF RowsIn
    <2> HIDE DEF p
    <2> QED BY <2>1, <2>4, <2>5, <2>6
  <1> HIDE DEF p
  <1>2. IsParts(p, k, D)
    <2>1. p = [c \in 1..k |-> m[c].rows]
      BY <1>0 DEF RowsIn, p
    <2>2. \A c \in 1..k : m[c].rows \in Seq(D)
      BY <1>1 DEF SetsOver
    <2> QED BY <1>0, <2>1, <2>2 DEF IsParts
  <1>3. ASSUME NEW c \in 1..k
        PROVE  /\ Len(p[c]) = 1 /\ p[c][1] = f[c]
               /\ <<c, 1>> \in Places(p) /\ RowAt(p, <<c, 1>>) = f[c]
    <2>1. Len(p[c]) = 1 /\ p[c][1] = f[c]
      BY <1>1, OneRow
    <2>2. 1 \in 1..Len(p[c])
      BY <2>1
    <2>3. <<c, 1>> \in Places(p) /\ RowAt(p, <<c, 1>>) = p[c][1]
      BY <1>2, <2>2, ToPlace
    <2> QED BY <2>1, <2>3, Zenon
  <1>4. ASSUME NEW x \in Places(p) PROVE x[1] \in 1..k /\ x = <<x[1], 1>> /\ RowAt(p, x) = f[x[1]]
    <2> DEFINE c == x[1]
    <2>1. c \in 1..k /\ x[2] \in 1..Len(p[c]) /\ x = <<c, x[2]>>
      BY <1>2, FromPlace
    <2> HIDE DEF c
    <2>2. Len(p[c]) = 1
      BY <1>3, <2>1
    <2>3. x[2] = 1
      BY <2>1, <2>2
    <2>4. x = <<c, 1>> /\ RowAt(p, <<c, 1>>) = f[c]
      BY <1>3, <2>1, <2>3
    <2>5. RowAt(p, x) = f[c]
      BY <2>4
    <2> QED BY <2>1, <2>4, <2>5 DEF c
  <1>5. Once(p)
    <2>1. ASSUME NEW x \in Places(p), NEW y \in Places(p), RowAt(p, x) = RowAt(p, y)
          PROVE  x = y
      <3>1. x[1] \in 1..k /\ y[1] \in 1..k /\ f[x[1]] = f[y[1]]
        BY <1>4, <2>1
      <3>2. x[1] = y[1]
        BY <3>1 DEF Singles
      <3> QED BY <1>4, <3>2
    <2> QED BY <2>1, Zenon DEF Once
  <1>6. Held(p) = {f[c] : c \in 1..k}
    <2>1. ASSUME NEW e \in Held(p) PROVE e \in {f[c] : c \in 1..k}
      <3>1. PICK x \in Places(p) : e = RowAt(p, x)
        BY DEF Held
      <3> QED BY <1>4, <3>1
    <2>2. ASSUME NEW c \in 1..k PROVE f[c] \in Held(p)
      <3>1. <<c, 1>> \in Places(p) /\ RowAt(p, <<c, 1>>) = f[c]
        BY <1>3
      <3> QED BY <3>1, Zenon DEF Held
    <2>3. \A e : e \in Held(p) => e \in {f[c] : c \in 1..k}
      BY <2>1
    <2>4. \A e : e \in {f[c] : c \in 1..k} => e \in Held(p)
      BY <2>2
    <2> QED BY <2>3, <2>4
  <1>7. m \in [1..k -> SetsOver(D)]
    BY <1>0, <1>1
  <1>8. \A c \in 1..k : m[c].rows # <<>> /\ m[c].sum > 0 /\ Len(m[c].rows) = 1
    <2> SUFFICES ASSUME NEW c \in 1..k
                 PROVE  m[c].rows # <<>> /\ m[c].sum > 0 /\ Len(m[c].rows) = 1
      OBVIOUS
    <2>1. m[c].sum > 0 /\ f[c] \in D /\ m[c].rows = <<f[c]>>
      BY <1>1
    <2>2. <<f[c]>> # <<>> /\ Len(<<f[c]>>) = 1
      BY <2>1, OneRow
    <2> QED BY <2>1, <2>2, Zenon
  <1> QED BY <1>0, <1>5, <1>6, <1>7, <1>8 DEF IsSets, p

-----------------------------------------------------------------------------
(* Places in equal chunks.                                                 *)

\* Division with a remainder.
LEMMA DivMod ==
    ASSUME NEW a \in Nat, NEW b \in Nat, b # 0
    PROVE  /\ a \div b \in Nat /\ a % b \in 0..b - 1
           /\ a = (a \div b) * b + (a % b)
  OBVIOUS

\* A batch of n equal chunks: place i is in chunk (i - 1) \div each.
LEMMA PlaceInChunk ==
    ASSUME NEW n \in Nat, NEW each \in Nat, NEW i \in 1..n * each
    PROVE  /\ each # 0
           /\ (i - 1) \div each \in 0..n - 1
           /\ (i - 1) % each \in 0..each - 1
           /\ i = ((i - 1) \div each) * each + ((i - 1) % each) + 1
  <1>1. each # 0
    OBVIOUS
  <1> DEFINE q == (i - 1) \div each
             m == (i - 1) % each
  <1>2. i - 1 \in Nat
    OBVIOUS
  <1>3. q \in Nat /\ m \in 0..each - 1 /\ i - 1 = q * each + m
    BY <1>1, <1>2, DivMod
  <1> HIDE DEF q, m
  <1>4. q < n
    <2> SUFFICES ASSUME n <= q PROVE FALSE
      BY <1>3
    <2>1. n * each <= q * each
      BY <1>3
    <2>2. q * each \in Nat /\ n * each \in Nat
      BY <1>3
    <2> QED BY <1>3, <2>1, <2>2
  <1>5. i = q * each + m + 1
    <2>1. q * each \in Nat
      BY <1>3
    <2> QED BY <1>3, <2>1
  <1>6. q \in 0..n - 1
    BY <1>3, <1>4
  <1> QED BY <1>1, <1>3, <1>5, <1>6 DEF q, m

\* Place j of chunk c; a place is in one chunk only.
LEMMA PlaceOfChunk ==
    ASSUME NEW n \in Nat, NEW each \in Nat \ {0}, NEW c \in 1..n, NEW j \in 1..each
    PROVE  /\ (c - 1) * each + j \in 1..n * each
           /\ \A d \in 1..n, i \in 1..each :
                 (c - 1) * each + j = (d - 1) * each + i => c = d /\ j = i
  <1>1. (c - 1) * each \in Nat /\ (c - 1) * each = c * each - each /\ c * each \in Nat
    OBVIOUS
  <1>2. c * each <= n * each /\ n * each \in Nat
    OBVIOUS
  <1>3. ASSUME NEW d \in 1..n, NEW i \in 1..each, (c - 1) * each + j = (d - 1) * each + i
        PROVE  c = d /\ j = i
    <2>1. (d - 1) * each \in Nat /\ (d - 1) * each = d * each - each /\ d * each \in Nat
      OBVIOUS
    <2>2. ~(c < d)
      <3> SUFFICES ASSUME c <= d - 1 PROVE FALSE
        OBVIOUS
      <3>1. c * each <= (d - 1) * each
        OBVIOUS
      <3> QED BY <1>1, <1>3, <2>1, <3>1
    <2>3. ~(d < c)
      <3> SUFFICES ASSUME d <= c - 1 PROVE FALSE
        OBVIOUS
      <3>1. d * each <= (c - 1) * each
        OBVIOUS
      <3> QED BY <1>1, <1>3, <2>1, <3>1
    <2>4. c = d
      BY <2>2, <2>3
    <2> QED BY <1>1, <1>3, <2>1, <2>4
  <1> QED BY <1>1, <1>2, <1>3

\* A state of k rows of similar length.
LEMMA GroupIsState ==
    ASSUME NEW k, NEW D, NEW sizes, NEW f, NEW m, Singles(m, k, D, sizes, f), IsFiniteSet(D)
    PROVE  /\ IsState(Heaviest(m), k, D, TRUE)
           /\ Held(RowsIn(Heaviest(m))) = {f[c] : c \in 1..k}
  <1> DEFINE h == Heaviest(m)
  <1>1. /\ IsSets(m, k, D) /\ Held(RowsIn(m)) = {f[c] : c \in 1..k}
        /\ \A c \in 1..k : Len(m[c].rows) = 1
    BY SinglesAreSets
  <1>2. /\ IsSets(h, k, D) /\ Descending(h, k) /\ Held(RowsIn(h)) = Held(RowsIn(m))
        /\ Rearranged(h, m, k)
    BY <1>1, HeaviestSorts
  <1> HIDE DEF h
  <1>3. \A n \in 1..k : Len(h[n].rows) = 1
    BY <1>1, <1>2 DEF Permutes, Rearranged
  <1>4. 1 \in 1..k /\ h[1].rows \in Seq(D)
    <2>1. k \in Nat \ {0} /\ \A c \in 1..k : h[c].rows \in Seq(D)
      BY <1>2, SetTypes
    <2> QED BY <2>1
  <1>5. h[1].rows # <<>>
    BY <1>3, <1>4
  <1>6. IsState(h, k, D, TRUE)
    BY <1>2, <1>3, <1>5 DEF IsState
  <1> QED BY <1>1, <1>2, <1>6 DEF h

\* A state with one row: the other sets are empty.
Alone(s, k, D, sizes, i) ==
    /\ k \in Nat \ {0} /\ D \in SUBSET Nat /\ i \in D /\ sizes[i] \in Nat \ {0}
    /\ s = [c \in 1..k |-> IF c = 1 THEN [sum |-> sizes[i], rows |-> <<i>>] ELSE EmptySet]

\* ... and are states.
LEMMA SingleIsState ==
    ASSUME NEW k, NEW D, NEW sizes, NEW i, NEW s, Alone(s, k, D, sizes, i), IsFiniteSet(D)
    PROVE  IsState(s, k, D, FALSE) /\ Held(RowsIn(s)) = {i}
  <1> DEFINE p == RowsIn(s)
  <1>0. /\ k \in Nat \ {0} /\ D \in SUBSET Nat /\ i \in D /\ sizes[i] \in Nat \ {0}
        /\ DOMAIN s = 1..k /\ s = [c \in 1..k |-> s[c]] /\ 1 \in 1..k
    BY DEF Alone
  <1>1. s[1].sum = sizes[i] /\ s[1].rows = <<i>>
    BY <1>0 DEF Alone
  <1>2. \A c \in 1..k : c # 1 => s[c] = EmptySet
    BY DEF Alone
  <1>3. <<i>> \in Seq(D) /\ Len(<<i>>) = 1 /\ <<i>>[1] = i /\ <<i>> # <<>>
    BY <1>0, OneRow
  <1>4. EmptySet.sum = 0 /\ EmptySet.rows = <<>> /\ EmptySet \in SetsOver(D)
    BY DEF EmptySet, SetsOver
  <1>5. s[1] \in SetsOver(D)
    <2>1. s[1] = [sum |-> sizes[i], rows |-> <<i>>]
      BY <1>0 DEF Alone
    <2>2. sizes[i] \in Nat /\ <<i>> \in Seq(D)
      BY <1>0, <1>3
    <2> QED BY <2>1, <2>2 DEF SetsOver
  <1>6. s \in [1..k -> SetsOver(D)]
    <2>1. \A c \in 1..k : s[c] \in SetsOver(D)
      BY <1>2, <1>4, <1>5
    <2> QED BY <1>0, <2>1
  <1>7. p = [c \in 1..k |-> s[c].rows]
    BY <1>0 DEF RowsIn
  <1>8. IsParts(p, k, D)
    <2>1. \A c \in 1..k : s[c].rows \in Seq(D)
      BY <1>6 DEF SetsOver
    <2> QED BY <1>0, <1>7, <2>1 DEF IsParts
  <1> HIDE DEF p
  <1>9. p[1] = <<i>> /\ \A c \in 1..k : c # 1 => p[c] = <<>>
    BY <1>0, <1>1, <1>2, <1>4, <1>7
  <1>10. <<1, 1>> \in Places(p) /\ RowAt(p, <<1, 1>>) = i
    <2>1. 1 \in 1..Len(p[1]) /\ p[1][1] = i
      BY <1>3, <1>9
    <2>2. <<1, 1>> \in Places(p) /\ RowAt(p, <<1, 1>>) = p[1][1]
      BY <1>0, <1>8, <2>1, ToPlace
    <2> QED BY <2>1, <2>2, Zenon
  <1>11. ASSUME NEW x \in Places(p) PROVE x = <<1, 1>>
    <2> DEFINE c == x[1]
    <2>1. c \in 1..k /\ x[2] \in 1..Len(p[c]) /\ x = <<c, x[2]>>
      BY <1>8, FromPlace
    <2> HIDE DEF c
    <2>2. c = 1
      <3> SUFFICES ASSUME c # 1 PROVE FALSE
        OBVIOUS
      <3>1. p[c] = <<>>
        BY <1>9, <2>1
      <3> QED BY <2>1, <3>1
    <2>3. Len(p[1]) = 1
      BY <1>3, <1>9
    <2>4. x[2] = 1
      BY <2>1, <2>2, <2>3
    <2> QED BY <2>1, <2>2, <2>4
  <1>12. Once(p) /\ Held(p) = {i}
    <2>1. Places(p) = {<<1, 1>>}
      BY <1>10, <1>11
    <2>2. Once(p)
      BY <2>1, Zenon DEF Once
    <2>3. Held(p) = {RowAt(p, <<1, 1>>)}
      BY <2>1 DEF Held
    <2> QED BY <1>10, <2>2, <2>3
  <1>13. \A c \in 1..k : s[c].rows # <<>> <=> s[c].sum > 0
    <2> SUFFICES ASSUME NEW c \in 1..k PROVE s[c].rows # <<>> <=> s[c].sum > 0
      OBVIOUS
    <2>1. CASE c = 1
      <3>1. s[c].rows # <<>> /\ s[c].sum = sizes[i]
        BY <1>1, <1>3, <2>1
      <3> QED BY <1>0, <3>1
    <2>2. CASE c # 1
      BY <1>2, <1>4, <2>2
    <2> QED BY <2>1, <2>2
  <1>14. IsSets(s, k, D)
    BY <1>0, <1>6, <1>12, <1>13 DEF IsSets, p
  <1>15. Descending(s, k)
    <2> SUFFICES ASSUME NEW c \in 1..k, NEW d \in 1..k, c < d
                 PROVE  ~Less(Weight(s[c]), Weight(s[d]))
      BY DEF Descending
    <2>1. s[d] = EmptySet
      BY <1>0, <1>2
    <2>2. Weight(EmptySet) = <<0, 0, 0>>
      BY <1>4 DEF Weight, First
    <2>3. CASE c = 1
      <3>1. Weight(s[c])[1] = sizes[i]
        BY <1>1, <2>3 DEF Weight
      <3>2. sizes[i] \in Nat \ {0}
        BY <1>0
      <3> QED BY <2>1, <2>2, <3>1, <3>2 DEF Less
    <2>4. CASE c # 1
      <3>1. Weight(s[c]) = <<0, 0, 0>>
        BY <1>2, <2>2, <2>4
      <3> QED BY <2>1, <2>2, <3>1 DEF Less
    <2> QED BY <2>3, <2>4
  <1>16. \A c \in 1..k : c <= Cardinality(Held(p)) => s[c].rows # <<>>
    <2>1. Cardinality({i}) = 1
      BY FS_Singleton
    <2>2. \A c \in 1..k : c <= 1 => c = 1
      OBVIOUS
    <2> QED BY <1>1, <1>3, <1>12, <2>1, <2>2
  <1>17. s[1].rows # <<>>
    BY <1>1, <1>3
  <1> QED BY <1>12, <1>14, <1>15, <1>16, <1>17 DEF IsState, p

-----------------------------------------------------------------------------
(* The heap that the rounds start with.                                    *)

Lengths(sizes) == sizes \in Seq(Nat \ {0})

\* The rows by their lengths: a permutation.
ByLength(sizes) == SortOrder({[key |-> <<sizes[i], 0, 0>>, place |-> i] : i \in DOMAIN sizes})

\* Sorting by length permutes the rows.
LEMMA ByLengthPermutes ==
    ASSUME NEW sizes, Lengths(sizes)
    PROVE  Permutes(ByLength(sizes), Len(sizes))
  <1> DEFINE n == Len(sizes)
             keys == [i \in 1..n |-> <<sizes[i], 0, 0>>]
  <1>1. n \in Nat /\ DOMAIN sizes = 1..n /\ \A i \in 1..n : sizes[i] \in Nat \ {0}
    BY DEF Lengths
  <1>2. keys \in [1..n -> Triples]
    <2> SUFFICES ASSUME NEW i \in 1..n PROVE <<sizes[i], 0, 0>> \in Triples
      OBVIOUS
    <2>1. sizes[i] \in Int
      BY <1>1
    <2> QED BY <2>1 DEF Triples
  <1>3. {[key |-> <<sizes[i], 0, 0>>, place |-> i] : i \in DOMAIN sizes} = Keyed(keys, n)
    BY <1>1 DEF Keyed
  <1> HIDE DEF keys, n
  <1>4. Permutes(SortOrder(Keyed(keys, n)), n)
    BY <1>1, <1>2, SortOrderPermutes
  <1> QED BY <1>3, <1>4 DEF ByLength, n

\* The rows of the c-th of the states of k rows.
RowsOfGroup(perm, k, c) == [i \in 1..k |-> perm[(c - 1) * k + i]]
GroupSets(sizes, perm, k, c) ==
    [i \in 1..k |-> [sum |-> sizes[perm[(c - 1) * k + i]], rows |-> <<perm[(c - 1) * k + i]>>]]

GroupStates(sizes, perm, k, n) == {Heaviest(GroupSets(sizes, perm, k, c)) : c \in 1..n}

\* A permutation of n * k places is cut into n groups of k.
LEMMA GroupsShareOut ==
    ASSUME NEW perm, NEW k \in Nat \ {0}, NEW n \in Nat, Permutes(perm, n * k)
    PROVE  /\ \A c \in 1..n, i \in 1..k : RowsOfGroup(perm, k, c)[i] \in 1..n * k
           /\ \A c, d \in 1..n, i, j \in 1..k :
                 RowsOfGroup(perm, k, c)[i] = RowsOfGroup(perm, k, d)[j] => c = d /\ i = j
           /\ \A r \in 1..n * k : \E c \in 1..n, i \in 1..k : RowsOfGroup(perm, k, c)[i] = r
  <1>1. /\ \A x \in 1..n * k : perm[x] \in 1..n * k
        /\ \A x, y \in 1..n * k : perm[x] = perm[y] => x = y
        /\ \A r \in 1..n * k : \E x \in 1..n * k : perm[x] = r
    BY DEF Permutes
  <1>2. ASSUME NEW c \in 1..n, NEW i \in 1..k
        PROVE  /\ (c - 1) * k + i \in 1..n * k
               /\ RowsOfGroup(perm, k, c)[i] = perm[(c - 1) * k + i]
    <2>1. (c - 1) * k + i \in 1..n * k
      BY PlaceOfChunk
    <2> QED BY <2>1 DEF RowsOfGroup
  <1>3. ASSUME NEW c \in 1..n, NEW d \in 1..n, NEW i \in 1..k, NEW j \in 1..k,
               RowsOfGroup(perm, k, c)[i] = RowsOfGroup(perm, k, d)[j]
        PROVE  c = d /\ i = j
    <2>1. (c - 1) * k + i = (d - 1) * k + j
      BY <1>1, <1>2, <1>3
    <2> QED BY <2>1, PlaceOfChunk
  <1>4. ASSUME NEW r \in 1..n * k
        PROVE  \E c \in 1..n, i \in 1..k : RowsOfGroup(perm, k, c)[i] = r
    <2>1. PICK x \in 1..n * k : perm[x] = r
      BY <1>1
    <2> DEFINE q == (x - 1) \div k
               m == (x - 1) % k
    <2>2. q \in 0..n - 1 /\ m \in 0..k - 1 /\ x = q * k + m + 1
      BY PlaceInChunk
    <2> HIDE DEF q, m
    <2>3. q + 1 \in 1..n /\ m + 1 \in 1..k /\ (q + 1) - 1 = q
      BY <2>2
    <2>4. (q + 1 - 1) * k + (m + 1) = x
      <3>1. q * k \in Nat
        BY <2>2
      <3> QED BY <2>2, <2>3, <3>1
    <2>5. RowsOfGroup(perm, k, q + 1)[m + 1] = perm[x]
      BY <1>2, <2>3, <2>4
    <2> QED BY <2>1, <2>3, <2>5
  <1>5. \A c \in 1..n, i \in 1..k : RowsOfGroup(perm, k, c)[i] \in 1..n * k
    <2> SUFFICES ASSUME NEW c \in 1..n, NEW i \in 1..k
                 PROVE  RowsOfGroup(perm, k, c)[i] \in 1..n * k
      OBVIOUS
    <2> DEFINE x == (c - 1) * k + i
    <2>1. x \in 1..n * k /\ RowsOfGroup(perm, k, c)[i] = perm[x]
      BY <1>2
    <2> HIDE DEF x
    <2> QED BY <1>1, <2>1
  <1> QED BY <1>3, <1>4, <1>5

\* The states of similar rows, one for each group.
LEMMA GroupsAreHeap ==
    ASSUME NEW sizes, Lengths(sizes), NEW k \in Nat \ {0}, NEW n \in Nat \ {0},
           Len(sizes) = n * k, NEW perm, Permutes(perm, n * k)
    PROVE  /\ IsHeap(GroupStates(sizes, perm, k, n), k, 1..n * k, TRUE)
           /\ OnHeap(GroupStates(sizes, perm, k, n)) = 1..n * k
  <1> DEFINE D == 1..n * k
             f(c) == RowsOfGroup(perm, k, c)
             G(c) == Heaviest(GroupSets(sizes, perm, k, c))
             H(c) == {RowsOfGroup(perm, k, c)[i] : i \in 1..k}
             S == {G(c) : c \in 1..n}
  <1>1. n * k \in Nat /\ D \in SUBSET Nat /\ IsFiniteSet(D)
    <2>1. n * k \in Nat
      OBVIOUS
    <2> QED BY <2>1, FS_Interval
  <1>2. \A i \in D : sizes[i] \in Nat \ {0}
    BY DEF Lengths
  <1>3. /\ \A c \in 1..n, i \in 1..k : f(c)[i] \in D
        /\ \A c, d \in 1..n, i, j \in 1..k : f(c)[i] = f(d)[j] => c = d /\ i = j
        /\ \A r \in D : \E c \in 1..n, i \in 1..k : f(c)[i] = r
    BY GroupsShareOut
  <1>4. ASSUME NEW c \in 1..n PROVE IsState(G(c), k, D, TRUE) /\ Held(RowsIn(G(c))) = H(c)
    <2>1. GroupSets(sizes, perm, k, c) = [i \in 1..k |-> [sum |-> sizes[f(c)[i]], rows |-> <<f(c)[i]>>]]
      BY DEF GroupSets, RowsOfGroup
    <2>2. Singles(GroupSets(sizes, perm, k, c), k, D, sizes, f(c))
      <3> HIDE DEF D
      <3> QED BY <1>1, <1>2, <1>3, <2>1 DEF Singles
    <2> HIDE DEF D
    <2> QED BY <1>1, <2>2, GroupIsState
  <1> HIDE DEF G
  <1>5. ASSUME NEW c \in 1..n, NEW d \in 1..n, c # d PROVE H(c) \cap H(d) = {}
    <2> SUFFICES ASSUME NEW x, x \in H(c), x \in H(d) PROVE FALSE
      OBVIOUS
    <2>1. PICK i \in 1..k : x = f(c)[i]
      OBVIOUS
    <2>2. PICK j \in 1..k : x = f(d)[j]
      OBVIOUS
    <2>3. f(c)[i] = f(d)[j]
      BY <2>1, <2>2
    <2>4. \A a, e \in 1..n, u, v \in 1..k : f(a)[u] = f(e)[v] => a = e
      <3> HIDE DEF f
      <3> QED BY <1>3
    <2>5. f(c)[i] = f(d)[j] => c = d
      <3> HIDE DEF f, D, H, S
      <3> QED BY <2>4
    <2> QED BY <1>5, <2>3, <2>5
  <1>6. S # {} /\ IsFiniteSet(S)
    <2>1. 1 \in 1..n
      OBVIOUS
    <2>2. S # {}
      BY <2>1
    <2> DEFINE g == [c \in 1..n |-> G(c)]
               T == 1..n
    <2>3. IsFiniteSet(T)
      BY FS_Interval
    <2>4. S = {g[c] : c \in T}
      OBVIOUS
    <2>5. g \in Surjection(T, S)
      <3>1. g \in [T -> S] /\ \A s \in S : \E c \in T : g[c] = s
        OBVIOUS
      <3> HIDE DEF g, T, S
      <3> QED BY <3>1, Zenon DEF Surjection
    <2> HIDE DEF g, T, S
    <2>6. IsFiniteSet(S)
      BY <2>3, <2>5, FS_Surjection
    <2> QED BY <2>2, <2>6
  <1>7. \A s \in S : IsState(s, k, D, TRUE)
    BY <1>4
  <1>8. ASSUME NEW s \in S, NEW t \in S, s # t
        PROVE  Held(RowsIn(s)) \cap Held(RowsIn(t)) = {}
    <2>1. PICK c \in 1..n : s = G(c)
      OBVIOUS
    <2>2. PICK d \in 1..n : t = G(d)
      OBVIOUS
    <2>3. c # d
      BY <1>8, <2>1, <2>2
    <2> HIDE DEF H
    <2> QED BY <1>4, <1>5, <2>1, <2>2, <2>3
  <1>9. OnHeap(S) = D
    <2>1. OnHeap(S) = UNION {Held(RowsIn(s)) : s \in S}
      BY DEF OnHeap
    <2>2. ASSUME NEW r \in OnHeap(S) PROVE r \in D
      <3>1. PICK s \in S : r \in Held(RowsIn(s))
        BY <2>1
      <3>2. PICK c \in 1..n : s = G(c)
        OBVIOUS
      <3>3. r \in H(c)
        <4> HIDE DEF H
        <4> QED BY <1>4, <3>1, <3>2
      <3> QED BY <1>3, <3>3
    <2>3. ASSUME NEW r \in D PROVE r \in OnHeap(S)
      <3>1. PICK c \in 1..n, i \in 1..k : f(c)[i] = r
        BY <1>3
      <3>2. r \in H(c)
        BY <3>1
      <3>3. r \in Held(RowsIn(G(c)))
        <4> HIDE DEF H
        <4> QED BY <1>4, <3>2
      <3>4. G(c) \in S
        OBVIOUS
      <3> HIDE DEF S
      <3> QED BY <2>1, <3>3, <3>4
    <2> HIDE DEF S, D
    <2> QED BY <2>2, <2>3
  <1> HIDE DEF S, D
  <1>10. IsHeap(S, k, D, TRUE)
    BY <1>6, <1>7, <1>8, Zenon DEF IsHeap
  <1> QED BY <1>9, <1>10 DEF S, D, G, GroupStates

\* The states of one row each.
SingleOf(sizes, k, i) ==
    [c \in 1..k |-> IF c = 1 THEN [sum |-> sizes[i], rows |-> <<i>>] ELSE EmptySet]

\* Without equal sizes the heap starts with a state for each row.
LEMMA SinglesAreHeap ==
    ASSUME NEW sizes, Lengths(sizes), NEW k \in Nat \ {0}, Len(sizes) > 0
    PROVE  LET S == {SingleOf(sizes, k, i) : i \in DOMAIN sizes}
           IN  IsHeap(S, k, 1..Len(sizes), FALSE) /\ OnHeap(S) = 1..Len(sizes)
  <1> DEFINE n == Len(sizes)
             D == 1..n
             G(i) == SingleOf(sizes, k, i)
             S == {G(i) : i \in D}
  <1>1. n \in Nat /\ DOMAIN sizes = D /\ \A i \in D : sizes[i] \in Nat \ {0}
    BY DEF Lengths
  <1> HIDE DEF n
  <1>2. IsFiniteSet(D) /\ D \in SUBSET Nat /\ 1 \in D
    <2>1. IsFiniteSet(D)
      BY <1>1, FS_Interval
    <2> QED BY <1>1, <2>1 DEF n
  <1> HIDE DEF D
  <1>3. ASSUME NEW i \in D PROVE IsState(G(i), k, D, FALSE) /\ Held(RowsIn(G(i))) = {i}
    <2>1. Alone(G(i), k, D, sizes, i)
      BY <1>1, <1>2 DEF Alone, SingleOf
    <2> HIDE DEF G
    <2> QED BY <1>2, <2>1, SingleIsState
  <1> HIDE DEF G
  <1>4. S # {} /\ IsFiniteSet(S)
    <2>1. S # {}
      BY <1>2
    <2> DEFINE g == [i \in D |-> G(i)]
    <2>2. g \in Surjection(D, S)
      <3>1. g \in [D -> S] /\ \A s \in S : \E c \in D : g[c] = s
        OBVIOUS
      <3> HIDE DEF g, S
      <3> QED BY <3>1, Zenon DEF Surjection
    <2> HIDE DEF g, S
    <2>3. IsFiniteSet(S)
      BY <1>2, <2>2, FS_Surjection
    <2> QED BY <2>1, <2>3
  <1>5. \A s \in S : IsState(s, k, D, FALSE)
    BY <1>3
  <1>6. ASSUME NEW s \in S, NEW t \in S, s # t
        PROVE  Held(RowsIn(s)) \cap Held(RowsIn(t)) = {}
    <2>1. PICK c \in D : s = G(c)
      OBVIOUS
    <2>2. PICK d \in D : t = G(d)
      OBVIOUS
    <2>3. c # d
      BY <1>6, <2>1, <2>2
    <2>4. Held(RowsIn(s)) = {c} /\ Held(RowsIn(t)) = {d}
      BY <1>3, <2>1, <2>2
    <2> QED BY <2>3, <2>4
  <1>7. OnHeap(S) = D
    <2>1. OnHeap(S) = UNION {Held(RowsIn(s)) : s \in S}
      BY DEF OnHeap
    <2>2. ASSUME NEW r \in OnHeap(S) PROVE r \in D
      <3>1. PICK s \in S : r \in Held(RowsIn(s))
        BY <2>1
      <3>2. PICK c \in D : s = G(c)
        OBVIOUS
      <3>3. Held(RowsIn(s)) = {c}
        BY <1>3, <3>2
      <3> QED BY <3>1, <3>3
    <2>3. ASSUME NEW r \in D PROVE r \in OnHeap(S)
      <3>1. r \in Held(RowsIn(G(r))) /\ G(r) \in S
        BY <1>3
      <3> HIDE DEF S
      <3> QED BY <2>1, <3>1
    <2> HIDE DEF S
    <2> QED BY <2>2, <2>3
  <1> HIDE DEF S
  <1>8. IsHeap(S, k, D, FALSE)
    BY <1>4, <1>5, <1>6, Zenon DEF IsHeap
  <1> QED BY <1>1, <1>7, <1>8 DEF S, D, G, n

\* What the heap starts with, for a choice of partitions that may be made.
LEMMA StartIsHeap ==
    ASSUME NEW sizes, Lengths(sizes), NEW k \in Nat \ {0}, NEW equalSize \in BOOLEAN,
           MayPartition(sizes, k, equalSize)
    PROVE  /\ IsHeap(StartStates(sizes, k, equalSize), k, 1..Len(sizes), equalSize)
           /\ OnHeap(StartStates(sizes, k, equalSize)) = 1..Len(sizes)
  <1> DEFINE n == Len(sizes)
  <1>1. n \in Nat /\ n >= k /\ n > 0 /\ (equalSize => n % k = 0)
    BY DEF Lengths, MayPartition
  <1>2. CASE equalSize
    <2> DEFINE m == n \div k
               perm == ByLength(sizes)
               S == GroupStates(sizes, perm, k, m)
    <2>1. m \in Nat /\ n = m * k
      <3>1. m \in Nat /\ n = m * k + (n % k)
        BY <1>1, DivMod
      <3>2. n % k = 0
        BY <1>1, <1>2
      <3> HIDE DEF m, n
      <3> QED BY <1>1, <3>1, <3>2
    <2>2. StartStates(sizes, k, equalSize) = S
      BY <1>2 DEF StartStates, GroupSets, GroupStates, ByLength
    <2>3. Permutes(perm, n)
      BY ByLengthPermutes
    <2> HIDE DEF m, perm
    <2>4. m # 0
      BY <1>1, <2>1
    <2>5. Permutes(perm, m * k) /\ Len(sizes) = m * k /\ m \in Nat \ {0}
      BY <2>1, <2>3, <2>4
    <2>6. IsHeap(S, k, 1..m * k, TRUE) /\ OnHeap(S) = 1..m * k
      BY <2>5, GroupsAreHeap
    <2> HIDE DEF S
    <2>7. equalSize = TRUE
      BY <1>2
    <2> QED BY <2>1, <2>2, <2>6, <2>7
  <1>3. CASE ~equalSize
    <2> DEFINE S == {SingleOf(sizes, k, i) : i \in DOMAIN sizes}
    <2>1. StartStates(sizes, k, equalSize) = S
      BY <1>3 DEF StartStates, SingleOf
    <2>2. IsHeap(S, k, 1..Len(sizes), FALSE) /\ OnHeap(S) = 1..Len(sizes)
      BY <1>1, SinglesAreHeap
    <2> HIDE DEF S
    <2>3. equalSize = FALSE
      BY <1>3
    <2> QED BY <2>1, <2>2, <2>3
  <1> QED BY <1>2, <1>3

-----------------------------------------------------------------------------
(* The partitions.                                                         *)

\* The largest differencing method ends with one state, which has all rows.
LEMMA KarmarkarKarpEnds ==
    ASSUME NEW sizes, Lengths(sizes), NEW k \in Nat \ {0}, NEW equalSize \in BOOLEAN,
           MayPartition(sizes, k, equalSize)
    PROVE  /\ IsState(KarmarkarKarp(sizes, k, equalSize), k, 1..Len(sizes), equalSize)
           /\ Held(RowsIn(KarmarkarKarp(sizes, k, equalSize))) = 1..Len(sizes)
  <1> DEFINE start == StartStates(sizes, k, equalSize)
             D == 1..Len(sizes)
             rounds == Cardinality(start) - 1
             Loops(f) == f = [n \in 0..rounds |-> IF n = 0 THEN start ELSE Differenced(f[n - 1])]
             s == FirstOf((CHOOSE f : Loops(f))[rounds])
  <1>1. IsHeap(start, k, D, equalSize) /\ OnHeap(start) = D
    BY StartIsHeap
  <1>2. KarmarkarKarp(sizes, k, equalSize) = s
    BY DEF KarmarkarKarp
  <1> HIDE DEF start, D
  <1>3. IsState(s, k, D, equalSize) /\ Held(RowsIn(s)) = OnHeap(start)
    BY <1>1, LoopEnds
  <1> HIDE DEF s
  <1> QED BY <1>1, <1>2, <1>3 DEF D

\* Parts that share out the rows 1 to n.
SharesOut(p, k, n) ==
    /\ n \in Nat /\ IsParts(p, k, 1..n) /\ Once(p) /\ Held(p) = 1..n

\* They have as many places as there are rows.
LEMMA AsManyPlaces ==
    ASSUME NEW p, NEW k, NEW n, SharesOut(p, k, n)
    PROVE  IsFiniteSet(Places(p)) /\ Cardinality(Places(p)) = n
  <1> DEFINE P == Places(p)
             D == 1..n
             f == [x \in P |-> RowAt(p, x)]
  <1>1. \A x \in P : RowAt(p, x) \in D
    BY FromPlace DEF SharesOut
  <1>2. \A x, y \in P : RowAt(p, x) = RowAt(p, y) => x = y
    BY Zenon DEF SharesOut, Once
  <1>3. \A r \in D : \E x \in P : RowAt(p, x) = r
    BY DEF SharesOut, Held
  <1>4. IsFiniteSet(D) /\ Cardinality(D) = n
    BY FS_Interval DEF SharesOut
  <1> HIDE DEF D, P
  <1>5. f \in [P -> D] /\ (\A x, y \in P : f[x] = f[y] => x = y) /\ \A r \in D : \E x \in P : f[x] = r
    BY <1>1, <1>2, <1>3
  <1> HIDE DEF f
  <1>6. f \in Bijection(P, D)
    BY <1>5, Fun_IsBij
  <1>7. ExistsBijection(P, D)
    BY <1>6 DEF ExistsBijection
  <1>8. ExistsBijection(D, P)
    BY <1>7, Fun_ExistsBijSymmetric
  <1>9. IsFiniteSet(P) /\ Cardinality(P) = n
    BY <1>4, <1>8, FS_Bijection
  <1> QED BY <1>9 DEF P

\* Parts of one length are an equal share each.
LEMMA EqualParts ==
    ASSUME NEW p, NEW k, NEW n, SharesOut(p, k, n), NEW m \in Nat,
           \A c \in 1..k : Len(p[c]) = m
    PROVE  m * k = n
  <1> DEFINE P == Places(p)
             A == 1..k
             B == 1..m
  <1>1. IsParts(p, k, 1..n) /\ k \in Nat
    BY DEF SharesOut, IsParts
  <1>2. ASSUME NEW x \in P PROVE x \in A \X B
    <2>1. x[1] \in 1..k /\ x[2] \in 1..Len(p[x[1]]) /\ x = <<x[1], x[2]>>
      BY <1>1, FromPlace
    <2>2. x[2] \in B
      BY <2>1
    <2> QED BY <2>1, <2>2
  <1>3. ASSUME NEW c \in A, NEW i \in B PROVE <<c, i>> \in P
    <2>1. i \in 1..Len(p[c])
      OBVIOUS
    <2> QED BY <1>1, <2>1, ToPlace
  <1>4. IsFiniteSet(A) /\ Cardinality(A) = k /\ IsFiniteSet(B) /\ Cardinality(B) = m
    BY <1>1, FS_Interval
  <1> HIDE DEF P, A, B
  <1>5. P = A \X B
    BY <1>2, <1>3
  <1>6. Cardinality(A \X B) = k * m
    BY <1>4, FS_Product
  <1>7. Cardinality(P) = n
    BY AsManyPlaces DEF P
  <1> QED BY <1>1, <1>5, <1>6, <1>7

\* Each part in the order of its rows.
Ordered(members) == Sorted(members, {[key |-> <<members[j], 0, 0>>, place |-> j] : j \in DOMAIN members})

\* A partition in the order of its rows has the same rows.
LEMMA OrderedPermutes ==
    ASSUME NEW members, NEW D \in SUBSET Nat, members \in Seq(D)
    PROVE  /\ Ordered(members) \in Seq(D) /\ Len(Ordered(members)) = Len(members)
           /\ Permutes(ByLength(members), Len(members))
           /\ \A i \in 1..Len(members) : Ordered(members)[i] = members[ByLength(members)[i]]
  <1> DEFINE n == Len(members)
             keys == [i \in 1..n |-> <<members[i], 0, 0>>]
             perm == ByLength(members)
  <1>1. n \in Nat /\ DOMAIN members = 1..n /\ \A i \in 1..n : members[i] \in D
    OBVIOUS
  <1>2. keys \in [1..n -> Triples]
    <2> SUFFICES ASSUME NEW i \in 1..n PROVE <<members[i], 0, 0>> \in Triples
      OBVIOUS
    <2>1. members[i] \in D
      BY <1>1
    <2>2. members[i] \in Nat
      BY <2>1
    <2> QED BY <2>2 DEF Triples
  <1>3. {[key |-> <<members[i], 0, 0>>, place |-> i] : i \in DOMAIN members} = Keyed(keys, n)
    BY <1>1 DEF Keyed
  <1>4. Ordered(members) = [i \in DOMAIN members |-> members[perm[i]]]
    BY DEF Ordered, Sorted, ByLength
  <1> HIDE DEF keys, n
  <1>5. Permutes(SortOrder(Keyed(keys, n)), n)
    BY <1>1, <1>2, SortOrderPermutes
  <1>6. Permutes(perm, n)
    BY <1>3, <1>5 DEF ByLength
  <1> HIDE DEF perm
  <1>7. \A i \in 1..n : perm[i] \in 1..n
    BY <1>6 DEF Permutes
  <1>8. Ordered(members) = [i \in 1..n |-> members[perm[i]]] /\ \A i \in 1..n : members[perm[i]] \in D
    BY <1>1, <1>4, <1>7
  <1>9. Ordered(members) \in Seq(D) /\ Len(Ordered(members)) = n
    BY <1>1, <1>8
  <1>10. \A i \in 1..n : Ordered(members)[i] = members[perm[i]]
    BY <1>8
  <1> QED BY <1>6, <1>9, <1>10 DEF perm, n

\* get_seqlen_balanced_partitions: the rows are shared out, no part is empty,
\* and with equal sizes all parts are of one length.
LEMMA PartitionsShareOut ==
    ASSUME NEW sizes, Lengths(sizes), NEW k \in Nat \ {0}, NEW equalSize \in BOOLEAN,
           MayPartition(sizes, k, equalSize)
    PROVE  /\ SharesOut(Partitions(sizes, k, equalSize), k, Len(sizes))
           /\ \A c \in 1..k : Partitions(sizes, k, equalSize)[c] # <<>>
           /\ equalSize => \A c \in 1..k : Len(Partitions(sizes, k, equalSize)[c]) * k = Len(sizes)
  <1> DEFINE s == KarmarkarKarp(sizes, k, equalSize)
             n == Len(sizes)
             D == 1..n
             p == RowsIn(s)
             q == Partitions(sizes, k, equalSize)
  <1>1. IsState(s, k, D, equalSize) /\ Held(p) = D
    BY KarmarkarKarpEnds
  <1>2. q = [c \in 1..k |-> Ordered(s[c].rows)]
    BY DEF Partitions, Ordered
  <1>3. n \in Nat /\ n >= k /\ D \in SUBSET Nat
    BY DEF Lengths, MayPartition
  <1> HIDE DEF s, n, D, p, q
  <1>4. IsParts(p, k, D) /\ Once(p) /\ \A c \in 1..k : p[c] = s[c].rows /\ s[c].rows \in Seq(D)
    BY <1>1, SetTypes DEF IsState, p
  <1>5. ASSUME NEW c \in 1..k
        PROVE  /\ q[c] \in Seq(D) /\ Len(q[c]) = Len(p[c]) /\ q[c] = Ordered(p[c])
               /\ Permutes(ByLength(p[c]), Len(p[c]))
               /\ \A i \in 1..Len(p[c]) : q[c][i] = p[c][ByLength(p[c])[i]]
    <2> DEFINE members == p[c]
    <2>1. q[c] = Ordered(members) /\ members \in Seq(D)
      BY <1>2, <1>4
    <2> HIDE DEF members
    <2>2. /\ Ordered(members) \in Seq(D) /\ Len(Ordered(members)) = Len(members)
          /\ Permutes(ByLength(members), Len(members))
          /\ \A i \in 1..Len(members) : Ordered(members)[i] = members[ByLength(members)[i]]
      BY <1>3, <2>1, OrderedPermutes
    <2>3. /\ q[c] \in Seq(D) /\ Len(q[c]) = Len(members) /\ q[c] = Ordered(members)
          /\ Permutes(ByLength(members), Len(members))
          /\ \A i \in 1..Len(members) : q[c][i] = members[ByLength(members)[i]]
      BY <2>1, <2>2
    <2> QED BY <2>3 DEF members
  <1>6. IsParts(q, k, D)
    BY <1>2, <1>5 DEF IsParts
  <1> DEFINE perm == [c \in 1..k |-> ByLength(p[c])]
  <1>7. \A c \in 1..k : /\ Len(q[c]) = Len(p[c]) /\ Permutes(perm[c], Len(p[c]))
                        /\ \A i \in 1..Len(p[c]) : q[c][i] = p[c][perm[c][i]]
    BY <1>5
  <1> HIDE DEF perm
  <1>8. Held(q) = Held(p) /\ (Once(p) => Once(q))
    BY <1>4, <1>6, <1>7, PermutedRows
  <1>9. SharesOut(q, k, n)
    BY <1>1, <1>3, <1>4, <1>6, <1>8 DEF SharesOut, D
  <1>10. \A c \in 1..k : p[c] # <<>>
    <2>1. CASE equalSize
      <3>1. \A c \in 1..k : Len(p[c]) = Len(p[1])
        BY <1>1, <1>4, <2>1 DEF IsState
      <3>2. p[1] # <<>> /\ p[1] \in Seq(D)
        BY <1>1, <1>4 DEF IsState
      <3>3. Len(p[1]) # 0
        BY <3>2
      <3> QED BY <3>1, <3>3
    <2>2. CASE ~equalSize
      <3>1. Cardinality(Held(p)) = n
        BY <1>1, <1>3, FS_Interval DEF D
      <3>2. \A c \in 1..k : c <= n
        BY <1>3
      <3> QED BY <1>1, <1>4, <2>2, <3>1, <3>2 DEF IsState, p
    <2> QED BY <2>1, <2>2
  <1>11. \A c \in 1..k : q[c] # <<>>
    <2> SUFFICES ASSUME NEW c \in 1..k PROVE q[c] # <<>>
      OBVIOUS
    <2>1. p[c] # <<>> /\ p[c] \in Seq(D) /\ q[c] \in Seq(D) /\ Len(q[c]) = Len(p[c])
      BY <1>4, <1>5, <1>10
    <2> QED BY <2>1
  <1>12. ASSUME equalSize, NEW c \in 1..k PROVE Len(q[c]) * k = n
    <2>1. \A d \in 1..k : Len(p[d]) = Len(p[c])
      BY <1>1, <1>4, <1>12 DEF IsState
    <2>2. \A d \in 1..k : Len(q[d]) = Len(q[c])
      BY <1>5, <2>1
    <2>3. Len(q[c]) \in Nat
      BY <1>5
    <2> QED BY <1>9, <2>2, <2>3, EqualParts
  <1> QED BY <1>9, <1>11, <1>12 DEF q, n

-----------------------------------------------------------------------------
(* One sequence after the other.                                           *)

\* What FlattenSeq has put together after each part.
Flattening(f, p, k, S) ==
    /\ FlattenSeq(p) = f[k] /\ f[1] = p[1]
    /\ \A i \in 1..k : f[i] \in Seq(S)
    /\ \A i \in 1..k : i > 1 => f[i] = f[i - 1] \o p[i]

\* FlattenSeq puts the parts together one by one.
LEMMA FlattenRounds ==
    ASSUME NEW S, NEW k \in Nat \ {0}, NEW p, IsParts(p, k, S)
    PROVE  \E f : Flattening(f, p, k, S)
  <1> DEFINE X == Seq(S)
             n == k - 1
             step == [x \in X \X (1..n) |-> x[1] \o p[x[2] + 1]]
             Flat(f) == f = [i \in 1..Len(p) |-> IF i = 1 THEN p[i] ELSE f[i - 1] \o p[i]]
             flatten == CHOOSE f : Flat(f)
  <1>1. /\ Len(p) = k /\ n \in Nat /\ 1 \in 1..k /\ k \in 1..k
        /\ \A i \in 1..k : p[i] \in X
    BY DEF IsParts
  <1>2. FlattenSeq(p) = flatten[k]
    <2>1. Len(p) # 0
      BY <1>1
    <2> QED BY <1>1, <2>1 DEF FlattenSeq
  <1>3. step \in [X \X (1..n) -> X]
    <2> SUFFICES ASSUME NEW x \in X \X (1..n) PROVE x[1] \o p[x[2] + 1] \in X
      OBVIOUS
    <2>1. x[1] \in X /\ x[2] + 1 \in 1..k
      BY <1>1
    <2>2. p[x[2] + 1] \in X
      BY <1>1, <2>1
    <2> QED BY <2>1, <2>2
  <1>4. \A a \in X, m \in 1..n : step[<<a, m>>] = a \o p[m + 1]
    <2> HIDE DEF X, n
    <2> QED OBVIOUS
  <1> HIDE DEF step, X, n
  <1>5. PICK g \in [0..n -> X] : g[0] = p[1] /\ \A m \in 1..n : g[m] = step[<<g[m - 1], m>>]
    <2>1. Stepping(step, X, p[1], n)
      BY <1>1, <1>3 DEF Stepping
    <2> QED BY <2>1, Steps
  <1> DEFINE h == [i \in 1..k |-> g[i - 1]]
  <1>6. \A i \in 1..k : i > 1 => h[i] = h[i - 1] \o p[i]
    <2> SUFFICES ASSUME NEW i \in 1..k, i > 1 PROVE g[i - 1] = g[i - 2] \o p[i]
      <3>1. \A i \in 1..k : i > 1 => i - 1 \in 1..k /\ i - 1 - 1 = i - 2
        BY <1>1
      <3> QED BY <3>1
    <2>1. i - 1 \in 1..n /\ i - 2 \in 0..n /\ (i - 1) - 1 = i - 2 /\ (i - 1) + 1 = i
      BY <1>1 DEF n
    <2>2. g[i - 1] = step[<<g[i - 2], i - 1>>]
      BY <1>5, <2>1
    <2>3. g[i - 2] \in X
      BY <2>1
    <2>4. step[<<g[i - 2], i - 1>>] = g[i - 2] \o p[(i - 1) + 1]
      BY <1>4, <2>1, <2>3
    <2> QED BY <2>1, <2>2, <2>4
  <1>7. h[1] = p[1] /\ DOMAIN h = 1..k /\ h = [i \in 1..k |-> h[i]]
    BY <1>1, <1>5
  <1> HIDE DEF h
  <1>8. Flat(h)
    <2>1. \A i \in 1..k : h[i] = IF i = 1 THEN p[i] ELSE h[i - 1] \o p[i]
      <3>1. \A i \in 1..k : i # 1 => i > 1
        BY <1>1
      <3> QED BY <1>6, <1>7, <3>1
    <2> QED BY <1>1, <1>7, <2>1
  <1>9. flatten = [i \in 1..k |-> IF i = 1 THEN p[i] ELSE flatten[i - 1] \o p[i]]
    <2>1. Flat(flatten)
      BY <1>8
    <2> QED BY <1>1, <2>1
  <1> HIDE DEF flatten
  <1>10. flatten[1] = p[1] /\ \A i \in 1..k : i > 1 => flatten[i] = flatten[i - 1] \o p[i]
    <2>1. \A i \in 1..k : i > 1 => i # 1
      BY <1>1
    <2> QED BY <1>1, <1>9, <2>1
  <1>11. \A i \in 1..k : flatten[i] \in X
    <2> DEFINE Bad == {i \in 1..k : flatten[i] \notin X}
    <2> SUFFICES ASSUME Bad # {} PROVE FALSE
      OBVIOUS
    <2>1. Bad \in SUBSET Nat
      BY <1>1
    <2>2. PICK b \in Bad : \A e \in Bad : b <= e
      <3> HIDE DEF Bad
      <3> QED BY <2>1, Least
    <2>3. b \in 1..k /\ flatten[b] \notin X
      OBVIOUS
    <2>4. b > 1 /\ b - 1 \in 1..k /\ ~(b <= b - 1)
      BY <1>1, <1>10, <2>3
    <2>5. flatten[b - 1] \in X
      BY <2>2, <2>4
    <2>6. flatten[b] = flatten[b - 1] \o p[b] /\ p[b] \in X
      BY <1>1, <1>10, <2>3, <2>4
    <2> HIDE DEF Bad
    <2> QED BY <2>3, <2>5, <2>6 DEF X
  <1>12. Flattening(flatten, p, k, S)
    BY <1>2, <1>10, <1>11 DEF Flattening, X
  <1> QED BY <1>12

\* w tells for each place of a sequence where in the first c parts it was.
PlacesTo(p, c) == {x \in Places(p) : x[1] <= c}
Enumerates(w, flat, p, c) ==
    /\ \A n \in 1..Len(flat) : w[n] \in PlacesTo(p, c) /\ flat[n] = RowAt(p, w[n])
    /\ \A m, n \in 1..Len(flat) : w[m] = w[n] => m = n
    /\ \A x \in PlacesTo(p, c) : \E n \in 1..Len(flat) : w[n] = x

\* Before the first part there is nothing to list.
LEMMA FirstEnumerates ==
    ASSUME NEW S, NEW k \in Nat \ {0}, NEW p, IsParts(p, k, S)
    PROVE  \E w : Enumerates(w, p[1], p, 1)
  <1> DEFINE w == [n \in 1..Len(p[1]) |-> <<1, n>>]
  <1>1. 1 \in 1..k
    OBVIOUS
  <1>2. ASSUME NEW n \in 1..Len(p[1])
        PROVE  w[n] \in PlacesTo(p, 1) /\ p[1][n] = RowAt(p, w[n])
    <2>1. <<1, n>> \in Places(p) /\ RowAt(p, <<1, n>>) = p[1][n]
      BY <1>1, ToPlace
    <2> QED BY <2>1 DEF PlacesTo
  <1>3. ASSUME NEW x \in PlacesTo(p, 1) PROVE \E n \in 1..Len(p[1]) : w[n] = x
    <2>1. x \in Places(p) /\ x[1] <= 1
      BY DEF PlacesTo
    <2>2. x[1] \in 1..k /\ x[2] \in 1..Len(p[x[1]]) /\ x = <<x[1], x[2]>>
      BY <2>1, FromPlace
    <2>3. x[1] = 1
      BY <2>1, <2>2
    <2> QED BY <2>2, <2>3
  <1>4. \A m, n \in 1..Len(p[1]) : w[m] = w[n] => m = n
    OBVIOUS
  <1> HIDE DEF w
  <1>5. Enumerates(w, p[1], p, 1)
    BY <1>2, <1>3, <1>4 DEF Enumerates
  <1> QED BY <1>5

\* A part appended lists its places.
LEMMA NextEnumerates ==
    ASSUME NEW S, NEW k \in Nat \ {0}, NEW p, IsParts(p, k, S), NEW c \in 1..k, c > 1,
           NEW flat \in Seq(S), NEW v, Enumerates(v, flat, p, c - 1)
    PROVE  \E w : Enumerates(w, flat \o p[c], p, c)
  <1> DEFINE a == Len(flat)
             b == Len(p[c])
             long == flat \o p[c]
             w == [n \in 1..a + b |-> IF n <= a THEN v[n] ELSE <<c, n - a>>]
  <1>1. a \in Nat /\ b \in Nat /\ p[c] \in Seq(S) /\ c \in Nat /\ c - 1 \in Nat
    BY PartTypes
  <1>2. /\ Len(long) = a + b
        /\ \A n \in 1..a + b : long[n] = IF n <= a THEN flat[n] ELSE p[c][n - a]
    BY <1>1, ConcatProperties
  <1>3. /\ \A n \in 1..a : v[n] \in PlacesTo(p, c - 1) /\ flat[n] = RowAt(p, v[n])
        /\ \A m, n \in 1..a : v[m] = v[n] => m = n
        /\ \A x \in PlacesTo(p, c - 1) : \E n \in 1..a : v[n] = x
    BY DEF Enumerates
  <1>4. \A n \in 1..a + b : (n <= a => n \in 1..a) /\ (~(n <= a) => n - a \in 1..b)
    BY <1>1
  <1>5. \A n \in 1..a + b : w[n] = IF n <= a THEN v[n] ELSE <<c, n - a>>
    OBVIOUS
  <1> HIDE DEF w, long, a
  <1>6. ASSUME NEW n \in 1..b
        PROVE  <<c, n>> \in PlacesTo(p, c) /\ RowAt(p, <<c, n>>) = p[c][n]
    <2>1. <<c, n>> \in Places(p) /\ RowAt(p, <<c, n>>) = p[c][n]
      BY ToPlace
    <2> QED BY <1>1, <2>1 DEF PlacesTo
  <1> HIDE DEF b
  <1>7. \A x : x \in PlacesTo(p, c - 1) => x \in PlacesTo(p, c) /\ x[1] # c
    <2> SUFFICES ASSUME NEW x, x \in PlacesTo(p, c - 1) PROVE x \in PlacesTo(p, c) /\ x[1] # c
      OBVIOUS
    <2>1. x \in Places(p) /\ x[1] <= c - 1
      BY DEF PlacesTo
    <2>2. x[1] \in 1..k
      BY <2>1, FromPlace
    <2> QED BY <1>1, <2>1, <2>2 DEF PlacesTo
  <1>8. ASSUME NEW n \in 1..a + b PROVE w[n] \in PlacesTo(p, c) /\ long[n] = RowAt(p, w[n])
    <2>1. CASE n <= a
      BY <1>2, <1>3, <1>4, <1>5, <1>7, <2>1
    <2>2. CASE ~(n <= a)
      <3> DEFINE i == n - a
      <3>1. i \in 1..b /\ w[n] = <<c, i>> /\ long[n] = p[c][i]
        BY <1>2, <1>4, <1>5, <2>2
      <3> HIDE DEF i
      <3> QED BY <1>6, <3>1
    <2> QED BY <2>1, <2>2
  <1>9. ASSUME NEW m \in 1..a + b, NEW n \in 1..a + b, w[m] = w[n] PROVE m = n
    <2>1. CASE m <= a /\ n <= a
      BY <1>3, <1>4, <1>5, <1>9, <2>1
    <2>2. CASE ~(m <= a) /\ ~(n <= a)
      <3>1. <<c, m - a>> = <<c, n - a>>
        BY <1>5, <1>9, <2>2
      <3>2. m - a = n - a
        BY <3>1
      <3> QED BY <1>1, <3>2
    <2>3. ASSUME NEW i \in 1..a + b, NEW j \in 1..a + b, i <= a, ~(j <= a) PROVE w[i] # w[j]
      <3>1. w[i] \in PlacesTo(p, c - 1)
        BY <1>3, <1>4, <1>5, <2>3
      <3>2. w[i][1] # c
        BY <1>7, <3>1
      <3>3. w[j] = <<c, j - a>>
        BY <1>5, <2>3
      <3>4. w[j][1] = c
        BY <3>3
      <3> QED BY <3>2, <3>4
    <2> QED BY <1>9, <2>1, <2>2, <2>3
  <1>10. ASSUME NEW x \in PlacesTo(p, c) PROVE \E n \in 1..a + b : w[n] = x
    <2>1. x \in Places(p) /\ x[1] <= c
      BY DEF PlacesTo
    <2>2. x[1] \in 1..k /\ x[2] \in 1..Len(p[x[1]]) /\ x = <<x[1], x[2]>>
      BY <2>1, FromPlace
    <2>3. CASE x[1] = c
      <3> DEFINE n == a + x[2]
      <3>1. x[2] \in 1..b
        BY <2>2, <2>3 DEF b
      <3>2. n \in 1..a + b /\ ~(n <= a) /\ n - a = x[2]
        BY <1>1, <3>1
      <3> HIDE DEF n
      <3>3. w[n] = <<c, x[2]>>
        BY <1>5, <3>2
      <3> QED BY <2>2, <2>3, <3>2, <3>3
    <2>4. CASE x[1] # c
      <3>1. x[1] <= c - 1
        BY <1>1, <2>1, <2>2, <2>4
      <3>2. x \in PlacesTo(p, c - 1)
        BY <2>1, <3>1 DEF PlacesTo
      <3>3. PICK n \in 1..a : v[n] = x
        BY <1>3, <3>2
      <3>4. n \in 1..a + b /\ n <= a
        BY <1>1
      <3> QED BY <1>5, <3>3, <3>4
    <2> QED BY <2>3, <2>4
  <1>11. Enumerates(w, long, p, c)
    BY <1>2, <1>8, <1>9, <1>10 DEF Enumerates
  <1> QED BY <1>11 DEF long

\* Each place of a flattened sequence comes from one place of the parts.
Lists(flat, p, S, w) ==
    /\ flat \in Seq(S)
    /\ \A n \in 1..Len(flat) : w[n] \in Places(p) /\ flat[n] = RowAt(p, w[n])
    /\ \A m, n \in 1..Len(flat) : w[m] = w[n] => m = n
    /\ \A x \in Places(p) : \E n \in 1..Len(flat) : w[n] = x

\* FlattenSeq lists every place of the parts once.
LEMMA FlattenLists ==
    ASSUME NEW S, NEW k \in Nat \ {0}, NEW p, IsParts(p, k, S)
    PROVE  \E w : Lists(FlattenSeq(p), p, S, w)
  <1>1. PICK f : Flattening(f, p, k, S)
    BY FlattenRounds
  <1>2. /\ FlattenSeq(p) = f[k] /\ f[1] = p[1]
        /\ \A i \in 1..k : f[i] \in Seq(S)
        /\ \A i \in 1..k : i > 1 => f[i] = f[i - 1] \o p[i]
    BY <1>1 DEF Flattening
  <1> DEFINE Good(c) == \E w : Enumerates(w, f[c], p, c)
             Bad == {c \in 1..k : ~Good(c)}
  <1>3. Bad = {}
    <2> SUFFICES ASSUME Bad # {} PROVE FALSE
      OBVIOUS
    <2>1. Bad \in SUBSET Nat
      OBVIOUS
    <2>2. PICK b \in Bad : \A e \in Bad : b <= e
      <3> HIDE DEF Bad
      <3> QED BY <2>1, Least
    <2>3. b \in 1..k /\ ~Good(b)
      OBVIOUS
    <2>4. Good(1)
      BY <1>2, FirstEnumerates
    <2>5. b > 1 /\ b - 1 \in 1..k /\ ~(b <= b - 1)
      <3> HIDE DEF Good
      <3> QED BY <2>3, <2>4
    <2>6. Good(b - 1)
      <3>1. b - 1 \notin Bad
        <4> HIDE DEF Bad
        <4> QED BY <2>2, <2>5
      <3> HIDE DEF Good
      <3> QED BY <2>5, <3>1
    <2>7. PICK v : Enumerates(v, f[b - 1], p, b - 1)
      BY <2>6
    <2>8. f[b - 1] \in Seq(S) /\ f[b] = f[b - 1] \o p[b]
      BY <1>2, <2>3, <2>5
    <2> DEFINE flat == f[b - 1]
    <2>9. flat \in Seq(S) /\ Enumerates(v, flat, p, b - 1) /\ f[b] = flat \o p[b]
      BY <2>7, <2>8
    <2> HIDE DEF flat
    <2>10. \E w : Enumerates(w, flat \o p[b], p, b)
      BY <2>3, <2>5, <2>9, NextEnumerates
    <2>11. Good(b)
      BY <2>9, <2>10
    <2> HIDE DEF Good
    <2> QED BY <2>3, <2>11
  <1>4. Good(k)
    <2>1. k \in 1..k
      OBVIOUS
    <2> HIDE DEF Good
    <2> QED BY <1>3, <2>1
  <1>5. PICK w : Enumerates(w, f[k], p, k)
    BY <1>4
  <1>6. PlacesTo(p, k) = Places(p)
    <2>1. \A x \in Places(p) : x[1] \in 1..k
      BY FromPlace
    <2> QED BY <2>1 DEF PlacesTo
  <1>7. f[k] \in Seq(S)
    <2>1. k \in 1..k
      OBVIOUS
    <2> QED BY <1>2, <2>1
  <1>8. Lists(FlattenSeq(p), p, S, w)
    BY <1>2, <1>5, <1>6, <1>7 DEF Lists, Enumerates
  <1> QED BY <1>8

-----------------------------------------------------------------------------
(* DataProto.split.                                                        *)

\* The last place of the first c pieces.
SplitEnd(n, size, c) == IF c * size < n THEN c * size ELSE n

\* p has the k pieces of s, a sequence of length n over S.
Pieces(p, s, size, n, k, S) ==
    /\ k \in Nat \ {0} /\ p = [c \in 1..k |-> p[c]] /\ SplitEnd(n, size, k) = n
    /\ \A c \in 1..k : /\ (c - 1) * size \in 0..n - 1
                        /\ SplitEnd(n, size, c - 1) = (c - 1) * size
                        /\ SplitEnd(n, size, c) \in (c - 1) * size + 1..n
                        /\ p[c] \in Seq(S) /\ Len(p[c]) = SplitEnd(n, size, c) - (c - 1) * size
                        /\ \A j \in 1..Len(p[c]) : p[c][j] = s[(c - 1) * size + j]

NumPieces(n, size) == (n + size - 1) \div size

\* split makes pieces.
LEMMA SplitProperties ==
    ASSUME NEW S, NEW s \in Seq(S), Len(s) > 0, NEW size \in Nat \ {0}
    PROVE  Pieces(Split(s, size), s, size, Len(s), NumPieces(Len(s), size), S)
  <1> DEFINE n == Len(s)
             a == n + size - 1
             k == a \div size
  <1>1. n \in Nat /\ n > 0 /\ a \in Nat /\ \A j \in 1..n : s[j] \in S
    OBVIOUS
  <1>2. k \in Nat /\ a % size \in 0..size - 1 /\ a = k * size + (a % size)
    BY <1>1, DivMod
  <1>3. Split(s, size) = [c \in 1..k |-> SubSeq(s, (c - 1) * size + 1, SplitEnd(n, size, c))]
    BY DEF Split, SplitEnd
  <1>4. n + size - 1 = k * size + (a % size)
    BY <1>2
  <1> DEFINE m == a % size
  <1>5. m \in 0..size - 1 /\ n + size - 1 = k * size + m
    BY <1>2, <1>4
  <1> HIDE DEF k, m, a, n
  <1>6. k * size \in Nat /\ k * size >= n /\ k * size <= n + size - 1
    BY <1>1, <1>2, <1>5
  <1>7. k # 0
    <2> SUFFICES ASSUME k = 0 PROVE FALSE
      OBVIOUS
    <2>1. k * size = 0
      OBVIOUS
    <2> QED BY <1>1, <1>6, <2>1
  <1>8. SplitEnd(n, size, k) = n
    BY <1>1, <1>6 DEF SplitEnd
  <1>9. ASSUME NEW c \in 1..k
        PROVE  /\ (c - 1) * size \in 0..n - 1
               /\ SplitEnd(n, size, c - 1) = (c - 1) * size
               /\ SplitEnd(n, size, c) \in (c - 1) * size + 1..n
               /\ Split(s, size)[c] \in Seq(S)
               /\ Len(Split(s, size)[c]) = SplitEnd(n, size, c) - (c - 1) * size
               /\ \A j \in 1..Len(Split(s, size)[c]) :
                     Split(s, size)[c][j] = s[(c - 1) * size + j]
    <2> DEFINE b == (c - 1) * size
               e == SplitEnd(n, size, c)
    <2>1. b \in Nat /\ c * size = b + size
      OBVIOUS
    <2>2. c * size <= k * size
      BY <1>2
    <2>3. b < n
      BY <1>1, <1>6, <2>1, <2>2
    <2>4. SplitEnd(n, size, c - 1) = b
      BY <2>3 DEF SplitEnd
    <2>5. e \in b + 1..n
      <3>1. e = IF b + size < n THEN b + size ELSE n
        BY <2>1 DEF SplitEnd
      <3> HIDE DEF e, b
      <3> QED BY <1>1, <2>1, <2>3, <3>1
    <2>6. Split(s, size)[c] = SubSeq(s, b + 1, e)
      BY <1>3
    <2> DEFINE first == b + 1
               t == SubSeq(s, first, e)
    <2> HIDE DEF e, b
    <2>7. first \in Int /\ e \in Int /\ first <= e /\ \A j \in first..e : s[j] \in S
      BY <1>1, <2>1, <2>5
    <2>8. e - first + 1 = e - b
      BY <2>1, <2>5
    <2> HIDE DEF first
    <2>9. /\ t \in Seq(S) /\ Len(t) = e - first + 1
          /\ \A j \in 1..e - first + 1 : t[j] = s[first + j - 1]
      BY <2>7, SubSeqProperties
    <2> HIDE DEF t
    <2>10. \A j \in 1..e - b : first + j - 1 = b + j
      BY <2>1, <2>5 DEF first
    <2>11. t \in Seq(S) /\ Len(t) = e - b /\ \A j \in 1..e - b : t[j] = s[b + j]
      BY <2>8, <2>9, <2>10
    <2>12. Split(s, size)[c] = t
      BY <2>6 DEF first, t
    <2>13. b \in 0..n - 1
      BY <1>1, <2>1, <2>3
    <2> QED BY <2>4, <2>5, <2>11, <2>12, <2>13 DEF e, b
  <1>10. k \in Nat \ {0} /\ Split(s, size) = [c \in 1..k |-> Split(s, size)[c]]
    BY <1>2, <1>3, <1>7
  <1>11. Pieces(Split(s, size), s, size, n, k, S)
    BY <1>8, <1>9, <1>10 DEF Pieces
  <1> QED BY <1>11 DEF k, a, n, NumPieces

\* Put together again the pieces are the sequence.
LEMMA FlattenSplit ==
    ASSUME NEW S, NEW s \in Seq(S), Len(s) > 0, NEW size \in Nat \ {0}
    PROVE  FlattenSeq(Split(s, size)) = s
  <1> DEFINE n == Len(s)
             p == Split(s, size)
             k == NumPieces(n, size)
             To(c) == SplitEnd(n, size, c)
  <1>0. Pieces(p, s, size, n, k, S)
    BY SplitProperties
  <1>1. /\ k \in Nat \ {0} /\ p = [c \in 1..k |-> p[c]] /\ To(k) = n
        /\ \A c \in 1..k :
              /\ (c - 1) * size \in 0..n - 1 /\ To(c - 1) = (c - 1) * size
              /\ To(c) \in (c - 1) * size + 1..n
              /\ p[c] \in Seq(S) /\ Len(p[c]) = To(c) - (c - 1) * size
              /\ \A j \in 1..Len(p[c]) : p[c][j] = s[(c - 1) * size + j]
    <2> HIDE DEF k, p, n
    <2> QED BY <1>0 DEF Pieces
  <1>3. n \in Nat /\ n > 0
    OBVIOUS
  <1> HIDE DEF k, p, To, n
  <1>k. k \in Nat \ {0}
    BY <1>1
  <1>4. IsParts(p, k, S)
    BY <1>1 DEF IsParts
  <1>5. PICK f : Flattening(f, p, k, S)
    BY <1>1, <1>4, FlattenRounds
  <1>6. /\ FlattenSeq(p) = f[k] /\ f[1] = p[1]
        /\ \A i \in 1..k : f[i] \in Seq(S)
        /\ \A i \in 1..k : i > 1 => f[i] = f[i - 1] \o p[i]
    BY <1>5 DEF Flattening
  <1> DEFINE Good(c) == Len(f[c]) = To(c) /\ \A j \in 1..To(c) : f[c][j] = s[j]
             Bad == {c \in 1..k : ~Good(c)}
  <1>7. Bad = {}
    <2> SUFFICES ASSUME Bad # {} PROVE FALSE
      OBVIOUS
    <2>1. Bad \in SUBSET Nat
      BY <1>1
    <2>2. PICK b \in Bad : \A e \in Bad : b <= e
      <3> HIDE DEF Bad
      <3> QED BY <2>1, Least
    <2>3. b \in 1..k /\ ~Good(b)
      OBVIOUS
    <2>4. b # 1
      <3> SUFFICES ASSUME b = 1 PROVE FALSE
        OBVIOUS
      <3>1. (1 - 1) * size = 0 /\ 1 \in 1..k
        BY <1>k
      <3>2. Len(p[1]) = To(1) - 0 /\ To(1) \in 1..n /\ \A j \in 1..Len(p[1]) : p[1][j] = s[0 + j]
        <4>1. PICK c \in 1..k : c = 1
          BY <3>1
        <4> DEFINE x == (c - 1) * size
                   e == To(c)
                   q == p[c]
        <4>2. x = 0
          BY <4>1
        <4>3. e \in x + 1..n /\ Len(q) = e - x /\ \A j \in 1..Len(q) : q[j] = s[x + j]
          BY <1>1
        <4> HIDE DEF x, e, q
        <4>4. Len(q) = e - 0 /\ e \in 1..n /\ \A j \in 1..Len(q) : q[j] = s[0 + j]
          BY <1>3, <4>2, <4>3
        <4> QED BY <4>1, <4>4 DEF e, q
      <3>3. Len(p[1]) = To(1)
        BY <1>3, <3>2
      <3>4. \A j \in 1..To(1) : p[1][j] = s[j]
        BY <1>3, <3>2, <3>3
      <3> QED BY <1>6, <2>3, <3>3, <3>4
    <2>5. b > 1 /\ b - 1 \in 1..k /\ ~(b <= b - 1)
      <3> HIDE DEF Good
      <3> QED BY <1>k, <2>3, <2>4
    <2>6. Good(b - 1)
      <3>1. b - 1 \notin Bad
        <4> HIDE DEF Bad
        <4> QED BY <2>2, <2>5
      <3> HIDE DEF Good
      <3> QED BY <2>5, <3>1
    <2> DEFINE flat == f[b - 1]
               x == (b - 1) * size
               long == flat \o p[b]
    <2>7. /\ x \in 0..n - 1 /\ To(b) \in x + 1..n /\ p[b] \in Seq(S) /\ Len(p[b]) = To(b) - x
          /\ \A j \in 1..Len(p[b]) : p[b][j] = s[x + j]
      BY <1>1, <2>3
    <2>8. flat \in Seq(S) /\ f[b] = long
      BY <1>6, <2>3, <2>5
    <2>9. Len(flat) = x /\ \A j \in 1..x : flat[j] = s[j]
      <3>1. To(b - 1) = x
        BY <1>1, <2>3
      <3> QED BY <2>6, <3>1
    <2> HIDE DEF flat, x
    <2>10. /\ Len(long) = Len(flat) + Len(p[b])
           /\ \A i \in 1..Len(flat) + Len(p[b]) :
                 long[i] = IF i <= Len(flat) THEN flat[i] ELSE p[b][i - Len(flat)]
      BY <2>7, <2>8, ConcatProperties
    <2>11. x \in Nat /\ To(b) \in Nat /\ x + (To(b) - x) = To(b)
      <3> DEFINE e == To(b)
      <3>1. x \in 0..n - 1 /\ e \in x + 1..n
        BY <2>7
      <3> HIDE DEF e
      <3> QED BY <1>3, <3>1 DEF e
    <2>12. Len(long) = To(b)
      BY <2>7, <2>9, <2>10, <2>11
    <2>13. ASSUME NEW j \in 1..To(b) PROVE long[j] = s[j]
      <3>1. long[j] = IF j <= x THEN flat[j] ELSE p[b][j - x]
        BY <2>7, <2>9, <2>10, <2>11
      <3>2. CASE j <= x
        <4>1. j \in 1..x
          BY <2>11, <3>2
        <4> QED BY <2>9, <3>1, <3>2, <4>1
      <3>3. CASE ~(j <= x)
        <4>1. j - x \in 1..Len(p[b]) /\ x + (j - x) = j
          BY <2>7, <2>11, <3>3
        <4> DEFINE i == j - x
        <4>2. i \in 1..Len(p[b]) /\ x + i = j /\ long[j] = p[b][i]
          BY <3>1, <3>3, <4>1
        <4> HIDE DEF i
        <4> QED BY <2>7, <4>2
      <3> QED BY <3>2, <3>3
    <2>14. Good(b)
      BY <2>8, <2>12, <2>13
    <2> HIDE DEF Good
    <2> QED BY <2>3, <2>14
  <1>8. Good(k) /\ k \in 1..k
    <2>1. k \in 1..k
      BY <1>1
    <2> HIDE DEF Good
    <2> QED BY <1>7, <2>1
  <1>9. f[k] \in Seq(S) /\ Len(f[k]) = n /\ \A j \in 1..n : f[k][j] = s[j]
    BY <1>1, <1>6, <1>8
  <1> DEFINE t == f[k]
  <1>10. t \in Seq(S) /\ Len(t) = Len(s) /\ \A j \in 1..Len(s) : t[j] = s[j]
    BY <1>9 DEF n
  <1> HIDE DEF t
  <1>11. t = s
    BY <1>10
  <1> QED BY <1>6, <1>11 DEF t, p

-----------------------------------------------------------------------------
(* Permutations.                                                           *)

\* A list of the places of parts that share out n rows has n entries, and is
\* for a permutation of the rows.
LEMMA ListsPermute ==
    ASSUME NEW p, NEW k, NEW n, SharesOut(p, k, n),
           NEW t, Places(t) = Places(p), NEW S, NEW flat, NEW w, Lists(flat, t, S, w)
    PROVE  /\ flat \in Seq(S) /\ Len(flat) = n
           /\ Permutes([i \in 1..n |-> RowAt(p, w[i])], n)
           /\ \A i \in 1..n : w[i] \in Places(p) /\ flat[i] = RowAt(t, w[i])
  <1> DEFINE D == 1..n
             m == Len(flat)
             A == 1..m
             f == [i \in A |-> RowAt(p, w[i])]
  <1>1. n \in Nat /\ Once(p) /\ Held(p) = D
    BY DEF SharesOut
  <1> HIDE DEF D
  <1>2. /\ \A x, y \in Places(p) : RowAt(p, x) = RowAt(p, y) => x = y
        /\ \A r \in D : \E x \in Places(p) : RowAt(p, x) = r
        /\ \A x \in Places(p) : RowAt(p, x) \in D
    <2>1. \A x, y \in Places(p) : RowAt(p, x) = RowAt(p, y) => x = y
      BY <1>1, Zenon DEF Once
    <2>2. /\ \A r \in D : \E x \in Places(p) : RowAt(p, x) = r
          /\ \A x \in Places(p) : RowAt(p, x) \in D
      BY <1>1 DEF Held
    <2> QED BY <2>1, <2>2
  <1>3. /\ flat \in Seq(S)
        /\ \A i \in A : w[i] \in Places(p) /\ flat[i] = RowAt(t, w[i])
        /\ \A i, j \in A : w[i] = w[j] => i = j
        /\ \A x \in Places(p) : \E i \in A : w[i] = x
    BY DEF Lists
  <1>4. m \in Nat
    BY <1>3
  <1> HIDE DEF m
  <1>5. f \in [A -> D] /\ \A i \in A : f[i] = RowAt(p, w[i])
    BY <1>2, <1>3
  <1> HIDE DEF f
  <1>6. ASSUME NEW i \in A, NEW j \in A, f[i] = f[j] PROVE i = j
    <2>1. w[i] \in Places(p) /\ w[j] \in Places(p) /\ RowAt(p, w[i]) = RowAt(p, w[j])
      BY <1>3, <1>5, <1>6
    <2>2. w[i] = w[j]
      BY <1>2, <2>1
    <2> QED BY <1>3, <2>2
  <1>7. ASSUME NEW r \in D PROVE \E i \in A : f[i] = r
    <2>1. PICK x \in Places(p) : RowAt(p, x) = r
      BY <1>2
    <2>2. PICK i \in A : w[i] = x
      BY <1>3
    <2> QED BY <1>5, <2>1, <2>2
  <1>8. IsFiniteSet(A) /\ Cardinality(A) = m /\ IsFiniteSet(D) /\ Cardinality(D) = n
    <2>1. IsFiniteSet(D) /\ Cardinality(D) = n
      BY <1>1, FS_Interval DEF D
    <2>2. IsFiniteSet(A) /\ Cardinality(A) = m
      BY <1>4, FS_Interval
    <2> QED BY <2>1, <2>2
  <1> HIDE DEF A
  <1>9. f \in Bijection(A, D)
    BY <1>5, <1>6, <1>7, Fun_IsBij
  <1>10. ExistsBijection(A, D)
    BY <1>9 DEF ExistsBijection
  <1>11. m = n
    BY <1>8, <1>10, FS_Bijection
  <1>12. A = D
    BY <1>11 DEF A, D
  <1>13. Permutes(f, n)
    BY <1>5, <1>6, <1>7, <1>12 DEF Permutes, D
  <1>14. f = [i \in 1..n |-> RowAt(p, w[i])]
    BY <1>12 DEF f, D
  <1>15. \A i \in 1..n : w[i] \in Places(p) /\ flat[i] = RowAt(t, w[i])
    BY <1>3, <1>12 DEF D
  <1> QED BY <1>3, <1>11, <1>13, <1>14, <1>15 DEF m

\* The rows of parts that share them out, one part after the other.
LEMMA FlattenPermutes ==
    ASSUME NEW p, NEW k \in Nat \ {0}, NEW n, SharesOut(p, k, n)
    PROVE  /\ FlattenSeq(p) \in Seq(1..n) /\ Len(FlattenSeq(p)) = n
           /\ Permutes(FlattenSeq(p), n)
  <1> DEFINE flat == FlattenSeq(p)
             D == 1..n
  <1>1. IsParts(p, k, D)
    BY DEF SharesOut
  <1>2. PICK w : Lists(flat, p, D, w)
    BY <1>1, FlattenLists
  <1> DEFINE f == [i \in 1..n |-> RowAt(p, w[i])]
  <1> HIDE DEF flat, D
  <1>3. /\ flat \in Seq(D) /\ Len(flat) = n /\ Permutes(f, n)
        /\ \A i \in 1..n : flat[i] = RowAt(p, w[i])
    BY <1>2, ListsPermute
  <1>4. flat = f
    <2>1. flat = [i \in 1..n |-> flat[i]]
      BY <1>3
    <2> QED BY <1>3, <2>1
  <1> HIDE DEF f
  <1> QED BY <1>3, <1>4 DEF flat, D

Identity(n) == [i \in 1..n |-> i]

\* Pieces of a fixed size share out the rows, in their order.
LEMMA SplitSharesOut ==
    ASSUME NEW n \in Nat \ {0}, NEW size \in Nat \ {0}
    PROVE  /\ SharesOut(Split(Identity(n), size), NumPieces(n, size), n)
           /\ NumPieces(n, size) \in Nat \ {0}
           /\ FlattenSeq(Split(Identity(n), size)) = Identity(n)
  <1> DEFINE id == Identity(n)
             D == 1..n
             p == Split(id, size)
             k == NumPieces(n, size)
  <1>1. id \in Seq(D) /\ Len(id) = n /\ \A i \in 1..n : id[i] = i
    BY DEF Identity
  <1> HIDE DEF id, D
  <1>2. Pieces(p, id, size, n, k, D) /\ FlattenSeq(p) = id
    BY <1>1, SplitProperties, FlattenSplit
  <1> HIDE DEF p, k
  <1>3. k \in Nat \ {0} /\ IsParts(p, k, D)
    BY <1>2 DEF Pieces, IsParts
  <1>4. PICK w : Lists(FlattenSeq(p), p, D, w)
    BY <1>3, FlattenLists
  <1>5. /\ \A i \in 1..n : w[i] \in Places(p) /\ i = RowAt(p, w[i])
        /\ \A x \in Places(p) : \E i \in 1..n : w[i] = x
    BY <1>1, <1>2, <1>4 DEF Lists
  <1>6. Once(p)
    <2>1. \A x, y \in Places(p) : RowAt(p, x) = RowAt(p, y) => x = y
      BY <1>5
    <2> QED BY <2>1, Zenon DEF Once
  <1>7. Held(p) = D
    <2>1. \A r : r \in Held(p) => r \in D
      <3>1. \A x \in Places(p) : RowAt(p, x) \in D
        BY <1>3, FromPlace
      <3> QED BY <3>1 DEF Held
    <2>2. \A r : r \in D => r \in Held(p)
      BY <1>5 DEF Held, D
    <2> QED BY <2>1, <2>2
  <1>8. SharesOut(p, k, n)
    BY <1>3, <1>6, <1>7 DEF SharesOut, D
  <1> QED BY <1>2, <1>3, <1>8 DEF p, k, id

\* What the assertions of get_seqlen_balanced_partitions ask for.
LEMMA SharesAreSound ==
    ASSUME NEW sizes, Lengths(sizes), NEW k \in Nat \ {0}, NEW equalSize \in BOOLEAN, NEW p,
           SharesOut(p, k, Len(sizes)), \A c \in 1..k : p[c] # <<>>,
           equalSize => \A c \in 1..k : Len(p[c]) * k = Len(sizes)
    PROVE  Sound(sizes, k, equalSize, p)
  <1> DEFINE D == 1..Len(sizes)
             U == UNION {ToSet(p[c]) : c \in 1..k}
  <1>1. IsParts(p, k, D) /\ Held(p) = D /\ DOMAIN sizes = D
    BY DEF SharesOut, Lengths
  <1> HIDE DEF D
  <1>2. ASSUME NEW r \in D PROVE r \in U
    <2>1. PICK x \in Places(p) : r = RowAt(p, x)
      BY <1>1 DEF Held
    <2> DEFINE c == x[1]
               i == x[2]
    <2>2. c \in 1..k /\ i \in 1..Len(p[c]) /\ r = p[c][i]
      BY <1>1, <2>1, FromPlace
    <2>3. p[c] \in Seq(D)
      BY <1>1, <2>2, PartTypes
    <2> HIDE DEF c, i
    <2>4. r \in ToSet(p[c])
      BY <2>2, <2>3 DEF ToSet
    <2> QED BY <2>2, <2>4
  <1>3. ASSUME NEW r \in U PROVE r \in D
    <2>1. PICK c \in 1..k : r \in ToSet(p[c])
      OBVIOUS
    <2>2. p[c] \in Seq(D)
      BY <1>1, PartTypes
    <2>3. PICK i \in DOMAIN p[c] : r = p[c][i]
      BY <2>1 DEF ToSet
    <2> QED BY <2>2, <2>3
  <1> HIDE DEF U
  <1>4. U = D
    BY <1>2, <1>3
  <1> QED BY <1>1, <1>4 DEF Sound, U

\* Every partition that may be asked for is sound.
THEOREM PartitionsAreSound ==
    ASSUME NEW sizes \in Seq(Nat \ {0}), NEW k \in Nat \ {0}, NEW equalSize \in BOOLEAN,
           MayPartition(sizes, k, equalSize)
    PROVE  Sound(sizes, k, equalSize, Partitions(sizes, k, equalSize))
  <1> DEFINE p == Partitions(sizes, k, equalSize)
  <1>1. Lengths(sizes)
    BY DEF Lengths
  <1>2. /\ SharesOut(p, k, Len(sizes)) /\ \A c \in 1..k : p[c] # <<>>
        /\ equalSize => \A c \in 1..k : Len(p[c]) * k = Len(sizes)
    BY <1>1, PartitionsShareOut
  <1> HIDE DEF p
  <1>3. Sound(sizes, k, equalSize, p)
    BY <1>1, <1>2, SharesAreSound
  <1> QED BY <1>3 DEF p

\* The key of a part is a triple of numbers.
LEMMA WorkType ==
    ASSUME NEW sizes, Lengths(sizes), NEW part \in Seq(1..Len(sizes)), part # <<>>
    PROVE  Opposite(<<Work(sizes, part), First(part), 0>>) \in Triples
  <1> DEFINE squares == [i \in DOMAIN part |-> sizes[part[i]] * sizes[part[i]]]
             m == Len(part)
             D == 1..Len(sizes)
  <1>1. m \in Nat /\ m > 0 /\ DOMAIN part = 1..m /\ \A i \in 1..m : part[i] \in D
    OBVIOUS
  <1>2. Len(sizes) \in Nat /\ \A r \in D : sizes[r] \in Nat
    BY DEF Lengths
  <1>3. \A r \in D : r \in Nat
    BY <1>2
  <1> HIDE DEF m, D
  <1>4. \A i \in 1..m : squares[i] \in Nat
    <2> SUFFICES ASSUME NEW i \in 1..m PROVE sizes[part[i]] * sizes[part[i]] \in Nat
      BY <1>1
    <2>1. sizes[part[i]] \in Nat
      BY <1>1, <1>2
    <2> QED BY <2>1
  <1>5. squares \in Seq(Nat)
    <2>1. squares = [i \in 1..m |-> squares[i]]
      BY <1>1
    <2> HIDE DEF squares
    <2>2. squares \in [1..m -> Nat]
      BY <1>4, <2>1
    <2> QED BY <1>1, <2>2
  <1>6. Work(sizes, part) \in Nat
    <2>1. Summed(squares) \in Nat
      <3> HIDE DEF squares
      <3> QED BY <1>5, SummedIsNat
    <2> QED BY <2>1 DEF Work
  <1>7. First(part) \in Nat
    <2>1. First(part) = part[1] /\ 1 \in 1..m
      BY <1>1 DEF First
    <2> QED BY <1>1, <1>3, <2>1
  <1> DEFINE a == Work(sizes, part)
             b == First(part)
  <1>8. a \in Nat /\ b \in Nat
    BY <1>6, <1>7
  <1> HIDE DEF a, b
  <1>9. Opposite(<<a, b, 0>>) \in Triples
    BY <1>8 DEF Opposite, Triples
  <1> QED BY <1>9 DEF a, b

\* The micro-batches of a share have its rows, and none of them is empty.
LEMMA MicroBatchesShareOut ==
    ASSUME NEW sizes, Lengths(sizes), NEW k \in Nat \ {0}, k <= Len(sizes)
    PROVE  /\ SharesOut(MicroBatches(sizes, k), k, Len(sizes))
           /\ \A c \in 1..k : MicroBatches(sizes, k)[c] # <<>>
           /\ Len(MicroBatches(sizes, k)) = k
  <1> DEFINE n == Len(sizes)
             D == 1..n
             p == Partitions(sizes, k, FALSE)
             q == MicroBatches(sizes, k)
             keys == [c \in 1..k |-> Opposite(<<Work(sizes, p[c]), First(p[c]), 0>>)]
             perm == SortOrder(Keyed(keys, k))
  <1>1. SharesOut(p, k, n) /\ \A c \in 1..k : p[c] # <<>>
    <2>1. MayPartition(sizes, k, FALSE) /\ FALSE \in BOOLEAN
      BY DEF MayPartition, Lengths
    <2> QED BY <2>1, PartitionsShareOut
  <1>2. IsParts(p, k, D) /\ Once(p) /\ Held(p) = D /\ n \in Nat
    BY <1>1 DEF SharesOut
  <1>3. DOMAIN p = 1..k /\ \A c \in 1..k : p[c] \in Seq(D)
    BY <1>2, PartTypes
  <1>4. q = [c \in 1..k |-> p[perm[c]]]
    <2>1. {[key |-> Opposite(<<Work(sizes, p[c]), First(p[c]), 0>>), place |-> c] : c \in DOMAIN p}
          = Keyed(keys, k)
      <3> HIDE DEF p
      <3> QED BY <1>3 DEF Keyed
    <2>2. q = Sorted(p, {[key |-> Opposite(<<Work(sizes, p[c]), First(p[c]), 0>>), place |-> c] :
                             c \in DOMAIN p})
      BY DEF MicroBatches
    <2>3. q = Sorted(p, Keyed(keys, k))
      BY <2>1, <2>2
    <2> HIDE DEF p, keys, q
    <2> QED BY <1>3, <2>3 DEF Sorted
  <1>5. keys \in [1..k -> Triples]
    <2> SUFFICES ASSUME NEW c \in 1..k
                 PROVE  Opposite(<<Work(sizes, p[c]), First(p[c]), 0>>) \in Triples
      OBVIOUS
    <2> DEFINE part == p[c]
    <2>1. part \in Seq(1..Len(sizes)) /\ part # <<>>
      BY <1>1, <1>3
    <2> HIDE DEF part
    <2>2. Opposite(<<Work(sizes, part), First(part), 0>>) \in Triples
      BY <2>1, WorkType
    <2> QED BY <2>2 DEF part
  <1> HIDE DEF keys, p, q, n
  <1>6. Permutes(perm, k)
    BY <1>5, SortOrderPermutes
  <1> HIDE DEF perm
  <1>7. \A c \in 1..k : perm[c] \in 1..k /\ q[c] = p[perm[c]]
    BY <1>4, <1>6 DEF Permutes
  <1>8. IsParts(q, k, D)
    BY <1>3, <1>4, <1>7 DEF IsParts
  <1>9. Held(q) = Held(p) /\ (Once(p) => Once(q))
    BY <1>2, <1>6, <1>7, <1>8, PermutedParts
  <1>10. SharesOut(q, k, n)
    BY <1>2, <1>8, <1>9 DEF SharesOut
  <1>11. Len(q) = k /\ \A c \in 1..k : q[c] # <<>>
    BY <1>1, <1>4, <1>7
  <1> QED BY <1>10, <1>11 DEF q, n

-----------------------------------------------------------------------------
(* Numbers of micro-batches, and their outputs put back in order.          *)

\* A set of numbers that is not empty has a greatest one.
LEMMA MaxIsThere ==
    ASSUME NEW n \in Nat, NEW T \in SUBSET (1..n), T # {}
    PROVE  Max(T) \in T /\ \A x \in T : Max(T) >= x
  <1> DEFINE B == {n - x : x \in T}
  <1>1. B \in SUBSET Nat /\ B # {}
    <2>1. \A x \in T : x \in 1..n
      OBVIOUS
    <2>2. \A x \in T : n - x \in Nat
      BY <2>1
    <2> QED BY <2>2
  <1>2. PICK b \in B : \A e \in B : b <= e
    <2> HIDE DEF B
    <2> QED BY <1>1, Least
  <1>3. PICK y \in T : b = n - y
    OBVIOUS
  <1>4. \A x \in T : y >= x
    <2> SUFFICES ASSUME NEW x \in T PROVE y >= x
      OBVIOUS
    <2>1. n - y <= n - x
      BY <1>2, <1>3
    <2> QED BY <2>1
  <1>5. \E m \in T : \A x \in T : m >= x
    BY <1>4
  <1> QED BY <1>5 DEF Max

\* A rank wants at least one micro-batch and at most as many as it has rows.
LEMMA WantedType ==
    ASSUME NEW sizes, Lengths(sizes), Len(sizes) > 0, NEW maxTokenLen \in Nat \ {0}
    PROVE  WantedMicroBatches(sizes, maxTokenLen) \in 1..Len(sizes)
  <1> DEFINE n == Len(sizes)
             a == Summed(sizes)
             q == CeilDiv(a, maxTokenLen)
  <1>1. n \in Nat /\ n > 0 /\ sizes \in Seq(Nat) /\ sizes[n] \in Nat \ {0}
    BY DEF Lengths
  <1>2. a \in Nat /\ a >= sizes[n]
    BY <1>1, SummedIsNat
  <1> HIDE DEF a, n
  <1>3. a + maxTokenLen - 1 >= maxTokenLen /\ a + maxTokenLen - 1 \in Nat
    BY <1>1, <1>2
  <1> DEFINE b == a + maxTokenLen - 1
             d == b \div maxTokenLen
             m == b % maxTokenLen
  <1>4. b \in Nat /\ b >= maxTokenLen
    BY <1>3
  <1> HIDE DEF b
  <1>5. d \in Nat /\ m \in 0..maxTokenLen - 1 /\ b = d * maxTokenLen + m
    BY <1>4, DivMod
  <1>6. q = d
    BY DEF CeilDiv, b
  <1> HIDE DEF d, m, q
  <1>7. d # 0
    <2> SUFFICES ASSUME d = 0 PROVE FALSE
      OBVIOUS
    <2>1. d * maxTokenLen = 0
      OBVIOUS
    <2> QED BY <1>4, <1>5, <2>1
  <1>8. WantedMicroBatches(sizes, maxTokenLen) = IF q < n THEN q ELSE n
    BY DEF WantedMicroBatches, q, a, n
  <1>9. (IF q < n THEN q ELSE n) \in 1..n
    BY <1>1, <1>5, <1>6, <1>7
  <1> QED BY <1>8, <1>9 DEF n

\* restore_dynamic_batch puts the outputs back.
LEMMA Restored ==
    ASSUME NEW n \in Nat, NEW parts, FlattenSeq(parts) \in Seq(1..n), Len(FlattenSeq(parts)) = n,
           Permutes(FlattenSeq(parts), n), NEW value, NEW data, DOMAIN data = 1..n,
           \A i \in 1..n : data[i] = value[FlattenSeq(parts)[i]]
    PROVE  /\ DOMAIN Restore(data, parts) = 1..n
           /\ \A j \in 1..n : Restore(data, parts)[j] = value[j]
  <1> DEFINE perm == FlattenSeq(parts)
             back == ReverseIdx(perm)
  <1> HIDE DEF perm
  <1>1. /\ DOMAIN perm = 1..n /\ \A j \in 1..n : \E i \in 1..n : perm[i] = j
        /\ \A i \in 1..n : data[i] = value[perm[i]]
    BY DEF perm, Permutes
  <1>2. back = [j \in 1..n |-> CHOOSE i \in 1..n : perm[i] = j]
    BY <1>1 DEF ReverseIdx
  <1>3. ASSUME NEW j \in 1..n PROVE back[j] \in 1..n /\ perm[back[j]] = j
    <2>1. back[j] = CHOOSE i \in 1..n : perm[i] = j
      BY <1>2
    <2> HIDE DEF back
    <2> QED BY <1>1, <2>1
  <1>4. Restore(data, parts) = [j \in 1..n |-> data[back[j]]]
    BY DEF Restore, perm
  <1> HIDE DEF back
  <1>5. ASSUME NEW j \in 1..n PROVE Restore(data, parts)[j] = value[j]
    <2>1. Restore(data, parts)[j] = data[back[j]]
      BY <1>4
    <2>2. data[back[j]] = value[perm[back[j]]]
      BY <1>1, <1>3
    <2> QED BY <1>3, <2>1, <2>2
  <1>6. DOMAIN Restore(data, parts) = 1..n
    BY <1>4
  <1> QED BY <1>5, <1>6

\* t has an entry for each of the n rows of a share.
Visits(t, share, n, E) ==
    /\ t \in Seq(E) /\ Len(t) = n
    /\ \E perm : Permutes(perm, n) /\ \A i \in 1..n : t[i].row = share[perm[i]]

Picked(share, part) == [i \in DOMAIN part |-> share[part[i]]]

\* Visits of the parts of a share are together a visit of the share.
LEMMA FlattenVisits ==
    ASSUME NEW p, NEW k \in Nat \ {0}, NEW n, SharesOut(p, k, n), NEW share, NEW E,
           NEW t, IsParts(t, k, E),
           \A c \in 1..k : Visits(t[c], Picked(share, p[c]), Len(p[c]), E)
    PROVE  Visits(FlattenSeq(t), share, n, E)
  <1> DEFINE D == 1..n
             Fits(perm, c) == /\ Permutes(perm, Len(p[c]))
                               /\ \A i \in 1..Len(p[c]) : t[c][i].row = Picked(share, p[c])[perm[i]]
             ord == [c \in 1..k |-> CHOOSE perm : Fits(perm, c)]
             q == [c \in 1..k |-> [i \in 1..Len(p[c]) |-> p[c][ord[c][i]]]]
             flat == FlattenSeq(t)
  <1>1. IsParts(p, k, D) /\ Once(p) /\ Held(p) = D /\ n \in Nat
    BY DEF SharesOut
  <1> HIDE DEF D
  <1>2. \A c \in 1..k : p[c] \in Seq(D) /\ Len(p[c]) \in Nat /\ Len(t[c]) = Len(p[c])
    BY <1>1, PartTypes DEF Visits
  <1>3. ASSUME NEW c \in 1..k
        PROVE  /\ Permutes(ord[c], Len(p[c]))
               /\ \A i \in 1..Len(p[c]) : t[c][i].row = Picked(share, p[c])[ord[c][i]]
    <2>1. \E perm : Fits(perm, c)
      BY DEF Visits
    <2>2. ord[c] = CHOOSE perm : Fits(perm, c)
      OBVIOUS
    <2>3. Fits(ord[c], c)
      <3> HIDE DEF Fits, ord
      <3> QED BY <2>1, <2>2
    <2> HIDE DEF ord
    <2> QED BY <2>3
  <1> HIDE DEF ord, Fits
  <1>4. ASSUME NEW c \in 1..k
        PROVE  /\ q[c] \in Seq(D) /\ Len(q[c]) = Len(p[c])
               /\ \A i \in 1..Len(p[c]) : /\ q[c][i] = p[c][ord[c][i]]
                                          /\ t[c][i].row = share[q[c][i]]
    <2> DEFINE m == Len(p[c])
               o == ord[c]
               a == p[c]
               b == q[c]
               tc == t[c]
    <2>1. m \in Nat /\ a \in Seq(D) /\ Len(a) = m /\ b = [i \in 1..m |-> a[o[i]]]
      BY <1>2
    <2>2. Permutes(o, m) /\ \A i \in 1..m : tc[i].row = Picked(share, a)[o[i]]
      BY <1>3
    <2> HIDE DEF m, o, a, b, tc
    <2>3. \A i \in 1..m : o[i] \in 1..m
      BY <2>2 DEF Permutes
    <2>4. b \in Seq(D) /\ Len(b) = m /\ \A i \in 1..m : b[i] = a[o[i]]
      BY <2>1, <2>3
    <2>5. \A i \in 1..m : tc[i].row = share[b[i]]
      <3>1. \A i \in 1..m : Picked(share, a)[o[i]] = share[a[o[i]]]
        BY <2>1, <2>3 DEF Picked
      <3> QED BY <2>2, <2>4, <3>1
    <2> QED BY <2>4, <2>5 DEF m, o, a, b, tc
  <1>5. IsParts(q, k, D)
    BY <1>4 DEF IsParts
  <1> HIDE DEF q
  <1>6. \A c \in 1..k : /\ Len(q[c]) = Len(p[c]) /\ Permutes(ord[c], Len(p[c]))
                        /\ \A i \in 1..Len(p[c]) : q[c][i] = p[c][ord[c][i]]
    BY <1>3, <1>4
  <1>7. Held(q) = Held(p) /\ (Once(p) => Once(q))
    BY <1>1, <1>5, <1>6, PermutedRows
  <1>8. SharesOut(q, k, n)
    BY <1>1, <1>5, <1>7 DEF SharesOut, D
  <1>9. Places(t) = Places(q)
    <2>1. ASSUME NEW x \in Places(t) PROVE x \in Places(q)
      <3>1. x[1] \in 1..k /\ x[2] \in 1..Len(t[x[1]]) /\ x = <<x[1], x[2]>>
        BY FromPlace
      <3>2. x[2] \in 1..Len(q[x[1]])
        BY <1>2, <1>4, <3>1
      <3>3. <<x[1], x[2]>> \in Places(q)
        BY <1>5, <3>1, <3>2, ToPlace
      <3> QED BY <3>1, <3>3
    <2>2. ASSUME NEW x \in Places(q) PROVE x \in Places(t)
      <3>1. x[1] \in 1..k /\ x[2] \in 1..Len(q[x[1]]) /\ x = <<x[1], x[2]>>
        BY <1>5, FromPlace
      <3>2. x[2] \in 1..Len(t[x[1]])
        BY <1>2, <1>4, <3>1
      <3>3. <<x[1], x[2]>> \in Places(t)
        BY <3>1, <3>2, ToPlace
      <3> QED BY <3>1, <3>3
    <2> QED BY <2>1, <2>2
  <1>10. PICK w : Lists(flat, t, E, w)
    BY FlattenLists
  <1> DEFINE f == [i \in 1..n |-> RowAt(q, w[i])]
  <1> HIDE DEF flat
  <1>11. /\ flat \in Seq(E) /\ Len(flat) = n /\ Permutes(f, n)
         /\ \A i \in 1..n : w[i] \in Places(q) /\ flat[i] = RowAt(t, w[i])
    BY <1>8, <1>9, <1>10, ListsPermute
  <1>12. ASSUME NEW i \in 1..n PROVE flat[i].row = share[f[i]]
    <2> DEFINE x == w[i]
    <2>1. x \in Places(q) /\ flat[i] = RowAt(t, x) /\ f[i] = RowAt(q, x)
      BY <1>11
    <2> HIDE DEF x, f
    <2>2. x[1] \in 1..k /\ x[2] \in 1..Len(q[x[1]]) /\ RowAt(q, x) = q[x[1]][x[2]]
      BY <1>5, <2>1, FromPlace
    <2>3. RowAt(t, x) = t[x[1]][x[2]]
      BY DEF RowAt
    <2>4. t[x[1]][x[2]].row = share[q[x[1]][x[2]]]
      BY <1>4, <2>2
    <2> QED BY <2>1, <2>2, <2>3, <2>4
  <1> HIDE DEF f
  <1> QED BY <1>11, <1>12 DEF Visits, flat

-----------------------------------------------------------------------------
(* Chunks and their concatenation.  These lemmas about DataProto are the   *)
(* ones of RewardPipelineProofs.                                           *)

\* A batch whose length is a multiple of n has n chunks of one length.
LEMMA ChunkProperties ==
    ASSUME NEW S, NEW items \in Seq(S), NEW n \in Nat \ {0},
           Divides(n, Len(items))
    PROVE  LET each == Len(items) \div n
               chunks == Chunk(items, n)
           IN  /\ each \in Nat /\ Len(items) = n * each
               /\ chunks \in Seq(Seq(S)) /\ Len(chunks) = n
               /\ \A c \in 1..n : /\ Len(chunks[c]) = each
                                  /\ \A j \in 1..each :
                                        chunks[c][j] = items[(c - 1) * each + j]
  <1> DEFINE each == Len(items) \div n
             chunks == Chunk(items, n)
  <1>1. Len(items) \in Nat
    OBVIOUS
  <1>2. each \in Nat /\ Len(items) = each * n + (Len(items) % n)
    BY <1>1, DivMod
  <1>3. Len(items) = n * each
    BY <1>1, <1>2 DEF Divides
  <1>4. chunks = [c \in 1..n |-> SubSeq(items, (c - 1) * each + 1, c * each)]
    BY DEF Chunk
  <1> HIDE DEF each, chunks
  <1>5. ASSUME NEW c \in 1..n
        PROVE  /\ chunks[c] \in Seq(S) /\ Len(chunks[c]) = each
               /\ \A j \in 1..each : chunks[c][j] = items[(c - 1) * each + j]
    <2> DEFINE b == (c - 1) * each
    <2>1. b \in Nat /\ c * each = b + each
      BY <1>2
    <2>2. b + each <= Len(items)
      <3>1. c * each <= n * each
        BY <1>2
      <3> QED BY <1>3, <2>1, <3>1
    <2>3. chunks[c] = SubSeq(items, b + 1, b + each)
      BY <1>4, <2>1
    <2> HIDE DEF b
    <2>4. \A j \in b + 1..b + each : items[j] \in S
      BY <1>1, <1>2, <2>1, <2>2
    <2> DEFINE first == b + 1
               last == b + each
    <2>5. /\ chunks[c] \in Seq(S)
          /\ Len(chunks[c]) = IF first <= last THEN last - first + 1 ELSE 0
          /\ \A j \in 1..last - first + 1 : chunks[c][j] = items[first + j - 1]
      <3>1. first \in Int /\ last \in Int /\ chunks[c] = SubSeq(items, first, last)
        BY <1>2, <2>1, <2>3
      <3>2. \A j \in first..last : items[j] \in S
        BY <2>4
      <3> HIDE DEF first, last
      <3> QED BY <3>1, <3>2, SubSeqProperties
    <2>6. (b + each) - (b + 1) + 1 = each /\ Len(chunks[c]) = each
      BY <1>2, <2>1, <2>5
    <2>7. \A j \in 1..each : (b + 1) + j - 1 = b + j
      BY <1>2, <2>1
    <2>8. \A j \in 1..each : chunks[c][j] = items[b + j]
      BY <2>5, <2>6, <2>7
    <2> QED BY <2>5, <2>6, <2>8 DEF b
  <1>6. chunks \in Seq(Seq(S)) /\ Len(chunks) = n
    BY <1>4, <1>5
  <1> QED BY <1>2, <1>3, <1>5, <1>6 DEF each, chunks

\* concat undoes chunk.
LEMMA ConcatOfChunks ==
    ASSUME NEW S, NEW items \in Seq(S), NEW n \in Nat \ {0},
           Divides(n, Len(items))
    PROVE  \A i \in 1..Len(items) : Concat(Chunk(items, n))[i] = items[i]
  <1> DEFINE each == Len(items) \div n
             chunks == Chunk(items, n)
  <1>1. /\ each \in Nat /\ Len(items) = n * each
        /\ chunks \in Seq(Seq(S)) /\ Len(chunks) = n
        /\ \A c \in 1..n : /\ Len(chunks[c]) = each
                           /\ \A j \in 1..each :
                                 chunks[c][j] = items[(c - 1) * each + j]
    BY ChunkProperties
  <1>2. Concat(chunks) = [i \in 1..Len(chunks) * Len(chunks[1]) |->
            chunks[((i - 1) \div Len(chunks[1])) + 1][((i - 1) % Len(chunks[1])) + 1]]
    BY DEF Concat
  <1> HIDE DEF each, chunks
  <1>3. Len(chunks[1]) = each
    <2>1. 1 \in 1..n
      OBVIOUS
    <2> QED BY <1>1, <2>1
  <1>4. ASSUME NEW i \in 1..Len(items)
        PROVE  Concat(chunks)[i] = items[i]
    <2> DEFINE q == (i - 1) \div each
               m == (i - 1) % each
    <2>1. q \in 0..n - 1 /\ m \in 0..each - 1 /\ i = q * each + m + 1
      <3>1. i \in 1..n * each
        BY <1>1
      <3> QED BY <1>1, <3>1, PlaceInChunk
    <2>2. Concat(chunks)[i] = chunks[q + 1][m + 1]
      BY <1>1, <1>2, <1>3
    <2> HIDE DEF q, m
    <2>3. q + 1 \in 1..n /\ m + 1 \in 1..each /\ (q + 1) - 1 = q
      BY <1>1, <2>1
    <2>4. chunks[q + 1][m + 1] = items[q * each + (m + 1)]
      BY <1>1, <2>3
    <2>5. q * each + (m + 1) = i
      <3>1. q * each \in Nat
        BY <1>1, <2>1
      <3> QED BY <2>1, <3>1, <1>1
    <2> QED BY <2>2, <2>4, <2>5
  <1> QED BY <1>4 DEF chunks

-----------------------------------------------------------------------------
(* What a call of a group of ranks returns.                                *)

\* The mesh of a worker group: the ranks that share a data-parallel rank work
\* on the same rows, one of them reports, and in the order of the ranks the
\* reporting ones have data-parallel ranks 0, 1, 2, ...
InOrder(dpRank, dpSize, reports, world) ==
    /\ world \in Nat /\ dpSize \in Nat \ {0} /\ dpRank \in [1..world -> 0..dpSize - 1]
    /\ \A d \in 0..dpSize - 1 : \E k \in 1..world : reports[k] /\ dpRank[k] = d
    /\ \A j, k \in 1..world : reports[j] /\ reports[k] /\ j < k => dpRank[j] < dpRank[k]

\* The ranks that report, and those of them up to rank k.
Reporting(reports, world) == {rank \in 1..world : reports[rank]}
UpTo(reports, world, k) == {r \in Reporting(reports, world) : r <= k}

\* There are as many reporting ranks up to rank k as data-parallel ranks up to
\* the one of k.
LEMMA PlaceOfRank ==
    ASSUME NEW world, NEW dpSize, NEW dpRank, NEW reports,
           InOrder(dpRank, dpSize, reports, world)
    PROVE  \A k \in Reporting(reports, world) :
              Cardinality(UpTo(reports, world, k)) = dpRank[k] + 1
  <1> SUFFICES ASSUME NEW k \in Reporting(reports, world)
               PROVE  Cardinality(UpTo(reports, world, k)) = dpRank[k] + 1
    OBVIOUS
  <1> DEFINE P == UpTo(reports, world, k)
             T == 0..dpRank[k]
             f == [r \in P |-> dpRank[r]]
  <1>0. world \in Nat /\ dpSize \in Nat \ {0} /\ dpRank \in [1..world -> 0..dpSize - 1]
    BY DEF InOrder
  <1>1. k \in 1..world /\ reports[k] /\ k \in Nat /\ dpRank[k] \in 0..dpSize - 1
    BY <1>0 DEF Reporting
  <1>2. \A r \in P : r \in 1..world /\ reports[r] /\ r <= k /\ r \in Nat /\ dpRank[r] \in 0..dpSize - 1
    BY <1>0 DEF UpTo, Reporting
  <1>3. f \in [P -> T]
    <2> SUFFICES ASSUME NEW r \in P PROVE dpRank[r] \in T
      OBVIOUS
    <2>1. r = k \/ r < k
      BY <1>1, <1>2
    <2>2. r < k => dpRank[r] < dpRank[k]
      BY <1>1, <1>2 DEF InOrder
    <2> QED BY <1>1, <1>2, <2>1, <2>2
  <1>4. \A a, b \in P : f[a] = f[b] => a = b
    <2> SUFFICES ASSUME NEW a \in P, NEW b \in P, dpRank[a] = dpRank[b]
                 PROVE  a = b
      OBVIOUS
    <2>1. (a < b => dpRank[a] < dpRank[b]) /\ (b < a => dpRank[b] < dpRank[a])
      BY <1>2 DEF InOrder
    <2> QED BY <1>2, <2>1
  <1>5. \A d \in T : \E r \in P : f[r] = d
    <2> SUFFICES ASSUME NEW d \in T PROVE \E r \in P : dpRank[r] = d
      OBVIOUS
    <2>1. d \in 0..dpSize - 1 /\ d <= dpRank[k]
      BY <1>0, <1>1
    <2>2. PICK r \in 1..world : reports[r] /\ dpRank[r] = d
      BY <2>1 DEF InOrder
    <2>3. ~(k < r)
      BY <1>1, <2>1, <2>2 DEF InOrder
    <2>4. r \in P
      BY <1>1, <2>2, <2>3 DEF UpTo, Reporting
    <2> QED BY <2>2, <2>4
  <1>6. f \in Bijection(P, T)
    BY <1>3, <1>4, <1>5, Zenon DEF Bijection, Injection, Surjection, IsInjective
  <1>7. ExistsBijection(P, T)
    BY <1>6 DEF ExistsBijection
  <1>8. IsFiniteSet(P)
    <2>1. IsFiniteSet(1..world) /\ P \in SUBSET (1..world)
      BY <1>0, <1>2, FS_Interval
    <2> QED BY <2>1, FS_Subset
  <1>9. Cardinality(T) = Cardinality(P)
    BY <1>7, <1>8, FS_Bijection
  <1>10. Cardinality(T) = dpRank[k] + 1
    <2> DEFINE d == dpRank[k]
    <2>1. d \in Int /\ ~(0 > d) /\ d - 0 + 1 = d + 1
      BY <1>1
    <2> HIDE DEF d
    <2>2. Cardinality(0..d) = d + 1
      BY <2>1, FS_Interval
    <2> QED BY <2>2 DEF d
  <1> QED BY <1>9, <1>10

\* As many ranks report as there are data-parallel ranks.
LEMMA ReportingRanks ==
    ASSUME NEW world, NEW dpSize, NEW dpRank, NEW reports,
           InOrder(dpRank, dpSize, reports, world)
    PROVE  Cardinality(Reporting(reports, world)) = dpSize
  <1> DEFINE R == Reporting(reports, world)
  <1> HIDE DEF R
  <1>0. world \in Nat /\ dpSize \in Nat \ {0} /\ dpRank \in [1..world -> 0..dpSize - 1]
    BY DEF InOrder
  <1>1. dpSize - 1 \in 0..dpSize - 1
    BY <1>0
  <1>2. PICK k \in 1..world : reports[k] /\ dpRank[k] = dpSize - 1
    BY <1>1 DEF InOrder
  <1>3. Cardinality(UpTo(reports, world, k)) = dpRank[k] + 1
    <2>1. k \in Reporting(reports, world)
      BY <1>2 DEF Reporting
    <2> QED BY <2>1, PlaceOfRank
  <1>4. R = UpTo(reports, world, k)
    <2> SUFFICES ASSUME NEW r \in R PROVE r <= k
      BY DEF UpTo, R
    <2>1. r \in 1..world /\ reports[r] /\ dpRank[r] \in 0..dpSize - 1
      BY <1>0 DEF Reporting, R
    <2>2. k < r => dpRank[k] < dpRank[r]
      BY <1>2, <2>1 DEF InOrder
    <2>3. ~(dpRank[k] < dpRank[r])
      BY <1>0, <1>2, <2>1
    <2> QED BY <1>0, <2>1, <2>2, <2>3
  <1>5. dpRank[k] + 1 = dpSize
    BY <1>0, <1>2
  <1> QED BY <1>3, <1>4, <1>5 DEF R

\* The outputs of the reporting ranks are the shares in their order.
LEMMA CollectsShares ==
    ASSUME NEW world, NEW dpSize, NEW dpRank, NEW reports,
           InOrder(dpRank, dpSize, reports, world),
           NEW S, NEW shares \in Seq(S), Len(shares) = dpSize,
           NEW outputs, outputs = [k \in 1..world |-> shares[dpRank[k] + 1]]
    PROVE  Collect(reports, outputs) = Concat(shares)
  <1> DEFINE R == Reporting(reports, world)
             Place(rank) == UpTo(reports, world, rank)
             nth == [k \in 1..Cardinality(R) |->
                        CHOOSE rank \in R : Cardinality(Place(rank)) = k]
  <1>0. world \in Nat /\ dpSize \in Nat \ {0} /\ dpRank \in [1..world -> 0..dpSize - 1]
    BY DEF InOrder
  <1>1. DOMAIN outputs = 1..world
    OBVIOUS
  <1>2. Collect(reports, outputs) = Concat([k \in DOMAIN nth |-> outputs[nth[k]]])
    BY <1>1 DEF Collect, UpTo, Reporting
  <1>3. Cardinality(R) = dpSize
    BY ReportingRanks
  <1>4. \A rank \in R : Cardinality(Place(rank)) = dpRank[rank] + 1
    <2>1. R = Reporting(reports, world) /\ \A rank \in R : Place(rank) = UpTo(reports, world, rank)
      OBVIOUS
    <2> HIDE DEF R, Place
    <2> QED BY <2>1, PlaceOfRank
  <1>5. ASSUME NEW k \in 1..dpSize
        PROVE  outputs[nth[k]] = shares[k]
    <2>1. k \in Int /\ k - 1 \in 0..dpSize - 1
      BY <1>0
    <2>2. PICK rank \in 1..world : reports[rank] /\ dpRank[rank] = k - 1
      BY <2>1 DEF InOrder
    <2>3. rank \in R /\ Cardinality(Place(rank)) = k
      <3>1. rank \in R
        BY <2>2 DEF Reporting
      <3>2. Cardinality(Place(rank)) = dpRank[rank] + 1
        BY <1>4, <3>1
      <3>3. dpRank[rank] + 1 = k
        BY <2>1, <2>2
      <3> QED BY <3>1, <3>2, <3>3
    <2>4. nth[k] = CHOOSE r \in R : Cardinality(Place(r)) = k
      BY <1>3
    <2> HIDE DEF nth, Place
    <2>5. nth[k] \in R /\ Cardinality(Place(nth[k])) = k
      BY <2>3, <2>4
    <2>6. nth[k] \in 1..world /\ dpRank[nth[k]] + 1 = k
      BY <1>4, <2>5 DEF Reporting
    <2> QED BY <2>6
  <1>6. DOMAIN nth = 1..dpSize
    BY <1>3
  <1>7. [k \in DOMAIN nth |-> outputs[nth[k]]] = shares
    <2>1. shares = [k \in 1..dpSize |-> shares[k]]
      OBVIOUS
    <2> HIDE DEF nth
    <2> QED BY <1>5, <1>6, <2>1
  <1> QED BY <1>2, <1>7

-----------------------------------------------------------------------------
(* Divisors, padding and repetition.                                       *)

\* A multiple is divided.
LEMMA MultipleDivides ==
    ASSUME NEW d \in Nat \ {0}, NEW n \in Nat, NEW k \in Nat, n = k * d
    PROVE  Divides(d, n)
  <1> DEFINE q == n \div d
             m == n % d
  <1>1. q \in Nat /\ m \in 0..d - 1 /\ n = q * d + m
    BY DivMod
  <1> HIDE DEF q, m
  <1>2. q * d \in Nat /\ k * d \in Nat
    BY <1>1
  <1>3. ~(k <= q - 1) /\ ~(q + 1 <= k)
    <2>1. ASSUME k <= q - 1 PROVE FALSE
      <3>1. k * d <= (q - 1) * d /\ (q - 1) * d = q * d - d
        BY <1>1, <2>1
      <3> QED BY <1>1, <1>2, <3>1
    <2>2. ASSUME q + 1 <= k PROVE FALSE
      <3>1. (q + 1) * d <= k * d /\ (q + 1) * d = q * d + d
        BY <1>1, <2>2
      <3> QED BY <1>1, <1>2, <3>1
    <2> QED BY <2>1, <2>2
  <1>4. k = q
    BY <1>1, <1>3
  <1>5. m = 0
    BY <1>1, <1>2, <1>4
  <1> QED BY <1>5 DEF m, Divides

\* What divides a divisor divides.
LEMMA DividesTransitive ==
    ASSUME NEW d \in Nat \ {0}, NEW w \in Nat \ {0}, NEW n \in Nat,
           Divides(d, w), Divides(w, n)
    PROVE  Divides(d, n)
  <1> DEFINE a == n \div w
             b == w \div d
  <1>1. a \in Nat /\ n = a * w
    <2>1. n \div w \in Nat /\ n = (n \div w) * w + (n % w)
      BY DivMod
    <2> QED BY <2>1 DEF Divides
  <1>2. b \in Nat /\ w = b * d
    <2>1. w \div d \in Nat /\ w = (w \div d) * d + (w % d)
      BY DivMod
    <2> QED BY <2>1 DEF Divides
  <1> HIDE DEF a, b
  <1>3. a * b \in Nat /\ n = (a * b) * d
    BY <1>1, <1>2
  <1> QED BY <1>3, MultipleDivides

\* A number that something divides is at least that, or 0.
LEMMA DivisorIsLess ==
    ASSUME NEW d \in Nat \ {0}, NEW n \in Nat \ {0}, Divides(d, n)
    PROVE  n >= d /\ n \div d \in Nat \ {0} /\ n = (n \div d) * d
  <1> DEFINE q == n \div d
  <1>1. q \in Nat /\ n = q * d
    <2>1. n \div d \in Nat /\ n = (n \div d) * d + (n % d)
      BY DivMod
    <2> QED BY <2>1 DEF Divides
  <1> HIDE DEF q
  <1>2. q # 0
    BY <1>1
  <1>3. q * d >= d
    BY <1>1, <1>2
  <1> QED BY <1>1, <1>2, <1>3 DEF q

\* A padded batch divides.
LEMMA PaddingDivides ==
    ASSUME NEW n \in Nat \ {0}, NEW divisor \in Nat \ {0}
    PROVE  /\ PadSize(n, divisor) \in Nat
           /\ Divides(divisor, n + PadSize(n, divisor))
  <1>1. CASE Divides(divisor, n)
    BY <1>1 DEF PadSize
  <1>2. CASE ~Divides(divisor, n)
    <2> DEFINE q == n \div divisor
               m == n % divisor
    <2>1. q \in Nat /\ m \in 0..divisor - 1 /\ n = q * divisor + m
      BY DivMod
    <2>2. PadSize(n, divisor) = divisor - m
      BY <1>2 DEF PadSize
    <2> HIDE DEF q, m
    <2>3. q * divisor \in Nat /\ (q + 1) * divisor = q * divisor + divisor
      BY <2>1
    <2>4. divisor - m \in Nat /\ n + (divisor - m) = (q + 1) * divisor /\ q + 1 \in Nat
      BY <2>1, <2>3
    <2>5. n + (divisor - m) \in Nat
      BY <2>4
    <2>6. Divides(divisor, n + (divisor - m))
      BY <2>4, <2>5, MultipleDivides
    <2> QED BY <2>2, <2>4, <2>6
  <1> QED BY <1>1, <1>2

\* The padding is behind the batch, and unpadding takes it off.
LEMMA PadProperties ==
    ASSUME NEW S, NEW items \in Seq(S), Len(items) # 0, NEW divisor \in Nat \ {0}
    PROVE  /\ PadToDivisor(items, divisor) \in Seq(S)
           /\ Len(PadToDivisor(items, divisor)) = Len(items) + PadSize(Len(items), divisor)
           /\ \A i \in 1..Len(items) : PadToDivisor(items, divisor)[i] = items[i]
  <1> DEFINE n == Len(items)
             m == n + PadSize(n, divisor)
             padded == PadToDivisor(items, divisor)
  <1>1. n \in Nat \ {0}
    OBVIOUS
  <1>2. padded = [i \in 1..m |-> items[((i - 1) % n) + 1]]
    BY DEF PadToDivisor
  <1>3. \A i \in 1..n : items[i] \in S
    OBVIOUS
  <1> HIDE DEF n, padded
  <1>4. m \in Nat /\ n <= m
    <2> DEFINE pad == PadSize(n, divisor)
    <2>1. pad \in Nat
      BY <1>1, PaddingDivides
    <2> HIDE DEF pad
    <2>2. n + pad \in Nat /\ n <= n + pad
      BY <1>1, <2>1
    <2> QED BY <2>2 DEF pad
  <1> HIDE DEF m
  <1>5. \A i \in 1..m : ((i - 1) % n) + 1 \in 1..n
    <2> SUFFICES ASSUME NEW i \in 1..m PROVE ((i - 1) % n) + 1 \in 1..n
      OBVIOUS
    <2>1. i - 1 \in Nat
      OBVIOUS
    <2>2. (i - 1) % n \in 0..n - 1
      BY <1>1, <2>1, DivMod
    <2> QED BY <1>1, <2>2
  <1>6. padded \in Seq(S) /\ Len(padded) = m
    BY <1>2, <1>3, <1>4, <1>5
  <1>7. \A i \in 1..n : padded[i] = items[i]
    <2> SUFFICES ASSUME NEW i \in 1..n PROVE padded[i] = items[i]
      OBVIOUS
    <2>1. i - 1 \in 0..n - 1
      BY <1>1
    <2>2. (i - 1) % n = i - 1
      BY <1>1, <2>1
    <2>3. i \in 1..m /\ (i - 1) + 1 = i
      BY <1>1, <1>4
    <2> QED BY <1>2, <2>2, <2>3
  <1> QED BY <1>6, <1>7 DEF n, m, padded

\* The rows of a batch, each as often as asked for.
LEMMA RepeatProperties ==
    ASSUME NEW S, NEW items \in Seq(S), NEW n \in Nat \ {0}
    PROVE  /\ Repeat(items, n) \in Seq(S) /\ Len(Repeat(items, n)) = Len(items) * n
           /\ \A i \in 1..Len(items) * n :
                 /\ ((i - 1) \div n) + 1 \in 1..Len(items)
                 /\ Repeat(items, n)[i] = items[((i - 1) \div n) + 1]
  <1> DEFINE l == Len(items)
             m == l * n
             repeated == Repeat(items, n)
  <1>1. l \in Nat /\ n * l = l * n
    OBVIOUS
  <1>2. repeated = [i \in 1..m |-> items[((i - 1) \div n) + 1]]
    BY <1>1 DEF Repeat
  <1>3. \A i \in 1..l : items[i] \in S
    OBVIOUS
  <1> HIDE DEF l, repeated
  <1>4. ASSUME NEW i \in 1..m PROVE ((i - 1) \div n) + 1 \in 1..l
    <2> DEFINE q == (i - 1) \div n
    <2>1. q \in 0..l - 1
      BY <1>1, PlaceInChunk
    <2> HIDE DEF q
    <2>2. q + 1 \in 1..l
      BY <1>1, <2>1
    <2> QED BY <2>2 DEF q
  <1>5. m \in Nat
    BY <1>1
  <1> HIDE DEF m
  <1>6. repeated \in Seq(S) /\ Len(repeated) = m
    BY <1>2, <1>3, <1>4, <1>5
  <1> QED BY <1>2, <1>4, <1>6 DEF l, m, repeated

\* concat undoes chunk: the two batches are equal.
LEMMA ConcatOfChunksIs ==
    ASSUME NEW S, NEW items \in Seq(S), NEW n \in Nat \ {0}, Divides(n, Len(items))
    PROVE  Concat(Chunk(items, n)) = items
  <1> DEFINE each == Len(items) \div n
             chunks == Chunk(items, n)
             l == Len(items)
  <1>1. /\ each \in Nat /\ l = n * each
        /\ Len(chunks) = n /\ Len(chunks[1]) = each
    <2>1. 1 \in 1..n
      OBVIOUS
    <2>2. /\ each \in Nat /\ l = n * each
          /\ chunks \in Seq(Seq(S)) /\ Len(chunks) = n
          /\ \A c \in 1..n : /\ Len(chunks[c]) = each
                             /\ \A j \in 1..each :
                                   chunks[c][j] = items[(c - 1) * each + j]
      BY ChunkProperties
    <2> HIDE DEF each, chunks
    <2> QED BY <2>1, <2>2
  <1>2. \A i \in 1..l : Concat(chunks)[i] = items[i]
    BY ConcatOfChunks
  <1> HIDE DEF each, chunks
  <1>3. Concat(chunks) = [i \in 1..l |-> Concat(chunks)[i]]
    BY <1>1 DEF Concat
  <1>4. items = [i \in 1..l |-> items[i]]
    OBVIOUS
  <1> HIDE DEF l
  <1>5. Concat(chunks) = items
    BY <1>2, <1>3, <1>4
  <1> QED BY <1>5 DEF chunks

-----------------------------------------------------------------------------
(* Micro-batches of shares of one length.                                  *)

\* A row of a whole batch: it has a rollout.
IsRow(r) == r.rollout \in Rollouts

\* Every rank has a share of n rows.
AreShares(shares, world, n, R) ==
    /\ world \in Nat \ {0} /\ n \in Nat \ {0} /\ DOMAIN shares = 1..world
    /\ \A r \in R : IsRow(r)
    /\ \A k \in 1..world : shares[k] \in Seq(R) /\ Len(shares[k]) = n

LensInv == /\ NumRows \in Nat \ {0} /\ lens \in [Rollouts -> Nat \ {0}]
           /\ {MaxTokenLen, MicroBatch, MiniBatch} \subseteq Nat \ {0}
           /\ \A k \in Rollouts : LossTokens[lens[k]] \in Nat \ {0}

\* The lengths of a share's rows are positive numbers.
LEMMA LensOfShare ==
    ASSUME LensInv, NEW R, \A r \in R : IsRow(r), NEW share \in Seq(R)
    PROVE  Lengths(LensOf(share)) /\ Len(LensOf(share)) = Len(share)
  <1>1. Len(share) \in Nat /\ DOMAIN share = 1..Len(share)
    OBVIOUS
  <1>2. \A i \in 1..Len(share) : lens[share[i].rollout] \in Nat \ {0}
    <2> SUFFICES ASSUME NEW i \in 1..Len(share) PROVE lens[share[i].rollout] \in Nat \ {0}
      OBVIOUS
    <2>1. share[i] \in R
      BY <1>1
    <2>2. share[i].rollout \in Rollouts
      BY <2>1 DEF IsRow
    <2> QED BY <2>2 DEF LensInv
  <1>3. LensOf(share) = [i \in 1..Len(share) |-> lens[share[i].rollout]]
    BY <1>1 DEF LensOf
  <1> QED BY <1>1, <1>2, <1>3 DEF Lengths

\* The micro-batches of a rank share out its rows, k of them on every rank, and
\* those of a fixed size do it in order.
Micro(shares, parts, world, n, k) ==
    /\ k \in Nat \ {0} /\ DOMAIN parts = 1..world
    /\ \A r \in 1..world : SharesOut(parts[r], k, n) /\ Len(parts[r]) = k
    /\ ~dynamic => \A r \in 1..world : FlattenSeq(parts[r]) = Identity(n)
    /\ \A r, s \in 1..world : shares[r] = shares[s] => parts[r] = parts[s]
    /\ MicroSound(shares, parts)

\* The number of micro-batches all ranks agree on is one that each can make.
LEMMA AgreedNumber ==
    ASSUME LensInv, NEW shares, NEW world, NEW n, NEW R, AreShares(shares, world, n, R)
    PROVE  Max({WantedMicroBatches(LensOf(shares[r]), MaxTokenLen) : r \in DOMAIN shares}) \in 1..n
  <1> DEFINE wanted == {WantedMicroBatches(LensOf(shares[r]), MaxTokenLen) : r \in DOMAIN shares}
  <1>1. DOMAIN shares = 1..world /\ 1 \in 1..world /\ n \in Nat \ {0}
    BY DEF AreShares
  <1>2. ASSUME NEW r \in 1..world
        PROVE  WantedMicroBatches(LensOf(shares[r]), MaxTokenLen) \in 1..n
    <2> DEFINE sizes == LensOf(shares[r])
    <2>1. Lengths(sizes) /\ Len(sizes) = n
      BY LensOfShare DEF AreShares
    <2> HIDE DEF sizes
    <2>2. MaxTokenLen \in Nat \ {0} /\ Len(sizes) > 0
      BY <1>1, <2>1 DEF LensInv
    <2>3. WantedMicroBatches(sizes, MaxTokenLen) \in 1..n
      BY <2>1, <2>2, WantedType
    <2> QED BY <2>3 DEF sizes
  <1>3. wanted \in SUBSET (1..n) /\ wanted # {}
    BY <1>1, <1>2
  <1> HIDE DEF wanted
  <1>4. Max(wanted) \in wanted
    BY <1>1, <1>3, MaxIsThere
  <1>5. Max(wanted) \in 1..n
    BY <1>3, <1>4
  <1> QED BY <1>5 DEF wanted

\* The micro-batches share out every rank's rows, and no assertion fails.
LEMMA MicroPartsShareOut ==
    ASSUME LensInv, MayRearrange(Width, MaxTokenLen),
           NEW shares, NEW world, NEW n, NEW R, AreShares(shares, world, n, R)
    PROVE  \E k : Micro(shares, MicroParts(shares), world, n, k)
  <1> DEFINE parts == MicroParts(shares)
  <1>1. /\ world \in Nat \ {0} /\ n \in Nat \ {0} /\ DOMAIN shares = 1..world
        /\ \A r \in 1..world : shares[r] \in Seq(R) /\ Len(shares[r]) = n
    BY DEF AreShares
  <1>2. CASE dynamic
    <2> DEFINE k == Max({WantedMicroBatches(LensOf(shares[r]), MaxTokenLen) : r \in DOMAIN shares})
    <2>1. k \in 1..n
      BY AgreedNumber
    <2>2. parts = [r \in 1..world |-> MicroBatches(LensOf(shares[r]), k)]
      BY <1>1, <1>2 DEF MicroParts, DynamicParts
    <2> HIDE DEF k, parts
    <2>3. k \in Nat \ {0} /\ k <= n /\ DOMAIN parts = 1..world
      BY <1>1, <2>1, <2>2
    <2>4. ASSUME NEW r \in 1..world
          PROVE  /\ SharesOut(parts[r], k, n) /\ Len(parts[r]) = k
                 /\ MayPartition(LensOf(shares[r]), k, FALSE)
                 /\ Sound(LensOf(shares[r]), k, FALSE, parts[r])
      <3> DEFINE sizes == LensOf(shares[r])
                 p == parts[r]
      <3>1. Lengths(sizes) /\ Len(sizes) = n
        BY LensOfShare DEF AreShares
      <3>2. p = MicroBatches(sizes, k)
        BY <2>2
      <3> HIDE DEF sizes, p
      <3>3. SharesOut(p, k, n) /\ (\A c \in 1..k : p[c] # <<>>) /\ Len(p) = k
        BY <2>3, <3>1, <3>2, MicroBatchesShareOut
      <3>4. FALSE \in BOOLEAN
        OBVIOUS
      <3>5. Sound(sizes, k, FALSE, p)
        BY <2>3, <3>1, <3>3, <3>4, SharesAreSound
      <3>6. MayPartition(sizes, k, FALSE)
        BY <1>1, <2>3, <3>1 DEF MayPartition
      <3> QED BY <3>3, <3>5, <3>6 DEF sizes, p
    <2>5. MicroSound(shares, parts)
      BY <1>1, <2>4 DEF MicroSound
    <2>6. \A r, s \in 1..world : shares[r] = shares[s] => parts[r] = parts[s]
      BY <2>2
    <2>7. Micro(shares, parts, world, n, k)
      BY <1>2, <2>3, <2>4, <2>5, <2>6 DEF Micro
    <2> QED BY <2>7 DEF parts
  <1>3. CASE ~dynamic
    <2> DEFINE k == NumPieces(n, MicroBatch)
               p == Split(Identity(n), MicroBatch)
    <2>1. \A r \in 1..world : [i \in DOMAIN shares[r] |-> i] = Identity(n)
      BY <1>1 DEF Identity
    <2>2. parts = [r \in 1..world |-> p]
      BY <1>1, <1>3, <2>1 DEF MicroParts
    <2>3. SharesOut(p, k, n) /\ k \in Nat \ {0} /\ FlattenSeq(p) = Identity(n)
      BY <1>1, SplitSharesOut DEF LensInv
    <2> HIDE DEF p, k, parts
    <2>4. Len(p) = k
      BY <2>3 DEF SharesOut, IsParts
    <2>5. MicroSound(shares, parts)
      BY <1>3 DEF MicroSound
    <2>6. Micro(shares, parts, world, n, k)
      BY <2>2, <2>3, <2>4, <2>5 DEF Micro
    <2> QED BY <2>6 DEF parts
  <1> QED BY <1>2, <1>3

-----------------------------------------------------------------------------
(* The forward passes.                                                     *)

\* The outputs of a rank are in the order of its share.
LEMMA ForwardInOrder ==
    ASSUME NEW shares, NEW parts, NEW world, NEW n, NEW k, NEW R,
           AreShares(shares, world, n, R), Micro(shares, parts, world, n, k),
           NEW r \in 1..world
    PROVE  Forward(shares[r], parts[r]) = [j \in 1..n |-> shares[r][j].rollout]
  <1> DEFINE share == shares[r]
             p == parts[r]
             perm == FlattenSeq(p)
             chosen == Selected(share, p)
             outputs == [i \in DOMAIN chosen |-> chosen[i].rollout]
             value == [j \in 1..n |-> share[j].rollout]
  <1>1. /\ SharesOut(p, k, n) /\ k \in Nat \ {0} /\ n \in Nat \ {0}
        /\ share \in Seq(R) /\ Len(share) = n /\ (~dynamic => perm = Identity(n))
    BY DEF Micro, AreShares
  <1> HIDE DEF share, p
  <1>2. perm \in Seq(1..n) /\ Len(perm) = n /\ Permutes(perm, n)
    BY <1>1, FlattenPermutes
  <1>3. chosen = [i \in 1..n |-> share[perm[i]]]
    <2>1. DOMAIN perm = 1..n
      BY <1>2
    <2> HIDE DEF perm
    <2>2. Selected(share, p) = [i \in DOMAIN perm |-> share[perm[i]]]
      BY DEF Selected, perm
    <2> QED BY <2>1, <2>2
  <1>4. \A i \in 1..n : perm[i] \in 1..n
    BY <1>2 DEF Permutes
  <1>5. DOMAIN outputs = 1..n /\ \A i \in 1..n : outputs[i] = value[perm[i]]
    <2> HIDE DEF perm, chosen
    <2>1. DOMAIN outputs = 1..n /\ \A i \in 1..n : outputs[i] = share[perm[i]].rollout
      BY <1>3
    <2> HIDE DEF outputs
    <2> QED BY <1>4, <2>1
  <1> HIDE DEF chosen, value
  <1>6. Forward(share, p) = IF dynamic THEN Restore(outputs, p) ELSE outputs
    BY DEF Forward, chosen
  <1> HIDE DEF outputs
  <1>7. CASE dynamic
    <2>1. /\ DOMAIN Restore(outputs, p) = 1..n
          /\ \A j \in 1..n : Restore(outputs, p)[j] = value[j]
      <3> DEFINE flat == FlattenSeq(p)
      <3>1. /\ flat \in Seq(1..n) /\ Len(flat) = n /\ Permutes(flat, n)
            /\ DOMAIN outputs = 1..n /\ \A i \in 1..n : outputs[i] = value[flat[i]]
        BY <1>2, <1>5
      <3>2. n \in Nat
        BY <1>1
      <3> QED BY <3>1, <3>2, Restored
    <2>2. Restore(outputs, p) = value
      <3>1. Restore(outputs, p) = [j \in DOMAIN Restore(outputs, p) |-> Restore(outputs, p)[j]]
        BY DEF Restore
      <3>2. value = [j \in 1..n |-> value[j]]
        BY DEF value
      <3> QED BY <2>1, <3>1, <3>2
    <2> QED BY <1>6, <1>7, <2>2 DEF value, share, p
  <1>8. CASE ~dynamic
    <2>1. \A i \in 1..n : perm[i] = i
      BY <1>1, <1>8 DEF Identity
    <2> HIDE DEF perm
    <2>2. outputs = [i \in 1..n |-> outputs[i]]
      BY <1>5 DEF outputs
    <2>3. value = [j \in 1..n |-> value[j]]
      BY DEF value
    <2>4. \A i \in 1..n : outputs[i] = value[i]
      <3> HIDE DEF value, outputs
      <3>1. \A i \in 1..n : outputs[i] = value[perm[i]] /\ perm[i] = i
        BY <1>5, <2>1
      <3> QED BY <3>1
    <2>5. outputs = value
      <3> HIDE DEF value, outputs
      <3> QED BY <2>2, <2>3, <2>4
    <2> QED BY <1>6, <1>8, <2>5 DEF value, share, p
  <1> QED BY <1>7, <1>8

-----------------------------------------------------------------------------
(* The training passes.                                                    *)

\* With dynamic micro-batches, and a loss that is a mean over rows, a row weighs
\* as if there were none.
Alike == dynamic /\ loss_agg_mode \in SeqMeans
Weights(alike) == {w \in Nat \X Nat : alike => w[1] * MiniBatch = w[2]}
EntriesOf(alike, R) == [row : R, weight : Weights(alike)]
Entries(R) == EntriesOf(Alike, R)

\* A row's part in a micro-batch's loss is a fraction, and the same for all rows
\* when the loss is a mean over them.
LEMMA RowShareType ==
    ASSUME LensInv, NEW R, \A r \in R : IsRow(r), NEW some \in Seq(R), NEW i \in 1..Len(some)
    PROVE  /\ RowShare(some, i)[1] \in Nat /\ RowShare(some, i)[2] \in Nat
           /\ loss_agg_mode \in SeqMeans =>
                 RowShare(some, i)[1] = 1 /\ RowShare(some, i)[2] = Len(some)
  <1> DEFINE n == Len(some)
             tokens == [j \in DOMAIN some |-> LossTokens[lens[some[j].rollout]]]
  <1>1. n \in Nat /\ DOMAIN some = 1..n /\ \A j \in 1..n : some[j] \in R
    OBVIOUS
  <1>2. \A j \in 1..n : some[j].rollout \in Rollouts
    BY <1>1 DEF IsRow
  <1>3. \A j \in 1..n : LossTokens[lens[some[j].rollout]] \in Nat \ {0}
    BY <1>2 DEF LensInv
  <1>4. tokens = [j \in 1..n |-> LossTokens[lens[some[j].rollout]]]
    BY <1>1
  <1>5. tokens \in Seq(Nat) /\ tokens[i] \in Nat
    BY <1>1, <1>3, <1>4
  <1>6. Summed(tokens) \in Nat
    <2> HIDE DEF tokens
    <2> QED BY <1>5, SummedIsNat
  <1>7. RowShare(some, i) = CASE loss_agg_mode = "token-mean" -> <<tokens[i], Summed(tokens)>>
                              [] loss_agg_mode \in SeqMeans -> <<1, n>>
                              [] OTHER -> <<1, 1>>
    BY DEF RowShare
  <1> HIDE DEF tokens, n
  <1>8. CASE loss_agg_mode = "token-mean"
    <2>1. loss_agg_mode \notin SeqMeans
      BY <1>8 DEF SeqMeans
    <2>2. RowShare(some, i) = <<tokens[i], Summed(tokens)>>
      BY <1>7, <1>8, <2>1
    <2> QED BY <1>5, <1>6, <2>1, <2>2
  <1>9. CASE loss_agg_mode # "token-mean" /\ loss_agg_mode \in SeqMeans
    <2>1. RowShare(some, i) = <<1, n>>
      BY <1>7, <1>9
    <2> QED BY <1>1, <2>1 DEF n
  <1>10. CASE loss_agg_mode # "token-mean" /\ loss_agg_mode \notin SeqMeans
    <2>1. RowShare(some, i) = <<1, 1>>
      BY <1>7, <1>10
    <2> QED BY <1>10, <2>1
  <1> QED BY <1>8, <1>9, <1>10

\* The scale of a micro-batch is a fraction, of its rows in the mini-batch when
\* micro-batches are dynamic.
LEMMA ScaleType ==
    ASSUME LensInv, NEW m \in Nat, NEW k
    PROVE  /\ Scale(m, k)[1] \in Nat /\ Scale(m, k)[2] \in Nat
           /\ dynamic => Scale(m, k)[1] = m /\ Scale(m, k)[2] = MiniBatch
  <1>1. MiniBatch \in Nat /\ MiniBatch \div MicroBatch \in Nat
    BY DivMod DEF LensInv
  <1>2. CASE dynamic
    <2>1. Scale(m, k) = <<m, MiniBatch>>
      BY <1>2 DEF Scale
    <2> QED BY <1>1, <2>1
  <1>3. CASE ~dynamic
    <2>1. Scale(m, k) = <<1, MiniBatch \div MicroBatch>>
      BY <1>3 DEF Scale
    <2> QED BY <1>1, <1>3, <2>1
  <1> QED BY <1>2, <1>3

\* What one micro-batch adds: an entry for each of its rows.
LEMMA ContributionsVisit ==
    ASSUME LensInv, NEW R, \A r \in R : IsRow(r),
           NEW share \in Seq(R), NEW n \in Nat, Len(share) = n,
           NEW part \in Seq(1..n), NEW k
    PROVE  Visits(Contributions(share, part, k), Picked(share, part), Len(part), Entries(R))
  <1> DEFINE m == Len(part)
             t == Contributions(share, part, k)
             some == [i \in DOMAIN part |-> share[part[i]]]
             scale == Scale(m, k)
             weight(i) == <<RowShare(some, i)[1] * scale[1], RowShare(some, i)[2] * scale[2]>>
  <1>1. /\ m \in Nat /\ DOMAIN part = 1..m
        /\ \A i \in 1..m : part[i] \in 1..n /\ share[part[i]] \in R
    OBVIOUS
  <1>2. some \in Seq(R) /\ Len(some) = m /\ \A i \in 1..m : some[i] = share[part[i]]
    <2> HIDE DEF m
    <2> QED BY <1>1
  <1>3. t = [i \in 1..m |-> [row |-> some[i], weight |-> weight(i)]]
    BY <1>1 DEF Contributions
  <1> HIDE DEF m, t, some
  <1>4. ASSUME NEW i \in 1..m PROVE weight(i) \in Weights(Alike)
    <2> DEFINE a == RowShare(some, i)[1]
               b == RowShare(some, i)[2]
               c == scale[1]
               d == scale[2]
    <2>1. a \in Nat /\ b \in Nat /\ (loss_agg_mode \in SeqMeans => a = 1 /\ b = m)
      BY <1>2, RowShareType
    <2>2. c \in Nat /\ d \in Nat /\ (dynamic => c = m /\ d = MiniBatch)
      BY <1>1, ScaleType
    <2>3. weight(i) = <<a * c, b * d>>
      OBVIOUS
    <2> HIDE DEF a, b, c, d
    <2>4. a * c \in Nat /\ b * d \in Nat
      BY <2>1, <2>2
    <2>5. Alike => (a * c) * MiniBatch = b * d
      <3> SUFFICES ASSUME Alike PROVE (a * c) * MiniBatch = b * d
        OBVIOUS
      <3>1. a = 1 /\ b = m /\ c = m /\ d = MiniBatch
        BY <2>1, <2>2 DEF Alike
      <3> QED BY <1>1, <3>1
    <2> HIDE DEF weight
    <2> QED BY <2>3, <2>4, <2>5 DEF Weights
  <1> HIDE DEF scale, weight
  <1>5. \A i \in 1..m : t[i] \in Entries(R) /\ t[i].row = share[part[i]]
    <2> SUFFICES ASSUME NEW i \in 1..m PROVE t[i] \in Entries(R) /\ t[i].row = share[part[i]]
      OBVIOUS
    <2>1. t[i] = [row |-> some[i], weight |-> weight(i)]
      BY <1>3
    <2>2. some[i] = share[part[i]] /\ some[i] \in R /\ weight(i) \in Weights(Alike)
      BY <1>1, <1>2, <1>4
    <2> QED BY <2>1, <2>2 DEF Entries, EntriesOf
  <1>6. t \in Seq(Entries(R)) /\ Len(t) = m
    <2> DEFINE E == Entries(R)
    <2> HIDE DEF E
    <2>1. t = [i \in 1..m |-> t[i]]
      BY <1>3
    <2>2. \A i \in 1..m : t[i] \in E
      BY <1>5 DEF E
    <2>3. t \in [1..m -> E]
      BY <2>1, <2>2
    <2>4. t \in Seq(E) /\ Len(t) = m
      BY <1>1, <2>3
    <2> QED BY <2>4 DEF E
  <1>7. Permutes(Identity(m), m) /\ \A i \in 1..m : Identity(m)[i] = i
    BY <1>1 DEF Permutes, Identity
  <1>8. \A i \in 1..m : t[i].row = Picked(share, part)[Identity(m)[i]]
    <2>1. DOMAIN part = 1..m
      BY <1>1
    <2> QED BY <1>5, <1>7, <2>1 DEF Picked
  <1>9. Visits(t, Picked(share, part), m, Entries(R))
    BY <1>6, <1>7, <1>8 DEF Visits
  <1> QED BY <1>9 DEF t, m

\* A rank trains once on each row of a mini-batch.
LEMMA TrainedVisits ==
    ASSUME LensInv, NEW R, \A r \in R : IsRow(r), NEW share \in Seq(R), NEW n \in Nat, Len(share) = n,
           NEW k \in Nat \ {0}, NEW parts, SharesOut(parts, k, n)
    PROVE  Visits(Trained(share, parts), share, n, Entries(R))
  <1> DEFINE t == [c \in DOMAIN parts |-> Contributions(share, parts[c], Len(parts))]
             D == 1..n
             E == Entries(R)
  <1>1. IsParts(parts, k, D)
    BY DEF SharesOut
  <1>2. DOMAIN parts = 1..k /\ \A c \in 1..k : parts[c] \in Seq(D)
    BY <1>1, PartTypes
  <1>3. \A c \in 1..k : Visits(t[c], Picked(share, parts[c]), Len(parts[c]), E)
    <2> SUFFICES ASSUME NEW c \in 1..k
                 PROVE  Visits(t[c], Picked(share, parts[c]), Len(parts[c]), E)
      OBVIOUS
    <2> DEFINE part == parts[c]
               l == Len(parts)
    <2>1. t[c] = Contributions(share, part, l) /\ part \in Seq(1..n)
      BY <1>2
    <2> HIDE DEF t, part, l
    <2>2. Visits(Contributions(share, part, l), Picked(share, part), Len(part), E)
      BY <2>1, ContributionsVisit
    <2> QED BY <2>1, <2>2 DEF part
  <1>4. IsParts(t, k, E)
    <2>1. \A c \in 1..k : t[c] \in Seq(E)
      BY <1>3 DEF Visits
    <2>2. t = [c \in 1..k |-> t[c]]
      BY <1>2
    <2> HIDE DEF t, E
    <2> QED BY <2>1, <2>2 DEF IsParts
  <1> HIDE DEF t, E
  <1>5. Visits(FlattenSeq(t), share, n, E)
    BY <1>3, <1>4, FlattenVisits
  <1> QED BY <1>5 DEF Trained, t, E

\* The c-th mini-batches of equal shares are equal shares, each rank's is the
\* c-th piece of its share, and equal shares have equal ones.
LEMMA MiniProperties ==
    ASSUME LensInv, NEW shares, NEW world, NEW n, NEW R, AreShares(shares, world, n, R)
    PROVE  LET k == NumPieces(n, MiniBatch)
               p == Split(Identity(n), MiniBatch)
           IN  /\ NumMini(shares) = k /\ k \in Nat \ {0} /\ SharesOut(p, k, n)
               /\ \A c \in 1..k : /\ AreShares(Mini(shares, c), world, Len(p[c]), R)
                                  /\ \A r \in 1..world :
                                        Mini(shares, c)[r] = Picked(shares[r], p[c])
  <1> DEFINE k == NumPieces(n, MiniBatch)
             p == Split(Identity(n), MiniBatch)
             id == Identity(n)
             D == 1..n
  <1>1. /\ world \in Nat \ {0} /\ n \in Nat \ {0} /\ DOMAIN shares = 1..world
        /\ (\A r \in R : IsRow(r)) /\ MiniBatch \in Nat \ {0}
        /\ \A r \in 1..world : shares[r] \in Seq(R) /\ Len(shares[r]) = n
    BY DEF AreShares, LensInv
  <1>2. SharesOut(p, k, n) /\ k \in Nat \ {0}
    BY <1>1, SplitSharesOut
  <1>3. id \in Seq(D) /\ Len(id) = n /\ \A i \in 1..n : id[i] = i
    BY <1>1 DEF Identity
  <1>4. Pieces(p, id, MiniBatch, n, k, D)
    <2> HIDE DEF id, D
    <2> QED BY <1>1, <1>3, SplitProperties DEF id
  <1>5. ASSUME NEW r \in 1..world
        PROVE  Pieces(Split(shares[r], MiniBatch), shares[r], MiniBatch, n, k, R)
    <2> DEFINE share == shares[r]
    <2>1. share \in Seq(R) /\ Len(share) = n /\ Len(share) > 0
      BY <1>1
    <2> HIDE DEF share
    <2>2. Pieces(Split(share, MiniBatch), share, MiniBatch, Len(share), NumPieces(Len(share), MiniBatch), R)
      BY <1>1, <2>1, SplitProperties
    <2> QED BY <2>1, <2>2 DEF share
  <1> HIDE DEF k, p, id, D
  <1>6. NumMini(shares) = k
    <2> DEFINE q == Split(shares[1], MiniBatch)
    <2>1. Pieces(q, shares[1], MiniBatch, n, k, R)
      BY <1>1, <1>5
    <2> HIDE DEF q
    <2>2. q = [c \in 1..k |-> q[c]]
      BY <2>1 DEF Pieces
    <2>3. Len(q) = k
      BY <1>2, <2>2
    <2> QED BY <2>3 DEF NumMini, q
  <1>7. ASSUME NEW c \in 1..k, NEW r \in 1..world
        PROVE  /\ Mini(shares, c)[r] = Picked(shares[r], p[c])
               /\ Mini(shares, c)[r] \in Seq(R) /\ Len(Mini(shares, c)[r]) = Len(p[c])
               /\ Len(p[c]) \in Nat \ {0}
    <2> DEFINE share == shares[r]
               q == Split(shares[r], MiniBatch)
               b == (c - 1) * MiniBatch
               e == SplitEnd(n, MiniBatch, c)
               qc == q[c]
               pc == p[c]
    <2>1. Pieces(q, share, MiniBatch, n, k, R)
      BY <1>5
    <2>2. Mini(shares, c)[r] = qc
      BY <1>1 DEF Mini
    <2> HIDE DEF q, share
    <2>3. /\ b \in 0..n - 1 /\ e \in b + 1..n /\ qc \in Seq(R) /\ Len(qc) = e - b
          /\ \A j \in 1..Len(qc) : qc[j] = share[b + j]
      BY <2>1 DEF Pieces
    <2>4. /\ pc \in Seq(D) /\ Len(pc) = e - b
          /\ \A j \in 1..Len(pc) : pc[j] = id[b + j]
      BY <1>4 DEF Pieces
    <2> HIDE DEF b, e, qc, pc
    <2>5. b \in Nat /\ e \in Nat /\ e <= n /\ e - b \in Nat \ {0}
      BY <1>1, <2>3
    <2>6. \A j \in 1..e - b : b + j \in 1..n
      BY <1>1, <2>5
    <2>7. \A j \in 1..e - b : qc[j] = share[pc[j]]
      BY <1>3, <2>3, <2>4, <2>6
    <2>8. qc = [j \in 1..e - b |-> qc[j]] /\ DOMAIN pc = 1..e - b
      BY <2>3, <2>4, <2>5
    <2>9. qc = Picked(share, pc)
      BY <2>7, <2>8 DEF Picked
    <2> QED BY <2>2, <2>3, <2>4, <2>5, <2>9 DEF share, pc
  <1>8. ASSUME NEW c \in 1..k PROVE AreShares(Mini(shares, c), world, Len(p[c]), R)
    <2> DEFINE mini == Mini(shares, c)
               l == Len(p[c])
    <2>1. DOMAIN mini = 1..world
      BY <1>1 DEF Mini
    <2>2. \A r \in 1..world : mini[r] \in Seq(R) /\ Len(mini[r]) = l /\ l \in Nat \ {0}
      BY <1>7
    <2> HIDE DEF mini, l
    <2>3. l \in Nat \ {0}
      BY <1>1, <2>2
    <2>4. AreShares(mini, world, l, R)
      BY <1>1, <2>1, <2>2, <2>3 DEF AreShares
    <2> QED BY <2>4 DEF mini, l
  <1> QED BY <1>2, <1>6, <1>7, <1>8 DEF k, p

\* What an update does with the shares.
Minis(shares) == [c \in 1..NumMini(shares) |-> Mini(shares, c)]
PartsOf(minis) == [c \in DOMAIN minis |-> MicroParts(minis[c])]
Lessons(shares, minis, parts) ==
    [r \in DOMAIN shares |-> FlattenSeq([c \in DOMAIN minis |-> Trained(minis[c][r], parts[c][r])])]

\* It is not refused, and every rank trains once on every row of its share.
LEMMA UpdateVisits ==
    ASSUME LensInv, MayRearrange(Width, MaxTokenLen),
           NEW shares, NEW world, NEW n, NEW R, AreShares(shares, world, n, R)
    PROVE  LET minis == Minis(shares)
               parts == PartsOf(minis)
               seen == Lessons(shares, minis, parts)
           IN  /\ \A c \in DOMAIN minis : MicroSound(minis[c], parts[c])
               /\ DOMAIN seen = 1..world
               /\ \A r \in 1..world : Visits(seen[r], shares[r], n, Entries(R))
               /\ \A r, s \in 1..world : shares[r] = shares[s] => seen[r] = seen[s]
  <1> DEFINE k == NumPieces(n, MiniBatch)
             p == Split(Identity(n), MiniBatch)
             minis == Minis(shares)
             parts == PartsOf(minis)
             seen == Lessons(shares, minis, parts)
             E == Entries(R)
             T(r) == [c \in DOMAIN minis |-> Trained(minis[c][r], parts[c][r])]
  <1>1. /\ NumMini(shares) = k /\ k \in Nat \ {0} /\ SharesOut(p, k, n)
        /\ \A c \in 1..k : /\ AreShares(Mini(shares, c), world, Len(p[c]), R)
                           /\ \A r \in 1..world : Mini(shares, c)[r] = Picked(shares[r], p[c])
    BY MiniProperties
  <1>2. DOMAIN shares = 1..world
    BY DEF AreShares
  <1> HIDE DEF k, p
  <1>3. minis = [c \in 1..k |-> Mini(shares, c)]
    BY <1>1 DEF Minis
  <1>4. parts = [c \in 1..k |-> MicroParts(minis[c])]
    BY <1>3 DEF PartsOf
  <1>5. DOMAIN seen = 1..world /\ \A r \in 1..world : seen[r] = FlattenSeq(T(r))
    BY <1>2 DEF Lessons
  <1> HIDE DEF minis, parts, seen, E
  <1>6. ASSUME NEW c \in 1..k
        PROVE  /\ AreShares(minis[c], world, Len(p[c]), R)
               /\ \E m : Micro(minis[c], parts[c], world, Len(p[c]), m)
               /\ \A r \in 1..world : minis[c][r] = Picked(shares[r], p[c])
    <2> DEFINE mini == minis[c]
               l == Len(p[c])
    <2>1. AreShares(mini, world, l, R) /\ \A r \in 1..world : mini[r] = Picked(shares[r], p[c])
      BY <1>1, <1>3
    <2>2. parts[c] = MicroParts(mini)
      BY <1>4
    <2> HIDE DEF mini, l
    <2>3. \E m : Micro(mini, MicroParts(mini), world, l, m)
      BY <2>1, MicroPartsShareOut
    <2> QED BY <2>1, <2>2, <2>3 DEF mini, l
  <1>7. \A c \in DOMAIN minis : MicroSound(minis[c], parts[c])
    BY <1>3, <1>6 DEF Micro
  <1>8. ASSUME NEW r \in 1..world PROVE Visits(seen[r], shares[r], n, E)
    <2> DEFINE t == T(r)
    <2>1. ASSUME NEW c \in 1..k
          PROVE  Visits(t[c], Picked(shares[r], p[c]), Len(p[c]), E)
      <3> DEFINE mini == minis[c]
                 pc == parts[c]
                 l == Len(p[c])
                 share == mini[r]
                 pr == pc[r]
      <3>1. PICK m : Micro(mini, pc, world, l, m)
        BY <1>6
      <3>2. AreShares(mini, world, l, R) /\ share = Picked(shares[r], p[c])
        BY <1>6
      <3>3. t[c] = Trained(share, pr)
        BY <1>3
      <3> HIDE DEF t, mini, pc, l
      <3>4. m \in Nat \ {0} /\ SharesOut(pr, m, l) /\ share \in Seq(R) /\ Len(share) = l /\ l \in Nat
        BY <3>1, <3>2 DEF Micro, AreShares
      <3> HIDE DEF share, pr
      <3>5. \A x \in R : IsRow(x)
        BY DEF AreShares
      <3>6. Visits(Trained(share, pr), share, l, Entries(R))
        BY <3>4, <3>5, TrainedVisits
      <3> QED BY <3>2, <3>3, <3>6 DEF l, E
    <2>2. t = [c \in 1..k |-> t[c]]
      BY <1>3
    <2> HIDE DEF t
    <2>3. \A c \in 1..k : t[c] \in Seq(E)
      BY <2>1 DEF Visits
    <2>4. IsParts(t, k, E)
      BY <1>1, <2>2, <2>3 DEF IsParts
    <2> DEFINE share == shares[r]
    <2>5. \A c \in 1..k : Visits(t[c], Picked(share, p[c]), Len(p[c]), E)
      BY <2>1
    <2> HIDE DEF share
    <2>6. Visits(FlattenSeq(t), share, n, E)
      BY <1>1, <2>4, <2>5, FlattenVisits
    <2> QED BY <1>5, <2>6 DEF t, share
  <1>9. ASSUME NEW r \in 1..world, NEW s \in 1..world, shares[r] = shares[s]
        PROVE  seen[r] = seen[s]
    <2>1. \A c \in 1..k : minis[c][r] = minis[c][s]
      BY <1>6, <1>9
    <2>2. \A c \in 1..k : parts[c][r] = parts[c][s]
      BY <1>6, <2>1 DEF Micro
    <2>3. T(r) = T(s)
      BY <1>3, <2>1, <2>2
    <2> QED BY <1>5, <2>3
  <1> QED BY <1>5, <1>7, <1>8, <1>9 DEF minis, parts, seen, E

-----------------------------------------------------------------------------
(* The inductive invariant.                                                *)

\* The mesh of the workers: their ranks are in order, and every data-parallel
\* rank has as many of them.  _register_dispatch_collect_info is given a row of
\* a mesh (dp, sp) and reports for sp = 0.
MeshInOrder == /\ InOrder(DpRank, DpSize, Reports, WorldSize)
               /\ Divides(DpSize, WorldSize)

\* What the configuration must provide, or a call raises: chunk's assertion on
\* the shares of generate_sequences, that of the equal partitions, and
\* rearrange_micro_batches' on the padded width.  validate_config asks for the
\* second only, and not with dynamic batches (utils/config.py:89-114).  A
\* validation batch is padded and may have any size.
BatchFits ==
    /\ "train" \in Modes =>
          /\ Divides(NumWorkers, NumPrompts["train"] * NumRollouts["train"])
          /\ Divides(WorldSize, NumPrompts["train"] * NumRollouts["train"])
    /\ MayRearrange(Width, MaxTokenLen)

\* Rows and prompts of a batch in mode m.
TotalRows(m) == NumPrompts[m] * NumRollouts[m]
PromptIn(m, k) == ((k - 1) \div NumRollouts[m]) + 1
GroupIn(m, p) == {k \in 1..TotalRows(m) : PromptIn(m, k) = p}

\* A row with its own rollout, and fields that are not there yet or its own.
RowType == [uid : Nat, rollout : Nat, score : Nat, old_log_probs : Nat,
            ref_log_prob : Nat, values : Nat, group : SUBSET Nat]
WholeRow(m, r) ==
    /\ r.rollout \in 1..TotalRows(m) /\ r.uid = PromptIn(m, r.rollout)
    /\ {r.score, r.old_log_probs, r.ref_log_prob, r.values} \subseteq {0, r.rollout}
    /\ r.group \in {{}, GroupIn(m, r.uid)}
WholeRows(m) == {r \in RowType : WholeRow(m, r)}

\* Every rollout on one row.
RolloutsOf(m, b) == [i \in 1..TotalRows(m) |-> b[i].rollout]
WholeBatch(m, b) ==
    b \in Seq(WholeRows(m)) /\ Len(b) = TotalRows(m) /\ Permutes(RolloutsOf(m, b), TotalRows(m))

Scored(m, b) == \A i \in 1..TotalRows(m) : b[i].score = b[i].rollout

\* What generation is asked for, and what it answers.
Asked(m, g) ==
    /\ g \in Seq(Nat) /\ Len(g) = TotalRows(m) + PadSize(TotalRows(m), NumWorkers)
    /\ \A i \in 1..TotalRows(m) : g[i] = PromptIn(m, i)
Answered(m, g) ==
    /\ g \in Seq([prompt : Nat, rollout : Nat])
    /\ Len(g) = TotalRows(m) + PadSize(TotalRows(m), NumWorkers)
    /\ \A i \in 1..TotalRows(m) : g[i] = [prompt |-> PromptIn(m, i), rollout |-> i]

\* A training pass over the batch: every rank has trained once on every row of
\* its share, and equal shares in the same way.
Pass(m, alike, seen, b) ==
    LET shares == Dispatch(DpRank, DpSize, b)
    IN  /\ DOMAIN seen = 1..WorldSize
        /\ \A r \in 1..WorldSize :
              Visits(seen[r], shares[r], TotalRows(m) \div DpSize, EntriesOf(alike, WholeRows(m)))
        /\ \A r, s \in 1..WorldSize : shares[r] = shares[s] => seen[r] = seen[s]

Early == {"repeat", "generate", "union"}
Training == {"balance", "old_log_prob", "ref", "values", "adv", "update_critic", "update_actor"}
Trainings == {"update_actor", "done"}

\* The call that is next, and in which mode.
StageInv == /\ mode \in Modes /\ lens \in Lens[mode]
            /\ at \in Early \cup Training \cup {"reward", "done"}
            /\ at \in Training => mode = "train"

\* gen and batch at each of the calls.
GenInv == /\ at = "generate" => Asked(mode, gen)
          /\ at \notin {"repeat", "generate"} => Answered(mode, gen)

BatchInv == /\ at \in Early => batch = [p \in 1..NumPrompts[mode] |-> Row(p)]
            /\ at \notin Early => WholeBatch(mode, batch)

ScoredInv == at \in Training \ {"balance"} => Scored(mode, batch)

\* Only the updates train, on the batch as it then is.
LearnedInv ==
    /\ DOMAIN learned = {"actor", "critic"}
    /\ \A model \in {"actor", "critic"} : learned[model] # <<>> =>
          at \in Trainings /\ mode = "train" /\ Pass(mode, Alike, learned[model], batch)

StepInv == StageInv /\ GenInv /\ BatchInv /\ ScoredInv /\ LearnedInv

-----------------------------------------------------------------------------
(* The sizes.                                                              *)

\* The sizes of a batch are positive numbers, and its rollouts have lengths.
LEMMA Sizes ==
    ASSUME StageInv
    PROVE  /\ NumPrompts[mode] \in Nat \ {0} /\ NumRollouts[mode] \in Nat \ {0}
           /\ NumRows = NumPrompts[mode] * NumRollouts[mode] /\ NumRows \in Nat \ {0}
           /\ {NumWorkers, DpSize, MaxTokenLen, MicroBatch, MiniBatch} \subseteq Nat \ {0}
           /\ LensInv /\ TotalRows(mode) = NumRows /\ Rollouts = 1..NumRows
  <1> DEFINE a == NumPrompts[mode]
             b == NumRollouts[mode]
  <1>1. a \in Nat \ {0} /\ b \in Nat \ {0}
    BY StepAssumption DEF StageInv
  <1>2. NumRows = a * b
    BY DEF NumRows
  <1>3. {NumWorkers, DpSize, MaxTokenLen, MicroBatch, MiniBatch} \subseteq Nat \ {0}
    BY StepAssumption
  <1>4. lens \in [1..a * b -> 1..Width]
    <2>1. Lens[mode] \subseteq [1..a * b -> 1..Width]
      BY StepAssumption DEF StageInv
    <2> QED BY <2>1 DEF StageInv
  <1> HIDE DEF a, b
  <1>5. a * b \in Nat \ {0}
    BY <1>1
  <1>6. 1..Width \subseteq Nat \ {0} /\ LossTokens \in [1..Width -> Nat \ {0}]
    BY StepAssumption
  <1>7. /\ lens \in [Rollouts -> Nat \ {0}]
        /\ \A k \in Rollouts : LossTokens[lens[k]] \in Nat \ {0}
    BY <1>2, <1>4, <1>6 DEF Rollouts
  <1>8. LensInv
    BY <1>2, <1>3, <1>5, <1>7 DEF LensInv
  <1> QED BY <1>1, <1>2, <1>3, <1>5, <1>8 DEF a, b, TotalRows, NumRows, Rollouts

\* A rollout's prompt is one of the batch's.
LEMMA PromptOfRollout ==
    ASSUME StageInv, NEW k \in Rollouts
    PROVE  PromptOf(k) = PromptIn(mode, k) /\ PromptIn(mode, k) \in 1..NumPrompts[mode]
  <1> DEFINE a == NumPrompts[mode]
             b == NumRollouts[mode]
  <1>1. a \in Nat \ {0} /\ b \in Nat \ {0} /\ k \in 1..a * b
    BY Sizes DEF Rollouts
  <1>2. PromptOf(k) = ((k - 1) \div b) + 1 /\ PromptIn(mode, k) = ((k - 1) \div b) + 1
    BY DEF PromptOf, PromptIn
  <1> HIDE DEF a, b
  <1> DEFINE q == (k - 1) \div b
  <1>3. q \in 0..a - 1
    BY <1>1, PlaceInChunk
  <1> HIDE DEF q
  <1>4. q + 1 \in 1..a
    BY <1>1, <1>3
  <1> QED BY <1>2, <1>4 DEF q, a

\* The ranks.
LEMMA Ranks ==
    ASSUME MeshInOrder
    PROVE  /\ WorldSize \in Nat \ {0} /\ DpSize \in Nat \ {0} /\ DOMAIN DpRank = 1..WorldSize
           /\ DpRank \in [1..WorldSize -> 0..DpSize - 1]
           /\ InOrder(DpRank, DpSize, Reports, WorldSize)
           /\ \A r \in 1..WorldSize : DpRank[r] + 1 \in 1..DpSize
  <1> DEFINE w == WorldSize
  <1>1. InOrder(DpRank, DpSize, Reports, w)
    BY DEF MeshInOrder
  <1> HIDE DEF w
  <1>2. w \in Nat /\ DpSize \in Nat \ {0} /\ DpRank \in [1..w -> 0..DpSize - 1]
    BY <1>1 DEF InOrder
  <1>3. 0 \in 0..DpSize - 1
    BY <1>2
  <1>4. \E k \in 1..w : Reports[k] /\ DpRank[k] = 0
    BY <1>1, <1>3 DEF InOrder
  <1>5. w # 0
    BY <1>2, <1>4
  <1>6. \A r \in 1..w : DpRank[r] + 1 \in 1..DpSize
    BY <1>2
  <1> QED BY <1>1, <1>2, <1>5, <1>6 DEF w

\* What a training batch divides over.
LEMMA TrainingDivides ==
    ASSUME MeshInOrder, BatchFits, StageInv, mode = "train"
    PROVE  /\ Divides(NumWorkers, NumRows) /\ Divides(WorldSize, NumRows)
           /\ Divides(DpSize, NumRows) /\ NumRows >= WorldSize
           /\ NumRows \div DpSize \in Nat \ {0}
           /\ DpSize * (NumRows \div DpSize) = NumRows
  <1> DEFINE w == WorldSize
             n == NumRows
  <1>1. Divides(NumWorkers, n) /\ Divides(w, n)
    BY DEF BatchFits, NumRows, StageInv
  <1>2. w \in Nat \ {0} /\ DpSize \in Nat \ {0} /\ n \in Nat \ {0}
    BY Ranks, Sizes
  <1>3. Divides(DpSize, w)
    BY DEF MeshInOrder
  <1> HIDE DEF w, n
  <1>4. n \in Nat
    BY <1>2
  <1>5. Divides(DpSize, n)
    BY <1>1, <1>2, <1>3, <1>4, DividesTransitive
  <1>6. n >= w
    BY <1>1, <1>2, DivisorIsLess
  <1> DEFINE q == n \div DpSize
  <1>7. q \in Nat \ {0} /\ n = q * DpSize
    BY <1>2, <1>5, DivisorIsLess
  <1> HIDE DEF q
  <1>8. DpSize * q = n
    BY <1>2, <1>7
  <1> QED BY <1>1, <1>5, <1>6, <1>7, <1>8 DEF w, n, q

-----------------------------------------------------------------------------
(* The batch and its shares.                                               *)

\* The dispatched shares are chunks of the batch.
LEMMA SharesOfBatch ==
    ASSUME MeshInOrder, BatchFits, StageInv, mode = "train", NEW b, WholeBatch(mode, b)
    PROVE  LET shares == Dispatch(DpRank, DpSize, b)
               each == NumRows \div DpSize
           IN  /\ AreShares(shares, WorldSize, each, WholeRows(mode))
               /\ \A r \in 1..WorldSize : /\ shares[r] = Chunk(b, DpSize)[DpRank[r] + 1]
                                          /\ \A j \in 1..each :
                                                shares[r][j] = b[DpRank[r] * each + j]
  <1> DEFINE shares == Dispatch(DpRank, DpSize, b)
             chunks == Chunk(b, DpSize)
             each == NumRows \div DpSize
             w == WorldSize
             S == WholeRows(mode)
  <1>1. /\ w \in Nat \ {0} /\ DpSize \in Nat \ {0} /\ DOMAIN DpRank = 1..w
        /\ DpRank \in [1..w -> 0..DpSize - 1] /\ \A r \in 1..w : DpRank[r] + 1 \in 1..DpSize
    BY Ranks
  <1>2. Divides(DpSize, NumRows) /\ each \in Nat \ {0}
    BY TrainingDivides
  <1>3. b \in Seq(S) /\ Len(b) = NumRows
    BY DEF WholeBatch, TotalRows, NumRows
  <1>4. shares = [r \in 1..w |-> chunks[DpRank[r] + 1]]
    BY <1>1 DEF Dispatch
  <1>5. \A r \in S : IsRow(r)
    BY DEF WholeRows, WholeRow, IsRow, TotalRows, Rollouts, NumRows
  <1> HIDE DEF shares, w, S
  <1>6. /\ chunks \in Seq(Seq(S)) /\ Len(chunks) = DpSize
        /\ \A c \in 1..DpSize : /\ Len(chunks[c]) = each
                                /\ \A j \in 1..each : chunks[c][j] = b[(c - 1) * each + j]
    <2> DEFINE e == Len(b) \div DpSize
    <2>0. b \in Seq(S) /\ Divides(DpSize, Len(b))
      BY <1>2, <1>3
    <2>1. /\ chunks \in Seq(Seq(S)) /\ Len(chunks) = DpSize
          /\ \A c \in 1..DpSize : /\ Len(chunks[c]) = e
                                  /\ \A j \in 1..e : chunks[c][j] = b[(c - 1) * e + j]
      BY <1>1, <2>0, ChunkProperties
    <2>2. e = each
      BY <1>3
    <2> HIDE DEF e, each, chunks
    <2> QED BY <2>1, <2>2
  <1> HIDE DEF chunks, each
  <1>7. ASSUME NEW r \in 1..w
        PROVE  /\ shares[r] = chunks[DpRank[r] + 1] /\ shares[r] \in Seq(S) /\ Len(shares[r]) = each
               /\ \A j \in 1..each : shares[r][j] = b[DpRank[r] * each + j]
    <2> DEFINE c == DpRank[r] + 1
    <2>1. c \in 1..DpSize /\ c - 1 = DpRank[r]
      BY <1>1
    <2>2. shares[r] = chunks[c]
      BY <1>4
    <2> HIDE DEF c
    <2>3. chunks[c] \in Seq(S)
      BY <1>6, <2>1
    <2> QED BY <1>6, <2>1, <2>2, <2>3 DEF c
  <1>8. DOMAIN shares = 1..w
    BY <1>4
  <1>9. AreShares(shares, w, each, S)
    BY <1>1, <1>2, <1>5, <1>7, <1>8 DEF AreShares
  <1> QED BY <1>7, <1>9 DEF shares, chunks, each, w, S

\* What the ranks compute of their shares' rollouts is, put together, in the
\* order of the batch.
LEMMA Found ==
    ASSUME MeshInOrder, BatchFits, StageInv, mode = "train", NEW b, WholeBatch(mode, b)
    PROVE  LET shares == Dispatch(DpRank, DpSize, b)
               parts == MicroParts(shares)
               found == Collect(Reports, [r \in DOMAIN shares |-> Forward(shares[r], parts[r])])
           IN  /\ MicroSound(shares, parts)
               /\ \A i \in Rollouts : found[i] = b[i].rollout
  <1> DEFINE shares == Dispatch(DpRank, DpSize, b)
             parts == MicroParts(shares)
             each == NumRows \div DpSize
             outputs == [r \in DOMAIN shares |-> Forward(shares[r], parts[r])]
             rolls == RolloutsOf(mode, b)
             pieces == Chunk(rolls, DpSize)
             w == WorldSize
             S == WholeRows(mode)
  <1>1. /\ w \in Nat \ {0} /\ DpSize \in Nat \ {0} /\ InOrder(DpRank, DpSize, Reports, w)
        /\ DpRank \in [1..w -> 0..DpSize - 1] /\ \A r \in 1..w : DpRank[r] + 1 \in 1..DpSize
    BY Ranks
  <1>2. Divides(DpSize, NumRows) /\ each \in Nat \ {0} /\ NumRows \in Nat \ {0} /\ DpSize * each = NumRows
    BY TrainingDivides, Sizes
  <1>3. /\ AreShares(shares, w, each, S)
        /\ \A r \in 1..w : \A j \in 1..each : shares[r][j] = b[DpRank[r] * each + j]
    BY SharesOfBatch
  <1>4. LensInv /\ MayRearrange(Width, MaxTokenLen)
    BY Sizes DEF BatchFits
  <1>5. \A r \in S : r.rollout \in 1..NumRows
    BY DEF WholeRows, WholeRow, TotalRows, NumRows
  <1>6. b \in Seq(S) /\ Len(b) = NumRows
    BY DEF WholeBatch, TotalRows, NumRows
  <1> HIDE DEF S, w, shares, each
  <1>7. PICK k : Micro(shares, parts, w, each, k)
    BY <1>3, <1>4, MicroPartsShareOut
  <1> HIDE DEF parts
  <1>8. MicroSound(shares, parts)
    BY <1>7 DEF Micro
  <1>9. rolls \in Seq(1..NumRows) /\ Len(rolls) = NumRows /\ \A i \in 1..NumRows : rolls[i] = b[i].rollout
    <2>1. \A i \in 1..NumRows : b[i] \in S
      BY <1>6
    <2>2. \A i \in 1..NumRows : b[i].rollout \in 1..NumRows
      BY <1>5, <2>1
    <2>3. NumRows \in Nat
      BY <1>2
    <2> QED BY <2>2, <2>3 DEF RolloutsOf, TotalRows, NumRows
  <1> HIDE DEF rolls
  <1> DEFINE N == 1..NumRows
             n == NumRows
  <1>10. /\ pieces \in Seq(Seq(N)) /\ Len(pieces) = DpSize
         /\ \A c \in 1..DpSize : /\ Len(pieces[c]) = each
                                 /\ \A j \in 1..each : pieces[c][j] = rolls[(c - 1) * each + j]
    <2> DEFINE e == Len(rolls) \div DpSize
    <2>1. rolls \in Seq(N) /\ Divides(DpSize, Len(rolls))
      BY <1>2, <1>9
    <2> HIDE DEF N
    <2>2. /\ pieces \in Seq(Seq(N)) /\ Len(pieces) = DpSize
          /\ \A c \in 1..DpSize : /\ Len(pieces[c]) = e
                                  /\ \A j \in 1..e : pieces[c][j] = rolls[(c - 1) * e + j]
      BY <1>1, <2>1, ChunkProperties
    <2>3. e = each
      BY <1>9 DEF each
    <2> HIDE DEF e, pieces
    <2> QED BY <2>2, <2>3
  <1>11. ASSUME NEW r \in 1..w
         PROVE  Forward(shares[r], parts[r]) = pieces[DpRank[r] + 1]
    <2> DEFINE c == DpRank[r] + 1
    <2>1. c \in 1..DpSize /\ c - 1 = DpRank[r] /\ DpRank[r] \in Nat /\ DpRank[r] = c - 1
      BY <1>1
    <2>2. Forward(shares[r], parts[r]) = [j \in 1..each |-> shares[r][j].rollout]
      BY <1>3, <1>7, ForwardInOrder
    <2> HIDE DEF c, pieces
    <2>3. pieces[c] \in Seq(N) /\ Len(pieces[c]) = each
      BY <1>10, <2>1
    <2>4. \A j \in 1..each : pieces[c][j] = shares[r][j].rollout
      <3> SUFFICES ASSUME NEW j \in 1..each PROVE pieces[c][j] = shares[r][j].rollout
        OBVIOUS
      <3> DEFINE i == (c - 1) * each + j
      <3>1. i \in 1..DpSize * each
        BY <1>1, <1>2, <2>1, PlaceOfChunk
      <3>2. shares[r][j] = b[i] /\ pieces[c][j] = rolls[i]
        BY <1>3, <1>10, <2>1
      <3> HIDE DEF i
      <3>3. rolls[i] = b[i].rollout
        BY <1>2, <1>9, <3>1
      <3> QED BY <3>2, <3>3
    <2>5. pieces[c] = [j \in 1..each |-> pieces[c][j]]
      BY <2>3
    <2> DEFINE piece == pieces[c]
    <2> HIDE DEF piece
    <2>6. piece = [j \in 1..each |-> piece[j]] /\ \A j \in 1..each : piece[j] = shares[r][j].rollout
      BY <2>4, <2>5 DEF piece
    <2>7. piece = [j \in 1..each |-> shares[r][j].rollout]
      BY <2>6
    <2> QED BY <2>2, <2>7 DEF piece, c
  <1>12. outputs = [r \in 1..w |-> pieces[DpRank[r] + 1]]
    <2>1. DOMAIN shares = 1..w
      BY <1>3 DEF AreShares
    <2> QED BY <1>11, <2>1
  <1>13. Collect(Reports, outputs) = Concat(pieces)
    <2> DEFINE T == Seq(N)
    <2> HIDE DEF T, outputs, pieces
    <2>1. pieces \in Seq(T) /\ Len(pieces) = DpSize
      BY <1>10 DEF T
    <2> DEFINE o == [r \in 1..w |-> pieces[DpRank[r] + 1]]
    <2>2. Collect(Reports, o) = Concat(pieces)
      <3>1. InOrder(DpRank, DpSize, Reports, w)
        BY <1>1
      <3> QED BY <2>1, <3>1, CollectsShares
    <2> QED BY <1>12, <2>2
  <1>14. Concat(pieces) = rolls
    <2>1. rolls \in Seq(N) /\ Divides(DpSize, Len(rolls))
      BY <1>2, <1>9
    <2> HIDE DEF N
    <2> QED BY <1>1, <2>1, ConcatOfChunksIs
  <1>15. \A i \in 1..NumRows : Collect(Reports, outputs)[i] = b[i].rollout
    BY <1>9, <1>13, <1>14
  <1> QED BY <1>8, <1>15 DEF outputs, parts, shares, Rollouts

-----------------------------------------------------------------------------
(* What a call may do to a row.                                            *)

\* The fields of a whole row.
LEMMA RowTyped ==
    ASSUME NEW m, NEW r \in WholeRows(m)
    PROVE  /\ r \in RowType /\ r.rollout \in 1..TotalRows(m) /\ r.uid = PromptIn(m, r.rollout)
           /\ r.score \in {0, r.rollout} /\ r.old_log_probs \in {0, r.rollout}
           /\ r.ref_log_prob \in {0, r.rollout} /\ r.values \in {0, r.rollout}
           /\ r.group \in {{}, GroupIn(m, r.uid)}
  <1>1. r \in RowType /\ WholeRow(m, r)
    BY DEF WholeRows
  <1> QED BY <1>1 DEF WholeRow

\* A row may take the score of its rollout.
LEMMA ScoreKept ==
    ASSUME NEW m, NEW r \in WholeRows(m)
    PROVE  LET s == [r EXCEPT !.score = r.rollout]
           IN  s \in WholeRows(m) /\ s.rollout = r.rollout /\ s.score = r.rollout
  <1> DEFINE s == [r EXCEPT !.score = r.rollout]
  <1>1. r \in RowType /\ WholeRow(m, r)
    BY DEF WholeRows
  <1>2. s.score = r.rollout /\ s.rollout = r.rollout /\ s.uid = r.uid
        /\ s.old_log_probs = r.old_log_probs /\ s.ref_log_prob = r.ref_log_prob
        /\ s.values = r.values /\ s.group = r.group
    BY <1>1 DEF RowType
  <1>3. s \in RowType
    BY <1>1 DEF RowType
  <1> HIDE DEF s
  <1>4. WholeRow(m, s)
    BY <1>1, <1>2 DEF WholeRow
  <1>5. s \in WholeRows(m) /\ s.rollout = r.rollout /\ s.score = r.rollout
    BY <1>2, <1>3, <1>4 DEF WholeRows
  <1> QED BY <1>5 DEF s

\* A field of log-probabilities or values may become the rollout's.
LEMMA FieldKept ==
    ASSUME NEW m, NEW r \in WholeRows(m),
           NEW field \in {"old_log_probs", "ref_log_prob", "values"}
    PROVE  LET s == [r EXCEPT ![field] = r.rollout]
           IN  s \in WholeRows(m) /\ s.rollout = r.rollout /\ s.score = r.score
  <1> DEFINE s == [r EXCEPT ![field] = r.rollout]
  <1>1. r \in RowType /\ WholeRow(m, r)
    BY DEF WholeRows
  <1>2. s.rollout = r.rollout /\ s.uid = r.uid /\ s.score = r.score /\ s.group = r.group
    BY <1>1 DEF RowType
  <1>3. /\ s.old_log_probs \in {r.old_log_probs, r.rollout}
        /\ s.ref_log_prob \in {r.ref_log_prob, r.rollout}
        /\ s.values \in {r.values, r.rollout}
    BY <1>1 DEF RowType
  <1>4. s \in RowType
    BY <1>1 DEF RowType
  <1> HIDE DEF s
  <1>5. WholeRow(m, s)
    BY <1>1, <1>2, <1>3 DEF WholeRow
  <1>6. s \in WholeRows(m) /\ s.rollout = r.rollout /\ s.score = r.score
    BY <1>2, <1>4, <1>5 DEF WholeRows
  <1> QED BY <1>6 DEF s

\* Its group may become the rollouts of its prompt.
LEMMA GroupKept ==
    ASSUME NEW m, NEW r \in WholeRows(m), NEW g, g = GroupIn(m, r.uid), GroupIn(m, r.uid) \subseteq Nat
    PROVE  LET s == [r EXCEPT !.group = g]
           IN  s \in WholeRows(m) /\ s.rollout = r.rollout /\ s.score = r.score
  <1> DEFINE s == [r EXCEPT !.group = g]
  <1>1. r \in RowType /\ WholeRow(m, r)
    BY DEF WholeRows
  <1>2. s.group = g /\ s.rollout = r.rollout /\ s.uid = r.uid /\ s.score = r.score
        /\ s.old_log_probs = r.old_log_probs /\ s.ref_log_prob = r.ref_log_prob
        /\ s.values = r.values
    BY <1>1 DEF RowType
  <1>3. s \in RowType
    BY <1>1 DEF RowType
  <1> HIDE DEF s
  <1>4. WholeRow(m, s)
    BY <1>1, <1>2 DEF WholeRow
  <1>5. s \in WholeRows(m) /\ s.rollout = r.rollout /\ s.score = r.score
    BY <1>2, <1>3, <1>4 DEF WholeRows
  <1> QED BY <1>5 DEF s

\* A batch whose rows keep their rollouts stays whole.
LEMMA StaysWhole ==
    ASSUME NEW m, NEW b, WholeBatch(m, b), TotalRows(m) \in Nat,
           NEW c, DOMAIN c = 1..TotalRows(m), c = [i \in DOMAIN c |-> c[i]],
           \A i \in 1..TotalRows(m) : c[i] \in WholeRows(m) /\ c[i].rollout = b[i].rollout
    PROVE  WholeBatch(m, c)
  <1> DEFINE n == TotalRows(m)
             S == WholeRows(m)
  <1>1. RolloutsOf(m, c) = RolloutsOf(m, b)
    BY DEF RolloutsOf
  <1>2. Permutes(RolloutsOf(m, c), n)
    BY <1>1 DEF WholeBatch
  <1>3. c = [i \in 1..n |-> c[i]] /\ \A i \in 1..n : c[i] \in S
    OBVIOUS
  <1> HIDE DEF n, S
  <1>4. c \in [1..n -> S] /\ n \in Nat
    BY <1>3 DEF n
  <1>5. c \in Seq(S) /\ Len(c) = n
    BY <1>4
  <1> QED BY <1>2, <1>5 DEF WholeBatch, n, S

\* ... and so does one whose rows are put in another order.
LEMMA Reordered ==
    ASSUME NEW m, NEW b, WholeBatch(m, b), TotalRows(m) \in Nat,
           NEW perm \in Seq(1..TotalRows(m)), Len(perm) = TotalRows(m), Permutes(perm, TotalRows(m))
    PROVE  WholeBatch(m, Reorder(b, perm))
  <1> DEFINE n == TotalRows(m)
             S == WholeRows(m)
             c == Reorder(b, perm)
             q == RolloutsOf(m, b)
             p == RolloutsOf(m, c)
  <1>1. DOMAIN perm = 1..n /\ \A i \in 1..n : perm[i] \in 1..n
    OBVIOUS
  <1>2. c = [i \in 1..n |-> b[perm[i]]]
    BY <1>1 DEF Reorder
  <1>3. b \in Seq(S) /\ Len(b) = n /\ Permutes(q, n)
    BY DEF WholeBatch
  <1>4. p = [i \in 1..n |-> c[i].rollout] /\ q = [i \in 1..n |-> b[i].rollout]
    BY DEF RolloutsOf
  <1>5. n \in Nat /\ Permutes(perm, n)
    OBVIOUS
  <1> HIDE DEF n, S, c, p, q
  <1>6. c \in Seq(S) /\ Len(c) = n
    <2>1. \A i \in 1..n : b[perm[i]] \in S
      BY <1>1, <1>3
    <2> QED BY <1>2, <1>5, <2>1
  <1>7. \A i \in 1..n : p[i] = q[perm[i]]
    BY <1>1, <1>2, <1>4
  <1>8. p \in [1..n -> 1..n]
    <2>1. \A i \in 1..n : q[i] \in 1..n
      BY <1>3 DEF Permutes
    <2>2. \A i \in 1..n : p[i] \in 1..n
      BY <1>1, <1>7, <2>1
    <2>3. p = [i \in 1..n |-> p[i]]
      BY <1>4
    <2> QED BY <2>2, <2>3
  <1>9. \A i, j \in 1..n : p[i] = p[j] => i = j
    <2> SUFFICES ASSUME NEW i \in 1..n, NEW j \in 1..n, p[i] = p[j] PROVE i = j
      OBVIOUS
    <2>1. q[perm[i]] = q[perm[j]] /\ perm[i] \in 1..n /\ perm[j] \in 1..n
      BY <1>1, <1>7
    <2>2. perm[i] = perm[j]
      <3>1. \A k, l \in 1..n : q[k] = q[l] => k = l
        BY <1>3 DEF Permutes
      <3> DEFINE k == perm[i]
                 l == perm[j]
      <3> HIDE DEF k, l
      <3>2. k \in 1..n /\ l \in 1..n /\ q[k] = q[l]
        BY <2>1 DEF k, l
      <3>3. k = l
        BY <3>1, <3>2
      <3> QED BY <3>3 DEF k, l
    <2> QED BY <1>5, <2>2 DEF Permutes
  <1>10. \A j \in 1..n : \E i \in 1..n : p[i] = j
    <2> SUFFICES ASSUME NEW j \in 1..n PROVE \E i \in 1..n : p[i] = j
      OBVIOUS
    <2>1. PICK k \in 1..n : q[k] = j
      BY <1>3 DEF Permutes
    <2>2. PICK i \in 1..n : perm[i] = k
      BY <1>5 DEF Permutes
    <2> QED BY <1>7, <2>1, <2>2
  <1>11. Permutes(p, n)
    BY <1>8, <1>9, <1>10 DEF Permutes
  <1> QED BY <1>6, <1>11 DEF WholeBatch, n, S, c, p

-----------------------------------------------------------------------------
(* The invariant holds at first and is kept by every call.                 *)

\* It holds at first.
LEMMA InitInv == ASSUME Init PROVE StepInv
  <1>1. StageInv
    BY DEF Init, StageInv, Early, Training
  <1>2. GenInv
    BY DEF Init, GenInv
  <1>3. BatchInv
    BY DEF Init, BatchInv, Early
  <1>4. ScoredInv
    BY DEF Init, ScoredInv, Training
  <1>5. LearnedInv
    BY DEF Init, LearnedInv
  <1> QED BY <1>1, <1>2, <1>3, <1>4, <1>5 DEF StepInv

\* The prompts are repeated, and padded in a validation.
LEMMA RepeatKeeps ==
    ASSUME MeshInOrder, BatchFits, StepInv, RepeatPrompts
    PROVE  StepInv'
  <1> DEFINE P == NumPrompts[mode]
             n == NumRollouts[mode]
             N == TotalRows(mode)
             ids == [p \in DOMAIN batch |-> p]
             prompts == Repeat(ids, n)
  <1>1. /\ at = "repeat" /\ at' = "generate" /\ mode' = mode /\ lens' = lens /\ Alike' = Alike
        /\ batch' = batch /\ learned' = learned
        /\ gen' = IF mode = "train" THEN prompts ELSE PadToDivisor(prompts, NumWorkers)
    BY DEF RepeatPrompts, setting, Alike
  <1>2. StageInv /\ batch = [p \in 1..P |-> Row(p)]
    BY <1>1 DEF StepInv, BatchInv, Early
  <1>3. P \in Nat \ {0} /\ n \in Nat \ {0} /\ N = P * n /\ N \in Nat \ {0} /\ NumWorkers \in Nat \ {0}
    BY <1>2, Sizes DEF TotalRows
  <1>4. ids = [p \in 1..P |-> p] /\ ids \in Seq(Nat) /\ Len(ids) = P
    <2>1. ids = [p \in 1..P |-> p]
      BY <1>2
    <2> HIDE DEF ids, P
    <2> QED BY <1>3, <2>1
  <1> HIDE DEF ids, P, n, N
  <1>5. /\ prompts \in Seq(Nat) /\ Len(prompts) = N
        /\ \A i \in 1..N : prompts[i] = PromptIn(mode, i)
    <2>1. /\ prompts \in Seq(Nat) /\ Len(prompts) = P * n
          /\ \A i \in 1..P * n : /\ ((i - 1) \div n) + 1 \in 1..P
                                 /\ prompts[i] = ids[((i - 1) \div n) + 1]
      BY <1>3, <1>4, RepeatProperties
    <2> HIDE DEF prompts
    <2>2. \A i \in 1..N : prompts[i] = ((i - 1) \div n) + 1
      BY <1>3, <1>4, <2>1
    <2>3. \A i \in 1..N : PromptIn(mode, i) = ((i - 1) \div n) + 1
      BY DEF PromptIn, n
    <2> QED BY <1>3, <2>1, <2>2, <2>3
  <1> HIDE DEF prompts
  <1>6. Asked(mode, gen')
    <2>1. CASE mode = "train"
      <3>1. Divides(NumWorkers, N)
        BY <1>2, <2>1, TrainingDivides, Sizes DEF N
      <3>2. PadSize(N, NumWorkers) = 0
        BY <3>1 DEF PadSize
      <3>3. Asked(mode, prompts)
        BY <1>3, <1>5, <3>2 DEF Asked, N
      <3> QED BY <1>1, <2>1, <3>3
    <2>2. CASE mode # "train"
      <3> DEFINE padded == PadToDivisor(prompts, NumWorkers)
      <3>1. /\ padded \in Seq(Nat) /\ Len(padded) = Len(prompts) + PadSize(Len(prompts), NumWorkers)
            /\ \A i \in 1..Len(prompts) : padded[i] = prompts[i]
        BY <1>3, <1>5, PadProperties
      <3> HIDE DEF padded
      <3>2. Asked(mode, padded)
        BY <1>5, <3>1 DEF Asked, N
      <3> QED BY <1>1, <2>2, <3>2 DEF padded
    <2> QED BY <2>1, <2>2
  <1>7. StageInv'
    BY <1>1, <1>2 DEF StageInv, Early, Training
  <1>8. GenInv'
    BY <1>1, <1>6 DEF GenInv
  <1>9. BatchInv'
    BY <1>1, <1>2 DEF BatchInv, Early, P
  <1>10. ScoredInv'
    BY <1>1 DEF ScoredInv, Training
  <1>11. LearnedInv'
    BY <1>1 DEF StepInv, LearnedInv, Trainings
  <1> QED BY <1>7, <1>8, <1>9, <1>10, <1>11 DEF StepInv

\* The shares are answered and put together.
LEMMA GenerateKeeps ==
    ASSUME MeshInOrder, BatchFits, StepInv, Generate
    PROVE  StepInv'
  <1> DEFINE N == TotalRows(mode)
             l == N + PadSize(N, NumWorkers)
             asked == [k \in DOMAIN gen |-> [prompt |-> gen[k], rollout |-> k]]
             T == [prompt : Nat, rollout : Nat]
  <1>1. /\ at = "generate" /\ at' = "union" /\ mode' = mode /\ lens' = lens /\ Alike' = Alike
        /\ batch' = batch /\ learned' = learned
        /\ gen' = Concat(Chunk(asked, NumWorkers))
    BY DEF Generate, setting, Alike
  <1>2. StageInv /\ batch = [p \in 1..NumPrompts[mode] |-> Row(p)] /\ Asked(mode, gen)
    BY <1>1 DEF StepInv, BatchInv, GenInv, Early
  <1>3. N \in Nat \ {0} /\ NumWorkers \in Nat \ {0}
    BY <1>2, Sizes
  <1>4. l \in Nat /\ N <= l /\ Divides(NumWorkers, l)
    <2> DEFINE pad == PadSize(N, NumWorkers)
    <2>1. pad \in Nat /\ Divides(NumWorkers, N + pad)
      BY <1>3, PaddingDivides
    <2> HIDE DEF pad, N
    <2>2. N + pad \in Nat /\ N <= N + pad
      BY <1>3, <2>1
    <2> QED BY <2>1, <2>2 DEF pad
  <1>5. gen \in Seq(Nat) /\ Len(gen) = l /\ \A i \in 1..N : gen[i] = PromptIn(mode, i)
    BY <1>2 DEF Asked
  <1> HIDE DEF N, l
  <1>6. asked = [k \in 1..l |-> [prompt |-> gen[k], rollout |-> k]]
    BY <1>4, <1>5
  <1> HIDE DEF asked
  <1>7. asked \in Seq(T) /\ Len(asked) = l
    <2>1. \A k \in 1..l : [prompt |-> gen[k], rollout |-> k] \in T
      BY <1>4, <1>5
    <2> HIDE DEF T
    <2> QED BY <1>4, <1>6, <2>1
  <1>8. gen' = asked
    <2>1. asked \in Seq(T) /\ Divides(NumWorkers, Len(asked))
      BY <1>4, <1>7
    <2> HIDE DEF T
    <2> QED BY <1>1, <1>3, <2>1, ConcatOfChunksIs
  <1>9. Answered(mode, asked)
    <2>1. \A i \in 1..N : i \in 1..l
      BY <1>3, <1>4
    <2>2. \A i \in 1..N : asked[i] = [prompt |-> PromptIn(mode, i), rollout |-> i]
      BY <1>5, <1>6, <2>1
    <2> QED BY <1>7, <2>2 DEF Answered, N, l
  <1>10. StageInv'
    BY <1>1, <1>2 DEF StageInv, Early, Training
  <1>11. GenInv'
    BY <1>1, <1>8, <1>9 DEF GenInv
  <1>12. BatchInv'
    BY <1>1, <1>2 DEF BatchInv, Early
  <1>13. ScoredInv'
    BY <1>1 DEF ScoredInv, Training
  <1>14. LearnedInv'
    BY <1>1 DEF StepInv, LearnedInv, Trainings
  <1> QED BY <1>10, <1>11, <1>12, <1>13, <1>14 DEF StepInv

\* A prompt's row takes a rollout of the prompt.
LEMMA FirstRow ==
    ASSUME NEW m, NEW k \in 1..TotalRows(m), TotalRows(m) \in Nat, PromptIn(m, k) \in Nat
    PROVE  LET r == [Row(PromptIn(m, k)) EXCEPT !.rollout = k]
           IN  r \in WholeRows(m) /\ r.rollout = k
  <1> DEFINE p == PromptIn(m, k)
             r == [Row(p) EXCEPT !.rollout = k]
  <1>1. r = [uid |-> p, rollout |-> k, score |-> 0, old_log_probs |-> 0,
             ref_log_prob |-> 0, values |-> 0, group |-> {}]
    BY DEF Row
  <1>2. p \in Nat /\ k \in Nat
    OBVIOUS
  <1> HIDE DEF p, r
  <1>3. r \in RowType
    BY <1>1, <1>2 DEF RowType
  <1>4. WholeRow(m, r)
    BY <1>1 DEF WholeRow, p
  <1>5. r \in WholeRows(m) /\ r.rollout = k
    BY <1>1, <1>3, <1>4 DEF WholeRows
  <1> QED BY <1>5 DEF p, r

\* The batch is repeated and takes the answers.
LEMMA UnionKeeps ==
    ASSUME MeshInOrder, BatchFits, StepInv, Union
    PROVE  StepInv'
  <1> DEFINE P == NumPrompts[mode]
             n == NumRollouts[mode]
             N == TotalRows(mode)
             pad == PadSize(N, NumWorkers)
             repeated == Repeat(batch, n)
             answers == Unpad(gen, PadSize(NumRows, NumWorkers))
             kept == IF mode = "train" THEN gen ELSE answers
             S == {Row(p) : p \in 1..P}
             T == [prompt : Nat, rollout : Nat]
  <1>1. /\ at = "union" /\ at' \in {"balance", "reward"} /\ (at' = "balance" => mode = "train")
        /\ mode' = mode /\ lens' = lens /\ Alike' = Alike
        /\ gen' = gen /\ learned' = learned
        /\ batch' = [i \in DOMAIN repeated |-> [repeated[i] EXCEPT !.rollout = kept[i].rollout]]
    BY DEF Union, setting, Alike
  <1>2. StageInv /\ batch = [p \in 1..P |-> Row(p)] /\ Answered(mode, gen)
    BY <1>1 DEF StepInv, BatchInv, GenInv, Early
  <1>3. /\ P \in Nat \ {0} /\ n \in Nat \ {0} /\ N = P * n /\ N \in Nat \ {0} /\ NumRows = N
        /\ NumWorkers \in Nat \ {0}
    BY <1>2, Sizes DEF TotalRows
  <1> HIDE DEF N
  <1>4. pad \in Nat
    BY <1>3, PaddingDivides
  <1>5. answers = Unpad(gen, pad)
    BY <1>3
  <1> HIDE DEF pad, answers
  <1>6. gen \in Seq(T) /\ Len(gen) = N + pad /\ \A i \in 1..N : gen[i].rollout = i
    <2>1. /\ gen \in Seq(T) /\ Len(gen) = N + pad
          /\ \A i \in 1..N : gen[i] = [prompt |-> PromptIn(mode, i), rollout |-> i]
      BY <1>2 DEF Answered, N, pad
    <2>2. \A i \in 1..N : gen[i].rollout = i
      <3> SUFFICES ASSUME NEW i \in 1..N PROVE gen[i].rollout = i
        OBVIOUS
      <3>1. gen[i] = [prompt |-> PromptIn(mode, i), rollout |-> i]
        BY <2>1
      <3> QED BY <3>1
    <2> QED BY <2>1, <2>2
  <1>7. \A i \in 1..N : answers[i] = gen[i]
    <2> DEFINE last == Len(gen) - pad
    <2>1. last = N /\ last \in Int
      BY <1>3, <1>4, <1>6
    <2>2. answers = SubSeq(gen, 1, last)
      BY <1>5 DEF Unpad
    <2>3. \A j \in 1..last : gen[j] \in T
      <3> HIDE DEF T
      <3>1. gen \in Seq(T) /\ \A j \in 1..last : j \in 1..Len(gen)
        BY <1>3, <1>4, <1>6, <2>1
      <3> QED BY <3>1
    <2> DEFINE first == 1
    <2>4. first \in Int
      OBVIOUS
    <2> HIDE DEF last, T, first
    <2>5. \A i \in 1..last - first + 1 : SubSeq(gen, first, last)[i] = gen[first + i - 1]
      <3>1. \A j \in first..last : gen[j] \in T
        BY <2>3 DEF first
      <3> QED BY <2>1, <2>4, <3>1, SubSeqProperties
    <2>6. last - first + 1 = N /\ \A i \in 1..N : first + i - 1 = i
      BY <1>3, <2>1 DEF first
    <2>7. \A i \in 1..N : SubSeq(gen, first, last)[i] = gen[i]
      BY <2>5, <2>6
    <2> QED BY <2>2, <2>7 DEF first
  <1>8. \A i \in 1..N : kept[i].rollout = i
    BY <1>6, <1>7
  <1> HIDE DEF kept
  <1>9. batch \in Seq(S) /\ Len(batch) = P
    <2>1. \A p \in 1..P : Row(p) \in S
      OBVIOUS
    <2> HIDE DEF S, P
    <2> QED BY <1>2, <1>3, <2>1
  <1>10. \A i \in 1..N : repeated[i] = Row(PromptIn(mode, i)) /\ PromptIn(mode, i) \in Nat
    <2> HIDE DEF S, P, n
    <2>1. /\ Len(repeated) = Len(batch) * n
          /\ \A i \in 1..Len(batch) * n : /\ ((i - 1) \div n) + 1 \in 1..Len(batch)
                                          /\ repeated[i] = batch[((i - 1) \div n) + 1]
      BY <1>3, <1>9, RepeatProperties
    <2> HIDE DEF repeated
    <2> SUFFICES ASSUME NEW i \in 1..N PROVE repeated[i] = Row(PromptIn(mode, i)) /\ PromptIn(mode, i) \in Nat
      OBVIOUS
    <2> DEFINE q == ((i - 1) \div n) + 1
    <2>2. q = PromptIn(mode, i)
      BY DEF PromptIn, n
    <2>3. q \in 1..P /\ repeated[i] = batch[q]
      BY <1>3, <1>9, <2>1
    <2> HIDE DEF q
    <2>4. batch[q] = Row(q) /\ q \in Nat
      BY <1>2, <1>3, <2>3
    <2> QED BY <2>2, <2>3, <2>4
  <1>11. DOMAIN repeated = 1..N
    <2> HIDE DEF S, P, n
    <2>1. repeated \in Seq(S) /\ Len(repeated) = Len(batch) * n
      BY <1>3, <1>9, RepeatProperties
    <2> HIDE DEF repeated
    <2> QED BY <1>3, <1>9, <2>1
  <1> HIDE DEF repeated
  <1> DEFINE b == batch'
             W == WholeRows(mode)
  <1>12. ASSUME NEW i \in 1..N PROVE b[i] \in W /\ b[i].rollout = i
    <2> DEFINE r == [Row(PromptIn(mode, i)) EXCEPT !.rollout = i]
    <2>1. b[i] = r
      BY <1>1, <1>8, <1>10, <1>11
    <2>2. r \in W /\ r.rollout = i
      BY <1>3, <1>10, FirstRow DEF N
    <2> HIDE DEF r
    <2> QED BY <2>1, <2>2
  <1>13. b = [i \in 1..N |-> b[i]]
    BY <1>1, <1>11
  <1> HIDE DEF b, W
  <1>14. b \in Seq(W) /\ Len(b) = N
    <2>1. b \in [1..N -> W]
      BY <1>12, <1>13
    <2>2. N \in Nat
      BY <1>3
    <2> QED BY <2>1, <2>2
  <1>15. WholeBatch(mode, b)
    <2>1. RolloutsOf(mode, b) = [i \in 1..N |-> i]
      BY <1>12 DEF RolloutsOf, N
    <2>2. Permutes([i \in 1..N |-> i], N)
      BY DEF Permutes
    <2> QED BY <1>14, <2>1, <2>2 DEF WholeBatch, N, W
  <1>16. StageInv'
    BY <1>1, <1>2 DEF StageInv, Early, Training
  <1>17. GenInv'
    BY <1>1, <1>2 DEF GenInv
  <1>18. BatchInv'
    BY <1>1, <1>15 DEF BatchInv, Early, b
  <1>19. ScoredInv'
    BY <1>1 DEF ScoredInv, Training
  <1>20. LearnedInv'
    BY <1>1 DEF StepInv, LearnedInv, Trainings
  <1> QED BY <1>16, <1>17, <1>18, <1>19, <1>20 DEF StepInv

\* A call after generation that does not train.
LEMMA CallKeeps ==
    ASSUME StepInv, UNCHANGED <<setting, gen, learned>>,
           at \notin {"repeat", "generate"} \cup Trainings,
           at' \in Training \cup {"reward", "done"}, at' \in Training => mode = "train",
           WholeBatch(mode, batch'),
           at' \in Training \ {"balance"} => Scored(mode, batch')
    PROVE  StepInv'
  <1>1. /\ mode' = mode /\ lens' = lens /\ Alike' = Alike /\ gen' = gen /\ learned' = learned
    BY DEF setting, Alike
  <1>2. StageInv'
    BY <1>1 DEF StepInv, StageInv, Early, Training
  <1>3. GenInv'
    BY <1>1 DEF StepInv, GenInv, Training
  <1>4. BatchInv'
    BY <1>1 DEF BatchInv, Early, Training
  <1>5. ScoredInv'
    BY <1>1 DEF ScoredInv, Training
  <1>6. LearnedInv'
    BY <1>1 DEF StepInv, LearnedInv, Trainings
  <1> QED BY <1>2, <1>3, <1>4, <1>5, <1>6 DEF StepInv

\* _balance_batch reorders the batch.
LEMMA BalanceKeeps ==
    ASSUME MeshInOrder, BatchFits, StepInv, Balance
    PROVE  StepInv'
  <1> DEFINE sizes == LensOf(batch)
             parts == Partitions(sizes, WorldSize, TRUE)
             perm == FlattenSeq(parts)
             N == NumRows
             w == WorldSize
             S == WholeRows(mode)
  <1>1. /\ at = "balance" /\ UNCHANGED <<setting, gen, learned>>
        /\ IF MayPartition(sizes, w, TRUE) /\ Sound(sizes, w, TRUE, parts)
           THEN batch' = Reorder(batch, perm) /\ at' = "reward"
           ELSE at' = "raised" /\ UNCHANGED batch
    BY DEF Balance
  <1>2. StageInv /\ mode = "train" /\ WholeBatch(mode, batch)
    BY <1>1 DEF StepInv, StageInv, BatchInv, Training, Early
  <1>3. /\ N \in Nat \ {0} /\ TotalRows(mode) = N /\ w \in Nat \ {0} /\ Divides(w, N) /\ N >= w
        /\ LensInv
    BY <1>2, Sizes, Ranks, TrainingDivides
  <1>4. batch \in Seq(S) /\ Len(batch) = N /\ \A r \in S : IsRow(r)
    <2>1. \A r \in S : r.rollout \in 1..TotalRows(mode)
      BY DEF WholeRows, WholeRow
    <2>2. Rollouts = 1..TotalRows(mode)
      BY <1>2, Sizes
    <2> QED BY <1>2, <1>3, <2>1, <2>2 DEF WholeBatch, IsRow
  <1> HIDE DEF N, w, S
  <1>5. Lengths(sizes) /\ Len(sizes) = N
    BY <1>3, <1>4, LensOfShare
  <1> HIDE DEF sizes
  <1>6. MayPartition(sizes, w, TRUE)
    BY <1>3, <1>5 DEF MayPartition, Divides
  <1>7. SharesOut(parts, w, N) /\ Sound(sizes, w, TRUE, parts)
    <2> DEFINE eq == TRUE
    <2>1. eq \in BOOLEAN /\ MayPartition(sizes, w, eq) /\ (eq = TRUE)
      BY <1>6
    <2> HIDE DEF eq
    <2> DEFINE p == Partitions(sizes, w, eq)
    <2>2. /\ SharesOut(p, w, Len(sizes)) /\ (\A c \in 1..w : p[c] # <<>>)
          /\ eq => \A c \in 1..w : Len(p[c]) * w = Len(sizes)
      BY <1>3, <1>5, <2>1, PartitionsShareOut
    <2> HIDE DEF p
    <2>3. Sound(sizes, w, eq, p)
      BY <1>3, <1>5, <2>1, <2>2, SharesAreSound
    <2>4. p = parts
      BY <2>1 DEF p, w
    <2> QED BY <1>5, <2>1, <2>2, <2>3, <2>4
  <1> HIDE DEF parts
  <1>8. perm \in Seq(1..N) /\ Len(perm) = N /\ Permutes(perm, N)
    BY <1>3, <1>7, FlattenPermutes
  <1> HIDE DEF perm
  <1>9. WholeBatch(mode, Reorder(batch, perm))
    <2> DEFINE t == TotalRows(mode)
    <2>1. t = N
      BY <1>3
    <2>2. t \in Nat /\ perm \in Seq(1..t) /\ Len(perm) = t /\ Permutes(perm, t)
      BY <1>3, <1>8, <2>1
    <2> QED BY <1>2, <2>2, Reordered
  <1>10. WholeBatch(mode, batch') /\ at' = "reward"
    BY <1>1, <1>6, <1>7, <1>9
  <1> QED BY <1>1, <1>10, CallKeeps DEF Trainings, Training

\* The scores.
LEMMA RewardKeeps ==
    ASSUME MeshInOrder, BatchFits, StepInv, Reward
    PROVE  StepInv'
  <1> DEFINE N == TotalRows(mode)
             b == batch'
             S == WholeRows(mode)
  <1>1. /\ at = "reward" /\ UNCHANGED <<setting, gen, learned>>
        /\ b = [i \in DOMAIN batch |-> [batch[i] EXCEPT !.score = batch[i].rollout]]
        /\ at' = IF mode = "train" THEN "old_log_prob" ELSE "done"
    BY DEF Reward
  <1>2. StageInv /\ WholeBatch(mode, batch)
    BY <1>1 DEF StepInv, BatchInv, Early
  <1>3. N \in Nat \ {0}
    BY <1>2, Sizes
  <1>4. batch \in Seq(S) /\ Len(batch) = N
    BY <1>2 DEF WholeBatch
  <1> HIDE DEF N, S, b
  <1>5. DOMAIN batch = 1..N /\ \A i \in 1..N : batch[i] \in S
    BY <1>4
  <1>6. ASSUME NEW i \in 1..N
        PROVE  b[i] \in S /\ b[i].rollout = batch[i].rollout /\ b[i].score = b[i].rollout
    <2> DEFINE r == batch[i]
               s == [r EXCEPT !.score = r.rollout]
    <2>1. b[i] = s /\ r \in S
      BY <1>1, <1>5
    <2> HIDE DEF r
    <2>2. s \in S /\ s.rollout = r.rollout /\ s.score = r.rollout
      BY <2>1, ScoreKept DEF S
    <2> HIDE DEF s
    <2> QED BY <2>1, <2>2 DEF r
  <1>7. DOMAIN b = 1..N /\ b = [i \in DOMAIN b |-> b[i]]
    BY <1>1, <1>5
  <1>8. WholeBatch(mode, b)
    BY <1>2, <1>3, <1>6, <1>7, StaysWhole DEF N, S
  <1>9. Scored(mode, b)
    BY <1>6 DEF Scored, N
  <1> QED BY <1>1, <1>8, <1>9, CallKeeps DEF Trainings, Training, b

\* The three calls that compute a field on the ranks.
LEMMA InferKeeps ==
    ASSUME MeshInOrder, BatchFits, StepInv,
           NEW here \in {"old_log_prob", "ref", "values"}, NEW next \in {"ref", "values", "adv"},
           NEW field \in {"old_log_probs", "ref_log_prob", "values"}, Infer(here, field, next)
    PROVE  StepInv'
  <1> DEFINE N == TotalRows(mode)
             b == batch'
             S == WholeRows(mode)
             shares == Dispatch(DpRank, DpSize, batch)
             parts == MicroParts(shares)
             found == Collect(Reports, [r \in DOMAIN shares |-> Forward(shares[r], parts[r])])
  <1>1. /\ at = here /\ UNCHANGED <<setting, gen, learned>>
        /\ IF MicroSound(shares, parts)
           THEN /\ b = [i \in DOMAIN batch |-> [batch[i] EXCEPT ![field] = found[i]]]
                /\ at' = next
           ELSE at' = "raised" /\ UNCHANGED batch
    BY DEF Infer
  <1>2. /\ StageInv /\ WholeBatch(mode, batch) /\ mode = "train" /\ Scored(mode, batch)
    BY <1>1 DEF StepInv, StageInv, BatchInv, ScoredInv, Early, Training
  <1>3. N \in Nat \ {0} /\ Rollouts = 1..N
    BY <1>2, Sizes
  <1>4. MicroSound(shares, parts) /\ \A i \in Rollouts : found[i] = batch[i].rollout
    BY <1>2, Found
  <1>5. batch \in Seq(S) /\ Len(batch) = N
    BY <1>2 DEF WholeBatch
  <1> HIDE DEF N, S, b, found, parts, shares
  <1>6. DOMAIN batch = 1..N /\ \A i \in 1..N : batch[i] \in S
    BY <1>5
  <1>7. /\ b = [i \in 1..N |-> [batch[i] EXCEPT ![field] = found[i]]]
        /\ at' = next
    BY <1>1, <1>4, <1>6
  <1>8. ASSUME NEW i \in 1..N
        PROVE  b[i] \in S /\ b[i].rollout = batch[i].rollout /\ b[i].score = batch[i].score
    <2> DEFINE r == batch[i]
               s == [r EXCEPT ![field] = r.rollout]
    <2>1. b[i] = s /\ r \in S
      BY <1>3, <1>4, <1>6, <1>7
    <2> HIDE DEF r
    <2>2. s \in S /\ s.rollout = r.rollout /\ s.score = r.score
      BY <2>1, FieldKept DEF S
    <2> HIDE DEF s
    <2> QED BY <2>1, <2>2 DEF r
  <1>9. DOMAIN b = 1..N /\ b = [i \in DOMAIN b |-> b[i]]
    BY <1>7
  <1>10. WholeBatch(mode, b)
    BY <1>2, <1>3, <1>8, <1>9, StaysWhole DEF N, S
  <1>11. Scored(mode, b)
    BY <1>2, <1>8 DEF Scored, N
  <1> QED BY <1>1, <1>2, <1>7, <1>10, <1>11, CallKeeps DEF Trainings, Training, b

\* The advantages.
LEMMA AdvantageKeeps ==
    ASSUME MeshInOrder, BatchFits, StepInv, Advantage
    PROVE  StepInv'
  <1> DEFINE N == TotalRows(mode)
             b == batch'
             S == WholeRows(mode)
             Group(i) == {batch[j].score : j \in {k \in DOMAIN batch : batch[k].uid = batch[i].uid}}
  <1>1. /\ at = "adv" /\ UNCHANGED <<setting, gen, learned>> /\ at' = "update_critic"
        /\ b = [i \in DOMAIN batch |-> [batch[i] EXCEPT !.group = Group(i)]]
    BY DEF Advantage
  <1>2. /\ StageInv /\ WholeBatch(mode, batch) /\ mode = "train" /\ Scored(mode, batch)
    BY <1>1 DEF StepInv, StageInv, BatchInv, ScoredInv, Early, Training
  <1>3. N \in Nat \ {0}
    BY <1>2, Sizes
  <1>4. batch \in Seq(S) /\ Len(batch) = N
    BY <1>2 DEF WholeBatch
  <1> HIDE DEF N, S, b
  <1>5. DOMAIN batch = 1..N /\ \A i \in 1..N : batch[i] \in S
    BY <1>4
  <1>6. \A i \in 1..N : batch[i].score = batch[i].rollout
    BY <1>2 DEF Scored, N
  <1>7. \A i \in 1..N : batch[i].rollout \in 1..N /\ batch[i].uid = PromptIn(mode, batch[i].rollout)
    BY <1>5, RowTyped DEF N, S
  <1>8. \A k \in 1..N : \E j \in 1..N : batch[j].rollout = k
    <2> DEFINE q == RolloutsOf(mode, batch)
    <2>1. q = [i \in 1..N |-> batch[i].rollout]
      BY DEF RolloutsOf, N
    <2>2. Permutes(q, N)
      BY <1>2 DEF WholeBatch, N
    <2> HIDE DEF q
    <2>3. \A k \in 1..N : \E j \in 1..N : q[j] = k
      BY <2>2 DEF Permutes
    <2> QED BY <2>1, <2>3
  <1>9. ASSUME NEW i \in 1..N PROVE Group(i) = GroupIn(mode, batch[i].uid)
    <2> DEFINE u == batch[i].uid
    <2> HIDE DEF u
    <2>1. \A x : x \in Group(i) <=> \E j \in 1..N : batch[j].uid = u /\ x = batch[j].score
      BY <1>5 DEF u
    <2>2. \A x : x \in GroupIn(mode, u) <=> x \in 1..N /\ PromptIn(mode, x) = u
      BY DEF GroupIn, N
    <2> DEFINE g == Group(i)
               h == GroupIn(mode, u)
    <2> HIDE DEF g, h
    <2>3. ASSUME NEW x \in g PROVE x \in h
      <3>1. PICK j \in 1..N : batch[j].uid = u /\ x = batch[j].score
        BY <2>1, <2>3 DEF g
      <3>2. x \in 1..N /\ PromptIn(mode, x) = u
        BY <1>6, <1>7, <3>1
      <3> QED BY <2>2, <3>2 DEF h
    <2>4. ASSUME NEW x \in h PROVE x \in g
      <3>1. x \in 1..N /\ PromptIn(mode, x) = u
        BY <2>2, <2>4 DEF h
      <3>2. PICK j \in 1..N : batch[j].rollout = x
        BY <1>8, <3>1
      <3>3. batch[j].uid = u /\ x = batch[j].score
        BY <1>6, <1>7, <3>1, <3>2
      <3> QED BY <2>1, <3>3 DEF g
    <2>5. g = h
      BY <2>3, <2>4
    <2> QED BY <2>5 DEF g, h, u
  <1>10. ASSUME NEW i \in 1..N
         PROVE  b[i] \in S /\ b[i].rollout = batch[i].rollout /\ b[i].score = batch[i].score
    <2> DEFINE r == batch[i]
               g == Group(i)
               s == [r EXCEPT !.group = g]
    <2>1. b[i] = s /\ r \in S
      BY <1>1, <1>5
    <2>2. g = GroupIn(mode, r.uid)
      BY <1>9
    <2> HIDE DEF r, g
    <2>3. GroupIn(mode, r.uid) \subseteq Nat
      BY <1>3 DEF GroupIn, N
    <2>4. s \in S /\ s.rollout = r.rollout /\ s.score = r.score
      BY <2>1, <2>2, <2>3, GroupKept DEF S
    <2> HIDE DEF s
    <2> QED BY <2>1, <2>4 DEF r
  <1>11. DOMAIN b = 1..N /\ b = [i \in DOMAIN b |-> b[i]]
    BY <1>1, <1>5
  <1>12. WholeBatch(mode, b)
    BY <1>2, <1>3, <1>10, <1>11, StaysWhole DEF N, S
  <1>13. Scored(mode, b)
    BY <1>2, <1>10 DEF Scored, N
  <1> QED BY <1>1, <1>2, <1>12, <1>13, CallKeeps DEF Trainings, Training, b

\* The two updates.
LEMMA UpdateKeeps ==
    ASSUME MeshInOrder, BatchFits, StepInv,
           NEW here \in {"update_critic", "update_actor"}, NEW model \in {"actor", "critic"},
           NEW places \in SUBSET Trainings, Update(here, model, places)
    PROVE  StepInv'
  <1> DEFINE each == TotalRows(mode) \div DpSize
             w == WorldSize
             S == WholeRows(mode)
             shares == Dispatch(DpRank, DpSize, batch)
             minis == Minis(shares)
             parts == PartsOf(minis)
             seen == Lessons(shares, minis, parts)
             E == Entries(S)
  <1>1. /\ at = here /\ UNCHANGED <<setting, gen, batch>>
        /\ IF \A c \in DOMAIN minis : MicroSound(minis[c], parts[c])
           THEN learned' = [learned EXCEPT ![model] = seen] /\ at' \in places
           ELSE at' = "raised" /\ UNCHANGED learned
    BY DEF Update, Minis, PartsOf, Lessons
  <1>2. /\ StageInv /\ WholeBatch(mode, batch) /\ mode = "train" /\ Scored(mode, batch)
        /\ LearnedInv /\ GenInv
    BY <1>1 DEF StepInv, StageInv, BatchInv, ScoredInv, Early, Training
  <1>3. LensInv /\ TotalRows(mode) = NumRows /\ MayRearrange(Width, MaxTokenLen)
    BY <1>2, Sizes DEF BatchFits
  <1>4. AreShares(shares, w, each, S)
    BY <1>2, <1>3, SharesOfBatch
  <1> HIDE DEF each, w, S, shares
  <1>5. /\ \A c \in DOMAIN minis : MicroSound(minis[c], parts[c])
        /\ DOMAIN seen = 1..w
        /\ \A r \in 1..w : Visits(seen[r], shares[r], each, E)
        /\ \A r, s \in 1..w : shares[r] = shares[s] => seen[r] = seen[s]
    BY <1>3, <1>4, UpdateVisits
  <1>6. Pass(mode, Alike, seen, batch)
    <2> HIDE DEF seen
    <2>1. E = EntriesOf(Alike, S)
      BY DEF Entries
    <2> HIDE DEF E
    <2> QED BY <1>5, <2>1 DEF Pass, shares, w, S, each
  <1> HIDE DEF minis, parts, seen, E
  <1>7. /\ learned' = [learned EXCEPT ![model] = seen] /\ at' \in Trainings
        /\ mode' = mode /\ lens' = lens /\ Alike' = Alike /\ gen' = gen /\ batch' = batch
    BY <1>1, <1>5 DEF setting, Alike
  <1>8. StageInv'
    BY <1>2, <1>7 DEF StageInv, Training, Trainings
  <1>9. GenInv'
    BY <1>1, <1>2, <1>7 DEF GenInv, Trainings
  <1>10. BatchInv'
    BY <1>2, <1>7 DEF BatchInv, Early, Trainings
  <1>11. ScoredInv'
    BY <1>2, <1>7 DEF ScoredInv
  <1>12. LearnedInv'
    <2>1. DOMAIN learned = {"actor", "critic"} /\ DOMAIN learned' = {"actor", "critic"}
      BY <1>2, <1>7 DEF LearnedInv
    <2>2. ASSUME NEW other \in {"actor", "critic"}, learned'[other] # <<>>
          PROVE  Pass(mode, Alike, learned'[other], batch)
      <3>1. CASE other = model
        BY <1>6, <1>7, <2>1, <3>1
      <3>2. CASE other # model
        <4>1. learned'[other] = learned[other]
          BY <1>7, <2>1, <3>2
        <4> QED BY <1>2, <2>2, <4>1 DEF LearnedInv
      <3> QED BY <3>1, <3>2
    <2> QED BY <1>2, <1>7, <2>1, <2>2 DEF LearnedInv
  <1> QED BY <1>8, <1>9, <1>10, <1>11, <1>12 DEF StepInv

\* Nothing changes.
LEMMA StutterKeeps == ASSUME StepInv, UNCHANGED vars PROVE StepInv'
  <1>1. /\ mode' = mode /\ lens' = lens /\ Alike' = Alike /\ gen' = gen /\ learned' = learned
        /\ at' = at /\ batch' = batch
    BY DEF vars, setting, Alike
  <1>2. StageInv'
    BY <1>1 DEF StepInv, StageInv
  <1>3. GenInv'
    BY <1>1 DEF StepInv, GenInv
  <1>4. BatchInv'
    BY <1>1 DEF StepInv, BatchInv
  <1>5. ScoredInv'
    BY <1>1 DEF StepInv, ScoredInv
  <1>6. LearnedInv'
    BY <1>1 DEF StepInv, LearnedInv
  <1> QED BY <1>2, <1>3, <1>4, <1>5, <1>6 DEF StepInv

\* So every step keeps the invariant.
LEMMA NextKeeps ==
    ASSUME MeshInOrder, BatchFits, StepInv, [Next]_vars
    PROVE  StepInv'
  <1>1. CASE RepeatPrompts
    BY <1>1, RepeatKeeps
  <1>2. CASE Generate
    BY <1>2, GenerateKeeps
  <1>3. CASE Union
    BY <1>3, UnionKeeps
  <1>4. CASE Balance
    BY <1>4, BalanceKeeps
  <1>5. CASE Reward
    BY <1>5, RewardKeeps
  <1>6. CASE OldLogProb
    BY <1>6, InferKeeps DEF OldLogProb
  <1>7. CASE RefLogProb
    BY <1>7, InferKeeps DEF RefLogProb
  <1>8. CASE Values
    BY <1>8, InferKeeps DEF Values
  <1>9. CASE Advantage
    BY <1>9, AdvantageKeeps
  <1>10. CASE UpdateCritic
    <2>1. {"update_actor", "done"} \in SUBSET Trainings
      BY DEF Trainings
    <2> QED BY <1>10, <2>1, UpdateKeeps DEF UpdateCritic
  <1>11. CASE UpdateActor
    <2>1. {"done"} \in SUBSET Trainings
      BY DEF Trainings
    <2> QED BY <1>11, <2>1, UpdateKeeps DEF UpdateActor
  <1>12. CASE UNCHANGED vars
    BY <1>12, StutterKeeps
  <1> QED BY <1>1, <1>2, <1>3, <1>4, <1>5, <1>6, <1>7, <1>8, <1>9, <1>10, <1>11, <1>12 DEF Next

\* The invariant, for every batch, configuration and mesh that fit together.
THEOREM StepInvariant == MeshInOrder /\ BatchFits => (Spec => []StepInv)
  <1> SUFFICES ASSUME MeshInOrder, BatchFits PROVE Spec => []StepInv
    OBVIOUS
  <1>1. Init => StepInv
    BY InitInv
  <1>2. StepInv /\ [Next]_vars => StepInv'
    BY NextKeeps
  <1> QED BY <1>1, <1>2, PTL DEF Spec

-----------------------------------------------------------------------------
(* What follows.                                                           *)

\* Rows that are whole have fields that belong together.
LEMMA InvRowsStayWhole == ASSUME StepInv PROVE RowsStayWhole
  <1> DEFINE N == TotalRows(mode)
  <1>1. StageInv /\ N \in Nat \ {0} /\ Rollouts = 1..N /\ NumRows = N
    BY Sizes DEF StepInv
  <1>2. CASE at \in Early
    <2>1. batch = [p \in 1..NumPrompts[mode] |-> Row(p)]
      BY <1>2 DEF StepInv, BatchInv
    <2>2. \A i \in DOMAIN batch : batch[i] = Row(i)
      BY <2>1
    <2>3. \A i \in DOMAIN batch : /\ batch[i].rollout = 0 /\ batch[i].group = {}
                                  /\ batch[i].score = 0 /\ batch[i].old_log_probs = 0
                                  /\ batch[i].ref_log_prob = 0 /\ batch[i].values = 0
      BY <2>2 DEF Row
    <2> QED BY <1>2, <2>3 DEF RowsStayWhole, Early
  <1>3. CASE at \notin Early
    <2> DEFINE S == WholeRows(mode)
               q == RolloutsOf(mode, batch)
    <2>1. WholeBatch(mode, batch) /\ Answered(mode, gen)
      BY <1>3 DEF StepInv, BatchInv, GenInv, Early
    <2>2. batch \in Seq(S) /\ Len(batch) = N /\ Permutes(q, N)
      BY <2>1 DEF WholeBatch
    <2>3. q = [i \in 1..N |-> batch[i].rollout]
      BY DEF RolloutsOf
    <2> HIDE DEF S, q
    <2>4. DOMAIN batch = 1..N /\ \A i \in 1..N : batch[i] \in S
      BY <2>2
    <2>5. {batch[i].rollout : i \in DOMAIN batch} = Rollouts
      <3>1. \A i \in 1..N : q[i] \in 1..N
        BY <2>2 DEF Permutes
      <3>2. \A k \in 1..N : \E i \in 1..N : q[i] = k
        BY <2>2 DEF Permutes
      <3> HIDE DEF N
      <3> QED BY <1>1, <2>3, <2>4, <3>1, <3>2
    <2>6. ASSUME NEW i \in DOMAIN batch
          PROVE  LET r == batch[i] IN
                   /\ r.rollout # 0 => r.uid = PromptOf(r.rollout) /\ r.uid = gen[r.rollout].prompt
                   /\ {r.score, r.old_log_probs, r.ref_log_prob, r.values} \subseteq {0, r.rollout}
                   /\ r.group \in {{}, {k \in Rollouts : PromptOf(k) = r.uid}}
      <3> DEFINE r == batch[i]
                 k == r.rollout
      <3>1. r \in S
        BY <2>4
      <3> HIDE DEF r
      <3>2. /\ k \in 1..N /\ r.uid = PromptIn(mode, k)
            /\ r.score \in {0, k} /\ r.old_log_probs \in {0, k}
            /\ r.ref_log_prob \in {0, k} /\ r.values \in {0, k}
            /\ r.group \in {{}, GroupIn(mode, r.uid)}
        BY <3>1, RowTyped DEF S
      <3>3. r.uid = PromptOf(k)
        BY <3>2 DEF PromptOf, PromptIn
      <3>4. r.uid = gen[k].prompt
        <4>1. gen[k] = [prompt |-> PromptIn(mode, k), rollout |-> k]
          BY <2>1, <3>2 DEF Answered
        <4> QED BY <3>2, <4>1
      <3>5. GroupIn(mode, r.uid) = {j \in Rollouts : PromptOf(j) = r.uid}
        BY <1>1 DEF GroupIn, PromptIn, PromptOf
      <3>6. {r.score, r.old_log_probs, r.ref_log_prob, r.values} \subseteq {0, k}
        BY <3>2
      <3>7. r.group \in {{}, {j \in Rollouts : PromptOf(j) = r.uid}}
        BY <3>2, <3>5
      <3> QED BY <3>3, <3>4, <3>6, <3>7 DEF r
    <2>7. Len(batch) = NumRows
      BY <1>1, <2>2
    <2> QED BY <2>5, <2>6, <2>7 DEF RowsStayWhole
  <1> QED BY <1>2, <1>3

\* No call raises.
LEMMA InvNeverRaises == ASSUME StepInv PROVE NeverRaises
  BY DEF StepInv, StageInv, NeverRaises, Early, Training

\* What a training pass has of a rank: as many entries as its share has rows.
LEMMA PassOfRank ==
    ASSUME NEW m, NEW alike, NEW seen, NEW b, Pass(m, alike, seen, b), NEW r \in 1..WorldSize
    PROVE  /\ seen[r] \in Seq(EntriesOf(alike, WholeRows(m)))
           /\ Len(seen[r]) = TotalRows(m) \div DpSize
           /\ \E perm : /\ Permutes(perm, TotalRows(m) \div DpSize)
                         /\ \A i \in 1..TotalRows(m) \div DpSize :
                               seen[r][i].row = Dispatch(DpRank, DpSize, b)[r][perm[i]]
  BY DEF Pass, Visits

\* With dynamic micro-batches and a mean over rows the entries of a pass weigh alike.
LEMMA InvRowsWeighAlike == ASSUME StepInv PROVE RowsWeighAlike
  <1> SUFFICES ASSUME Alike, NEW model \in DOMAIN learned, NEW r \in DOMAIN learned[model],
                      NEW j \in DOMAIN learned[model][r]
               PROVE  learned[model][r][j].weight[1] * MiniBatch = learned[model][r][j].weight[2]
    BY DEF RowsWeighAlike, Alike
  <1> DEFINE seen == learned[model]
             E == EntriesOf(Alike, WholeRows(mode))
             e == seen[r][j]
  <1>1. model \in {"actor", "critic"} /\ seen # <<>>
    BY DEF StepInv, LearnedInv
  <1>2. Pass(mode, Alike, seen, batch)
    BY <1>1 DEF StepInv, LearnedInv
  <1> HIDE DEF E
  <1>3. r \in 1..WorldSize
    BY <1>2 DEF Pass
  <1>4. seen[r] \in Seq(E)
    BY <1>2, <1>3, PassOfRank DEF E
  <1>5. e \in E
    BY <1>4
  <1> HIDE DEF e
  <1>6. e.weight \in Weights(Alike)
    BY <1>5 DEF E, EntriesOf
  <1>7. e.weight[1] * MiniBatch = e.weight[2]
    BY <1>6 DEF Weights
  <1> QED BY <1>7 DEF e

\* Different rows are at different places.
LEMMA RowsDiffer ==
    ASSUME NEW m, NEW b, WholeBatch(m, b), NEW i \in 1..TotalRows(m), NEW j \in 1..TotalRows(m), b[i] = b[j]
    PROVE  i = j
  <1> DEFINE q == RolloutsOf(m, b)
  <1>1. \A k, l \in 1..TotalRows(m) : q[k] = q[l] => k = l
    BY DEF WholeBatch, Permutes
  <1>2. q[i] = b[i].rollout /\ q[j] = b[j].rollout
    BY DEF RolloutsOf
  <1> HIDE DEF q
  <1> QED BY <1>1, <1>2

\* Where a rank has trained on the row at place i of the batch.
LEMMA RowOfEntry ==
    ASSUME MeshInOrder, BatchFits, StepInv, mode = "train", WholeBatch(mode, batch),
           NEW seen, Pass(mode, Alike, seen, batch)
    PROVE  LET each == TotalRows(mode) \div DpSize IN
             \A r \in 1..WorldSize :
                /\ DOMAIN seen[r] = 1..each
                /\ \E perm : /\ Permutes(perm, each)
                              /\ \A j \in 1..each :
                                    seen[r][j].row = batch[DpRank[r] * each + perm[j]]
  <1> DEFINE each == TotalRows(mode) \div DpSize
             w == WorldSize
             shares == Dispatch(DpRank, DpSize, batch)
  <1>1. StageInv /\ TotalRows(mode) = NumRows
    BY Sizes DEF StepInv
  <1>2. \A r \in 1..w : \A j \in 1..each : shares[r][j] = batch[DpRank[r] * each + j]
    BY <1>1, SharesOfBatch
  <1>3. each \in Nat
    BY <1>1, TrainingDivides
  <1>4. ASSUME NEW r \in 1..w
        PROVE  /\ DOMAIN seen[r] = 1..each
               /\ \E perm : /\ Permutes(perm, each)
                             /\ \A j \in 1..each : seen[r][j].row = batch[DpRank[r] * each + perm[j]]
    <2> DEFINE E == EntriesOf(Alike, WholeRows(mode))
    <2>1. seen[r] \in Seq(E) /\ Len(seen[r]) = each
      BY PassOfRank
    <2>2. PICK perm : /\ Permutes(perm, each)
                       /\ \A j \in 1..each : seen[r][j].row = shares[r][perm[j]]
      BY PassOfRank
    <2> HIDE DEF E, each, shares
    <2>3. \A j \in 1..each : perm[j] \in 1..each
      BY <2>2 DEF Permutes
    <2>4. \A j \in 1..each : seen[r][j].row = batch[DpRank[r] * each + perm[j]]
      BY <1>2, <2>2, <2>3
    <2> QED BY <2>1, <2>2, <2>4
  <1> QED BY <1>4

\* A row is at one place of the batch, that is in one chunk, one rank that reports
\* has trained on it, and once.
LEMMA PassIsOnce ==
    ASSUME MeshInOrder, BatchFits, StepInv, mode = "train", WholeBatch(mode, batch),
           NEW seen, Pass(mode, Alike, seen, batch), NEW i \in DOMAIN batch
    PROVE  Cardinality({x \in (DOMAIN seen) \X Rollouts :
                           /\ Reports[x[1]] /\ x[2] \in DOMAIN seen[x[1]]
                           /\ seen[x[1]][x[2]].row = batch[i]}) = 1
  <1> DEFINE each == TotalRows(mode) \div DpSize
             w == WorldSize
             N == TotalRows(mode)
             found == {x \in (DOMAIN seen) \X Rollouts :
                           /\ Reports[x[1]] /\ x[2] \in DOMAIN seen[x[1]]
                           /\ seen[x[1]][x[2]].row = batch[i]}
  <1>1. /\ N \in Nat \ {0} /\ NumRows = N /\ Rollouts = 1..N /\ StageInv
    BY Sizes DEF StepInv
  <1>2. each \in Nat \ {0} /\ DpSize * each = N
    BY <1>1, TrainingDivides
  <1>3. /\ DpSize \in Nat \ {0} /\ DpRank \in [1..w -> 0..DpSize - 1]
        /\ InOrder(DpRank, DpSize, Reports, w) /\ \A r \in 1..w : DpRank[r] + 1 \in 1..DpSize
    BY Ranks
  <1>4. i \in 1..N
    BY DEF WholeBatch
  <1>5. DOMAIN seen = 1..w
    BY DEF Pass
  <1>6. \A r \in 1..w :
          /\ DOMAIN seen[r] = 1..each
          /\ \E perm : /\ Permutes(perm, each)
                        /\ \A j \in 1..each : seen[r][j].row = batch[DpRank[r] * each + perm[j]]
    BY RowOfEntry
  <1> HIDE DEF each, w, N
  <1> DEFINE d == (i - 1) \div each
             k == ((i - 1) % each) + 1
  <1>7. d \in 0..DpSize - 1 /\ k \in 1..each /\ d * each + k = i
    <2> DEFINE m == (i - 1) % each
    <2>1. i \in 1..DpSize * each
      BY <1>2, <1>4
    <2>2. d \in 0..DpSize - 1 /\ m \in 0..each - 1 /\ i = d * each + m + 1
      BY <1>2, <1>3, <2>1, PlaceInChunk
    <2> HIDE DEF d, m
    <2>3. d * each \in Nat
      BY <1>2, <1>3, <2>2
    <2>4. m + 1 \in 1..each /\ d * each + (m + 1) = i
      BY <1>2, <2>2, <2>3
    <2> QED BY <2>2, <2>4 DEF m
  <1> HIDE DEF d, k
  <1>8. PICK r0 \in 1..w : Reports[r0] /\ DpRank[r0] = d
    BY <1>3, <1>7 DEF InOrder
  <1>9. PICK order0 : /\ Permutes(order0, each)
                      /\ \A j \in 1..each : seen[r0][j].row = batch[DpRank[r0] * each + order0[j]]
    BY <1>6, <1>8
  <1>10. PICK j0 \in 1..each : order0[j0] = k
    BY <1>7, <1>9 DEF Permutes
  <1>11. j0 \in 1..N
    <2>1. 1 * each <= DpSize * each
      BY <1>2, <1>3
    <2> QED BY <1>1, <1>2, <2>1
  <1> DEFINE x0 == <<r0, j0>>
  <1>12. x0 \in found
    <2>1. seen[r0][j0].row = batch[i]
      BY <1>7, <1>8, <1>9, <1>10
    <2>2. j0 \in DOMAIN seen[r0] /\ r0 \in DOMAIN seen /\ j0 \in Rollouts
      BY <1>1, <1>5, <1>6, <1>10, <1>11
    <2> QED BY <1>8, <2>1, <2>2
  <1>13. ASSUME NEW r \in 1..w, NEW j \in DOMAIN seen[r], Reports[r], seen[r][j].row = batch[i]
         PROVE  r = r0 /\ j = j0
    <2>1. j \in 1..each
      BY <1>6
    <2>2. PICK perm : /\ Permutes(perm, each)
                       /\ \A l \in 1..each : seen[r][l].row = batch[DpRank[r] * each + perm[l]]
      BY <1>6
    <2> DEFINE o == perm[j]
               c == DpRank[r] + 1
    <2>3. o \in 1..each
      BY <2>1, <2>2 DEF Permutes
    <2>4. c \in 1..DpSize /\ c - 1 = DpRank[r]
      BY <1>3
    <2>5. batch[DpRank[r] * each + o] = batch[i]
      BY <1>13, <2>1, <2>2
    <2> HIDE DEF o, c
    <2> DEFINE p == (c - 1) * each + o
    <2>6. p \in 1..DpSize * each
      BY <1>2, <1>3, <2>3, <2>4, PlaceOfChunk
    <2>7. p \in 1..N /\ batch[p] = batch[i]
      BY <1>2, <2>4, <2>5, <2>6
    <2>8. p = i
      <3> HIDE DEF p
      <3> QED BY <1>4, <2>7, RowsDiffer DEF N
    <2> DEFINE c0 == d + 1
    <2>9. c0 \in 1..DpSize /\ c0 - 1 = d
      BY <1>3, <1>7
    <2> HIDE DEF c0
    <2>10. (c0 - 1) * each + k = (c - 1) * each + o
      BY <1>7, <2>8, <2>9
    <2>11. c0 = c /\ k = o
      <3>1. \A e \in 1..DpSize, l \in 1..each :
               (c0 - 1) * each + k = (e - 1) * each + l => c0 = e /\ k = l
        <4>1. DpSize \in Nat /\ each \in Nat \ {0} /\ c0 \in 1..DpSize /\ k \in 1..each
          BY <1>2, <1>3, <1>7, <2>9
        <4> QED BY <4>1, PlaceOfChunk
      <3> QED BY <2>3, <2>4, <2>10, <3>1, Zenon
    <2>12. DpRank[r] = DpRank[r0]
      BY <1>8, <2>4, <2>9, <2>11
    <2>13. r = r0
      <3>1. DpRank[r] \in Int /\ DpRank[r0] \in Int
        BY <1>3
      <3>2. \A j1, k1 \in 1..w : Reports[j1] /\ Reports[k1] /\ j1 < k1 => DpRank[j1] < DpRank[k1]
        BY <1>3 DEF InOrder
      <3>3. (r < r0 => DpRank[r] < DpRank[r0]) /\ (r0 < r => DpRank[r0] < DpRank[r])
        BY <1>8, <1>13, <3>2
      <3>4. ~(r < r0) /\ ~(r0 < r)
        BY <2>12, <3>1, <3>3
      <3> QED BY <3>4
    <2>14. order0[j] = k
      <3>1. seen[r0][j].row = batch[DpRank[r0] * each + order0[j]]
        BY <1>9, <2>1
      <3> DEFINE o0 == order0[j]
      <3>2. o0 \in 1..each
        BY <1>9, <2>1 DEF Permutes
      <3>3. batch[(c0 - 1) * each + o0] = batch[i]
        BY <1>8, <1>13, <2>9, <2>13, <3>1
      <3> HIDE DEF o0
      <3> DEFINE p0 == (c0 - 1) * each + o0
      <3>4. p0 \in 1..DpSize * each
        BY <1>2, <1>3, <2>9, <3>2, PlaceOfChunk
      <3>5. p0 \in 1..N /\ batch[p0] = batch[i]
        BY <1>2, <3>3, <3>4
      <3>6. p0 = i
        <4> HIDE DEF p0
        <4> QED BY <1>4, <3>5, RowsDiffer DEF N
      <3>7. (c0 - 1) * each + k = (c0 - 1) * each + o0
        BY <1>7, <2>9, <3>6
      <3>8. k = o0
        BY <1>2, <1>3, <1>7, <2>9, <3>2, <3>7, PlaceOfChunk
      <3> QED BY <3>8 DEF o0
    <2>15. j = j0
      BY <1>9, <1>10, <2>1, <2>14 DEF Permutes
    <2> QED BY <2>13, <2>15
  <1>14. \A x \in found : x = x0
    <2> SUFFICES ASSUME NEW x \in found PROVE x = x0
      OBVIOUS
    <2> DEFINE r == x[1]
               j == x[2]
    <2>1. /\ x = <<r, j>> /\ r \in 1..w /\ Reports[r] /\ j \in DOMAIN seen[r]
          /\ seen[r][j].row = batch[i]
      BY <1>5
    <2> HIDE DEF r, j
    <2>2. r = r0 /\ j = j0
      BY <1>13, <2>1
    <2> QED BY <2>1, <2>2
  <1> HIDE DEF found, x0
  <1>15. found = {x0}
    BY <1>12, <1>14
  <1>16. Cardinality(found) = 1
    BY <1>15, FS_Singleton
  <1> QED BY <1>16 DEF found

\* A pass is over every row once.
LEMMA InvLearnedOnce == ASSUME MeshInOrder, BatchFits, StepInv PROVE LearnedOnce
  <1> SUFFICES ASSUME NEW model \in DOMAIN learned, learned[model] # <<>>
               PROVE  LET seen == learned[model] IN
                        /\ \A r, s \in DOMAIN seen : DpRank[r] = DpRank[s] => seen[r] = seen[s]
                        /\ \A i \in DOMAIN batch :
                              Cardinality({x \in (DOMAIN seen) \X Rollouts :
                                  /\ Reports[x[1]] /\ x[2] \in DOMAIN seen[x[1]]
                                  /\ seen[x[1]][x[2]].row = batch[i]}) = 1
    BY DEF LearnedOnce
  <1> DEFINE seen == learned[model]
             shares == Dispatch(DpRank, DpSize, batch)
  <1>1. model \in {"actor", "critic"}
    BY DEF StepInv, LearnedInv
  <1>2. at \in Trainings /\ mode = "train" /\ Pass(mode, Alike, seen, batch)
    BY <1>1 DEF StepInv, LearnedInv
  <1>3. WholeBatch(mode, batch) /\ StageInv
    BY <1>2 DEF StepInv, BatchInv, Early, Trainings
  <1>4. DOMAIN seen = 1..WorldSize /\ \A r, s \in 1..WorldSize : shares[r] = shares[s] => seen[r] = seen[s]
    BY <1>2 DEF Pass
  <1>5. \A r \in 1..WorldSize : shares[r] = Chunk(batch, DpSize)[DpRank[r] + 1]
    BY <1>2, <1>3, SharesOfBatch
  <1> HIDE DEF seen, shares
  <1>6. \A r, s \in DOMAIN seen : DpRank[r] = DpRank[s] => seen[r] = seen[s]
    BY <1>4, <1>5
  <1>7. \A i \in DOMAIN batch :
           Cardinality({x \in (DOMAIN seen) \X Rollouts :
               /\ Reports[x[1]] /\ x[2] \in DOMAIN seen[x[1]]
               /\ seen[x[1]][x[2]].row = batch[i]}) = 1
    BY <1>2, <1>3, PassIsOnce
  <1> QED BY <1>6, <1>7 DEF seen

-----------------------------------------------------------------------------

\* RowsStayWhole: through repeat, dispatch, balancing and micro-batches a row's
\* fields stay its own, for every batch, every lengths and every mesh.
THEOREM FieldsBelongTogether == MeshInOrder /\ BatchFits => (Spec => []RowsStayWhole)
  <1>1. StepInv => RowsStayWhole
    BY InvRowsStayWhole
  <1> QED BY <1>1, StepInvariant, PTL

\* NeverRaises: where the batch divides over workers and ranks and a row's padded
\* width fits a micro-batch, no assertion of seqlen_balancing or _balance_batch
\* fails: karmarkar_karp leaves no share empty, loses no row, and the ranks never
\* agree on more micro-batches than one of them has rows.
THEOREM PartitionsAreNeverRefused == MeshInOrder /\ BatchFits => (Spec => []NeverRaises)
  <1>1. StepInv => NeverRaises
    BY InvNeverRaises
  <1> QED BY <1>1, StepInvariant, PTL

\* LearnedOnce: actor and critic are trained once on every row of the batch, and
\* ranks of one data-parallel rank alike.
THEOREM EveryRowIsTrainedOnce == MeshInOrder /\ BatchFits => (Spec => []LearnedOnce)
  <1> SUFFICES ASSUME MeshInOrder, BatchFits PROVE Spec => []LearnedOnce
    OBVIOUS
  <1>1. StepInv => LearnedOnce
    BY InvLearnedOnce
  <1>2. Spec => []StepInv
    BY StepInvariant
  <1> QED BY <1>1, <1>2, PTL

\* RowsWeighAlike: with a loss that is a mean over a micro-batch's rows, however
\* karmarkar_karp packs the rows into micro-batches, all have the same weight in an
\* update.  Nothing is said of token-mean, the default, and of
\* seq-mean-token-sum-norm, for which it is false.
THEOREM PackingDoesNotWeigh == MeshInOrder /\ BatchFits => (Spec => []RowsWeighAlike)
  <1>1. StepInv => RowsWeighAlike
    BY InvRowsWeighAlike
  <1> QED BY <1>1, StepInvariant, PTL
-----------------------------------------------------------------------------
(***************************************************************************)
(* Advantages, whose batches are balanced with the same partitions.        *)
(* First, sums.                                                            *)
(***************************************************************************)

\* Lists of so many numbers, and the sequence of a list's partial sums.
Numbers(n) == [1..n -> Int]
Partial(s, f, n) == s \in [0..n -> Int] /\ s[0] = 0 /\ \A m \in 1..n : s[m] = s[m - 1] + f[m]

\* A sum is the last of the partial sums.
LEMMA SumRounds ==
    ASSUME NEW n \in Nat, NEW list \in Numbers(n)
    PROVE  \E s : Partial(s, list, n) /\ Summed(list) = s[n]
  <1> DEFINE step == [x \in Int \X (1..n) |-> x[1] + list[x[2]]]
             Sums(g) == g = [m \in 0..n |-> IF m = 0 THEN 0 ELSE g[m - 1] + list[m]]
             sum == CHOOSE g : Sums(g)
  <1>1. Len(list) = n /\ \A m \in 1..n : list[m] \in Int
    BY DEF Numbers
  <1>2. Summed(list) = sum[n]
    BY <1>1 DEF Summed
  <1>3. step \in [Int \X (1..n) -> Int]
    <2> SUFFICES ASSUME NEW x \in Int \X (1..n) PROVE x[1] + list[x[2]] \in Int
      OBVIOUS
    <2>1. x[1] \in Int /\ x[2] \in 1..n
      OBVIOUS
    <2> QED BY <1>1, <2>1
  <1>4. \A a \in Int, m \in 1..n : step[<<a, m>>] = a + list[m]
    OBVIOUS
  <1> HIDE DEF step
  <1>5. PICK h \in [0..n -> Int] : h[0] = 0 /\ \A m \in 1..n : h[m] = step[<<h[m - 1], m>>]
    <2> DEFINE N == n
    <2>1. Stepping(step, Int, 0, N)
      BY <1>3 DEF Stepping
    <2> HIDE DEF N
    <2>2. \E h \in [0..N -> Int] : h[0] = 0 /\ \A m \in 1..N : h[m] = step[<<h[m - 1], m>>]
      BY <2>1, Steps
    <2> QED BY <2>2 DEF N
  <1>6. \A m \in 1..n : h[m] = h[m - 1] + list[m]
    <2>1. \A m \in 1..n : h[m - 1] \in Int
      OBVIOUS
    <2> QED BY <1>4, <1>5, <2>1
  <1>7. Sums(h)
    <2>1. \A m \in 0..n : h[m] = IF m = 0 THEN 0 ELSE h[m - 1] + list[m]
      BY <1>5, <1>6
    <2>2. h = [m \in 0..n |-> h[m]]
      OBVIOUS
    <2> QED BY <2>1, <2>2
  <1>8. Sums(sum)
    BY <1>7
  <1>9. sum[0] = 0 /\ \A m \in 1..n : sum[m] = sum[m - 1] + list[m]
    <2> HIDE DEF sum
    <2> QED BY <1>8
  <1>10. sum \in [0..n -> Int]
    <2> HIDE DEF sum
    <2> DEFINE Bad == {m \in 0..n : sum[m] \notin Int}
    <2>1. DOMAIN sum = 0..n /\ sum = [m \in 0..n |-> sum[m]]
      BY <1>8
    <2> SUFFICES ASSUME Bad # {} PROVE FALSE
      BY <2>1
    <2>2. PICK b \in Bad : \A e \in Bad : b <= e
      <3>1. Bad \in SUBSET Nat
        OBVIOUS
      <3> HIDE DEF Bad
      <3> QED BY <3>1, Least
    <2>3. b \in 0..n /\ sum[b] \notin Int
      OBVIOUS
    <2>4. b \in 1..n /\ b - 1 \in 0..n /\ ~(b <= b - 1)
      BY <1>9, <2>3
    <2>5. sum[b - 1] \in Int
      BY <2>2, <2>4
    <2>6. sum[b] = sum[b - 1] + list[b] /\ list[b] \in Int
      BY <1>1, <1>9, <2>4
    <2> QED BY <2>3, <2>5, <2>6
  <1> HIDE DEF sum
  <1> QED BY <1>2, <1>9, <1>10 DEF Partial

\* There is only one sequence of partial sums.
LEMMA SumIs ==
    ASSUME NEW n \in Nat, NEW f \in Numbers(n), NEW g, Partial(g, f, n)
    PROVE  Summed(f) = g[n]
  <1>1. PICK s : Partial(s, f, n) /\ Summed(f) = s[n]
    BY SumRounds
  <1> DEFINE Bad == {m \in 0..n : s[m] # g[m]}
  <1> SUFFICES ASSUME Bad # {} PROVE FALSE
    BY <1>1
  <1>2. PICK b \in Bad : \A e \in Bad : b <= e
    <2>1. Bad \in SUBSET Nat
      OBVIOUS
    <2> HIDE DEF Bad
    <2> QED BY <2>1, Least
  <1>3. b \in 0..n /\ s[b] # g[b]
    OBVIOUS
  <1>4. b \in 1..n /\ b - 1 \in 0..n /\ ~(b <= b - 1)
    BY <1>1, <1>3 DEF Partial
  <1>5. s[b - 1] = g[b - 1]
    BY <1>2, <1>4
  <1>6. s[b] = s[b - 1] + f[b] /\ g[b] = g[b - 1] + f[b]
    BY <1>1, <1>4 DEF Partial
  <1> QED BY <1>3, <1>5, <1>6

\* A sum is a number.
LEMMA SumType ==
    ASSUME NEW n \in Nat, NEW f \in Numbers(n)
    PROVE  Summed(f) \in Int
  <1>1. PICK s : Partial(s, f, n) /\ Summed(f) = s[n]
    BY SumRounds
  <1> QED BY <1>1 DEF Partial

\* A sum is that of all numbers but the last, and the last.
LEMMA SumFront ==
    ASSUME NEW n \in Nat, NEW f \in Numbers(n + 1)
    PROVE  Summed(f) = Summed([j \in 1..n |-> f[j]]) + f[n + 1]
  <1> DEFINE front == [j \in 1..n |-> f[j]]
  <1>1. PICK s : Partial(s, f, n + 1) /\ Summed(f) = s[n + 1]
    BY SumRounds
  <1>2. front \in Numbers(n) /\ f[n + 1] \in Int
    BY DEF Numbers
  <1> DEFINE g == [m \in 0..n |-> s[m]]
  <1>3. Partial(g, front, n)
    BY <1>1 DEF Partial
  <1>4. Summed(front) = g[n]
    <2> HIDE DEF front, g
    <2> QED BY <1>2, <1>3, SumIs
  <1>5. s[n + 1] = s[n] + f[n + 1]
    <2>1. n + 1 \in 1..(n + 1) /\ (n + 1) - 1 = n
      OBVIOUS
    <2> QED BY <1>1, <2>1 DEF Partial
  <1> QED BY <1>1, <1>4, <1>5

\* A sum of numbers that are not negative is not less than one of them.
LEMMA SumIsAtLeast ==
    ASSUME NEW n \in Nat, NEW f \in Numbers(n), \A j \in 1..n : f[j] >= 0, NEW k \in 1..n
    PROVE  Summed(f) >= 0 /\ Summed(f) >= f[k]
  <1>1. PICK s : Partial(s, f, n) /\ Summed(f) = s[n]
    BY SumRounds
  <1>2. /\ \A m \in 0..n : s[m] \in Int
        /\ \A m \in 1..n : s[m] = s[m - 1] + f[m] /\ f[m] \in Int
        /\ s[0] = 0
    BY <1>1 DEF Partial, Numbers
  <1>3. \A m \in 0..n : s[m] >= 0
    <2> DEFINE Bad == {m \in 0..n : ~(s[m] >= 0)}
    <2> SUFFICES ASSUME Bad # {} PROVE FALSE
      OBVIOUS
    <2>1. PICK b \in Bad : \A e \in Bad : b <= e
      <3>1. Bad \in SUBSET Nat
        OBVIOUS
      <3> HIDE DEF Bad
      <3> QED BY <3>1, Least
    <2>2. b \in 0..n /\ ~(s[b] >= 0)
      OBVIOUS
    <2>3. b \in 1..n /\ b - 1 \in 0..n /\ ~(b <= b - 1)
      BY <1>2, <2>2
    <2>4. s[b - 1] >= 0
      BY <2>1, <2>3
    <2> QED BY <1>2, <2>2, <2>3, <2>4
  <1>4. \A m \in k..n : s[m] >= f[k]
    <2> DEFINE Bad == {m \in k..n : ~(s[m] >= f[k])}
    <2> SUFFICES ASSUME Bad # {} PROVE FALSE
      OBVIOUS
    <2>1. PICK b \in Bad : \A e \in Bad : b <= e
      <3>1. Bad \in SUBSET Nat
        OBVIOUS
      <3> HIDE DEF Bad
      <3> QED BY <3>1, Least
    <2>2. b \in k..n /\ ~(s[b] >= f[k])
      OBVIOUS
    <2>3. b \in 1..n /\ b - 1 \in 0..n /\ s[b] = s[b - 1] + f[b] /\ s[b - 1] >= 0
      BY <1>2, <1>3, <2>2
    <2>4. b # k
      BY <1>2, <2>2, <2>3
    <2>5. b - 1 \in k..n /\ ~(b <= b - 1)
      BY <2>2, <2>4
    <2>6. s[b - 1] >= f[k]
      BY <2>1, <2>5
    <2> QED BY <1>2, <2>2, <2>3, <2>6
  <1> QED BY <1>1, <1>3, <1>4

\* A list is so many times another, and so many times a third.
Combines(both, a, f, c, h, n) ==
    both = [j \in 1..n |-> both[j]] /\ \A j \in 1..n : both[j] = a * f[j] + c * h[j]

\* Its sum is as many times theirs.
LEMMA SumCombines ==
    ASSUME NEW n \in Nat, NEW f \in Numbers(n), NEW h \in Numbers(n), NEW a \in Int, NEW c \in Int,
           NEW both, Combines(both, a, f, c, h, n)
    PROVE  both \in Numbers(n) /\ Summed(both) = a * Summed(f) + c * Summed(h)
  <1>0. both = [j \in 1..n |-> both[j]] /\ \A j \in 1..n : both[j] = a * f[j] + c * h[j]
    BY DEF Combines
  <1>1. PICK s : Partial(s, f, n) /\ Summed(f) = s[n]
    BY SumRounds
  <1>2. PICK t : Partial(t, h, n) /\ Summed(h) = t[n]
    BY SumRounds
  <1> DEFINE g == [m \in 0..n |-> a * s[m] + c * t[m]]
  <1>3. both \in Numbers(n)
    <2>1. \A j \in 1..n : f[j] \in Int /\ h[j] \in Int
      BY DEF Numbers
    <2>2. \A j \in 1..n : a * f[j] + c * h[j] \in Int
      BY <2>1
    <2> QED BY <1>0, <2>2 DEF Numbers
  <1>4. Partial(g, both, n)
    <2>1. \A m \in 0..n : s[m] \in Int /\ t[m] \in Int
      BY <1>1, <1>2 DEF Partial
    <2>2. \A m \in 0..n : a * s[m] + c * t[m] \in Int
      BY <2>1
    <2>3. g \in [0..n -> Int] /\ g[0] = 0
      <3>1. s[0] = 0 /\ t[0] = 0 /\ 0 \in 0..n
        BY <1>1, <1>2 DEF Partial
      <3> QED BY <2>2, <3>1
    <2>4. ASSUME NEW m \in 1..n PROVE g[m] = g[m - 1] + both[m]
      <3>1. m \in 0..n /\ m - 1 \in 0..n
        OBVIOUS
      <3>2. s[m] = s[m - 1] + f[m] /\ t[m] = t[m - 1] + h[m]
        BY <1>1, <1>2 DEF Partial
      <3>3. f[m] \in Int /\ h[m] \in Int
        BY DEF Numbers
      <3>4. \A x, y, u, v \in Int :
                a * (x + u) + c * (y + v) = (a * x + c * y) + (a * u + c * v)
        OBVIOUS
      <3>5. a * s[m] + c * t[m] = (a * s[m - 1] + c * t[m - 1]) + (a * f[m] + c * h[m])
        BY <2>1, <3>1, <3>2, <3>3, <3>4
      <3> QED BY <1>0, <3>1, <3>5
    <2> HIDE DEF g
    <2> QED BY <2>3, <2>4 DEF Partial
  <1>5. Summed(both) = g[n]
    <2> HIDE DEF g
    <2> QED BY <1>3, <1>4, SumIs
  <1> QED BY <1>1, <1>2, <1>3, <1>5

\* What one number does to a sum.
LEMMA SumPoint ==
    ASSUME NEW n \in Nat, NEW f \in Numbers(n), NEW h \in Numbers(n), NEW k \in 1..n,
           \A j \in 1..n : j # k => h[j] = f[j]
    PROVE  Summed(h) = Summed(f) - f[k] + h[k]
  <1>1. PICK s : Partial(s, f, n) /\ Summed(f) = s[n]
    BY SumRounds
  <1> DEFINE g == [m \in 0..n |-> IF m >= k THEN s[m] - f[k] + h[k] ELSE s[m]]
  <1>2. \A m \in 0..n : s[m] \in Int
    BY <1>1 DEF Partial
  <1>3. \A j \in 1..n : f[j] \in Int /\ h[j] \in Int
    BY DEF Numbers
  <1>4. Partial(g, h, n)
    <2>1. g \in [0..n -> Int]
      BY <1>2, <1>3
    <2>2. g[0] = 0
      BY <1>1 DEF Partial
    <2>3. ASSUME NEW m \in 1..n PROVE g[m] = g[m - 1] + h[m]
      <3>1. m \in 0..n /\ m - 1 \in 0..n /\ m \in Int
        OBVIOUS
      <3>2. s[m] = s[m - 1] + f[m]
        BY <1>1 DEF Partial
      <3>3. CASE m = k
        BY <1>2, <1>3, <3>1, <3>2, <3>3
      <3>4. CASE m # k
        <4>1. h[m] = f[m] /\ (m >= k <=> m - 1 >= k)
          BY <3>4
        <4> QED BY <1>2, <1>3, <3>1, <3>2, <4>1
      <3> QED BY <3>3, <3>4
    <2> HIDE DEF g
    <2> QED BY <2>1, <2>2, <2>3 DEF Partial
  <1>5. Summed(h) = g[n]
    <2> HIDE DEF g
    <2> QED BY <1>4, SumIs
  <1>6. n \in 0..n /\ n >= k
    OBVIOUS
  <1> QED BY <1>1, <1>5, <1>6

\* The numbers of a set's members are summed as often as it has members.
LEMMA SumCounts ==
    ASSUME NEW n \in Nat, NEW S \in SUBSET (1..n)
    PROVE  /\ [j \in 1..n |-> IF j \in S THEN 1 ELSE 0] \in Numbers(n)
           /\ Summed([j \in 1..n |-> IF j \in S THEN 1 ELSE 0]) = Cardinality(S)
  <1> DEFINE f == [j \in 1..n |-> IF j \in S THEN 1 ELSE 0]
             Up(m) == {j \in S : j <= m}
             g == [m \in 0..n |-> Cardinality(Up(m))]
  <1>0. \A j \in S : j \in 1..n /\ j \in Int /\ j >= 1 /\ j <= n
    OBVIOUS
  <1>1. f \in Numbers(n)
    BY DEF Numbers
  <1>2. \A m \in 0..n : IsFiniteSet(Up(m)) /\ Cardinality(Up(m)) \in Nat
    <2> TAKE m \in 0..n
    <2>1. IsFiniteSet(1..n)
      BY FS_Interval
    <2>2. Up(m) \in SUBSET (1..n)
      OBVIOUS
    <2> HIDE DEF Up
    <2> QED BY <2>1, <2>2, FS_Subset, FS_CardinalityType
  <1>3. Partial(g, f, n)
    <2>1. g \in [0..n -> Int]
      BY <1>2
    <2>2. g[0] = 0
      <3>1. Up(0) = {}
        <4>1. \A j \in S : ~(j <= 0)
          BY <1>0
        <4> QED BY <4>1
      <3>2. g[0] = Cardinality(Up(0))
        OBVIOUS
      <3> QED BY <3>1, <3>2, FS_EmptySet
    <2>3. ASSUME NEW m \in 1..n PROVE g[m] = g[m - 1] + f[m]
      <3>1. m \in 0..n /\ m - 1 \in 0..n
        OBVIOUS
      <3>2. g[m] = Cardinality(Up(m)) /\ g[m - 1] = Cardinality(Up(m - 1))
        BY <3>1
      <3>3. CASE m \in S
        <4>1. Up(m) = Up(m - 1) \cup {m} /\ m \notin Up(m - 1)
          <5>1. \A j \in S : j <= m <=> j <= m - 1 \/ j = m
            BY <1>0
          <5>2. ~(m <= m - 1) /\ m <= m
            BY <1>0
          <5> QED BY <3>3, <5>1, <5>2
        <4>2. IsFiniteSet(Up(m - 1)) /\ Cardinality(Up(m - 1)) \in Nat
          BY <1>2, <3>1
        <4> HIDE DEF Up
        <4>3. Cardinality(Up(m)) = Cardinality(Up(m - 1)) + 1
          BY <4>1, <4>2, FS_AddElement
        <4>4. f[m] = 1
          BY <3>3
        <4> QED BY <3>2, <4>3, <4>4
      <3>4. CASE m \notin S
        <4>1. Up(m) = Up(m - 1)
          <5>1. \A j \in S : j <= m <=> j <= m - 1
            BY <1>0, <3>4
          <5> QED BY <5>1
        <4>2. f[m] = 0 /\ Cardinality(Up(m - 1)) \in Nat
          BY <1>2, <3>1, <3>4
        <4> HIDE DEF Up
        <4> QED BY <3>2, <4>1, <4>2
      <3> QED BY <3>3, <3>4
    <2> HIDE DEF g, f
    <2> QED BY <2>1, <2>2, <2>3 DEF Partial
  <1>4. Summed(f) = g[n]
    <2> HIDE DEF g, f
    <2> QED BY <1>1, <1>3, SumIs
  <1>5. Up(n) = S
    BY <1>0
  <1>6. g[n] = Cardinality(Up(n))
    OBVIOUS
  <1> QED BY <1>1, <1>4, <1>5, <1>6

\* A list in another order.
Permuted(f, p, n) == [j \in 1..n |-> f[p[j]]]

\* A sum does not depend on the order of its numbers.
LEMMA SumPermuted ==
    ASSUME NEW l \in Nat, NEW list \in Numbers(l), NEW perm, Permutes(perm, l)
    PROVE  /\ Permuted(list, perm, l) \in Numbers(l)
           /\ Summed(Permuted(list, perm, l)) = Summed(list)
  <1> DEFINE Good(n) == \A f \in Numbers(n) : \A p : Permutes(p, n) =>
                            Summed(Permuted(f, p, n)) = Summed(f)
             Bad == {n \in Nat : ~Good(n)}
  <1>1. ASSUME NEW n \in Nat, NEW f \in Numbers(n), NEW p, Permutes(p, n)
        PROVE  Permuted(f, p, n) \in Numbers(n)
    BY <1>1 DEF Permuted, Numbers, Permutes
  <1> SUFFICES ASSUME Bad # {} PROVE FALSE
    <2>1. Good(l)
      OBVIOUS
    <2> HIDE DEF Bad
    <2> QED BY <1>1, <2>1
  <1>2. PICK b \in Bad : \A e \in Bad : b <= e
    <2>1. Bad \in SUBSET Nat
      OBVIOUS
    <2> HIDE DEF Bad
    <2> QED BY <2>1, Least
  <1>3. b \in Nat /\ ~Good(b)
    OBVIOUS
  <1>4. PICK f, p : /\ f \in Numbers(b) /\ Permutes(p, b)
                    /\ Summed(Permuted(f, p, b)) # Summed(f)
    BY <1>3
  <1> HIDE DEF Good
  <1>5. b # 0
    <2> SUFFICES ASSUME b = 0 PROVE Permuted(f, p, b) = f
      BY <1>4
    <2> QED BY <1>4 DEF Permuted, Numbers
  <1> DEFINE m == b - 1
  <1>6. m \in Nat /\ b = m + 1 /\ Good(m)
    <2>1. m \in Nat /\ b = m + 1 /\ ~(b <= m)
      BY <1>3, <1>5
    <2>2. m \notin Bad
      <3> HIDE DEF Bad, m
      <3> QED BY <1>2, <2>1
    <2> QED BY <2>1, <2>2
  <1> HIDE DEF m, Bad
  <1>7. /\ f \in Numbers(m + 1) /\ f \in [1..(m + 1) -> Int]
        /\ p \in [1..(m + 1) -> 1..(m + 1)]
        /\ \A i, j \in 1..(m + 1) : p[i] = p[j] => i = j
        /\ \A j \in 1..(m + 1) : \E i \in 1..(m + 1) : p[i] = j
    BY <1>4, <1>6 DEF Permutes, Numbers
  <1>8. m + 1 \in 1..(m + 1) /\ \A j \in 1..m : j \in 1..(m + 1) /\ j # m + 1
    BY <1>6
  <1>9. PICK k \in 1..(m + 1) : p[k] = m + 1
    BY <1>7, <1>8
  <1> DEFINE c == p[m + 1]
             q == [j \in 1..m |-> IF j = k THEN c ELSE p[j]]
             front == [j \in 1..m |-> f[j]]
             g == Permuted(f, p, m + 1)
             gFront == [j \in 1..m |-> g[j]]
             h == Permuted(front, q, m)
  <1>10. \A j \in 1..m : q[j] \in 1..m
    <2> SUFFICES ASSUME NEW j \in 1..m PROVE q[j] \in 1..m
      OBVIOUS
    <2>1. CASE j = k
      <3>1. c # m + 1 /\ c \in 1..(m + 1)
        BY <1>7, <1>8, <1>9, <2>1
      <3> QED BY <1>6, <2>1, <3>1
    <2>2. CASE j # k
      <3>1. p[j] # m + 1 /\ p[j] \in 1..(m + 1)
        BY <1>7, <1>8, <1>9, <2>2
      <3> QED BY <1>6, <2>2, <3>1
    <2> QED BY <2>1, <2>2
  <1>11. Permutes(q, m)
    <2>1. q \in [1..m -> 1..m]
      BY <1>10
    <2>2. ASSUME NEW i \in 1..m, NEW j \in 1..m, q[i] = q[j] PROVE i = j
      <3>1. i \in 1..(m + 1) /\ j \in 1..(m + 1) /\ m + 1 \in 1..(m + 1) /\ i # m + 1 /\ j # m + 1
        BY <1>8
      <3>2. /\ q[i] = IF i = k THEN p[m + 1] ELSE p[i]
            /\ q[j] = IF j = k THEN p[m + 1] ELSE p[j]
        OBVIOUS
      <3> HIDE DEF q
      <3> QED BY <1>7, <2>2, <3>1, <3>2
    <2>3. ASSUME NEW j \in 1..m PROVE \E i \in 1..m : q[i] = j
      <3>1. PICK i \in 1..(m + 1) : p[i] = j
        BY <1>7, <1>8
      <3>2. i # k
        BY <1>8, <1>9, <3>1
      <3>3. CASE i = m + 1
        <4>1. k \in 1..m
          BY <1>6, <3>2, <3>3
        <4>2. q[k] = j
          BY <3>1, <3>3, <4>1
        <4> HIDE DEF q
        <4> QED BY <4>1, <4>2
      <3>4. CASE i # m + 1
        <4>1. i \in 1..m
          BY <1>6, <3>4
        <4>2. q[i] = j
          BY <3>1, <3>2, <4>1
        <4> HIDE DEF q
        <4> QED BY <4>1, <4>2
      <3> QED BY <3>3, <3>4
    <2> HIDE DEF q
    <2> QED BY <2>1, <2>2, <2>3 DEF Permutes
  <1>12. front \in Numbers(m) /\ g \in Numbers(m + 1) /\ gFront \in Numbers(m)
    <2>1. front \in [1..m -> Int]
      BY <1>7, <1>8
    <2>2. g \in Numbers(m + 1)
      BY <1>1, <1>4, <1>6
    <2>3. g \in [1..(m + 1) -> Int]
      BY <2>2 DEF Numbers
    <2> HIDE DEF g
    <2>4. gFront \in [1..m -> Int]
      BY <1>8, <2>3
    <2> QED BY <2>1, <2>2, <2>4 DEF Numbers
  <1>13. Summed(h) = Summed(front)
    <2> HIDE DEF front, q
    <2> QED BY <1>6, <1>11, <1>12 DEF Good
  <1>14. h \in Numbers(m)
    <2> HIDE DEF front, q
    <2> QED BY <1>1, <1>6, <1>11, <1>12
  <1>15. \A j \in 1..m : /\ h[j] = f[q[j]]
                         /\ gFront[j] = f[p[j]]
    BY <1>8, <1>10 DEF Permuted
  <1>16. g[m + 1] = f[c]
    BY <1>8 DEF Permuted
  <1>17. Summed(g) = Summed(gFront) + g[m + 1]
    <2> HIDE DEF g
    <2> QED BY <1>6, <1>12, SumFront
  <1>18. Summed(f) = Summed(front) + f[m + 1]
    BY <1>6, <1>7, SumFront
  <1>19. Summed(front) \in Int /\ f[m + 1] \in Int /\ f[c] \in Int
    <2>1. Summed(front) \in Int
      <3> HIDE DEF front
      <3> QED BY <1>6, <1>12, SumType
    <2> QED BY <1>7, <1>8, <2>1
  <1>20. CASE k = m + 1
    <2>1. \A j \in 1..m : q[j] = p[j]
      BY <1>8, <1>20
    <2>2. gFront = h
      <3>1. \A j \in 1..m : gFront[j] = h[j]
        BY <1>15, <2>1
      <3>2. gFront \in [1..m -> Int] /\ h \in [1..m -> Int]
        BY <1>12, <1>14 DEF Numbers
      <3> HIDE DEF gFront, h, m
      <3>3. /\ gFront = [j \in 1..m |-> gFront[j]]
            /\ h = [j \in 1..m |-> h[j]]
        BY <3>2
      <3>4. [j \in 1..m |-> gFront[j]] = [j \in 1..m |-> h[j]]
        BY <3>1
      <3> QED BY <3>3, <3>4
    <2>3. c = m + 1
      BY <1>9, <1>20
    <2>4. Summed(g) = Summed(f)
      <3> HIDE DEF g, gFront, h, front, c
      <3> QED BY <1>13, <1>16, <1>17, <1>18, <2>2, <2>3
    <2> QED BY <1>4, <1>6, <2>4
  <1>21. CASE k # m + 1
    <2>1. k \in 1..m
      BY <1>6, <1>21
    <2>2. \A j \in 1..m : j # k => gFront[j] = h[j]
      BY <1>15
    <2>3. h[k] = f[c] /\ gFront[k] = f[m + 1]
      <3>1. q[k] = c
        BY <2>1
      <3> QED BY <1>9, <1>15, <2>1, <3>1
    <2>4. Summed(gFront) = Summed(h) - h[k] + gFront[k]
      <3> HIDE DEF gFront, h
      <3> QED BY <1>6, <1>12, <1>14, <2>1, <2>2, SumPoint
    <2>5. Summed(g) = Summed(f)
      <3> HIDE DEF g, gFront, h, front, c
      <3> QED BY <1>13, <1>16, <1>17, <1>18, <1>19, <2>3, <2>4
    <2> QED BY <1>4, <1>6, <2>5
  <1> QED BY <1>20, <1>21

-----------------------------------------------------------------------------
(* A batch in another order.                                               *)

\* The numbers of some places, and 0 for the others.
Masked(list, S, n) == [j \in 1..n |-> IF j \in S THEN list[j] ELSE 0]

\* SumOver is the sum of such a list.
LEMMA SumOverIs ==
    ASSUME NEW n \in Nat, NEW list \in Numbers(n), NEW S
    PROVE  /\ Masked(list, S, n) \in Numbers(n)
           /\ SumOver(list, S) = Summed(Masked(list, S, n))
           /\ SumOver(list, S) \in Int
  <1>1. Masked(list, S, n) \in Numbers(n)
    BY DEF Masked, Numbers
  <1>2. DOMAIN list = 1..n
    BY DEF Numbers
  <1>3. SumOver(list, S) = Summed(Masked(list, S, n))
    BY <1>2 DEF SumOver, Masked
  <1> QED BY <1>1, <1>3, SumType

\* The places whose rows come from S.
Origins(S, p, n) == {j \in 1..n : p[j] \in S}

\* In another order the same numbers are summed at other places ...
LEMMA SumOverPermuted ==
    ASSUME NEW n \in Nat, NEW list \in Numbers(n), NEW p, Permutes(p, n),
           NEW other \in Numbers(n), \A j \in 1..n : other[j] = list[p[j]],
           NEW S
    PROVE  SumOver(other, Origins(S, p, n)) = SumOver(list, S)
  <1> DEFINE a == Masked(list, S, n)
             b == Masked(other, Origins(S, p, n), n)
  <1>1. a \in Numbers(n) /\ SumOver(list, S) = Summed(a)
    BY SumOverIs
  <1>2. b \in Numbers(n) /\ SumOver(other, Origins(S, p, n)) = Summed(b)
    BY SumOverIs
  <1>3. b = Permuted(a, p, n)
    <2>1. \A j \in 1..n : p[j] \in 1..n
      BY DEF Permutes
    <2>2. \A j \in 1..n : (j \in Origins(S, p, n) <=> p[j] \in S)
      BY DEF Origins
    <2>3. \A j \in 1..n : (IF j \in Origins(S, p, n) THEN other[j] ELSE 0) =
                          (IF p[j] \in S THEN list[p[j]] ELSE 0)
      BY <2>2
    <2>4. \A j \in 1..n : a[p[j]] = IF p[j] \in S THEN list[p[j]] ELSE 0
      BY <2>1 DEF Masked
    <2> HIDE DEF a
    <2> QED BY <2>3, <2>4 DEF Masked, Permuted
  <1>4. Summed(b) = Summed(a)
    <2> HIDE DEF a, b
    <2> QED BY <1>1, <1>3, SumPermuted
  <1> QED BY <1>1, <1>2, <1>4

\* ... which are as many.
LEMMA CountPermuted ==
    ASSUME NEW n \in Nat, NEW p, Permutes(p, n), NEW S \in SUBSET (1..n)
    PROVE  Cardinality(Origins(S, p, n)) = Cardinality(S)
  <1> DEFINE a == [j \in 1..n |-> IF j \in S THEN 1 ELSE 0]
             T == Origins(S, p, n)
             b == [j \in 1..n |-> IF j \in T THEN 1 ELSE 0]
  <1>1. a \in Numbers(n) /\ Summed(a) = Cardinality(S)
    BY SumCounts
  <1>2. T \in SUBSET (1..n)
    BY DEF Origins
  <1>3. b \in Numbers(n) /\ Summed(b) = Cardinality(T)
    <2> HIDE DEF T
    <2> QED BY <1>2, SumCounts
  <1>4. b = Permuted(a, p, n)
    <2>1. \A j \in 1..n : p[j] \in 1..n
      BY DEF Permutes
    <2>2. \A j \in 1..n : (j \in T <=> p[j] \in S)
      BY DEF Origins
    <2> HIDE DEF T
    <2>3. \A j \in 1..n : (IF j \in T THEN 1 ELSE 0) = (IF p[j] \in S THEN 1 ELSE 0)
      BY <2>2
    <2>4. \A j \in 1..n : a[p[j]] = IF p[j] \in S THEN 1 ELSE 0
      BY <2>1
    <2> HIDE DEF a
    <2> QED BY <2>3, <2>4 DEF Permuted
  <1>5. Summed(b) = Summed(a)
    <2> HIDE DEF a, b
    <2> QED BY <1>1, <1>4, SumPermuted
  <1> QED BY <1>1, <1>3, <1>5

-----------------------------------------------------------------------------
(* Rows.                                                                   *)

\* A response has a reward, a value and a mask for every token.
LEMMA ResponseTypes ==
    ASSUME NEW r \in Responses
    PROVE  /\ r.uid \in Nat /\ Len(r.mask) \in Nat
           /\ r.mask \in [1..Len(r.mask) -> {0, 1}]
           /\ r.rewards \in Numbers(Len(r.mask)) /\ r.values \in Numbers(Len(r.mask))
           /\ r.mask \in Numbers(Len(r.mask))
           /\ Score(r) \in Int /\ ResponseLength(r) \in Int
  <1>1. /\ r.uid \in Nat /\ r.mask \in Seq({0, 1}) /\ r.rewards \in Seq(Int)
        /\ r.values \in Seq(Int) /\ Len(r.rewards) = Len(r.mask) /\ Len(r.values) = Len(r.mask)
    BY DEF Responses
  <1> DEFINE n == Len(r.mask)
  <1>2. n \in Nat /\ r.mask \in [1..n -> {0, 1}]
    BY <1>1
  <1>3. r.rewards \in [1..n -> Int] /\ r.values \in [1..n -> Int] /\ r.mask \in [1..n -> Int]
    <2>1. r.rewards \in [1..Len(r.rewards) -> Int] /\ r.values \in [1..Len(r.values) -> Int]
      BY <1>1
    <2> QED BY <1>1, <1>2, <2>1
  <1> HIDE DEF n
  <1>4. r.rewards \in Numbers(n) /\ r.values \in Numbers(n) /\ r.mask \in Numbers(n)
    BY <1>3 DEF Numbers
  <1>5. Summed(r.rewards) \in Int /\ Summed(r.mask) \in Int
    BY <1>2, <1>4, SumType
  <1>6. Score(r) \in Int /\ ResponseLength(r) \in Int
    BY <1>5 DEF Score, ResponseLength
  <1> QED BY <1>1, <1>2, <1>4, <1>6 DEF n

\* A batch of n rows.
IsBatch(b, n) == n \in Nat /\ b \in [1..n -> Responses]

\* A row's score is a number.
LEMMA ScoresType ==
    ASSUME NEW b, NEW n, IsBatch(b, n)
    PROVE  /\ Scores(b) \in Numbers(n)
           /\ \A i \in 1..n : Scores(b)[i] = Score(b[i])
  <1>1. n \in Nat /\ DOMAIN b = 1..n /\ \A i \in 1..n : b[i] \in Responses
    BY DEF IsBatch
  <1>2. \A i \in 1..n : Score(b[i]) \in Int
    BY <1>1, ResponseTypes
  <1> QED BY <1>1, <1>2 DEF Scores, Numbers

\* So is a square.
LEMMA SquaresType ==
    ASSUME NEW n \in Nat, NEW list \in Numbers(n)
    PROVE  /\ Squares(list) \in Numbers(n)
           /\ \A j \in 1..n : Squares(list)[j] = list[j] * list[j]
  <1>1. DOMAIN list = 1..n /\ \A j \in 1..n : list[j] \in Int
    BY DEF Numbers
  <1>2. \A j \in 1..n : list[j] * list[j] \in Int
    BY <1>1
  <1> QED BY <1>1, <1>2 DEF Squares, Numbers

\* A batch in another order: its scores and its groups are those of the rows.
LEMMA ReorderedBatch ==
    ASSUME NEW b, NEW n, IsBatch(b, n), NEW p, Permutes(p, n)
    PROVE  LET c == Permuted(b, p, n) IN
           /\ IsBatch(c, n)
           /\ \A i \in 1..n : p[i] \in 1..n /\ c[i] = b[p[i]]
           /\ \A i \in 1..n : Scores(c)[i] = Scores(b)[p[i]]
           /\ \A i \in 1..n : GroupOf(c, i) = Origins(GroupOf(b, p[i]), p, n)
  <1> DEFINE c == Permuted(b, p, n)
  <1>1. n \in Nat /\ DOMAIN b = 1..n /\ b \in [1..n -> Responses]
    BY DEF IsBatch
  <1>2. \A i \in 1..n : p[i] \in 1..n /\ c[i] = b[p[i]]
    BY DEF Permutes, Permuted
  <1>3. DOMAIN c = 1..n
    BY DEF Permuted
  <1>4. IsBatch(c, n)
    BY <1>1, <1>2 DEF Permuted, IsBatch
  <1> HIDE DEF c
  <1>5. \A i \in 1..n : Scores(c)[i] = Scores(b)[p[i]]
    <2>1. \A i \in 1..n : Scores(c)[i] = Score(c[i])
      BY <1>4, ScoresType
    <2>2. \A i \in 1..n : Scores(b)[i] = Score(b[i])
      BY ScoresType
    <2> QED BY <1>2, <2>1, <2>2
  <1>6. ASSUME NEW i \in 1..n PROVE GroupOf(c, i) = Origins(GroupOf(b, p[i]), p, n)
    <2>1. GroupOf(c, i) = {j \in 1..n : c[j].uid = c[i].uid}
      BY <1>3 DEF GroupOf, Index
    <2>2. GroupOf(b, p[i]) = {j \in 1..n : b[j].uid = b[p[i]].uid}
      BY <1>1, <1>2 DEF GroupOf, Index
    <2>3. \A j \in 1..n : c[j].uid = c[i].uid <=> p[j] \in GroupOf(b, p[i])
      BY <1>2, <2>2
    <2> QED BY <2>1, <2>3 DEF Origins
  <1> QED BY <1>2, <1>4, <1>5, <1>6 DEF c

\* A row is of its own group, which has a size and a total.
LEMMA GroupTypes ==
    ASSUME NEW b, NEW n, IsBatch(b, n), NEW i \in 1..n
    PROVE  /\ GroupOf(b, i) \in SUBSET (1..n) /\ i \in GroupOf(b, i)
           /\ GroupOf(b, i) = {j \in 1..n : b[j].uid = b[i].uid}
           /\ Size(b, i) = Cardinality(GroupOf(b, i))
           /\ Size(b, i) \in Nat \ {0}
           /\ Total(b, i) \in Int
  <1>1. n \in Nat /\ DOMAIN b = 1..n
    BY DEF IsBatch
  <1>2. GroupOf(b, i) = {j \in 1..n : b[j].uid = b[i].uid}
    BY <1>1 DEF GroupOf, Index
  <1>3. GroupOf(b, i) \in SUBSET (1..n) /\ i \in GroupOf(b, i)
    BY <1>2
  <1>4. Size(b, i) = Cardinality(GroupOf(b, i))
    BY DEF Size
  <1>5. IsFiniteSet(GroupOf(b, i))
    <2>1. IsFiniteSet(1..n)
      BY <1>1, FS_Interval
    <2> QED BY <1>3, <2>1, FS_Subset
  <1>6. Cardinality(GroupOf(b, i)) \in Nat
    BY <1>5, FS_CardinalityType
  <1>7. Cardinality(GroupOf(b, i)) # 0
    BY <1>3, <1>5, FS_EmptySet
  <1>8. Total(b, i) \in Int
    BY <1>1, ScoresType, SumOverIs DEF Total
  <1> QED BY <1>2, <1>3, <1>4, <1>6, <1>7, <1>8

\* The numbers an estimator takes from a row's group.
LEMMA ReorderedGroup ==
    ASSUME NEW b, NEW n, IsBatch(b, n), NEW p, Permutes(p, n), NEW i \in 1..n
    PROVE  LET c == Permuted(b, p, n) IN
           /\ Size(c, i) = Size(b, p[i])
           /\ Total(c, i) = Total(b, p[i])
           /\ Mean(c, i) = Mean(b, p[i])
           /\ Centred(c, i) = Centred(b, p[i])
           /\ SquaredStd(c, i) = SquaredStd(b, p[i])
           /\ SquaredStdOfSums(c, i) = SquaredStdOfSums(b, p[i])
  <1> DEFINE c == Permuted(b, p, n)
             g == GroupOf(b, p[i])
             s == Scores(b)
             t == Scores(c)
  <1>1. /\ IsBatch(c, n) /\ p[i] \in 1..n
        /\ \A j \in 1..n : p[j] \in 1..n /\ t[j] = s[p[j]]
        /\ GroupOf(c, i) = Origins(g, p, n)
    BY ReorderedBatch
  <1>2. n \in Nat /\ DOMAIN b = 1..n
    BY DEF IsBatch
  <1> HIDE DEF c
  <1>3. DOMAIN c = 1..n
    BY <1>1 DEF IsBatch
  <1>4. g \in SUBSET (1..n)
    BY <1>1, GroupTypes
  <1>5. s \in Numbers(n) /\ t \in Numbers(n)
    BY <1>1, ScoresType
  <1>6. Size(c, i) = Size(b, p[i])
    <2> HIDE DEF g
    <2>1. Cardinality(Origins(g, p, n)) = Cardinality(g)
      BY <1>2, <1>4, CountPermuted
    <2> QED BY <1>1, <2>1 DEF Size, g
  <1>7. Total(c, i) = Total(b, p[i])
    <2> HIDE DEF g, s, t
    <2>1. SumOver(t, Origins(g, p, n)) = SumOver(s, g)
      BY <1>1, <1>2, <1>5, SumOverPermuted
    <2> QED BY <1>1, <2>1 DEF Total, g, s, t
  <1>8. Mean(c, i) = Mean(b, p[i])
    BY <1>6, <1>7 DEF Mean
  <1>9. Centred(c, i) = Centred(b, p[i])
    BY <1>1, <1>8 DEF Centred
  <1>10. ASSUME NEW u \in Numbers(n), NEW v \in Numbers(n), \A j \in 1..n : v[j] = u[p[j]]
         PROVE  SumOver(Squares(v), Origins(g, p, n)) = SumOver(Squares(u), g)
    <2>1. /\ Squares(u) \in Numbers(n) /\ Squares(v) \in Numbers(n)
          /\ \A j \in 1..n : /\ Squares(u)[j] = u[j] * u[j]
                             /\ Squares(v)[j] = v[j] * v[j]
      BY <1>2, SquaresType
    <2>2. \A j \in 1..n : Squares(v)[j] = Squares(u)[p[j]]
      BY <1>1, <1>10, <2>1
    <2> QED BY <1>2, <2>1, <2>2, SumOverPermuted
  <1>11. SquaredStd(c, i) = SquaredStd(b, p[i])
    <2> DEFINE k == Size(b, p[i])
               total == Total(b, p[i])
               u == [j \in 1..n |-> k * s[j] - total]
               v == [j \in 1..n |-> k * t[j] - total]
    <2>1. k \in Int /\ total \in Int
      BY <1>1, GroupTypes
    <2>2. \A j \in 1..n : s[j] \in Int /\ t[j] \in Int
      BY <1>5 DEF Numbers
    <2> HIDE DEF k, total, s, t
    <2>3. u \in Numbers(n) /\ v \in Numbers(n)
      <3>1. \A j \in 1..n : k * s[j] - total \in Int /\ k * t[j] - total \in Int
        BY <2>1, <2>2
      <3> QED BY <3>1 DEF Numbers
    <2>4. \A j \in 1..n : v[j] = u[p[j]]
      BY <1>1
    <2>5. SumOver(Squares(v), Origins(g, p, n)) = SumOver(Squares(u), g)
      <3> HIDE DEF u, v, g
      <3> QED BY <1>10, <2>3, <2>4
    <2>6. SquaredStd(c, i) =
            IF k = 1 THEN Whole(1)
            ELSE <<SumOver(Squares(v), Origins(g, p, n)), k * k * (k - 1)>>
      BY <1>1, <1>3, <1>6, <1>7 DEF SquaredStd, k, total, t
    <2>7. SquaredStd(b, p[i]) =
            IF k = 1 THEN Whole(1)
            ELSE <<SumOver(Squares(u), g), k * k * (k - 1)>>
      BY <1>2 DEF SquaredStd, k, total, s
    <2> HIDE DEF u, v, g
    <2> QED BY <2>5, <2>6, <2>7
  <1>12. SquaredStdOfSums(c, i) = SquaredStdOfSums(b, p[i])
    <2>1. SumOver(Squares(t), Origins(g, p, n)) = SumOver(Squares(s), g)
      <3> HIDE DEF s, t, g
      <3> QED BY <1>1, <1>5, <1>10
    <2>2. VarianceOfSums(c, i) = VarianceOfSums(b, p[i])
      BY <1>1, <1>6, <1>7, <2>1 DEF VarianceOfSums
    <2> QED BY <1>6, <2>2 DEF SquaredStdOfSums
  <1> QED BY <1>6, <1>7, <1>8, <1>9, <1>11, <1>12 DEF c

\* The registry.
LEMMA EstimateIs ==
    ASSUME NEW b, NEW i \in DOMAIN b
    PROVE  /\ Estimate("grpo", b)[i] = GRPO(b, i)
           /\ Estimate("grpo_vectorized", b)[i] = GRPOVectorized(b, i)
           /\ Estimate("grpo_passk", b)[i] = PassK(b, i)
           /\ Estimate("reinforce_plus_plus_baseline", b)[i] = ReinforceBaseline(b, i)
           /\ Estimate("rloo", b)[i] = RLOO(b, i)
           /\ Estimate("rloo_vectorized", b)[i] = RLOOVectorized(b, i)
           /\ Estimate("opo", b)[i] = OPO(b, i)
           /\ Estimate("gpg", b)[i] = GPG(b, i)
           /\ Estimate("gae", b)[i] = GAEReturns(b[i])
           /\ Estimate("reinforce_plus_plus", b)[i] = ReinforceReturns(b[i])
           /\ Estimate("remax", b)[i] = ReMaxReturns(b[i])
  BY SMTT(60) DEF Estimate

\* Pass@k looks at the scores of the others in the group.
LEMMA ReorderedPassK ==
    ASSUME NEW b, NEW n, IsBatch(b, n), NEW p, Permutes(p, n), NEW i \in 1..n
    PROVE  PassK(Permuted(b, p, n), i) = PassK(b, p[i])
  <1> DEFINE c == Permuted(b, p, n)
             g == GroupOf(b, p[i])
             h == GroupOf(c, i)
             s == Scores(b)
             t == Scores(c)
             X == {t[j] : j \in h \ {i}}
             Y == {s[j] : j \in g \ {p[i]}}
  <1>1. /\ IsBatch(c, n) /\ p[i] \in 1..n
        /\ \A j \in 1..n : p[j] \in 1..n /\ t[j] = s[p[j]]
        /\ h = Origins(g, p, n)
    BY ReorderedBatch
  <1>2. SquaredStd(c, i) = SquaredStd(b, p[i])
    BY ReorderedGroup
  <1>3. g \in SUBSET (1..n)
    BY <1>1, GroupTypes
  <1> HIDE DEF c, g, h, s, t
  <1>4. \A j \in 1..n : j \in h <=> p[j] \in g
    BY <1>1 DEF Origins
  <1>5. h \in SUBSET (1..n)
    BY <1>1 DEF Origins
  <1>6. ASSUME NEW j \in h \ {i} PROVE t[j] \in Y
    <2>1. j \in 1..n /\ p[j] \in g /\ p[j] # p[i]
      BY <1>4, <1>5 DEF Permutes
    <2> QED BY <1>1, <2>1
  <1>7. ASSUME NEW j \in g \ {p[i]} PROVE s[j] \in X
    <2>1. PICK k \in 1..n : p[k] = j
      BY <1>3 DEF Permutes
    <2>2. k \in h \ {i}
      BY <1>4, <2>1
    <2> QED BY <1>1, <2>1, <2>2
  <1>8. X = Y
    BY <1>6, <1>7
  <1>9. PassK(c, i) = LET lead == t[i] - Max(X) IN
            IF lead > 0 THEN Over(Whole(lead), SquaredStd(c, i))
            ELSE Plain(Whole(0))
    BY DEF PassK, t, h
  <1>10. PassK(b, p[i]) = LET lead == s[p[i]] - Max(Y) IN
            IF lead > 0 THEN Over(Whole(lead), SquaredStd(b, p[i]))
            ELSE Plain(Whole(0))
    BY DEF PassK, s, g
  <1> HIDE DEF X, Y
  <1>11. PassK(c, i) = PassK(b, p[i])
    BY <1>1, <1>2, <1>8, <1>9, <1>10
  <1> QED BY <1>11 DEF c

\* OPO weighs the scores of a group with the lengths of its responses.
LEMMA ReorderedOPO ==
    ASSUME NEW b, NEW n, IsBatch(b, n), NEW p, Permutes(p, n), NEW i \in 1..n
    PROVE  OPO(Permuted(b, p, n), i) = OPO(b, p[i])
  <1> DEFINE c == Permuted(b, p, n)
             g == GroupOf(b, p[i])
             h == GroupOf(c, i)
             s == Scores(b)
             t == Scores(c)
             u == [j \in 1..n |-> ResponseLength(b[j])]
             v == [j \in 1..n |-> ResponseLength(c[j])]
             wu == [j \in 1..n |-> u[j] * s[j]]
             wv == [j \in 1..n |-> v[j] * t[j]]
  <1>1. /\ IsBatch(c, n) /\ p[i] \in 1..n
        /\ \A j \in 1..n : p[j] \in 1..n /\ t[j] = s[p[j]] /\ c[j] = b[p[j]]
        /\ h = Origins(g, p, n)
    BY ReorderedBatch
  <1>2. Size(c, i) = Size(b, p[i])
    BY ReorderedGroup
  <1>3. n \in Nat /\ DOMAIN b = 1..n
    BY DEF IsBatch
  <1> HIDE DEF c
  <1>4. DOMAIN c = 1..n
    BY <1>1 DEF IsBatch
  <1>5. s \in Numbers(n) /\ t \in Numbers(n)
    BY <1>1, ScoresType
  <1> HIDE DEF s, t, g, h
  <1>6. \A j \in 1..n : ResponseLength(b[j]) \in Int /\ ResponseLength(c[j]) \in Int
    <2>1. \A j \in 1..n : b[j] \in Responses /\ c[j] \in Responses
      BY <1>1 DEF IsBatch
    <2> QED BY <2>1, ResponseTypes
  <1>7. u \in Numbers(n) /\ v \in Numbers(n) /\ \A j \in 1..n : v[j] = u[p[j]]
    BY <1>1, <1>6 DEF Numbers
  <1>8. wu \in Numbers(n) /\ wv \in Numbers(n) /\ \A j \in 1..n : wv[j] = wu[p[j]]
    <2> HIDE DEF u, v
    <2>1. \A j \in 1..n : u[j] \in Int /\ s[j] \in Int /\ v[j] \in Int /\ t[j] \in Int
      BY <1>5, <1>7 DEF Numbers
    <2>2. \A j \in 1..n : u[j] * s[j] \in Int /\ v[j] * t[j] \in Int
      BY <2>1
    <2>3. wu \in Numbers(n) /\ wv \in Numbers(n)
      BY <2>2 DEF Numbers
    <2> QED BY <1>1, <1>7, <2>3
  <1>9. OPO(c, i) =
           LET baseline == <<SumOver(wv, h), SumOver(v, h)>>
           IN  Plain(Minus(Whole(t[i]),
                                   IF Size(c, i) = 1 THEN Whole(0) ELSE baseline))
    BY <1>4 DEF OPO, t, h
  <1>10. OPO(b, p[i]) =
           LET baseline == <<SumOver(wu, g), SumOver(u, g)>>
           IN  Plain(Minus(Whole(s[p[i]]),
                                   IF Size(b, p[i]) = 1 THEN Whole(0) ELSE baseline))
    BY <1>3 DEF OPO, s, g
  <1> HIDE DEF u, v, wu, wv
  <1>11. SumOver(wv, h) = SumOver(wu, g) /\ SumOver(v, h) = SumOver(u, g)
    <2>1. \A j \in 1..n : wv[j] = wu[p[j]]
      BY <1>8
    <2>2. \A j \in 1..n : v[j] = u[p[j]]
      BY <1>7
    <2>3. SumOver(wv, Origins(g, p, n)) = SumOver(wu, g)
      BY <1>3, <1>8, <2>1, SumOverPermuted
    <2>4. SumOver(v, Origins(g, p, n)) = SumOver(u, g)
      BY <1>3, <1>7, <2>2, SumOverPermuted
    <2> QED BY <1>1, <2>3, <2>4
  <1>12. OPO(c, i) = OPO(b, p[i])
    BY <1>1, <1>2, <1>9, <1>10, <1>11
  <1> QED BY <1>12 DEF c

\* GPG counts the rows of the batch that have a score.
LEMMA ReorderedGPG ==
    ASSUME NEW b, NEW n, IsBatch(b, n), NEW p, Permutes(p, n), NEW i \in 1..n
    PROVE  GPG(Permuted(b, p, n), i) = GPG(b, p[i])
  <1> DEFINE c == Permuted(b, p, n)
             s == Scores(b)
             t == Scores(c)
             X == {j \in 1..n : s[j] # 0}
             Y == {j \in 1..n : t[j] # 0}
  <1>1. /\ IsBatch(c, n) /\ p[i] \in 1..n
        /\ \A j \in 1..n : p[j] \in 1..n /\ t[j] = s[p[j]]
    BY ReorderedBatch
  <1>2. Centred(c, i) = Centred(b, p[i])
    BY ReorderedGroup
  <1>3. n \in Nat /\ DOMAIN b = 1..n /\ Len(b) = n
    BY DEF IsBatch
  <1> HIDE DEF c
  <1>4. DOMAIN c = 1..n /\ Len(c) = n
    BY <1>1 DEF IsBatch
  <1> HIDE DEF s, t
  <1>5. Y = Origins(X, p, n)
    BY <1>1 DEF Origins
  <1>6. X \in SUBSET (1..n)
    OBVIOUS
  <1>7. /\ GPG(c, i) = Plain(Scaled(Centred(c, i),
                               <<n, AtLeastOne(Cardinality(Y))>>))
        /\ GPG(b, p[i]) = Plain(Scaled(Centred(b, p[i]),
                               <<n, AtLeastOne(Cardinality(X))>>))
    BY <1>3, <1>4 DEF GPG, s, t
  <1> HIDE DEF X, Y
  <1>8. Cardinality(Y) = Cardinality(X)
    BY <1>3, <1>5, <1>6, CountPermuted
  <1>9. GPG(c, i) = GPG(b, p[i])
    BY <1>2, <1>7, <1>8
  <1> QED BY <1>9 DEF c

\* Every estimator of one number per row gives a row what it would have in any order.
LEMMA OrderDoesNotMatter ==
    ASSUME NEW b, NEW n, IsBatch(b, n), NEW p, Permutes(p, n), NEW i \in 1..n,
           NEW e \in OutcomeEstimators
    PROVE  Estimate(e, Permuted(b, p, n))[i] = Estimate(e, b)[p[i]]
  <1> DEFINE c == Permuted(b, p, n)
  <1>1. /\ IsBatch(c, n) /\ p[i] \in 1..n
        /\ Scores(c)[i] = Scores(b)[p[i]]
    BY ReorderedBatch
  <1>2. i \in DOMAIN c /\ p[i] \in DOMAIN b
    BY <1>1 DEF IsBatch
  <1>3. /\ Size(c, i) = Size(b, p[i])
        /\ Total(c, i) = Total(b, p[i])
        /\ Centred(c, i) = Centred(b, p[i])
        /\ SquaredStd(c, i) = SquaredStd(b, p[i])
        /\ SquaredStdOfSums(c, i) = SquaredStdOfSums(b, p[i])
    BY ReorderedGroup
  <1>4. /\ PassK(c, i) = PassK(b, p[i])
        /\ OPO(c, i) = OPO(b, p[i])
        /\ GPG(c, i) = GPG(b, p[i])
    BY ReorderedPassK, ReorderedOPO, ReorderedGPG
  <1> HIDE DEF c
  <1>5. GRPO(c, i) = GRPO(b, p[i])
    BY <1>3 DEF GRPO
  <1>6. GRPOVectorized(c, i) = GRPOVectorized(b, p[i])
    BY <1>3 DEF GRPOVectorized
  <1>7. ReinforceBaseline(c, i) = ReinforceBaseline(b, p[i])
    BY <1>3 DEF ReinforceBaseline
  <1>8. RLOO(c, i) = RLOO(b, p[i])
    BY <1>1, <1>3 DEF RLOO
  <1>9. RLOOVectorized(c, i) = RLOOVectorized(b, p[i])
    BY <1>1, <1>3 DEF RLOOVectorized
  <1>10. Estimate(e, c)[i] = Estimate(e, b)[p[i]]
    <2>1. e \in {"grpo", "grpo_vectorized", "grpo_passk", "reinforce_plus_plus_baseline",
                 "rloo", "rloo_vectorized", "opo", "gpg"}
      BY DEF OutcomeEstimators
    <2>2. CASE e = "grpo" 
      BY <1>2, <1>5, <2>2, EstimateIs
    <2>3. CASE e = "grpo_vectorized"
      BY <1>2, <1>6, <2>3, EstimateIs
    <2>4. CASE e = "grpo_passk"
      BY <1>2, <1>4, <2>4, EstimateIs
    <2>5. CASE e = "reinforce_plus_plus_baseline"
      BY <1>2, <1>7, <2>5, EstimateIs
    <2>6. CASE e = "rloo"
      BY <1>2, <1>8, <2>6, EstimateIs
    <2>7. CASE e = "rloo_vectorized"
      BY <1>2, <1>9, <2>7, EstimateIs
    <2>8. CASE e = "opo"
      BY <1>2, <1>4, <2>8, EstimateIs
    <2>9. CASE e = "gpg"
      BY <1>2, <1>4, <2>9, EstimateIs
    <2> QED BY <2>1, <2>2, <2>3, <2>4, <2>5, <2>6, <2>7, <2>8, <2>9
  <1> QED BY <1>10 DEF c

\* What the driver keeps of a batch, its order and the estimates.
AdvantageInv ==
    /\ rows \in Batches /\ discount \in Discounts /\ estimator \in Estimators
    /\ Permutes(order, Len(rows))
    /\ call \in {"balance", "adv", "done", "raised"}
    /\ call = "balance" => order = [i \in 1..Len(rows) |-> i]
    /\ call = "done" => advantages = Estimate(estimator, Batch)

\* The rows are a batch, and not an empty one.
LEMMA RowsAreBatch ==
    ASSUME rows \in Batches
    PROVE  IsBatch(rows, Len(rows)) /\ Len(rows) # 0
  <1>1. rows \in Seq(Responses) /\ rows # <<>>
    BY AdvantagesAssumption
  <1> QED BY <1>1 DEF IsBatch

\* What the estimators see is the rows in their order.
LEMMA BatchIsPermuted ==
    ASSUME Permutes(order, Len(rows))
    PROVE  Batch = Permuted(rows, order, Len(rows)) /\ DOMAIN order = 1..Len(rows)
  <1>1. DOMAIN order = 1..Len(rows)
    BY DEF Permutes
  <1> QED BY <1>1 DEF Batch, Permuted

\* Balancing permutes the rows.
LEMMA BalancePermutes ==
    ASSUME rows \in Batches, order = [i \in 1..Len(rows) |-> i],
           MayPartition(LengthsOf(Batch), NumRanks, TRUE)
    PROVE  Permutes(FlattenSeq(Partitions(LengthsOf(Batch), NumRanks, TRUE)),
                    Len(rows))
  <1> DEFINE n == Len(rows)
             lengths == LengthsOf(Batch)
             parts == Partitions(lengths, NumRanks, TRUE)
  <1>1. IsBatch(rows, n) /\ NumRanks \in Nat \ {0}
    BY RowsAreBatch, AdvantagesAssumption
  <1>2. n \in Nat /\ \A i \in 1..n : rows[i] \in Responses
    BY <1>1 DEF IsBatch
  <1>3. Batch = [i \in 1..n |-> rows[i]]
    BY DEF Batch
  <1>4. lengths = [i \in 1..n |-> 1 + Len(rows[i].mask)]
    BY <1>3 DEF LengthsOf
  <1>5. \A i \in 1..n : 1 + Len(rows[i].mask) \in Nat \ {0}
    BY <1>2, ResponseTypes
  <1> HIDE DEF lengths, n
  <1>6. Lengths(lengths) /\ Len(lengths) = n
    BY <1>2, <1>4, <1>5 DEF Lengths
  <1>7. MayPartition(lengths, NumRanks, TRUE)
    BY DEF MayPartition, MayPartition, lengths
  <1>8. SharesOut(parts, NumRanks, n)
    BY <1>1, <1>6, <1>7, PartitionsShareOut
  <1> HIDE DEF parts
  <1>9. Permutes(FlattenSeq(parts), n)
    BY <1>1, <1>8, FlattenPermutes
  <1>10. FlattenSeq(Partitions(lengths, NumRanks, TRUE)) = FlattenSeq(parts)
    BY DEF parts
  <1> QED BY <1>9, <1>10 DEF lengths, n

\* Every call of the driver keeps it, one case for each.
LEMMA AdvantageInvStep ==
    ASSUME AdvantageInv, [AdvantageNext]_(advantageVars)
    PROVE  AdvantageInv'
  <1>1. CASE BalanceBatch
    <2>1. /\ call = "balance" /\ call' = "adv"
          /\ MayPartition(LengthsOf(Batch), NumRanks, TRUE)
          /\ order' = FlattenSeq(Partitions(LengthsOf(Batch), NumRanks, TRUE))
          /\ UNCHANGED <<rows, discount, estimator, advantages>>
      BY <1>1 DEF BalanceBatch
    <2>2. rows \in Batches /\ order = [i \in 1..Len(rows) |-> i]
      BY <2>1 DEF AdvantageInv
    <2>3. Permutes(order', Len(rows))
      BY <2>1, <2>2, BalancePermutes
    <2> QED BY <2>1, <2>3 DEF AdvantageInv
  <1>2. CASE KeepOrder
    BY <1>2 DEF KeepOrder, AdvantageInv
  <1>3. CASE ComputeAdvantage
    <2>1. /\ call' = "done" /\ advantages' = Estimate(estimator, Batch)
          /\ UNCHANGED <<rows, order, discount, estimator>>
      BY <1>3 DEF ComputeAdvantage
    <2>2. UNCHANGED <<rows, order, discount, estimator>>
      BY <2>1
    <2>3. (Estimate(estimator, Batch))' = Estimate(estimator, Batch)
      BY <2>2 DEF Batch, Estimate, GAEReturns, GAE, Gamma, Lam,
         ReinforceReturns
    <2> QED BY <2>1, <2>3 DEF AdvantageInv
  <1>4. CASE ComputeRaises
    BY <1>4 DEF ComputeRaises, AdvantageInv
  <1>5. CASE UNCHANGED advantageVars
    <2>1. UNCHANGED <<call, rows, order, discount, estimator, advantages>>
      BY <1>5 DEF advantageVars
    <2>2. (Estimate(estimator, Batch))' = Estimate(estimator, Batch)
      BY <2>1 DEF Batch, Estimate, GAEReturns, GAE, Gamma, Lam,
         ReinforceReturns
    <2> QED BY <2>1, <2>2 DEF AdvantageInv
  <1> QED BY <1>1, <1>2, <1>3, <1>4, <1>5 DEF AdvantageNext

\* It is so at first ...
LEMMA AdvantageInvInit ==
    ASSUME AdvantageInit
    PROVE  AdvantageInv
  <1>1. rows \in Batches /\ order = [i \in DOMAIN rows |-> i] /\ call = "balance"
        /\ discount \in Discounts /\ estimator \in Estimators
    BY DEF AdvantageInit
  <1>2. DOMAIN rows = 1..Len(rows)
    BY <1>1, RowsAreBatch DEF IsBatch
  <1>3. Permutes(order, Len(rows))
    BY <1>1, <1>2 DEF Permutes
  <1> QED BY <1>1, <1>2, <1>3 DEF AdvantageInv

\* ... and always.
LEMMA AdvantageInvariant == AdvantageSpec => []AdvantageInv
  <1>1. AdvantageInit => AdvantageInv
    BY AdvantageInvInit
  <1>2. AdvantageInv /\ [AdvantageNext]_(advantageVars) => AdvantageInv'
    BY AdvantageInvStep
  <1> QED BY <1>1, <1>2, PTL DEF AdvantageSpec

\* With it, the estimators of one number per row do not see the order.
LEMMA InvBalancingIsHarmless ==
    ASSUME AdvantageInv
    PROVE  BalancingIsHarmless
  <1> SUFFICES ASSUME call = "done", estimator \in OutcomeEstimators, NEW i \in DOMAIN order
               PROVE  Same(advantages[i], Estimate(estimator, rows)[order[i]])
    BY DEF BalancingIsHarmless
  <1>1. rows \in Batches /\ Permutes(order, Len(rows))
    BY DEF AdvantageInv
  <1>2. IsBatch(rows, Len(rows)) /\ i \in 1..Len(rows)
    BY <1>1, RowsAreBatch DEF Permutes
  <1>3. advantages = Estimate(estimator, Permuted(rows, order, Len(rows)))
    BY <1>1, BatchIsPermuted DEF AdvantageInv
  <1>4. advantages[i] = Estimate(estimator, rows)[order[i]]
    BY <1>1, <1>2, <1>3, OrderDoesNotMatter
  <1> QED BY <1>4 DEF Same, Equal

\* BalancingIsHarmless: whatever the rows, their groups and their lengths, balancing
\* the batch changes no advantage of an estimator of one number per row.
THEOREM BalancingChangesNoAdvantage == AdvantageSpec => []BalancingIsHarmless
  <1>1. AdvantageInv => BalancingIsHarmless
    BY InvBalancingIsHarmless
  <1>2. AdvantageSpec => []AdvantageInv
    BY AdvantageInvariant
  <1> QED BY <1>1, <1>2, PTL

\* The differences of a list's numbers from the mean, scaled with the size.
Differences(d, m, s, total, n) ==
    d = [j \in 1..n |-> d[j]] /\ \A j \in 1..n : d[j] = m * s[j] - total

\* The sum of the squared differences from the mean is that of the squares less the
\* square of the sum, each scaled with the size of the group.
LEMMA SumOfSquaredDifferences ==
    ASSUME NEW n \in Nat, NEW s \in Numbers(n), NEW G \in SUBSET (1..n), NEW m \in Int,
           m = Cardinality(G), NEW total \in Int, total = SumOver(s, G),
           NEW squares \in Int, squares = SumOver(Squares(s), G),
           NEW d, Differences(d, m, s, total, n)
    PROVE  SumOver(Squares(d), G) = m * (m * squares - total * total)
  <1> DEFINE a == Masked(Squares(s), G, n)
             b == Masked(s, G, n)
             c == [j \in 1..n |-> IF j \in G THEN 1 ELSE 0]
             x == m * m
             y == 0 - 2 * m * total
             z == total * total
             ab == [j \in 1..n |-> x * a[j] + y * b[j]]
             abc == [j \in 1..n |-> 1 * ab[j] + z * c[j]]
             e == Masked(Squares(d), G, n)
  <1>0. d = [j \in 1..n |-> d[j]] /\ \A j \in 1..n : d[j] = m * s[j] - total
    BY DEF Differences
  <1>1. \A j \in 1..n : s[j] \in Int
    BY DEF Numbers
  <1>2. d \in Numbers(n)
    <2>1. \A j \in 1..n : m * s[j] - total \in Int
      BY <1>1
    <2> QED BY <1>0, <2>1 DEF Numbers
  <1>3. /\ Squares(s) \in Numbers(n)
        /\ \A j \in 1..n : Squares(s)[j] = s[j] * s[j]
    BY SquaresType
  <1>4. /\ Squares(d) \in Numbers(n)
        /\ \A j \in 1..n : Squares(d)[j] = d[j] * d[j]
    <2> QED BY <1>2, SquaresType
  <1>5. /\ a \in Numbers(n) /\ squares = Summed(a)
        /\ b \in Numbers(n) /\ total = Summed(b)
    BY <1>3, SumOverIs
  <1>6. e \in Numbers(n) /\ SumOver(Squares(d), G) = Summed(e)
    <2> QED BY <1>4, SumOverIs
  <1>7. c \in Numbers(n) /\ Summed(c) = m
    BY SumCounts
  <1>8. x \in Int /\ y \in Int /\ z \in Int
    OBVIOUS
  <1>9. ab \in Numbers(n) /\ Summed(ab) = x * squares + y * total
    <2>1. Combines(ab, x, a, y, b, n)
      BY DEF Combines
    <2> HIDE DEF a, b, x, y, ab
    <2> QED BY <1>5, <1>8, <2>1, SumCombines
  <1>10. abc \in Numbers(n) /\ Summed(abc) = 1 * Summed(ab) + z * m
    <2>1. Combines(abc, 1, ab, z, c, n)
      BY DEF Combines
    <2> HIDE DEF ab, c, z, abc
    <2>2. abc \in Numbers(n) /\ Summed(abc) = 1 * Summed(ab) + z * Summed(c)
      BY <1>7, <1>8, <1>9, <2>1, SumCombines
    <2> QED BY <1>7, <2>2
  <1>11. \A j \in 1..n : e[j] = abc[j]
    <2> SUFFICES ASSUME NEW j \in 1..n PROVE e[j] = abc[j]
      OBVIOUS
    <2>1. /\ e[j] = IF j \in G THEN d[j] * d[j] ELSE 0
          /\ a[j] = IF j \in G THEN s[j] * s[j] ELSE 0
          /\ b[j] = IF j \in G THEN s[j] ELSE 0
          /\ c[j] = IF j \in G THEN 1 ELSE 0
      BY <1>3, <1>4 DEF Masked
    <2>2. abc[j] = 1 * (x * a[j] + y * b[j]) + z * c[j]
      OBVIOUS
    <2>3. d[j] = m * s[j] - total /\ s[j] \in Int
      BY <1>0, <1>1
    <2> HIDE DEF e, a, b, c, abc
    <2>4. CASE j \in G
      <3> DEFINE v == s[j]
      <3>1. v \in Int
        BY <2>3
      <3>2. e[j] = (m * v - total) * (m * v - total)
        BY <2>1, <2>3, <2>4
      <3>3. abc[j] = 1 * (x * (v * v) + y * v) + z * 1
        BY <2>1, <2>2, <2>4
      <3> HIDE DEF v
      <3>4. (m * v - total) * (m * v - total) = 1 * (x * (v * v) + y * v) + z * 1
        BY <3>1
      <3> QED BY <3>2, <3>3, <3>4
    <2>5. CASE j \notin G
      <3>1. e[j] = 0 /\ abc[j] = 1 * (x * 0 + y * 0) + z * 0
        BY <2>1, <2>2, <2>5
      <3> HIDE DEF x, y, z
      <3> QED BY <1>8, <3>1
    <2> QED BY <2>4, <2>5
  <1>12. e = abc
    <2>1. e = [j \in 1..n |-> e[j]] /\ abc = [j \in 1..n |-> abc[j]]
      BY <1>6, <1>10 DEF Numbers
    <2> HIDE DEF e, abc
    <2>2. [j \in 1..n |-> e[j]] = [j \in 1..n |-> abc[j]]
      BY <1>11
    <2> QED BY <2>1, <2>2
  <1>13. 1 * (x * squares + y * total) + z * m = m * (m * squares - total * total)
    OBVIOUS
  <1> QED
    <2> HIDE DEF e, abc, ab, x, y, z
    <2> QED BY <1>6, <1>9, <1>10, <1>12, <1>13

\* A sum of squares is not less than one of them.
LEMMA SumOfSquares ==
    ASSUME NEW n \in Nat, NEW d \in Numbers(n), NEW G \in SUBSET (1..n), NEW i \in G
    PROVE  /\ d[i] \in Int
           /\ SumOver(Squares(d), G) >= 0 /\ SumOver(Squares(d), G) >= d[i] * d[i]
  <1> DEFINE e == Masked(Squares(d), G, n)
  <1>1. /\ Squares(d) \in Numbers(n) /\ \A j \in 1..n : d[j] \in Int
        /\ \A j \in 1..n : Squares(d)[j] = d[j] * d[j]
    BY SquaresType DEF Numbers
  <1>2. e \in Numbers(n) /\ SumOver(Squares(d), G) = Summed(e)
    BY <1>1, SumOverIs
  <1>3. \A j \in 1..n : e[j] = IF j \in G THEN d[j] * d[j] ELSE 0
    BY <1>1 DEF Masked
  <1> HIDE DEF e
  <1>4. \A v \in Int : v * v >= 0
    OBVIOUS
  <1>5. \A j \in 1..n : e[j] >= 0
    BY <1>1, <1>3, <1>4
  <1>6. Summed(e) >= 0 /\ Summed(e) >= e[i]
    BY <1>2, <1>5, SumIsAtLeast
  <1> QED BY <1>1, <1>2, <1>3, <1>6

\* The two ways to compute a group's variance: each is a fraction of m, the
\* group's size, and x, and m * x is the sum of the squared differences.
LEMMA DeviationsAgree ==
    ASSUME NEW b, NEW n, IsBatch(b, n), NEW i \in 1..n, Size(b, i) # 1
    PROVE  \E x \in Int : LET m == Size(b, i) IN
               /\ m \in Nat \ {0} /\ ~(m - 1 < 1)
               /\ VarianceOfSums(b, i) = <<x, m * (m - 1)>>
               /\ SquaredStd(b, i) = <<m * x, m * m * (m - 1)>>
               /\ m * x = 0 \/ m * x > 0
               /\ m * x = 0 => Centred(b, i)[1] = 0
  <1> DEFINE s == Scores(b)
             G == GroupOf(b, i)
             m == Size(b, i)
             total == Total(b, i)
             squares == SumOver(Squares(s), G)
             d == [j \in 1..n |-> m * s[j] - total]
             x == m * squares - total * total
  <1>1. n \in Nat /\ DOMAIN b = 1..n
    BY DEF IsBatch
  <1>2. /\ G \in SUBSET (1..n) /\ m = Cardinality(G) /\ m \in Nat \ {0} /\ total \in Int
        /\ total = SumOver(s, G)
    BY GroupTypes DEF Total
  <1>3. s \in Numbers(n)
    BY ScoresType
  <1>4. squares \in Int
    <2>1. Squares(s) \in Numbers(n)
      BY <1>1, <1>3, SquaresType
    <2> HIDE DEF s, G
    <2> QED BY <1>1, <2>1, SumOverIs
  <1>5. m # 1 /\ SquaredStd(b, i) = <<SumOver(Squares(d), G), m * m * (m - 1)>>
    BY <1>1 DEF SquaredStd
  <1>6. VarianceOfSums(b, i) = <<x, m * (IF m - 1 < 1 THEN 1 ELSE m - 1)>>
    BY DEF VarianceOfSums, AtLeastOne
  <1>11. /\ d \in Numbers(n) /\ Centred(b, i)[1] = d[i] * 1
         /\ i \in G /\ m * s[i] - total = d[i]
    <2>1. i \in G
      BY GroupTypes
    <2>2. Centred(b, i) = Minus(Whole(s[i]), <<total, m>>)
      BY <1>5 DEF Centred, Mean
    <2> HIDE DEF s, G, m, total
    <2>3. \A j \in 1..n : s[j] \in Int
      BY <1>3 DEF Numbers
    <2>4. \A j \in 1..n : m * s[j] - total \in Int
      BY <1>2, <2>3
    <2>5. d \in Numbers(n)
      BY <2>4 DEF Numbers
    <2>6. Centred(b, i)[1] = s[i] * m - total * 1
      BY <2>2 DEF Minus, Whole
    <2>7. s[i] * m - total * 1 = (m * s[i] - total) * 1
      BY <1>2, <2>3
    <2> QED BY <2>1, <2>5, <2>6, <2>7
  <1> HIDE DEF s, G, m, total, squares
  <1>7. SumOver(Squares(d), G) = m * x
    <2>1. squares = SumOver(Squares(s), G) /\ m \in Int
      BY <1>2 DEF squares
    <2>3. Differences(d, m, s, total, n)
      BY DEF Differences
    <2> HIDE DEF x, d
    <2>2. SumOver(Squares(d), G) = m * (m * squares - total * total)
      <3>1. n \in Nat /\ s \in Numbers(n) /\ G \in SUBSET (1..n) /\ m \in Int /\ m = Cardinality(G)
        BY <1>1, <1>2, <1>3, <2>1
      <3>2. total \in Int /\ total = SumOver(s, G)
        BY <1>2
      <3>3. squares \in Int
        BY <1>4
      <3>4. \A m1 \in Int, t1 \in Int, q1 \in Int : \A d1 :
               /\ m1 = Cardinality(G) /\ t1 = SumOver(s, G)
               /\ q1 = SumOver(Squares(s), G) /\ Differences(d1, m1, s, t1, n)
               => SumOver(Squares(d1), G) = m1 * (m1 * q1 - t1 * t1)
        BY <3>1, SumOfSquaredDifferences
      <3> QED BY <2>1, <2>3, <3>1, <3>2, <3>3, <3>4
    <2> QED BY <2>2 DEF x
  <1>8. x \in Int
    BY <1>2, <1>4
  <1> HIDE DEF d, x
  <1>9. m \in Nat \ {0} /\ ~(m - 1 < 1)
    BY <1>2, <1>5
  <1>10. /\ SquaredStd(b, i) = <<m * x, m * m * (m - 1)>>
         /\ VarianceOfSums(b, i) = <<x, m * (m - 1)>>
    BY <1>5, <1>6, <1>7, <1>9
  <1>12. m * x >= 0 /\ (m * x = 0 => d[i] = 0)
    <2>1. SumOver(Squares(d), G) >= 0 /\ SumOver(Squares(d), G) >= d[i] * d[i] /\ d[i] \in Int
      BY <1>1, <1>2, <1>11, SumOfSquares
    <2>2. \A v \in Int : 0 >= v * v => v = 0
      OBVIOUS
    <2> QED BY <1>7, <2>1, <2>2
  <1>13. m * x = 0 => Centred(b, i)[1] = 0
    BY <1>11, <1>12
  <1>14. m * x = 0 \/ m * x > 0
    <2>1. m * x \in Int
      BY <1>8, <1>9
    <2> DEFINE y == m * x
    <2> HIDE DEF y
    <2>2. y \in Int /\ y >= 0
      BY <1>12, <2>1 DEF y
    <2>3. y = 0 \/ y > 0
      BY <2>2
    <2> QED BY <2>3 DEF y
  <1> QED BY <1>8, <1>9, <1>10, <1>13, <1>14 DEF m

\* Where the group's variance is not raised, the estimates are the same.
LEMMA FloorDoesNotMatter ==
    ASSUME NEW b, NEW n, IsBatch(b, n), NEW i \in 1..n, ~Tiny(SquaredStd(b, i))
    PROVE  Centred(b, i)[1] = 0 \/ Equal(SquaredStdOfSums(b, i), SquaredStd(b, i))
  <1>1. CASE Size(b, i) = 1
    <2>1. SquaredStdOfSums(b, i) = <<1, 1>> /\ SquaredStd(b, i) = <<1, 1>>
      BY <1>1 DEF SquaredStdOfSums, SquaredStd, Whole
    <2> QED BY <2>1 DEF Equal
  <1>2. CASE Size(b, i) # 1
    <2> DEFINE m == Size(b, i)
               p == VarianceFloor[1]
               q == VarianceFloor[2]
    <2>1. PICK x \in Int :
               /\ m \in Nat \ {0} /\ ~(m - 1 < 1)
               /\ VarianceOfSums(b, i) = <<x, m * (m - 1)>>
               /\ SquaredStd(b, i) = <<m * x, m * m * (m - 1)>>
               /\ m * x = 0 \/ m * x > 0
               /\ m * x = 0 => Centred(b, i)[1] = 0
      BY <1>2, DeviationsAgree
    <2>2. p \in Nat \ {0} /\ q \in Nat \ {0}
      BY AdvantagesAssumption
    <2> SUFFICES ASSUME m * x > 0 PROVE Equal(SquaredStdOfSums(b, i), SquaredStd(b, i))
      BY <2>1
    <2>3. ~((m * x) * q < p * (m * m * (m - 1)))
      BY <2>1 DEF Tiny, Smaller
    <2>4. SquaredStdOfSums(b, i) = IF x * q < p * (m * (m - 1)) THEN VarianceFloor
                                    ELSE VarianceOfSums(b, i)
      BY <1>2, <2>1 DEF SquaredStdOfSums, Smaller
    <2>5. ~(x * q < p * (m * (m - 1)))
      <3> HIDE DEF m, p, q
      <3>1. ASSUME NEW u \in Int, NEW v \in Int, u < v PROVE m * u < m * v
        BY <2>1, <3>1
      <3>2. x * q \in Int /\ p * (m * (m - 1)) \in Int
        BY <2>1, <2>2
      <3>3. m * (x * q) = (m * x) * q /\ m * (p * (m * (m - 1))) = p * (m * m * (m - 1))
        BY <2>1, <2>2
      <3> QED BY <2>3, <3>1, <3>2, <3>3
    <2>6. SquaredStdOfSums(b, i) = <<x, m * (m - 1)>>
      BY <2>1, <2>4, <2>5
    <2>7. x * (m * m * (m - 1)) = (m * x) * (m * (m - 1))
      BY <2>1
    <2> QED BY <2>1, <2>6, <2>7 DEF Equal
  <1> QED BY <1>1, <1>2

\* The algebra of RLOO: as the source's loop has it ...
LEMMA FractionOfOthers ==
    ASSUME NEW s \in Int, NEW total \in Int, NEW m \in Int
    PROVE  ((s * m - total * 1) * m) * (1 * (m - 1)) =
              (s * (m - 1) - (total - s) * 1) * ((1 * m) * (m - 1))
  OBVIOUS

\* ... and as its variant has it.
LEMMA FractionOfOthersVectorized ==
    ASSUME NEW s \in Int, NEW total \in Int, NEW m \in Int
    PROVE  (m * s - total) * (1 * (m - 1)) = (s * (m - 1) - (total - s) * 1) * (m - 1)
  OBVIOUS

\* Both are the score less the mean of the others.
LEMMA LeaveOneOut ==
    ASSUME NEW b, NEW n, IsBatch(b, n), NEW i \in 1..n, Size(b, i) > 1
    PROVE  LET others == Minus(Whole(Scores(b)[i]),
                                   <<Total(b, i) - Scores(b)[i], Size(b, i) - 1>>)
           IN  /\ Equal(RLOO(b, i).value, others)
               /\ Equal(RLOOVectorized(b, i).value, others)
  <1> DEFINE s == Scores(b)[i]
             m == Size(b, i)
             total == Total(b, i)
             others == Minus(Whole(s), <<total - s, m - 1>>)
  <1>1. m \in Nat \ {0} /\ total \in Int
    BY GroupTypes
  <1>2. s \in Int
    BY ScoresType DEF Numbers
  <1>3. others = <<s * (m - 1) - (total - s) * 1, 1 * (m - 1)>>
    BY DEF Minus, Whole
  <1>4. RLOO(b, i).value = <<(s * m - total * 1) * m, (1 * m) * (m - 1)>>
    <2>1. Mean(b, i) = <<total, m>>
      BY <1>1 DEF Mean
    <2> HIDE DEF s, total, m
    <2>2. Centred(b, i) = <<s * m - total * 1, 1 * m>>
      BY <2>1 DEF Centred, Minus, Whole, s
    <2>3. RLOO(b, i).value = Scaled(Centred(b, i), <<m, m - 1>>)
      BY DEF RLOO, Plain, m
    <2> QED BY <2>2, <2>3 DEF Scaled
  <1>5. RLOOVectorized(b, i).value = <<m * s - total, m - 1>>
    <2>1. ~(m - 1 < 1)
      BY <1>1
    <2> QED BY <2>1 DEF RLOOVectorized, Plain, AtLeastOne
  <1>6. m > 1
    OBVIOUS
  <1> HIDE DEF s, total, m, others
  <1>7. m \in Int
    BY <1>1
  <1>8. Equal(RLOO(b, i).value, others)
    <2>1. ((s * m - total * 1) * m) * (1 * (m - 1)) =
              (s * (m - 1) - (total - s) * 1) * ((1 * m) * (m - 1))
      BY <1>1, <1>2, <1>7, FractionOfOthers
    <2> QED BY <1>3, <1>4, <2>1 DEF Equal
  <1>9. Equal(RLOOVectorized(b, i).value, others)
    <2>1. (m * s - total) * (1 * (m - 1)) = (s * (m - 1) - (total - s) * 1) * (m - 1)
      BY <1>1, <1>2, <1>7, FractionOfOthersVectorized
    <2> QED BY <1>3, <1>5, <2>1 DEF Equal
  <1> QED BY <1>8, <1>9 DEF others, s, total, m

\* With the invariant, the estimates are those of the variants.
LEMMA InvEstimatorsAgree ==
    ASSUME AdvantageInv
    PROVE  EstimatorsAgree
  <1> SUFFICES ASSUME call = "done", NEW i \in DOMAIN advantages
               PROVE
        /\ estimator = "grpo_vectorized" /\ NormByStd /\ ~Tiny(SquaredStd(Batch, i)) =>
              Same(advantages[i], GRPO(Batch, i))
        /\ estimator \in {"rloo", "rloo_vectorized"} /\ Size(Batch, i) > 1 =>
              Equal(advantages[i].value,
                    Minus(Whole(Scores(Batch)[i]),
                          <<Total(Batch, i) - Scores(Batch)[i],
                            Size(Batch, i) - 1>>))
    BY DEF EstimatorsAgree
  <1> DEFINE b == Batch
             n == Len(rows)
  <1>1. IsBatch(b, n)
    BY RowsAreBatch, BatchIsPermuted, ReorderedBatch DEF AdvantageInv
  <1>2. advantages = Estimate(estimator, b)
    BY DEF AdvantageInv
  <1> HIDE DEF b, n
  <1>3. i \in DOMAIN b /\ i \in 1..n
    <2>1. DOMAIN Estimate(estimator, b) = DOMAIN b
      BY DEF Estimate
    <2> QED BY <1>1, <1>2, <2>1 DEF IsBatch
  <1>4. ASSUME estimator = "grpo_vectorized", NormByStd, ~Tiny(SquaredStd(b, i))
        PROVE  Same(advantages[i], GRPO(b, i))
    <2>1. advantages[i] = GRPOVectorized(b, i)
      BY <1>2, <1>3, <1>4, EstimateIs
    <2>2. /\ GRPOVectorized(b, i).value = Centred(b, i)
          /\ GRPOVectorized(b, i).squaredStd = SquaredStdOfSums(b, i)
      BY DEF GRPOVectorized
    <2>3. /\ GRPO(b, i).value = Centred(b, i)
          /\ GRPO(b, i).squaredStd = SquaredStd(b, i)
      BY <1>4 DEF GRPO, Over
    <2>4. Centred(b, i)[1] = 0 \/ Equal(SquaredStdOfSums(b, i), SquaredStd(b, i))
      BY <1>1, <1>3, <1>4, FloorDoesNotMatter
    <2>5. Equal(Centred(b, i), Centred(b, i))
      BY DEF Equal
    <2> QED BY <2>1, <2>2, <2>3, <2>4, <2>5 DEF Same
  <1>5. ASSUME estimator \in {"rloo", "rloo_vectorized"}, Size(b, i) > 1
        PROVE  Equal(advantages[i].value,
                    Minus(Whole(Scores(b)[i]),
                          <<Total(b, i) - Scores(b)[i], Size(b, i) - 1>>))
    <2>1. advantages[i] = RLOO(b, i) \/ advantages[i] = RLOOVectorized(b, i)
      BY <1>2, <1>3, <1>5, EstimateIs
    <2> QED BY <1>1, <1>3, <1>5, <2>1, LeaveOneOut
  <1> QED BY <1>4, <1>5 DEF b

\* EstimatorsAgree: the vectorized GRPO and RLOO are the ones that loop, and RLOO is
\* the score less the mean of the group's others: GRPO for groups of every size whose
\* scores are all equal or have a variance of epsilon or more, RLOO for groups of two
\* and more.
THEOREM VariantsOfAnEstimatorAgree == AdvantageSpec => []EstimatorsAgree
  <1>1. AdvantageInv => EstimatorsAgree
    BY InvEstimatorsAgree
  <1>2. AdvantageSpec => []AdvantageInv
    BY AdvantageInvariant
  <1> QED BY <1>1, <1>2, PTL

\* The recursion of Power makes these rounds.
LEMMA PowerRounds ==
    ASSUME NEW k \in Nat, NEW x \in Int
    PROVE  \E p \in [0..k -> Int] :
               p[0] = 1 /\ (\A m \in 1..k : p[m] = x * p[m - 1]) /\ Power(x, k) = p[k]
  <1> DEFINE step == [y \in Int \X (1..k) |-> x * y[1]]
             Powers(g) == g = [m \in 0..k |-> IF m = 0 THEN 1 ELSE x * g[m - 1]]
             power == CHOOSE g : Powers(g)
  <1>1. Power(x, k) = power[k]
    BY DEF Power
  <1>2. step \in [Int \X (1..k) -> Int]
    <2> SUFFICES ASSUME NEW y \in Int \X (1..k) PROVE x * y[1] \in Int
      OBVIOUS
    <2>1. y[1] \in Int
      OBVIOUS
    <2> QED BY <2>1
  <1>3. \A a \in Int, m \in 1..k : step[<<a, m>>] = x * a
    OBVIOUS
  <1> HIDE DEF step
  <1>4. PICK h \in [0..k -> Int] : h[0] = 1 /\ \A m \in 1..k : h[m] = step[<<h[m - 1], m>>]
    <2> DEFINE K == k
    <2>1. Stepping(step, Int, 1, K)
      BY <1>2 DEF Stepping
    <2> HIDE DEF K
    <2>2. \E h \in [0..K -> Int] : h[0] = 1 /\ \A m \in 1..K : h[m] = step[<<h[m - 1], m>>]
      BY <2>1, Steps
    <2> QED BY <2>2 DEF K
  <1>5. \A m \in 1..k : h[m] = x * h[m - 1]
    <2>1. \A m \in 1..k : h[m - 1] \in Int
      OBVIOUS
    <2> QED BY <1>3, <1>4, <2>1
  <1>6. Powers(h)
    <2>1. \A m \in 0..k : h[m] = IF m = 0 THEN 1 ELSE x * h[m - 1]
      BY <1>4, <1>5
    <2>2. h = [m \in 0..k |-> h[m]]
      OBVIOUS
    <2> QED BY <2>1, <2>2
  <1>7. Powers(power)
    BY <1>6
  <1>8. power[0] = 1 /\ \A m \in 1..k : power[m] = x * power[m - 1]
    <2> HIDE DEF power
    <2> QED BY <1>7
  <1>9. power \in [0..k -> Int]
    <2> HIDE DEF power
    <2> DEFINE Bad == {m \in 0..k : power[m] \notin Int}
    <2>1. DOMAIN power = 0..k /\ power = [m \in 0..k |-> power[m]]
      BY <1>7
    <2> SUFFICES ASSUME Bad # {} PROVE FALSE
      BY <2>1
    <2>2. PICK b \in Bad : \A e \in Bad : b <= e
      <3>1. Bad \in SUBSET Nat
        OBVIOUS
      <3> HIDE DEF Bad
      <3> QED BY <3>1, Least
    <2>3. b \in 0..k /\ power[b] \notin Int
      OBVIOUS
    <2>4. b \in 1..k /\ b - 1 \in 0..k /\ ~(b <= b - 1)
      BY <1>8, <2>3
    <2>5. power[b - 1] \in Int
      BY <2>2, <2>4
    <2>6. power[b] = x * power[b - 1]
      BY <1>8, <2>4
    <2> QED BY <2>3, <2>5, <2>6
  <1> HIDE DEF power
  <1> QED BY <1>1, <1>8, <1>9

\* Powers.
LEMMA PowerStep ==
    ASSUME NEW k \in Nat, NEW x \in Int
    PROVE  /\ Power(x, 0) = 1
           /\ Power(x, k) \in Int
           /\ Power(x, k + 1) = x * Power(x, k)
  <1>1. PICK p \in [0..k -> Int] :
           p[0] = 1 /\ (\A m \in 1..k : p[m] = x * p[m - 1]) /\ Power(x, k) = p[k]
    BY PowerRounds
  <1>2. PICK q \in [0..(k + 1) -> Int] :
           q[0] = 1 /\ (\A m \in 1..(k + 1) : q[m] = x * q[m - 1]) /\ Power(x, k + 1) = q[k + 1]
    <2> DEFINE K == k + 1
    <2>1. K \in Nat
      OBVIOUS
    <2> HIDE DEF K
    <2>2. \E z \in [0..K -> Int] :
             z[0] = 1 /\ (\A m \in 1..K : z[m] = x * z[m - 1]) /\ Power(x, K) = z[K]
      BY <2>1, PowerRounds
    <2> QED BY <2>2 DEF K
  <1>3. Power(x, 0) = 1
    <2>1. \E z \in [0..0 -> Int] :
             z[0] = 1 /\ (\A m \in 1..0 : z[m] = x * z[m - 1]) /\ Power(x, 0) = z[0]
      BY PowerRounds
    <2> QED BY <2>1
  <1> DEFINE Bad == {m \in 0..k : p[m] # q[m]}
  <1>4. Bad = {}
    <2> SUFFICES ASSUME Bad # {} PROVE FALSE
      OBVIOUS
    <2>1. PICK b \in Bad : \A e \in Bad : b <= e
      <3>1. Bad \in SUBSET Nat
        OBVIOUS
      <3> HIDE DEF Bad
      <3> QED BY <3>1, Least
    <2>2. b \in 0..k /\ p[b] # q[b]
      OBVIOUS
    <2>3. b \in 1..k /\ b \in 1..(k + 1) /\ b - 1 \in 0..k /\ ~(b <= b - 1)
      BY <1>1, <1>2, <2>2
    <2>4. p[b - 1] = q[b - 1]
      BY <2>1, <2>3
    <2>5. p[b] = x * p[b - 1] /\ q[b] = x * q[b - 1]
      BY <1>1, <1>2, <2>3
    <2> QED BY <2>2, <2>4, <2>5
  <1>5. p[k] = q[k]
    BY <1>4
  <1>6. q[k + 1] = x * q[k]
    <2>1. k + 1 \in 1..(k + 1) /\ (k + 1) - 1 = k
      OBVIOUS
    <2> QED BY <1>2, <2>1
  <1> QED BY <1>1, <1>2, <1>3, <1>5, <1>6

\* A sum of zeros.
LEMMA SumZero ==
    ASSUME NEW n \in Nat, NEW f \in Numbers(n), \A j \in 1..n : f[j] = 0
    PROVE  Summed(f) = 0
  <1> DEFINE g == [m \in 0..n |-> 0]
  <1>1. Partial(g, f, n)
    BY DEF Partial
  <1>2. Summed(f) = g[n]
    <2> HIDE DEF g
    <2> QED BY <1>1, SumIs
  <1> QED BY <1>2

-----------------------------------------------------------------------------
(* The model's tokens from one on.                                         *)

\* The model's tokens from t on, and the first of them.
LEMMA FromIs ==
    ASSUME NEW r \in Responses, NEW t \in Int
    PROVE  /\ From(r, t) = {u \in 1..Len(r.mask) : r.mask[u] = 1 /\ u >= t}
           /\ IsFiniteSet(From(r, t))
           /\ From(r, t) # {} => /\ Min(From(r, t)) \in From(r, t)
                                     /\ \A u \in From(r, t) : Min(From(r, t)) <= u
  <1> DEFINE L == Len(r.mask)
             S == From(r, t)
  <1>1. L \in Nat /\ DOMAIN r.mask = 1..L
    BY ResponseTypes
  <1>2. S = {u \in 1..L : r.mask[u] = 1 /\ u >= t}
    BY <1>1 DEF From, Turns
  <1> HIDE DEF L
  <1>3. S \in SUBSET (1..L)
    BY <1>2
  <1>4. IsFiniteSet(S)
    <2>1. IsFiniteSet(1..L)
      BY <1>1, FS_Interval
    <2> HIDE DEF S
    <2> QED BY <1>3, <2>1, FS_Subset
  <1>5. ASSUME S # {} PROVE Min(S) \in S /\ \A u \in S : Min(S) <= u
    <2>1. S \in SUBSET Nat
      BY <1>1, <1>3
    <2> HIDE DEF S
    <2>2. \E b \in S : \A e \in S : b <= e
      BY <1>5, <2>1, Least
    <2>3. Min(S) = CHOOSE x \in S : \A y \in S : x <= y
      BY DEF Min
    <2> QED BY <2>2, <2>3
  <1> QED BY <1>2, <1>4, <1>5 DEF L

\* A token is before those after it.
LEMMA FromStep ==
    ASSUME NEW r \in Responses, NEW t \in 1..Len(r.mask)
    PROVE  /\ t \notin From(r, t + 1)
           /\ r.mask[t] = 1 => From(r, t) = From(r, t + 1) \cup {t}
           /\ r.mask[t] # 1 => From(r, t) = From(r, t + 1)
  <1> DEFINE L == Len(r.mask)
  <1>1. L \in Nat
    BY ResponseTypes
  <1>2. /\ From(r, t) = {u \in 1..L : r.mask[u] = 1 /\ u >= t}
        /\ From(r, t + 1) = {u \in 1..L : r.mask[u] = 1 /\ u >= t + 1}
    <2>1. t \in Int /\ t + 1 \in Int
      BY <1>1
    <2> QED BY <2>1, FromIs
  <1>3. t \in 1..L /\ t \in Int
    BY <1>1
  <1> HIDE DEF L
  <1>4. \A u \in 1..L : (u >= t <=> u >= t + 1 \/ u = t) /\ (u = t => ~(u >= t + 1) /\ u >= t)
    BY <1>1, <1>3
  <1>5. t \notin From(r, t + 1)
    BY <1>2, <1>3, <1>4
  <1>6. ASSUME r.mask[t] = 1 PROVE From(r, t) = From(r, t + 1) \cup {t}
    BY <1>2, <1>3, <1>4, <1>6
  <1>7. ASSUME r.mask[t] # 1 PROVE From(r, t) = From(r, t + 1)
    BY <1>2, <1>3, <1>4, <1>7
  <1> QED BY <1>5, <1>6, <1>7

\* There is none after the last.
LEMMA FromEnds ==
    ASSUME NEW r \in Responses
    PROVE  From(r, Len(r.mask) + 1) = {}
  <1> DEFINE L == Len(r.mask)
  <1>1. L \in Nat
    BY ResponseTypes
  <1>2. From(r, L + 1) = {u \in 1..L : r.mask[u] = 1 /\ u >= L + 1}
    <2>1. L + 1 \in Int
      BY <1>1
    <2> QED BY <2>1, FromIs
  <1> HIDE DEF L
  <1>3. \A u \in 1..L : ~(u >= L + 1)
    BY <1>1
  <1>4. From(r, L + 1) = {}
    BY <1>2, <1>3
  <1> QED BY <1>4 DEF L

\* The value that follows after token t.
NextOf(r, t) == IF From(r, t) = {} THEN 0 ELSE r.values[Min(From(r, t))]

\* It is the token's own if the token is the model's.
LEMMA NextOfStep ==
    ASSUME NEW r \in Responses, NEW t \in 1..Len(r.mask)
    PROVE  NextOf(r, t) = IF r.mask[t] = 1 THEN r.values[t] ELSE NextOf(r, t + 1)
  <1>1. CASE r.mask[t] = 1
    <2>0. Len(r.mask) \in Nat /\ t \in Int
      BY ResponseTypes
    <2>1. t \in From(r, t)
      BY <1>1, FromStep
    <2>2. /\ From(r, t) = {u \in 1..Len(r.mask) : r.mask[u] = 1 /\ u >= t}
          /\ Min(From(r, t)) \in From(r, t)
          /\ \A u \in From(r, t) : Min(From(r, t)) <= u
      <3>1. From(r, t) # {}
        BY <2>1
      <3> QED BY <2>0, <3>1, FromIs
    <2>3. /\ Min(From(r, t)) <= t /\ Min(From(r, t)) >= t
          /\ Min(From(r, t)) \in Int
      BY <2>0, <2>1, <2>2
    <2>4. Min(From(r, t)) = t
      BY <2>0, <2>3
    <2> QED BY <1>1, <2>1, <2>4 DEF NextOf
  <1>2. CASE r.mask[t] # 1
    BY <1>2, FromStep DEF NextOf
  <1> QED BY <1>1, <1>2

\* It is a number.
LEMMA NextOfType ==
    ASSUME NEW r \in Responses, NEW t \in Int
    PROVE  NextOf(r, t) \in Int
  <1>1. \A u \in 1..Len(r.mask) : r.values[u] \in Int
    BY ResponseTypes DEF Numbers
  <1>2. CASE From(r, t) = {}
    BY <1>2 DEF NextOf
  <1>3. CASE From(r, t) # {}
    <2>1. Min(From(r, t)) \in 1..Len(r.mask)
      BY <1>3, FromIs
    <2> QED BY <1>1, <1>3, <2>1 DEF NextOf
  <1> QED BY <1>2, <1>3

\* gamma and lam are numbers.
Factors == discount \in Int \X Int

\* The temporal difference is to the value that follows.
LEMMA DifferenceIs ==
    ASSUME Factors, NEW r \in Responses, NEW t \in 1..Len(r.mask)
    PROVE  /\ Difference(r, t) = r.rewards[t] - r.values[t] + Gamma * NextOf(r, t + 1)
           /\ Difference(r, t) \in Int
  <1>1. Difference(r, t) = r.rewards[t] - r.values[t] + Gamma * NextOf(r, t + 1)
    BY DEF Difference, NextOf
  <1>2. r.rewards[t] \in Int /\ r.values[t] \in Int
    BY ResponseTypes DEF Numbers
  <1>3. NextOf(r, t + 1) \in Int
    <2>1. t + 1 \in Int
      BY ResponseTypes
    <2> QED BY <2>1, NextOfType
  <1>4. Gamma \in Int
    BY DEF Gamma, Factors
  <1> QED BY <1>1, <1>2, <1>3, <1>4

\* How many of the model's tokens are from t to before u, and what each takes off.
Between(r, t, u) == Cardinality(From(r, t) \ From(r, u))
Factor == Gamma * Lam

\* The discounted differences from t on.
Terms(r, t) ==
    [u \in 1..Len(r.mask) |->
        IF u \in From(r, t)
        THEN Power(Factor, Between(r, t, u)) * Difference(r, u) ELSE 0]

\* The discount of a token is a number,
LEMMA FactorType == Factors => Factor \in Int
  BY DEF Factors, Factor, Gamma, Lam

\* so are the discounted differences,
LEMMA TermsType ==
    ASSUME Factors, NEW r \in Responses, NEW t \in Int
    PROVE  Terms(r, t) \in Numbers(Len(r.mask))
  <1> SUFFICES ASSUME NEW u \in 1..Len(r.mask)
               PROVE  Power(Factor, Between(r, t, u)) * Difference(r, u) \in Int
    BY DEF Terms, Numbers
  <1>1. Difference(r, u) \in Int
    BY DifferenceIs
  <1>2. Between(r, t, u) \in Nat
    <2>1. IsFiniteSet(From(r, t))
      BY FromIs
    <2>2. IsFiniteSet(From(r, t) \ From(r, u))
      BY <2>1, FS_Difference
    <2> QED BY <2>2, FS_CardinalityType DEF Between
  <1>3. Power(Factor, Between(r, t, u)) \in Int
    BY <1>2, FactorType, PowerStep
  <1> QED BY <1>1, <1>3

\* and Discounted is their sum.
LEMMA DiscountedIs ==
    ASSUME NEW r \in Responses, NEW t \in Int
    PROVE  Discounted(r, t) = Summed(Terms(r, t))
  <1> DEFINE L == Len(r.mask)
             list == [u \in 1..L |->
                         Power(Gamma * Lam,
                                   Cardinality(From(r, t) \ From(r, u)))
                             * Difference(r, u)]
  <1>1. DOMAIN r.mask = 1..L
    BY ResponseTypes
  <1>2. Discounted(r, t) = SumOver(list, From(r, t))
    BY <1>1 DEF Discounted
  <1>3. SumOver(list, From(r, t)) =
           Summed([u \in 1..L |-> IF u \in From(r, t) THEN list[u] ELSE 0])
    BY DEF SumOver
  <1>4. [u \in 1..L |-> IF u \in From(r, t) THEN list[u] ELSE 0] = Terms(r, t)
    <2>1. \A u \in 1..L : list[u] = Power(Factor, Between(r, t, u)) * Difference(r, u)
      BY DEF Factor, Between
    <2> HIDE DEF list
    <2> QED BY <2>1 DEF Terms
  <1> QED BY <1>2, <1>3, <1>4

\* A token of the model's is one more between all that is before it and all after it.
LEMMA BetweenStep ==
    ASSUME NEW r \in Responses, NEW t \in 1..Len(r.mask), r.mask[t] = 1
    PROVE  /\ Between(r, t, t) = 0
           /\ \A u \in From(r, t + 1) :
                 /\ Between(r, t + 1, u) \in Nat
                 /\ Between(r, t, u) = Between(r, t + 1, u) + 1
  <1>0. t \in Int /\ t + 1 \in Int
    BY ResponseTypes
  <1>1. Between(r, t, t) = 0
    <2>1. From(r, t) \ From(r, t) = {}
      OBVIOUS
    <2> QED BY <2>1, FS_EmptySet DEF Between
  <1>2. ASSUME NEW u \in From(r, t + 1)
        PROVE  /\ Between(r, t + 1, u) \in Nat
               /\ Between(r, t, u) = Between(r, t + 1, u) + 1
    <2> DEFINE A == From(r, t + 1)
               U == From(r, u)
    <2>1. /\ A = {v \in 1..Len(r.mask) : r.mask[v] = 1 /\ v >= t + 1}
          /\ IsFiniteSet(A)
      BY <1>0, FromIs
    <2>2. u \in Int /\ u >= t + 1
      <3>1. Len(r.mask) \in Nat
        BY ResponseTypes
      <3> QED BY <2>1, <3>1
    <2>3. U = {v \in 1..Len(r.mask) : r.mask[v] = 1 /\ v >= u}
      BY <2>2, FromIs
    <2>4. t \notin A /\ From(r, t) = A \cup {t}
      BY FromStep
    <2>5. t \notin U
      <3>1. ~(t >= u)
        BY <1>0, <2>2
      <3> QED BY <2>3, <3>1
    <2> HIDE DEF A, U
    <2>6. From(r, t) \ U = (A \ U) \cup {t} /\ t \notin A \ U
      BY <2>4, <2>5
    <2>7. IsFiniteSet(A \ U)
      BY <2>1, FS_Difference
    <2>8. Cardinality((A \ U) \cup {t}) = Cardinality(A \ U) + 1 /\ Cardinality(A \ U) \in Nat
      BY <2>6, <2>7, FS_AddElement, FS_CardinalityType
    <2> QED BY <2>6, <2>8 DEF Between, A, U
  <1> QED BY <1>1, <1>2

\* What a token adds to the discounted differences after it.
LEMMA DiscountedStep ==
    ASSUME Factors, NEW r \in Responses, NEW t \in 1..Len(r.mask)
    PROVE  /\ r.mask[t] = 1 =>
                  Discounted(r, t) = Difference(r, t) + Factor * Discounted(r, t + 1)
           /\ r.mask[t] # 1 => Discounted(r, t) = Discounted(r, t + 1)
  <1> DEFINE L == Len(r.mask)
             f == Terms(r, t + 1)
             h == Terms(r, t)
             point == [j \in 1..L |-> IF j \in {t} THEN 1 ELSE 0]
             d == Difference(r, t)
  <1>1. L \in Nat /\ t \in Int /\ t + 1 \in Int /\ t \in 1..L
    BY ResponseTypes
  <1>2. /\ Discounted(r, t) = Summed(h) /\ Discounted(r, t + 1) = Summed(f)
        /\ h \in Numbers(L) /\ f \in Numbers(L)
    BY <1>1, DiscountedIs, TermsType
  <1>3. d \in Int /\ Factor \in Int
    BY DifferenceIs, FactorType
  <1>4. ASSUME r.mask[t] = 1 PROVE Summed(h) = d + Factor * Summed(f)
    <2>1. point \in Numbers(L) /\ Summed(point) = 1
      <3>1. {t} \in SUBSET (1..L)
        BY <1>1
      <3> HIDE DEF L
      <3>2. point \in Numbers(L) /\ Summed(point) = Cardinality({t})
        BY <1>1, <3>1, SumCounts
      <3> QED BY <3>2, FS_Singleton
    <2>2. \A j \in 1..L : h[j] = Factor * f[j] + d * point[j]
      <3> SUFFICES ASSUME NEW j \in 1..L PROVE h[j] = Factor * f[j] + d * point[j]
        OBVIOUS
      <3>1. /\ t \notin From(r, t + 1)
            /\ From(r, t) = From(r, t + 1) \cup {t}
        BY <1>4, FromStep
      <3>2. /\ h[j] = IF j \in From(r, t)
                      THEN Power(Factor, Between(r, t, j)) * Difference(r, j) ELSE 0
            /\ f[j] = IF j \in From(r, t + 1)
                      THEN Power(Factor, Between(r, t + 1, j)) * Difference(r, j) ELSE 0
            /\ point[j] = IF j = t THEN 1 ELSE 0
        BY DEF Terms
      <3> HIDE DEF h, f, point, d, L
      <3>3. CASE j = t
        <4>1. Between(r, t, t) = 0
          BY <1>4, BetweenStep
        <4>2. Power(Factor, 0) = 1
          BY <1>3, PowerStep
        <4>3. h[j] = 1 * d /\ f[j] = 0 /\ point[j] = 1
          BY <3>1, <3>2, <3>3, <4>1, <4>2 DEF d
        <4> QED BY <1>3, <4>3
      <3>4. CASE j \in From(r, t + 1)
        <4> DEFINE k == Between(r, t + 1, j)
                   e == Difference(r, j)
        <4>1. k \in Nat /\ Between(r, t, j) = k + 1
          BY <1>4, <3>4, BetweenStep
        <4>2. j # t /\ e \in Int
          BY <3>1, <3>4, DifferenceIs DEF L
        <4> HIDE DEF k
        <4>3. /\ Power(Factor, k) \in Int
              /\ Power(Factor, k + 1) = Factor * Power(Factor, k)
          BY <1>3, <4>1, PowerStep
        <4>4. /\ h[j] = (Factor * Power(Factor, k)) * e
              /\ f[j] = Power(Factor, k) * e /\ point[j] = 0
          BY <3>1, <3>2, <3>4, <4>1, <4>2, <4>3 DEF k
        <4> DEFINE w == Power(Factor, k)
                   x == Factor
        <4>5. w \in Int /\ x \in Int /\ h[j] = (x * w) * e /\ f[j] = w * e /\ point[j] = 0
          BY <1>3, <4>3, <4>4
        <4> HIDE DEF w, x, e
        <4>6. (x * w) * e = x * (w * e) + d * 0
          BY <1>3, <4>2, <4>5
        <4> QED BY <4>5, <4>6 DEF x
      <3>5. CASE j # t /\ j \notin From(r, t + 1)
        <4>1. h[j] = 0 /\ f[j] = 0 /\ point[j] = 0
          BY <3>1, <3>2, <3>5
        <4> QED BY <1>3, <4>1
      <3> QED BY <3>3, <3>4, <3>5
    <2> DEFINE a == Factor
    <2>3. Combines(h, a, f, d, point, L)
      <3>1. h = [j \in 1..L |-> h[j]]
        BY <1>2 DEF Numbers
      <3> HIDE DEF h, f, point, d, L
      <3> QED BY <2>2, <3>1 DEF Combines
    <2>4. a \in Int
      BY <1>3
    <2> HIDE DEF h, f, point, d, L, a
    <2>5. Summed(h) = a * Summed(f) + d * Summed(point)
      BY <1>1, <1>2, <1>3, <2>1, <2>3, <2>4, SumCombines
    <2>6. Summed(f) \in Int
      BY <1>1, <1>2, SumType
    <2>7. Summed(h) = d + a * Summed(f)
      BY <1>3, <2>1, <2>4, <2>5, <2>6
    <2> QED BY <2>7 DEF a
  <1>5. ASSUME r.mask[t] # 1 PROVE h = f
    <2>1. From(r, t) = From(r, t + 1)
      BY <1>5, FromStep
    <2>2. \A u : Between(r, t, u) = Between(r, t + 1, u)
      BY <2>1 DEF Between
    <2> QED BY <2>1, <2>2 DEF Terms
  <1> QED
    <2> HIDE DEF h, f, d
    <2> QED BY <1>2, <1>4, <1>5 DEF d

\* There is nothing after the last token.
LEMMA DiscountedEnds ==
    ASSUME Factors, NEW r \in Responses
    PROVE  Discounted(r, Len(r.mask) + 1) = 0
  <1> DEFINE L == Len(r.mask)
             f == Terms(r, L + 1)
  <1>1. L \in Nat
    BY ResponseTypes
  <1>2. L + 1 \in Int
    BY <1>1
  <1>3. f \in Numbers(L) /\ Discounted(r, L + 1) = Summed(f)
    BY <1>2, TermsType, DiscountedIs
  <1>4. \A u \in 1..L : f[u] = 0
    BY FromEnds DEF Terms
  <1> HIDE DEF f, L
  <1>5. Discounted(r, L + 1) = 0
    BY <1>1, <1>3, <1>4, SumZero
  <1> QED BY <1>5 DEF L

\* It is a number.
LEMMA DiscountedType ==
    ASSUME Factors, NEW r \in Responses, NEW t \in Int
    PROVE  Discounted(r, t) \in Int
  <1>1. Terms(r, t) \in Numbers(Len(r.mask)) /\ Len(r.mask) \in Nat
    BY TermsType, ResponseTypes
  <1> QED BY <1>1, DiscountedIs, SumType

\* What the loop should hold when it has come to token t.
Estimated(r, t) == [nextvalues |-> NextOf(r, t), lastgaelam |-> Discounted(r, t)]

\* One round of the loop of GAE.
GAERound(r, n, before) ==
    LET t == TokenOf(r, n)
        delta == r.rewards[t] + Gamma * before.nextvalues - r.values[t]
        estimate == delta + Gamma * Lam * before.lastgaelam
    IN  [nextvalues |-> NextValue(r, t, before.nextvalues),
         lastgaelam |-> IF r.mask[t] = 1 THEN estimate ELSE before.lastgaelam]

\* A round takes it from the next token to this one.
LEMMA GAERoundIs ==
    ASSUME Factors, NEW r \in Responses, NEW n \in 1..Len(r.mask)
    PROVE  GAERound(r, n, Estimated(r, Len(r.mask) + 1 - (n - 1)))
              = Estimated(r, Len(r.mask) + 1 - n)
  <1> DEFINE L == Len(r.mask)
             t == L + 1 - n
  <1>1. L \in Nat /\ t \in 1..L /\ t \in Int /\ L + 1 - (n - 1) = t + 1 /\ TokenOf(r, n) = t
    BY ResponseTypes DEF TokenOf
  <1> HIDE DEF t
  <1>2. /\ NextOf(r, t) = IF r.mask[t] = 1 THEN r.values[t] ELSE NextOf(r, t + 1)
        /\ r.mask[t] = 1 =>
              Discounted(r, t) = Difference(r, t) + Factor * Discounted(r, t + 1)
        /\ r.mask[t] # 1 => Discounted(r, t) = Discounted(r, t + 1)
        /\ Difference(r, t) = r.rewards[t] - r.values[t] + Gamma * NextOf(r, t + 1)
    BY <1>1, NextOfStep, DiscountedStep, DifferenceIs
  <1>3. r.rewards[t] \in Int /\ r.values[t] \in Int /\ NextOf(r, t + 1) \in Int /\ Gamma \in Int
    <2>1. t + 1 \in Int
      BY <1>1
    <2>2. r.rewards[t] \in Int /\ r.values[t] \in Int
      BY <1>1, ResponseTypes DEF Numbers
    <2>3. Gamma \in Int
      BY DEF Factors, Gamma
    <2> QED BY <2>1, <2>2, <2>3, NextOfType
  <1>4. GAERound(r, n, Estimated(r, t + 1)) =
          [nextvalues |-> IF r.mask[t] = 1 THEN r.values[t] ELSE NextOf(r, t + 1),
           lastgaelam |-> IF r.mask[t] = 1
                          THEN (r.rewards[t] + Gamma * NextOf(r, t + 1) - r.values[t])
                                   + Factor * Discounted(r, t + 1)
                          ELSE Discounted(r, t + 1)]
    BY <1>1 DEF GAERound, Estimated, NextValue, Factor
  <1>5. r.rewards[t] + Gamma * NextOf(r, t + 1) - r.values[t] = Difference(r, t)
    <2> DEFINE g == Gamma * NextOf(r, t + 1)
    <2>1. g \in Int
      BY <1>3
    <2> HIDE DEF g
    <2>2. r.rewards[t] + g - r.values[t] = r.rewards[t] - r.values[t] + g
      BY <1>3, <2>1
    <2> QED BY <1>2, <2>2 DEF g
  <1>6. GAERound(r, n, Estimated(r, t + 1)) = Estimated(r, t)
    BY <1>2, <1>4, <1>5 DEF Estimated
  <1> QED BY <1>1, <1>6 DEF t

\* GAE is the discounted sum of the differences between the model's tokens.
LEMMA GAEIs ==
    ASSUME Factors, NEW r \in Responses, NEW t \in 1..Len(r.mask)
    PROVE  GAE(r)[t] = Discounted(r, t)
  <1> DEFINE L == Len(r.mask)
             h == [n \in 0..L |-> Estimated(r, L + 1 - n)]
             zero == [nextvalues |-> 0, lastgaelam |-> 0]
             Loop(f) == f = [n \in 0..L |-> IF n = 0 THEN zero ELSE GAERound(r, n, f[n - 1])]
             loop == CHOOSE f : Loop(f)
  <1>1. L \in Nat /\ DOMAIN r.mask = 1..L /\ t \in 1..L
    BY ResponseTypes
  <1>2. GAE(r)[t] = loop[L + 1 - t].lastgaelam
    <2>1. GAE(r) = [u \in 1..L |-> loop[TokenOf(r, u)].lastgaelam]
      BY <1>1 DEF GAE, GAERound
    <2> HIDE DEF loop
    <2> QED BY <2>1, <1>1 DEF TokenOf
  <1>3. h[0] = zero
    <2>1. L + 1 \in Int /\ L + 1 - 0 = L + 1
      BY <1>1
    <2>2. NextOf(r, L + 1) = 0 /\ Discounted(r, L + 1) = 0
      BY FromEnds, DiscountedEnds DEF NextOf
    <2> QED BY <1>1, <2>1, <2>2 DEF Estimated
  <1>4. \A n \in 1..L : h[n] = GAERound(r, n, h[n - 1])
    <2> SUFFICES ASSUME NEW n \in 1..L PROVE h[n] = GAERound(r, n, h[n - 1])
      OBVIOUS
    <2>1. n \in 0..L /\ n - 1 \in 0..L
      BY <1>1
    <2>2. h[n] = Estimated(r, L + 1 - n) /\ h[n - 1] = Estimated(r, L + 1 - (n - 1))
      BY <2>1
    <2> HIDE DEF h
    <2> QED BY <2>2, GAERoundIs
  <1>5. Loop(h)
    <2>1. \A n \in 0..L : h[n] = IF n = 0 THEN zero ELSE GAERound(r, n, h[n - 1])
      <3> HIDE DEF h, zero
      <3> QED BY <1>1, <1>3, <1>4
    <2>2. h = [n \in 0..L |-> h[n]]
      OBVIOUS
    <2> HIDE DEF h, zero
    <2> QED BY <2>1, <2>2
  <1>6. Loop(loop)
    <2> HIDE DEF h, zero
    <2> QED BY <1>5
  <1> HIDE DEF loop, h, zero
  <1>7. \A n \in 0..L : loop[n] = IF n = 0 THEN zero ELSE GAERound(r, n, loop[n - 1])
    BY <1>6
  <1> DEFINE Bad == {n \in 0..L : loop[n] # h[n]}
  <1>8. Bad = {}
    <2> SUFFICES ASSUME Bad # {} PROVE FALSE
      OBVIOUS
    <2>1. PICK b \in Bad : \A e \in Bad : b <= e
      <3>1. Bad \in SUBSET Nat
        BY <1>1
      <3> HIDE DEF Bad
      <3> QED BY <3>1, Least
    <2>2. b \in 0..L /\ loop[b] # h[b]
      OBVIOUS
    <2>3. b # 0
      BY <1>3, <1>7, <2>2
    <2>4. b \in 1..L /\ b - 1 \in 0..L /\ ~(b <= b - 1)
      BY <1>1, <2>2, <2>3
    <2>5. loop[b - 1] = h[b - 1]
      BY <2>1, <2>4
    <2>6. loop[b] = GAERound(r, b, loop[b - 1]) /\ h[b] = GAERound(r, b, h[b - 1])
      BY <1>4, <1>7, <2>2, <2>3, <2>4
    <2> QED BY <2>2, <2>5, <2>6
  <1>9. L + 1 - t \in 0..L /\ L + 1 - (L + 1 - t) = t
    BY <1>1
  <1>10. loop[L + 1 - t] = Estimated(r, t)
    <2>1. loop[L + 1 - t] = h[L + 1 - t]
      BY <1>8, <1>9
    <2>2. h[L + 1 - t] = Estimated(r, L + 1 - (L + 1 - t))
      BY <1>9 DEF h
    <2> QED BY <1>9, <2>1, <2>2
  <1> QED BY <1>2, <1>10 DEF Estimated

-----------------------------------------------------------------------------
(* The rewards to come.                                                    *)

\* The rewards on the model's tokens from t on.
Rest(r, t) ==
    [u \in 1..Len(r.mask) |-> IF u \in t..Len(r.mask) THEN r.rewards[u] * r.mask[u] ELSE 0]

\* They are numbers,
LEMMA RestType ==
    ASSUME NEW r \in Responses, NEW t
    PROVE  Rest(r, t) \in Numbers(Len(r.mask))
  <1>1. \A u \in 1..Len(r.mask) : r.rewards[u] \in Int /\ r.mask[u] \in Int
    BY ResponseTypes DEF Numbers
  <1>2. \A u \in 1..Len(r.mask) : r.rewards[u] * r.mask[u] \in Int
    BY <1>1
  <1> QED BY <1>2 DEF Rest, Numbers

\* and ReMax is their sum.
LEMMA ReMaxIs ==
    ASSUME NEW r \in Responses, NEW t \in 1..Len(r.mask)
    PROVE  ReMaxReturns(r)[t] = Summed(Rest(r, t))
  <1> DEFINE L == Len(r.mask)
             masked == [u \in 1..L |-> r.rewards[u] * r.mask[u]]
  <1>1. DOMAIN r.mask = 1..L /\ t \in 1..L
    BY ResponseTypes
  <1>2. ReMaxReturns(r)[t] = SumOver(masked, t..L)
    BY <1>1 DEF ReMaxReturns
  <1>3. SumOver(masked, t..L) = Summed([u \in 1..L |-> IF u \in t..L THEN masked[u] ELSE 0])
    BY DEF SumOver
  <1>4. [u \in 1..L |-> IF u \in t..L THEN masked[u] ELSE 0] = Rest(r, t)
    BY DEF Rest
  <1> QED BY <1>2, <1>3, <1>4

\* A token of the model's adds its reward, others add nothing.
LEMMA RestStep ==
    ASSUME NEW r \in Responses, NEW t \in 1..Len(r.mask)
    PROVE  /\ Summed(Rest(r, t)) = r.rewards[t] * r.mask[t] + Summed(Rest(r, t + 1))
           /\ Summed(Rest(r, t + 1)) \in Int /\ r.rewards[t] \in Int
           /\ r.mask[t] = 1 => Summed(Rest(r, t)) = r.rewards[t] + Summed(Rest(r, t + 1))
           /\ r.mask[t] # 1 => Summed(Rest(r, t)) = Summed(Rest(r, t + 1))
  <1> DEFINE L == Len(r.mask)
             f == Rest(r, t + 1)
             h == Rest(r, t)
  <1>1. L \in Nat /\ t \in Int /\ t \in 1..L
    BY ResponseTypes
  <1>2. f \in Numbers(L) /\ h \in Numbers(L)
    BY RestType
  <1>3. /\ \A u \in 1..L : u # t => h[u] = f[u]
        /\ f[t] = 0 /\ h[t] = r.rewards[t] * r.mask[t]
    <2>1. \A u \in 1..L : u # t => (u \in t..L <=> u \in (t + 1)..L)
      BY <1>1
    <2>2. t \in t..L /\ t \notin (t + 1)..L
      BY <1>1
    <2>3. \A u \in 1..L : /\ h[u] = IF u \in t..L THEN r.rewards[u] * r.mask[u] ELSE 0
                          /\ f[u] = IF u \in (t + 1)..L THEN r.rewards[u] * r.mask[u] ELSE 0
      BY DEF Rest
    <2> HIDE DEF f, h, L
    <2> QED BY <1>1, <2>1, <2>2, <2>3
  <1>4. r.rewards[t] \in Int /\ r.mask[t] \in {0, 1}
    BY <1>1, ResponseTypes DEF Numbers
  <1> HIDE DEF f, h, L
  <1>5. Summed(h) = Summed(f) - f[t] + h[t] /\ Summed(f) \in Int
    BY <1>1, <1>2, <1>3, SumPoint, SumType
  <1>6. r.rewards[t] * r.mask[t] \in Int
    BY <1>4
  <1>7. Summed(h) = r.rewards[t] * r.mask[t] + Summed(f)
    BY <1>3, <1>5, <1>6
  <1>8. r.mask[t] = 1 => Summed(h) = r.rewards[t] + Summed(f)
    <2> SUFFICES ASSUME r.mask[t] = 1 PROVE Summed(h) = r.rewards[t] + Summed(f)
      OBVIOUS
    <2>1. r.rewards[t] * r.mask[t] = r.rewards[t]
      BY <1>4
    <2> QED BY <1>7, <2>1
  <1>9. r.mask[t] # 1 => Summed(h) = Summed(f)
    <2> SUFFICES ASSUME r.mask[t] # 1 PROVE Summed(h) = Summed(f)
      OBVIOUS
    <2>1. r.rewards[t] * r.mask[t] = 0
      BY <1>4
    <2> QED BY <1>5, <1>7, <2>1
  <1> QED BY <1>4, <1>5, <1>7, <1>8, <1>9 DEF f, h

\* Where no token is the model's there is nothing to come.
LEMMA RestZero ==
    ASSUME NEW r \in Responses, NEW t,
           \A u \in t..Len(r.mask) : u \in 1..Len(r.mask) => r.mask[u] # 1
    PROVE  Summed(Rest(r, t)) = 0
  <1>1. Len(r.mask) \in Nat /\ Rest(r, t) \in Numbers(Len(r.mask))
    BY ResponseTypes, RestType
  <1>2. \A u \in 1..Len(r.mask) : r.rewards[u] \in Int /\ r.mask[u] \in {0, 1}
    BY ResponseTypes DEF Numbers
  <1>3. ASSUME NEW u \in 1..Len(r.mask) PROVE Rest(r, t)[u] = 0
    <2>1. CASE u \in t..Len(r.mask)
      <3>1. r.mask[u] = 0
        BY <1>2, <2>1
      <3>2. r.rewards[u] * r.mask[u] = 0
        BY <1>2, <3>1
      <3> QED BY <2>1, <3>2 DEF Rest
    <2>2. CASE u \notin t..Len(r.mask)
      BY <2>2 DEF Rest
    <2> QED BY <2>1, <2>2
  <1> QED BY <1>1, <1>3, SumZero

\* Without discount the differences and the next value add up to the rewards to come.
LEMMA UndiscountedIs ==
    ASSUME discount = <<1, 1>>, NEW r \in Responses, NEW t \in 1..Len(r.mask)
    PROVE  Discounted(r, t) + NextOf(r, t) = Summed(Rest(r, t))
  <1> DEFINE L == Len(r.mask)
             Good(n) == Discounted(r, L + 1 - n) + NextOf(r, L + 1 - n)
                            = Summed(Rest(r, L + 1 - n))
             Bad == {n \in 0..L : ~Good(n)}
  <1>1. L \in Nat /\ t \in 1..L
    BY ResponseTypes
  <1>2. Factors /\ Gamma = 1 /\ Factor = 1
    BY DEF Factors, Gamma, Factor, Lam
  <1>3. Good(0)
    <2>1. L + 1 - 0 = L + 1
      BY <1>1
    <2>2. NextOf(r, L + 1) = 0 /\ Discounted(r, L + 1) = 0
      BY <1>2, FromEnds, DiscountedEnds DEF NextOf
    <2>3. (L + 1)..L = {}
      BY <1>1
    <2>4. Summed(Rest(r, L + 1)) = 0
      BY <2>3, RestZero
    <2> QED BY <2>1, <2>2, <2>4
  <1>4. ASSUME NEW n \in 1..L, Good(n - 1) PROVE Good(n)
    <2> DEFINE u == L + 1 - n
    <2>1. u \in 1..L /\ u \in Int /\ u + 1 \in Int /\ L + 1 - (n - 1) = u + 1
      BY <1>1
    <2>2. Discounted(r, u + 1) + NextOf(r, u + 1) = Summed(Rest(r, u + 1))
      BY <1>4, <2>1
    <2> HIDE DEF u
    <2>3. /\ NextOf(r, u) = IF r.mask[u] = 1 THEN r.values[u] ELSE NextOf(r, u + 1)
          /\ r.mask[u] = 1 =>
                Discounted(r, u) = Difference(r, u) + Factor * Discounted(r, u + 1)
          /\ r.mask[u] # 1 => Discounted(r, u) = Discounted(r, u + 1)
          /\ Difference(r, u) = r.rewards[u] - r.values[u] + Gamma * NextOf(r, u + 1)
      BY <1>2, <2>1, NextOfStep, DiscountedStep, DifferenceIs
    <2>4. /\ r.rewards[u] \in Int /\ r.values[u] \in Int /\ NextOf(r, u + 1) \in Int
          /\ Discounted(r, u + 1) \in Int
      BY <1>2, <2>1, ResponseTypes, NextOfType, DiscountedType DEF Numbers
    <2>5. /\ r.mask[u] = 1 => Summed(Rest(r, u)) = r.rewards[u] + Summed(Rest(r, u + 1))
          /\ r.mask[u] # 1 => Summed(Rest(r, u)) = Summed(Rest(r, u + 1))
      BY <2>1, RestStep
    <2>6. Discounted(r, u) + NextOf(r, u) = Summed(Rest(r, u))
      <3>1. CASE r.mask[u] = 1
        <4>1. Discounted(r, u) = (r.rewards[u] - r.values[u] + 1 * NextOf(r, u + 1))
                                         + 1 * Discounted(r, u + 1)
          BY <1>2, <2>3, <3>1
        <4> QED BY <2>2, <2>3, <2>4, <2>5, <3>1, <4>1
      <3>2. CASE r.mask[u] # 1
        BY <2>2, <2>3, <2>5, <3>2
      <3> QED BY <3>1, <3>2
    <2> QED BY <2>6 DEF u
  <1> HIDE DEF Good
  <1>5. Bad = {}
    <2> SUFFICES ASSUME Bad # {} PROVE FALSE
      OBVIOUS
    <2>1. PICK b \in Bad : \A e \in Bad : b <= e
      <3>1. Bad \in SUBSET Nat
        BY <1>1
      <3> HIDE DEF Bad
      <3> QED BY <3>1, Least
    <2>2. b \in 0..L /\ ~Good(b)
      OBVIOUS
    <2>3. b \in 1..L /\ b - 1 \in 0..L /\ ~(b <= b - 1)
      BY <1>1, <1>3, <2>2
    <2>4. Good(b - 1)
      BY <2>1, <2>3
    <2> QED BY <1>4, <2>2, <2>3, <2>4
  <1>6. L + 1 - t \in 0..L /\ L + 1 - (L + 1 - t) = t
    BY <1>1
  <1>7. Good(L + 1 - t)
    BY <1>5, <1>6
  <1> QED BY <1>6, <1>7 DEF Good

\* The running return after one round.
ReturnRound(r, n, before) ==
    LET t == TokenOf(r, n)
        running == IF n > 1 /\ r.mask[t + 1] = 1 THEN before ELSE 0
    IN  r.rewards[t] + Gamma * running

\* The loop of REINFORCE++ makes these rounds.
LEMMA ReturnRounds ==
    ASSUME Factors, NEW r \in Responses
    PROVE  \E f \in [0..Len(r.mask) -> Int] :
              /\ \A n \in 1..Len(r.mask) : f[n] = ReturnRound(r, n, f[n - 1])
              /\ \A t \in 1..Len(r.mask) : ReinforceReturns(r)[t] = f[Len(r.mask) + 1 - t]
  <1> DEFINE L == Len(r.mask)
             step == [y \in Int \X (1..L) |-> ReturnRound(r, y[2], y[1])]
             Loop(f) == f = [n \in 0..L |-> IF n = 0 THEN 0 ELSE ReturnRound(r, n, f[n - 1])]
             return == CHOOSE f : Loop(f)
  <1>1. L \in Nat /\ DOMAIN r.mask = 1..L
    BY ResponseTypes
  <1>2. \A t \in 1..L : ReinforceReturns(r)[t] = return[L + 1 - t]
    <2>1. ReinforceReturns(r) = [t \in 1..L |-> return[TokenOf(r, t)]]
      BY <1>1 DEF ReinforceReturns, ReturnRound
    <2> HIDE DEF return
    <2> QED BY <2>1, <1>1 DEF TokenOf
  <1>3. ASSUME NEW a \in Int, NEW n \in 1..L PROVE ReturnRound(r, n, a) \in Int
    <2> DEFINE t == TokenOf(r, n)
               running == IF n > 1 /\ r.mask[t + 1] = 1 THEN a ELSE 0
    <2>1. t \in 1..L
      BY <1>1 DEF TokenOf
    <2>2. ReturnRound(r, n, a) = r.rewards[t] + Gamma * running
      BY DEF ReturnRound
    <2>3. r.rewards[t] \in Int
      BY <2>1, ResponseTypes DEF Numbers
    <2>4. Gamma \in Int /\ running \in Int
      BY DEF Factors, Gamma
    <2> HIDE DEF running, t
    <2> QED BY <2>2, <2>3, <2>4
  <1>4. step \in [Int \X (1..L) -> Int]
    <2> SUFFICES ASSUME NEW y \in Int \X (1..L) PROVE ReturnRound(r, y[2], y[1]) \in Int
      OBVIOUS
    <2>1. y[1] \in Int /\ y[2] \in 1..L
      OBVIOUS
    <2> QED BY <1>3, <2>1
  <1>5. \A a \in Int, n \in 1..L : step[<<a, n>>] = ReturnRound(r, n, a)
    OBVIOUS
  <1> HIDE DEF step, L
  <1>6. PICK h \in [0..L -> Int] : h[0] = 0 /\ \A m \in 1..L : h[m] = step[<<h[m - 1], m>>]
    <2> DEFINE N == L
    <2>1. Stepping(step, Int, 0, N)
      BY <1>1, <1>4 DEF Stepping
    <2> HIDE DEF N
    <2>2. \E h \in [0..N -> Int] : h[0] = 0 /\ \A m \in 1..N : h[m] = step[<<h[m - 1], m>>]
      BY <2>1, Steps
    <2> QED BY <2>2 DEF N
  <1>7. \A n \in 1..L : h[n] = ReturnRound(r, n, h[n - 1])
    <2>1. \A n \in 1..L : h[n - 1] \in Int
      BY <1>1
    <2> QED BY <1>5, <1>6, <2>1
  <1>8. Loop(h)
    <2>1. \A n \in 0..L : h[n] = IF n = 0 THEN 0 ELSE ReturnRound(r, n, h[n - 1])
      BY <1>1, <1>6, <1>7
    <2>2. h = [n \in 0..L |-> h[n]]
      OBVIOUS
    <2> QED BY <2>1, <2>2
  <1>9. Loop(return)
    BY <1>8
  <1> HIDE DEF return
  <1>10. /\ return = [n \in 0..L |-> return[n]] /\ return[0] = 0
         /\ \A n \in 1..L : return[n] = ReturnRound(r, n, return[n - 1])
    BY <1>1, <1>9
  <1> DEFINE Bad == {n \in 0..L : return[n] \notin Int}
  <1>11. Bad = {}
    <2> SUFFICES ASSUME Bad # {} PROVE FALSE
      OBVIOUS
    <2>1. PICK b \in Bad : \A e \in Bad : b <= e
      <3>1. Bad \in SUBSET Nat
        BY <1>1
      <3> HIDE DEF Bad
      <3> QED BY <3>1, Least
    <2>2. b \in 0..L /\ return[b] \notin Int
      OBVIOUS
    <2>3. b \in 1..L /\ b - 1 \in 0..L /\ ~(b <= b - 1)
      BY <1>1, <1>10, <2>2
    <2>4. return[b - 1] \in Int
      BY <2>1, <2>3
    <2>5. return[b] = ReturnRound(r, b, return[b - 1])
      BY <1>10, <2>3
    <2> QED BY <1>3, <2>2, <2>3, <2>4, <2>5
  <1>12. return \in [0..L -> Int]
    BY <1>10, <1>11
  <1> QED BY <1>2, <1>10, <1>12 DEF L

\* In one turn the running return is never reset.
LEMMA ReturnsOfOneTurn ==
    ASSUME Factors, Gamma = 1, NEW r \in Responses, OneTurn(r), NEW t \in Turns(r)
    PROVE  ReinforceReturns(r)[t] = Summed(Rest(r, t))
  <1> DEFINE L == Len(r.mask)
  <1>1. L \in Nat /\ DOMAIN r.mask = 1..L
    BY ResponseTypes
  <1>2. Turns(r) = {u \in 1..L : r.mask[u] = 1}
    BY <1>1 DEF Turns
  <1>3. PICK f \in [0..L -> Int] :
              /\ \A n \in 1..L : f[n] = ReturnRound(r, n, f[n - 1])
              /\ \A u \in 1..L : ReinforceReturns(r)[u] = f[L + 1 - u]
    BY ReturnRounds
  <1> DEFINE Bad == {n \in 1..L : r.mask[L + 1 - n] = 1 /\ f[n] # Summed(Rest(r, L + 1 - n))}
  <1>4. Bad = {}
    <2> SUFFICES ASSUME Bad # {} PROVE FALSE
      OBVIOUS
    <2>1. PICK b \in Bad : \A e \in Bad : b <= e
      <3>1. Bad \in SUBSET Nat
        BY <1>1
      <3> HIDE DEF Bad
      <3> QED BY <3>1, Least
    <2> DEFINE u == L + 1 - b
    <2>2. b \in 1..L /\ r.mask[u] = 1 /\ f[b] # Summed(Rest(r, u))
      OBVIOUS
    <2>3. u \in 1..L /\ u \in Int /\ TokenOf(r, b) = u
      BY <1>1, <2>2 DEF TokenOf
    <2>4. f[b] = r.rewards[u] + 1 * (IF b > 1 /\ r.mask[u + 1] = 1 THEN f[b - 1] ELSE 0)
      BY <1>3, <2>2, <2>3 DEF ReturnRound
    <2>5. /\ Summed(Rest(r, u)) = r.rewards[u] + Summed(Rest(r, u + 1))
          /\ r.rewards[u] \in Int /\ Summed(Rest(r, u + 1)) \in Int
      BY <2>2, <2>3, RestStep
    <2>6. CASE b > 1 /\ r.mask[u + 1] = 1
      <3>1. b - 1 \in 1..L /\ L + 1 - (b - 1) = u + 1 /\ ~(b <= b - 1) /\ b - 1 \in 0..L
        BY <1>1, <2>2, <2>6
      <3>2. b - 1 \notin Bad
        <4> HIDE DEF Bad
        <4> QED BY <2>1, <3>1
      <3>3. f[b - 1] = Summed(Rest(r, u + 1))
        BY <2>6, <3>1, <3>2
      <3>4. f[b - 1] \in Int
        BY <3>1
      <3> HIDE DEF u
      <3>5. f[b] = r.rewards[u] + 1 * f[b - 1]
        BY <2>4, <2>6
      <3> QED BY <2>2, <2>5, <3>3, <3>4, <3>5
    <2>7. CASE ~(b > 1 /\ r.mask[u + 1] = 1)
      <3>1. ASSUME NEW v \in (u + 1)..L, v \in 1..L PROVE r.mask[v] # 1
        <4> SUFFICES ASSUME r.mask[v] = 1 PROVE FALSE
          OBVIOUS
        <4>1. u \in Turns(r) /\ v \in Turns(r)
          BY <1>2, <2>2, <2>3, <3>1
        <4>2. u..v \subseteq Turns(r)
          BY <4>1 DEF OneTurn
        <4>3. u + 1 \in u..v /\ b > 1
          BY <1>1, <2>2, <2>3, <3>1
        <4>4. r.mask[u + 1] = 1
          BY <1>2, <4>2, <4>3
        <4> QED BY <2>7, <4>3, <4>4
      <3> HIDE DEF u
      <3>2. Summed(Rest(r, u + 1)) = 0
        BY <3>1, RestZero
      <3>3. f[b] = r.rewards[u] + 1 * 0
        BY <2>4, <2>7
      <3> QED BY <2>2, <2>5, <3>2, <3>3
    <2> QED BY <2>6, <2>7
  <1>5. t \in 1..L /\ r.mask[t] = 1 /\ L + 1 - t \in 1..L /\ L + 1 - (L + 1 - t) = t
    BY <1>1, <1>2
  <1>6. f[L + 1 - t] = Summed(Rest(r, t))
    BY <1>4, <1>5
  <1> QED BY <1>3, <1>5, <1>6

\* With the invariant, the returns are those of the estimators.
LEMMA InvTurnsAreOneEpisode ==
    ASSUME AdvantageInv
    PROVE  TurnsAreOneEpisode
  <1> SUFFICES ASSUME call = "done", NEW i \in DOMAIN advantages, NEW t \in Turns(Batch[i])
               PROVE  LET row == Batch[i] IN
            /\ estimator = "gae" =>
                  /\ advantages[i][t] - row.values[t] = Discounted(row, t)
                  /\ discount = <<1, 1>> => advantages[i][t] = ReMaxReturns(row)[t]
            /\ estimator = "reinforce_plus_plus" /\ OneTurn(row) /\ Gamma = 1 =>
                  advantages[i][t] = ReMaxReturns(row)[t]
    BY DEF TurnsAreOneEpisode
  <1> DEFINE b == Batch
             n == Len(rows)
             r == b[i]
  <1>1. IsBatch(b, n)
    BY RowsAreBatch, BatchIsPermuted, ReorderedBatch DEF AdvantageInv
  <1>2. advantages = Estimate(estimator, b)
    BY DEF AdvantageInv
  <1>3. Factors
    BY AdvantagesAssumption DEF Factors, AdvantageInv
  <1> HIDE DEF b, n
  <1>4. i \in DOMAIN b /\ i \in 1..n
    <2>1. DOMAIN Estimate(estimator, b) = DOMAIN b
      BY DEF Estimate
    <2> QED BY <1>1, <1>2, <2>1 DEF IsBatch
  <1>5. r \in Responses
    BY <1>1, <1>4 DEF IsBatch
  <1>6. /\ t \in 1..Len(r.mask) /\ r.mask[t] = 1
        /\ DOMAIN r.mask = 1..Len(r.mask) /\ t \in Turns(r)
    BY <1>5, ResponseTypes DEF Turns, b
  <1>7. r.values[t] \in Int /\ Discounted(r, t) \in Int
    <2>1. t \in Int
      BY <1>5, <1>6, ResponseTypes
    <2> QED BY <1>3, <1>5, <1>6, <2>1, ResponseTypes, DiscountedType DEF Numbers
  <1>8. ReMaxReturns(r)[t] = Summed(Rest(r, t))
    BY <1>5, <1>6, ReMaxIs
  <1>9. ASSUME estimator = "gae"
        PROVE  /\ advantages[i][t] - r.values[t] = Discounted(r, t)
               /\ discount = <<1, 1>> => advantages[i][t] = ReMaxReturns(r)[t]
    <2>1. advantages[i] = GAEReturns(r)
      BY <1>2, <1>4, <1>9, EstimateIs
    <2> HIDE DEF r
    <2>2. advantages[i][t] = GAE(r)[t] + r.values[t]
      BY <1>6, <2>1 DEF GAEReturns
    <2>3. GAE(r)[t] = Discounted(r, t)
      BY <1>3, <1>5, <1>6, GAEIs
    <2>4. NextOf(r, t) = r.values[t]
      BY <1>5, <1>6, NextOfStep
    <2>5. discount = <<1, 1>> => Discounted(r, t) + NextOf(r, t) = Summed(Rest(r, t))
      BY <1>5, <1>6, UndiscountedIs
    <2> QED BY <1>7, <1>8, <2>2, <2>3, <2>4, <2>5
  <1>10. ASSUME estimator = "reinforce_plus_plus", OneTurn(r), Gamma = 1
         PROVE  advantages[i][t] = ReMaxReturns(r)[t]
    <2>1. advantages[i] = ReinforceReturns(r)
      BY <1>2, <1>4, <1>10, EstimateIs
    <2> HIDE DEF r
    <2> QED BY <1>3, <1>5, <1>6, <1>8, <1>10, <2>1, ReturnsOfOneTurn
  <1> QED BY <1>9, <1>10 DEF r, b

\* TurnsAreOneEpisode: for every mask, rewards, values and discount GAE goes from one of
\* the model's tokens to the next as if nothing was between them.
THEOREM TurnsMakeOneEpisode == AdvantageSpec => []TurnsAreOneEpisode
  <1>1. AdvantageInv => TurnsAreOneEpisode
    BY InvTurnsAreOneEpisode
  <1>2. AdvantageSpec => []AdvantageInv
    BY AdvantageInvariant
  <1> QED BY <1>1, <1>2, PTL
=============================================================================
