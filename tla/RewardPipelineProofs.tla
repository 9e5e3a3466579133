------------------------ MODULE RewardPipelineProofs ------------------------
(***************************************************************************)
(* Every row of a batch is given its own score, for every batch, any       *)
(* number of workers and threads, and every mesh of the reward model whose *)
(* reporting ranks are in the order of their data-parallel ranks.          *)
(***************************************************************************)
EXTENDS RewardPipeline, FiniteSetTheorems, SequenceTheorems, TLAPS

-----------------------------------------------------------------------------
(* Chunks and their concatenation.                                         *)

LEMMA DivMod ==
    ASSUME NEW a \in Nat, NEW b \in Nat, b # 0
    PROVE  /\ a \div b \in Nat /\ a % b \in 0..b - 1
           /\ a = (a \div b) * b + (a % b)
  OBVIOUS

\* A batch of n equal chunks: place i is in chunk (i - 1) \div each.
LEMMA PlaceInChunk ==
    ASSUME NEW n \in Nat, NEW each \in Nat, NEW i \in 1..n * each
    PROVE  /\ each # 0
           /\ (i - 1) \div each \in 0..n - 1
           /\ (i - 1) % each \in 0..each - 1
           /\ i = ((i - 1) \div each) * each + ((i - 1) % each) + 1
  <1>1. each # 0
    OBVIOUS
  <1> DEFINE q == (i - 1) \div each
             m == (i - 1) % each
  <1>2. i - 1 \in Nat
    OBVIOUS
  <1>3. q \in Nat /\ m \in 0..each - 1 /\ i - 1 = q * each + m
    BY <1>1, <1>2, DivMod
  <1> HIDE DEF q, m
  <1>4. q < n
    <2> SUFFICES ASSUME n <= q PROVE FALSE
      BY <1>3
    <2>1. n * each <= q * each
      BY <1>3
    <2>2. q * each \in Nat /\ n * each \in Nat
      BY <1>3
    <2> QED BY <1>3, <2>1, <2>2
  <1>5. i = q * each + m + 1
    <2>1. q * each \in Nat
      BY <1>3
    <2> QED BY <1>3, <2>1
  <1>6. q \in 0..n - 1
    BY <1>3, <1>4
  <1> QED BY <1>1, <1>3, <1>5, <1>6 DEF q, m

\* A batch whose length is a multiple of n has n chunks of one length.
LEMMA ChunkProperties ==
    ASSUME NEW S, NEW batch \in Seq(S), NEW n \in Nat \ {0},
           Divides(n, Len(batch))
    PROVE  LET each == Len(batch) \div n
               chunks == Chunk(batch, n)
           IN  /\ each \in Nat /\ Len(batch) = n * each
               /\ chunks \in Seq(Seq(S)) /\ Len(chunks) = n
               /\ \A c \in 1..n : /\ Len(chunks[c]) = each
                                  /\ \A j \in 1..each :
                                        chunks[c][j] = batch[(c - 1) * each + j]
  <1> DEFINE each == Len(batch) \div n
             chunks == Chunk(batch, n)
  <1>1. Len(batch) \in Nat
    OBVIOUS
  <1>2. each \in Nat /\ Len(batch) = each * n + (Len(batch) % n)
    BY <1>1, DivMod
  <1>3. Len(batch) = n * each
    BY <1>1, <1>2 DEF Divides
  <1>4. chunks = [c \in 1..n |-> SubSeq(batch, (c - 1) * each + 1, c * each)]
    BY DEF Chunk
  <1> HIDE DEF each, chunks
  <1>5. ASSUME NEW c \in 1..n
        PROVE  /\ chunks[c] \in Seq(S) /\ Len(chunks[c]) = each
               /\ \A j \in 1..each : chunks[c][j] = batch[(c - 1) * each + j]
    <2> DEFINE b == (c - 1) * each
    <2>1. b \in Nat /\ c * each = b + each
      BY <1>2
    <2>2. b + each <= Len(batch)
      <3>1. c * each <= n * each
        BY <1>2
      <3> QED BY <1>3, <2>1, <3>1
    <2>3. chunks[c] = SubSeq(batch, b + 1, b + each)
      BY <1>4, <2>1
    <2> HIDE DEF b
    <2>4. \A j \in b + 1..b + each : batch[j] \in S
      BY <1>1, <1>2, <2>1, <2>2
    <2> DEFINE first == b + 1
               last == b + each
    <2>5. /\ chunks[c] \in Seq(S)
          /\ Len(chunks[c]) = IF first <= last THEN last - first + 1 ELSE 0
          /\ \A j \in 1..last - first + 1 : chunks[c][j] = batch[first + j - 1]
      <3>1. first \in Int /\ last \in Int /\ chunks[c] = SubSeq(batch, first, last)
        BY <1>2, <2>1, <2>3
      <3>2. \A j \in first..last : batch[j] \in S
        BY <2>4
      <3> HIDE DEF first, last
      <3> QED BY <3>1, <3>2, SubSeqProperties
    <2>6. (b + each) - (b + 1) + 1 = each /\ Len(chunks[c]) = each
      BY <1>2, <2>1, <2>5
    <2>7. \A j \in 1..each : (b + 1) + j - 1 = b + j
      BY <1>2, <2>1
    <2>8. \A j \in 1..each : chunks[c][j] = batch[b + j]
      BY <2>5, <2>6, <2>7
    <2> QED BY <2>5, <2>6, <2>8 DEF b
  <1>6. chunks \in Seq(Seq(S)) /\ Len(chunks) = n
    BY <1>4, <1>5
  <1> QED BY <1>2, <1>3, <1>5, <1>6 DEF each, chunks

\* concat undoes chunk.
LEMMA ConcatOfChunks ==
    ASSUME NEW S, NEW batch \in Seq(S), NEW n \in Nat \ {0},
           Divides(n, Len(batch))
    PROVE  \A i \in 1..Len(batch) : Concat(Chunk(batch, n))[i] = batch[i]
  <1> DEFINE each == Len(batch) \div n
             chunks == Chunk(batch, n)
  <1>1. /\ each \in Nat /\ Len(batch) = n * each
        /\ chunks \in Seq(Seq(S)) /\ Len(chunks) = n
        /\ \A c \in 1..n : /\ Len(chunks[c]) = each
                           /\ \A j \in 1..each :
                                 chunks[c][j] = batch[(c - 1) * each + j]
    BY ChunkProperties
  <1>2. Concat(chunks) = [i \in 1..Len(chunks) * Len(chunks[1]) |->
            chunks[((i - 1) \div Len(chunks[1])) + 1][((i - 1) % Len(chunks[1])) + 1]]
    BY DEF Concat
  <1> HIDE DEF each, chunks
  <1>3. Len(chunks[1]) = each
    <2>1. 1 \in 1..n
      OBVIOUS
    <2> QED BY <1>1, <2>1
  <1>4. ASSUME NEW i \in 1..Len(batch)
        PROVE  Concat(chunks)[i] = batch[i]
    <2> DEFINE q == (i - 1) \div each
               m == (i - 1) % each
    <2>1. q \in 0..n - 1 /\ m \in 0..each - 1 /\ i = q * each + m + 1
      <3>1. i \in 1..n * each
        BY <1>1
      <3> QED BY <1>1, <3>1, PlaceInChunk
    <2>2. Concat(chunks)[i] = chunks[q + 1][m + 1]
      BY <1>1, <1>2, <1>3
    <2> HIDE DEF q, m
    <2>3. q + 1 \in 1..n /\ m + 1 \in 1..each /\ (q + 1) - 1 = q
      BY <1>1, <2>1
    <2>4. chunks[q + 1][m + 1] = batch[q * each + (m + 1)]
      BY <1>1, <2>3
    <2>5. q * each + (m + 1) = i
      <3>1. q * each \in Nat
        BY <1>1, <2>1
      <3> QED BY <2>1, <3>1, <1>1
    <2> QED BY <2>2, <2>4, <2>5
  <1> QED BY <1>4 DEF chunks

-----------------------------------------------------------------------------
(* What a call of a group of ranks returns.                                *)

\* The mesh of a worker group: the ranks that share a data-parallel rank work
\* on the same rows, one of them reports, and in the order of the ranks the
\* reporting ones have data-parallel ranks 0, 1, 2, ...
InOrder(dpRank, dpSize, reports, world) ==
    /\ world \in Nat /\ dpSize \in Nat \ {0} /\ dpRank \in [1..world -> 0..dpSize - 1]
    /\ \A d \in 0..dpSize - 1 : \E k \in 1..world : reports[k] /\ dpRank[k] = d
    /\ \A j, k \in 1..world : reports[j] /\ reports[k] /\ j < k => dpRank[j] < dpRank[k]

\* The ranks that report, and those of them up to rank k.
Reporting(reports, world) == {rank \in 1..world : reports[rank]}
UpTo(reports, world, k) == {r \in Reporting(reports, world) : r <= k}

\* There are as many reporting ranks up to rank k as data-parallel ranks up to
\* the one of k.
LEMMA PlaceOfRank ==
    ASSUME NEW world, NEW dpSize, NEW dpRank, NEW reports,
           InOrder(dpRank, dpSize, reports, world)
    PROVE  \A k \in Reporting(reports, world) :
              Cardinality(UpTo(reports, world, k)) = dpRank[k] + 1
  <1> SUFFICES ASSUME NEW k \in Reporting(reports, world)
               PROVE  Cardinality(UpTo(reports, world, k)) = dpRank[k] + 1
    OBVIOUS
  <1> DEFINE P == UpTo(reports, world, k)
             T == 0..dpRank[k]
             f == [r \in P |-> dpRank[r]]
  <1>0. world \in Nat /\ dpSize \in Nat \ {0} /\ dpRank \in [1..world -> 0..dpSize - 1]
    BY DEF InOrder
  <1>1. k \in 1..world /\ reports[k] /\ k \in Nat /\ dpRank[k] \in 0..dpSize - 1
    BY <1>0 DEF Reporting
  <1>2. \A r \in P : r \in 1..world /\ reports[r] /\ r <= k /\ r \in Nat /\ dpRank[r] \in 0..dpSize - 1
    BY <1>0 DEF UpTo, Reporting
  <1>3. f \in [P -> T]
    <2> SUFFICES ASSUME NEW r \in P PROVE dpRank[r] \in T
      OBVIOUS
    <2>1. r = k \/ r < k
      BY <1>1, <1>2
    <2>2. r < k => dpRank[r] < dpRank[k]
      BY <1>1, <1>2 DEF InOrder
    <2> QED BY <1>1, <1>2, <2>1, <2>2
  <1>4. \A a, b \in P : f[a] = f[b] => a = b
    <2> SUFFICES ASSUME NEW a \in P, NEW b \in P, dpRank[a] = dpRank[b]
                 PROVE  a = b
      OBVIOUS
    <2>1. (a < b => dpRank[a] < dpRank[b]) /\ (b < a => dpRank[b] < dpRank[a])
      BY <1>2 DEF InOrder
    <2> QED BY <1>2, <2>1
  <1>5. \A d \in T : \E r \in P : f[r] = d
    <2> SUFFICES ASSUME NEW d \in T PROVE \E r \in P : dpRank[r] = d
      OBVIOUS
    <2>1. d \in 0..dpSize - 1 /\ d <= dpRank[k]
      BY <1>0, <1>1
    <2>2. PICK r \in 1..world : reports[r] /\ dpRank[r] = d
      BY <2>1 DEF InOrder
    <2>3. ~(k < r)
      BY <1>1, <2>1, <2>2 DEF InOrder
    <2>4. r \in P
      BY <1>1, <2>2, <2>3 DEF UpTo, Reporting
    <2> QED BY <2>2, <2>4
  <1>6. f \in Bijection(P, T)
    BY <1>3, <1>4, <1>5, Zenon DEF Bijection, Injection, Surjection, IsInjective
  <1>7. ExistsBijection(P, T)
    BY <1>6 DEF ExistsBijection
  <1>8. IsFiniteSet(P)
    <2>1. IsFiniteSet(1..world) /\ P \in SUBSET (1..world)
      BY <1>0, <1>2, FS_Interval
    <2> QED BY <2>1, FS_Subset
  <1>9. Cardinality(T) = Cardinality(P)
    BY <1>7, <1>8, FS_Bijection
  <1>10. Cardinality(T) = dpRank[k] + 1
    <2> DEFINE d == dpRank[k]
    <2>1. d \in Int /\ ~(0 > d) /\ d - 0 + 1 = d + 1
      BY <1>1
    <2> HIDE DEF d
    <2>2. Cardinality(0..d) = d + 1
      BY <2>1, FS_Interval
    <2> QED BY <2>2 DEF d
  <1> QED BY <1>9, <1>10

\* As many ranks report as there are data-parallel ranks.
LEMMA ReportingRanks ==
    ASSUME NEW world, NEW dpSize, NEW dpRank, NEW reports,
           InOrder(dpRank, dpSize, reports, world)
    PROVE  Cardinality(Reporting(reports, world)) = dpSize
  <1> DEFINE R == Reporting(reports, world)
  <1> HIDE DEF R
  <1>0. world \in Nat /\ dpSize \in Nat \ {0} /\ dpRank \in [1..world -> 0..dpSize - 1]
    BY DEF InOrder
  <1>1. dpSize - 1 \in 0..dpSize - 1
    BY <1>0
  <1>2. PICK k \in 1..world : reports[k] /\ dpRank[k] = dpSize - 1
    BY <1>1 DEF InOrder
  <1>3. Cardinality(UpTo(reports, world, k)) = dpRank[k] + 1
    <2>1. k \in Reporting(reports, world)
      BY <1>2 DEF Reporting
    <2> QED BY <2>1, PlaceOfRank
  <1>4. R = UpTo(reports, world, k)
    <2> SUFFICES ASSUME NEW r \in R PROVE r <= k
      BY DEF UpTo, R
    <2>1. r \in 1..world /\ reports[r] /\ dpRank[r] \in 0..dpSize - 1
      BY <1>0 DEF Reporting, R
    <2>2. k < r => dpRank[k] < dpRank[r]
      BY <1>2, <2>1 DEF InOrder
    <2>3. ~(dpRank[k] < dpRank[r])
      BY <1>0, <1>2, <2>1
    <2> QED BY <1>0, <2>1, <2>2, <2>3
  <1>5. dpRank[k] + 1 = dpSize
    BY <1>0, <1>2
  <1> QED BY <1>3, <1>4, <1>5 DEF R

\* The outputs of the reporting ranks are the shares in their order.
LEMMA CollectsShares ==
    ASSUME NEW world, NEW dpSize, NEW dpRank, NEW reports,
           InOrder(dpRank, dpSize, reports, world),
           NEW S, NEW shares \in Seq(S), Len(shares) = dpSize,
           NEW outputs, outputs = [k \in 1..world |-> shares[dpRank[k] + 1]]
    PROVE  Collect(reports, outputs) = Concat(shares)
  <1> DEFINE R == Reporting(reports, world)
             Place(rank) == UpTo(reports, world, rank)
             nth == [k \in 1..Cardinality(R) |->
                        CHOOSE rank \in R : Cardinality(Place(rank)) = k]
  <1>0. world \in Nat /\ dpSize \in Nat \ {0} /\ dpRank \in [1..world -> 0..dpSize - 1]
    BY DEF InOrder
  <1>1. DOMAIN outputs = 1..world
    OBVIOUS
  <1>2. Collect(reports, outputs) = Concat([k \in DOMAIN nth |-> outputs[nth[k]]])
    BY <1>1 DEF Collect, UpTo, Reporting
  <1>3. Cardinality(R) = dpSize
    BY ReportingRanks
  <1>4. \A rank \in R : Cardinality(Place(rank)) = dpRank[rank] + 1
    <2>1. R = Reporting(reports, world) /\ \A rank \in R : Place(rank) = UpTo(reports, world, rank)
      OBVIOUS
    <2> HIDE DEF R, Place
    <2> QED BY <2>1, PlaceOfRank
  <1>5. ASSUME NEW k \in 1..dpSize
        PROVE  outputs[nth[k]] = shares[k]
    <2>1. k \in Int /\ k - 1 \in 0..dpSize - 1
      BY <1>0
    <2>2. PICK rank \in 1..world : reports[rank] /\ dpRank[rank] = k - 1
      BY <2>1 DEF InOrder
    <2>3. rank \in R /\ Cardinality(Place(rank)) = k
      <3>1. rank \in R
        BY <2>2 DEF Reporting
      <3>2. Cardinality(Place(rank)) = dpRank[rank] + 1
        BY <1>4, <3>1
      <3>3. dpRank[rank] + 1 = k
        BY <2>1, <2>2
      <3> QED BY <3>1, <3>2, <3>3
    <2>4. nth[k] = CHOOSE r \in R : Cardinality(Place(r)) = k
      BY <1>3
    <2> HIDE DEF nth, Place
    <2>5. nth[k] \in R /\ Cardinality(Place(nth[k])) = k
      BY <2>3, <2>4
    <2>6. nth[k] \in 1..world /\ dpRank[nth[k]] + 1 = k
      BY <1>4, <2>5 DEF Reporting
    <2> QED BY <2>6
  <1>6. DOMAIN nth = 1..dpSize
    BY <1>3
  <1>7. [k \in DOMAIN nth |-> outputs[nth[k]]] = shares
    <2>1. shares = [k \in 1..dpSize |-> shares[k]]
      OBVIOUS
    <2> HIDE DEF nth
    <2> QED BY <1>5, <1>6, <2>1
  <1> QED BY <1>2, <1>7

\* What divides a divisor divides.
LEMMA DividesTransitive ==
    ASSUME NEW d \in Nat \ {0}, NEW w \in Nat \ {0}, NEW n \in Nat,
           Divides(d, w), Divides(w, n)
    PROVE  Divides(d, n)
  <1> DEFINE a == n \div w
             b == w \div d
             q == n \div d
             m == n % d
  <1>1. a \in Nat /\ n = a * w
    <2>1. n \div w \in Nat /\ n = (n \div w) * w + (n % w)
      BY DivMod
    <2> QED BY <2>1 DEF Divides
  <1>2. b \in Nat /\ w = b * d
    <2>1. w \div d \in Nat /\ w = (w \div d) * d + (w % d)
      BY DivMod
    <2> QED BY <2>1 DEF Divides
  <1>3. q \in Nat /\ m \in 0..d - 1 /\ n = q * d + m
    BY DivMod
  <1> HIDE DEF a, b, q, m
  <1>4. PICK k \in Nat : n = k * d
    <2>1. a * b \in Nat /\ n = (a * b) * d
      BY <1>1, <1>2
    <2> QED BY <2>1
  <1>5. ~(k <= q - 1) /\ ~(q + 1 <= k)
    <2>1. ASSUME k <= q - 1 PROVE FALSE
      <3>1. k * d <= (q - 1) * d /\ (q - 1) * d = q * d - d
        BY <1>3, <1>4, <2>1
      <3>2. q * d \in Nat /\ k * d \in Nat
        BY <1>3, <1>4
      <3> QED BY <1>3, <1>4, <3>1, <3>2
    <2>2. ASSUME q + 1 <= k PROVE FALSE
      <3>1. (q + 1) * d <= k * d /\ (q + 1) * d = q * d + d
        BY <1>3, <1>4, <2>2
      <3>2. q * d \in Nat /\ k * d \in Nat
        BY <1>3, <1>4
      <3> QED BY <1>3, <1>4, <3>1, <3>2
    <2> QED BY <2>1, <2>2
  <1>6. k = q
    BY <1>3, <1>4, <1>5
  <1>7. m = 0
    <2>1. q * d \in Nat
      BY <1>3
    <2> QED BY <1>3, <1>4, <1>6, <2>1
  <1> QED BY <1>7 DEF m, Divides

\* The mesh of the reward model's workers: their ranks are in order, and every
\* data-parallel rank has as many of them.  _register_dispatch_collect_info is
\* given a row of a mesh (dp, sp) and reports for sp = 0, or every rank has a
\* data-parallel rank of its own.
MeshInOrder == /\ InOrder(DpRank, DpSize, Reports, WorldSize)
               /\ Divides(DpSize, WorldSize)

\* The reward model's answers to a whole batch are in the order of its rows.
LEMMA BatchFnInOrder ==
    ASSUME MeshInOrder, NEW S, NEW batch \in Seq(S), WholeBatch(batch)
    PROVE  \A i \in 1..Len(batch) : BatchFn(batch)[i] = batch[i]
  <1>1. /\ WorldSize \in Nat \ {0} /\ DpSize \in Nat \ {0}
        /\ DpRank \in [1..WorldSize -> 0..DpSize - 1]
    BY PipelineAssumption
  <1>2. Len(batch) \in Nat /\ Divides(DpSize, Len(batch))
    <2>1. Len(batch) \in Nat
      OBVIOUS
    <2>2. Divides(DpSize, WorldSize) /\ Divides(WorldSize, Len(batch))
      BY DEF MeshInOrder, WholeBatch
    <2> QED BY <1>1, <2>1, <2>2, DividesTransitive
  <1> DEFINE shares == Chunk(batch, DpSize)
             outputs == [rank \in 1..WorldSize |-> shares[DpRank[rank] + 1]]
  <1>3. shares \in Seq(Seq(S)) /\ Len(shares) = DpSize
    BY <1>1, <1>2, ChunkProperties
  <1>4. BatchFn(batch) = Collect(Reports, outputs)
    <2>1. Dispatch(DpRank, DpSize, batch) = outputs
      BY <1>1 DEF Dispatch
    <2>2. outputs = [rank \in DOMAIN outputs |-> Score(outputs[rank])]
      BY DEF Score
    <2> HIDE DEF outputs
    <2> QED BY <2>1, <2>2 DEF BatchFn
  <1>5. Collect(Reports, outputs) = Concat(shares)
    <2>1. InOrder(DpRank, DpSize, Reports, WorldSize)
      BY DEF MeshInOrder
    <2> HIDE DEF shares
    <2> QED BY <1>3, <2>1, CollectsShares
  <1>6. \A i \in 1..Len(batch) : Concat(shares)[i] = batch[i]
    BY <1>1, <1>2, ConcatOfChunks
  <1> QED BY <1>4, <1>5, <1>6

-----------------------------------------------------------------------------
(* The inductive invariant.                                                *)

\* s lists, each once, the rows of R that are at the given place.
Lists(s, place, rows, R) ==
    /\ s \in Seq(R)
    /\ \A i, j \in 1..Len(s) : s[i] = s[j] => i = j
    /\ \A r \in R : rows[r] = place <=> \E i \in 1..Len(s) : s[i] = r

\* The requests that wait are those in the executor's queue and batch.
QueueInv == /\ Lists(queue, "queued", row, Rows)
            /\ Lists(items, "batched", row, Rows)

\* A batch is computed when the reward model's ranks can share it out.
WholeInv == executor = "compute" => WholeBatch(items)

\* An answered row has its own score.
AnswerInv == \A r \in Rows : row[r] \in {"answered", "scored"} => result[r] = r

\* No row runs before generate_sequences is called, and none after it returns.
CallInv == /\ manager = "called" => \A r \in Rows : row[r] = "idle"
           /\ manager = "returned" => \A r \in Rows : row[r] = "scored"

PipelineInv == TypeOK /\ QueueInv /\ WholeInv /\ AnswerInv /\ CallInv

\* A row that comes to the place is appended to its list.
LEMMA ListsAppend ==
    ASSUME NEW R, NEW s, NEW place, NEW rows, Lists(s, place, rows, R),
           NEW r \in R, rows[r] # place, DOMAIN rows = R,
           NEW new, new = [rows EXCEPT ![r] = place]
    PROVE  Lists(Append(s, r), place, new, R)
  <1> DEFINE t == Append(s, r)
  <1>1. s \in Seq(R) /\ Len(s) \in Nat
    BY DEF Lists
  <1>2. /\ t \in Seq(R) /\ Len(t) = Len(s) + 1 /\ t[Len(s) + 1] = r
        /\ \A i \in 1..Len(s) : t[i] = s[i]
    BY <1>1
  <1> HIDE DEF t
  <1>3. \A i \in 1..Len(s) : s[i] \in R /\ s[i] # r
    BY <1>1 DEF Lists
  <1>4. ASSUME NEW i \in 1..Len(t), NEW j \in 1..Len(t), t[i] = t[j]
        PROVE  i = j
    <2>1. (i \in 1..Len(s) \/ i = Len(s) + 1) /\ (j \in 1..Len(s) \/ j = Len(s) + 1)
      BY <1>1, <1>2
    <2> QED BY <1>2, <1>3, <1>4, <2>1 DEF Lists
  <1>5. ASSUME NEW x \in R
        PROVE  new[x] = place <=> \E i \in 1..Len(t) : t[i] = x
    <2>1. CASE x = r
      <3>1. new[x] = place /\ Len(s) + 1 \in 1..Len(t)
        BY <1>1, <1>2, <2>1
      <3> QED BY <1>2, <2>1, <3>1
    <2>2. CASE x # r
      <3>1. new[x] = rows[x]
        BY <2>2
      <3>2. rows[x] = place <=> \E i \in 1..Len(s) : s[i] = x
        BY DEF Lists
      <3>3. \A i \in 1..Len(t) : t[i] = x => i \in 1..Len(s)
        BY <1>1, <1>2, <2>2
      <3>4. \A i \in 1..Len(s) : i \in 1..Len(t)
        BY <1>1, <1>2
      <3> QED BY <1>2, <3>1, <3>2, <3>3, <3>4
    <2> QED BY <2>1, <2>2
  <1> QED BY <1>2, <1>4, <1>5 DEF t, Lists

\* The head of a list is a row at the place.
LEMMA ListsHead ==
    ASSUME NEW R, NEW s, NEW place, NEW rows, Lists(s, place, rows, R), s # << >>
    PROVE  Head(s) \in R /\ rows[Head(s)] = place
  <1>1. s \in Seq(R) /\ 1 \in 1..Len(s) /\ Head(s) = s[1] /\ s[1] \in R
    BY DEF Lists
  <1> QED BY <1>1 DEF Lists

\* The row at the head of the list leaves the place.
LEMMA ListsTail ==
    ASSUME NEW R, NEW s, NEW place, NEW rows, Lists(s, place, rows, R),
           s # << >>, NEW other, other # place, DOMAIN rows = R
    PROVE  Lists(Tail(s), place, [rows EXCEPT ![Head(s)] = other], R)
  <1> DEFINE t == Tail(s)
             h == Head(s)
             new == [rows EXCEPT ![h] = other]
  <1>1. s \in Seq(R) /\ Len(s) \in Nat /\ Len(s) # 0
    BY DEF Lists
  <1>2. /\ t \in Seq(R) /\ Len(t) = Len(s) - 1 /\ h = s[1] /\ h \in R
        /\ \A i \in 1..Len(t) : t[i] = s[i + 1]
    BY <1>1
  <1>3. 1 \in 1..Len(s)
    BY <1>1
  <1>4. new = [rows EXCEPT ![h] = other]
    OBVIOUS
  <1> HIDE DEF t, h, new
  <1>5. \A i \in 1..Len(t) : i + 1 \in 1..Len(s) /\ i \in Int
    BY <1>1, <1>2
  <1>6. ASSUME NEW i \in 1..Len(t), NEW j \in 1..Len(t), t[i] = t[j]
        PROVE  i = j
    <2>1. s[i + 1] = s[j + 1]
      BY <1>2, <1>6
    <2>2. i + 1 = j + 1
      BY <1>5, <2>1 DEF Lists
    <2> QED BY <1>5, <2>2
  <1>7. ASSUME NEW x \in R
        PROVE  new[x] = place <=> \E i \in 1..Len(t) : t[i] = x
    <2>1. CASE x = h
      <3>1. new[x] # place
        BY <1>2, <1>4, <2>1
      <3>2. ASSUME NEW i \in 1..Len(t), t[i] = x PROVE FALSE
        <4>1. s[i + 1] = s[1]
          BY <1>2, <2>1, <3>2
        <4>2. i + 1 = 1
          BY <1>3, <1>5, <4>1 DEF Lists
        <4> QED BY <1>5, <4>2
      <3> QED BY <3>1, <3>2
    <2>2. CASE x # h
      <3>1. new[x] = rows[x]
        BY <1>4, <2>2
      <3>2. rows[x] = place <=> \E i \in 1..Len(s) : s[i] = x
        BY DEF Lists
      <3>3. \A i \in 1..Len(s) : s[i] = x => i - 1 \in 1..Len(t) /\ t[i - 1] = x
        <4> SUFFICES ASSUME NEW i \in 1..Len(s), s[i] = x
                     PROVE  i - 1 \in 1..Len(t) /\ t[i - 1] = x
          OBVIOUS
        <4>1. i # 1
          BY <1>2, <2>2
        <4>2. i - 1 \in 1..Len(t) /\ (i - 1) + 1 = i
          BY <1>1, <1>2, <4>1
        <4> QED BY <1>2, <4>2
      <3>4. \A i \in 1..Len(t) : t[i] = x => i + 1 \in 1..Len(s) /\ s[i + 1] = x
        BY <1>2, <1>5
      <3> QED BY <3>1, <3>2, <3>3, <3>4
    <2> QED BY <2>1, <2>2
  <1> QED BY <1>2, <1>6, <1>7 DEF t, h, new, Lists

\* A row that is neither at the place nor comes to it does not matter.
LEMMA ListsOther ==
    ASSUME NEW R, NEW s, NEW place, NEW rows, Lists(s, place, rows, R),
           NEW r \in R, rows[r] # place, NEW other, other # place, DOMAIN rows = R
    PROVE  Lists(s, place, [rows EXCEPT ![r] = other], R)
  <1> DEFINE new == [rows EXCEPT ![r] = other]
  <1>1. \A x \in R : new[x] = place <=> rows[x] = place
    OBVIOUS
  <1> HIDE DEF new
  <1> QED BY <1>1 DEF Lists, new

\* Nor does any change of rows that are not at the place.
LEMMA ListsSame ==
    ASSUME NEW R, NEW s, NEW place, NEW rows, NEW new, Lists(s, place, rows, R),
           \A x \in R : new[x] = place <=> rows[x] = place
    PROVE  Lists(s, place, new, R)
  BY DEF Lists

\* Nobody is at the place: the list is empty.
LEMMA ListsNone ==
    ASSUME NEW R, NEW place, NEW rows, \A x \in R : rows[x] # place
    PROVE  Lists(<< >>, place, rows, R)
  BY DEF Lists

-----------------------------------------------------------------------------
(* Every step keeps the invariant.                                         *)

LEMMA PipelineInit == Init => PipelineInv
  <1> SUFFICES ASSUME Init PROVE PipelineInv
    OBVIOUS
  <1>1. \A r \in Rows : row[r] = "idle"
    BY DEF Init
  <1>2. TypeOK
    BY DEF Init, TypeOK, Places
  <1>3. QueueInv
    BY <1>1, ListsNone DEF Init, QueueInv
  <1>4. WholeInv /\ AnswerInv /\ CallInv
    BY <1>1 DEF Init, WholeInv, AnswerInv, CallInv
  <1> QED BY <1>2, <1>3, <1>4 DEF PipelineInv

\* The manager's steps.
LEMMA ManagerKeeps ==
    ASSUME PipelineInv, Call \/ Raise \/ Return
    PROVE  PipelineInv'
  <1> USE DEF PipelineInv
  <1>1. CASE Call
    <2>1. Rows' = Rows /\ UNCHANGED <<queue, items, executor, result>>
      BY <1>1 DEF Call, Rows
    <2>2. CASE ~Splits(size)
      <3>1. UNCHANGED row /\ manager' = "raised" /\ UNCHANGED size
        BY <1>1, <2>2 DEF Call
      <3>2. TypeOK'
        BY <2>1, <3>1 DEF TypeOK
      <3>3. QueueInv'
        BY <2>1, <3>1 DEF QueueInv
      <3>4. (WholeInv /\ AnswerInv /\ CallInv)'
        BY <2>1, <3>1 DEF WholeInv, AnswerInv, CallInv
      <3> QED BY <3>2, <3>3, <3>4
    <2>3. CASE Splits(size)
      <3>1. row' = [r \in Rows |-> "looping"] /\ manager' = "waiting" /\ UNCHANGED size
        BY <1>1, <2>3 DEF Call
      <3>2. \A r \in Rows : row[r] = "idle" /\ row'[r] = "looping"
        BY <1>1, <3>1 DEF Call, CallInv
      <3>3. TypeOK'
        BY <2>1, <3>1 DEF TypeOK, Places
      <3>4. QueueInv'
        <4>1. \A r \in Rows : row'[r] = "queued" <=> row[r] = "queued"
          BY <3>2
        <4>2. \A r \in Rows : row'[r] = "batched" <=> row[r] = "batched"
          BY <3>2
        <4> QED BY <2>1, <4>1, <4>2, ListsSame DEF QueueInv
      <3>5. (WholeInv /\ AnswerInv /\ CallInv)'
        BY <2>1, <3>1, <3>2 DEF WholeInv, AnswerInv, CallInv
      <3> QED BY <3>3, <3>4, <3>5
    <2> QED BY <2>2, <2>3
  <1>2. CASE Raise \/ Return
    <2>1. UNCHANGED <<size, row, queue, items, executor, result>> /\ Rows' = Rows
      BY <1>2 DEF Raise, Return, Rows
    <2>2. /\ manager' \in {"returned", "raised"}
          /\ manager' = "returned" => \A r \in Rows : row[r] = "scored"
      BY <1>2 DEF Raise, Return
    <2>3. TypeOK'
      BY <2>1, <2>2 DEF TypeOK
    <2>4. QueueInv'
      BY <2>1 DEF QueueInv
    <2>5. (WholeInv /\ AnswerInv /\ CallInv)'
      BY <2>1, <2>2 DEF WholeInv, AnswerInv, CallInv
    <2> QED BY <2>3, <2>4, <2>5
  <1> QED BY <1>1, <1>2

\* A row that moves between places where the executor does not hold it, and is
\* scored only when it has been answered.
LEMMA MoveKeeps ==
    ASSUME PipelineInv, NEW r \in Rows,
           NEW from \in Places \ {"idle", "queued", "batched", "scored"},
           NEW to \in Places \ {"queued", "batched", "answered"},
           to = "scored" => from = "answered",
           Moves(r, from, to),
           UNCHANGED <<size, manager, queue, items, executor, result>>
    PROVE  PipelineInv'
  <1> USE DEF PipelineInv
  <1>1. /\ row[r] = from /\ row' = [row EXCEPT ![r] = to]
        /\ row \in [Rows -> Places] /\ DOMAIN row = Rows
    BY DEF Moves, TypeOK
  <1>2. Rows' = Rows
    BY DEF Rows
  <1>3. row' \in [Rows -> Places]
    BY <1>1
  <1>4. TypeOK'
    BY <1>2, <1>3 DEF TypeOK
  <1>5. QueueInv'
    <2>1. Lists(queue, "queued", row', Rows)
      BY <1>1, ListsOther DEF QueueInv
    <2>2. Lists(items, "batched", row', Rows)
      BY <1>1, ListsOther DEF QueueInv
    <2> QED BY <1>2, <2>1, <2>2 DEF QueueInv
  <1>6. WholeInv'
    BY DEF WholeInv
  <1>7. AnswerInv'
    <2> SUFFICES ASSUME NEW x \in Rows, row'[x] \in {"answered", "scored"}
                 PROVE  result[x] = x
      BY <1>2 DEF AnswerInv
    <2>1. row[x] \in {"answered", "scored"}
      BY <1>1
    <2> QED BY <2>1 DEF AnswerInv
  <1>8. CallInv'
    BY <1>1 DEF CallInv
  <1> QED BY <1>4, <1>5, <1>6, <1>7, <1>8

\* A row's steps.
LEMMA RowStepKeeps ==
    ASSUME PipelineInv, NEW r \in Rows, RowStep(r)
    PROVE  PipelineInv'
  <1>1. CASE LoopReturns(r)
    BY <1>1, MoveKeeps DEF LoopReturns, Places, OnThread
  <1>2. CASE LoopRaises(r)
    BY <1>2, MoveKeeps DEF LoopRaises, Places, OnThread
  <1>3. CASE Scored(r)
    BY <1>3, MoveKeeps DEF Scored, Places, OnThread
  <1>4. CASE RewardRaises(r)
    <2>1. CASE Moves(r, "errored", "failed")
      BY <1>4, <2>1, MoveKeeps DEF RewardRaises, Places, OnThread
    <2>2. CASE Moves(r, "answered", "failed")
      BY <1>4, <2>2, MoveKeeps DEF RewardRaises, Places, OnThread
    <2> QED BY <1>4, <2>1, <2>2 DEF RewardRaises
  <1>5. CASE Submit(r)
    <2> USE DEF PipelineInv
    <2>1. /\ row[r] = "pool" /\ row' = [row EXCEPT ![r] = "queued"]
          /\ queue' = Append(queue, r)
          /\ UNCHANGED <<size, manager, items, executor, result>>
          /\ row \in [Rows -> Places] /\ DOMAIN row = Rows
      BY <1>5 DEF Submit, Moves, TypeOK
    <2>2. Rows' = Rows
      BY <2>1 DEF Rows
    <2>3. Lists(queue', "queued", row', Rows)
      BY <2>1, ListsAppend DEF QueueInv
    <2>4. Lists(items, "batched", row', Rows)
      BY <2>1, ListsOther DEF QueueInv
    <2>5. QueueInv'
      BY <2>1, <2>2, <2>3, <2>4 DEF QueueInv
    <2>6. TypeOK'
      <3>1. row' \in [Rows -> Places]
        BY <2>1 DEF Places, OnThread
      <3>2. queue' \in Seq(Rows)
        BY <2>3 DEF Lists
      <3> QED BY <2>1, <2>2, <3>1, <3>2 DEF TypeOK
    <2>7. (WholeInv /\ CallInv)'
      BY <2>1 DEF WholeInv, CallInv
    <2>8. AnswerInv'
      <3> SUFFICES ASSUME NEW x \in Rows, row'[x] \in {"answered", "scored"}
                   PROVE  result'[x] = x
        BY <2>2 DEF AnswerInv
      <3>1. row[x] \in {"answered", "scored"}
        BY <2>1
      <3> QED BY <2>1, <3>1 DEF AnswerInv
    <2> QED BY <2>5, <2>6, <2>7, <2>8
  <1> QED BY <1>1, <1>2, <1>3, <1>4, <1>5 DEF RowStep

\* The executor takes the request at the head of its queue into its batch.
LEMMA TakeKeeps ==
    ASSUME PipelineInv, Take(executor'), UNCHANGED <<size, manager, result>>,
           executor' \in {"drain", "fill", "compute"}, WholeInv'
    PROVE  PipelineInv'
  <1> DEFINE h == Head(queue)
  <1> USE DEF PipelineInv
  <1>1. /\ queue # << >> /\ items' = Append(items, h) /\ queue' = Tail(queue)
        /\ row' = [row EXCEPT ![h] = "batched"]
        /\ row \in [Rows -> Places] /\ DOMAIN row = Rows
    BY DEF Take, TypeOK
  <1>2. Rows' = Rows
    BY DEF Rows
  <1>3. h \in Rows /\ row[h] = "queued" /\ Lists(queue', "queued", row', Rows)
    <2>1. Lists(queue, "queued", row, Rows)
      BY DEF QueueInv
    <2>2. queue # << >> /\ DOMAIN row = Rows /\ "batched" # "queued"
      BY <1>1
    <2>3. Lists(Tail(queue), "queued", [row EXCEPT ![Head(queue)] = "batched"], Rows)
      BY <2>1, <2>2, ListsTail
    <2>4. Head(queue) \in Rows /\ row[Head(queue)] = "queued"
      BY <2>1, <2>2, ListsHead
    <2> QED BY <1>1, <2>3, <2>4
  <1> HIDE DEF h
  <1>4. Lists(items', "batched", row', Rows)
    <2>1. Lists(items, "batched", row, Rows)
      BY DEF QueueInv
    <2> QED BY <1>1, <1>3, <2>1, ListsAppend
  <1>5. TypeOK'
    <2>1. row' \in [Rows -> Places]
      BY <1>1, <1>3 DEF Places, OnThread
    <2>2. queue' \in Seq(Rows) /\ items' \in Seq(Rows)
      BY <1>3, <1>4 DEF Lists
    <2> QED BY <1>2, <2>1, <2>2 DEF TypeOK
  <1>6. QueueInv'
    BY <1>2, <1>3, <1>4 DEF QueueInv
  <1>7. AnswerInv'
    <2> SUFFICES ASSUME NEW x \in Rows, row'[x] \in {"answered", "scored"}
                 PROVE  result[x] = x
      BY <1>2 DEF AnswerInv
    <2>1. row[x] \in {"answered", "scored"}
      BY <1>1, <1>3
    <2> QED BY <2>1 DEF AnswerInv
  <1>8. CallInv'
    BY <1>3 DEF CallInv
  <1> QED BY <1>5, <1>6, <1>7, <1>8

\* Every future of the batch is resolved, with a score of its own or an error.
LEMMA ResolveKeeps ==
    ASSUME PipelineInv, UNCHANGED <<size, manager, queue>>,
           items' = << >>, executor' = "first",
           NEW place \in {"answered", "errored"},
           row' = [r \in Rows |-> IF row[r] = "batched" THEN place ELSE row[r]],
           result' \in [Rows -> Nat],
           \A r \in Rows : row[r] # "batched" => result'[r] = result[r],
           \A r \in Rows : row[r] = "batched" /\ place = "answered" => result'[r] = r
    PROVE  PipelineInv'
  <1> USE DEF PipelineInv
  <1>1. Rows' = Rows /\ row \in [Rows -> Places]
    BY DEF Rows, TypeOK
  <1>2. \A r \in Rows : row'[r] = IF row[r] = "batched" THEN place ELSE row[r]
    OBVIOUS
  <1>3. TypeOK'
    <2>1. row' \in [Rows -> Places]
      BY <1>1, <1>2 DEF Places, OnThread
    <2>2. << >> \in Seq(Rows)
      OBVIOUS
    <2> QED BY <1>1, <2>1, <2>2 DEF TypeOK
  <1>4. QueueInv'
    <2>1. \A r \in Rows : row'[r] = "queued" <=> row[r] = "queued"
      BY <1>2
    <2>2. Lists(queue, "queued", row', Rows)
      BY <2>1, ListsSame DEF QueueInv
    <2>3. \A r \in Rows : row'[r] # "batched"
      BY <1>2
    <2>4. Lists(<< >>, "batched", row', Rows)
      BY <2>3, ListsNone
    <2> QED BY <1>1, <2>2, <2>4 DEF QueueInv
  <1>5. WholeInv'
    BY DEF WholeInv
  <1>6. AnswerInv'
    <2> SUFFICES ASSUME NEW x \in Rows, row'[x] \in {"answered", "scored"}
                 PROVE  result'[x] = x
      BY <1>1 DEF AnswerInv
    <2>1. CASE row[x] = "batched"
      <3>1. place = "answered"
        BY <1>2, <2>1
      <3> QED BY <2>1, <3>1
    <2>2. CASE row[x] # "batched"
      <3>1. row[x] \in {"answered", "scored"}
        BY <1>2, <2>2
      <3> QED BY <2>2, <3>1 DEF AnswerInv
    <2> QED BY <2>1, <2>2
  <1>7. CallInv'
    BY <1>1, <1>2 DEF CallInv
  <1> QED BY <1>3, <1>4, <1>5, <1>6, <1>7

\* The executor's steps.
LEMMA ExecutorKeeps ==
    ASSUME MeshInOrder, PipelineInv, ExecutorStep
    PROVE  PipelineInv'
  <1>1. CASE First
    BY <1>1, TakeKeeps DEF First, Take, WholeInv
  <1>2. CASE Drain
    BY <1>2, TakeKeeps DEF Drain, Take, WholeInv
  <1>3. CASE Fill
    <2>1. Take(executor') /\ executor' = IF WholeBatch(items') THEN "compute" ELSE "fill"
      BY <1>3 DEF Fill, Take
    <2>2. executor' \in {"drain", "fill", "compute"} /\ WholeInv'
      BY <2>1 DEF WholeInv, WholeBatch
    <2>3. UNCHANGED <<size, manager, result>>
      BY <1>3 DEF Fill
    <2> QED BY <2>1, <2>2, <2>3, TakeKeeps
  <1>4. CASE DrainEnds
    <2> USE DEF PipelineInv
    <2>1. /\ UNCHANGED <<size, manager, row, queue, items, result>> /\ Rows' = Rows
          /\ executor' = IF WholeBatch(items) THEN "compute" ELSE "fill"
      BY <1>4 DEF DrainEnds, Rows
    <2>2. TypeOK'
      BY <2>1 DEF TypeOK
    <2>3. QueueInv'
      BY <2>1 DEF QueueInv
    <2>4. WholeInv'
      BY <2>1 DEF WholeInv, WholeBatch
    <2>5. (AnswerInv /\ CallInv)'
      BY <2>1 DEF AnswerInv, CallInv
    <2> QED BY <2>2, <2>3, <2>4, <2>5
  <1>5. CASE Compute
    <2> DEFINE Place(r) == CHOOSE i \in DOMAIN items : items[i] = r
               answer == [r \in Rows |-> BatchFn(items)[Place(r)]]
    <2>1. /\ UNCHANGED <<size, manager, queue>> /\ items' = << >> /\ executor' = "first"
          /\ row' = [r \in Rows |-> IF row[r] = "batched" THEN "answered" ELSE row[r]]
          /\ result' = [r \in Rows |-> IF row[r] = "batched" THEN answer[r] ELSE result[r]]
      BY <1>5 DEF Compute, Resolve
    <2>2. Lists(items, "batched", row, Rows) /\ items \in Seq(Rows) /\ WholeBatch(items)
      BY <1>5 DEF PipelineInv, QueueInv, WholeInv, Lists, Compute
    <2>3. ASSUME NEW r \in Rows, row[r] = "batched"
          PROVE  answer[r] = r
      <3>1. \E i \in DOMAIN items : items[i] = r
        BY <2>2, <2>3 DEF Lists
      <3>2. Place(r) \in DOMAIN items /\ items[Place(r)] = r
        BY <3>1
      <3> HIDE DEF Place
      <3>3. Place(r) \in 1..Len(items)
        BY <2>2, <3>2
      <3>4. BatchFn(items)[Place(r)] = items[Place(r)]
        BY <2>2, <3>3, BatchFnInOrder
      <3> QED BY <3>2, <3>4
    <2> HIDE DEF answer
    <2>4. Rows \subseteq Nat /\ result \in [Rows -> Nat]
      BY DEF PipelineInv, TypeOK, Rows
    <2>5. result' \in [Rows -> Nat]
      BY <2>1, <2>3, <2>4
    <2>6. /\ \A r \in Rows : row[r] # "batched" => result'[r] = result[r]
          /\ \A r \in Rows : row[r] = "batched" => result'[r] = r
      BY <2>1, <2>3
    <2> QED BY <2>1, <2>5, <2>6, ResolveKeeps
  <1>6. CASE ComputeRaises
    <2>1. /\ UNCHANGED <<size, manager, queue>> /\ items' = << >> /\ executor' = "first"
          /\ row' = [r \in Rows |-> IF row[r] = "batched" THEN "errored" ELSE row[r]]
          /\ result' = [r \in Rows |-> IF row[r] = "batched" THEN 0 ELSE result[r]]
      BY <1>6 DEF ComputeRaises, Resolve
    <2>2. result' \in [Rows -> Nat]
      BY <2>1 DEF PipelineInv, TypeOK
    <2>3. \A r \in Rows : row[r] # "batched" => result'[r] = result[r]
      BY <2>1
    <2> QED BY <2>1, <2>2, <2>3, ResolveKeeps
  <1> QED BY <1>1, <1>2, <1>3, <1>4, <1>5, <1>6 DEF ExecutorStep

\* The invariant of the pipeline.
THEOREM PipelineInvariant ==
    ASSUME MeshInOrder PROVE Spec => []PipelineInv
  <1>1. Init => PipelineInv
    BY PipelineInit
  <1>2. PipelineInv /\ [Next]_vars => PipelineInv'
    <2> SUFFICES ASSUME PipelineInv, [Next]_vars PROVE PipelineInv'
      OBVIOUS
    <2>1. CASE Call \/ Raise \/ Return
      BY <2>1, ManagerKeeps
    <2>2. CASE ExecutorStep
      BY <2>2, ExecutorKeeps
    <2>3. CASE \E r \in Rows : RowStep(r)
      BY <2>3, RowStepKeeps
    <2>4. CASE UNCHANGED vars
      BY <2>4 DEF vars, PipelineInv, TypeOK, QueueInv, WholeInv, AnswerInv,
                  CallInv, Rows, WholeBatch
    <2> QED BY <2>1, <2>2, <2>3, <2>4 DEF Next
  <1> QED BY <1>1, <1>2, PTL DEF Spec

\* Every row of a batch is given its own score (generate_sequences, the reward
\* workers, the executor's batches, the ranks' shares and the futures), however
\* requests, batches and failures interleave.
THEOREM RowsGetTheirOwnScores ==
    ASSUME MeshInOrder PROVE Spec => []OwnScore
  <1>1. PipelineInv => OwnScore
    BY DEF PipelineInv, AnswerInv, CallInv, OwnScore
  <1> QED BY <1>1, PipelineInvariant, PTL
=============================================================================
