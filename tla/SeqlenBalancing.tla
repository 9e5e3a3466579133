--------------------------- MODULE SeqlenBalancing ---------------------------
(***************************************************************************)
(* verl/utils/seqlen_balancing.py: rows are shared out so that the shares  *)
(* have similar numbers of tokens.  lens is the sequence of the rows'      *)
(* lengths; a partition is a sequence of the rows' numbers, from 1.        *)
(***************************************************************************)
EXTENDS Integers, Sequences, FiniteSets, SequencesExt

Summed(numbers) ==
    LET sum[n \in 0..Len(numbers)] == IF n = 0 THEN 0 ELSE sum[n - 1] + numbers[n]
    IN  sum[Len(numbers)]

CeilDiv(a, b) == (a + b - 1) \div b

-----------------------------------------------------------------------------
(* What sorted() does.  A key is a triple of numbers.                        *)

Less(a, b) == \/ a[1] < b[1]
              \/ a[1] = b[1] /\ a[2] < b[2]
              \/ a[1] = b[1] /\ a[2] = b[2] /\ a[3] < b[3]

Opposite(a) == <<-a[1], -a[2], -a[3]>>

\* The places of a list in the order of their keys; the sort is stable.
Earlier(a, b) == Less(a.key, b.key) \/ (a.key = b.key /\ a.place < b.place)

SortOrder(keyed) ==
    [n \in 1..Cardinality(keyed) |->
        (CHOOSE a \in keyed : Cardinality({b \in keyed : Earlier(b, a)}) = n - 1).place]

Sorted(list, keyed) == LET order == SortOrder(keyed) IN [n \in DOMAIN list |-> list[order[n]]]

-----------------------------------------------------------------------------
(* karmarkar_karp, the largest differencing method.  A set has its rows and  *)
(* their sum; a state is a sequence of k sets, the heaviest first.           *)

EmptySet == [sum |-> 0, rows |-> <<>>]
Joined(a, b) == [sum |-> a.sum + b.sum, rows |-> a.rows \o b.rows]

First(rows) == IF rows = <<>> THEN 0 ELSE rows[1]

\* Set.__lt__: the sum, then the size, then the items; the sets of one run are
\* disjoint, so their first items decide.
Weight(set) == <<set.sum, Len(set.rows), First(set.rows)>>

Heaviest(sets) ==
    Sorted(sets, {[key |-> Opposite(Weight(sets[c])), place |-> c] : c \in DOMAIN sets})

Spread(st) == st[1].sum - st[Len(st)].sum

\* State.__lt__, the order in which the heap gives the states back.
Before(s, t) == \/ Spread(s) > Spread(t)
                \/ Spread(s) = Spread(t) /\ Less(Weight(t[1]), Weight(s[1]))

FirstOf(states) == CHOOSE s \in states : \A t \in states \ {s} : Before(s, t)

\* A slip: heavy sets are merged with heavy ones.
MergeAlike(s, t) == Heaviest([i \in DOMAIN s |-> Joined(s[i], t[i])])

\* State.merge: the heaviest set of one with the lightest of the other.
Merge(s, t) == Heaviest([i \in DOMAIN s |-> Joined(s[i], t[Len(t) + 1 - i])])

\* A round of the loop: the first two states are merged.
Differenced(states) ==
    LET s == FirstOf(states)
        t == FirstOf(states \ {s})
    IN  (states \ {s, t}) \cup {Merge(s, t)}

\* A state starts with k rows of similar length when the partitions must be of
\* equal size, with one row otherwise.
StartStates(lens, k, equalSize) ==
    LET order == SortOrder({[key |-> <<lens[i], 0, 0>>, place |-> i] : i \in DOMAIN lens})
        SetOf(i) == [sum |-> lens[i], rows |-> <<i>>]
        Group(c) == Heaviest([i \in 1..k |-> SetOf(order[(c - 1) * k + i])])
        Single(i) == [c \in 1..k |-> IF c = 1 THEN SetOf(i) ELSE EmptySet]
    IN  IF equalSize THEN {Group(c) : c \in 1..Len(lens) \div k}
        ELSE {Single(i) : i \in DOMAIN lens}

KarmarkarKarp(lens, k, equalSize) ==
    LET start == StartStates(lens, k, equalSize)
        rounds == Cardinality(start) - 1
        after[n \in 0..rounds] == IF n = 0 THEN start ELSE Differenced(after[n - 1])
    IN  FirstOf(after[rounds])

\* The assertions of get_seqlen_balanced_partitions and of karmarkar_karp.
MayPartition(lens, k, equalSize) ==
    Len(lens) >= k /\ (equalSize => Len(lens) % k = 0)

Partitions(lens, k, equalSize) ==
    LET sets == KarmarkarKarp(lens, k, equalSize)
        InOrder(rows) ==
            Sorted(rows, {[key |-> <<rows[j], 0, 0>>, place |-> j] : j \in DOMAIN rows})
    IN  [c \in 1..k |-> InOrder(sets[c].rows)]

\* ... and those on its result.
Sound(lens, k, equalSize, parts) ==
    /\ \A c \in 1..k : parts[c] # <<>>
    /\ equalSize => \A c \in 1..k : Len(parts[c]) * k = Len(lens)
    /\ UNION {ToSet(parts[c]) : c \in 1..k} = DOMAIN lens

-----------------------------------------------------------------------------
(* Dynamic batches                                                           *)

\* rearrange_micro_batches: its assertion, on the padded width of the rows ...
MayRearrange(width, maxTokenLen) == maxTokenLen >= width

\* ... how many micro-batches a rank wants ...
WantedMicroBatches(lens, maxTokenLen) ==
    LET wanted == CeilDiv(Summed(lens), maxTokenLen)
    IN  IF wanted < Len(lens) THEN wanted ELSE Len(lens)

\* ... and in which order it takes them: the one with the most work first.
Work(lens, part) == Summed([i \in DOMAIN part |-> lens[part[i]] * lens[part[i]]])

MicroBatches(lens, k) ==
    LET parts == Partitions(lens, k, FALSE)
        Key(part) == Opposite(<<Work(lens, part), First(part), 0>>)
    IN  Sorted(parts, {[key |-> Key(parts[c]), place |-> c] : c \in DOMAIN parts})

\* A slip: the permutation itself in place of its inverse.
SameIdx(idxMap) == idxMap

\* get_reverse_idx
ReverseIdx(idxMap) == [j \in DOMAIN idxMap |-> CHOOSE i \in DOMAIN idxMap : idxMap[i] = j]

\* restore_dynamic_batch
Restore(data, parts) ==
    LET back == ReverseIdx(FlattenSeq(parts)) IN [j \in DOMAIN data |-> data[back[j]]]
=============================================================================
