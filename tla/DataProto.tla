------------------------------ MODULE DataProto ------------------------------
(***************************************************************************)
(* The batch operations of DataProto (verl/protocol.py) and of the single  *)
(* controller's dispatch (verl/single_controller/base/decorator.py).  A    *)
(* batch is the sequence of its rows.                                      *)
(***************************************************************************)
EXTENDS Integers, Sequences, FiniteSets

Divides(k, n) == n % k = 0

\* DataProto.chunk, when n divides the length: it asserts that.
Chunk(batch, n) ==
    LET size == Len(batch) \div n
    IN  [c \in 1..n |-> SubSeq(batch, (c - 1) * size + 1, c * size)]

\* DataProto.repeat with interleave=True.
Repeat(batch, n) == [i \in 1..n * Len(batch) |-> batch[((i - 1) \div n) + 1]]

\* DataProto.split: pieces of the given size, the last one may be shorter.
Split(batch, size) ==
    [c \in 1..(Len(batch) + size - 1) \div size |->
        SubSeq(batch, (c - 1) * size + 1, IF c * size < Len(batch) THEN c * size
                                          ELSE Len(batch))]

\* How many rows pad_dataproto_to_divisor appends; it takes them from the
\* front of the batch, over and over when it is short.
PadSize(n, divisor) == IF Divides(divisor, n) THEN 0 ELSE divisor - (n % divisor)

PadToDivisor(batch, divisor) ==
    [i \in 1..Len(batch) + PadSize(Len(batch), divisor) |->
        batch[((i - 1) % Len(batch)) + 1]]

Unpad(batch, padSize) == SubSeq(batch, 1, Len(batch) - padSize)

\* A slip: the pieces are interleaved.
ConcatInterleaved(pieces) ==
    LET n == Len(pieces)
    IN  [i \in 1..n * Len(pieces[1]) |-> pieces[((i - 1) % n) + 1][((i - 1) \div n) + 1]]

\* DataProto.concat of pieces of one length.
Concat(pieces) ==
    LET size == Len(pieces[1])
    IN  [i \in 1..Len(pieces) * size |->
            pieces[((i - 1) \div size) + 1][((i - 1) % size) + 1]]

\* dispatch_nd_compute_dataproto: every rank is sent the chunk of its
\* data-parallel rank; ranks that share one work on the same chunk.
Dispatch(dpRank, dpSize, batch) ==
    [rank \in DOMAIN dpRank |-> Chunk(batch, dpSize)[dpRank[rank] + 1]]

\* collect_nd_compute_dataproto: the outputs of the ranks that report, one per
\* data-parallel rank, in the order of the ranks.
Collect(reports, outputs) ==
    LET reporting == {rank \in DOMAIN outputs : reports[rank]}
        Place(rank) == {r \in reporting : r <= rank}
        nth == [k \in 1..Cardinality(reporting) |->
                   CHOOSE rank \in reporting : Cardinality(Place(rank)) = k]
    IN  Concat([k \in DOMAIN nth |-> outputs[nth[k]]])
=============================================================================
