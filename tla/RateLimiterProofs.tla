-------------------------- MODULE RateLimiterProofs --------------------------
(***************************************************************************)
(* The rate limiter, proved for any number of executors, calls and         *)
(* threads: permits are conserved, the limit holds, the counter stays near *)
(* it, and RateLimiter implements Throttle.                                *)
(***************************************************************************)
EXTENDS RateLimiter, FiniteSetTheorems, TLAPS

(* What waits for acquire() is there once and still waits for its answer.  *)
QueueInv ==
    /\ \A i \in 1..Len(queue) : queue[i] \in LimitedCalls /\ at[queue[i]] = "acquiring"
    /\ \A i, j \in 1..Len(queue) : queue[i] = queue[j] => i = j
    /\ counting => queue # <<>>

(* What is on its way back belongs to a call that has ended. *)
ReleaseInv ==
    /\ \A c \in releases \cup uncounting :
          c \in LimitedCalls /\ at[c] \in {"returned", "swallowed"}
    /\ releases \cap uncounting = {}
    /\ Cardinality(uncounting) <= ReleaseThreads

IInv == /\ TypeOK
        /\ QueueInv
        /\ ReleaseInv
        /\ PermitsConserved
        /\ count = Cardinality(Counted)

\* The sets the bookkeeping counts are finite, as there are finitely many calls.
LEMMA FiniteSets ==
    ASSUME TypeOK
    PROVE  /\ IsFiniteSet(Holders) /\ Cardinality(Holders) \in Nat
           /\ IsFiniteSet(Counted) /\ Cardinality(Counted) \in Nat
           /\ IsFiniteSet(uncounting) /\ Cardinality(uncounting) \in Nat
  <1>1. Holders \in SUBSET Calls /\ Counted \in SUBSET Calls /\ uncounting \in SUBSET Calls
    BY DEF TypeOK, Holders, Counted, LimitedCalls
  <1> QED BY <1>1, FS_Subset, FS_CardinalityType, LimiterAssumption

\* The call the acquire thread serves is limited and waits.
LEMMA HeadWaits ==
    ASSUME TypeOK, QueueInv, queue # <<>>
    PROVE  /\ Head(queue) = queue[1] /\ 1 \in 1..Len(queue)
           /\ Head(queue) \in LimitedCalls
           /\ at[Head(queue)] = "acquiring"
  <1>1. queue \in Seq(Calls) BY DEF TypeOK
  <1>2. Head(queue) = queue[1] /\ 1 \in 1..Len(queue) BY <1>1
  <1> QED BY <1>2 DEF QueueInv

\* Constructing an executor moves no permit.
LEMMA ConstructMoves ==
    ASSUME NEW x \in Executors, Construct(x)
    PROVE  Holders' = Holders /\ Counted' = Counted /\ StageOf' = StageOf
  BY DEF Construct, Creates, Holders, Holding, Counted, LimitedCalls, StageOf

\* A call that queues for the limiter holds no permit before or after.
LEMMA EnterMoves ==
    ASSUME TypeOK, QueueInv, ReleaseInv, NEW c \in Calls, Enter(c)
    PROVE  Holders' = Holders /\ Counted' = Counted
  <1>1. \A d \in LimitedCalls : Holding(d)' <=> Holding(d)
    <2> SUFFICES ASSUME NEW d \in LimitedCalls PROVE Holding(d)' <=> Holding(d)
      OBVIOUS
    <2>1. d \in Calls /\ ExecutorOf[d] \in Limited BY DEF LimitedCalls
    <2>2. at'[d] \in {"granted", "running"} <=> at[d] \in {"granted", "running"}
      BY <2>1, LimiterAssumption DEF Enter, TypeOK
    <2>3. counting => Head(queue') = Head(queue)
      BY HeadWaits DEF Enter, TypeOK, QueueInv
    <2> QED BY <2>2, <2>3 DEF Holding, Enter
  <1>2. \A d \in LimitedCalls : at'[d] \in {"granted", "running"} <=> at[d] \in {"granted", "running"}
    BY LimiterAssumption DEF Enter, TypeOK, LimitedCalls
  <1>3. LimitedCalls' = LimitedCalls BY DEF LimitedCalls
  <1>4. releases' = releases /\ uncounting' = uncounting BY DEF Enter
  <1> QED BY <1>1, <1>2, <1>3, <1>4 DEF Holders, Counted

\* Taking a permit adds the served call to the holders.
LEMMA TakeMoves ==
    ASSUME TypeOK, QueueInv, ReleaseInv, TakePermit
    PROVE  /\ Holders' = Holders \cup {Head(queue)} /\ Head(queue) \notin Holders
           /\ Counted' = Counted
  <1>1. Head(queue) \in LimitedCalls /\ at[Head(queue)] = "acquiring"
    BY HeadWaits DEF TakePermit, Available
  <1>2. Head(queue) \notin releases BY <1>1 DEF ReleaseInv
  <1>3. ~counting /\ counting' /\ UNCHANGED <<queue, at, releases, uncounting>> BY DEF TakePermit, Available
  <1> QED BY <1>1, <1>2, <1>3 DEF Holders, Holding, Counted, LimitedCalls

\* Counting it leaves the holders as they are and adds it to the counted ones.
LEMMA CountMoves ==
    ASSUME TypeOK, QueueInv, ReleaseInv, CountPermit
    PROVE  /\ Holders' = Holders
           /\ Counted' = Counted \cup {Head(queue)} /\ Head(queue) \notin Counted
  <1>1. Head(queue) \in LimitedCalls /\ at[Head(queue)] = "acquiring"
    BY HeadWaits DEF CountPermit, QueueInv
  <1>2. Head(queue) \notin releases \cup uncounting BY <1>1 DEF ReleaseInv
  <1>3. /\ counting /\ ~counting' /\ UNCHANGED <<releases, uncounting>>
        /\ at' = [at EXCEPT ![Head(queue)] = "granted"]
    BY DEF CountPermit, TypeOK
  <1> QED BY <1>1, <1>2, <1>3 DEF Holders, Holding, Counted, LimitedCalls, TypeOK

\* Nor does a call that starts or ends its function gain or lose a permit: when
\* it ends, its permit is on its way back.
LEMMA RunMoves ==
    ASSUME TypeOK, QueueInv, ReleaseInv, NEW c \in Calls, Run(c) \/ FnReturns(c) \/ FnRaises(c)
    PROVE  Holders' = Holders /\ Counted' = Counted
  <1>1. at[c] \in {"granted", "running"} /\ UNCHANGED <<queue, counting, uncounting>>
    BY DEF Run, FnReturns, FnRaises, Unwind
  <1>2. \A d \in Calls \ {c} : at'[d] = at[d] /\ (d \in releases' <=> d \in releases)
    BY DEF Run, FnReturns, FnRaises, Unwind, TypeOK
  <1>3. c \in LimitedCalls => at'[c] \in {"granted", "running"} \/ c \in releases'
    BY DEF Run, FnReturns, FnRaises, Unwind, TypeOK, LimitedCalls
  <1>4. releases \subseteq LimitedCalls BY DEF ReleaseInv
  <1>5. releases' \subseteq LimitedCalls
    BY <1>4 DEF Run, FnReturns, FnRaises, Unwind, LimitedCalls
  <1> QED BY <1>1, <1>2, <1>3, <1>4, <1>5 DEF Holders, Holding, Counted, LimitedCalls

\* Giving a permit back takes its call from the holders.
LEMMA GiveMoves ==
    ASSUME TypeOK, QueueInv, ReleaseInv, NEW c \in Calls, GivePermit(c)
    PROVE  /\ Holders' = Holders \ {c} /\ c \in Holders
           /\ Counted' = Counted
  <1>1. c \in releases /\ c \in LimitedCalls /\ at[c] \in {"returned", "swallowed"}
    BY DEF GivePermit, PostPermit, ReleaseInv
  <1>2. ~(counting /\ c = Head(queue)) BY <1>1, HeadWaits DEF QueueInv
  <1>3. /\ releases' = releases \ {c} /\ uncounting' = uncounting \cup {c}
        /\ UNCHANGED <<queue, counting, at>>
    BY DEF GivePermit, PostPermit
  <1> QED BY <1>1, <1>2, <1>3 DEF Holders, Holding, Counted, LimitedCalls

\* The counter follows.
LEMMA UncountMoves ==
    ASSUME TypeOK, QueueInv, ReleaseInv, NEW c \in Calls, UncountPermit(c)
    PROVE  /\ Holders' = Holders
           /\ Counted' = Counted \ {c} /\ c \in Counted
  <1>1. c \in uncounting /\ c \notin releases /\ at[c] \in {"returned", "swallowed"}
    BY DEF UncountPermit, ReleaseInv
  <1>2. uncounting' = uncounting \ {c} /\ UNCHANGED <<queue, counting, at, releases>>
    BY DEF UncountPermit
  <1> QED BY <1>1, <1>2 DEF Holders, Holding, Counted, LimitedCalls

\* The limiter's type invariant is preserved.
LEMMA TypeNext == ASSUME TypeOK, QueueInv, Next PROVE TypeOK'
  <1> USE LimiterAssumption DEF TypeOK
  <1>1. ASSUME NEW x \in Executors, Construct(x) PROVE TypeOK'
    BY <1>1 DEF Construct, Creates
  <1>2. CASE TakePermit BY <1>2 DEF TakePermit, Available
  <1>3. CASE CountPermit
    <2>1. queue # <<>> /\ Head(queue) \in Calls /\ Tail(queue) \in Seq(Calls)
      BY <1>3 DEF CountPermit, QueueInv
    <2>2. /\ count' = count + 1 /\ counting' = FALSE /\ queue' = Tail(queue)
          /\ at' = [at EXCEPT ![Head(queue)] = "granted"]
          /\ UNCHANGED <<started, bucket, permits, releases, uncounting>>
      BY <1>3 DEF CountPermit
    <2>3. at' \in [Calls -> Pending \cup Finished] BY <2>1, <2>2 DEF Pending
    <2>4. count' \in Int /\ queue' \in Seq(Calls) BY <2>1, <2>2
    <2>5. counting' \in BOOLEAN BY <2>2
    <2>6. started' \subseteq Executors /\ bucket' \in Nat /\ permits' \in Nat
          /\ releases' \subseteq Calls /\ uncounting' \subseteq Calls
      BY <2>2
    <2> QED BY <2>3, <2>4, <2>5, <2>6
  <1>4. ASSUME NEW c \in Calls, CallStep(c) PROVE TypeOK'
    <2>1. CASE Enter(c)
      <3>1. queue' = queue \/ queue' = Append(queue, c) BY <2>1 DEF Enter
      <3>2. queue \in Seq(Calls) /\ Append(queue, c) \in Seq(Calls) OBVIOUS
      <3>3. queue' \in Seq(Calls) BY <3>1, <3>2
      <3> QED BY <2>1, <3>3 DEF Enter, Pending, Finished
    <2>2. CASE Run(c) BY <2>2 DEF Run, Pending, Finished
    <2>3. CASE FnReturns(c) BY <2>3 DEF FnReturns, Unwind, Pending, Finished
    <2>4. CASE FnRaises(c) BY <2>4 DEF FnRaises, Unwind, Pending, Finished
    <2>5. CASE GivePermit(c) BY <2>5 DEF GivePermit, PostPermit
    <2>6. CASE UncountPermit(c) BY <2>6 DEF UncountPermit
    <2> QED BY <1>4, <2>1, <2>2, <2>3, <2>4, <2>5, <2>6 DEF CallStep
  <1> QED BY <1>1, <1>2, <1>3, <1>4 DEF Next

\* The queue of acquire() keeps its calls apart, and their state.
LEMMA QueueNext == ASSUME TypeOK, QueueInv, Next PROVE QueueInv'
  <1> USE DEF TypeOK
  <1>1. ASSUME NEW x \in Executors, Construct(x) PROVE QueueInv'
    BY <1>1 DEF Construct, Creates, QueueInv, LimitedCalls
  <1>2. CASE TakePermit BY <1>2 DEF TakePermit, Available, QueueInv, LimitedCalls
  <1>3. CASE CountPermit
    <2>1. /\ queue # <<>> /\ Head(queue) = queue[1] /\ ~counting'
          /\ queue' = Tail(queue)
          /\ at' = [at EXCEPT ![Head(queue)] = "granted"]
      BY <1>3, HeadWaits DEF CountPermit, QueueInv
    <2>2. Len(queue') = Len(queue) - 1 /\ \A i \in 1..Len(queue') : queue'[i] = queue[i + 1]
      BY <2>1
    <2>3. \A i \in 1..Len(queue') : i + 1 \in 1..Len(queue) /\ queue[i + 1] # queue[1]
      BY <2>1, <2>2 DEF QueueInv
    <2>4. \A i \in 1..Len(queue') : queue'[i] \in LimitedCalls' /\ at'[queue'[i]] = "acquiring"
      BY <2>1, <2>2, <2>3 DEF QueueInv, LimitedCalls
    <2>5. \A i, j \in 1..Len(queue') : queue'[i] = queue'[j] => i = j
      <3> SUFFICES ASSUME NEW i \in 1..Len(queue'), NEW j \in 1..Len(queue'), queue'[i] = queue'[j]
                   PROVE i = j
        OBVIOUS
      <3>1. i + 1 \in 1..Len(queue) /\ j + 1 \in 1..Len(queue) /\ queue[i + 1] = queue[j + 1]
        BY <2>2, <2>3
      <3>2. i + 1 = j + 1 BY <3>1 DEF QueueInv
      <3> QED BY <3>2
    <2> QED BY <2>1, <2>4, <2>5 DEF QueueInv
  <1>4. ASSUME NEW c \in Calls, CallStep(c) PROVE QueueInv'
    <2>1. CASE Enter(c)
      <3>1. CASE ExecutorOf[c] \in Limited
        <4>1. /\ at[c] = "submitted" /\ at' = [at EXCEPT ![c] = "acquiring"]
              /\ queue' = Append(queue, c) /\ counting' = counting
          BY <2>1, <3>1 DEF Enter
        <4>2. \A i \in 1..Len(queue) : queue[i] # c BY <4>1 DEF QueueInv
        <4>3. /\ Len(queue') = Len(queue) + 1 /\ queue'[Len(queue) + 1] = c
              /\ \A i \in 1..Len(queue) : queue'[i] = queue[i]
          BY <4>1
        <4>4. c \in LimitedCalls BY <3>1 DEF LimitedCalls
        <4> QED BY <4>1, <4>2, <4>3, <4>4 DEF QueueInv, LimitedCalls
      <3>2. CASE ExecutorOf[c] \notin Limited
        BY <2>1, <3>2 DEF Enter, QueueInv, LimitedCalls
      <3> QED BY <3>1, <3>2
    <2>2. CASE Run(c) BY <2>2 DEF Run, QueueInv, LimitedCalls
    <2>3. CASE FnReturns(c) BY <2>3 DEF FnReturns, Unwind, QueueInv, LimitedCalls
    <2>4. CASE FnRaises(c) BY <2>4 DEF FnRaises, Unwind, QueueInv, LimitedCalls
    <2>5. CASE GivePermit(c) BY <2>5 DEF GivePermit, PostPermit, QueueInv, LimitedCalls
    <2>6. CASE UncountPermit(c) BY <2>6 DEF UncountPermit, QueueInv, LimitedCalls
    <2> QED BY <1>4, <2>1, <2>2, <2>3, <2>4, <2>5, <2>6 DEF CallStep
  <1> QED BY <1>1, <1>2, <1>3, <1>4 DEF Next

\* A permit on its way back belongs to a call that has ended, and the release
\* group runs no more threads than it has.
LEMMA ReleaseNext == ASSUME TypeOK, QueueInv, ReleaseInv, Next PROVE ReleaseInv'
  <1> USE DEF TypeOK
  <1>1. ASSUME NEW x \in Executors, Construct(x) PROVE ReleaseInv'
    BY <1>1 DEF Construct, Creates, ReleaseInv, LimitedCalls
  <1>2. CASE TakePermit BY <1>2 DEF TakePermit, Available, ReleaseInv, LimitedCalls
  <1>3. CASE CountPermit
    <2>1. Head(queue) \in LimitedCalls /\ at[Head(queue)] = "acquiring"
      BY <1>3, HeadWaits DEF CountPermit, QueueInv
    <2> QED BY <1>3, <2>1 DEF CountPermit, ReleaseInv, LimitedCalls
  <1>4. ASSUME NEW c \in Calls, CallStep(c) PROVE ReleaseInv'
    <2>1. CASE Enter(c) BY <2>1 DEF Enter, ReleaseInv, LimitedCalls
    <2>2. CASE Run(c) BY <2>2 DEF Run, ReleaseInv, LimitedCalls
    <2>3. CASE FnReturns(c) \/ FnRaises(c)
      <3>1. /\ at[c] = "running" /\ uncounting' = uncounting
            /\ c \in LimitedCalls => at'[c] \in {"returned", "swallowed"}
            /\ \A d \in Calls \ {c} : at'[d] = at[d]
            /\ releases' \in {releases, releases \cup {c}}
            /\ c \in releases' => c \in LimitedCalls
        BY <2>3 DEF FnReturns, FnRaises, Unwind, ReleaseInv, LimitedCalls
      <3>2. c \notin releases \cup uncounting BY <3>1 DEF ReleaseInv
      <3> QED BY <3>1, <3>2 DEF ReleaseInv, LimitedCalls
    <2>4. CASE GivePermit(c)
      <3>1. IsFiniteSet(uncounting) /\ Cardinality(uncounting) \in Nat BY FiniteSets
      <3>2. c \in releases /\ uncounting' = uncounting \cup {c} /\ releases' = releases \ {c}
            /\ Cardinality(uncounting) < ReleaseThreads /\ at' = at
        BY <2>4 DEF GivePermit, PostPermit
      <3>3. c \notin uncounting BY <3>2 DEF ReleaseInv
      <3>4. Cardinality(uncounting') = Cardinality(uncounting) + 1
        BY <3>1, <3>2, <3>3, FS_AddElement
      <3>5. Cardinality(uncounting') <= ReleaseThreads
        BY <3>1, <3>2, <3>4, LimiterAssumption
      <3> QED BY <3>2, <3>5 DEF ReleaseInv, LimitedCalls
    <2>5. CASE UncountPermit(c)
      <3>1. IsFiniteSet(uncounting) /\ Cardinality(uncounting) \in Nat BY FiniteSets
      <3>2. uncounting' = uncounting \ {c} /\ UNCHANGED <<releases, at>>
        BY <2>5 DEF UncountPermit
      <3>3. Cardinality(uncounting') = Cardinality(uncounting) - 1
        BY <2>5, <3>1, <3>2, FS_RemoveElement DEF UncountPermit
      <3>4. Cardinality(uncounting) <= ReleaseThreads BY DEF ReleaseInv
      <3>5. Cardinality(uncounting') <= ReleaseThreads
        BY <3>1, <3>3, <3>4, LimiterAssumption
      <3> QED BY <3>2, <3>5 DEF ReleaseInv, LimitedCalls
    <2> QED BY <1>4, <2>1, <2>2, <2>3, <2>4, <2>5 DEF CallStep
  <1> QED BY <1>1, <1>2, <1>3, <1>4 DEF Next

\* Every step moves permits and counts together with the sets they stand for.
LEMMA PermitsNext ==
    ASSUME TypeOK, QueueInv, ReleaseInv, PermitsConserved, count = Cardinality(Counted), Next
    PROVE  PermitsConserved' /\ count' = Cardinality(Counted)'
  <1> USE DEF PermitsConserved
  <1>0. /\ IsFiniteSet(Holders) /\ Cardinality(Holders) \in Nat
        /\ IsFiniteSet(Counted) /\ Cardinality(Counted) \in Nat
        /\ permits \in Nat /\ bucket \in Nat
    BY FiniteSets DEF TypeOK
  <1>1. ASSUME NEW x \in Executors, Construct(x)
        PROVE  PermitsConserved' /\ count' = Cardinality(Counted)'
    <2>1. Holders' = Holders /\ Counted' = Counted BY <1>1, ConstructMoves
    <2>2. count' = count BY <1>1 DEF Construct, Creates
    <2>3. permits' + Cardinality(Holders) = bucket'
      BY <1>0, <1>1, LimiterAssumption DEF Construct, Creates
    <2> QED BY <2>1, <2>2, <2>3
  <1>2. CASE TakePermit
    <2>1. Cardinality(Holders') = Cardinality(Holders) + 1
      BY <1>0, <1>2, TakeMoves, FS_AddElement
    <2> QED BY <1>0, <1>2, <2>1, TakeMoves DEF TakePermit, Available
  <1>3. CASE CountPermit
    <2>1. Cardinality(Counted') = Cardinality(Counted) + 1
      BY <1>0, <1>3, CountMoves, FS_AddElement
    <2> QED BY <1>0, <1>3, <2>1, CountMoves DEF CountPermit
  <1>4. ASSUME NEW c \in Calls, CallStep(c)
        PROVE  PermitsConserved' /\ count' = Cardinality(Counted)'
    <2>1. CASE Enter(c) BY <2>1, EnterMoves DEF Enter
    <2>2. CASE Run(c) \/ FnReturns(c) \/ FnRaises(c)
      BY <2>2, RunMoves DEF Run, FnReturns, FnRaises, Unwind
    <2>3. CASE GivePermit(c)
      <3>1. Cardinality(Holders') = Cardinality(Holders) - 1
        BY <1>0, <2>3, GiveMoves, FS_RemoveElement
      <3> QED BY <1>0, <2>3, <3>1, GiveMoves DEF GivePermit, PostPermit
    <2>4. CASE UncountPermit(c)
      <3>1. Cardinality(Counted') = Cardinality(Counted) - 1
        BY <1>0, <2>4, UncountMoves, FS_RemoveElement
      <3> QED BY <1>0, <2>4, <3>1, UncountMoves DEF UncountPermit
    <2> QED BY <1>4, <2>1, <2>2, <2>3, <2>4 DEF CallStep
  <1> QED BY <1>1, <1>2, <1>3, <1>4 DEF Next

\* A step that changes nothing keeps everything.
LEMMA Stuttering == ASSUME IInv, UNCHANGED vars PROVE IInv'
  BY DEF IInv, vars, TypeOK, QueueInv, ReleaseInv, PermitsConserved, Holders, Holding,
         Counted, LimitedCalls

\* At the start no permit is out and nothing is counted.
LEMMA InitInv == ASSUME Init PROVE IInv
  <1>1. TypeOK
    <2>1. at \in [Calls -> Pending \cup Finished] BY DEF Init, Pending
    <2>2. <<>> \in Seq(Calls) OBVIOUS
    <2>3. 0 \in Nat /\ 0 \in Int OBVIOUS
    <2> QED BY <2>1, <2>2, <2>3 DEF Init, TypeOK
  <1>2. QueueInv BY DEF Init, QueueInv
  <1>3. Holders = {} /\ Counted = {} /\ uncounting = {}
    BY DEF Init, Holders, Holding, Counted, LimitedCalls
  <1>4. ReleaseInv BY <1>3, FS_EmptySet, LimiterAssumption DEF Init, ReleaseInv
  <1>5. PermitsConserved /\ count = Cardinality(Counted)
    BY <1>3, FS_EmptySet DEF Init, PermitsConserved
  <1> QED BY <1>1, <1>2, <1>4, <1>5 DEF IInv

(* The bookkeeping of the limiter, in every reachable state: who waits, who *)
(* holds a permit and what the semaphore and the counter stand for.         *)
THEOREM LimiterInvariant == Spec => []IInv
  <1>1. IInv /\ [Next]_vars => IInv'
    BY TypeNext, QueueNext, ReleaseNext, PermitsNext, Stuttering DEF IInv
  <1> QED BY <1>1, InitInv, PTL DEF Spec

(* No permit of the semaphore is lost or made up, whatever the functions of *)
(* the tools do and however acquire and release interleave.                 *)
THEOREM NoPermitIsLost == Spec => []PermitsConserved
  <1>1. IInv => PermitsConserved BY DEF IInv
  <1> QED BY <1>1, LimiterInvariant, PTL

(* No more functions run under the limiter than its limit, for any number   *)
(* of executors, threads and calls.                                         *)
THEOREM LimitHolds == Spec => []RunningWithinLimit
  <1>1. IInv => RunningWithinLimit
    <2> SUFFICES ASSUME IInv PROVE RunningWithinLimit
      OBVIOUS
    <2> DEFINE running == {c \in LimitedCalls : at[c] = "running"}
    <2>1. TypeOK /\ PermitsConserved BY DEF IInv
    <2>2. IsFiniteSet(Holders) /\ Cardinality(Holders) \in Nat BY <2>1, FiniteSets
    <2>3. running \in SUBSET Holders BY DEF Holders, Holding
    <2>4. IsFiniteSet(running) /\ Cardinality(running) <= Cardinality(Holders)
      BY <2>2, <2>3, FS_Subset
    <2>5. Cardinality(running) \in Nat BY <2>4, FS_CardinalityType
    <2>6. permits \in Nat /\ bucket \in Nat BY <2>1 DEF TypeOK
    <2> QED BY <2>1, <2>2, <2>4, <2>5, <2>6 DEF PermitsConserved, RunningWithinLimit
  <1> QED BY <1>1, LimiterInvariant, PTL

(* The observed count is never negative and exceeds the limit by at most    *)
(* the number of threads that release at a time.                            *)
THEOREM CountStaysNearLimit == Spec => []CountIsNearLimit
  <1>1. IInv => CountIsNearLimit
    <2> SUFFICES ASSUME IInv PROVE CountIsNearLimit
      OBVIOUS
    <2>1. TypeOK /\ ReleaseInv /\ PermitsConserved /\ count = Cardinality(Counted) BY DEF IInv
    <2>2. /\ IsFiniteSet(Holders) /\ Cardinality(Holders) \in Nat
          /\ IsFiniteSet(Counted) /\ Cardinality(Counted) \in Nat
          /\ IsFiniteSet(uncounting) /\ Cardinality(uncounting) \in Nat
      BY <2>1, FiniteSets
    <2>3. Counted \in SUBSET (Holders \cup uncounting)
      BY <2>1 DEF Counted, Holders, Holding, ReleaseInv
    <2>4. /\ IsFiniteSet(Holders \cup uncounting)
          /\ Cardinality(Holders \cup uncounting)
               = Cardinality(Holders) + Cardinality(uncounting) - Cardinality(Holders \cap uncounting)
      BY <2>2, FS_Union
    <2>5. IsFiniteSet(Holders \cap uncounting) /\ Cardinality(Holders \cap uncounting) \in Nat
      BY <2>2, FS_Subset, FS_CardinalityType
    <2>6. Cardinality(Counted) <= Cardinality(Holders \cup uncounting)
      BY <2>3, <2>4, FS_Subset
    <2>7. permits \in Nat /\ bucket \in Nat BY <2>1 DEF TypeOK
    <2> HIDE DEF Counted, Holders
    <2> QED
      BY <2>1, <2>2, <2>4, <2>5, <2>6, <2>7, LimiterAssumption
      DEF ReleaseInv, PermitsConserved, CountIsNearLimit
  <1> QED BY <1>1, LimiterInvariant, PTL

\* The stage of one call, and the calls inside the throttle.
LEMMA StageFacts ==
    ASSUME NEW d \in Calls
    PROVE  StageOf[d] = IF Holding(d) THEN "inside"
                        ELSE IF at[d] \in Finished THEN "gone" ELSE "outside"
  <1>1. CASE Holding(d) BY <1>1 DEF StageOf
  <1>2. CASE ~Holding(d) /\ at[d] \in Finished BY <1>2 DEF StageOf
  <1>3. CASE ~Holding(d) /\ at[d] \notin Finished BY <1>3 DEF StageOf
  <1> QED BY <1>1, <1>2, <1>3

\* The throttle counts inside exactly the calls a permit is out for.
LEMMA InsideAreHolders == Gate!Inside = Holders
  BY StageFacts DEF Gate!Inside, Holders, LimitedCalls

\* A step that leaves every call's holding, end and release alone leaves its stage alone.
LEMMA SameStage ==
    ASSUME \A d \in Calls : /\ Holding(d)' <=> Holding(d)
                            /\ (at[d] \in Finished /\ ~Holding(d))'
                                 <=> (at[d] \in Finished /\ ~Holding(d))
    PROVE  StageOf' = StageOf
  BY DEF StageOf

\* A step that moves one call changes one stage.
LEMMA OneStage ==
    ASSUME NEW c \in Calls,
           \A d \in Calls \ {c} : /\ Holding(d)' <=> Holding(d)
                                  /\ (at[d] \in Finished /\ ~Holding(d))'
                                       <=> (at[d] \in Finished /\ ~Holding(d))
    PROVE  StageOf' = [StageOf EXCEPT ![c] = StageOf'[c]]
  <1>1. \A d \in Calls \ {c} : StageOf'[d] = StageOf[d] BY DEF StageOf
  <1>2. /\ StageOf = [d \in Calls |-> StageOf[d]]
        /\ StageOf' = [d \in Calls |-> StageOf'[d]]
    BY DEF StageOf
  <1> QED BY <1>1, <1>2

\* Every step of the limiter is a step of the throttle or changes nothing there.
LEMMA StepImplements ==
    ASSUME IInv, [Next]_vars
    PROVE  [Gate!Next]_<<bucket, StageOf>>
  <1> DEFINE Same == bucket' = bucket /\ StageOf' = StageOf
  <1>0. TypeOK /\ QueueInv /\ ReleaseInv /\ PermitsConserved BY DEF IInv
  <1>1. ASSUME NEW x \in Executors, Construct(x) PROVE Gate!SetLimit \/ Same
    <2>1. StageOf' = StageOf BY <1>1, ConstructMoves
    <2>2. bucket' = bucket \/ (bucket = 0 /\ bucket' \in Nat \ {0})
      BY <1>1, LimiterAssumption DEF Construct, Creates
    <2> QED BY <2>1, <2>2 DEF Gate!SetLimit
  <1>2. CASE TakePermit
    <2> DEFINE c == Head(queue)
    <2>1. c \in LimitedCalls /\ at[c] = "acquiring" /\ c \in Calls
      BY <1>0, <1>2, HeadWaits DEF TakePermit, Available, LimitedCalls
    <2>2. /\ ~counting /\ counting' /\ permits > 0
          /\ UNCHANGED <<queue, at, releases, bucket>>
      BY <1>2 DEF TakePermit, Available
    <2>3. c \notin releases BY <1>0, <2>1 DEF ReleaseInv
    <2>4. StageOf[c] = "outside" /\ StageOf'[c] = "inside"
      BY <2>1, <2>2, <2>3 DEF StageOf, Holding, Finished
    <2>5. StageOf' = [StageOf EXCEPT ![c] = StageOf'[c]]
      BY <2>1, <2>2, OneStage DEF Holding
    <2>6. permits \in Nat /\ Cardinality(Holders) \in Nat /\ bucket \in Nat
      BY <1>0, FiniteSets DEF TypeOK
    <2>7. Cardinality(Gate!Inside) < bucket
      BY <1>0, <2>2, <2>6, InsideAreHolders DEF PermitsConserved
    <2>8. StageOf' = [StageOf EXCEPT ![c] = "inside"] BY <2>4, <2>5
    <2> HIDE DEF c
    <2>9. bucket' = bucket BY <2>2
    <2>10. Gate!Admit(c)
      <3>1. c \in LimitedCalls /\ StageOf[c] = "outside" BY <2>1, <2>4
      <3>2. Gate!Cardinality(Gate!Inside) = Cardinality(Gate!Inside)
        BY DEF Gate!Cardinality, Cardinality, Gate!IsFiniteSet, IsFiniteSet
      <3> QED BY <3>1, <3>2, <2>7, <2>8, <2>9 DEF Gate!Admit
    <2> QED BY <2>1, <2>10 DEF Gate!Next
  <1>3. CASE CountPermit
    <2>1. Head(queue) \in Calls /\ at[Head(queue)] = "acquiring"
      BY <1>0, <1>3, HeadWaits DEF CountPermit, QueueInv, LimitedCalls
    <2>2. /\ counting /\ ~counting' /\ UNCHANGED <<releases, bucket>>
          /\ at' = [at EXCEPT ![Head(queue)] = "granted"]
          /\ at \in [Calls -> Pending \cup Finished]
      BY <1>0, <1>3 DEF CountPermit, TypeOK
    <2>3. StageOf' = StageOf BY <2>1, <2>2, SameStage DEF Holding, Finished
    <2> QED BY <2>2, <2>3
  <1>4. ASSUME NEW c \in Calls, CallStep(c) PROVE Gate!Next \/ Same
    <2>0. at \in [Calls -> Pending \cup Finished] BY <1>0 DEF TypeOK
    <2>1. CASE Enter(c)
      <3>1. /\ at[c] = "submitted" /\ UNCHANGED <<bucket, counting, releases>>
            /\ \A d \in Calls \ {c} : at'[d] = at[d]
            /\ counting => Head(queue') = Head(queue) /\ Head(queue) # c
        BY <1>0, <2>0, <2>1, HeadWaits DEF Enter, QueueInv, TypeOK
      <3>2. c \notin releases BY <1>0, <3>1 DEF ReleaseInv
      <3>3. CASE ExecutorOf[c] \in Limited
        <4>1. at'[c] = "acquiring" BY <2>0, <2>1, <3>3 DEF Enter
        <4>2. StageOf' = StageOf BY <3>1, <3>2, <4>1, SameStage DEF Holding, Finished
        <4> QED BY <3>1, <4>2
      <3>4. CASE ExecutorOf[c] \notin Limited
        <4>1. at'[c] \in {"running", "raised"} BY <2>0, <2>1, <3>4 DEF Enter
        <4>2. StageOf' = [StageOf EXCEPT ![c] = StageOf'[c]]
          BY <3>1, OneStage DEF Holding
        <4>3. StageOf[c] # "gone" /\ StageOf'[c] \in {"inside", "gone"}
          BY <3>1, <3>2, <4>1 DEF StageOf, Holding, Finished
        <4>4. c \notin LimitedCalls BY <3>4 DEF LimitedCalls
        <4> QED BY <3>1, <4>2, <4>3, <4>4 DEF Gate!Next, Gate!PassBy
      <3> QED BY <3>3, <3>4
    <2>2. CASE Run(c)
      <3>1. /\ at[c] = "granted" /\ UNCHANGED <<bucket, counting, queue, releases>>
            /\ at' = [at EXCEPT ![c] = "running"]
        BY <2>2 DEF Run
      <3>2. StageOf' = StageOf BY <2>0, <3>1, SameStage DEF Holding, Finished
      <3> QED BY <3>1, <3>2
    <2>3. CASE FnReturns(c) \/ FnRaises(c)
      <3>1. /\ at[c] = "running" /\ at'[c] \in Finished
            /\ UNCHANGED <<bucket, counting, queue>>
            /\ \A d \in Calls \ {c} : at'[d] = at[d] /\ (d \in releases' <=> d \in releases)
            /\ releases' = IF ExecutorOf[c] \in Limited THEN releases \cup {c} ELSE releases
        BY <2>0, <2>3 DEF FnReturns, FnRaises, Unwind, Finished
      <3>2. c \notin releases BY <1>0, <3>1 DEF ReleaseInv
      <3>3. ~(counting /\ c = Head(queue)) BY <1>0, <3>1, HeadWaits DEF QueueInv
      <3>4. CASE ExecutorOf[c] \in Limited
        <4>1. StageOf' = StageOf BY <3>1, <3>2, <3>4, SameStage DEF Holding, Finished
        <4> QED BY <3>1, <4>1
      <3>5. CASE ExecutorOf[c] \notin Limited
        <4>1. StageOf' = [StageOf EXCEPT ![c] = StageOf'[c]]
          BY <3>1, OneStage DEF Holding
        <4>2. StageOf[c] = "inside" /\ StageOf'[c] = "gone"
          BY <3>1, <3>2, <3>3, <3>5 DEF StageOf, Holding, Finished
        <4> QED BY <3>1, <4>1, <4>2 DEF Gate!Next, Gate!Depart
      <3> QED BY <3>4, <3>5
    <2>4. CASE GivePermit(c)
      <3>1. /\ c \in releases /\ releases' = releases \ {c}
            /\ UNCHANGED <<bucket, counting, queue, at>>
            /\ at[c] \in {"returned", "swallowed"}
        BY <1>0, <2>4 DEF GivePermit, PostPermit, ReleaseInv
      <3>2. ~(counting /\ c = Head(queue)) BY <1>0, <3>1, HeadWaits DEF QueueInv
      <3>3. StageOf' = [StageOf EXCEPT ![c] = StageOf'[c]]
        BY <3>1, OneStage DEF Holding
      <3>4. StageOf[c] = "inside" /\ StageOf'[c] = "gone"
        BY <3>1, <3>2 DEF StageOf, Holding, Finished
      <3> QED BY <3>1, <3>3, <3>4 DEF Gate!Next, Gate!Depart
    <2>5. CASE UncountPermit(c) BY <2>5 DEF UncountPermit, StageOf, Holding
    <2> QED BY <1>4, <2>1, <2>2, <2>3, <2>4, <2>5 DEF CallStep
  <1>5. CASE UNCHANGED vars BY <1>5 DEF vars, StageOf, Holding
  <1>6. Gate!SetLimit => Gate!Next BY DEF Gate!Next
  <1> QED BY <1>1, <1>2, <1>3, <1>4, <1>5, <1>6 DEF Next

(* The limiter, with its queue, its two statements per method and its       *)
(* releases in flight, implements the throttle: a fixed limit, and never    *)
(* more calls between admission and departure than it.                      *)
THEOREM LimiterIsThrottle == Spec => ImplementsThrottle
  <1>1. Init => Gate!Init
    <2> SUFFICES ASSUME Init PROVE Gate!Init
      OBVIOUS
    <2>1. bucket = 0 BY DEF Init
    <2>2. StageOf = [c \in Calls |-> "outside"]
      BY DEF Init, StageOf, Holding, Finished
    <2> QED BY <2>1, <2>2 DEF Gate!Init
  <1>2. IInv /\ [Next]_vars => [Gate!Next]_<<bucket, StageOf>>
    BY StepImplements
  <1> QED BY <1>1, <1>2, LimiterInvariant, PTL DEF Spec, ImplementsThrottle, Gate!Spec
=============================================================================
