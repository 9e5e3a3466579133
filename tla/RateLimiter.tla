---------------------------- MODULE RateLimiter ----------------------------
(***************************************************************************)
(* The rate limiter the sandbox, search and image tools share              *)
(* (verl/tools/sandbox_fusion_tools.py, copied in search_tool.py and       *)
(* image_zoom_in_tool.py): one actor named "rate-limiter" that keeps a     *)
(* semaphore, and the execution workers that take a permit before they run *)
(* a tool's function and give it back afterwards.                          *)
(*                                                                         *)
(* acquire() has a single thread, which serves its calls one after the     *)
(* other and blocks on the semaphore; release() has threads of its own.    *)
(* Each method touches the semaphore and then the counter, and the other   *)
(* threads run between the two.  A release is sent and not waited for.     *)
(*                                                                         *)
(* current_count += 1 and -= 1 run in two threads without a lock.  Each is *)
(* one step here: the repository asks for Python 3.10 or later, whose      *)
(* interpreter changes threads at calls and backward jumps only, and there *)
(* is none between reading the counter and writing it.  The language does  *)
(* not promise that, and an interpreter without the global lock could lose *)
(* an update; the counter is for observation, nothing is decided by it.    *)
(***************************************************************************)
EXTENDS Integers, Sequences, FiniteSets

CONSTANTS
    Executors,      \* the ExecutionWorker actors, one for each tool of each process
    RateLimit,      \* the rate_limit in the configuration of each executor
    Limited,        \* the executors with enable_global_rate_limit
    Checking,       \* the executors that test for it (all but the sandbox tool's)
    NumWorkers,     \* threads of an executor: max_concurrency
    ReleaseThreads, \* threads of the limiter's release group
    Calls,          \* the calls of execute()
    ExecutorOf      \* the executor of each call

ASSUME LimiterAssumption ==
    /\ RateLimit \in [Executors -> Nat \ {0}]
    /\ Limited \subseteq Executors
    /\ Checking \subseteq Executors
    /\ NumWorkers \in Nat \ {0}
    /\ ReleaseThreads \in Nat \ {0}
    /\ IsFiniteSet(Calls)
    /\ ExecutorOf \in [Calls -> Executors]

VARIABLES
    started,      \* the executors that are constructed
    bucket,       \* rate_limit of the limiter; 0 while no actor has its name
    permits,      \* the value of _semaphore
    count,        \* current_count
    queue,        \* calls of acquire(), the one being served at the head
    counting,     \* the acquire thread has a permit and has not counted it
    releases,     \* calls whose release() is sent and has not begun
    uncounting,   \* calls whose release() gave the permit back and has not counted it
    at            \* how far each call of execute() is

vars == <<started, bucket, permits, count, queue, counting, releases, uncounting, at>>

Pending == {"submitted", "acquiring", "granted", "running"}
Finished == {"returned", "swallowed", "raised"}

LimitedCalls == {c \in Calls : ExecutorOf[c] \in Limited}

(* The calls that occupy a thread of executor x. *)
InThread(x) == {c \in Calls : ExecutorOf[c] = x /\ at[c] \in Pending \ {"submitted"}}

(* The calls a permit is out for, and those current_count stands for. *)
Holding(c) == \/ at[c] \in {"granted", "running"}
              \/ counting /\ c = Head(queue)
              \/ c \in releases
Holders == {c \in LimitedCalls : Holding(c)}
Counted == {c \in LimitedCalls : at[c] \in {"granted", "running"}} \cup releases \cup uncounting

Init ==
    /\ started = {}
    /\ bucket = 0
    /\ permits = 0
    /\ count = 0
    /\ queue = <<>>
    /\ counting = FALSE
    /\ releases = {}
    /\ uncounting = {}
    /\ at = [c \in Calls |-> "submitted"]

(* The limiter is looked up by name and created if nobody did so before    *)
(* (get_if_exists), and a slip: it is created in any case.                 *)
CreatesAlways(x) == x \in Limited
Creates(x) == x \in Limited /\ bucket = 0

(* ExecutionWorker.__init__ with this executor's rate_limit. *)
Construct(x) ==
    /\ x \notin started
    /\ started' = started \cup {x}
    /\ IF Creates(x)
       THEN bucket' = RateLimit[x] /\ permits' = RateLimit[x]
       ELSE UNCHANGED <<bucket, permits>>
    /\ UNCHANGED <<count, queue, counting, releases, uncounting, at>>

(* execute() begins in a free thread.  Without a limiter the tools that    *)
(* test for one run the function, and the sandbox tool fails on None.      *)
Enter(c) ==
    LET x == ExecutorOf[c] IN
    /\ at[c] = "submitted"
    /\ x \in started
    /\ Cardinality(InThread(x)) < NumWorkers
    /\ IF x \in Limited
       THEN /\ at' = [at EXCEPT ![c] = "acquiring"]
            /\ queue' = Append(queue, c)
       ELSE /\ at' = [at EXCEPT ![c] = IF x \in Checking THEN "running" ELSE "raised"]
            /\ UNCHANGED queue
    /\ UNCHANGED <<started, bucket, permits, count, counting, releases, uncounting>>

(* The semaphore blocks at zero. *)
Available == permits > 0

(* TokenBucketWorker.acquire: the semaphore, and then the counter. *)
TakePermit ==
    /\ queue # <<>>
    /\ ~counting
    /\ Available
    /\ permits' = permits - 1
    /\ counting' = TRUE
    /\ UNCHANGED <<started, bucket, count, queue, releases, uncounting, at>>

CountPermit ==
    /\ counting
    /\ count' = count + 1
    /\ counting' = FALSE
    /\ queue' = Tail(queue)
    /\ at' = [at EXCEPT ![Head(queue)] = "granted"]
    /\ UNCHANGED <<started, bucket, permits, releases, uncounting>>

(* The answer of acquire() reaches the waiting execute(), which calls fn. *)
Run(c) ==
    /\ at[c] = "granted"
    /\ at' = [at EXCEPT ![c] = "running"]
    /\ UNCHANGED <<started, bucket, permits, count, queue, counting, releases, uncounting>>

(* The stack unwinds and sends the release, without waiting for it. *)
Unwind(c) ==
    /\ releases' = IF ExecutorOf[c] \in Limited THEN releases \cup {c} ELSE releases
    /\ UNCHANGED <<started, bucket, permits, count, queue, counting, uncounting>>

FnReturns(c) ==
    /\ at[c] = "running"
    /\ at' = [at EXCEPT ![c] = "returned"]
    /\ Unwind(c)

(* A slip: the release follows the function instead of the stack's end. *)
FnRaisesPastRelease(c) ==
    /\ at[c] = "running"
    /\ at' = [at EXCEPT ![c] = "raised"]
    /\ UNCHANGED <<started, bucket, permits, count, queue, counting, releases, uncounting>>

(* Under the limiter an exception of fn is logged and None is returned. *)
FnRaises(c) ==
    /\ at[c] = "running"
    /\ at' = [at EXCEPT ![c] = IF ExecutorOf[c] \in Limited THEN "swallowed" ELSE "raised"]
    /\ Unwind(c)

(* TokenBucketWorker.release: the semaphore, and then the counter. *)
PostPermit(c) ==
    /\ c \in releases
    /\ permits' = permits + 1
    /\ releases' = releases \ {c}
    /\ uncounting' = uncounting \cup {c}
    /\ UNCHANGED <<started, bucket, count, queue, counting, at>>

\* Two slips: release() shares the thread of acquire(), or has no limit.
GivePermitInAcquireThread(c) == queue = <<>> /\ PostPermit(c)
GivePermitUnbounded(c) == PostPermit(c)
GivePermit(c) == Cardinality(uncounting) < ReleaseThreads /\ PostPermit(c)

UncountPermit(c) ==
    /\ c \in uncounting
    /\ count' = count - 1
    /\ uncounting' = uncounting \ {c}
    /\ UNCHANGED <<started, bucket, permits, queue, counting, releases, at>>

CallStep(c) == \/ Enter(c) \/ Run(c)
               \/ FnReturns(c) \/ FnRaises(c)
               \/ GivePermit(c) \/ UncountPermit(c)

Next == \/ \E x \in Executors : Construct(x)
        \/ TakePermit \/ CountPermit
        \/ \E c \in Calls : CallStep(c)

(* Ray starts the actors, runs a method when its group has a free thread   *)
(* and delivers what is sent, and the functions of the tools end: they     *)
(* are requests with a time limit.                                         *)
Fairness == /\ \A x \in Executors : WF_vars(Construct(x))
            /\ WF_vars(TakePermit) /\ WF_vars(CountPermit)
            /\ \A c \in Calls : WF_vars(CallStep(c))

Spec == Init /\ [][Next]_vars
FairSpec == Spec /\ Fairness
-----------------------------------------------------------------------------
TypeOK ==
    /\ started \subseteq Executors
    /\ bucket \in Nat
    /\ permits \in Nat
    /\ count \in Int
    /\ queue \in Seq(Calls)
    /\ counting \in BOOLEAN
    /\ releases \subseteq Calls
    /\ uncounting \subseteq Calls
    /\ at \in [Calls -> Pending \cup Finished]

(* However many processes, tools and threads share the limiter, no more    *)
(* functions run under it than the limit it was created with.              *)
RunningWithinLimit ==
    Cardinality({c \in LimitedCalls : at[c] = "running"}) <= bucket

(* No permit is lost or made up: those of the semaphore and those that are *)
(* out, with the ones on their way back, are as many as at the start.      *)
PermitsConserved == permits + Cardinality(Holders) = bucket

(* current_count is never negative, and it runs ahead of the limit by no   *)
(* more than the releases between their two statements.                    *)
CountIsNearLimit == count >= 0 /\ count <= bucket + ReleaseThreads

(* A call that ends, with a result or with an exception of its function,   *)
(* ends for everyone: every call of execute() is answered.                 *)
EveryCallEnds == \A c \in Calls : <>(at[c] \in Finished)

(* When no call is left the semaphore is full again and the count is 0.    *)
EverythingIsReturned == <>[](permits = bucket /\ count = 0)

(* The limiter implements the throttle it is meant to be. *)
StageOf == [c \in Calls |->
    CASE Holding(c)                        -> "inside"
      [] at[c] \in Finished /\ ~Holding(c) -> "gone"
      [] OTHER                             -> "outside"]

Gate == INSTANCE Throttle WITH Throttled <- LimitedCalls, limit <- bucket, stage <- StageOf

ImplementsThrottle == Gate!Spec
=============================================================================
