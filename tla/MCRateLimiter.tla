--------------------------- MODULE MCRateLimiter ---------------------------
(* Small instances of RateLimiter for TLC.                                 *)
EXTENDS RateLimiter

CONSTANTS sandbox, search, unlimitedSandbox, unlimitedSearch, \* executors
          a1, a2, b1, b2, b3, u1, u2                          \* calls

\* The two executors under the limiter disagree about its limit.
Limits == [x \in Executors |-> IF x = sandbox THEN 1 ELSE 2]
Executor == [c \in Calls |-> CASE c \in {a1, a2}     -> sandbox
                               [] c \in {b1, b2, b3} -> search
                               [] c = u1             -> unlimitedSandbox
                               [] c = u2             -> unlimitedSearch]
=============================================================================
