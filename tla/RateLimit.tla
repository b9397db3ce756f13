----------------------------- MODULE RateLimit -----------------------------
(***************************************************************************)
(* ratelimit.py and deps.client_key: a sliding window of admissions for    *)
(* every client key.  check() runs on the event loop without suspending,   *)
(* so one call is one step.  Time is the monotonic clock in ticks, Second  *)
(* ticks to a second, fine enough to see what int() does to Retry-After.   *)
(***************************************************************************)
EXTENDS Clock, Integers, Sequences, FiniteSets

CONSTANTS Keys,        \* the configured client keys
          Rpm,         \* [Keys -> Nat]: requests per window, 0 = unlimited
          Window,      \* length of the window in ticks
          RequireKey   \* server.require_client_key

VARIABLES buckets,     \* the limiter's deque of admission times, per key
          admitted,    \* history: admissions that a window may still contain
          refusal      \* history: what the last refusals of a key promised

limiterVars == <<buckets, admitted, refusal>>

ASSUME LimiterAssumption ==
    /\ Rpm \in [Keys -> Nat]
    /\ Window \in Nat \ {0}
    /\ RequireKey \in BOOLEAN

NoRefusal == [until |-> 0, last |-> 0]

LimiterInit ==
    /\ buckets = [k \in Keys |-> <<>>]
    /\ admitted = [k \in Keys |-> <<>>]
    /\ refusal = [k \in Keys |-> NoRefusal]

\* Mutant: the whole deque is dropped as soon as its oldest entry expires.
LiveClears(bucket, now) ==
    IF bucket # <<>> /\ Head(bucket) > now - Window THEN bucket ELSE <<>>

\* How many entries are popped from the left end: the expired ones before the
\* first that is not.
Popped(bucket, now) ==
    CHOOSE n \in 0..Len(bucket) :
        /\ \A i \in 1..n : bucket[i] <= now - Window
        /\ n < Len(bucket) => bucket[n + 1] > now - Window

\* The deque after that.
Live(bucket, now) == SubSeq(bucket, Popped(bucket, now) + 1, Len(bucket))

\* What check() computes for a full bucket, and the header deps.py makes of it.
RetryAfter(bucket, now) == Window - (now - Head(bucket))
\* Mutant: the fraction of a second is cut off.
RetryHeaderFloor(retryAfter) == (retryAfter \div Second) * Second
RetryHeader(retryAfter) == (retryAfter \div Second + 1) * Second

\* check() when the window has room: the admission is recorded.
Admit(k) ==
    LET bucket == Live(buckets[k], clock)
    IN  /\ Len(bucket) < Rpm[k]
        /\ buckets' = [buckets EXCEPT ![k] = Append(bucket, clock)]
        /\ admitted' = [admitted EXCEPT ![k] = Append(@, clock)]
        /\ refusal' = [refusal EXCEPT ![k] = NoRefusal]

\* check() when it has none: only the pruning is kept.
Refuse(k) ==
    LET bucket == Live(buckets[k], clock)
    IN  /\ Len(bucket) >= Rpm[k]
        /\ buckets' = [buckets EXCEPT ![k] = bucket]
        /\ refusal' = [refusal EXCEPT ![k] =
               IF @ = NoRefusal
               THEN [until |-> clock + RetryHeader(RetryAfter(bucket, clock)), last |-> clock]
               ELSE [@ EXCEPT !.last = clock]]
        /\ UNCHANGED admitted

\* deps.client_key: a key that is not configured is a 401, a full window a 429.
Authorised(k) ==
    IF RequireKey /\ k \in Keys /\ Rpm[k] > 0
    THEN Admit(k)
    ELSE (RequireKey => k \in Keys) /\ UNCHANGED limiterVars

Rejected(k) == RequireKey /\ k \in Keys /\ Rpm[k] > 0 /\ Refuse(k)

\* The clock; the histories forget what no window contains any more.
Recent(times, now) == SubSeq(times, Popped(times, now) + 1, Len(times))

LimiterTick ==
    /\ clock' = clock + 1
    /\ admitted' = [k \in Keys |-> Recent(admitted[k], clock')]
    /\ UNCHANGED <<buckets, refusal>>

(* A key is never served more often than its rpm within one window, the    *)
(* bucket's own pruning notwithstanding: the sliding window is exact.      *)
WithinBudget ==
    \A k \in Keys : Rpm[k] > 0 =>
        Cardinality({i \in DOMAIN admitted[k] : clock - admitted[k][i] < Window}) <= Rpm[k]

(* A client that waits as long as a 429 told it to is not refused again,   *)
(* unless its key was served in between: Retry-After, rounded by deps.py,  *)
(* outlasts the oldest admission of the window.                            *)
RetryAfterHolds ==
    \A k \in Keys : refusal[k] # NoRefusal => refusal[k].last < refusal[k].until
=============================================================================
