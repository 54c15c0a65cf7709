----------------------------- MODULE RateLimit -----------------------------
(***************************************************************************)
(* The sliding-window log of src/api/middleware/rateLimit.ts, which guards *)
(* POST /schedule-runs (max 5 in 5 minutes per user), and the caller that  *)
(* waits out a Retry-After before it tries again.                          *)
(***************************************************************************)
EXTENDS Integers, Sequences, FiniteSets

CONSTANTS
  Max,      \* hits allowed in a window
  Window,   \* its length, in clock ticks (windowMs)
  Second,   \* ticks in a second, the unit of Retry-After
  Horizon   \* bound: the clock stops here

ASSUME MaxAssumption == Max \in Nat \ {0}
ASSUME WindowAssumption == Window \in Nat \ {0}
ASSUME SecondAssumption == Second \in Nat \ {0}
ASSUME HorizonAssumption == Horizon \in Nat

VARIABLES
  now,     \* the clock
  bucket,  \* timestamps of the hits that count
  hits,    \* history: the times of all hits let through, with repetition
  retryAt  \* when the last refused caller was told to come back, or -1

limiterVars == <<now, bucket, hits, retryAt>>

LimiterInit == now = 0 /\ bucket = <<>> /\ hits = <<>> /\ retryAt = -1

Fresh(t) == t > now - Window

\* The loop over the expired head of the bucket stops at the first that counts.
FirstFresh ==
  CHOOSE n \in 1..(Len(bucket) + 1) :
    /\ \A i \in 1..(n - 1) : ~Fresh(bucket[i])
    /\ n <= Len(bucket) => Fresh(bucket[n])
Kept == SubSeq(bucket, FirstFresh, Len(bucket))

\* Math.ceil(retryAfterMs / 1000) || 1.
RetryAfter ==
  LET wait == Kept[1] + Window - now
      secs == (wait + Second - 1) \div Second
  IN IF secs = 0 THEN 1 ELSE secs

\* Mutant: a refused hit is recorded as well.
HitAlwaysCounts ==
  LET fits == Len(Kept) < Max IN
  /\ bucket' = Append(Kept, now)
  /\ hits' = IF fits THEN Append(hits, now) ELSE hits
  /\ retryAt' = IF fits THEN -1 ELSE now + RetryAfter * Second
  /\ UNCHANGED now

\* Mutant: the limit is checked after the hit is recorded.
HitOneMore ==
  LET fits == Len(Kept) <= Max IN
  /\ bucket' = IF fits THEN Append(Kept, now) ELSE Kept
  /\ hits' = IF fits THEN Append(hits, now) ELSE hits
  /\ retryAt' = IF fits THEN -1 ELSE now + RetryAfter * Second
  /\ UNCHANGED now

Hit ==
  LET fits == Len(Kept) < Max IN
  /\ bucket' = IF fits THEN Append(Kept, now) ELSE Kept
  /\ hits' = IF fits THEN Append(hits, now) ELSE hits
  /\ retryAt' = IF fits THEN -1 ELSE now + RetryAfter * Second
  /\ UNCHANGED now

Tick == now < Horizon /\ now' = now + 1 /\ UNCHANGED <<bucket, hits, retryAt>>

LimiterNext == Hit \/ Tick
LimiterSpec == LimiterInit /\ [][LimiterNext]_limiterVars

\* In no window of the clock more than Max hits were let through.
WindowHolds ==
  \A i \in 1..Len(hits) : \A j \in i..Len(hits) : hits[j] - hits[i] < Window => j - i < Max

\* Whoever comes back when the Retry-After says, and nobody else in between,
\* is let through: at that time a place is free.
RetryIsEnough == retryAt # -1 /\ now >= retryAt => Len(Kept) < Max
=============================================================================
