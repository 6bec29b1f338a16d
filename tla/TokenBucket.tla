---------------------------- MODULE TokenBucket ----------------------------
(***************************************************************************)
(* The token bucket of ratelimit/rate_limiter.py, with its two back ends.  *)
(*                                                                         *)
(*   RedisTokenBucket      two keys and a Lua script; each worker process  *)
(*                         reads its clock first and sends the value       *)
(*   InMemoryTokenBucket   two attributes, read and written under a lock   *)
(*                         together with the clock; a worker is a coroutine *)
(*                                                                         *)
(* Time and tokens are counted in the same unit: the bucket earns one unit *)
(* per unit of time, and a token is worth PerToken of them, which is what  *)
(* refill_per_hour / 3600 tokens per second comes to.  The rounding of     *)
(* floating-point numbers is left out.                                     *)
(***************************************************************************)
EXTENDS Quota

CONSTANTS
  Workers,     \* the coroutines that share an in-memory bucket
  RedisUsers,  \* those with a process of their own, which can share one in Redis
  Timeouts,    \* values of the timeout parameter of acquire
  MaxClock     \* bound: the clock stops here

ASSUME BucketAssumption ==
  /\ MaxClock \in Nat /\ Timeouts \subseteq Nat
  /\ RedisUsers \subseteq Workers

VARIABLES
  redis,    \* TRUE: a RedisTokenBucket, FALSE: an InMemoryTokenBucket
  clock,    \* time.time()
  tokens,   \* <prefix>:tokens or _tokens, None when the key does not exist
  stamp,    \* <prefix>:last_refill or _last_refill
  worker,   \* worker -> its call of acquire or peek_tokens
  since,    \* when the observer opened the window, None before
  spent     \* units granted to calls that read the clock since then

vars == <<redis, clock, tokens, stamp, worker, since, spent>>

-----------------------------------------------------------------------------

\* waiting: at the head of the loop of acquire; sampled: the clock is read and
\* the script is on its way; peeking, owing: the same and the put-back of
\* peek_tokens.
Phases == {"idle", "waiting", "sampled", "peeking", "owing"}

Calls == [phase: Phases, now: Nat \cup {None}, block: BOOLEAN,
          deadline: Nat \cup {None}]

Idle == [phase |-> "idle", now |-> None, block |-> FALSE, deadline |-> None]

Smaller(a, b) == IF a <= b THEN a ELSE b

Init ==
  /\ redis \in BOOLEAN
  /\ clock = 0
  /\ tokens = (IF redis THEN None ELSE Full)
  /\ stamp = (IF redis THEN None ELSE 0)
  /\ worker = [w \in Workers |-> Idle]
  /\ since = None /\ spent = 0

\* Faulty variant: what was earned is not capped.
RefilledUncapped(now) ==
  LET level == IF tokens = None THEN Full ELSE tokens
      last  == IF stamp = None THEN now ELSE stamp
  IN level + (IF now > last THEN now - last ELSE 0)

\* The tokens after the refill at time now; a missing key counts as full.
Refilled(now) ==
  LET level == IF tokens = None THEN Full ELSE tokens
      last  == IF stamp = None THEN now ELSE stamp
  IN Smaller(Full, level + (IF now > last THEN now - last ELSE 0))

\* Faulty variant: the time of the refill is recorded only when there is none.
StampedOnce(now) == IF stamp = None THEN now ELSE stamp

\* last_refill after the call.  The script always writes the time it was sent;
\* _refill returns without writing when no time has passed.
Stamped(now) == IF redis \/ now > stamp THEN now ELSE stamp

Goes(w, phase) == worker' = [worker EXCEPT ![w] = [@ EXCEPT !.phase = phase]]

Returns(w) == worker' = [worker EXCEPT ![w] = Idle]

-----------------------------------------------------------------------------
(* acquire *)

Free(w) == worker[w].phase = "idle" /\ (redis => w \in RedisUsers)

Acquire(w, block, timeout) ==
  /\ Free(w)
  /\ worker' = [worker EXCEPT ![w] =
       [phase |-> "waiting", now |-> None, block |-> block,
        deadline |-> IF timeout = None THEN None ELSE clock + timeout]]
  /\ UNCHANGED <<clock, tokens, stamp, since, spent>>

\* _run_script reads the clock of its process and sends the script.
Sample(w) ==
  /\ redis /\ worker[w].phase = "waiting"
  /\ worker' = [worker EXCEPT ![w] = [@ EXCEPT !.phase = "sampled", !.now = clock]]
  /\ UNCHANGED <<clock, tokens, stamp, since, spent>>

\* The time the call that is about to run has read.
Ready(w) ==
  IF redis THEN worker[w].phase = "sampled" ELSE worker[w].phase = "waiting"

Now(w) == IF redis THEN worker[w].now ELSE clock

\* A token is there.  The observer counts calls that read the clock in the
\* window.
Granted(w) ==
  /\ Ready(w)
  /\ Refilled(Now(w)) >= PerToken
  /\ tokens' = Refilled(Now(w)) - PerToken
  /\ stamp' = Stamped(Now(w))
  /\ spent' = IF since # None /\ Now(w) >= since THEN spent + PerToken ELSE spent
  /\ Returns(w)
  /\ UNCHANGED <<clock, since>>

\* Not a caller that waits, or one whose deadline has passed.
GivesUp(w) ==
  \/ ~worker[w].block
  \/ worker[w].deadline # None /\ clock >= worker[w].deadline

\* No token: RateLimitError for who gives up; the others sleep, at most until
\* the next token is due, and try again.
Refused(w) ==
  /\ Ready(w)
  /\ Refilled(Now(w)) < PerToken
  /\ tokens' = Refilled(Now(w))
  /\ stamp' = Stamped(Now(w))
  /\ IF GivesUp(w) THEN Returns(w) ELSE Goes(w, "waiting")
  /\ UNCHANGED <<clock, since, spent>>

\* Redis cannot be reached, or its answer does not arrive: acquire raises
\* RateLimitError, peek_tokens the error, and in the second case the script has
\* run all the same.
RedisFails(w) ==
  /\ redis /\ worker[w].phase \in {"sampled", "peeking"}
  /\ \/ UNCHANGED <<tokens, stamp>>
     \/ /\ tokens' = Refilled(Now(w)) -
                       (IF Refilled(Now(w)) >= PerToken THEN PerToken ELSE 0)
        /\ stamp' = Stamped(Now(w))
  /\ Returns(w)
  /\ UNCHANGED <<clock, since, spent>>

-----------------------------------------------------------------------------
(* peek_tokens *)

Peek(w) ==
  /\ Free(w)
  /\ \/ /\ redis
        /\ worker' = [worker EXCEPT ![w] = [Idle EXCEPT !.phase = "peeking", !.now = clock]]
        /\ UNCHANGED <<tokens, stamp>>
     \/ /\ ~redis
        /\ tokens' = Refilled(clock) /\ stamp' = Stamped(clock)
        /\ UNCHANGED worker
  /\ UNCHANGED <<clock, since, spent>>

\* The script takes a token if there is one, for peek_tokens to put back.
PeekScript(w) ==
  /\ worker[w].phase = "peeking"
  /\ stamp' = Stamped(worker[w].now)
  /\ LET level == Refilled(worker[w].now) IN
       \/ level >= PerToken /\ tokens' = level - PerToken /\ Goes(w, "owing")
       \/ level < PerToken /\ tokens' = level /\ Returns(w)
  /\ UNCHANGED <<clock, since, spent>>

\* When the put-back fails the token is lost.
PutBack(w) ==
  /\ worker[w].phase = "owing"
  /\ tokens' = tokens + PerToken \/ UNCHANGED tokens
  /\ Returns(w)
  /\ UNCHANGED <<clock, stamp, since, spent>>

-----------------------------------------------------------------------------

Tick ==
  /\ clock < MaxClock
  /\ clock' = clock + 1
  /\ UNCHANGED <<tokens, stamp, worker, since, spent>>

\* The observer starts counting, at any time.
OpenWindow ==
  /\ since = None
  /\ since' = clock
  /\ UNCHANGED <<clock, tokens, stamp, worker, spent>>

Work(w) ==
  \/ \E block \in BOOLEAN, timeout \in Timeouts \cup {None} : Acquire(w, block, timeout)
  \/ Sample(w)
  \/ Granted(w)
  \/ Refused(w)
  \/ RedisFails(w)
  \/ Peek(w)
  \/ PeekScript(w)
  \/ PutBack(w)

\* A bucket keeps its back end.
Next ==
  /\ UNCHANGED redis
  /\ Tick \/ OpenWindow \/ \E w \in Workers : Work(w)

Spec == Init /\ [][Next]_vars

-----------------------------------------------------------------------------
(* Properties *)

\* With one process at the keys, or one lock, the bucket holds between nothing
\* and its capacity, also while peek_tokens has a token out.
TypeOK ==
  /\ redis \in BOOLEAN
  /\ clock \in 0..MaxClock
  /\ tokens \in 0..Full \cup {None}
  /\ stamp \in 0..MaxClock \cup {None}
  /\ worker \in [Workers -> Calls]
  /\ since \in 0..MaxClock \cup {None}
  /\ spent \in Nat

\* The quota: in any stretch of time no more is granted than a full bucket and
\* what is earned meanwhile.
WithinQuota == since # None => spent <= Full + (clock - since)

=============================================================================
