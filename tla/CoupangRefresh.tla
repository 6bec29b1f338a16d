--------------------------- MODULE CoupangRefresh ---------------------------
(***************************************************************************)
(* The Coupang collector of the scheduler process.                         *)
(*                                                                         *)
(*   scheduler/jobs/collect_coupang.py   the job                           *)
(*   cache/api_cache.py                  ApiCacheStore, rows with a TTL    *)
(*   ratelimit/rate_limiter.py           build_coupang_bucket              *)
(*   scheduler/registry.py, runner.py    every 10 minutes, one instance,   *)
(*                                       one attempt                       *)
(*                                                                         *)
(* The job is the only caller of the bucket and reads the clock in order,  *)
(* so the level of TokenBucket is followed here as time passes.  Times are *)
(* counted down: what is left of an entry, of the wait for the next run.   *)
(***************************************************************************)
EXTENDS Quota, Sequences

CONSTANTS
  Terms,         \* keywords.term
  TopLists,      \* the lists of keywords, best score first, a run may find
  Ttl,           \* CACHE_TTL_SECONDS
  Interval,      \* time units between two runs
  MaxOutages,    \* bound: times Redis becomes unreachable
  MaxCrashes,    \* bound: restarts of the scheduler
  MaxDbErrors,   \* bound: statements the database refuses
  MaxRefusals,   \* bound: requests Coupang does not answer
  MaxAge         \* bound: length of the window watched, 0 for no window

ASSUME RefreshAssumption ==
  /\ Ttl \in Nat \ {0} /\ Interval \in Nat \ {0}
  /\ TopLists \subseteq Seq(Terms)
  /\ MaxAge \in Nat

VARIABLES
  level,     \* the bucket kept in Redis, refilled to the present
  redisUp,   \* whether Redis answers
  run,       \* the run of the job
  wait,      \* time until the trigger fires
  cache,     \* term -> time until expires_at, 0 when missing or expired
  paid,      \* term -> time left of the TTL of its last answer from Coupang
  window,    \* time since the observer opened the window, None when closed
  calls,     \* requests sent to Coupang in the window
  repeats,   \* requests sent for a term whose last answer was younger than the TTL
  outages, crashes, dbErrors, refusals

environment == <<outages, crashes, dbErrors, refusals>>
refreshVars == <<level, redisUp, run, wait, cache, paid, window, calls, repeats, environment>>

-----------------------------------------------------------------------------

\* own is the level of the in-memory bucket a run creates for itself when
\* Redis does not answer the ping, None when the run uses Redis; late says that
\* time has passed since the request on its way was sent.
Runs == [phase: {"idle", "looking", "fetching"}, todo: Seq(Terms),
         own: 0..Full \cup {None}, late: BOOLEAN]

NoRun == [phase |-> "idle", todo |-> <<>>, own |-> None, late |-> FALSE]

RefreshInit ==
  /\ level = Full /\ redisUp = TRUE
  /\ run = NoRun /\ wait = Interval
  /\ cache = [t \in Terms |-> 0]
  /\ paid = [t \in Terms |-> 0]
  /\ window = None /\ calls = 0 /\ repeats = 0
  /\ outages = 0 /\ crashes = 0 /\ dbErrors = 0 /\ refusals = 0

\* A new bucket per run: Redis if it answers, a full one in memory otherwise.
Start ==
  /\ wait = 0 /\ run.phase = "idle"
  /\ wait' = Interval
  /\ \E list \in TopLists :
       run' = [phase |-> "looking", todo |-> list,
               own |-> IF redisUp THEN None ELSE Full, late |-> FALSE]
  /\ UNCHANGED <<level, redisUp, cache, paid, window, calls, repeats, environment>>

\* max_instances=1: a trigger that fires while the job is running is skipped.
Skip ==
  /\ wait = 0 /\ run.phase # "idle"
  /\ wait' = Interval
  /\ UNCHANGED <<level, redisUp, run, cache, paid, window, calls, repeats, environment>>

-----------------------------------------------------------------------------
(* The loop over the terms *)

Looking == run.phase = "looking"
Term == Head(run.todo)

\* Whether acquire(block=False) finds a token; an outage counts as empty.
TokenThere ==
  IF run.own # None THEN run.own >= PerToken ELSE redisUp /\ level >= PerToken

\* Faulty variant: the token is taken before the cache is looked at.
HitAfterToken(t) ==
  /\ cache[t] > 0
  /\ run' = IF TokenThere THEN [run EXCEPT !.todo = Tail(@)] ELSE NoRun
  /\ level' = IF TokenThere /\ run.own = None THEN level - PerToken ELSE level
  /\ UNCHANGED <<redisUp, wait, cache, paid, window, calls, repeats, environment>>

\* An entry that has not expired: no token, no request.
Hit(t) ==
  /\ cache[t] > 0
  /\ run' = [run EXCEPT !.todo = Tail(@)]
  /\ UNCHANGED <<level, redisUp, wait, cache, paid, window, calls, repeats, environment>>

\* Faulty variant: the script answers that there is a token and leaves it.
RequestWithoutTaking(t) ==
  /\ cache[t] = 0 /\ TokenThere
  /\ run' = [run EXCEPT !.phase = "fetching", !.late = FALSE]
  /\ calls' = IF window # None THEN calls + 1 ELSE calls
  /\ repeats' = IF paid[t] > 0 THEN repeats + 1 ELSE repeats
  /\ UNCHANGED <<level, redisUp, wait, cache, paid, window, environment>>

\* A token is taken and the request is sent.
Request(t) ==
  /\ cache[t] = 0 /\ TokenThere
  /\ run' = [run EXCEPT !.phase = "fetching", !.late = FALSE,
                        !.own = IF @ # None THEN @ - PerToken ELSE @]
  /\ level' = IF run.own # None THEN level ELSE level - PerToken
  /\ calls' = IF window # None THEN calls + 1 ELSE calls
  /\ repeats' = IF paid[t] > 0 THEN repeats + 1 ELSE repeats
  /\ UNCHANGED <<redisUp, wait, cache, paid, window, environment>>

\* RateLimitError: the run ends here.
OutOfTokens(t) ==
  /\ cache[t] = 0 /\ ~TokenThere
  /\ run' = NoRun
  /\ UNCHANGED <<level, redisUp, wait, cache, paid, window, calls, repeats, environment>>

Look ==
  /\ Looking
  /\ \/ /\ run.todo = <<>> /\ run' = NoRun
        /\ UNCHANGED <<level, redisUp, wait, cache, paid, window, calls, repeats, environment>>
     \/ run.todo # <<>> /\ (Hit(Term) \/ Request(Term) \/ OutOfTokens(Term))

\* Faulty variant: the answer is used and not stored.
AnsweredUnstored(t) ==
  /\ run.phase = "fetching" /\ Term = t
  /\ paid' = [paid EXCEPT ![t] = Ttl]
  /\ run' = [run EXCEPT !.phase = "looking", !.todo = Tail(@)]
  /\ UNCHANGED <<level, redisUp, wait, cache, window, calls, repeats, environment>>

\* The answer arrives and is stored for Ttl from now on.
Answered(t) ==
  /\ run.phase = "fetching" /\ Term = t
  /\ paid' = [paid EXCEPT ![t] = Ttl]
  /\ cache' = [cache EXCEPT ![t] = Ttl]
  /\ run' = [run EXCEPT !.phase = "looking", !.todo = Tail(@)]
  /\ UNCHANGED <<level, redisUp, wait, window, calls, repeats, environment>>

\* The request fails: the token is spent, the next term is looked at.
FetchFails ==
  /\ run.phase = "fetching" /\ refusals < MaxRefusals
  /\ refusals' = refusals + 1
  /\ run' = [run EXCEPT !.phase = "looking", !.todo = Tail(@)]
  /\ UNCHANGED <<level, redisUp, wait, cache, paid, window, calls, repeats,
                 outages, crashes, dbErrors>>

\* The database refuses the SELECT or the UPSERT: the job raises, and has one
\* attempt only.
DbFails ==
  /\ dbErrors < MaxDbErrors
  /\ dbErrors' = dbErrors + 1
  /\ \/ /\ Looking /\ run.todo # <<>>
        /\ UNCHANGED paid
     \/ /\ run.phase = "fetching"
        /\ paid' = [paid EXCEPT ![Term] = Ttl]
  /\ run' = NoRun
  /\ UNCHANGED <<level, redisUp, wait, cache, window, calls, repeats, outages, crashes, refusals>>

\* The scheduler restarts, and counts its interval from there.  The request on
\* its way may have been answered.
Crash ==
  /\ crashes < MaxCrashes
  /\ crashes' = crashes + 1
  /\ run' = NoRun /\ wait' = Interval
  /\ \/ run.phase = "fetching" /\ paid' = [paid EXCEPT ![Term] = Ttl]
     \/ UNCHANGED paid
  /\ UNCHANGED <<level, redisUp, cache, window, calls, repeats, outages, dbErrors, refusals>>

-----------------------------------------------------------------------------
(* Environment *)

RedisChanges ==
  /\ redisUp => outages < MaxOutages
  /\ redisUp' = ~redisUp
  /\ outages' = IF redisUp THEN outages + 1 ELSE outages
  /\ UNCHANGED <<level, run, wait, cache, paid, window, calls, repeats,
                 crashes, dbErrors, refusals>>

\* Faulty variant: tokens are earned beyond the capacity.
EarnUncapped(units) == units + 1

Earn(units) == IF units < Full THEN units + 1 ELSE Full

Less(left) == IF left > 0 THEN left - 1 ELSE 0

\* Time passes for everyone.  A trigger that is due fires first, the loop does
\* not pause between two requests, and a request ends (the client has a timeout
\* of ten seconds) within the unit after the one it was sent in.
TimePasses ==
  /\ wait > 0 /\ wait' = wait - 1
  /\ ~Looking /\ ~run.late
  /\ level' = Earn(level)
  /\ run' = [run EXCEPT !.own = IF @ # None THEN Earn(@) ELSE None,
                        !.late = run.phase = "fetching"]
  /\ cache' = [t \in Terms |-> Less(cache[t])]
  /\ paid' = [t \in Terms |-> IF paid[t] > 0 THEN paid[t] - 1 ELSE 0]
  /\ window' = IF window = None \/ window = MaxAge THEN None ELSE window + 1
  /\ calls' = IF window = MaxAge THEN 0 ELSE calls
  /\ UNCHANGED <<redisUp, repeats, environment>>

\* The observer starts counting, at any time.
Watch ==
  /\ MaxAge > 0 /\ window = None
  /\ window' = 0 /\ calls' = 0
  /\ UNCHANGED <<level, redisUp, run, wait, cache, paid, repeats, environment>>

Fetched == FetchFails \/ \E t \in Terms : Answered(t)

RefreshNext ==
  \/ Start
  \/ Skip
  \/ Look
  \/ Fetched
  \/ DbFails
  \/ Crash
  \/ RedisChanges
  \/ TimePasses
  \/ Watch

RefreshSpec == RefreshInit /\ [][RefreshNext]_refreshVars

\* The trigger fires, the loop runs, a request is answered or times out, time
\* passes.  What goes wrong is bounded by MaxOutages and its like.
FairSpec ==
  /\ RefreshSpec
  /\ WF_refreshVars(Start \/ Skip) /\ WF_refreshVars(Look)
  /\ WF_refreshVars(Fetched) /\ WF_refreshVars(TimePasses)

-----------------------------------------------------------------------------
(* Properties *)

RefreshTypeOK ==
  /\ level \in 0..Full /\ redisUp \in BOOLEAN
  /\ run.phase \in {"idle", "looking", "fetching"}
  /\ run.own \in 0..Full \cup {None} /\ run.late \in BOOLEAN
  /\ wait \in 0..Interval
  /\ cache \in [Terms -> 0..Ttl]
  /\ paid \in [Terms -> 0..Ttl]
  /\ window \in 0..MaxAge \cup {None} /\ calls \in Nat /\ repeats \in Nat

\* In any stretch of time the job sends no more requests than a full bucket and
\* what is earned meanwhile allow, however many runs fall into it, as long as Redis
\* has answered.
QuotaWhileRedisAnswers ==
  outages = 0 /\ window # None => calls * PerToken <= Full + window

\* "durable 24h cache so a process restart never replays the same query" (clients/
\* coupang_partners.py:9) is true up to the row of the answer: what was answered less than
\* a TTL ago is asked for again only because an answer was lost: a restart, a refused statement or a failed request makes the job repeat
\* one query at most, whatever else goes wrong and however many terms and runs there
\* are (the row of each answer is committed before the next term is looked at).
LossRepeatsOnce == repeats <= crashes + dbErrors + refusals

\* Every term of the list is in the cache again and again, whatever goes wrong in
\* between: the terms ahead of it that expire or fail for a while do not use up
\* its tokens for ever, although every run starts from the head of the list.
EveryTermServed == \A t \in Terms : []<>(cache[t] > 0)

=============================================================================
