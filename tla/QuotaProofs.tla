-------------------------- MODULE QuotaProofs --------------------------
(***************************************************************************)
(* Proofs about the quota of the Coupang API.                              *)
(*                                                                         *)
(*   TokenBucket      with one process at the Redis keys, or with the lock *)
(*                    of the in-memory bucket, no stretch of time sees     *)
(*                    more granted than the bucket holds and earns         *)
(*   CoupangRefresh   nor does the job that draws from it, and it does not *)
(*                    ask for what it has been told                        *)
(*                                                                         *)
(* For every capacity, rate, list of terms, TTL, interval and bound.       *)
(***************************************************************************)
EXTENDS TokenBucket, CoupangRefresh, FiniteSetTheorems, TLAPS

-----------------------------------------------------------------------------
(* The bucket *)

(* One process sends the scripts, so they run in the order of their clocks. *)
OneWriter == \A v, w \in RedisUsers : v = w

(* The keys exist together; the last refill is in the past, and in the past *)
(* of the call that is on its way.                                          *)
KeysInOrder ==
  /\ tokens = None <=> stamp = None
  /\ ~redis => tokens # None
  /\ stamp # None => stamp <= clock

CallsInOrder ==
  \A w \in Workers :
    /\ worker[w].phase \in {"sampled", "peeking"} =>
         /\ redis
         /\ worker[w].now \in 0..clock
         /\ stamp # None => stamp <= worker[w].now
    /\ worker[w].phase = "owing" =>
         redis /\ tokens # None /\ tokens + PerToken <= Full

(* What has been granted and what is still there were in the bucket when    *)
(* the window opened, or have been earned between then and the last refill. *)
Accounted ==
  /\ since = None => spent = 0
  /\ since # None =>
       /\ since <= clock
       /\ stamp = None \/ stamp < since => spent = 0
       /\ stamp # None /\ stamp >= since =>
            /\ spent + tokens <= Full + (stamp - since)
            /\ \A w \in Workers : worker[w].phase = "owing" =>
                 spent + tokens + PerToken <= Full + (stamp - since)

(* Only processes use the bucket in Redis. *)
UsersApart == \A w \in Workers : worker[w].phase # "idle" /\ redis => w \in RedisUsers

BInv == TypeOK /\ KeysInOrder /\ CallsInOrder /\ Accounted

LEMMA FullSize == Full \in Nat \ {0} /\ PerToken \in Nat \ {0} /\ PerToken <= Full
  BY QuotaAssumption, SMT DEF Full

(* A refill earns the time since the last one, up to the capacity. *)
LEMMA RefillEarns ==
  ASSUME BInv, NEW now \in 0..MaxClock, stamp # None => stamp <= now
  PROVE  /\ Refilled(now) \in 0..Full
         /\ tokens # None => Refilled(now) <= tokens + (now - stamp)
         /\ Stamped(now) = now
<1>1. tokens = None <=> stamp = None
  BY DEF BInv, KeysInOrder
<1>2. CASE tokens = None
  BY <1>1, <1>2, FullSize, BucketAssumption
     DEF Refilled, Stamped, Smaller, BInv, KeysInOrder
<1>3. CASE tokens # None
  BY <1>1, <1>3, FullSize, BucketAssumption
     DEF Refilled, Stamped, Smaller, BInv, TypeOK
<1>4. QED
  BY <1>2, <1>3

LEMMA InitBInv == Init => BInv
<1> SUFFICES ASSUME Init PROVE BInv
  OBVIOUS
<1>1. TypeOK
  BY FullSize, BucketAssumption DEF Init, TypeOK, Calls, Idle, Phases
<1>2. KeysInOrder /\ CallsInOrder /\ Accounted
  BY QuotaAssumption, FullSize, BucketAssumption
     DEF Init, KeysInOrder, CallsInOrder, Accounted, Idle
<1>3. QED
  BY <1>1, <1>2 DEF BInv

(* What a call that runs does to the rest: its worker comes to rest or waits *)
(* again, and every other worker is idle or waits for the lock.              *)
LEMMA OthersApart ==
  ASSUME OneWriter, UsersApart, NEW w \in Workers, redis => w \in RedisUsers
  PROVE  \A v \in Workers \ {w} :
           worker[v].phase \notin {"sampled", "peeking", "owing"} \/ ~redis
  BY DEF OneWriter, UsersApart

(* The account after a refill at time now of which take units are taken and *)
(* grant of them counted.                                                   *)
LEMMA Balance ==
  ASSUME BInv, redis' = redis, NEW now \in 0..clock, stamp # None => stamp <= now,
         NEW take \in {0, PerToken}, Refilled(now) >= take,
         tokens' = Refilled(now) - take, stamp' = Stamped(now),
         clock' = clock, since' = since,
         \/ spent' = spent
         \/ /\ take = PerToken
            /\ spent' = IF since # None /\ now >= since THEN spent + PerToken ELSE spent
  PROVE  /\ tokens' \in 0..Full /\ stamp' = now /\ spent' \in Nat
         /\ KeysInOrder'
         /\ since = None => spent' = 0
         /\ since # None /\ now < since => spent' = 0
         /\ since # None /\ now >= since =>
              /\ spent' + tokens' <= Full + (now - since)
              /\ spent' = spent => spent' + tokens' + take <= Full + (now - since)
<1>1. now \in 0..MaxClock /\ clock \in Nat /\ spent \in Nat /\ now \in Nat
  BY BucketAssumption DEF BInv, TypeOK
<1>2. /\ Refilled(now) \in 0..Full /\ Stamped(now) = now
      /\ tokens # None => Refilled(now) <= tokens + (now - stamp)
  BY <1>1, RefillEarns
<1>3. take \in Nat /\ take <= PerToken
  BY FullSize
<1>4. tokens' \in 0..Full /\ stamp' = now /\ spent' \in Nat
  BY <1>1, <1>2, <1>3, FullSize
<1>5. KeysInOrder'
  BY QuotaAssumption, <1>1, <1>4, FullSize, BucketAssumption DEF KeysInOrder
<1>6. since = None => spent' = 0
  BY DEF BInv, Accounted
<1>7. ASSUME since # None
      PROVE  /\ now < since => spent' = 0
             /\ now >= since =>
                  /\ spent' + tokens' <= Full + (now - since)
                  /\ spent' = spent => spent' + tokens' + take <= Full + (now - since)
  <2>1. since \in Nat /\ since <= clock
    BY <1>7, BucketAssumption DEF BInv, TypeOK, Accounted
  <2>2. CASE stamp = None \/ stamp < since
    <3>1. spent = 0
      BY <2>2, <1>7 DEF BInv, Accounted
    <3>2. now < since => spent' = 0
      BY <3>1, <2>1, <1>1
    <3>3. now >= since =>
            /\ spent' + tokens' <= Full + (now - since)
            /\ spent' = spent => spent' + tokens' + take <= Full + (now - since)
      BY <3>1, <2>1, <1>1, <1>2, <1>3, FullSize
    <3>4. QED
      BY <3>2, <3>3
  <2>3. CASE stamp # None /\ stamp >= since
    <3>1. tokens # None /\ tokens \in Nat /\ stamp \in Nat /\ stamp <= now
      BY <2>3, FullSize, BucketAssumption DEF BInv, TypeOK, KeysInOrder
    <3>2. spent + tokens <= Full + (stamp - since)
      BY <2>3, <1>7 DEF BInv, Accounted
    <3>3. spent + Refilled(now) <= Full + (now - since)
      BY <3>1, <3>2, <2>1, <1>1, <1>2, FullSize
    <3>4. now >= since
      BY <3>1, <2>1, <2>3, <1>1
    <3>5. QED
      BY <3>3, <3>4, <2>1, <1>1, <1>2, <1>3, FullSize
  <2>4. stamp = None \/ stamp < since \/ (stamp # None /\ stamp >= since)
    BY <2>1, BucketAssumption DEF BInv, TypeOK
  <2>5. QED
    BY <2>2, <2>3, <2>4
<1>8. QED
  BY <1>4, <1>5, <1>6, <1>7


-----------------------------------------------------------------------------
(* The invariant is inductive. *)

LEMMA AcquireKeeps ==
  ASSUME BInv, redis' = redis, NEW w \in Workers, NEW block \in BOOLEAN,
         NEW timeout \in Timeouts \cup {None}, Acquire(w, block, timeout)
  PROVE  BInv'
<1> DEFINE call == [phase |-> "waiting", now |-> None, block |-> block,
                    deadline |-> IF timeout = None THEN None ELSE clock + timeout]
<1>1. /\ worker' = [worker EXCEPT ![w] = call]
      /\ UNCHANGED <<clock, tokens, stamp, since, spent>>
  BY DEF Acquire
<1>2. call \in Calls /\ call.phase = "waiting"
  BY BucketAssumption DEF Calls, Phases, BInv, TypeOK
<1>3. worker'[w].phase = "waiting" /\ \A v \in Workers \ {w} : worker'[v] = worker[v]
  BY <1>1, <1>2 DEF BInv, TypeOK
<1>4. TypeOK'
  BY <1>1, <1>2 DEF BInv, TypeOK
<1>5. KeysInOrder'
  BY <1>1 DEF BInv, KeysInOrder
<1>6. CallsInOrder'
  BY <1>1, <1>3 DEF BInv, CallsInOrder, Full
<1>7. Accounted'
  BY <1>1, <1>3 DEF BInv, Accounted, Full
<1>8. QED
  BY <1>4, <1>5, <1>6, <1>7 DEF BInv

LEMMA SampleKeeps ==
  ASSUME BInv, redis' = redis, NEW w \in Workers, Sample(w)
  PROVE  BInv'
<1> DEFINE call == [worker[w] EXCEPT !.phase = "sampled", !.now = clock]
<1>1. /\ worker' = [worker EXCEPT ![w] = call] /\ redis
      /\ UNCHANGED <<clock, tokens, stamp, since, spent>>
  BY DEF Sample
<1>2. worker[w] \in Calls /\ clock \in Nat
  BY BucketAssumption DEF BInv, TypeOK
<1>3. call \in Calls /\ call.phase = "sampled" /\ call.now = clock
  BY <1>2 DEF Calls, Phases
<1>4. worker'[w] = call /\ \A v \in Workers \ {w} : worker'[v] = worker[v]
  BY <1>1 DEF BInv, TypeOK
<1>5. TypeOK'
  BY <1>1, <1>3 DEF BInv, TypeOK
<1>6. KeysInOrder'
  BY <1>1 DEF BInv, KeysInOrder
<1>7. CallsInOrder'
  BY <1>1, <1>2, <1>3, <1>4 DEF BInv, CallsInOrder, KeysInOrder, Full
<1>8. Accounted'
  BY <1>1, <1>3, <1>4 DEF BInv, Accounted, Full
<1>9. QED
  BY <1>5, <1>6, <1>7, <1>8 DEF BInv

(* A worker whose call has run, other workers as they were. *)
LEMMA CallRan ==
  ASSUME OneWriter, UsersApart, BInv, redis' = redis, NEW w \in Workers, NEW now \in 0..clock,
         NEW call \in Calls, call.phase \in {"idle", "waiting", "owing"},
         call.phase = "owing" => redis, redis => w \in RedisUsers,
         worker' = [worker EXCEPT ![w] = call],
         stamp # None => stamp <= now,
         NEW take \in {0, PerToken}, Refilled(now) >= take,
         tokens' = Refilled(now) - take, stamp' = Stamped(now),
         clock' = clock, since' = since,
         \/ spent' = spent
         \/ /\ take = PerToken /\ call.phase # "owing"
            /\ spent' = IF since # None /\ now >= since THEN spent + PerToken ELSE spent,
         call.phase = "owing" => take = PerToken /\ spent' = spent
  PROVE  BInv'
<1>1. /\ tokens' \in 0..Full /\ stamp' = now /\ spent' \in Nat
      /\ KeysInOrder'
      /\ since = None => spent' = 0
      /\ since # None /\ now < since => spent' = 0
      /\ since # None /\ now >= since =>
           /\ spent' + tokens' <= Full + (now - since)
           /\ spent' = spent => spent' + tokens' + take <= Full + (now - since)
  BY Balance
<1>2. now \in 0..MaxClock /\ clock \in Nat /\ now \in Nat
  BY BucketAssumption DEF BInv, TypeOK
<1>3. Refilled(now) \in 0..Full
  BY <1>2, RefillEarns
<1>4. worker'[w] = call /\ \A v \in Workers \ {w} : worker'[v] = worker[v]
  BY DEF BInv, TypeOK
<1>5. TypeOK'
  BY <1>1, <1>2, FullSize DEF BInv, TypeOK, Full
<1>6. \A v \in Workers \ {w} :
        worker'[v].phase \notin {"sampled", "peeking", "owing"}
  <2> SUFFICES ASSUME NEW v \in Workers \ {w}
               PROVE  worker[v].phase \notin {"sampled", "peeking", "owing"}
    BY <1>4
  <2>1. CASE redis
    BY <2>1, OthersApart
  <2>2. CASE ~redis
    BY <2>2 DEF BInv, CallsInOrder
  <2>3. QED
    BY <2>1, <2>2
<1>7. call.phase = "owing" => tokens' # None /\ tokens' + PerToken <= Full
  BY QuotaAssumption, <1>1, <1>3, FullSize, BucketAssumption
<1>8. CallsInOrder'
  BY <1>4, <1>6, <1>7 DEF CallsInOrder, Full
<1>9. Accounted'
  <2>1. since # None => since <= clock
    BY DEF BInv, Accounted
  <2>2. since # None /\ now >= since /\ call.phase = "owing" =>
          spent' + tokens' + PerToken <= Full + (now - since)
    BY <1>1
  <2>3. \A v \in Workers : worker'[v].phase = "owing" => v = w /\ call.phase = "owing"
    BY <1>4, <1>6
  <2>4. stamp' = now /\ stamp' # None
    BY QuotaAssumption, <1>1, <1>2, BucketAssumption
  <2>5. QED
    BY <1>1, <2>1, <2>2, <2>3, <2>4 DEF Accounted, Full
<1>10. QED
  BY <1>1, <1>5, <1>8, <1>9 DEF BInv

LEMMA NowInOrder ==
  ASSUME BInv, NEW w \in Workers, Ready(w)
  PROVE  /\ Now(w) \in 0..clock
         /\ stamp # None => stamp <= Now(w)
<1>1. CASE redis
  BY <1>1 DEF Ready, Now, BInv, CallsInOrder
<1>2. CASE ~redis
  BY <1>2, BucketAssumption DEF Ready, Now, BInv, KeysInOrder, TypeOK
<1>3. QED
  BY <1>1, <1>2

LEMMA IdleCall == Idle \in Calls /\ Idle.phase = "idle"
  BY DEF Idle, Calls, Phases

LEMMA GrantedKeeps ==
  ASSUME OneWriter, UsersApart, BInv, redis' = redis, NEW w \in Workers, Granted(w)
  PROVE  BInv'
<1>1. /\ Ready(w) /\ Refilled(Now(w)) >= PerToken
      /\ tokens' = Refilled(Now(w)) - PerToken /\ stamp' = Stamped(Now(w))
      /\ spent' = IF since # None /\ Now(w) >= since THEN spent + PerToken ELSE spent
      /\ worker' = [worker EXCEPT ![w] = Idle]
      /\ clock' = clock /\ since' = since
  BY DEF Granted, Returns
<1>2. Now(w) \in 0..clock /\ (stamp # None => stamp <= Now(w))
  BY <1>1, NowInOrder
<1>3. redis => w \in RedisUsers
  BY <1>1 DEF UsersApart, Ready
<1>4. QED
  BY <1>1, <1>2, <1>3, IdleCall, CallRan

LEMMA RefusedKeeps ==
  ASSUME OneWriter, UsersApart, BInv, redis' = redis, NEW w \in Workers, Refused(w)
  PROVE  BInv'
<1> DEFINE call == IF GivesUp(w) THEN Idle ELSE [worker[w] EXCEPT !.phase = "waiting"]
<1>1. /\ Ready(w)
      /\ tokens' = Refilled(Now(w)) /\ stamp' = Stamped(Now(w))
      /\ worker' = [worker EXCEPT ![w] = call]
      /\ clock' = clock /\ since' = since /\ spent' = spent
  BY DEF Refused, Returns, Goes
<1>2. /\ Now(w) \in 0..clock /\ Now(w) \in 0..MaxClock
      /\ stamp # None => stamp <= Now(w)
  BY <1>1, NowInOrder, BucketAssumption DEF BInv, TypeOK
<1>3. call \in Calls /\ call.phase \in {"idle", "waiting"}
  <2>1. worker[w] \in Calls
    BY DEF BInv, TypeOK
  <2>2. QED
    BY <2>1, IdleCall DEF Calls, Phases
<1>4. Refilled(Now(w)) \in 0..Full
  BY <1>2, RefillEarns
<1>5. /\ tokens' = Refilled(Now(w)) - 0 /\ Refilled(Now(w)) >= 0
  BY <1>1, <1>4, FullSize
<1>6. redis => w \in RedisUsers
  BY <1>1 DEF UsersApart, Ready
<1> HIDE DEF call
<1>7. QED
  BY <1>1, <1>2, <1>3, <1>5, <1>6, CallRan

LEMMA RedisFailsKeeps ==
  ASSUME OneWriter, UsersApart, BInv, redis' = redis, NEW w \in Workers, RedisFails(w)
  PROVE  BInv'
<1>1. /\ redis /\ worker[w].phase \in {"sampled", "peeking"}
      /\ worker' = [worker EXCEPT ![w] = Idle]
      /\ clock' = clock /\ since' = since /\ spent' = spent
  BY DEF RedisFails, Returns
<1>2. /\ Now(w) \in 0..clock /\ Now(w) \in 0..MaxClock
      /\ stamp # None => stamp <= Now(w)
  BY <1>1, BucketAssumption DEF Now, BInv, CallsInOrder, TypeOK
<1>3. redis => w \in RedisUsers
  BY <1>1 DEF UsersApart
<1>4. CASE UNCHANGED <<tokens, stamp>>
  <2>1. worker'[w] = Idle /\ \A v \in Workers \ {w} : worker'[v] = worker[v]
    BY <1>1 DEF BInv, TypeOK
  <2>2. TypeOK'
    BY <1>1, <1>4, IdleCall DEF BInv, TypeOK, Full
  <2>3. KeysInOrder'
    BY <1>1, <1>4 DEF BInv, KeysInOrder
  <2>4. CallsInOrder'
    BY <1>1, <1>4, <2>1, IdleCall DEF BInv, CallsInOrder, Full
  <2>5. Accounted'
    BY <1>1, <1>4, <2>1, IdleCall DEF BInv, Accounted, Full
  <2>6. QED
    BY <2>2, <2>3, <2>4, <2>5 DEF BInv
<1>5. CASE /\ tokens' = Refilled(Now(w)) -
                          (IF Refilled(Now(w)) >= PerToken THEN PerToken ELSE 0)
           /\ stamp' = Stamped(Now(w))
  <2>1. Refilled(Now(w)) \in 0..Full
    BY <1>2, RefillEarns
  <2>2. CASE Refilled(Now(w)) >= PerToken
    <3>1. tokens' = Refilled(Now(w)) - PerToken
      BY <1>5, <2>2
    <3>2. QED
      BY <1>1, <1>2, <1>5, <1>3, <2>2, <3>1, IdleCall, CallRan
  <2>3. CASE ~(Refilled(Now(w)) >= PerToken)
    <3>1. tokens' = Refilled(Now(w)) - 0 /\ Refilled(Now(w)) >= 0
      BY <1>5, <2>1, <2>3, FullSize
    <3>2. QED
      BY <1>1, <1>2, <1>5, <1>3, <3>1, IdleCall, CallRan
  <2>4. QED
    BY <2>2, <2>3
<1>6. QED
  BY <1>4, <1>5 DEF RedisFails

LEMMA PeekKeeps ==
  ASSUME BInv, redis' = redis, NEW w \in Workers, Peek(w)
  PROVE  BInv'
<1>1. clock' = clock /\ since' = since /\ spent' = spent /\ clock \in 0..clock
  BY BucketAssumption DEF Peek, BInv, TypeOK
<1>2. CASE redis
  <2> DEFINE call == [Idle EXCEPT !.phase = "peeking", !.now = clock]
  <2>1. worker' = [worker EXCEPT ![w] = call] /\ UNCHANGED <<tokens, stamp>>
    BY <1>2 DEF Peek
  <2>11. clock \in Nat
    BY BucketAssumption DEF BInv, TypeOK
  <2>2. call \in Calls /\ call.phase = "peeking" /\ call.now = clock
    BY <2>11, IdleCall DEF Calls, Phases
  <2>3. worker'[w] = call /\ \A v \in Workers \ {w} : worker'[v] = worker[v]
    BY <2>1 DEF BInv, TypeOK
  <2>4. TypeOK'
    BY <1>1, <2>1, <2>2 DEF BInv, TypeOK, Full
  <2>5. KeysInOrder'
    BY <1>1, <2>1 DEF BInv, KeysInOrder
  <2>6. CallsInOrder'
    BY <1>1, <1>2, <2>1, <2>2, <2>3 DEF BInv, CallsInOrder, KeysInOrder, Full
  <2>7. Accounted'
    BY <1>1, <2>1, <2>2, <2>3 DEF BInv, Accounted, Full
  <2>8. QED
    BY <2>4, <2>5, <2>6, <2>7 DEF BInv
<1>3. CASE ~redis
  <2>1. tokens' = Refilled(clock) /\ stamp' = Stamped(clock) /\ worker' = worker
    BY <1>3 DEF Peek
  <2>2. clock \in 0..MaxClock /\ (stamp # None => stamp <= clock)
    BY DEF BInv, TypeOK, KeysInOrder
  <2>3. Refilled(clock) \in 0..Full
    BY <2>2, RefillEarns
  <2>4. tokens' = Refilled(clock) - 0 /\ Refilled(clock) >= 0
    BY <2>1, <2>3, FullSize
  <2>5. /\ tokens' \in 0..Full /\ stamp' = clock /\ KeysInOrder'
        /\ since # None /\ clock < since => spent' = 0
        /\ since # None /\ clock >= since => spent' + tokens' <= Full + (clock - since)
    BY <1>1, <2>1, <2>2, <2>4, Balance
  <2>6. TypeOK'
    BY <1>1, <2>1, <2>2, <2>5 DEF BInv, TypeOK, Full
  <2>7. \A v \in Workers : worker'[v].phase \notin {"sampled", "peeking", "owing"}
    BY <1>3, <2>1 DEF BInv, CallsInOrder
  <2>8. CallsInOrder'
    BY <2>7 DEF CallsInOrder
  <2>12. stamp' # None /\ stamp' = clock /\ clock \in Nat
    BY QuotaAssumption, <2>2, <2>5, BucketAssumption
  <2>13. /\ since = None => spent = 0
         /\ since # None => since <= clock /\ since \in Nat
    BY BucketAssumption DEF BInv, Accounted, TypeOK
  <2>9. Accounted'
    BY <1>1, <2>5, <2>7, <2>12, <2>13 DEF Accounted, Full
  <2>10. QED
    BY <2>5, <2>6, <2>8, <2>9 DEF BInv
<1>4. QED
  BY <1>2, <1>3

LEMMA PeekScriptKeeps ==
  ASSUME OneWriter, UsersApart, BInv, redis' = redis, NEW w \in Workers, PeekScript(w)
  PROVE  BInv'
<1> DEFINE now == worker[w].now
<1>1. /\ worker[w].phase = "peeking" /\ stamp' = Stamped(now)
      /\ clock' = clock /\ since' = since /\ spent' = spent
  BY DEF PeekScript
<1>2. /\ redis /\ now \in 0..clock /\ now \in 0..MaxClock
      /\ stamp # None => stamp <= now
  BY <1>1, BucketAssumption DEF BInv, CallsInOrder, TypeOK
<1>3. redis => w \in RedisUsers
  BY <1>1 DEF UsersApart
<1>4. Refilled(now) \in 0..Full
  BY <1>2, RefillEarns
<1>5. CASE Refilled(now) >= PerToken
  <2> DEFINE call == [worker[w] EXCEPT !.phase = "owing"]
  <2>1. tokens' = Refilled(now) - PerToken /\ worker' = [worker EXCEPT ![w] = call]
    BY <1>4, <1>5, FullSize DEF PeekScript, Goes
  <2>2. call \in Calls /\ call.phase = "owing"
    <3>1. worker[w] \in Calls
      BY DEF BInv, TypeOK
    <3>2. QED
      BY <3>1 DEF Calls, Phases
  <2> HIDE DEF call
  <2>3. QED
    BY <1>1, <1>2, <1>5, <1>3, <2>1, <2>2, CallRan
<1>6. CASE ~(Refilled(now) >= PerToken)
  <2>1. tokens' = Refilled(now) - 0 /\ Refilled(now) >= 0
        /\ worker' = [worker EXCEPT ![w] = Idle]
    BY <1>4, <1>6, FullSize DEF PeekScript, Returns
  <2>2. QED
    BY <1>1, <1>2, <1>3, <2>1, IdleCall, CallRan
<1>7. QED
  BY <1>5, <1>6

LEMMA PutBackKeeps ==
  ASSUME OneWriter, UsersApart, BInv, redis' = redis, NEW w \in Workers, PutBack(w)
  PROVE  BInv'
<1>1. /\ worker[w].phase = "owing"
      /\ tokens' = tokens + PerToken \/ tokens' = tokens
      /\ worker' = [worker EXCEPT ![w] = Idle]
      /\ UNCHANGED <<clock, stamp, since, spent>>
  BY DEF PutBack, Returns
<1>2. redis /\ tokens # None /\ tokens + PerToken <= Full /\ tokens \in Nat
  BY <1>1, FullSize DEF BInv, CallsInOrder, TypeOK
<1>3. worker'[w] = Idle /\ \A v \in Workers \ {w} : worker'[v] = worker[v]
  BY <1>1 DEF BInv, TypeOK
<1>4. \A v \in Workers : worker'[v].phase \notin {"sampled", "peeking", "owing"}
  <2>1. w \in RedisUsers
    BY <1>1, <1>2 DEF UsersApart
  <2>2. QED
    BY <1>2, <1>3, <2>1, OthersApart, IdleCall
<1>5. tokens' \in 0..Full /\ tokens' # None
  BY QuotaAssumption, <1>1, <1>2, FullSize, BucketAssumption
<1>6. TypeOK'
  BY <1>1, <1>5, IdleCall DEF BInv, TypeOK, Full
<1>7. KeysInOrder'
  BY <1>1, <1>2, <1>5 DEF BInv, KeysInOrder
<1>8. CallsInOrder'
  BY <1>4 DEF CallsInOrder
<1>9. Accounted'
  <2>1. since # None /\ stamp # None /\ stamp >= since =>
          spent + tokens + PerToken <= Full + (stamp - since)
    BY <1>1 DEF BInv, Accounted
  <2>2. since # None /\ stamp # None /\ stamp >= since =>
          spent + (tokens + PerToken) <= Full + (stamp - since)
    BY <2>1, <1>2, FullSize, BucketAssumption DEF BInv, TypeOK
  <2>3. since # None /\ stamp # None /\ stamp >= since =>
          spent + tokens' <= Full + (stamp - since)
    BY <1>1, <1>2, <2>2 DEF BInv, Accounted
  <2>4. QED
    BY <1>1, <1>4, <2>3 DEF BInv, Accounted, Full
<1>10. QED
  BY <1>6, <1>7, <1>8, <1>9 DEF BInv

LEMMA TickKeeps ==
  ASSUME BInv, redis' = redis, Tick
  PROVE  BInv'
<1>1. /\ clock < MaxClock /\ clock' = clock + 1 /\ clock \in Nat
      /\ UNCHANGED <<tokens, stamp, worker, since, spent>>
  BY BucketAssumption DEF Tick, BInv, TypeOK
<1>2. TypeOK'
  BY <1>1, BucketAssumption DEF BInv, TypeOK, Full
<1>3. KeysInOrder'
  BY <1>1, BucketAssumption DEF BInv, KeysInOrder, TypeOK
<1>4. CallsInOrder'
  BY <1>1 DEF BInv, CallsInOrder, Full
<1>5. Accounted'
  BY <1>1, BucketAssumption DEF BInv, Accounted, Full, TypeOK
<1>6. QED
  BY <1>2, <1>3, <1>4, <1>5 DEF BInv

LEMMA OpenWindowKeeps ==
  ASSUME BInv, redis' = redis, OpenWindow
  PROVE  BInv'
<1>1. /\ since = None /\ since' = clock /\ clock \in 0..MaxClock /\ clock \in Nat
      /\ UNCHANGED <<clock, tokens, stamp, worker, spent>>
  BY BucketAssumption DEF OpenWindow, BInv, TypeOK
<1>2. spent = 0 /\ since' # None
  BY QuotaAssumption, <1>1, BucketAssumption DEF BInv, Accounted
<1>3. TypeOK' /\ KeysInOrder'
  BY <1>1 DEF BInv, TypeOK, KeysInOrder, Full
<1>4. CallsInOrder'
  BY <1>1 DEF BInv, CallsInOrder, Full
<1>5. stamp # None /\ stamp >= clock => stamp = clock /\ tokens # None /\ tokens \in 0..Full
  BY <1>1, BucketAssumption DEF BInv, KeysInOrder, TypeOK
<1>6. Accounted'
  <2>1. stamp # None /\ stamp >= clock =>
          /\ spent + tokens <= Full + (stamp - clock)
          /\ \A w \in Workers : worker[w].phase = "owing" =>
               spent + tokens + PerToken <= Full + (stamp - clock)
    BY <1>1, <1>2, <1>5, FullSize DEF BInv, CallsInOrder
  <2>2. QED
    BY <1>1, <1>2, <2>1 DEF Accounted, Full
<1>7. QED
  BY <1>3, <1>4, <1>6 DEF BInv

LEMMA UsersStayApart ==
  ASSUME TypeOK, UsersApart, [Next]_vars
  PROVE  UsersApart'
<1>1. CASE UNCHANGED vars
  BY <1>1 DEF vars, UsersApart
<1>2. redis' = redis
  BY DEF Next, vars
<1>3. CASE Tick \/ OpenWindow
  BY <1>2, <1>3 DEF Tick, OpenWindow, UsersApart
<1>4. ASSUME NEW w \in Workers, Work(w)
      PROVE  UsersApart'
  <2>1. \A v \in Workers \ {w} : worker'[v] = worker[v]
    BY <1>4 DEF TypeOK, Work, Acquire, Sample, Granted, Refused, RedisFails,
                Peek, PeekScript, PutBack, Returns, Goes
  <2>2. CASE Free(w)
    BY <1>2, <2>1, <2>2 DEF Free, UsersApart
  <2>3. CASE worker[w].phase # "idle"
    BY <1>2, <2>1, <2>3 DEF UsersApart
  <2>4. worker[w].phase # "idle" \/ Free(w)
    BY <1>4 DEF Work, Acquire, Sample, Granted, Refused, RedisFails, Peek,
                PeekScript, PutBack, Ready
  <2>5. QED
    BY <2>2, <2>3, <2>4
<1>5. QED
  BY <1>1, <1>3, <1>4 DEF Next

LEMMA BInvStep ==
  ASSUME OneWriter, UsersApart, BInv, [Next]_vars
  PROVE  BInv'
<1>1. CASE UNCHANGED vars
  BY <1>1 DEF vars, BInv, TypeOK, KeysInOrder, CallsInOrder, Accounted, Full
<1>2. redis' = redis
  BY DEF Next, vars
<1>3. CASE \E w \in Workers : Work(w)
  BY <1>2, <1>3, AcquireKeeps, SampleKeeps, GrantedKeeps, RefusedKeeps,
     RedisFailsKeeps, PeekKeeps, PeekScriptKeeps, PutBackKeeps DEF Work
<1>4. QED
  BY <1>1, <1>2, <1>3, TickKeeps, OpenWindowKeeps DEF Next

LEMMA BInvAlways ==
  ASSUME OneWriter
  PROVE  Spec => []BInv
<1>1. Init => UsersApart
  BY DEF Init, UsersApart, Idle
<1>2. BInv /\ UsersApart /\ [Next]_vars => BInv' /\ UsersApart'
  <2> SUFFICES ASSUME BInv, UsersApart, [Next]_vars
               PROVE  BInv' /\ UsersApart'
    OBVIOUS
  <2>1. TypeOK
    BY DEF BInv
  <2>2. QED
    BY <2>1, BInvStep, UsersStayApart
<1>3. QED
  BY <1>1, <1>2, InitBInv, PTL DEF Spec

(* The bucket never holds more than its capacity, and the time of the last  *)
(* refill stays in range, with one process at the keys or with the lock.    *)
THEOREM BucketTyped ==
  ASSUME OneWriter
  PROVE  Spec => []TypeOK
<1>1. BInv => TypeOK
  BY DEF BInv
<1>2. QED
  BY <1>1, BInvAlways, PTL

(* In any stretch of time no more is granted than a full bucket and what is *)
(* earned meanwhile, whatever Redis and the other calls do.                 *)
THEOREM QuotaKept ==
  ASSUME OneWriter
  PROVE  Spec => []WithinQuota
<1>1. BInv => WithinQuota
  BY FullSize, BucketAssumption
     DEF BInv, TypeOK, KeysInOrder, Accounted, WithinQuota
<1>2. QED
  BY <1>1, BInvAlways, PTL

-----------------------------------------------------------------------------
(* The job that draws from the bucket *)

\* A request on its way is for the first term of a list that is not empty.
RunShape ==
  /\ run \in Runs
  /\ run.phase = "fetching" => run.todo # <<>>

Typed ==
  /\ level \in 0..Full /\ redisUp \in BOOLEAN
  /\ RunShape
  /\ wait \in 0..Interval
  /\ cache \in [Terms -> 0..Ttl]
  /\ paid \in [Terms -> 0..Ttl]
  /\ window \in 0..MaxAge \cup {None} /\ calls \in Nat
  /\ outages \in Nat /\ crashes \in Nat /\ dbErrors \in Nat /\ refusals \in Nat
  /\ repeats \in Nat

\* The account of the Redis bucket: without an outage it is the only one.
Account ==
  outages = 0 =>
    /\ redisUp = TRUE /\ run.own = None
    /\ window # None => calls * PerToken + level <= Full + window

\* The terms whose last answer outlives its entry in the cache, and that are not being
\* asked for again.
Lost == {t \in Terms : paid[t] > cache[t] /\ ~(run.phase = "fetching" /\ Term = t)}

Losses == crashes + dbErrors + refusals

\* A loss is paid for by one repeated query or is still to be paid for.
Paid ==
  /\ run.phase = "fetching" => cache[Term] = 0
  /\ IsFiniteSet(Lost)
  /\ repeats + Cardinality(Lost) <= Losses

IInv == Typed /\ Account /\ Paid

-----------------------------------------------------------------------------

LEMMA TermOfList ==
  ASSUME run \in Runs, run.todo # <<>>
  PROVE  Term \in Terms /\ Tail(run.todo) \in Seq(Terms)
  BY DEF Runs, Term

\* One more request costs one more token.
LEMMA OneMore ==
  ASSUME NEW n \in Nat
  PROVE  (n + 1) * PerToken = n * PerToken + PerToken
  BY QuotaAssumption, RefreshAssumption

\* Fewer terms are lost, with the repeated query that pays for one of them or without.
LEMMA FewerLost ==
  ASSUME Typed, Paid, UNCHANGED Losses, run'.phase = "fetching" => cache'[Term'] = 0,
         Lost' \subseteq Lost,
         repeats' = repeats \/ (repeats' = repeats + 1 /\ \E t \in Lost : t \notin Lost')
  PROVE  Paid'
<1>1. IsFiniteSet(Lost) /\ Cardinality(Lost) \in Nat /\ Losses \in Nat /\ repeats \in Nat
  BY FS_CardinalityType DEF Paid, Typed, Losses
<1>2. IsFiniteSet(Lost') /\ Cardinality(Lost') \in Nat
  BY <1>1, FS_Subset, FS_CardinalityType
<1>3. Cardinality(Lost') <= Cardinality(Lost)
  BY <1>1, FS_Subset
<1>4. ASSUME NEW t \in Lost, t \notin Lost' PROVE Cardinality(Lost') <= Cardinality(Lost) - 1
  <2>1. /\ IsFiniteSet(Lost \ {t}) /\ Cardinality(Lost \ {t}) = Cardinality(Lost) - 1
    BY <1>1, FS_RemoveElement
  <2>2. Lost' \subseteq Lost \ {t}
    BY <1>4
  <2> QED
    BY <2>1, <2>2, FS_Subset
<1>5. repeats' + Cardinality(Lost') <= repeats + Cardinality(Lost)
  BY <1>1, <1>2, <1>3, <1>4
<1> QED
  BY <1>1, <1>2, <1>5 DEF Paid

\* One more loss, of one term at most.
LEMMA OneMoreLost ==
  ASSUME Typed, Paid, Losses' = Losses + 1, run'.phase # "fetching",
         NEW t, Lost' \subseteq Lost \cup {t}, UNCHANGED repeats
  PROVE  Paid'
<1>1. IsFiniteSet(Lost) /\ Cardinality(Lost) \in Nat /\ Losses \in Nat /\ repeats \in Nat
  BY FS_CardinalityType DEF Paid, Typed, Losses
<1>2. /\ IsFiniteSet(Lost \cup {t}) /\ Cardinality(Lost \cup {t}) \in Nat
      /\ Cardinality(Lost \cup {t}) <= Cardinality(Lost) + 1
  BY <1>1, FS_AddElement, FS_CardinalityType
<1>3. /\ IsFiniteSet(Lost') /\ Cardinality(Lost') \in Nat
      /\ Cardinality(Lost') <= Cardinality(Lost \cup {t})
  BY <1>2, FS_Subset, FS_CardinalityType
<1> QED
  BY <1>1, <1>2, <1>3 DEF Paid

LEMMA InitStep == RefreshInit => IInv
<1> SUFFICES ASSUME RefreshInit PROVE IInv
  OBVIOUS
<1>1. Lost = {}
  BY DEF RefreshInit, Lost
<1>2. Paid
  BY <1>1, FS_EmptySet DEF RefreshInit, Paid, Losses, NoRun
<1> QED
  BY <1>2, FullSize, RefreshAssumption DEF RefreshInit, IInv, Typed, RunShape, Runs, NoRun, Account

\* The run moves on and no answer is lost or asked for.
LEMMA NothingAsked ==
  ASSUME IInv, run'.phase # "fetching", run.phase # "fetching",
         UNCHANGED <<paid, cache, repeats, Losses>>
  PROVE  Paid'
<1>1. Lost' \subseteq Lost
  BY DEF Lost
<1> QED
  BY <1>1, FewerLost DEF IInv

LEMMA StartStep == IInv /\ Start => IInv'
<1> SUFFICES ASSUME IInv, Start PROVE IInv'
  OBVIOUS
<1> USE DEF IInv, Start
<1>1. run' \in Runs /\ run'.phase = "looking"
  BY FullSize, RefreshAssumption DEF Typed, Runs
<1>2. Typed'
  BY <1>1, RefreshAssumption DEF Typed, RunShape, environment
<1>3. Account'
  BY <1>1 DEF Account, environment
<1>4. Paid'
  BY <1>1, NothingAsked DEF environment, Losses
<1> QED
  BY <1>2, <1>3, <1>4

\* The runs, the cache and the answers are left alone.
LEMMA SamePaid ==
  ASSUME Paid, UNCHANGED <<run, cache, paid, repeats, crashes, dbErrors, refusals>>
  PROVE  Paid'
  BY DEF Paid, Lost, Losses, Term

LEMMA SkipStep == IInv /\ Skip => IInv'
  BY SamePaid, RefreshAssumption DEF IInv, Skip, Typed, RunShape, Account, environment

\* The run ends and the rest is left alone.
LEMMA EndStep ==
  ASSUME IInv, Looking, run' = NoRun,
         UNCHANGED <<level, redisUp, wait, cache, paid, window, calls, repeats, environment>>
  PROVE  IInv'
<1>1. Paid'
  BY NothingAsked DEF Looking, NoRun, environment, Losses
<1> QED
  BY <1>1, FullSize DEF IInv, Typed, RunShape, Runs, NoRun, Account, environment

LEMMA HitStep == ASSUME IInv, Looking, run.todo # <<>>, Hit(Term) PROVE IInv'
<1> USE DEF IInv
<1>1. run' \in Runs /\ run'.phase = "looking" /\ run'.own = run.own
  BY TermOfList DEF Typed, RunShape, Hit, Looking, Runs
<1>2. Paid'
  BY <1>1, NothingAsked DEF Hit, Looking, environment, Losses
<1> QED
  BY <1>1, <1>2 DEF Hit, Typed, RunShape, Account, environment

LEMMA RequestStep == ASSUME IInv, Looking, run.todo # <<>>, Request(Term) PROVE IInv'
<1> USE DEF IInv, Request
<1>1. Term \in Terms /\ run \in Runs
  BY TermOfList DEF Typed, RunShape
<1>2. /\ run' \in Runs /\ run'.phase = "fetching" /\ run'.todo = run.todo
      /\ run.own = None => run'.own = None
  <2>1. (IF run.own # None THEN run.own - PerToken ELSE run.own) \in 0..Full \cup {None}
    BY <1>1, FullSize, RefreshAssumption DEF Runs, TokenThere
  <2> QED
    BY <1>1, <2>1 DEF Runs
<1>3. level' \in 0..Full
  BY FullSize, RefreshAssumption DEF Typed, TokenThere
<1>4. Typed'
  BY <1>2, <1>3 DEF Typed, RunShape, environment, Looking
<1>5. Account'
  <2> SUFFICES ASSUME outages = 0 PROVE redisUp' = TRUE /\ run'.own = None
                 /\ (window' # None => calls' * PerToken + level' <= Full + window')
    BY DEF Account, environment
  <2>1. redisUp = TRUE /\ run.own = None /\ level' = level - PerToken
    BY DEF Account
  <2>2. ASSUME window # None PROVE calls' * PerToken = calls * PerToken + PerToken
    BY <2>2, OneMore DEF Typed
  <2> QED
    BY <1>2, <2>1, <2>2, RefreshAssumption, FullSize DEF Account, Typed
<1>6. Paid'
  <2>1. Term' = Term /\ cache' = cache /\ paid' = paid /\ run.phase = "looking"
    BY <1>2 DEF Term, Looking
  <2>2. Lost' \subseteq Lost /\ Term \notin Lost' /\ UNCHANGED Losses
    BY <1>2, <2>1 DEF Lost, Losses, environment
  <2>3. paid[Term] > 0 => Term \in Lost
    BY <1>1, <2>1 DEF Lost
  <2>4. repeats' = repeats \/ (repeats' = repeats + 1 /\ \E t \in Lost : t \notin Lost')
    BY <2>2, <2>3
  <2> QED
    BY <2>1, <2>2, <2>4, FewerLost
<1> QED
  BY <1>4, <1>5, <1>6

LEMMA LookStep == IInv /\ Look => IInv'
  BY HitStep, RequestStep, EndStep DEF Look, OutOfTokens

LEMMA AnsweredStep == ASSUME IInv, NEW t \in Terms, Answered(t) PROVE IInv'
<1> USE DEF IInv, Answered
<1>1. run' \in Runs /\ run'.phase = "looking" /\ run'.own = run.own
  BY TermOfList DEF Typed, RunShape, Runs
<1>2. cache' \in [Terms -> 0..Ttl] /\ paid' \in [Terms -> 0..Ttl]
  BY RefreshAssumption DEF Typed
<1>3. Typed'
  BY <1>1, <1>2 DEF Typed, RunShape, environment
<1>4. Account'
  BY <1>1 DEF Account, environment
<1>5. Paid'
  <2>1. \A u \in Terms : u \in Lost' => u \in Lost
    BY <1>1, RefreshAssumption DEF Lost, Typed
  <2> QED
    BY <1>1, <2>1, FewerLost DEF Lost, Losses, environment
<1> QED
  BY <1>3, <1>4, <1>5

LEMMA FetchFailsStep == IInv /\ FetchFails => IInv'
<1> SUFFICES ASSUME IInv, FetchFails PROVE IInv'
  OBVIOUS
<1> USE DEF IInv, FetchFails
<1>1. run' \in Runs /\ run'.phase = "looking" /\ run'.own = run.own
  BY TermOfList DEF Typed, RunShape, Runs
<1>2. Lost' \subseteq Lost \cup {Term} /\ Losses' = Losses + 1
  BY DEF Lost, Losses, Typed
<1>3. Paid'
  BY <1>1, <1>2, OneMoreLost
<1> QED
  BY <1>1, <1>3 DEF Typed, RunShape, Account

\* A statement is refused or the scheduler restarts: one answer may be lost, the account
\* goes on.
LEMMA LossStep ==
  ASSUME IInv, run' = NoRun, wait' \in 0..Interval,
         \/ run.phase = "fetching" /\ paid' = [paid EXCEPT ![Term] = Ttl]
         \/ UNCHANGED paid,
         UNCHANGED <<level, redisUp, cache, window, calls, repeats, outages, refusals>>,
         crashes' \in Nat, dbErrors' \in Nat, Losses' = Losses + 1
  PROVE  IInv'
<1> USE DEF IInv
<1>1. paid' \in [Terms -> 0..Ttl]
  BY RefreshAssumption, TermOfList DEF Typed, RunShape
<1>2. run' \in Runs /\ run'.phase = "idle" /\ run'.own = None
  BY FullSize DEF NoRun, Runs
<1>3. Typed'
  BY <1>1, <1>2 DEF Typed, RunShape
<1>4. Lost' \subseteq Lost \cup {Term}
  BY DEF Lost, Typed
<1>5. Paid'
  BY <1>2, <1>4, OneMoreLost
<1> QED
  BY <1>2, <1>3, <1>5 DEF Account

LEMMA DbFailsStep == IInv /\ DbFails => IInv'
<1> SUFFICES ASSUME IInv, DbFails PROVE IInv'
  OBVIOUS
<1>1. /\ dbErrors' \in Nat /\ crashes' \in Nat /\ wait' \in 0..Interval
      /\ Losses' = Losses + 1
  BY DEF IInv, Typed, DbFails, Losses
<1> QED
  BY <1>1, LossStep DEF DbFails

LEMMA CrashStep == IInv /\ Crash => IInv'
<1> SUFFICES ASSUME IInv, Crash PROVE IInv'
  OBVIOUS
<1>1. /\ crashes' \in Nat /\ dbErrors' \in Nat /\ wait' \in 0..Interval
      /\ Losses' = Losses + 1
  BY RefreshAssumption DEF IInv, Typed, Crash, Losses
<1> QED
  BY <1>1, LossStep DEF Crash

LEMMA RedisChangesStep == IInv /\ RedisChanges => IInv'
  BY SamePaid DEF IInv, RedisChanges, Typed, RunShape, Account

LEMMA TickStep == IInv /\ TimePasses => IInv'
<1> SUFFICES ASSUME IInv, TimePasses PROVE IInv'
  OBVIOUS
<1> USE DEF IInv, TimePasses
<1>1. \A units \in 0..Full : Earn(units) \in 0..Full /\ Earn(units) <= units + 1
  BY FullSize DEF Earn
<1>2. /\ run' \in Runs /\ run'.phase = run.phase /\ run'.todo = run.todo
      /\ run.own = None => run'.own = None
  BY <1>1, RefreshAssumption DEF Typed, RunShape, Runs
<1>3. cache' \in [Terms -> 0..Ttl] /\ paid' \in [Terms -> 0..Ttl]
  BY RefreshAssumption DEF Typed, Less
<1>4. window' \in 0..MaxAge \cup {None} /\ calls' \in Nat
  BY RefreshAssumption DEF Typed
<1>5. Typed'
  BY <1>1, <1>2, <1>3, <1>4, RefreshAssumption DEF Typed, RunShape, environment
<1>6. Account'
  <2> SUFFICES ASSUME outages = 0 PROVE redisUp' = TRUE /\ run'.own = None
                 /\ (window' # None => calls' * PerToken + level' <= Full + window')
    BY DEF Account, environment
  <2>1. redisUp' = TRUE /\ run'.own = None
    BY <1>2 DEF Account
  <2>2. ASSUME window' # None PROVE calls' * PerToken + level' <= Full + window'
    <3>1. window # None /\ window' = window + 1 /\ calls' = calls /\ window \in Nat
      BY <2>2, RefreshAssumption DEF Typed
    <3>2. level' <= level + 1 /\ level \in Nat /\ level' \in Nat
      BY <1>1, FullSize DEF Typed
    <3>3. calls * PerToken \in Nat
      BY QuotaAssumption, RefreshAssumption DEF Typed
    <3> QED
      BY <3>1, <3>2, <3>3, FullSize DEF Account
  <2> QED
    BY <2>1, <2>2
<1>7. Paid'
  <2>1. \A t \in Terms : paid'[t] > cache'[t] => paid[t] > cache[t]
    BY RefreshAssumption DEF Typed, Less
  <2>2. Term' = Term /\ run'.phase = run.phase
    BY <1>2 DEF Term
  <2>3. Lost' \subseteq Lost
    BY <2>1, <2>2 DEF Lost
  <2>4. ASSUME run'.phase = "fetching" PROVE cache'[Term'] = 0
    <3>1. Term' = Term /\ Term \in Terms /\ cache[Term] = 0
      BY <2>2, <2>4, TermOfList DEF Paid, Typed, RunShape
    <3> QED
      BY <3>1 DEF Less
  <2> QED
    BY <2>3, <2>4, FewerLost DEF Losses, environment
<1> QED
  BY <1>5, <1>6, <1>7

LEMMA OpenWindowStep == IInv /\ Watch => IInv'
<1> SUFFICES ASSUME IInv, Watch PROVE IInv'
  OBVIOUS
<1> USE DEF IInv, Watch
<1>1. 0 * PerToken + level <= Full + 0
  BY RefreshAssumption, FullSize DEF Typed
<1> QED
  BY <1>1, SamePaid, RefreshAssumption DEF Typed, RunShape, Account, environment

LEMMA Inductive == RefreshSpec => []IInv
<1>1. IInv /\ [RefreshNext]_refreshVars => IInv'
  <2> SUFFICES ASSUME IInv, [RefreshNext]_refreshVars PROVE IInv'
    OBVIOUS
  <2>1. CASE Fetched
    BY <2>1, FetchFailsStep, AnsweredStep DEF Fetched
  <2>2. CASE UNCHANGED refreshVars
    BY <2>2, SamePaid DEF refreshVars, environment, IInv, Typed, RunShape, Account
  <2> QED
    BY <2>1, <2>2, StartStep, SkipStep, LookStep, DbFailsStep, CrashStep, RedisChangesStep,
       TickStep, OpenWindowStep DEF RefreshNext
<1> QED
  BY InitStep, <1>1, PTL DEF RefreshSpec

-----------------------------------------------------------------------------

\* The job, its bucket and its cache stay well typed (collect_coupang.py), for any list of
\* keywords and any bounds.
THEOREM RefreshTyped == RefreshSpec => []RefreshTypeOK
<1>1. IInv => RefreshTypeOK
  BY DEF IInv, Typed, RunShape, Runs, RefreshTypeOK
<1> QED
  BY Inductive, <1>1, PTL

\* However many runs fall into a window, they share the one bucket as long as Redis answers
\* (rate_limiter.py build_coupang_bucket): no more requests than it held and earned.
THEOREM RunsShareTheQuota == RefreshSpec => []QuotaWhileRedisAnswers
<1>1. IInv => QuotaWhileRedisAnswers
  <2> SUFFICES ASSUME IInv, outages = 0, window # None PROVE calls * PerToken <= Full + window
    BY DEF QuotaWhileRedisAnswers
  <2>1. calls * PerToken \in Nat /\ level \in Nat /\ window \in Nat
    BY RefreshAssumption, FullSize DEF IInv, Typed
  <2> QED
    BY <2>1, FullSize DEF IInv, Account
<1> QED
  BY Inductive, <1>1, PTL

\* A restart, a refused statement or a failed request makes the job repeat one query at
\* most (collect_coupang.py commits the row of an answer before it goes on), for any TTL,
\* interval, rankings and set of terms, through outages and runs of any number.
THEOREM EachLossRepeatsOnce == RefreshSpec => []LossRepeatsOnce
<1>1. IInv => LossRepeatsOnce
  <2> SUFFICES ASSUME IInv PROVE repeats <= crashes + dbErrors + refusals
    BY DEF LossRepeatsOnce
  <2>1. Cardinality(Lost) \in Nat
    BY FS_CardinalityType DEF IInv, Paid
  <2> QED
    BY <2>1 DEF IInv, Paid, Typed, Losses
<1> QED
  BY Inductive, <1>1, PTL

=============================================================================
