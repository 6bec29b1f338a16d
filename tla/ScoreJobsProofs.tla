-------------------------- MODULE ScoreJobsProofs --------------------------
(***************************************************************************)
(* Proofs about ScoreJobs, for any set of keywords, any ranking and any    *)
(* bounds: a run that reports success accounts for every keyword it        *)
(* selected, and a hang takes two jobs of one event loop: one waits, the   *)
(* other has rows and awaits.                                              *)
(***************************************************************************)
EXTENDS ScoreJobs, FiniteSetTheorems, TLAPS

Under(j) == job[j].phase \in {"fetching", "waiting"}

InTodo(j, k) == \E n \in DOMAIN job[j].todo : job[j].todo[n] = k

(* A job under way still has the keyword it is at; one that waits has a row. *)
(* A job that sleeps has an attempt left.                                    *)
PhaseInv ==
  \A j \in Jobs :
    /\ Under(j) => job[j].todo # <<>>
    /\ Waiting(j) => job[j].row # None
    /\ job[j].phase = "sleeping" => job[j].attempts < MaxAttempts

(* Only a job under way has rows that are not committed. *)
LockInv == \A j \in Jobs, k \in Keywords : Holds(j, k) => Under(j)

(* Each keyword a job has selected is written, in failures or still to come. *)
ProgressInv ==
  \A j \in Jobs : Under(j) =>
    \A k \in job[j].asked \ job[j].missed : Holds(j, k) \/ InTodo(j, k)

SInv == TypeOK /\ PhaseInv /\ LockInv /\ ProgressInv /\ SuccessIsAccounted

-----------------------------------------------------------------------------
(* Lists of keywords *)

LEMMA ListStep ==
  ASSUME NEW S, NEW list \in Seq(S), list # <<>>
  PROVE  /\ Head(list) \in S /\ Tail(list) \in Seq(S)
         /\ \A n \in DOMAIN list :
              list[n] = Head(list) \/ \E m \in DOMAIN Tail(list) : Tail(list)[m] = list[n]
<1>1. Len(list) \in Nat /\ Len(list) > 0 /\ DOMAIN list = 1..Len(list)
  OBVIOUS
<1>2. /\ Tail(list) \in Seq(S) /\ Len(Tail(list)) = Len(list) - 1
      /\ \A m \in 1..(Len(list) - 1) : Tail(list)[m] = list[m + 1]
  BY <1>1
<1>3. ASSUME NEW n \in DOMAIN list, n # 1
      PROVE  \E m \in DOMAIN Tail(list) : Tail(list)[m] = list[n]
  <2>1. n - 1 \in 1..(Len(list) - 1) /\ (n - 1) + 1 = n
    BY <1>1, <1>3
  <2>2. n - 1 \in DOMAIN Tail(list)
    BY <1>1, <1>2, <2>1
  <2>3. QED
    BY <1>2, <2>1, <2>2
<1>4. Head(list) = list[1] /\ Head(list) \in S
  BY <1>1
<1>5. QED
  BY <1>2, <1>3, <1>4

LEMMA SelectionsAreLists ==
  ASSUME NEW j \in Jobs, NEW list \in Selections(j)
  PROVE  list \in Seq(Keywords)
<1>1. CASE j = "fill"
  <2>1. Gaps \subseteq Keywords /\ IsFiniteSet(Gaps)
    BY ScoreAssumption, FS_Subset DEF Gaps, Batch
  <2>2. Cardinality(Gaps) \in Nat
    BY <2>1, FS_CardinalityType
  <2>3. list \in [1..Cardinality(Gaps) -> Gaps]
    BY <1>1 DEF Selections, Orders
  <2>4. QED
    BY <2>1, <2>2, <2>3
<1>2. CASE j # "fill"
  BY <1>2, ScoreAssumption DEF Selections
<1>3. QED
  BY <1>1, <1>2

LEMMA IdleTyped ==
  ASSUME NEW result \in {"none", "success", "failure"}
  PROVE  /\ Idle(result) \in Coroutines
         /\ Idle(result).phase = "idle" /\ Idle(result).attempts = 0
         /\ Idle(result).result = result /\ Idle(result).asked = {}
         /\ Idle(result).missed = {}
         /\ \A k \in Keywords : Idle(result).wrote[k] = None
  BY DEF Idle, Coroutines, Nothing, Rows, Phases

-----------------------------------------------------------------------------
(* Steps that leave the committed rows alone and change one job. *)

(* What SInv asks of the new state c of a job. *)
Sound(c) ==
  /\ c \in Coroutines /\ c.attempts <= MaxAttempts
  /\ c.phase \in {"fetching", "waiting"} =>
       /\ c.todo # <<>>
       /\ c.phase = "waiting" => c.row # None
       /\ \A k \in c.asked \ c.missed :
            c.wrote[k] # None \/ \E n \in DOMAIN c.todo : c.todo[n] = k
  /\ c.phase = "sleeping" => c.attempts < MaxAttempts
  /\ c.phase \notin {"fetching", "waiting"} => \A k \in Keywords : c.wrote[k] = None

(* One job changes to a sound state, rows do not disappear, and a job that   *)
(* reports success has its rows.                                             *)
LEMMA OneJobMoves ==
  ASSUME SInv, NEW j \in Jobs, NEW c, Sound(c),
         job' = [job EXCEPT ![j] = c],
         score' \in [Keywords -> Rows],
         \A k \in Keywords : score[k] # None => score'[k] # None,
         c.result = "success" =>
           \A k \in c.asked \ c.missed : score'[k] # None,
         fires' \in [Jobs -> 0..MaxFires]
  PROVE  SInv'
<1>1. job \in [Jobs -> Coroutines]
  BY DEF SInv, TypeOK
<1>2. job'[j] = c /\ \A i \in Jobs \ {j} : job'[i] = job[i]
  BY <1>1
<1>3. \A i \in Jobs : job'[i] = c \/ job'[i] = job[i]
  BY <1>2
<1>4. TypeOK'
  BY <1>1, <1>3 DEF SInv, TypeOK, Sound
<1>5. PhaseInv'
  BY <1>3 DEF SInv, PhaseInv, Under, Waiting, Sound
<1>6. LockInv'
  BY <1>3 DEF SInv, LockInv, Holds, Under, Sound
<1>7. ProgressInv'
  BY <1>3 DEF SInv, ProgressInv, Holds, Under, InTodo, Sound
<1>8. SuccessIsAccounted'
  <2> SUFFICES ASSUME NEW i \in Jobs, job'[i].result = "success",
                      NEW k \in job'[i].asked \ job'[i].missed
               PROVE  score'[k] # None
    BY DEF SuccessIsAccounted
  <2>1. CASE job'[i] = c
    BY <2>1
  <2>2. CASE job'[i] = job[i]
    <3>1. score[k] # None /\ k \in Keywords
      BY <2>2, <1>1 DEF SInv, SuccessIsAccounted, Coroutines
    <3>2. QED
      BY <3>1
  <2>3. QED
    BY <1>3, <2>1, <2>2
<1>9. QED
  BY <1>4, <1>5, <1>6, <1>7, <1>8 DEF SInv

LEMMA InitSInv == Init => SInv
<1> SUFFICES ASSUME Init PROVE SInv
  OBVIOUS
<1>1. /\ score \in [Keywords -> Rows] /\ fires \in [Jobs -> 0..MaxFires]
      /\ job = [i \in Jobs |-> Idle("none")]
  BY ScoreAssumption DEF Init, Nothing, Rows
<1>2. TypeOK
  BY <1>1, IdleTyped, ScoreAssumption DEF TypeOK
<1>3. PhaseInv /\ LockInv /\ ProgressInv /\ SuccessIsAccounted
  BY <1>1, IdleTyped
     DEF PhaseInv, LockInv, ProgressInv, SuccessIsAccounted, Under, Waiting, Holds
<1>4. QED
  BY <1>2, <1>3 DEF SInv

LEMMA BeginKeeps ==
  ASSUME SInv, NEW j \in Jobs, NEW attempt \in 1..MaxAttempts, Begin(j, attempt),
         score' = score, fires' \in [Jobs -> 0..MaxFires]
  PROVE  SInv'
<1>1. PICK list \in Selections(j) :
        job' = [job EXCEPT ![j] =
          IF list = <<>> THEN Idle("success")
          ELSE [Idle("none") EXCEPT !.phase = "fetching", !.todo = list,
                  !.attempts = attempt, !.asked = {list[n] : n \in DOMAIN list}]]
  BY DEF Begin
<1>2. list \in Seq(Keywords)
  BY SelectionsAreLists
<1>3. score' \in [Keywords -> Rows] /\ \A k \in Keywords : score[k] # None => score'[k] # None
  BY DEF SInv, TypeOK
<1>4. CASE list = <<>>
  <2>1. job' = [job EXCEPT ![j] = Idle("success")]
    BY <1>1, <1>4
  <2>2. Sound(Idle("success"))
    BY IdleTyped, ScoreAssumption DEF Sound
  <2>3. QED
    BY <1>3, <2>1, <2>2, IdleTyped, OneJobMoves
<1>5. CASE list # <<>>
  <2> DEFINE idle == Idle("none")
             c == [idle EXCEPT !.phase = "fetching", !.todo = list,
                     !.attempts = attempt, !.asked = {list[n] : n \in DOMAIN list}]
  <2>1. job' = [job EXCEPT ![j] = c]
    BY <1>1, <1>5
  <2>2. {list[n] : n \in DOMAIN list} \in SUBSET Keywords
    BY <1>2
  <2>3. /\ c \in Coroutines /\ c.attempts = attempt /\ c.phase = "fetching"
        /\ c.todo = list /\ c.asked = {list[n] : n \in DOMAIN list}
        /\ c.result = "none"
    <3>1. idle \in Coroutines /\ idle.result = "none" /\ attempt \in Nat
      BY IdleTyped
    <3> HIDE DEF idle
    <3>2. QED
      BY <1>2, <2>2, <3>1 DEF Coroutines, Phases
  <2>4. Sound(c)
    BY <1>5, <2>3, ScoreAssumption DEF Sound
  <2>5. c.result # "success"
    BY <2>3
  <2> HIDE DEF c
  <2>6. QED
    BY <1>3, <2>1, <2>4, <2>5, OneJobMoves
<1>6. QED
  BY <1>4, <1>5

LEMMA FireKeeps ==
  ASSUME SInv, NEW j \in Jobs, Fire(j)
  PROVE  SInv'
<1>1. fires' \in [Jobs -> 0..MaxFires]
  BY ScoreAssumption DEF SInv, TypeOK, Fire
<1>2. 1 \in 1..MaxAttempts
  BY ScoreAssumption
<1>3. QED
  BY <1>1, <1>2, BeginKeeps DEF Fire

LEMMA RetryKeeps ==
  ASSUME SInv, NEW j \in Jobs, Retry(j)
  PROVE  SInv'
<1>1. job[j].attempts \in Nat /\ job[j].attempts < MaxAttempts
  BY DEF SInv, TypeOK, PhaseInv, Coroutines, Retry
<1>2. job[j].attempts + 1 \in 1..MaxAttempts
  BY <1>1, ScoreAssumption
<1>3. fires' \in [Jobs -> 0..MaxFires] /\ score' = score
  BY DEF SInv, TypeOK, Retry
<1>4. QED
  BY <1>2, <1>3, BeginKeeps DEF Retry

LEMMA RaisesKeeps ==
  ASSUME SInv, NEW j \in Jobs, Raises(j), UNCHANGED <<score, fires>>
  PROVE  SInv'
<1>1. /\ score' \in [Keywords -> Rows] /\ fires' \in [Jobs -> 0..MaxFires]
      /\ \A k \in Keywords : score[k] # None => score'[k] # None
  BY DEF SInv, TypeOK
<1>2. CASE MayRetry(j)
  <2> DEFINE idle == Idle("none")
             c == [idle EXCEPT !.phase = "sleeping", !.attempts = job[j].attempts]
  <2>1. job' = [job EXCEPT ![j] = c]
    BY <1>2 DEF Raises
  <2>2. job[j].attempts \in Nat /\ job[j].attempts < MaxAttempts
    BY <1>2 DEF MayRetry, SInv, TypeOK, Coroutines
  <2>3. /\ c \in Coroutines /\ c.attempts = job[j].attempts /\ c.phase = "sleeping"
        /\ c.result = "none" /\ \A k \in Keywords : c.wrote[k] = None
    <3>1. idle \in Coroutines /\ idle.result = "none"
          /\ \A k \in Keywords : idle.wrote[k] = None
      BY IdleTyped
    <3> HIDE DEF idle
    <3>2. QED
      BY <2>2, <3>1 DEF Coroutines, Phases
  <2>4. Sound(c) /\ c.result # "success"
    BY <2>2, <2>3, ScoreAssumption DEF Sound
  <2> HIDE DEF c
  <2>5. QED
    BY <1>1, <2>1, <2>4, OneJobMoves
<1>3. CASE ~MayRetry(j)
  <2>1. job' = [job EXCEPT ![j] = Idle("failure")]
    BY <1>3 DEF Raises
  <2>2. Sound(Idle("failure"))
    BY IdleTyped, ScoreAssumption DEF Sound
  <2>3. QED
    BY <1>1, <2>1, <2>2, IdleTyped, OneJobMoves
<1>4. QED
  BY <1>2, <1>3

(* The keyword a job is at has been dealt with: written, or put in failures. *)
LEMMA ContinueKeeps ==
  ASSUME SInv, NEW j \in Jobs, Under(j),
         NEW wrote \in [Keywords -> Rows], NEW missed \in SUBSET Keywords,
         Continue(j, wrote, missed),
         \A k \in Keywords : Holds(j, k) => wrote[k] # None,
         job[j].missed \subseteq missed,
         wrote[Current(j)] # None \/ Current(j) \in missed,
         fires' = fires
  PROVE  SInv'
<1> DEFINE todo == job[j].todo
<1>1. /\ job[j] \in Coroutines /\ job[j].attempts <= MaxAttempts
      /\ todo \in Seq(Keywords) /\ todo # <<>>
      /\ job[j].asked \in SUBSET Keywords
      /\ score \in [Keywords -> Rows] /\ fires' \in [Jobs -> 0..MaxFires]
  BY DEF SInv, TypeOK, PhaseInv, Coroutines
<1>2. /\ Current(j) \in Keywords /\ Tail(todo) \in Seq(Keywords)
      /\ \A n \in DOMAIN todo :
           todo[n] = Current(j) \/ \E m \in DOMAIN Tail(todo) : Tail(todo)[m] = todo[n]
  BY <1>1, ListStep DEF Current
<1>3. \A k \in job[j].asked \ missed :
        wrote[k] # None \/ \E m \in DOMAIN Tail(todo) : Tail(todo)[m] = k
  <2> SUFFICES ASSUME NEW k \in job[j].asked \ missed
               PROVE  wrote[k] # None \/ \E m \in DOMAIN Tail(todo) : Tail(todo)[m] = k
    OBVIOUS
  <2>1. k \in job[j].asked \ job[j].missed /\ k \in Keywords
    BY <1>1
  <2>2. Holds(j, k) \/ InTodo(j, k)
    BY <2>1 DEF SInv, ProgressInv
  <2>3. CASE Holds(j, k)
    BY <2>1, <2>3
  <2>4. CASE InTodo(j, k)
    <3>1. k = Current(j) \/ \E m \in DOMAIN Tail(todo) : Tail(todo)[m] = k
      BY <2>4, <1>2 DEF InTodo
    <3>2. QED
      BY <3>1
  <2>5. QED
    BY <2>2, <2>3, <2>4
<1>4. CASE Tail(todo) # <<>>
  <2> DEFINE c == [job[j] EXCEPT !.phase = "fetching", !.todo = Tail(todo), !.row = None,
                                 !.wrote = wrote, !.missed = missed]
  <2>1. job' = [job EXCEPT ![j] = c] /\ score' = score
    BY <1>4 DEF Continue
  <2>2. /\ c \in Coroutines /\ c.phase = "fetching" /\ c.todo = Tail(todo)
        /\ c.attempts = job[j].attempts /\ c.asked = job[j].asked
        /\ c.wrote = wrote /\ c.missed = missed /\ c.result = job[j].result
    BY <1>1, <1>2 DEF Coroutines, Rows, Phases
  <2>3. Sound(c)
    BY <1>1, <1>3, <1>4, <2>2 DEF Sound
  <2>4. ASSUME c.result = "success"
        PROVE  \A k \in c.asked \ c.missed : score'[k] # None
    <3>1. \A k \in job[j].asked \ job[j].missed : score[k] # None
      BY <2>2, <2>4 DEF SInv, SuccessIsAccounted
    <3>2. QED
      BY <2>1, <2>2, <3>1
  <2> HIDE DEF c
  <2>5. QED
    BY <1>1, <2>1, <2>3, <2>4, OneJobMoves
<1>5. CASE Tail(todo) = <<>>
  <2> DEFINE idle == Idle("success")
             c == [idle EXCEPT !.asked = job[j].asked, !.missed = missed]
  <2>1. job' = [job EXCEPT ![j] = c] /\ score' = Published(wrote)
    BY <1>5 DEF Continue
  <2>2. /\ c \in Coroutines /\ c.phase = "idle" /\ c.attempts = 0
        /\ c.asked = job[j].asked /\ c.missed = missed
        /\ \A k \in Keywords : c.wrote[k] = None
    <3>1. idle \in Coroutines /\ idle.phase = "idle" /\ idle.attempts = 0
          /\ \A k \in Keywords : idle.wrote[k] = None
      BY IdleTyped
    <3> HIDE DEF idle
    <3>2. QED
      BY <1>1, <3>1 DEF Coroutines, Phases
  <2>3. Sound(c)
    BY <2>2, ScoreAssumption DEF Sound
  <2>4. /\ score' \in [Keywords -> Rows]
        /\ \A k \in Keywords : score[k] # None => score'[k] # None
        /\ \A k \in Keywords : wrote[k] # None => score'[k] # None
    BY <1>1, <2>1 DEF Published
  <2>5. \A k \in c.asked \ c.missed : score'[k] # None
    <3>1. ~\E m \in DOMAIN Tail(todo) : TRUE
      BY <1>5
    <3>2. \A k \in job[j].asked \ missed : wrote[k] # None /\ k \in Keywords
      BY <1>1, <1>3, <3>1
    <3>3. QED
      BY <2>2, <2>4, <3>2
  <2> HIDE DEF c
  <2>6. QED
    BY <1>1, <2>1, <2>3, <2>4, <2>5, OneJobMoves
<1>6. QED
  BY <1>4, <1>5

LEMMA MissedKeeps ==
  ASSUME SInv, NEW j \in Jobs, Missed(j)
  PROVE  SInv'
<1>1. Under(j) /\ fires' = fires
  BY DEF Missed, Awaiting, Under
<1>2. /\ job[j].wrote \in [Keywords -> Rows] /\ job[j].missed \in SUBSET Keywords
      /\ job[j].todo \in Seq(Keywords) /\ job[j].todo # <<>>
  BY <1>1 DEF SInv, TypeOK, PhaseInv, Coroutines
<1>3. Current(j) \in Keywords
  BY <1>2, ListStep DEF Current
<1>4. job[j].missed \cup {Current(j)} \in SUBSET Keywords
  BY <1>2, <1>3
<1>5. QED
  BY <1>1, <1>2, <1>4, ContinueKeeps DEF Missed, Holds

LEMMA UpsertKeeps ==
  ASSUME SInv, NEW j \in Jobs, Under(j), NEW row \in {"partial", "full"},
         Continue(j, Upserted(j, row), job[j].missed), fires' = fires
  PROVE  SInv'
<1>1. /\ job[j].wrote \in [Keywords -> Rows] /\ job[j].missed \in SUBSET Keywords
      /\ job[j].todo \in Seq(Keywords) /\ job[j].todo # <<>>
  BY DEF SInv, TypeOK, PhaseInv, Coroutines
<1>2. Current(j) \in Keywords /\ row # None
  BY <1>1, ListStep, ScoreAssumption DEF Current
<1>3. /\ Upserted(j, row) \in [Keywords -> Rows]
      /\ Upserted(j, row)[Current(j)] # None
      /\ \A k \in Keywords : Holds(j, k) => Upserted(j, row)[k] # None
  BY <1>1, <1>2 DEF Upserted, Rows, Holds
<1>4. QED
  BY <1>1, <1>3, ContinueKeeps

LEMMA ScoredKeeps ==
  ASSUME SInv, NEW j \in Jobs, NEW row \in {"partial", "full"}, Scored(j, row)
  PROVE  SInv'
<1>1. Under(j) /\ fires' = fires
  BY DEF Scored, Awaiting, Under
<1>2. CASE Locked(Current(j), j)
  <2> DEFINE c == [job[j] EXCEPT !.phase = "waiting", !.row = row]
  <2>1. job' = [job EXCEPT ![j] = c] /\ score' = score
    BY <1>2 DEF Scored
  <2>2. /\ job[j] \in Coroutines /\ job[j].attempts <= MaxAttempts
        /\ job[j].todo # <<>> /\ row # None
        /\ \A k \in job[j].asked \ job[j].missed : Holds(j, k) \/ InTodo(j, k)
    BY <1>1, ScoreAssumption DEF SInv, TypeOK, PhaseInv, ProgressInv
  <2>3. /\ c \in Coroutines /\ c.phase = "waiting" /\ c.row = row
        /\ c.todo = job[j].todo /\ c.attempts = job[j].attempts
        /\ c.asked = job[j].asked /\ c.missed = job[j].missed
        /\ c.wrote = job[j].wrote /\ c.result = job[j].result
    BY <2>2 DEF Coroutines, Rows, Phases
  <2>4. Sound(c)
    BY <2>2, <2>3 DEF Sound, Holds, InTodo
  <2>5. /\ score' \in [Keywords -> Rows] /\ fires' \in [Jobs -> 0..MaxFires]
        /\ \A k \in Keywords : score[k] # None => score'[k] # None
        /\ c.result = "success" => \A k \in c.asked \ c.missed : score'[k] # None
    BY <1>1, <2>1, <2>3 DEF SInv, TypeOK, SuccessIsAccounted
  <2> HIDE DEF c
  <2>6. QED
    BY <2>1, <2>4, <2>5, OneJobMoves
<1>3. CASE ~Locked(Current(j), j)
  BY <1>1, <1>3, UpsertKeeps DEF Scored
<1>4. QED
  BY <1>2, <1>3

LEMMA UnblockedKeeps ==
  ASSUME SInv, NEW j \in Jobs, Unblocked(j)
  PROVE  SInv'
<1>1. Under(j) /\ Waiting(j) /\ fires' = fires
  BY DEF Unblocked, Waiting, Under
<1>2. job[j].row \in {"partial", "full"}
  BY <1>1 DEF SInv, TypeOK, PhaseInv, Coroutines, Rows
<1>3. QED
  BY <1>1, <1>2, UpsertKeeps DEF Unblocked

LEMMA CrashKeeps ==
  ASSUME SInv, NEW p, Crash(p)
  PROVE  SInv'
<1>1. /\ \A j \in Jobs : job'[j] = Idle("none") \/ job'[j] = job[j]
      /\ job' \in [Jobs -> Coroutines]
      /\ score' = score /\ fires' = fires
  BY IdleTyped DEF Crash, SInv, TypeOK
<1>2. TypeOK'
  BY <1>1, IdleTyped, ScoreAssumption DEF SInv, TypeOK
<1>3. PhaseInv' /\ LockInv'
  BY <1>1, IdleTyped DEF SInv, PhaseInv, LockInv, Under, Waiting, Holds
<1>4. ProgressInv'
  BY <1>1, IdleTyped DEF SInv, ProgressInv, Under, Holds, InTodo
<1>5. SuccessIsAccounted'
  BY <1>1, IdleTyped DEF SInv, SuccessIsAccounted
<1>6. QED
  BY <1>2, <1>3, <1>4, <1>5 DEF SInv

LEMMA SInvStep ==
  ASSUME SInv, [Next]_vars
  PROVE  SInv'
<1>1. CASE UNCHANGED vars
  BY <1>1 DEF vars, SInv, TypeOK, PhaseInv, LockInv, ProgressInv,
              SuccessIsAccounted, Under, Waiting, Holds, InTodo
<1>2. ASSUME NEW j \in Jobs, Fire(j) \/ Work(j) \/ Invalid(j) \/ DbFails(j)
      PROVE  SInv'
  <2>1. CASE Fetched(j)
    BY <2>1, MissedKeeps, ScoredKeeps DEF Fetched
  <2>2. CASE DeadlockDetected(j)
    BY <2>2, RaisesKeeps DEF DeadlockDetected
  <2>3. CASE DbFails(j)
    BY <2>3, RaisesKeeps DEF DbFails
  <2>5. CASE Invalid(j)
    BY <2>5, RaisesKeeps DEF Invalid
  <2>4. QED
    BY <1>2, <2>1, <2>2, <2>3, <2>5, FireKeeps, UnblockedKeeps, RetryKeeps DEF Work
<1>3. CASE \E p \in {"api", "scheduler"} : Crash(p)
  BY <1>3, CrashKeeps
<1>4. QED
  BY <1>1, <1>2, <1>3 DEF Next

LEMMA SInvAlways == Spec => []SInv
<1>1. SInv /\ [Next]_vars => SInv'
  BY SInvStep
<1>2. QED
  BY <1>1, InitSInv, PTL DEF Spec

(* The jobs stay typed, and no job takes more attempts than it may, through *)
(* refused statements, deadlocks and restarts.                              *)
THEOREM JobsTyped == Spec => []TypeOK
<1>1. SInv => TypeOK
  BY DEF SInv
<1>2. QED
  BY <1>1, SInvAlways, PTL

(* A run that reports success accounts for every keyword it selected,       *)
(* however its UPSERTs had to wait for those of other jobs.                 *)
THEOREM SuccessAccounted == Spec => []SuccessIsAccounted
<1>1. SInv => SuccessIsAccounted
  BY DEF SInv
<1>2. QED
  BY <1>1, SInvAlways, PTL

-----------------------------------------------------------------------------
(* Hangs *)

(* Of the jobs of a process one waits at most: the others do not run then.  *)
OneWaits ==
  \A i, j \in Jobs : Waiting(i) /\ Waiting(j) /\ Process(i) = Process(j) => i = j

(* A job waits that did not only after the loop has run.                    *)
LEMMA WaitsAnew ==
  ASSUME SInv, [Next]_vars, NEW j \in Jobs, Waiting(j)', ~Waiting(j)
  PROVE  LoopRuns(j) /\ \A i \in Jobs \ {j} : job'[i] = job[i]
<1>0. job \in [Jobs -> Coroutines]
  BY DEF SInv, TypeOK
<1>1. ~UNCHANGED vars
  BY DEF vars, Waiting
<1>2. ASSUME NEW p, Crash(p) PROVE FALSE
  BY <1>2, IdleTyped DEF Crash, Waiting
<1>3. ASSUME NEW i \in Jobs, NEW c, job' = [job EXCEPT ![i] = c], c.phase # "waiting"
      PROVE  FALSE
  BY <1>0, <1>3 DEF Waiting
<1>4. ASSUME NEW i \in Jobs, NEW attempt, Begin(i, attempt) PROVE FALSE
  <2>1. PICK list \in Selections(i) :
          job' = [job EXCEPT ![i] =
            IF list = <<>> THEN Idle("success")
            ELSE [Idle("none") EXCEPT !.phase = "fetching", !.todo = list,
                    !.attempts = attempt, !.asked = {list[n] : n \in DOMAIN list}]]
    BY <1>4 DEF Begin
  <2>2. Idle("success").phase # "waiting"
    BY DEF Idle
  <2>3. [Idle("none") EXCEPT !.phase = "fetching", !.todo = list, !.attempts = attempt,
           !.asked = {list[n] : n \in DOMAIN list}].phase # "waiting"
    BY DEF Idle
  <2>4. QED
    BY <1>3, <2>1, <2>2, <2>3
<1>5. ASSUME NEW i \in Jobs, Raises(i) PROVE FALSE
  <2>1. [Idle("none") EXCEPT !.phase = "sleeping", !.attempts = job[i].attempts].phase # "waiting"
    BY DEF Idle
  <2>2. Idle("failure").phase # "waiting"
    BY DEF Idle
  <2>3. QED
    BY <1>3, <1>5, <2>1, <2>2 DEF Raises
<1>6. ASSUME NEW i \in Jobs, NEW wrote, NEW missed, Continue(i, wrote, missed) PROVE FALSE
  <2>1. job[i] \in Coroutines
    BY <1>0
  <2>2. [job[i] EXCEPT !.phase = "fetching", !.todo = Tail(job[i].todo), !.row = None,
                       !.wrote = wrote, !.missed = missed].phase # "waiting"
    BY <2>1 DEF Coroutines
  <2>3. [Idle("success") EXCEPT !.asked = job[i].asked, !.missed = missed].phase # "waiting"
    BY DEF Idle
  <2>4. QED
    BY <1>3, <1>6, <2>2, <2>3 DEF Continue
<1>7. PICK i \in Jobs, row \in {"partial", "full"} :
        Scored(i, row) /\ job' = [job EXCEPT ![i] = [@ EXCEPT !.phase = "waiting", !.row = row]]
  <2>1. PICK i \in Jobs : Fire(i) \/ Work(i) \/ Invalid(i) \/ DbFails(i)
    BY <1>1, <1>2 DEF Next
  <2>2. \E row \in {"partial", "full"} : Scored(i, row)
    BY <1>4, <1>5, <1>6, <2>1
       DEF Fire, Work, Fetched, Missed, Unblocked, Retry, DeadlockDetected, Invalid, DbFails
  <2>3. QED
    BY <1>6, <2>2 DEF Scored
<1>8. i = j
  BY <1>0, <1>7 DEF Waiting
<1>9. QED
  BY <1>0, <1>7, <1>8 DEF Scored, Awaiting

LEMMA OneWaitsStep ==
  ASSUME SInv, OneWaits, [Next]_vars
  PROVE  OneWaits'
<1> SUFFICES ASSUME NEW i \in Jobs, NEW j \in Jobs, Waiting(i)', Waiting(j)',
                    Process(i) = Process(j), i # j
             PROVE  FALSE
  BY DEF OneWaits, Process
<1>1. CASE Waiting(i) /\ Waiting(j)
  BY <1>1 DEF OneWaits
<1>2. CASE ~Waiting(j)
  <2>1. LoopRuns(j) /\ job'[i] = job[i]
    BY <1>2, WaitsAnew
  <2>2. QED
    BY <2>1 DEF LoopRuns, Waiting
<1>3. CASE ~Waiting(i)
  <2>1. LoopRuns(i) /\ job'[j] = job[j]
    BY <1>3, WaitsAnew
  <2>2. QED
    BY <2>1 DEF LoopRuns, Waiting
<1>4. QED
  BY <1>1, <1>2, <1>3

LEMMA HangTakesTwo ==
  ASSUME SInv, OneWaits
  PROVE  HangsOnOneLoop
<1> SUFFICES ASSUME NEW j \in Jobs, Waiting(j), ~CanGoOn(j),
                    ~ \E i \in Jobs \ {j} :
                        Holds(i, Current(j)) /\ (CanGoOn(i) \/ EachOther(i, j))
             PROVE  \E i, h \in Jobs :
                      /\ i # h /\ Process(i) = Process(h) /\ Waiting(h)
                      /\ job[i].phase = "fetching" /\ \E k \in Keywords : Holds(i, k)
  BY DEF NoHang, HangsOnOneLoop
<1>1. ASSUME NEW i \in Jobs, Waiting(i) PROVE Current(i) \in Keywords
  <2>1. job[i].todo \in Seq(Keywords) /\ job[i].todo # <<>>
    BY <1>1 DEF SInv, TypeOK, PhaseInv, Coroutines, Under, Waiting
  <2>2. QED
    BY <2>1, ListStep DEF Current
<1>2. PICK i \in Jobs \ {j} : Holds(i, Current(j))
  BY DEF CanGoOn, Locked
<1>3. Under(i)
  BY <1>1, <1>2 DEF SInv, LockInv
(* The holder awaits: its loop does not run, for a job of that loop waits. *)
<1>4. CASE job[i].phase = "fetching"
  <2>1. ~LoopRuns(i)
    BY <1>2, <1>4 DEF CanGoOn, Awaiting
  <2>2. PICK h \in Jobs : Process(h) = Process(i) /\ Waiting(h)
    BY <2>1 DEF LoopRuns
  <2>3. h # i
    BY <1>4, <2>2 DEF Waiting
  <2>4. QED
    BY <1>1, <1>2, <1>4, <2>2, <2>3
(* The holder waits as well, for a third job, which is on one of the two loops. *)
<1>5. CASE Waiting(i)
  <2>1. Locked(Current(i), i)
    BY <1>2, <1>5 DEF CanGoOn
  <2>2. PICK h \in Jobs \ {i} : Holds(h, Current(i))
    BY <2>1 DEF Locked
  <2>3. h # j
    BY <1>2, <1>5, <2>2 DEF EachOther
  <2>4. Process(i) # Process(j)
    BY <1>2, <1>5 DEF OneWaits
  <2>5. PICK g \in {i, j} : Process(g) = Process(h)
    BY <2>4 DEF Process
  <2>6. Waiting(g) /\ g # h
    BY <1>5, <2>2, <2>3
  <2>7. ~Waiting(h)
    BY <2>5, <2>6 DEF OneWaits
  <2>8. Under(h)
    BY <1>1, <1>5, <2>2 DEF SInv, LockInv
  <2>9. job[h].phase = "fetching"
    BY <2>7, <2>8 DEF Under, Waiting
  <2>10. QED
    BY <1>1, <1>5, <2>2, <2>5, <2>6, <2>9
<1>6. QED
  BY <1>3, <1>4, <1>5 DEF Under, Waiting

(* When jobs hang, one of them waits on a loop on which another one awaits  *)
(* with rows it has written: apart from that two jobs of one process never  *)
(* keep each other, and jobs of two processes never do, for whatever they   *)
(* wait for goes on or PostgreSQL sees the cycle.                           *)
THEOREM HangsShareALoop == Spec => []HangsOnOneLoop
<1>1. Init => OneWaits
  BY DEF Init, OneWaits, Waiting, Idle
<1>2. SInv /\ OneWaits /\ [Next]_vars => OneWaits'
  BY OneWaitsStep
<1>3. SInv /\ OneWaits => HangsOnOneLoop
  BY HangTakesTwo
<1>4. QED
  BY <1>1, <1>2, <1>3, SInvAlways, PTL DEF Spec

=============================================================================
