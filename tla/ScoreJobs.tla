----------------------------- MODULE ScoreJobs -----------------------------
(***************************************************************************)
(* The jobs that write today's opportunity scores, and what they share.    *)
(*                                                                         *)
(*   scheduler/jobs/recalculate_opportunities.py  every keyword, daily     *)
(*   scheduler/jobs/fill_missing_signals.py       rows with a signal       *)
(*                                                missing, every 30 min    *)
(*   scheduler/runner.py                          attempts and back-off    *)
(*   routers/admin.py                             the same job as a step   *)
(*                                                of the operator's run    *)
(*                                                                         *)
(* A job is a coroutine with one transaction: it awaits the signals of a   *)
(* keyword, UPSERTs its row, goes on to the next and commits at the end,   *)
(* so the rows it has written stay locked while it awaits.  The database   *)
(* is called from the coroutine itself: a job that waits for a lock holds  *)
(* up every other coroutine of its process.                                *)
(***************************************************************************)
EXTENDS Integers, Sequences, FiniteSets

CONSTANTS
  Jobs,         \* the jobs of a run: some of JobNames
  Keywords,     \* ids of the ACTIVE keywords
  Ranking,      \* the keywords in the order of a whole recalculation
  BatchLimit,   \* rows fill_missing_signals looks at
  MaxAttempts,  \* max_attempts of recalculate_opportunities
  None,         \* no row
  MaxFires,     \* bound: whole recalculations of each kind in a day
  MaxFlaws,     \* bound: keywords fetched with a signal missing, not at all or unfit
  MaxDbErrors,  \* bound: statements the database refuses
  MaxCrashes    \* bound: restarts of a process

JobNames == {"recalculate", "fill", "pipeline"}

ASSUME ScoreAssumption ==
  /\ Jobs \subseteq JobNames
  /\ Keywords \subseteq Nat /\ IsFiniteSet(Keywords)
  /\ Ranking \in Seq(Keywords)
  /\ BatchLimit \in Nat \ {0} /\ MaxAttempts \in Nat \ {0}
  /\ None \notin {"partial", "full"}
  /\ MaxFires \in Nat

VARIABLES
  score,     \* keyword -> the committed row of today
  job,       \* job -> its coroutine
  fires, flaws, dbErrors, crashes

environment == <<flaws, dbErrors, crashes>>
vars == <<score, job, fires, environment>>

-----------------------------------------------------------------------------

Rows == {"partial", "full", None}

\* fetching: awaits the signals of Head(todo); waiting: its UPSERT waits for a
\* row lock; sleeping: backs off before the next attempt.
Phases == {"idle", "fetching", "waiting", "sleeping"}

\* wrote: the rows written and not committed; row: the one that waits; missed:
\* keywords that went into failures; result: of the last run.
Coroutines ==
  [phase: Phases, todo: Seq(Keywords), attempts: Nat,
   wrote: [Keywords -> Rows], row: Rows,
   asked: SUBSET Keywords, missed: SUBSET Keywords,
   result: {"none", "success", "failure"}]

Nothing == [k \in Keywords |-> None]

Idle(result) ==
  [phase |-> "idle", todo |-> <<>>, attempts |-> 0, wrote |-> Nothing,
   row |-> None, asked |-> {}, missed |-> {}, result |-> result]

Init ==
  /\ score = Nothing
  /\ job = [j \in Jobs |-> Idle("none")]
  /\ fires = [j \in Jobs |-> 0]
  /\ flaws = 0 /\ dbErrors = 0 /\ crashes = 0

\* The event loop a job runs on.
Process(j) == IF j = "pipeline" THEN "api" ELSE "scheduler"

Waiting(j) == job[j].phase = "waiting"

\* The keyword a job is at.
Current(j) == Head(job[j].todo)

LoopRuns(j) == \A i \in Jobs : Process(i) = Process(j) => ~Waiting(i)

Holds(i, k) == job[i].wrote[k] # None

Locked(k, j) == \E i \in Jobs \ {j} : Holds(i, k)

-----------------------------------------------------------------------------
(* A run begins *)

\* Faulty variant: the last row of the batch is left out.
BatchShort ==
  {k \in Keywords :
     /\ score[k] # None
     /\ Cardinality({i \in Keywords : score[i] # None /\ i <= k}) < BatchLimit}

\* The rows fill_missing_signals looks at: the first ones, by id.
Batch ==
  {k \in Keywords :
     /\ score[k] # None
     /\ Cardinality({i \in Keywords : score[i] # None /\ i <= k}) <= BatchLimit}

Gaps == {k \in Batch : score[k] = "partial"}

Orders(S) ==
  {list \in [1..Cardinality(S) -> S] :
     \A m, n \in DOMAIN list : list[m] = list[n] => m = n}

\* Narrowed to some keywords the query has no ORDER BY.
Selections(j) == IF j = "fill" THEN Orders(Gaps) ELSE {Ranking}

Begin(j, attempt) ==
  \E list \in Selections(j) :
    job' = [job EXCEPT ![j] =
      IF list = <<>> THEN Idle("success")
      ELSE [Idle("none") EXCEPT !.phase = "fetching", !.todo = list,
              !.attempts = attempt, !.asked = {list[n] : n \in DOMAIN list}]]

\* One instance at a time: max_instances=1, or 409 from /admin/expand.
Fire(j) ==
  /\ job[j].phase = "idle" /\ LoopRuns(j)
  /\ j # "fill" => fires[j] < MaxFires
  /\ fires' = IF j = "fill" THEN fires ELSE [fires EXCEPT ![j] = @ + 1]
  /\ Begin(j, 1)
  /\ UNCHANGED <<score, environment>>

-----------------------------------------------------------------------------
(* One keyword after the other *)

\* Faulty variant: the session is closed without a commit.
PublishedNothing(wrote) == score

\* The rows after the commit.
Published(wrote) ==
  [k \in Keywords |-> IF wrote[k] # None THEN wrote[k] ELSE score[k]]

\* On to the next keyword; after the last one the job commits and returns.
Continue(j, wrote, missed) ==
  IF Tail(job[j].todo) # <<>>
  THEN /\ job' = [job EXCEPT ![j] =
            [@ EXCEPT !.phase = "fetching", !.todo = Tail(job[j].todo), !.row = None,
                      !.wrote = wrote, !.missed = missed]]
       /\ UNCHANGED score
  ELSE /\ job' = [job EXCEPT ![j] =
            [Idle("success") EXCEPT !.asked = job[j].asked, !.missed = missed]]
       /\ score' = Published(wrote)

Upserted(j, row) == [job[j].wrote EXCEPT ![Current(j)] = row]

Awaiting(j) == job[j].phase = "fetching" /\ LoopRuns(j)

\* What came back lacks a signal, or is of no use.
Counted(row) ==
  /\ row # "full" => flaws < MaxFlaws
  /\ flaws' = IF row # "full" THEN flaws + 1 ELSE flaws

\* No volume, no trend or an exception: the keyword goes into failures.
Missed(j) ==
  /\ Awaiting(j) /\ Counted(None)
  /\ Continue(j, job[j].wrote, job[j].missed \cup {Current(j)})
  /\ UNCHANGED <<fires, dbErrors, crashes>>

\* The signals are there, the optional ones perhaps not: the UPSERT.
Scored(j, row) ==
  /\ Awaiting(j) /\ Counted(row)
  /\ IF Locked(Current(j), j)
     THEN /\ job' = [job EXCEPT ![j] = [@ EXCEPT !.phase = "waiting", !.row = row]]
          /\ UNCHANGED score
     ELSE Continue(j, Upserted(j, row), job[j].missed)
  /\ UNCHANGED <<fires, dbErrors, crashes>>

\* The lock is free: the UPSERT overwrites what the other job has committed.
Unblocked(j) ==
  /\ Waiting(j) /\ ~Locked(Current(j), j)
  /\ Continue(j, Upserted(j, job[j].row), job[j].missed)
  /\ UNCHANGED <<fires, environment>>

-----------------------------------------------------------------------------
(* What goes wrong *)

\* Faulty variant: one attempt more than allowed.
MayRetryOnceMore(j) == j = "recalculate" /\ job[j].attempts <= MaxAttempts

\* Only the runner of the scheduler tries again.
MayRetry(j) == j = "recalculate" /\ job[j].attempts < MaxAttempts

\* Faulty variant: the transaction is not rolled back before the back-off, only when the
\* session is closed after it.
RaisesHolding(j) ==
  job' = [job EXCEPT ![j] =
    IF MayRetry(j)
    THEN [Idle("none") EXCEPT !.phase = "sleeping", !.attempts = job[j].attempts,
                              !.wrote = job[j].wrote]
    ELSE Idle("failure")]

\* The job raises: its transaction is rolled back.
Raises(j) ==
  job' = [job EXCEPT ![j] =
    IF MayRetry(j)
    THEN [Idle("none") EXCEPT !.phase = "sleeping", !.attempts = job[j].attempts]
    ELSE Idle("failure")]

Retry(j) ==
  /\ job[j].phase = "sleeping" /\ LoopRuns(j)
  /\ Begin(j, job[j].attempts + 1)
  /\ UNCHANGED <<score, fires, environment>>

\* What came back is not fit to be scored: past the try of the keyword, so the job raises.
Invalid(j) ==
  /\ Awaiting(j)
  /\ flaws < MaxFlaws /\ flaws' = flaws + 1
  /\ Raises(j)
  /\ UNCHANGED <<score, fires, dbErrors, crashes>>

DbFails(j) ==
  /\ dbErrors < MaxDbErrors /\ dbErrors' = dbErrors + 1
  /\ Awaiting(j) \/ Waiting(j)
  /\ Raises(j)
  /\ UNCHANGED <<score, fires, flaws, crashes>>

\* Each of two transactions waits for a row of the other.
EachOther(i, j) ==
  /\ Waiting(i) /\ Waiting(j)
  /\ Holds(i, Current(j)) /\ Holds(j, Current(i))

\* Postgres ends one of the two.  At most one job of a process can wait, and
\* there are two processes.
DeadlockDetected(j) ==
  /\ \E i \in Jobs \ {j} : EachOther(i, j)
  /\ Raises(j)
  /\ UNCHANGED <<score, fires, environment>>

Crash(p) ==
  /\ crashes < MaxCrashes /\ crashes' = crashes + 1
  /\ job' = [j \in Jobs |-> IF Process(j) = p THEN Idle("none") ELSE job[j]]
  /\ UNCHANGED <<score, fires, flaws, dbErrors>>

-----------------------------------------------------------------------------

Fetched(j) == Missed(j) \/ \E row \in {"partial", "full"} : Scored(j, row)

Work(j) ==
  \/ Fetched(j)
  \/ Unblocked(j)
  \/ Retry(j)
  \/ DeadlockDetected(j)

Next ==
  \/ \E j \in Jobs : Fire(j) \/ Work(j) \/ Invalid(j) \/ DbFails(j)
  \/ \E p \in {"api", "scheduler"} : Crash(p)

Spec == Init /\ [][Next]_vars

\* Clients have timeouts, a lock that is free is granted, back-offs end, and
\* fill_missing_signals fires again and again.
FairSpec ==
  /\ Spec
  /\ \A j \in Jobs : /\ WF_vars(Fetched(j)) /\ WF_vars(Retry(j))
                     /\ SF_vars(Unblocked(j)) /\ WF_vars(DeadlockDetected(j))
  /\ \A j \in Jobs \cap {"fill"} : WF_vars(Fire(j))

-----------------------------------------------------------------------------
(* Properties *)

TypeOK ==
  /\ score \in [Keywords -> Rows]
  /\ job \in [Jobs -> Coroutines]
  /\ \A j \in Jobs : job[j].attempts <= MaxAttempts
  /\ fires \in [Jobs -> 0..MaxFires]

\* A run that reports success has left a row of today for each keyword it
\* selected and did not list under failures, whatever ran at the same time.
SuccessIsAccounted ==
  \A j \in Jobs : job[j].result = "success" =>
    \A k \in job[j].asked \ job[j].missed : score[k] # None

\* No job waits for one that cannot go on: the holder of the row awaits on a loop
\* that runs, can have the row it waits for itself, or Postgres sees the cycle.
CanGoOn(j) == Awaiting(j) \/ (Waiting(j) /\ ~Locked(Current(j), j))

NoHang ==
  \A j \in Jobs : Waiting(j) =>
    \/ CanGoOn(j)
    \/ \E i \in Jobs \ {j} : Holds(i, Current(j)) /\ (CanGoOn(i) \/ EachOther(i, j))

\* Jobs that each have a loop of their own never hang, and of those that share one the
\* hang takes two: the loop is held by the wait of one while another, between two of its
\* keywords, has rows that only the loop could commit (db/session.py, scheduler/runner.py).
HangsOnOneLoop ==
  ~NoHang =>
    \E i, j \in Jobs :
      /\ i # j /\ Process(i) = Process(j) /\ Waiting(j)
      /\ job[i].phase = "fetching" /\ \E k \in Keywords : Holds(i, k)

\* "the scheduler must keep running even if a job permanently fails"
\* (scheduler/runner.py): every run comes to an end.
RunsEnd == \A j \in Jobs : job[j].phase # "idle" ~> job[j].phase = "idle"

\* "This job runs every 30 minutes and ONLY re-processes keywords whose today's
\* details are missing a retryable signal" (fill_missing_signals.py): once the
\* signals can be had again, the gap is closed the same day.  Of the first BatchLimit
\* rows: LIMIT comes before the check for a gap.
GapsClose == \A k \in Keywords : score[k] = "partial" ~> score[k] = "full"

\* The same for all three jobs, two of them on the scheduler's loop: what can hang is
\* the wait for a row whose holder needs that loop, and only then does a run not end or
\* a gap stay open.
EndsUnlessHung == ([]NoHang) => (RunsEnd /\ GapsClose)

=============================================================================
