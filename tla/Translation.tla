---------------------------- MODULE Translation ----------------------------
(***************************************************************************)
(* Keywords are translated under a monthly budget of characters.           *)
(*                                                                         *)
(*   scheduler/jobs/translate_keywords.py  the job, in two processes       *)
(*   clients/google_translate.py           budget in Redis, the request    *)
(*                                                                         *)
(* The budget is read by one command and reserved by another. The count of *)
(* a month is a key of its own.                                            *)
(***************************************************************************)
EXTENDS Naturals, FiniteSets

CONSTANTS
  Keywords,   \* ids
  Length,     \* id -> characters of the term
  Longest,    \* no term has more
  Silent,     \* ids of terms whose translation is empty
  Budget,     \* MONTHLY_CHAR_BUDGET
  BatchLimit,
  Api,        \* the process of the operator's run
  Scheduler,  \* the one that runs the job every hour
  MaxTrouble, \* bound: outages of Redis, refusals of the service, runs that are lost
  None

ASSUME TranslationAssumption ==
  /\ Keywords \subseteq Nat /\ Silent \subseteq Keywords /\ Api # Scheduler
  /\ Longest \in Nat /\ \A k \in Keywords : Length[k] \in 1..Longest
  /\ Budget \in Nat /\ BatchLimit \in Nat \ {0} /\ MaxTrouble \in Nat

Processes == {Api, Scheduler}
Runs == [left : SUBSET Keywords, done : SUBSET (Keywords \ Silent),
         asked : Keywords \cup {None}, phase : {"read", "reserve", "send"}]

ASSUME NoneAssumption == None \notin Keywords /\ None \notin Runs

VARIABLES
  chinese,    \* ids with a chinese_term
  used,       \* the counter of the month in Redis
  run,        \* process -> its run, or None
  sent,       \* observer: characters reserved this month, or sent without
  uncounted,  \* observer: Redis has failed for one of them
  trouble     \* how often something has gone wrong

vars == <<chinese, used, run, sent, uncounted, trouble>>

At(p, phase) == run[p] # None /\ run[p].phase = phase
Asks(p, k, phase) ==
  run' = [run EXCEPT ![p].left = @ \ {k}, ![p].asked = k, ![p].phase = phase]
Done(p, found) ==
  run' = [run EXCEPT ![p].done = @ \cup found, ![p].asked = None, ![p].phase = "read"]
Troubled == trouble < MaxTrouble /\ trouble' = trouble + 1

-----------------------------------------------------------------------------

\* Faulty variant: the limit leaves only the oldest.
BatchOne(ids) == {k \in ids : \A j \in ids : k <= j}

Batch(ids) == {k \in ids : Cardinality({j \in ids : j < k}) < BatchLimit}

Begin(p) ==
  LET pending == Keywords \ chinese IN
  /\ run[p] = None /\ pending # {}
  /\ run' = [run EXCEPT ![p] = [left |-> Batch(pending), done |-> {}, asked |-> None, phase |-> "read"]]
  /\ UNCHANGED <<chinese, used, sent, uncounted, trouble>>

\* What the session holds is committed, at the end and when the budget is reached.
Commit(p) ==
  /\ chinese' = chinese \cup run[p].done
  /\ run' = [run EXCEPT ![p] = None]

\* The oldest first.
Oldest(p, k) == k \in run[p].left /\ \A j \in run[p].left : k <= j

\* Faulty variant: the budget is only looked at once it is passed.
ExceedsLate(k) == used > Budget

Exceeds(k) == used + Length[k] > Budget

\* Faulty variant: the error leaves the run.
StopRaising(p) ==
  /\ At(p, "read") /\ \E k \in Keywords : Oldest(p, k) /\ Exceeds(k)
  /\ run' = [run EXCEPT ![p] = None]
  /\ UNCHANGED <<chinese, used, sent, uncounted, trouble>>

\* QuotaExceededError ends the loop.
Stop(p) ==
  /\ At(p, "read") /\ \E k \in Keywords : Oldest(p, k) /\ Exceeds(k)
  /\ Commit(p)
  /\ UNCHANGED <<used, sent, uncounted, trouble>>

ReadBudget(p) ==
  /\ At(p, "read")
  /\ \E k \in Keywords : Oldest(p, k) /\ ~Exceeds(k) /\ Asks(p, k, "reserve")
  /\ UNCHANGED <<chinese, used, sent, uncounted, trouble>>

\* Faulty variant: requests are counted, not characters.
ReserveOne(p) ==
  /\ At(p, "reserve") /\ run' = [run EXCEPT ![p].phase = "send"]
  /\ used' = used + 1 /\ sent' = sent + Length[run[p].asked]
  /\ UNCHANGED <<chinese, uncounted, trouble>>

Reserve(p) ==
  /\ At(p, "reserve") /\ run' = [run EXCEPT ![p].phase = "send"]
  /\ used' = used + Length[run[p].asked] /\ sent' = sent + Length[run[p].asked]
  /\ UNCHANGED <<chinese, uncounted, trouble>>

\* Redis does not answer, to either command: the request is sent all the same.
SkipRead(p) ==
  /\ At(p, "read") /\ Troubled
  /\ \E k \in Keywords : Oldest(p, k) /\ Asks(p, k, "send") /\ sent' = sent + Length[k]
  /\ uncounted' = TRUE
  /\ UNCHANGED <<chinese, used>>

SkipReserve(p) ==
  /\ At(p, "reserve") /\ Troubled
  /\ run' = [run EXCEPT ![p].phase = "send"]
  /\ sent' = sent + Length[run[p].asked] /\ uncounted' = TRUE
  /\ UNCHANGED <<chinese, used>>

\* Faulty variant: an empty translation is stored as one.
AnsweredEmpty(p, k) ==
  /\ At(p, "send") /\ k = run[p].asked /\ Done(p, {k})
  /\ UNCHANGED <<chinese, used, sent, uncounted, trouble>>

\* An empty translation is kept as none: the keyword stays pending.
Answered(p, k) ==
  /\ At(p, "send") /\ k = run[p].asked /\ Done(p, {k} \ Silent)
  /\ UNCHANGED <<chinese, used, sent, uncounted, trouble>>

\* Any other error: the next keyword.
Failed(p) ==
  /\ At(p, "send") /\ Done(p, {})
  /\ UNCHANGED <<chinese, used, sent, uncounted, trouble>>

\* 429, or 403 for a quota: like the budget.
Refused(p) ==
  /\ At(p, "send") /\ Troubled /\ Commit(p)
  /\ UNCHANGED <<used, sent, uncounted>>

Finish(p) ==
  /\ At(p, "read") /\ run[p].left = {} /\ Commit(p)
  /\ UNCHANGED <<used, sent, uncounted, trouble>>

\* The process ends or the commit is refused.
LoseRun(p) ==
  /\ run[p] # None /\ Troubled
  /\ run' = [run EXCEPT ![p] = None]
  /\ UNCHANGED <<chinese, used, sent, uncounted>>

\* The key of the month is read first: what is yet to be reserved goes to the old one. What is
\* reserved counts for that month, also when its request goes out after midnight.
NewMonth ==
  /\ used' = 0 /\ sent' = 0 /\ uncounted' = FALSE
  /\ run' = [p \in Processes |->
       IF At(p, "reserve") THEN [run[p] EXCEPT !.phase = "send"] ELSE run[p]]
  /\ UNCHANGED <<chinese, trouble>>

-----------------------------------------------------------------------------

Init ==
  /\ chinese = {} /\ used = 0 /\ sent = 0 /\ uncounted = FALSE /\ trouble = 0
  /\ run = [p \in Processes |-> None]

Work(p) ==
  \/ Stop(p) \/ ReadBudget(p) \/ Reserve(p) \/ Failed(p) \/ Finish(p)
  \/ \E k \in Keywords : Answered(p, k)

Next ==
  \/ \E p \in Processes : Begin(p) \/ Work(p) \/ SkipRead(p) \/ SkipReserve(p) \/ Refused(p) \/ LoseRun(p)
  \/ NewMonth

\* The scheduler fires every hour, requests end in ten seconds, months pass, and a term
\* that is asked for again and again is answered some day.
Fairness ==
  /\ WF_vars(Begin(Scheduler)) /\ WF_vars(NewMonth)
  /\ \A p \in Processes : WF_vars(Work(p))
  /\ \A k \in Keywords : SF_vars(\E p \in Processes : Answered(p, k))

Spec == Init /\ [][Next]_vars
FairSpec == Spec /\ Fairness

-----------------------------------------------------------------------------
(* Properties *)

\* A run holds translations, none of what it has still to ask for.
TypeOK ==
  /\ chinese \subseteq Keywords \ Silent
  /\ run \in [Processes -> Runs \cup {None}]
  /\ \A p \in Processes : run[p] # None =>
       /\ run[p].left \cap run[p].done = {}
       /\ (run[p].asked = None <=> run[p].phase = "read")
       /\ run[p].asked \notin run[p].left \cup run[p].done
  /\ used \in Nat /\ sent \in Nat /\ trouble \in 0..MaxTrouble

\* MONTHLY_CHAR_BUDGET (clients/google_translate.py): although the counter is not
\* incremented atomically, the two processes together send at most one term more than
\* the budget in a month in which Redis answered.
SentWithinBudget == ~uncounted => sent <= Budget + Longest

\* "The un-translated keywords ... will be picked up on the next scheduler run"
\* (scheduler/jobs/translate_keywords.py): every term that has a translation gets it, over
\* months if the budget is short, past a term that never gets one and costs each time.
AllTranslated == \A k \in Keywords \ Silent : <>(k \in chinese)

=============================================================================
