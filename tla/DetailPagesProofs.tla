-------------------------- MODULE DetailPagesProofs --------------------------
(***************************************************************************)
(* Proofs about DetailPages, for any pages, payloads, templates and bounds. *)
(***************************************************************************)
EXTENDS DetailPages, TLAPS

(* The source of every page row has been stored. *)
SourceStored ==
  \A p \in Pages : row[p] # None => source[row[p].url] # None

(* What a coroutine holds in each phase.  Every row a running task loaded    *)
(* was loaded just after the task had marked it: processing, no failure.     *)
TaskShape ==
  \A t \in Tasks :
    /\ Live(t) => task[t].page \in Pages /\ row[task[t].page] # None
    /\ task[t].phase \in Running =>
         /\ task[t].loaded \in Rows /\ task[t].payload \in Payloads
         /\ task[t].loaded.status = "processing" /\ ~task[t].loaded.reason
    /\ task[t].phase # "rendering" => task[t].props = None
    /\ task[t].phase = "rendering" => task[t].props \in Props

(* Task numbers are handed out in order. *)
NumbersInOrder == \A t \in Tasks : t > spawned => task[t] = Unborn

IInv == TypeOK /\ SourceStored /\ TaskShape /\ NumbersInOrder

-----------------------------------------------------------------------------

(* The unit of work of a running task always sends a final status, because   *)
(* the status it loaded was processing; and what it sends is a row again.    *)
LEMMA FlushSettles ==
  ASSUME NEW current \in Rows, NEW loaded \in Rows, NEW new \in Rows,
         loaded.status = "processing", new.status \in Settled
  PROVE  /\ Flush(current, loaded, new) \in Rows
         /\ Flush(current, loaded, new).status = new.status
         /\ Flush(current, loaded, new).url = current.url
         /\ Flush(current, loaded, new).tpl = current.tpl
  BY DEF Flush, Changed, Rows, Settled

(* The rows a running task means to write. *)
LEMMA OutcomeRows ==
  ASSUME IInv, NEW t \in Tasks, task[t].phase \in Running
  PROVE  /\ AsFailed(t) \in Rows
         /\ AsFailed(t).status = "failed" /\ AsFailed(t).reason
         /\ AsFailed(t).image = task[t].loaded.image
         /\ task[t].phase = "rendering" =>
              /\ AsDone(t) \in Rows /\ AsDone(t).status = "done"
              /\ Picture(t) \in Pictures
<1>1. /\ task[t].loaded \in Rows
      /\ task[t].props \in Props \cup {None}
      /\ task[t].phase = "rendering" => task[t].props \in Props
  BY DEF IInv, TypeOK, TaskShape, Coroutines
<1>2. /\ WithProps(t) \in Rows
      /\ WithProps(t).image = task[t].loaded.image
  BY <1>1 DEF WithProps, TitleOf, Rows, Props
<1>3. /\ AsFailed(t) \in Rows
      /\ AsFailed(t).status = "failed" /\ AsFailed(t).reason
      /\ AsFailed(t).image = task[t].loaded.image
  BY <1>2 DEF AsFailed, Rows, Statuses
<1>4. AsDone(t) \in Rows /\ AsDone(t).status = "done"
  BY <1>2 DEF AsDone, Rows, Statuses
<1>5. task[t].phase = "rendering" => Picture(t) \in Pictures
  BY <1>1 DEF Picture, Pictures, Rows
<1>6. QED
  BY <1>3, <1>4, <1>5

LEMMA InitIInv == Init => IInv
  BY BoundsAssumption, NoneAssumption
  DEF Init, IInv, TypeOK, SourceStored, TaskShape, NumbersInOrder, Tasks,
      Unborn, Coroutines, Phases, Running, Live

(* A task that was just spawned. *)
LEMMA SpawnKeeps ==
  ASSUME IInv, NEW p \in Pages, Spawn(p)
  PROVE  /\ spawned' \in 0..MaxTasks
         /\ task' \in [Tasks -> Coroutines]
         /\ spawned + 1 \in Tasks
         /\ task[spawned + 1] = Unborn
         /\ ~Live(spawned + 1)
         /\ task'[spawned + 1].phase = "scheduled"
         /\ task'[spawned + 1].page = p
         /\ task'[spawned + 1] = [Unborn EXCEPT !.phase = "scheduled", !.page = p]
         /\ \A t \in Tasks \ {spawned + 1} : task'[t] = task[t]
         /\ NumbersInOrder'
<1>1. spawned \in Nat /\ spawned < MaxTasks /\ spawned' = spawned + 1
  BY BoundsAssumption DEF IInv, TypeOK, Spawn
<1>2. spawned + 1 \in Tasks /\ spawned' \in 0..MaxTasks
  BY <1>1, BoundsAssumption DEF Tasks
<1>3. [Unborn EXCEPT !.phase = "scheduled", !.page = p] \in Coroutines
  BY DEF Unborn, Coroutines, Phases
<1>4. task' \in [Tasks -> Coroutines]
  BY <1>2, <1>3 DEF IInv, TypeOK, Spawn
<1>5. /\ task'[spawned + 1] = [Unborn EXCEPT !.phase = "scheduled", !.page = p]
      /\ \A t \in Tasks \ {spawned + 1} : task'[t] = task[t]
  BY <1>2 DEF IInv, TypeOK, Spawn
<1>6. task[spawned + 1] = Unborn
  BY <1>1, <1>2 DEF IInv, NumbersInOrder
<1>7. NumbersInOrder'
  <2> SUFFICES ASSUME NEW t \in Tasks', t > spawned'
               PROVE  task'[t] = Unborn
    BY DEF NumbersInOrder
  <2>1. t \in Tasks /\ t > spawned /\ t # spawned + 1
    BY <1>1 DEF Tasks
  <2>2. QED
    BY <2>1, <1>5 DEF IInv, NumbersInOrder
<1>8. /\ ~Live(spawned + 1)
      /\ task'[spawned + 1].phase = "scheduled"
      /\ task'[spawned + 1].page = p
  BY <1>5, <1>6 DEF Live, Running, Unborn
<1>9. QED
  BY <1>2, <1>4, <1>5, <1>6, <1>7, <1>8

-----------------------------------------------------------------------------
(* The invariant is inductive: one lemma per action, or pair of like ones.   *)

LEMMA IngestKeeps ==
  ASSUME IInv, NEW u \in Urls, NEW y \in Payloads, NEW tpl \in Templates,
         Ingest(u, y, tpl)
  PROVE  IInv'
<1>1. PICK p \in Pages :
        /\ row[p] = None
        /\ row' = [row EXCEPT ![p] =
                     [url |-> u, status |-> "pending", tpl |-> tpl,
                      props |-> None, title |-> None,
                      image |-> FALSE, reason |-> FALSE]]
        /\ Spawn(p)
  BY DEF Ingest
<1>2. /\ source' = [source EXCEPT ![u] = y] 
      /\ jpg' = jpg /\ crashes' = crashes /\ dbErrors' = dbErrors
  BY DEF Ingest
<1> DEFINE new == [url |-> u, status |-> "pending", tpl |-> tpl,
                   props |-> None, title |-> None,
                   image |-> FALSE, reason |-> FALSE]
<1>a. new \in Rows /\ new.url = u
  BY DEF Rows, Statuses
<1>3. new \in Rows /\ new # None /\ new.url = u
  BY <1>a, NoneAssumption
<1>4. /\ row' \in [Pages -> Rows \cup {None}]
      /\ row'[p] = new
      /\ \A q \in Pages \ {p} : row'[q] = row[q]
  BY <1>1, <1>3 DEF IInv, TypeOK
<1>5. TypeOK'
  BY <1>1, <1>2, <1>4, SpawnKeeps DEF IInv, TypeOK
<1>6. SourceStored'
  BY <1>2, <1>3, <1>4, NoneAssumption DEF IInv, TypeOK, SourceStored, Rows
<1>7. TaskShape'
  <2>1. \A q \in Pages : row[q] # None => row'[q] # None
    BY <1>3, <1>4
  <2>2. /\ task'[spawned + 1].phase = "scheduled"
        /\ task'[spawned + 1].page = p
        /\ task'[spawned + 1].props = None
    BY <1>1, SpawnKeeps DEF Unborn
  <2>3. \A t \in Tasks \ {spawned + 1} : task'[t] = task[t]
    BY <1>1, SpawnKeeps
  <2>4. QED
    BY <2>1, <2>2, <2>3, <1>3, <1>4 DEF IInv, TaskShape, Live, Running, Tasks
<1>8. NumbersInOrder'
  BY <1>1, SpawnKeeps
<1>9. QED
  BY <1>5, <1>6, <1>7, <1>8 DEF IInv

LEMMA RegenerateKeeps ==
  ASSUME IInv, NEW p \in Pages, NEW tpl \in Templates, Regenerate(p, tpl)
  PROVE  IInv'
<1>1. /\ row[p] \in Rows /\ row[p] # None
      /\ row' = [row EXCEPT ![p] =
                   [row[p] EXCEPT !.tpl = tpl, !.status = "pending",
                      !.image = FALSE, !.reason = FALSE, !.props = None]]
      /\ Spawn(p)
      /\ source' = source /\ jpg' = jpg
      /\ crashes' = crashes /\ dbErrors' = dbErrors
  BY DEF Regenerate, IInv, TypeOK
<1> DEFINE new == [row[p] EXCEPT !.tpl = tpl, !.status = "pending",
                      !.image = FALSE, !.reason = FALSE, !.props = None]
<1>2. new \in Rows /\ new # None /\ new.url = row[p].url
  BY <1>1, NoneAssumption DEF Rows, Statuses
<1>3. /\ row' \in [Pages -> Rows \cup {None}]
      /\ row'[p] = new
      /\ \A q \in Pages \ {p} : row'[q] = row[q]
  BY <1>1, <1>2 DEF IInv, TypeOK
<1>4. TypeOK'
  BY <1>1, <1>3, SpawnKeeps DEF IInv, TypeOK
<1>5. SourceStored'
  BY <1>1, <1>2, <1>3 DEF IInv, SourceStored
<1>6. TaskShape'
  <2>1. /\ task'[spawned + 1].phase = "scheduled"
        /\ task'[spawned + 1].page = p
        /\ task'[spawned + 1].props = None
    BY <1>1, SpawnKeeps DEF Unborn
  <2>2. \A t \in Tasks \ {spawned + 1} : task'[t] = task[t]
    BY <1>1, SpawnKeeps
  <2>3. QED
    BY <2>1, <2>2, <1>1, <1>2, <1>3
    DEF IInv, TaskShape, Live, Running, Tasks
<1>7. NumbersInOrder'
  BY <1>1, SpawnKeeps
<1>8. QED
  BY <1>4, <1>5, <1>6, <1>7 DEF IInv

LEMMA StartKeeps ==
  ASSUME IInv, NEW t \in Tasks, Start(t)
  PROVE  IInv'
<1> DEFINE p == task[t].page
           marked == [row[p] EXCEPT !.status = "processing", !.reason = FALSE]
<1>1. /\ p \in Pages /\ row[p] \in Rows /\ row[p] # None
      /\ source[row[p].url] \in Payloads
      /\ task[t].props \in Props \cup {None}
  BY DEF Start, First, IInv, TypeOK, TaskShape, SourceStored, Live, Rows, Coroutines
<1>2. /\ marked \in Rows /\ marked # None /\ marked.url = row[p].url
      /\ marked.status = "processing" /\ ~marked.reason
  BY <1>1, NoneAssumption DEF Rows, Statuses
<1>3. /\ row' = [row EXCEPT ![p] = marked]
      /\ row' \in [Pages -> Rows \cup {None}]
      /\ \A q \in Pages : row[q] # None => row'[q] # None
      /\ \A q \in Pages : row'[q] # None => row[q] # None /\ row'[q].url = row[q].url
  BY <1>1, <1>2 DEF Start, First, IInv, TypeOK
<1> DEFINE started == [task[t] EXCEPT !.phase = "drafting", !.loaded = marked,
                                     !.payload = source[marked.url]]
<1>b. /\ started \in Coroutines
      /\ started.phase = "drafting" /\ started.page = p
      /\ started.loaded = marked /\ started.payload \in Payloads
      /\ started.props = task[t].props
  <2>1. task[t] \in Coroutines /\ source[marked.url] \in Payloads
    BY <1>1, <1>2 DEF IInv, TypeOK
  <2>2. QED
    BY <2>1, <1>2 DEF Coroutines, Phases, Running
<1>c. task' = [task EXCEPT ![t] = started]
  BY DEF Start
<1>4. /\ task'[t].phase = "drafting" /\ task'[t].page = p
      /\ task'[t].loaded = marked /\ task'[t].payload \in Payloads
      /\ task'[t].props = task[t].props
      /\ \A u \in Tasks \ {t} : task'[u] = task[u]
      /\ task' \in [Tasks -> Coroutines]
  BY <1>b, <1>c DEF IInv, TypeOK
<1>5. UNCHANGED <<source, jpg, spawned, crashes, dbErrors>>
  BY DEF Start
<1>6. TypeOK'
  BY <1>3, <1>4, <1>5 DEF IInv, TypeOK
<1>7. SourceStored'
  BY <1>3, <1>5 DEF IInv, SourceStored
<1>8. TaskShape'
  BY <1>1, <1>2, <1>3, <1>4 DEF IInv, TaskShape, Live, Running, Start, First, Tasks
<1>9. NumbersInOrder'
  BY <1>4, <1>5 DEF IInv, NumbersInOrder, Start, First, Unborn, Tasks
<1>10. QED
  BY <1>6, <1>7, <1>8, <1>9 DEF IInv

LEMMA CopywriteKeeps ==
  ASSUME IInv, NEW t \in Tasks, NEW copy \in Copies, Copywrite(t, copy)
  PROVE  IInv'
<1> DEFINE drafted == [task[t] EXCEPT !.phase = "rendering",
                          !.props = [payload |-> task[t].payload, copy |-> copy]]
<1>1. /\ task[t] \in Coroutines /\ task[t].phase = "drafting"
      /\ task[t].payload \in Payloads
  BY DEF Copywrite, IInv, TypeOK, TaskShape, Running
<1>2. /\ drafted \in Coroutines
      /\ drafted.phase = "rendering" /\ drafted.props \in Props
      /\ drafted.page = task[t].page /\ drafted.loaded = task[t].loaded
      /\ drafted.payload = task[t].payload
  BY <1>1 DEF Coroutines, Phases, Running, Props
<1>3. /\ task' = [task EXCEPT ![t] = drafted]
      /\ UNCHANGED <<source, row, jpg, spawned, crashes, dbErrors>>
  BY DEF Copywrite
<1>4. /\ task' \in [Tasks -> Coroutines] /\ task'[t] = drafted
      /\ \A u \in Tasks \ {t} : task'[u] = task[u]
  BY <1>2, <1>3 DEF IInv, TypeOK
<1>5. TypeOK' /\ SourceStored'
  BY <1>3, <1>4 DEF IInv, TypeOK, SourceStored
<1>6. TaskShape'
  BY <1>1, <1>2, <1>3, <1>4 DEF IInv, TaskShape, Live, Running, Tasks
<1>7. NumbersInOrder'
  BY <1>1, <1>3, <1>4 DEF IInv, NumbersInOrder, Unborn, Tasks
<1>8. QED
  BY <1>5, <1>6, <1>7 DEF IInv

(* A task that ended or was lost leaves the others as they are. *)
LEMMA RetireKeeps ==
  ASSUME IInv, NEW t \in Tasks, NEW how \in {"ended", "lost"},
         Retire(t, how), task[t].phase # "unborn", spawned' = spawned
  PROVE  /\ task' \in [Tasks -> Coroutines]
         /\ task'[t].phase = how /\ task'[t].props = None
         /\ \A u \in Tasks \ {t} : task'[u] = task[u]
         /\ NumbersInOrder'
<1> DEFINE gone == [Unborn EXCEPT !.phase = how]
<1>1. gone \in Coroutines /\ gone.phase = how /\ gone.props = None
  BY DEF Unborn, Coroutines, Phases
<1>2. /\ task' \in [Tasks -> Coroutines] /\ task'[t] = gone
      /\ \A u \in Tasks \ {t} : task'[u] = task[u]
  BY <1>1 DEF Retire, IInv, TypeOK
<1>3. NumbersInOrder'
  BY <1>2 DEF IInv, NumbersInOrder, Unborn, Tasks
<1>4. QED
  BY <1>1, <1>2, <1>3

(* The row a task that finishes or fails leaves behind. *)
LEMMA OutcomeFlushed ==
  ASSUME IInv, NEW t \in Tasks, task[t].phase \in Running,
         NEW new \in Rows, new.status \in Settled,
         row' = [row EXCEPT ![task[t].page] = Flush(@, task[t].loaded, new)]
  PROVE  LET p == task[t].page IN
         /\ p \in Pages /\ row[p] \in Rows /\ row[p] # None
         /\ row' \in [Pages -> Rows \cup {None}]
         /\ row'[p] = Flush(row[p], task[t].loaded, new)
         /\ row'[p] \in Rows /\ row'[p] # None
         /\ row'[p].status = new.status
         /\ row'[p].url = row[p].url /\ row'[p].tpl = row[p].tpl
         /\ \A q \in Pages \ {p} : row'[q] = row[q]
<1> DEFINE p == task[t].page
<1>1. /\ p \in Pages /\ row[p] \in Rows /\ row[p] # None
      /\ task[t].loaded \in Rows /\ task[t].loaded.status = "processing"
  BY DEF IInv, TypeOK, TaskShape, Live
<1>2. /\ Flush(row[p], task[t].loaded, new) \in Rows
      /\ Flush(row[p], task[t].loaded, new).status = new.status
      /\ Flush(row[p], task[t].loaded, new).url = row[p].url
      /\ Flush(row[p], task[t].loaded, new).tpl = row[p].tpl
  BY <1>1, FlushSettles
<1>3. row' = [row EXCEPT ![p] = Flush(row[p], task[t].loaded, new)]
  OBVIOUS
<1>4. Flush(row[p], task[t].loaded, new) # None
  BY <1>2, NoneAssumption
<1>5. QED
  BY <1>1, <1>2, <1>3, <1>4 DEF IInv, TypeOK

LEMMA FinishKeeps ==
  ASSUME IInv, NEW t \in Tasks, Finish(t)
  PROVE  IInv'
<1> DEFINE p == task[t].page
<1>1. /\ task[t].phase = "rendering" /\ task[t].phase \in Running
      /\ row' = [row EXCEPT ![p] = Flush(@, task[t].loaded, AsDone(t))]
      /\ jpg' = [jpg EXCEPT ![p] = Picture(t)]
      /\ Retire(t, "ended")
      /\ UNCHANGED <<source, spawned, crashes, dbErrors>>
  BY DEF Finish, Running
<1>2. AsDone(t) \in Rows /\ AsDone(t).status \in Settled /\ Picture(t) \in Pictures
  BY <1>1, OutcomeRows DEF Settled
<1>3. /\ p \in Pages /\ row[p] # None /\ row'[p] # None
      /\ row' \in [Pages -> Rows \cup {None}]
      /\ row'[p].url = row[p].url
      /\ \A q \in Pages \ {p} : row'[q] = row[q]
  BY <1>1, <1>2, OutcomeFlushed
<1>4. /\ task' \in [Tasks -> Coroutines]
      /\ task'[t].phase = "ended" /\ task'[t].props = None
      /\ \A u \in Tasks \ {t} : task'[u] = task[u]
      /\ NumbersInOrder'
  BY <1>1, RetireKeeps DEF Running
<1>5. TypeOK' /\ SourceStored'
  BY <1>1, <1>2, <1>3, <1>4 DEF IInv, TypeOK, SourceStored
<1>6. TaskShape'
  BY <1>3, <1>4 DEF IInv, TaskShape, Live, Running, Tasks
<1>7. QED
  BY <1>4, <1>5, <1>6 DEF IInv

LEMMA FailKeeps ==
  ASSUME IInv, NEW t \in Tasks, Fail(t)
  PROVE  IInv'
<1> DEFINE p == task[t].page
<1>1. /\ task[t].phase \in Running
      /\ row' = [row EXCEPT ![p] = Flush(@, task[t].loaded, AsFailed(t))]
      /\ Retire(t, "ended")
      /\ UNCHANGED <<source, jpg, spawned, crashes, dbErrors>>
  BY DEF Fail
<1>2. AsFailed(t) \in Rows /\ AsFailed(t).status \in Settled
  BY <1>1, OutcomeRows DEF Settled
<1>3. /\ p \in Pages /\ row[p] # None /\ row'[p] # None
      /\ row' \in [Pages -> Rows \cup {None}]
      /\ row'[p].url = row[p].url
      /\ \A q \in Pages \ {p} : row'[q] = row[q]
  BY <1>1, <1>2, OutcomeFlushed
<1>4. /\ task' \in [Tasks -> Coroutines]
      /\ task'[t].phase = "ended" /\ task'[t].props = None
      /\ \A u \in Tasks \ {t} : task'[u] = task[u]
      /\ NumbersInOrder'
  BY <1>1, RetireKeeps DEF Running
<1>5. TypeOK' /\ SourceStored'
  BY <1>1, <1>3, <1>4 DEF IInv, TypeOK, SourceStored
<1>6. TaskShape'
  BY <1>3, <1>4 DEF IInv, TaskShape, Live, Running, Tasks
<1>7. QED
  BY <1>4, <1>5, <1>6 DEF IInv

LEMMA CommitFailsKeeps ==
  ASSUME IInv, NEW t \in Tasks, CommitFails(t)
  PROVE  IInv'
<1> DEFINE p == task[t].page
<1>1. /\ task[t].phase \in {"scheduled"} \cup Running
      /\ dbErrors' = dbErrors + 1 /\ dbErrors < MaxDbErrors
      /\ \/ task[t].phase = "rendering" /\ jpg' = [jpg EXCEPT ![p] = Picture(t)]
         \/ UNCHANGED jpg
      /\ Retire(t, "lost")
      /\ UNCHANGED <<source, row, spawned, crashes>>
  BY DEF CommitFails, First, Running
<1>2. /\ p \in Pages /\ dbErrors' \in 0..MaxDbErrors
      /\ task[t].phase = "rendering" => Picture(t) \in Pictures
  BY <1>1, OutcomeRows, BoundsAssumption DEF IInv, TypeOK, TaskShape, Live, Running
<1>3. /\ task' \in [Tasks -> Coroutines]
      /\ task'[t].phase = "lost" /\ task'[t].props = None
      /\ \A u \in Tasks \ {t} : task'[u] = task[u]
      /\ NumbersInOrder'
  BY <1>1, RetireKeeps DEF Running
<1>4. TypeOK' /\ SourceStored'
  BY <1>1, <1>2, <1>3 DEF IInv, TypeOK, SourceStored
<1>5. TaskShape'
  BY <1>1, <1>3 DEF IInv, TaskShape, Live, Running, Tasks
<1>6. QED
  BY <1>3, <1>4, <1>5 DEF IInv

LEMMA CrashKeeps ==
  ASSUME IInv, Crash
  PROVE  IInv'
<1> DEFINE gone == [Unborn EXCEPT !.phase = "lost"]
<1>1. gone \in Coroutines /\ gone.phase = "lost" /\ gone.props = None
  BY DEF Unborn, Coroutines, Phases
<1>2. /\ crashes' = crashes + 1 /\ crashes < MaxCrashes
      /\ task' = [t \in Tasks |-> IF Live(t) THEN gone ELSE task[t]]
      /\ UNCHANGED <<source, row, jpg, spawned, dbErrors>>
  BY DEF Crash
<1>3. crashes' \in 0..MaxCrashes /\ task' \in [Tasks -> Coroutines]
  BY <1>1, <1>2, BoundsAssumption DEF IInv, TypeOK
<1>4. \A t \in Tasks : task'[t] = IF Live(t) THEN gone ELSE task[t]
  BY <1>2
<1>5. TypeOK' /\ SourceStored'
  BY <1>2, <1>3 DEF IInv, TypeOK, SourceStored
<1>6. TaskShape'
  BY <1>1, <1>2, <1>4 DEF IInv, TaskShape, Live, Running, Tasks
<1>7. NumbersInOrder'
  BY <1>2, <1>4 DEF IInv, NumbersInOrder, Live, Running, Unborn, Tasks
<1>8. QED
  BY <1>5, <1>6, <1>7 DEF IInv

LEMMA NextIInv == IInv /\ [Next]_vars => IInv'
<1> SUFFICES ASSUME IInv, [Next]_vars PROVE IInv'
  OBVIOUS
<1>1. CASE UNCHANGED vars
  BY <1>1 DEF vars, IInv, TypeOK, SourceStored, TaskShape, NumbersInOrder, Live,
              Tasks
<1>2. CASE Next
  BY <1>2, IngestKeeps, RegenerateKeeps, StartKeeps, CopywriteKeeps,
     FinishKeeps, FailKeeps, CommitFailsKeeps, CrashKeeps
  DEF Next, Request, Step
<1>3. QED
  BY <1>1, <1>2

(* Type correctness, with what it rests on. *)
LEMMA Invariance == Spec => []IInv
<1>1. QED
  BY InitIInv, NextIInv, PTL DEF Spec

(* Every variable keeps its type, whatever overlaps, fails or crashes.       *)
THEOREM TypeCorrect == Spec => []TypeOK
<1>1. IInv => TypeOK
  BY DEF IInv
<1>2. QED
  BY <1>1, Invariance, PTL

-----------------------------------------------------------------------------
(* What one step may do to the rows, the tasks and the pictures: the facts   *)
(* about Next from which the safety properties follow.                       *)

LEMMA FinishEffect ==
  ASSUME IInv, NEW t \in Tasks, Finish(t)
  PROVE  LET p == task[t].page IN
         /\ p \in Pages /\ row[p] \in Rows /\ row[p] # None
         /\ row'[p] # None /\ row'[p].status = "done"
         /\ row'[p] = Flush(row[p], task[t].loaded, AsDone(t))
         /\ \A q \in Pages \ {p} : row'[q] = row[q] /\ jpg'[q] = jpg[q]
         /\ jpg'[p] = Picture(t) /\ jpg'[p] # None
         /\ ~Live(t)' /\ \A u \in Tasks \ {t} : task'[u] = task[u]
         /\ crashes' = crashes /\ dbErrors' = dbErrors
<1> DEFINE p == task[t].page
<1>1. /\ task[t].phase = "rendering" /\ task[t].phase \in Running
      /\ row' = [row EXCEPT ![p] = Flush(@, task[t].loaded, AsDone(t))]
      /\ jpg' = [jpg EXCEPT ![p] = Picture(t)]
      /\ Retire(t, "ended")
      /\ UNCHANGED <<source, spawned, crashes, dbErrors>>
  BY DEF Finish, Running
<1>2. /\ AsDone(t) \in Rows /\ AsDone(t).status = "done"
      /\ AsDone(t).status \in Settled /\ Picture(t) \in Pictures
  BY <1>1, OutcomeRows DEF Settled
<1>3. /\ p \in Pages /\ row[p] \in Rows /\ row[p] # None
      /\ row'[p] # None /\ row'[p].status = "done"
      /\ row'[p] = Flush(row[p], task[t].loaded, AsDone(t))
      /\ \A q \in Pages \ {p} : row'[q] = row[q]
  BY <1>1, <1>2, OutcomeFlushed
<1>4. /\ jpg'[p] = Picture(t) /\ \A q \in Pages \ {p} : jpg'[q] = jpg[q]
      /\ Picture(t) # None
  BY <1>1, <1>2, <1>3, NoneAssumption DEF IInv, TypeOK
<1>5. task'[t].phase = "ended" /\ \A u \in Tasks \ {t} : task'[u] = task[u]
  BY <1>1, RetireKeeps DEF Running
<1>6. QED
  BY <1>1, <1>3, <1>4, <1>5 DEF Live, Running

LEMMA FailEffect ==
  ASSUME IInv, NEW t \in Tasks, Fail(t)
  PROVE  LET p == task[t].page IN
         /\ p \in Pages /\ row[p] \in Rows /\ row[p] # None
         /\ row'[p] # None /\ row'[p].status = "failed" /\ row'[p].reason
         /\ row'[p].image = row[p].image /\ row'[p].tpl = row[p].tpl
         /\ \A q \in Pages \ {p} : row'[q] = row[q]
         /\ jpg' = jpg
         /\ ~Live(t)' /\ \A u \in Tasks \ {t} : task'[u] = task[u]
         /\ crashes' = crashes /\ dbErrors' = dbErrors
<1> DEFINE p == task[t].page
<1>1. /\ task[t].phase \in Running
      /\ row' = [row EXCEPT ![p] = Flush(@, task[t].loaded, AsFailed(t))]
      /\ Retire(t, "ended")
      /\ UNCHANGED <<source, jpg, spawned, crashes, dbErrors>>
  BY DEF Fail
<1>2. /\ AsFailed(t) \in Rows /\ AsFailed(t).status = "failed"
      /\ AsFailed(t).status \in Settled /\ AsFailed(t).reason
      /\ AsFailed(t).image = task[t].loaded.image
      /\ ~task[t].loaded.reason /\ task[t].loaded \in Rows
  BY <1>1, OutcomeRows DEF Settled, IInv, TaskShape
<1>3. /\ p \in Pages /\ row[p] \in Rows /\ row[p] # None
      /\ row'[p] # None /\ row'[p].status = "failed"
      /\ row'[p] = Flush(row[p], task[t].loaded, AsFailed(t))
      /\ row'[p].tpl = row[p].tpl
      /\ \A q \in Pages \ {p} : row'[q] = row[q]
  BY <1>1, <1>2, OutcomeFlushed
<1>4. row'[p].reason /\ row'[p].image = row[p].image
  <2>1. AsFailed(t).reason # task[t].loaded.reason
    BY <1>2
  <2>2. row'[p].reason = AsFailed(t).reason
    BY <1>3, <2>1 DEF Flush, Changed
  <2>3. row'[p].image = row[p].image
    BY <1>2, <1>3 DEF Flush, Changed
  <2>4. QED
    BY <1>2, <2>2, <2>3
<1>5. task'[t].phase = "ended" /\ \A u \in Tasks \ {t} : task'[u] = task[u]
  BY <1>1, RetireKeeps DEF Running
<1>6. QED
  BY <1>1, <1>3, <1>4, <1>5 DEF Live, Running

LEMMA StartEffect ==
  ASSUME IInv, NEW t \in Tasks, Start(t)
  PROVE  LET p == task[t].page
             marked == [row[p] EXCEPT !.status = "processing", !.reason = FALSE] IN
         /\ p \in Pages /\ row[p] \in Rows /\ row[p] # None
         /\ row' = [row EXCEPT ![p] = marked]
         /\ row'[p] = marked /\ marked \in Rows /\ row'[p] # None
         /\ row'[p].status = "processing" /\ row'[p].tpl = row[p].tpl
         /\ row'[p].image = row[p].image
         /\ Live(t) /\ Live(t)'
         /\ \A q \in Pages \ {p} : row'[q] = row[q]
         /\ task'[t].page = p /\ task'[t].phase = "drafting"
         /\ task'[t].loaded = marked
         /\ \A u \in Tasks \ {t} : task'[u] = task[u]
         /\ jpg' = jpg /\ crashes' = crashes /\ dbErrors' = dbErrors
<1> DEFINE p == task[t].page
           marked == [row[p] EXCEPT !.status = "processing", !.reason = FALSE]
           started == [task[t] EXCEPT !.phase = "drafting", !.loaded = marked,
                                      !.payload = source[marked.url]]
<1>1. p \in Pages /\ row[p] \in Rows /\ row[p] # None
  BY DEF Start, First, IInv, TypeOK, TaskShape, Live
<1>2. marked \in Rows /\ marked # None
  <2>1. marked \in Rows
    BY <1>1 DEF Rows, Statuses
  <2>2. QED
    BY <2>1, NoneAssumption
<1>3. /\ row' = [row EXCEPT ![p] = marked] /\ task' = [task EXCEPT ![t] = started]
      /\ UNCHANGED <<source, jpg, spawned, crashes, dbErrors>>
  BY DEF Start, First
<1>4. task[t] \in Coroutines
  BY DEF IInv, TypeOK
<1>5. /\ started.page = p /\ started.phase = "drafting"
      /\ started.loaded = marked
  BY <1>4 DEF Coroutines
<1>6. /\ task'[t] = started
      /\ \A u \in Tasks \ {t} : task'[u] = task[u]
  BY <1>3 DEF IInv, TypeOK
<1>7. row'[p] = marked /\ \A q \in Pages \ {p} : row'[q] = row[q]
  BY <1>1, <1>3 DEF IInv, TypeOK
<1>8. /\ row'[p].status = "processing" /\ row'[p].tpl = row[p].tpl
      /\ row'[p].image = row[p].image
  BY <1>1, <1>7 DEF Rows
<1>9. Live(t) /\ Live(t)'
  BY <1>5, <1>6 DEF Start, First, Live, Running
<1>10. QED
  BY <1>1, <1>2, <1>3, <1>5, <1>6, <1>7, <1>8, <1>9

(* A request makes one page pending and gives it a task of its own.          *)
LEMMA RequestEffect ==
  ASSUME IInv, Request
  PROVE  \E p \in Pages, t \in Tasks :
         /\ row'[p] # None /\ row'[p].status = "pending" /\ ~row'[p].image
         /\ row'[p].tpl \in Templates
         /\ row[p] = None \/ Clickable(p)
         /\ \A q \in Pages \ {p} : row'[q] = row[q]
         /\ ~Live(t) /\ task'[t].phase = "scheduled" /\ task'[t].page = p
         /\ \A u \in Tasks \ {t} : task'[u] = task[u]
         /\ jpg' = jpg /\ crashes' = crashes /\ dbErrors' = dbErrors
<1>1. CASE \E u \in Urls, y \in Payloads, tpl \in Templates : Ingest(u, y, tpl)
  <2>1. PICK u \in Urls, y \in Payloads, tpl \in Templates : Ingest(u, y, tpl)
    BY <1>1
  <2> DEFINE new == [url |-> u, status |-> "pending", tpl |-> tpl,
                     props |-> None, title |-> None,
                     image |-> FALSE, reason |-> FALSE]
  <2>2. PICK p \in Pages :
          row[p] = None /\ row' = [row EXCEPT ![p] = new] /\ Spawn(p)
    BY <2>1 DEF Ingest
  <2>3. jpg' = jpg /\ crashes' = crashes /\ dbErrors' = dbErrors
    BY <2>1 DEF Ingest
  <2>4. new \in Rows /\ new.status = "pending" /\ ~new.image /\ new.tpl \in Templates
    BY DEF Rows, Statuses
  <2>5. new # None
    BY <2>4, NoneAssumption
  <2>6. row'[p] = new /\ \A q \in Pages \ {p} : row'[q] = row[q]
    BY <2>2 DEF IInv, TypeOK
  <2>7. /\ spawned + 1 \in Tasks /\ ~Live(spawned + 1)
        /\ task'[spawned + 1].phase = "scheduled"
        /\ task'[spawned + 1].page = p
        /\ \A u1 \in Tasks \ {spawned + 1} : task'[u1] = task[u1]
    BY <2>2, SpawnKeeps
  <2>8. QED
    BY <2>2, <2>3, <2>4, <2>5, <2>6, <2>7
<1>2. CASE \E p \in Pages, tpl \in Templates : Regenerate(p, tpl)
  <2>1. PICK p \in Pages, tpl \in Templates : Regenerate(p, tpl)
    BY <1>2
  <2> DEFINE new == [row[p] EXCEPT !.tpl = tpl, !.status = "pending",
                        !.image = FALSE, !.reason = FALSE, !.props = None]
  <2>2. /\ row[p] \in Rows /\ Clickable(p)
        /\ row' = [row EXCEPT ![p] = new] /\ Spawn(p)
        /\ jpg' = jpg /\ crashes' = crashes /\ dbErrors' = dbErrors
    BY <2>1 DEF Regenerate, IInv, TypeOK
  <2>3. new \in Rows /\ new.status = "pending" /\ ~new.image /\ new.tpl \in Templates
    BY <2>2 DEF Rows, Statuses
  <2>4. new # None
    BY <2>3, NoneAssumption
  <2>5. row'[p] = new /\ \A q \in Pages \ {p} : row'[q] = row[q]
    BY <2>2 DEF IInv, TypeOK
  <2>6. /\ spawned + 1 \in Tasks /\ ~Live(spawned + 1)
        /\ task'[spawned + 1].phase = "scheduled"
        /\ task'[spawned + 1].page = p
        /\ \A u1 \in Tasks \ {spawned + 1} : task'[u1] = task[u1]
    BY <2>2, SpawnKeeps
  <2>7. QED
    BY <2>2, <2>3, <2>4, <2>5, <2>6
<1>3. QED
  BY <1>1, <1>2 DEF Request

(* The steps that touch no row: a copy is drafted, a commit fails, a restart. *)
LEMMA SilentEffect ==
  ASSUME IInv,
         \/ \E t \in Tasks, copy \in Copies : Copywrite(t, copy)
         \/ \E t \in Tasks : CommitFails(t)
         \/ Crash
  PROVE  /\ row' = row
         /\ \A p \in Pages : jpg'[p] = jpg[p] \/ jpg'[p] # None
         /\ \A t \in Tasks : Live(t)' =>
              /\ Live(t) /\ task'[t].page = task[t].page
              /\ task'[t].loaded = task[t].loaded
              /\ task'[t].phase # task[t].phase =>
                     task'[t].phase \in Running /\ task[t].phase \in Running
         /\ \A p \in Pages : jpg'[p] # jpg[p] =>
              \E t \in Tasks : task[t].phase \in Running /\ task[t].page = p
         /\ crashes' = 0 /\ dbErrors' = 0 =>
              /\ crashes = 0 /\ dbErrors = 0
              /\ \A t \in Tasks : Live(t) => Live(t)'
<1>1. ASSUME NEW t \in Tasks, NEW copy \in Copies, Copywrite(t, copy)
      PROVE  /\ UNCHANGED <<row, jpg, crashes, dbErrors>>
             /\ task[t].phase = "drafting" /\ task'[t].phase = "rendering"
             /\ task'[t].page = task[t].page /\ task'[t].loaded = task[t].loaded
             /\ \A u \in Tasks \ {t} : task'[u] = task[u]
  <2> DEFINE drafted == [task[t] EXCEPT !.phase = "rendering",
                          !.props = [payload |-> task[t].payload, copy |-> copy]]
  <2>1. task[t] \in Coroutines /\ task' = [task EXCEPT ![t] = drafted]
    BY <1>1 DEF Copywrite, IInv, TypeOK
  <2>2. /\ drafted.phase = "rendering" /\ drafted.page = task[t].page
        /\ drafted.loaded = task[t].loaded
    BY <2>1 DEF Coroutines
  <2>3. task'[t] = drafted /\ \A u \in Tasks \ {t} : task'[u] = task[u]
    BY <2>1 DEF IInv, TypeOK
  <2>4. QED
    BY <1>1, <2>2, <2>3 DEF Copywrite
<1>2. ASSUME NEW t \in Tasks, CommitFails(t)
      PROVE  /\ row' = row /\ dbErrors' # 0
             /\ Live(t)
             /\ \A p \in Pages : jpg'[p] # jpg[p] =>
                  jpg'[p] # None /\ task[t].phase \in Running /\ task[t].page = p
             /\ ~Live(t)' /\ \A u \in Tasks \ {t} : task'[u] = task[u]
  <2>1. /\ Live(t)
        /\ dbErrors' = dbErrors + 1 /\ dbErrors \in Nat
        /\ \/ task[t].phase = "rendering" /\ jpg' = [jpg EXCEPT ![task[t].page] = Picture(t)]
           \/ UNCHANGED jpg
        /\ Retire(t, "lost") /\ spawned' = spawned /\ row' = row
    BY <1>2, BoundsAssumption DEF CommitFails, First, Live, Running, IInv, TypeOK
  <2>2. task[t].phase = "rendering" => Picture(t) # None /\ task[t].page \in Pages
    BY <2>1, OutcomeRows, NoneAssumption DEF IInv, TaskShape, Live, Running
  <2>3. task'[t].phase = "lost" /\ \A u \in Tasks \ {t} : task'[u] = task[u]
    BY <2>1, RetireKeeps DEF Live, Running
  <2>4. jpg \in [Pages -> Pictures \cup {None}]
    BY DEF IInv, TypeOK
  <2>5. QED
    BY <2>1, <2>2, <2>3, <2>4 DEF Live, Running
<1>3. ASSUME Crash
      PROVE  /\ row' = row /\ jpg' = jpg /\ crashes' # 0
             /\ \A t \in Tasks : ~Live(t)'
  BY <1>3, BoundsAssumption DEF Crash, Live, Running, Unborn, IInv, TypeOK
<1>4. CASE \E t \in Tasks, copy \in Copies : Copywrite(t, copy)
  <2>1. PICK t \in Tasks, copy \in Copies : Copywrite(t, copy)
    BY <1>4
  <2>2. /\ UNCHANGED <<row, jpg, crashes, dbErrors>>
        /\ task[t].phase = "drafting" /\ task'[t].phase = "rendering"
        /\ task'[t].page = task[t].page /\ task'[t].loaded = task[t].loaded
        /\ \A u \in Tasks \ {t} : task'[u] = task[u]
    BY <2>1, <1>1
  <2>3. \A u \in Tasks : u = t \/ task'[u] = task[u]
    BY <2>2
  <2>4. Live(t) /\ Live(t)' /\ task[t].phase \in Running /\ task'[t].phase \in Running
    BY <2>2 DEF Live, Running
  <2>5. \A u \in Tasks : Live(u)' <=> Live(u)
    BY <2>3, <2>4 DEF Live
  <2>6. ASSUME NEW u \in Tasks, Live(u)'
        PROVE  /\ Live(u) /\ task'[u].page = task[u].page
               /\ task'[u].loaded = task[u].loaded
               /\ task'[u].phase # task[u].phase =>
                      task'[u].phase \in Running /\ task[u].phase \in Running
    <3>1. CASE u = t
      BY <3>1, <2>2, <2>4
    <3>2. CASE u # t
      BY <3>2, <2>3, <2>5, <2>6
    <3>3. QED
      BY <3>1, <3>2
  <2>7. /\ row' = row
        /\ \A p \in Pages : jpg'[p] = jpg[p]
        /\ crashes' = crashes /\ dbErrors' = dbErrors
    BY <2>2
  <2>8. QED
    BY <2>5, <2>6, <2>7
<1>5. CASE \E t \in Tasks : CommitFails(t)
  <2>1. PICK t \in Tasks : CommitFails(t)
    BY <1>5
  <2>2. /\ row' = row /\ dbErrors' # 0
        /\ Live(t)
        /\ \A p \in Pages : jpg'[p] # jpg[p] =>
             jpg'[p] # None /\ task[t].phase \in Running /\ task[t].page = p
        /\ ~Live(t)' /\ \A u \in Tasks \ {t} : task'[u] = task[u]
    BY <2>1, <1>2
  <2>3. \A u \in Tasks : Live(u)' => u # t /\ task'[u] = task[u] /\ Live(u)
    BY <2>2 DEF Live
  <2>4. \A p \in Pages : jpg'[p] = jpg[p] \/ jpg'[p] # None
    BY <2>2
  <2>5. \A u \in Tasks : Live(u)' =>
          /\ Live(u) /\ task'[u].page = task[u].page
          /\ task'[u].loaded = task[u].loaded /\ task'[u].phase = task[u].phase
    BY <2>3
  <2>6. ASSUME NEW p \in Pages, jpg'[p] # jpg[p]
        PROVE  \E u \in Tasks : task[u].phase \in Running /\ task[u].page = p
    BY <2>2, <2>6
  <2>7. row' = row /\ dbErrors' # 0
    BY <2>2
  <2>8. QED
    BY <2>4, <2>5, <2>6, <2>7
<1>6. CASE Crash
  BY <1>3, <1>6
<1>7. QED
  BY <1>4, <1>5, <1>6

(* What a step is, in terms of the effects above. *)
LEMMA StepCases ==
  ASSUME [Next]_vars
  PROVE  \/ Request
         \/ \E t \in Tasks : Start(t)
         \/ \E t \in Tasks : Finish(t)
         \/ \E t \in Tasks : Fail(t)
         \/ \/ \E t \in Tasks, copy \in Copies : Copywrite(t, copy)
            \/ \E t \in Tasks : CommitFails(t)
            \/ Crash
         \/ UNCHANGED vars
  BY DEF Next, Step

-----------------------------------------------------------------------------
(* Safety of overlapping runs *)

LEMMA AttendanceStep ==
  ASSUME IInv, UnsettledHasTask, [Next]_vars
  PROVE  UnsettledHasTask'
<1>1. CASE Request
  BY <1>1, RequestEffect DEF UnsettledHasTask, Attended, Live, Tasks
<1>2. CASE \E t \in Tasks : Start(t)
  <2>1. PICK t \in Tasks : Start(t)
    BY <1>2
  <2>2. /\ task'[t].page = task[t].page /\ Live(t) /\ Live(t)'
        /\ row[task[t].page] # None
        /\ \A q \in Pages \ {task[t].page} : row'[q] = row[q]
        /\ \A u \in Tasks \ {t} : task'[u] = task[u]
        /\ crashes' = crashes /\ dbErrors' = dbErrors
    BY <2>1, StartEffect
  <2>3. \A u \in Tasks : Live(u) => Live(u)' /\ task'[u].page = task[u].page
    BY <2>2 DEF Live
  <2>4. QED
    BY <2>2, <2>3 DEF UnsettledHasTask, Attended, Tasks
<1>3. CASE \E t \in Tasks : Finish(t)
  BY <1>3, FinishEffect DEF UnsettledHasTask, Attended, Settled, Live, Tasks
<1>4. CASE \E t \in Tasks : Fail(t)
  BY <1>4, FailEffect DEF UnsettledHasTask, Attended, Settled, Live, Tasks
<1>5. CASE \/ \E t \in Tasks, copy \in Copies : Copywrite(t, copy)
           \/ \E t \in Tasks : CommitFails(t)
           \/ Crash
  <2>1. row' = row
    BY <1>5, SilentEffect
  <2>2. crashes' = 0 /\ dbErrors' = 0 =>
          /\ crashes = 0 /\ dbErrors = 0
          /\ \A t \in Tasks : Live(t) => Live(t)' /\ task'[t].page = task[t].page
    BY <1>5, SilentEffect
  <2>3. QED
    BY <2>1, <2>2 DEF UnsettledHasTask, Attended, Tasks
<1>6. CASE UNCHANGED vars
  BY <1>6 DEF vars, UnsettledHasTask, Attended, Live, Tasks
<1>7. QED
  BY <1>1, <1>2, <1>3, <1>4, <1>5, <1>6, StepCases

(* However many runs of a page overlap, an unsettled row has a task that     *)
(* will settle it, as long as no restart or failed commit took it away.      *)
THEOREM Attendance == Spec => []UnsettledHasTask
<1>1. Init => UnsettledHasTask
  BY DEF Init, UnsettledHasTask, Attended
<1>2. QED
  BY <1>1, AttendanceStep, Invariance, PTL DEF Spec

LEMMA ReasonStep ==
  ASSUME IInv, FailedHasReason, [Next]_vars
  PROVE  FailedHasReason'
<1>1. CASE Request
  BY <1>1, RequestEffect DEF FailedHasReason
<1>2. CASE \E t \in Tasks : Start(t)
  <2>1. PICK t \in Tasks : Start(t)
    BY <1>2
  <2>2. /\ row'[task[t].page].status = "processing"
        /\ \A q \in Pages \ {task[t].page} : row'[q] = row[q]
    BY <2>1, StartEffect
  <2>3. QED
    BY <2>2 DEF FailedHasReason
<1>3. CASE \E t \in Tasks : Finish(t)
  BY <1>3, FinishEffect DEF FailedHasReason
<1>4. CASE \E t \in Tasks : Fail(t)
  BY <1>4, FailEffect DEF FailedHasReason
<1>5. CASE \/ \E t \in Tasks, copy \in Copies : Copywrite(t, copy)
           \/ \E t \in Tasks : CommitFails(t)
           \/ Crash
  BY <1>5, SilentEffect DEF FailedHasReason
<1>6. CASE UNCHANGED vars
  BY <1>6 DEF vars, FailedHasReason
<1>7. QED
  BY <1>1, <1>2, <1>3, <1>4, <1>5, <1>6, StepCases

(* A failed row has its failure_reason, in every interleaving. *)
THEOREM FailuresExplained == Spec => []FailedHasReason
<1>1. Init => FailedHasReason
  BY DEF Init, FailedHasReason
<1>2. QED
  BY <1>1, ReasonStep, Invariance, PTL DEF Spec

LEMMA ImageStep ==
  ASSUME IInv, ImageOnDisk, [Next]_vars
  PROVE  ImageOnDisk'
<1>1. CASE Request
  BY <1>1, RequestEffect DEF ImageOnDisk
<1>2. CASE \E t \in Tasks : Start(t)
  <2>1. PICK t \in Tasks : Start(t)
    BY <1>2
  <2>2. /\ row'[task[t].page].status = "processing"
        /\ row'[task[t].page].image = row[task[t].page].image
        /\ row[task[t].page] # None
        /\ \A q \in Pages \ {task[t].page} : row'[q] = row[q]
        /\ jpg' = jpg
    BY <2>1, StartEffect
  <2>3. QED
    BY <2>2 DEF ImageOnDisk
<1>3. CASE \E t \in Tasks : Finish(t)
  BY <1>3, FinishEffect DEF ImageOnDisk
<1>4. CASE \E t \in Tasks : Fail(t)
  BY <1>4, FailEffect DEF ImageOnDisk
<1>5. CASE \/ \E t \in Tasks, copy \in Copies : Copywrite(t, copy)
           \/ \E t \in Tasks : CommitFails(t)
           \/ Crash
  <2>1. row' = row
    BY <1>5, SilentEffect
  <2>2. \A p \in Pages : jpg[p] # None => jpg'[p] # None
    BY <1>5, SilentEffect
  <2>3. QED
    BY <2>1, <2>2 DEF ImageOnDisk
<1>6. CASE UNCHANGED vars
  BY <1>6 DEF vars, ImageOnDisk
<1>7. QED
  BY <1>1, <1>2, <1>3, <1>4, <1>5, <1>6, StepCases

(* What a row offers is on disk, in every interleaving and after crashes. *)
THEOREM ImagesOnDisk == Spec => []ImageOnDisk
<1>1. Init => ImageOnDisk
  BY DEF Init, ImageOnDisk
<1>2. QED
  BY <1>1, ImageStep, Invariance, PTL DEF Spec

-----------------------------------------------------------------------------
(* Runs that do not overlap: requests arrive only when the page is at rest.  *)

(* The row of a live task stands where the task left it: pending until the   *)
(* task starts, and then exactly the row the task's session loaded.          *)
OwnsRow ==
  \A t \in Tasks : Live(t) =>
    /\ task[t].phase = "scheduled" => row[task[t].page].status = "pending"
    /\ task[t].phase \in Running => row[task[t].page] = task[t].loaded

SerialInv == OwnsRow /\ OneRunPerPage /\ DoneIsOneRun

(* A task that writes to the row it loaded leaves the row it meant to leave. *)
LEMMA FlushFresh ==
  ASSUME NEW loaded \in Rows, NEW new \in Rows
  PROVE  LET written == Flush(loaded, loaded, new) IN
         /\ written.props = new.props /\ written.title = new.title
         /\ written.image = new.image /\ written.reason = new.reason
         /\ written.tpl = loaded.tpl
  BY DEF Flush, Changed

(* Whoever is at rest is nobody's work. *)
LEMMA RestIsFree ==
  ASSUME IInv, OwnsRow, NEW t \in Tasks, Live(t)
  PROVE  row[task[t].page].status \in {"pending", "processing"}
<1>1. CASE task[t].phase = "scheduled"
  BY <1>1 DEF OwnsRow
<1>2. CASE task[t].phase \in Running
  BY <1>2 DEF OwnsRow, IInv, TaskShape
<1>3. QED
  BY <1>1, <1>2 DEF Live

LEMMA SerialRequest ==
  ASSUME ~StaleViews, IInv, SerialInv, Request
  PROVE  SerialInv'
<1>1. PICK p \in Pages, t \in Tasks :
         /\ row'[p] # None /\ row'[p].status = "pending"
         /\ row[p] = None \/ Clickable(p)
         /\ \A q \in Pages \ {p} : row'[q] = row[q]
         /\ ~Live(t) /\ task'[t].phase = "scheduled" /\ task'[t].page = p
         /\ \A u \in Tasks \ {t} : task'[u] = task[u]
         /\ jpg' = jpg
  BY RequestEffect
<1>2. \A u \in Tasks : Live(u) => u # t /\ task[u].page \in Pages /\ task[u].page # p
  <2> SUFFICES ASSUME NEW u \in Tasks, Live(u)
               PROVE  u # t /\ task[u].page \in Pages /\ task[u].page # p
    OBVIOUS
  <2>1. u # t
    BY <1>1
  <2>2. task[u].page \in Pages /\ row[task[u].page] # None
    BY DEF IInv, TaskShape
  <2>3. row[task[u].page].status \notin Settled
    BY RestIsFree DEF SerialInv, Settled
  <2>4. row[p] = None \/ row[p].status \in Settled
    BY <1>1 DEF Clickable
  <2>5. QED
    BY <2>1, <2>2, <2>3, <2>4
<1>3. \A u \in Tasks : Live(u)' => u = t \/ (Live(u) /\ task'[u] = task[u])
  BY <1>1 DEF Live
<1>4. OwnsRow'
  <2> SUFFICES ASSUME NEW u \in Tasks, Live(u)'
               PROVE  /\ task'[u].phase = "scheduled" => row'[task'[u].page].status = "pending"
                      /\ task'[u].phase \in Running => row'[task'[u].page] = task'[u].loaded
    BY DEF OwnsRow, Tasks
  <2>1. CASE u = t
    BY <2>1, <1>1 DEF Running
  <2>2. CASE u # t
    <3>1. /\ Live(u) /\ task'[u] = task[u]
          /\ task[u].page \in Pages /\ task[u].page # p
      BY <2>2, <1>2, <1>3
    <3>2. row'[task[u].page] = row[task[u].page]
      BY <3>1, <1>1
    <3>3. QED
      BY <3>1, <3>2 DEF SerialInv, OwnsRow
  <2>3. QED
    BY <2>1, <2>2
<1>5. OneRunPerPage'
  <2> SUFFICES ASSUME NEW u \in Tasks, NEW v \in Tasks, Live(u)', Live(v)',
                      task'[u].page = task'[v].page
               PROVE  u = v
    BY DEF OneRunPerPage, Tasks
  <2>1. CASE u = t /\ v # t
    BY <2>1, <1>1, <1>2, <1>3
  <2>2. CASE u # t /\ v = t
    BY <2>2, <1>1, <1>2, <1>3
  <2>3. CASE u # t /\ v # t
    BY <2>3, <1>3 DEF SerialInv, OneRunPerPage
  <2>4. QED
    BY <2>1, <2>2, <2>3
<1>6. DoneIsOneRun'
  <2> SUFFICES ASSUME NEW q \in Pages, row'[q] # None, row'[q].status = "done"
               PROVE  /\ row'[q].props # None
                      /\ row'[q].title = TitleOf(row'[q].props)
                      /\ jpg'[q] = [tpl |-> row'[q].tpl, props |-> row'[q].props]
                      /\ row'[q].image /\ ~row'[q].reason
    BY DEF DoneIsOneRun, TitleOf
  <2>1. row'[q] = row[q] /\ jpg'[q] = jpg[q]
    BY <1>1
  <2>2. QED
    BY <2>1 DEF SerialInv, DoneIsOneRun
<1>7. QED
  BY <1>4, <1>5, <1>6 DEF SerialInv

(* A running task touches its own row only, and no other task is at work on  *)
(* it: what is left to show is what becomes of that row.                     *)
LEMMA SerialOthers ==
  ASSUME IInv, SerialInv, NEW t \in Tasks, Live(t),
         task'[t].page = task[t].page \/ ~Live(t)',
         \A u \in Tasks \ {t} : task'[u] = task[u],
         \A q \in Pages \ {task[t].page} : row'[q] = row[q] /\ jpg'[q] = jpg[q]
  PROVE  /\ OneRunPerPage'
         /\ \A u \in Tasks \ {t} : Live(u)' =>
              /\ task'[u].phase = "scheduled" => row'[task'[u].page].status = "pending"
              /\ task'[u].phase \in Running => row'[task'[u].page] = task'[u].loaded
         /\ \A q \in Pages \ {task[t].page} : row'[q] # None /\ row'[q].status = "done" =>
              /\ row'[q].props # None
              /\ row'[q].title = TitleOf(row'[q].props)
              /\ jpg'[q] = [tpl |-> row'[q].tpl, props |-> row'[q].props]
              /\ row'[q].image /\ ~row'[q].reason
<1>1. \A u \in Tasks \ {t} : Live(u)' => Live(u) /\ task'[u] = task[u]
  BY DEF Live
<1>2. OneRunPerPage'
  <2> SUFFICES ASSUME NEW u \in Tasks, NEW v \in Tasks, Live(u)', Live(v)',
                      task'[u].page = task'[v].page
               PROVE  u = v
    BY DEF OneRunPerPage, Tasks
  <2>1. /\ Live(u) /\ task'[u].page = task[u].page
        /\ Live(v) /\ task'[v].page = task[v].page
    BY <1>1
  <2>2. QED
    BY <2>1 DEF SerialInv, OneRunPerPage
<1>3. ASSUME NEW u \in Tasks \ {t}, Live(u)'
      PROVE  /\ task'[u].phase = "scheduled" => row'[task'[u].page].status = "pending"
             /\ task'[u].phase \in Running => row'[task'[u].page] = task'[u].loaded
  <2>1. Live(u) /\ task'[u] = task[u] /\ task[u].page # task[t].page
    BY <1>1, <1>3 DEF SerialInv, OneRunPerPage
  <2>2. row'[task[u].page] = row[task[u].page]
    BY <2>1 DEF IInv, TaskShape
  <2>3. QED
    BY <2>1, <2>2 DEF SerialInv, OwnsRow
<1>4. ASSUME NEW q \in Pages \ {task[t].page}, row'[q] # None, row'[q].status = "done"
      PROVE  /\ row'[q].props # None
             /\ row'[q].title = TitleOf(row'[q].props)
             /\ jpg'[q] = [tpl |-> row'[q].tpl, props |-> row'[q].props]
             /\ row'[q].image /\ ~row'[q].reason
  <2>1. row'[q] = row[q] /\ jpg'[q] = jpg[q]
    BY <1>4
  <2>2. QED
    BY <2>1, <1>4 DEF SerialInv, DoneIsOneRun
<1>5. QED
  BY <1>2, <1>3, <1>4

LEMMA SerialStart ==
  ASSUME IInv, SerialInv, NEW t \in Tasks, Start(t)
  PROVE  SerialInv'
<1> DEFINE p == task[t].page
<1>1. /\ p \in Pages /\ row'[p].status = "processing"
      /\ row'[p] = task'[t].loaded /\ task'[t].phase = "drafting"
      /\ task'[t].page = p /\ Live(t)
      /\ \A u \in Tasks \ {t} : task'[u] = task[u]
      /\ \A q \in Pages \ {p} : row'[q] = row[q] /\ jpg'[q] = jpg[q]
  BY StartEffect
<1>2. OneRunPerPage'
  BY <1>1, SerialOthers
<1>3. OwnsRow'
  <2> SUFFICES ASSUME NEW u \in Tasks, Live(u)'
               PROVE  /\ task'[u].phase = "scheduled" => row'[task'[u].page].status = "pending"
                      /\ task'[u].phase \in Running => row'[task'[u].page] = task'[u].loaded
    BY DEF OwnsRow, Tasks
  <2>1. CASE u = t
    BY <2>1, <1>1
  <2>2. CASE u # t
    BY <2>2, <1>1, SerialOthers
  <2>3. QED
    BY <2>1, <2>2
<1>4. DoneIsOneRun'
  <2> SUFFICES ASSUME NEW q \in Pages, row'[q] # None, row'[q].status = "done"
               PROVE  /\ row'[q].props # None
                      /\ row'[q].title = TitleOf(row'[q].props)
                      /\ jpg'[q] = [tpl |-> row'[q].tpl, props |-> row'[q].props]
                      /\ row'[q].image /\ ~row'[q].reason
    BY DEF DoneIsOneRun, TitleOf
  <2>1. q # p
    BY <1>1
  <2>2. QED
    BY <2>1, <1>1, SerialOthers
<1>5. QED
  BY <1>2, <1>3, <1>4 DEF SerialInv

LEMMA SerialFinish ==
  ASSUME IInv, SerialInv, NEW t \in Tasks, Finish(t)
  PROVE  SerialInv'
<1> DEFINE p == task[t].page
<1>1. /\ p \in Pages
      /\ row'[p] = Flush(row[p], task[t].loaded, AsDone(t))
      /\ jpg'[p] = Picture(t) /\ ~Live(t)'
      /\ \A u \in Tasks \ {t} : task'[u] = task[u]
      /\ \A q \in Pages \ {p} : row'[q] = row[q] /\ jpg'[q] = jpg[q]
  BY FinishEffect
<1>2. /\ task[t].phase \in Running /\ Live(t)
      /\ task[t].loaded \in Rows /\ task[t].props \in Props
      /\ row[p] = task[t].loaded /\ AsDone(t) \in Rows
  <2>1. task[t].phase = "rendering" /\ task[t].phase \in Running /\ Live(t)
    BY DEF Finish, Running, Live
  <2>2. AsDone(t) \in Rows
    BY <2>1, OutcomeRows
  <2>3. QED
    BY <2>1, <2>2 DEF IInv, TaskShape, SerialInv, OwnsRow
<1>3. /\ AsDone(t).props = task[t].props /\ AsDone(t).title = TitleOf(task[t].props)
      /\ AsDone(t).image /\ ~AsDone(t).reason
  <2>1. task[t].props # None
    BY <1>2, NoneAssumption
  <2>2. WithProps(t) = [task[t].loaded EXCEPT !.props = task[t].props,
                                              !.title = TitleOf(task[t].props)]
    BY <2>1 DEF WithProps
  <2>3. /\ WithProps(t).props = task[t].props
        /\ WithProps(t).title = TitleOf(task[t].props)
        /\ WithProps(t) = [WithProps(t) EXCEPT !.url = @]
    BY <2>2, <1>2 DEF Rows
  <2>4. QED
    BY <2>2, <2>3, <1>2 DEF AsDone, Rows
<1>4. /\ row'[p].props = task[t].props /\ row'[p].title = TitleOf(task[t].props)
      /\ row'[p].image /\ ~row'[p].reason /\ row'[p].tpl = task[t].loaded.tpl
  BY <1>1, <1>2, <1>3, FlushFresh
<1>5. jpg'[p] = [tpl |-> row'[p].tpl, props |-> row'[p].props]
  BY <1>1, <1>4 DEF Picture
<1>6. OneRunPerPage'
  BY <1>1, <1>2, SerialOthers
<1>7. OwnsRow'
  <2> SUFFICES ASSUME NEW u \in Tasks, Live(u)'
               PROVE  /\ task'[u].phase = "scheduled" => row'[task'[u].page].status = "pending"
                      /\ task'[u].phase \in Running => row'[task'[u].page] = task'[u].loaded
    BY DEF OwnsRow, Tasks
  <2>1. u # t
    BY <1>1
  <2>2. QED
    BY <2>1, <1>1, <1>2, SerialOthers
<1>8. DoneIsOneRun'
  <2> SUFFICES ASSUME NEW q \in Pages, row'[q] # None, row'[q].status = "done"
               PROVE  /\ row'[q].props # None
                      /\ row'[q].title = TitleOf(row'[q].props)
                      /\ jpg'[q] = [tpl |-> row'[q].tpl, props |-> row'[q].props]
                      /\ row'[q].image /\ ~row'[q].reason
    BY DEF DoneIsOneRun, TitleOf
  <2>1. CASE q = p
    BY <2>1, <1>2, <1>4, <1>5, NoneAssumption
  <2>2. CASE q # p
    BY <2>2, <1>1, <1>2, SerialOthers
  <2>3. QED
    BY <2>1, <2>2
<1>9. QED
  BY <1>6, <1>7, <1>8 DEF SerialInv

LEMMA SerialFail ==
  ASSUME IInv, SerialInv, NEW t \in Tasks, Fail(t)
  PROVE  SerialInv'
<1> DEFINE p == task[t].page
<1>1. /\ p \in Pages /\ row'[p].status = "failed" /\ ~Live(t)'
      /\ \A u \in Tasks \ {t} : task'[u] = task[u]
      /\ \A q \in Pages \ {p} : row'[q] = row[q] /\ jpg'[q] = jpg[q]
  BY FailEffect
<1>2. Live(t)
  BY DEF Fail, Live
<1>3. OneRunPerPage'
  BY <1>1, <1>2, SerialOthers
<1>4. OwnsRow'
  <2> SUFFICES ASSUME NEW u \in Tasks, Live(u)'
               PROVE  /\ task'[u].phase = "scheduled" => row'[task'[u].page].status = "pending"
                      /\ task'[u].phase \in Running => row'[task'[u].page] = task'[u].loaded
    BY DEF OwnsRow, Tasks
  <2>1. u # t
    BY <1>1
  <2>2. QED
    BY <2>1, <1>1, <1>2, SerialOthers
<1>5. DoneIsOneRun'
  <2> SUFFICES ASSUME NEW q \in Pages, row'[q] # None, row'[q].status = "done"
               PROVE  /\ row'[q].props # None
                      /\ row'[q].title = TitleOf(row'[q].props)
                      /\ jpg'[q] = [tpl |-> row'[q].tpl, props |-> row'[q].props]
                      /\ row'[q].image /\ ~row'[q].reason
    BY DEF DoneIsOneRun, TitleOf
  <2>1. q # p
    BY <1>1
  <2>2. QED
    BY <2>1, <1>1, <1>2, SerialOthers
<1>6. QED
  BY <1>3, <1>4, <1>5 DEF SerialInv

LEMMA SerialSilent ==
  ASSUME IInv, SerialInv,
         \/ \E t \in Tasks, copy \in Copies : Copywrite(t, copy)
         \/ \E t \in Tasks : CommitFails(t)
         \/ Crash
  PROVE  SerialInv'
<1>1. row' = row
  BY SilentEffect
<1>2. \A t \in Tasks : Live(t)' =>
        /\ Live(t) /\ task'[t].page = task[t].page
        /\ task'[t].loaded = task[t].loaded
        /\ task'[t].phase # task[t].phase =>
             task'[t].phase \in Running /\ task[t].phase \in Running
  BY SilentEffect
<1>3. \A p \in Pages : jpg'[p] # jpg[p] =>
        \E t \in Tasks : task[t].phase \in Running /\ task[t].page = p
  BY SilentEffect
<1>4. OneRunPerPage'
  <2> SUFFICES ASSUME NEW u \in Tasks, NEW v \in Tasks, Live(u)', Live(v)',
                      task'[u].page = task'[v].page
               PROVE  u = v
    BY DEF OneRunPerPage, Tasks
  <2>1. QED
    BY <1>2 DEF SerialInv, OneRunPerPage
<1>5. OwnsRow'
  <2> SUFFICES ASSUME NEW u \in Tasks, Live(u)'
               PROVE  /\ task'[u].phase = "scheduled" => row'[task'[u].page].status = "pending"
                      /\ task'[u].phase \in Running => row'[task'[u].page] = task'[u].loaded
    BY DEF OwnsRow, Tasks
  <2>1. /\ Live(u) /\ task'[u].page = task[u].page
        /\ task'[u].loaded = task[u].loaded
        /\ task'[u].phase = "scheduled" => task[u].phase = "scheduled"
        /\ task'[u].phase \in Running => task[u].phase \in Running
    BY <1>2 DEF Running
  <2>2. QED
    BY <1>1, <2>1 DEF SerialInv, OwnsRow
<1>6. DoneIsOneRun'
  <2> SUFFICES ASSUME NEW q \in Pages, row[q] # None, row[q].status = "done"
               PROVE  jpg'[q] = jpg[q]
    BY <1>1 DEF SerialInv, DoneIsOneRun, TitleOf
  <2>1. ~ \E t \in Tasks : task[t].phase \in Running /\ task[t].page = q
    BY RestIsFree DEF SerialInv, Live
  <2>2. QED
    BY <2>1, <1>3
<1>7. QED
  BY <1>4, <1>5, <1>6 DEF SerialInv

LEMMA SerialStep ==
  ASSUME ~StaleViews, IInv, SerialInv, [Next]_vars
  PROVE  SerialInv'
<1>1. CASE UNCHANGED vars
  BY <1>1 DEF vars, SerialInv, OwnsRow, OneRunPerPage, DoneIsOneRun, TitleOf,
              Live, Tasks
<1>2. QED
  BY <1>1, StepCases, SerialRequest, SerialStart, SerialFinish, SerialFail,
     SerialSilent

LEMMA SerialInvariance ==
  ASSUME ~StaleViews
  PROVE  Spec => []SerialInv
<1>1. Init => SerialInv
  BY DEF Init, SerialInv, OwnsRow, OneRunPerPage, DoneIsOneRun, Live, Running,
         Unborn, Tasks
<1>2. IInv /\ SerialInv /\ [Next]_vars => SerialInv'
  BY SerialStep
<1>3. QED
  BY <1>1, <1>2, Invariance, PTL DEF Spec

(* Runs of a page that do not overlap: the picture, the template, the props, *)
(* the title and the path of a done row come from one and the same run.      *)
THEOREM RunsAreWhole ==
  ASSUME ~StaleViews
  PROVE  Spec => []DoneIsOneRun
<1>1. SerialInv => DoneIsOneRun
  BY DEF SerialInv
<1>2. QED
  BY <1>1, SerialInvariance, PTL

(* A view that is never stale is enough to keep a page to one run at a time, *)
(* although the handlers check nothing.                                      *)
THEOREM RunsAreSingle ==
  ASSUME ~StaleViews
  PROVE  Spec => []OneRunPerPage
<1>1. SerialInv => OneRunPerPage
  BY DEF SerialInv
<1>2. QED
  BY <1>1, SerialInvariance, PTL

-----------------------------------------------------------------------------
(* DetailPages implements PublishedPages when no view is stale: what the     *)
(* table, the file and the tasks go through is, to the operator, a request   *)
(* that is queued, worked on and then published or given up.                 *)

\* The template asked for, as the refinement maps it.
WantOf(p) == IF row[p] = None THEN None ELSE row[p].tpl

\* To the operator nothing has happened to this page.
Same(p) == StageOf(p)' = StageOf(p) /\ WantOf(p)' = WantOf(p) /\ Offered(p)' = Offered(p)

LEMMA Untouched ==
  ASSUME NEW p \in Pages, row'[p] = row[p],
         row[p] # None /\ row[p].status = "done" => jpg'[p] = jpg[p]
  PROVE  Same(p)
BY DEF Same, StageOf, WantOf, Offered

\* A step that touches one page changes the mapped variables at that page.
LEMMA OnePage ==
  ASSUME NEW p \in Pages, \A q \in Pages \ {p} : Same(q)
  PROVE  /\ [q \in Pages |-> StageOf(q)]' =
              [[q \in Pages |-> StageOf(q)] EXCEPT ![p] = StageOf(p)']
         /\ [q \in Pages |-> WantOf(q)]' =
              [[q \in Pages |-> WantOf(q)] EXCEPT ![p] = WantOf(p)']
         /\ [q \in Pages |-> Offered(q)]' =
              [[q \in Pages |-> Offered(q)] EXCEPT ![p] = Offered(p)']
BY DEF Same

LEMMA NoPage ==
  ASSUME \A q \in Pages : Same(q)
  PROVE  UNCHANGED <<[q \in Pages |-> StageOf(q)], [q \in Pages |-> WantOf(q)],
                     [q \in Pages |-> Offered(q)]>>
BY DEF Same

-----------------------------------------------------------------------------

LEMMA InitRefines == Init => Operator!Init
BY DEF Init, Operator!Init, StageOf, Offered

LEMMA RequestRefines ==
  ASSUME ~StaleViews, IInv, Request
  PROVE  \E p \in Pages, tpl \in Templates : Operator!Submit(p, tpl)
<1>1. PICK p \in Pages :
        /\ row'[p] # None /\ row'[p].status = "pending" /\ row'[p].tpl \in Templates
        /\ row[p] = None \/ Clickable(p)
        /\ \A q \in Pages \ {p} : row'[q] = row[q]
        /\ jpg' = jpg
  BY RequestEffect
<1>2. \A q \in Pages \ {p} : Same(q)
  BY <1>1, Untouched
<1>3. StageOf(p) \in {"absent", "published", "givenup"}
  BY <1>1 DEF Clickable, Settled, StageOf
<1>6. PICK tpl \in Templates : tpl = row'[p].tpl
  BY <1>1
<1>4. StageOf(p)' = "queued" /\ WantOf(p)' = tpl /\ Offered(p)' = None
  BY <1>1, <1>6 DEF StageOf, WantOf, Offered
<1>5. Operator!Submit(p, tpl)
  BY <1>2, <1>3, <1>4, OnePage DEF Operator!Submit, Operator!Absent, Operator!AtRest, WantOf
<1> QED
  BY <1>5

LEMMA StartRefines ==
  ASSUME IInv, SerialInv, NEW t \in Tasks, Start(t)
  PROVE  \E p \in Pages : Operator!Begin(p)
<1>1. PICK p \in Pages :
      /\ p = task[t].page /\ row[p] # None /\ row'[p] # None
      /\ row'[p].status = "processing" /\ row'[p].tpl = row[p].tpl
      /\ \A q \in Pages \ {p} : row'[q] = row[q]
      /\ jpg' = jpg /\ Live(t)
  BY StartEffect
<1>2. row[p].status = "pending"
  BY <1>1 DEF Start, First, SerialInv, OwnsRow
<1>3. \A q \in Pages \ {p} : Same(q)
  BY <1>1, Untouched
<1>4. /\ StageOf(p) = "queued" /\ StageOf(p)' = "working"
      /\ WantOf(p)' = WantOf(p) /\ Offered(p)' = Offered(p)
  BY <1>1, <1>2 DEF StageOf, WantOf, Offered
<1>5. Operator!Begin(p)
  BY <1>1, <1>3, <1>4, OnePage DEF Operator!Begin, WantOf
<1> QED
  BY <1>1, <1>5

LEMMA FinishRefines ==
  ASSUME IInv, SerialInv, NEW t \in Tasks, Finish(t)
  PROVE  \E p \in Pages, props \in Props : Operator!Publish(p, props)
<1>1. PICK p \in Pages :
      /\ p = task[t].page /\ row[p] # None /\ row'[p] # None /\ row'[p].status = "done"
      /\ row'[p] = Flush(row[p], task[t].loaded, AsDone(t))
      /\ \A q \in Pages \ {p} : row'[q] = row[q] /\ jpg'[q] = jpg[q]
      /\ jpg'[p] = Picture(t)
  BY FinishEffect
<1>2. task[t].phase = "rendering" /\ task[t].phase \in Running /\ Live(t)
  BY DEF Finish, Running, Live
<1>3. /\ row[p] = task[t].loaded /\ row[p].status = "processing"
      /\ task[t].props \in Props
  BY <1>1, <1>2 DEF SerialInv, OwnsRow, IInv, TaskShape
<1>4. row'[p].tpl = row[p].tpl
  BY <1>1 DEF Flush
<1>5. row'[p].image
  BY <1>1, SerialFinish DEF SerialInv, DoneIsOneRun
<1>6. \A q \in Pages \ {p} : Same(q)
  BY <1>1, Untouched
<1>7. /\ StageOf(p) = "working" /\ StageOf(p)' = "published"
      /\ WantOf(p)' = WantOf(p)
      /\ Offered(p)' = [tpl |-> WantOf(p), props |-> task[t].props]
  BY <1>1, <1>3, <1>4, <1>5 DEF StageOf, WantOf, Offered, Picture
<1>8. Operator!Publish(p, task[t].props)
  BY <1>1, <1>6, <1>7, OnePage DEF Operator!Publish, WantOf
<1> QED
  BY <1>1, <1>3, <1>8

LEMMA FailRefines ==
  ASSUME IInv, SerialInv, NEW t \in Tasks, Fail(t)
  PROVE  \E p \in Pages : Operator!GiveUp(p)
<1>1. PICK p \in Pages :
      /\ p = task[t].page /\ row[p] # None /\ row'[p] # None
      /\ row'[p].status = "failed" /\ row'[p].tpl = row[p].tpl
      /\ \A q \in Pages \ {p} : row'[q] = row[q]
      /\ jpg' = jpg
  BY FailEffect
<1>2. row[p].status = "processing"
  BY <1>1 DEF Fail, Live, SerialInv, OwnsRow, IInv, TaskShape
<1>3. \A q \in Pages \ {p} : Same(q)
  BY <1>1, Untouched
<1>4. /\ StageOf(p) = "working" /\ StageOf(p)' = "givenup"
      /\ WantOf(p)' = WantOf(p) /\ Offered(p)' = Offered(p)
  BY <1>1, <1>2 DEF StageOf, WantOf, Offered
<1>5. Operator!GiveUp(p)
  BY <1>1, <1>3, <1>4, OnePage DEF Operator!GiveUp, WantOf
<1> QED
  BY <1>1, <1>5

\* A copy, a refused commit and a restart stay behind the scenes: a picture that is
\* written belongs to a page that is not done.
LEMMA SilentRefines ==
  ASSUME IInv, SerialInv,
         \/ \E t \in Tasks, copy \in Copies : Copywrite(t, copy)
         \/ \E t \in Tasks : CommitFails(t)
         \/ Crash
  PROVE  \A p \in Pages : Same(p)
<1>1. /\ row' = row
      /\ \A p \in Pages : jpg'[p] # jpg[p] =>
           \E t \in Tasks : task[t].phase \in Running /\ task[t].page = p
  BY SilentEffect
<1>2. \A p \in Pages : row[p] # None /\ row[p].status = "done" => jpg'[p] = jpg[p]
  BY <1>1, RestIsFree DEF SerialInv, Live
<1> QED
  BY <1>1, <1>2, Untouched

LEMMA StepRefines ==
  ASSUME ~StaleViews, IInv, SerialInv, [Next]_vars
  PROVE  [Operator!Next]_(Operator!jobs)
<1>1. CASE Request
  BY <1>1, RequestRefines DEF Operator!Next
<1>2. CASE \E t \in Tasks : Start(t)
  BY <1>2, StartRefines DEF Operator!Next
<1>3. CASE \E t \in Tasks : Finish(t)
  BY <1>3, FinishRefines DEF Operator!Next
<1>4. CASE \E t \in Tasks : Fail(t)
  BY <1>4, FailRefines DEF Operator!Next
<1>5. CASE \/ \E t \in Tasks, copy \in Copies : Copywrite(t, copy)
           \/ \E t \in Tasks : CommitFails(t)
           \/ Crash
  BY <1>5, SilentRefines, NoPage DEF Operator!jobs, WantOf
<1>6. CASE UNCHANGED vars
  <2>1. \A p \in Pages : Same(p)
    BY <1>6, Untouched DEF vars
  <2> QED
    BY <2>1, NoPage DEF Operator!jobs, WantOf
<1> QED
  BY <1>1, <1>2, <1>3, <1>4, <1>5, <1>6, StepCases

\* The runs of a page that do not overlap keep what models/detail_page.py promises of status,
\* image_path and template_name: nothing is on offer but the picture of the request that was
\* made last, in the template it asked for, whatever fails or restarts.
THEOREM PromiseKept ==
  ASSUME ~StaleViews
  PROVE  Spec => KeepsPromise
<1>1. IInv /\ SerialInv /\ [Next]_vars => [Operator!Next]_(Operator!jobs)
  BY StepRefines
<1> QED
  BY <1>1, InitRefines, Invariance, SerialInvariance, PTL DEF Spec, KeepsPromise, Operator!Spec

=============================================================================
