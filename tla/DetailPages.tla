---------------------------- MODULE DetailPages ----------------------------
(***************************************************************************)
(* The detail-page generator of the API process.                           *)
(*                                                                         *)
(*   routers/detail_pages.py           ingest, regenerate                  *)
(*   services/detail_pages/ingest.py   process_detail_page, _run_pipeline  *)
(*                                                                         *)
(* One asyncio event loop runs the request handlers and the background     *)
(* tasks they spawn with asyncio.create_task.  A handler has no await in   *)
(* its body, so it is one action.  A task is cut at its awaits: each       *)
(* action below is the code from one await to the next.  Every task has a  *)
(* database session of its own, which remembers the column values it       *)
(* loaded and writes at commit only the columns that differ from them.     *)
(***************************************************************************)
EXTENDS Integers, FiniteSets

CONSTANTS
  Pages,        \* detail_pages.id values the sequence can hand out
  Urls,         \* source_products.source_url values
  Payloads,     \* scraped payloads (source_products.raw_payload)
  Templates,    \* templates.TEMPLATE_NAMES
  Copies,       \* texts the language model may return for one payload
  BlankCopy,    \* the text whose title_ko is empty
  None,         \* SQL NULL, a missing file
  MaxTasks,     \* bound: background tasks ever spawned
  MaxCrashes,   \* bound: restarts of the API container
  MaxDbErrors,  \* bound: COMMITs that fail while a task is running
  StaleViews    \* TRUE: regenerate may arrive in any status of the row

ASSUME BoundsAssumption ==
  MaxTasks \in Nat /\ MaxCrashes \in Nat /\ MaxDbErrors \in Nat
ASSUME FlagAssumption == StaleViews \in BOOLEAN
VARIABLES
  source,    \* url -> raw_payload of its source_products row, None if no row
  row,       \* page -> its detail_pages row, None before the INSERT
  jpg,       \* page -> what generated/{id}/page.jpg shows, None if no file
  task,      \* task number -> its coroutine
  spawned,   \* number of tasks created so far
  crashes,   \* restarts so far
  dbErrors   \* failed COMMITs so far

vars == <<source, row, jpg, task, spawned, crashes, dbErrors>>

-----------------------------------------------------------------------------
(* Data *)

Statuses == {"pending", "processing", "done", "failed"}
Settled  == {"done", "failed"}

Props == [payload: Payloads, copy: Copies]

\* image and reason stand for image_path and failure_reason being NOT NULL:
\* the path is a function of the id, and any two tracebacks serve alike.
Rows == [url: Urls, status: Statuses, tpl: Templates,
         props: Props \cup {None}, title: Copies \cup {None},
         image: BOOLEAN, reason: BOOLEAN]

\* What a rendered picture shows.
Pictures == [tpl: Templates, props: Props]

Running == {"drafting", "rendering"}
Phases  == {"unborn", "scheduled"} \cup Running \cup {"ended", "lost"}

\* loaded is the row as the task's session knows it; payload and props are
\* the locals of _run_pipeline.
Coroutines == [phase: Phases, page: Pages \cup {None},
               loaded: Rows \cup {None}, payload: Payloads \cup {None},
               props: Props \cup {None}]

Unborn == [phase |-> "unborn", page |-> None, loaded |-> None,
           payload |-> None, props |-> None]

Tasks == 1..MaxTasks
Live(t) == task[t].phase \in {"scheduled"} \cup Running

TitleOf(props) == IF props.copy = BlankCopy THEN None ELSE props.copy

\* The unit of work: COMMIT sends the columns whose value changed since the
\* session loaded them, and leaves the others as they are in the table now.
Changed(current, loaded, new) == IF new = loaded THEN current ELSE new

Flush(current, loaded, new) ==
  [url    |-> current.url,
   tpl    |-> current.tpl,
   status |-> Changed(current.status, loaded.status, new.status),
   props  |-> Changed(current.props, loaded.props, new.props),
   title  |-> Changed(current.title, loaded.title, new.title),
   image  |-> Changed(current.image, loaded.image, new.image),
   reason |-> Changed(current.reason, loaded.reason, new.reason)]

ASSUME NoneAssumption ==
  /\ None \notin Pages \cup Urls \cup Payloads \cup Templates \cup Copies
  /\ None \notin Props \cup Rows \cup Pictures

-----------------------------------------------------------------------------
(* Request handlers *)

Init ==
  /\ source = [u \in Urls |-> None]
  /\ row = [p \in Pages |-> None]
  /\ jpg = [p \in Pages |-> None]
  /\ task = [t \in Tasks |-> Unborn]
  /\ spawned = 0 /\ crashes = 0 /\ dbErrors = 0

\* asyncio.create_task: the coroutine is queued behind those already created.
Spawn(p) ==
  /\ spawned < MaxTasks
  /\ spawned' = spawned + 1
  /\ task' = [task EXCEPT ![spawned + 1] =
                [Unborn EXCEPT !.phase = "scheduled", !.page = p]]

\* POST /detail-pages/ingest with a non-empty main_images: the source row is
\* inserted or its payload replaced, and a new page row is always inserted.
Ingest(u, payload, tpl) ==
  /\ source' = [source EXCEPT ![u] = payload]
  /\ \E p \in Pages :
       /\ row[p] = None
       /\ row' = [row EXCEPT ![p] =
                    [url |-> u, status |-> "pending", tpl |-> tpl,
                     props |-> None, title |-> None,
                     image |-> FALSE, reason |-> FALSE]]
       /\ Spawn(p)
  /\ UNCHANGED <<jpg, crashes, dbErrors>>

\* The handler refuses no status.  The page of the frontend disables its
\* button while the status it last fetched is pending or processing, so the
\* request is out of step with the row only when that view is stale (a second
\* tab, or the moment between the answer and the refetch).
Clickable(p) == StaleViews \/ row[p].status \in Settled

\* POST /detail-pages/{id}/regenerate; title_ko is not reset.
Regenerate(p, tpl) ==
  /\ row[p] # None
  /\ Clickable(p)
  /\ row' = [row EXCEPT ![p] =
               [@ EXCEPT !.tpl = tpl, !.status = "pending", !.image = FALSE,
                         !.reason = FALSE, !.props = None]]
  /\ Spawn(p)
  /\ UNCHANGED <<source, jpg, crashes, dbErrors>>

-----------------------------------------------------------------------------
(* The background task *)

\* Tasks first run in the order in which they were created.
First(t) ==
  /\ task[t].phase = "scheduled"
  /\ \A u \in Tasks : task[u].phase = "scheduled" => t <= u

\* First step of process_detail_page, up to its first await: the row is marked
\* and committed, and the expired page and source are loaded again, so what the
\* session knows is the row as just committed.
Start(t) ==
  /\ First(t)
  /\ LET p == task[t].page
         marked == [row[p] EXCEPT !.status = "processing", !.reason = FALSE]
     IN /\ row' = [row EXCEPT ![p] = marked]
        /\ task' = [task EXCEPT ![t] =
                     [@ EXCEPT !.phase = "drafting", !.loaded = marked,
                               !.payload = source[marked.url]]]
  /\ UNCHANGED <<source, jpg, spawned, crashes, dbErrors>>

\* The images were downloaded and filtered and generate_copy has answered:
\* props and title_ko change in the session only.
Copywrite(t, copy) ==
  /\ task[t].phase = "drafting"
  /\ task' = [task EXCEPT ![t] =
                [@ EXCEPT !.phase = "rendering",
                          !.props = [payload |-> task[t].payload, copy |-> copy]]]
  /\ UNCHANGED <<source, row, jpg, spawned, crashes, dbErrors>>

\* Faulty variant: the props are read back from the row, not yet committed.
PictureOfRow(t) == [tpl |-> task[t].loaded.tpl, props |-> row[task[t].page].props]

\* What render_to_jpg writes: the task's props in the template of the row as
\* the task loaded it.
Picture(t) == [tpl |-> task[t].loaded.tpl, props |-> task[t].props]

\* Faulty variant: a title found in the row is kept.
WithFirstTitle(t) ==
  IF task[t].props = None THEN task[t].loaded
  ELSE [task[t].loaded EXCEPT !.props = task[t].props,
          !.title = IF @ = None THEN TitleOf(task[t].props) ELSE @]

\* The session's view of the row once the pipeline has assigned to it.
WithProps(t) ==
  IF task[t].props = None THEN task[t].loaded
  ELSE [task[t].loaded EXCEPT !.props = task[t].props,
                              !.title = TitleOf(task[t].props)]

\* Faulty variants: image_path forgotten when done, assigned before the
\* rendering has succeeded; the status forgotten when failed.
AsDoneWithoutPath(t) == [WithProps(t) EXCEPT !.status = "done", !.reason = FALSE]

AsFailedWithPath(t) ==
  [WithProps(t) EXCEPT !.status = "failed", !.reason = TRUE, !.image = TRUE]

AsFailedInReasonOnly(t) == [WithProps(t) EXCEPT !.reason = TRUE]

AsDone(t) == [WithProps(t) EXCEPT !.image = TRUE, !.status = "done",
                                  !.reason = FALSE]

AsFailed(t) == [WithProps(t) EXCEPT !.status = "failed", !.reason = TRUE]

Retire(t, how) == task' = [task EXCEPT ![t] = [Unborn EXCEPT !.phase = how]]

\* The screenshot is taken: page.jpg is written and the row committed.
Finish(t) ==
  /\ task[t].phase = "rendering"
  /\ LET p == task[t].page IN
       /\ jpg' = [jpg EXCEPT ![p] = Picture(t)]
       /\ row' = [row EXCEPT ![p] = Flush(@, task[t].loaded, AsDone(t))]
  /\ Retire(t, "ended")
  /\ UNCHANGED <<source, spawned, crashes, dbErrors>>

\* A stage raises.  The commit that records the failure also sends the props
\* a task had when its rendering failed.
Fail(t) ==
  /\ task[t].phase \in Running
  /\ LET p == task[t].page IN
       row' = [row EXCEPT ![p] = Flush(@, task[t].loaded, AsFailed(t))]
  /\ Retire(t, "ended")
  /\ UNCHANGED <<source, jpg, spawned, crashes, dbErrors>>

\* A COMMIT of the task is refused by the database: of the mark, of the result, when
\* page.jpg has been written, or of the failure. No handler is left that could record it:
\* the one of the result calls session.get on a session that was never rolled back, which
\* raises as well. The row stays as it was and the task is gone.
CommitFails(t) ==
  /\ dbErrors < MaxDbErrors
  /\ dbErrors' = dbErrors + 1
  /\ \/ First(t) /\ UNCHANGED jpg
     \/ task[t].phase = "rendering" /\ jpg' = [jpg EXCEPT ![task[t].page] = Picture(t)]
     \/ task[t].phase \in Running /\ UNCHANGED jpg
  /\ Retire(t, "lost")
  /\ UNCHANGED <<source, row, spawned, crashes>>

\* The container restarts: rows and files stay, coroutines do not, and
\* nothing at start-up looks for rows that were pending or processing.
Crash ==
  /\ crashes < MaxCrashes
  /\ crashes' = crashes + 1
  /\ task' = [t \in Tasks |-> IF Live(t) THEN [Unborn EXCEPT !.phase = "lost"]
                                          ELSE task[t]]
  /\ UNCHANGED <<source, row, jpg, spawned, dbErrors>>

-----------------------------------------------------------------------------

Request ==
  \/ \E u \in Urls, y \in Payloads, tpl \in Templates : Ingest(u, y, tpl)
  \/ \E p \in Pages, tpl \in Templates : Regenerate(p, tpl)

Step(t) ==
  \/ Start(t)
  \/ \E copy \in Copies : Copywrite(t, copy)
  \/ Finish(t)
  \/ Fail(t)

Next ==
  \/ Request
  \/ \E t \in Tasks : Step(t) \/ CommitFails(t)
  \/ Crash

Spec == Init /\ [][Next]_vars

\* The event loop runs every coroutine that is ready, and every await of the
\* pipeline ends: downloads time out after 10 s, the language-model client and
\* the browser have timeouts of their own.
FairSpec == Spec /\ \A t \in Tasks : WF_vars(Step(t))

-----------------------------------------------------------------------------
(* Properties *)

\* Every variable holds a value of its type, and a live task works on a page
\* that has a row (no code deletes rows of detail_pages).
TypeOK ==
  /\ source \in [Urls -> Payloads \cup {None}]
  /\ row \in [Pages -> Rows \cup {None}]
  /\ jpg \in [Pages -> Pictures \cup {None}]
  /\ task \in [Tasks -> Coroutines]
  /\ spawned \in 0..MaxTasks
  /\ crashes \in 0..MaxCrashes
  /\ dbErrors \in 0..MaxDbErrors

\* If the row of p still has work to do, some live task will do it.
Attended(p) ==
  row[p] # None /\ row[p].status \notin Settled =>
    \E t \in Tasks : Live(t) /\ task[t].page = p

\* While nothing has crashed and every commit succeeded, a row that says
\* pending or processing has a task that will settle it, however many runs of
\* the page overlap.
UnsettledHasTask ==
  crashes = 0 /\ dbErrors = 0 => \A p \in Pages : Attended(p)

\* The contract of models/detail_page.py for failed rows: a failed row has a
\* failure_reason, also when another run of the page was reset or finished
\* while this one was failing.
FailedHasReason ==
  \A p \in Pages :
    row[p] # None /\ row[p].status = "failed" => row[p].reason

\* A row that says done, or that offers an image_path, has its page.jpg on
\* disk, also after crashes, failed commits and overlapping runs.
ImageOnDisk ==
  \A p \in Pages :
    row[p] # None /\ (row[p].status = "done" \/ row[p].image)
      => jpg[p] # None

\* A done row is the record of one run: its picture has its template, its
\* props, its title is that of its props, the path is set and no failure is
\* left from an earlier run.
DoneIsOneRun ==
  \A p \in Pages :
    row[p] # None /\ row[p].status = "done" =>
      /\ row[p].props # None
      /\ row[p].title = TitleOf(row[p].props)
      /\ jpg[p] = [tpl |-> row[p].tpl, props |-> row[p].props]
      /\ row[p].image /\ ~row[p].reason

\* No two live tasks work on the same page.
OneRunPerPage ==
  \A t, u \in Tasks :
    Live(t) /\ Live(u) /\ task[t].page = task[u].page => t = u

\* Every accepted request is settled: what is pending or processing is
\* eventually done or failed, unless something crashed or a commit failed: "Never raises:
\* failures are persisted" (ingest.py) is true of the stages, not of the commits.
RequestsSettle ==
  \A p \in Pages :
    (row[p] # None /\ row[p].status \notin Settled)
      ~> \/ row[p] # None /\ row[p].status \in Settled
         \/ crashes > 0 \/ dbErrors > 0

-----------------------------------------------------------------------------
(* What the operator sees: the stage is the status of the row, and a picture *)
(* is on offer when the row is done and has an image_path.                   *)

StageOf(p) ==
  IF row[p] = None THEN "absent"
  ELSE CASE row[p].status = "pending"    -> "queued"
         [] row[p].status = "processing" -> "working"
         [] row[p].status = "done"       -> "published"
         [] row[p].status = "failed"     -> "givenup"

Offered(p) ==
  IF row[p] # None /\ row[p].status = "done" /\ row[p].image
  THEN jpg[p] ELSE None

Operator == INSTANCE PublishedPages WITH
  stage <- [p \in Pages |-> StageOf(p)],
  want  <- [p \in Pages |-> IF row[p] = None THEN None ELSE row[p].tpl],
  shown <- [p \in Pages |-> Offered(p)]

\* Runs that do not overlap implement the promise made to the operator, with
\* crashes and failed commits as steps that leave a request where it stands.
KeepsPromise == Operator!Spec

=============================================================================
