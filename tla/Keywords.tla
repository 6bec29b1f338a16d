------------------------------ MODULE Keywords ------------------------------
(***************************************************************************)
(* The keywords table and everything that writes to it.                    *)
(*                                                                         *)
(*   scheduler/jobs/collect_keywords.py  related terms of the seeds        *)
(*   scheduler/jobs/collect_metrics.py   the day's metrics, PENDING rows   *)
(*   routers/keywords.py                 a seed typed in by the operator   *)
(*   routers/admin.py                    candidates approved, both jobs    *)
(*                                                                         *)
(* The jobs run in two processes, the API and the scheduler; each has one  *)
(* event loop and calls the database on it. Sessions do not flush by       *)
(* themselves. One day; translation is the module Translation.             *)
(***************************************************************************)
EXTENDS Naturals, Sequences, FiniteSets

CONSTANTS
  Terms,      \* search terms
  Names,      \* category names
  Droppable,  \* the ones that may have no row yet
  Answered,   \* term -> what the shop may answer: items, or None when it fails
  Internal,   \* the shop's category -> name
  Pet, Default,
  Grams,      \* term -> its Korean fragments of two and three letters
  Related,    \* term -> what the ad API relates to it
  Volume,     \* term -> searches a month
  MinVolume, TopN,
  Sources,    \* the clients that are asked for a keyword's metrics
  Answers,    \* the sets of them that may answer
  Requests,   \* requests of the operator in flight
  MaxRuns,    \* bound: runs of collect_metrics
  MaxGaps,    \* bound: keywords of a run of it for which not all clients answer
  MaxAtOnce,  \* bound: runs and requests under way together
  Proposed,   \* terms that seed discovery has found
  Typed,      \* terms the operator types in
  None

ASSUME KeywordsAssumption ==
  /\ \A t \in Terms : Related[t] \subseteq Terms /\ Volume[t] \in Nat
  /\ \A t, u \in Terms : t # u => Volume[t] # Volume[u]
  /\ MinVolume \in Nat /\ TopN \in Nat \ {0} /\ MaxRuns \in Nat /\ MaxGaps \in Nat /\ MaxAtOnce \in Nat
  /\ {Pet, Default} \cup {Internal[c] : c \in DOMAIN Internal} \subseteq Names
  /\ Answers \subseteq SUBSET Sources /\ Proposed \cup Typed \subseteq Terms /\ Droppable \subseteq Names
  /\ None \notin Names /\ None \notin Nat

Processes == {"api", "scheduler"}

VARIABLES
  keywords,   \* term -> committed row
  metrics,    \* term -> committed row of the day, source -> number of the run or None
  categories, \* name -> committed rows of that name
  candidates, \* term -> is_approved
  run,        \* process -> its job, or None
  requests,   \* request -> its transaction, or None
  hung,       \* the API's loop waits for a lock that one of its own requests holds
  runs,       \* runs of collect_metrics so far
  prepared,   \* all names had their category when the behaviour began
  clashed     \* observer: names that requests added while others held them uncommitted

vars == <<keywords, metrics, categories, candidates, run, requests, hung, runs, prepared, clashed>>

Updated(f, g) == [x \in DOMAIN f \cup DOMAIN g |-> IF x \in DOMAIN g THEN g[x] ELSE f[x]]

Free(p) == p = "api" => ~hung

Room ==
  Cardinality({p \in Processes : run[p] # None}) + Cardinality({r \in Requests : requests[r] # None})
    < MaxAtOnce

\* Terms whose rows an open transaction of the operator has written.
Written(rs) == UNION {requests[r].flushed : r \in {q \in rs : requests[q] # None}}

-----------------------------------------------------------------------------
(* collect_keywords *)

Seeds == {t \in DOMAIN keywords : keywords[t].seed}

\* Fragments that two seeds of a category share.
Markers(seeds, name) ==
  LET of == {t \in DOMAIN seeds : seeds[t] = name} IN
  {g \in UNION {Grams[t] : t \in of} : \E s, t \in of : s # t /\ g \in Grams[s] \cap Grams[t]}

OnTopic(seeds, name, t) ==
  Markers(seeds, name) = {} \/ Grams[t] \cap Markers(seeds, name) # {}

Ranked(s) ==
  {t \in Related[s] : /\ Volume[t] >= MinVolume
                      /\ Cardinality({u \in Related[s] : Volume[u] > Volume[t]}) < TopN}

BeginCollect(p) ==
  /\ Free(p) /\ run[p] = None /\ Room /\ Seeds # {}
  /\ run' = [run EXCEPT ![p] =
       [job |-> "collect", left |-> Seeds, known |-> DOMAIN keywords,
        seeds |-> [t \in Seeds |-> keywords[t].category], new |-> <<>>]]
  /\ UNCHANGED <<keywords, metrics, categories, candidates, requests, hung, runs, prepared, clashed>>

\* One seed after the other; new terms get its category.
FetchRelated(p) ==
  /\ Free(p) /\ run[p] # None /\ run[p].job = "collect"
  /\ \E s \in run[p].left :
       LET name == run[p].seeds[s]
           terms == {t \in Ranked(s) \ (run[p].known \cup DOMAIN run[p].new) :
                       OnTopic(run[p].seeds, name, t)}
       IN run' = [run EXCEPT ![p].left = @ \ {s},
                             ![p].new = Updated(@, [t \in terms |-> name])]
  /\ UNCHANGED <<keywords, metrics, categories, candidates, requests, hung, runs, prepared, clashed>>

\* The operator's run goes on to the metrics, the scheduler's ends.
Collected(p) == IF p = "api" THEN [job |-> "between"] ELSE None

NewRows(p) ==
  [t \in DOMAIN run[p].new |->
     [seed |-> FALSE, status |-> "pending", category |-> run[p].new[t]]]

\* Faulty variant: a term that is there by now is written over.
InsertOver(p) ==
  /\ Free(p) /\ run[p] # None /\ run[p].job = "collect" /\ run[p].left = {}
  /\ keywords' = Updated(keywords, NewRows(p))
  /\ run' = [run EXCEPT ![p] = Collected(p)]
  /\ UNCHANGED <<metrics, categories, candidates, requests, hung, runs, prepared, clashed>>

\* One commit: a term that somebody else has inserted meanwhile makes it fail as a whole.
\* One that is written and not committed is waited for, on the loop.
InsertNew(p) ==
  LET new == DOMAIN run[p].new IN
  /\ Free(p) /\ run[p] # None /\ run[p].job = "collect" /\ run[p].left = {}
  /\ IF new \cap Written(Requests) # {}
     THEN p = "api" /\ hung' = TRUE /\ UNCHANGED <<keywords, run>>
     ELSE /\ hung' = hung
          /\ IF new \cap DOMAIN keywords = {}
             THEN /\ keywords' = Updated(keywords, NewRows(p))
                  /\ run' = [run EXCEPT ![p] = Collected(p)]
             ELSE keywords' = keywords /\ run' = [run EXCEPT ![p] = None]
  /\ UNCHANGED <<metrics, categories, candidates, requests, runs, prepared, clashed>>

-----------------------------------------------------------------------------
(* collect_metrics *)

BeginMetrics(p) ==
  LET rows == {t \in DOMAIN keywords : keywords[t].status \in {"pending", "active"}} IN
  /\ Free(p) /\ runs < MaxRuns /\ (p = "scheduler" => Room)
  /\ run[p] = (IF p = "api" THEN [job |-> "between"] ELSE None)
  /\ run' = [run EXCEPT ![p] =
       [job |-> "metrics", number |-> runs + 1, left |-> rows,
        loaded |-> [t \in rows |-> keywords[t]], rows |-> <<>>]]
  /\ runs' = runs + 1
  /\ UNCHANGED <<keywords, metrics, categories, candidates, requests, hung, prepared, clashed>>

Gaps(p) ==
  {t \in DOMAIN run[p].loaded \ run[p].left :
     t \notin DOMAIN run[p].rows \/ \E s \in Sources : run[p].rows[t][s] = None}

\* Seeds first. A keyword for which all clients fail is skipped; a row that the other
\* process has written and not committed is waited for.
Measure(p) ==
  /\ Free(p) /\ run[p] # None /\ run[p].job = "metrics"
  /\ \E t \in run[p].left :
       /\ run[p].loaded[t].seed \/ \A u \in run[p].left : ~run[p].loaded[u].seed
       /\ \E answered \in Answers :
            /\ answered # Sources => Cardinality(Gaps(p)) < MaxGaps
            /\ IF answered = {} THEN run' = [run EXCEPT ![p].left = @ \ {t}]
               ELSE
                 /\ \A q \in Processes \ {p} :
                      run[q] # None /\ run[q].job = "metrics" => t \notin DOMAIN run[q].rows
                 /\ run' = [run EXCEPT
                      ![p].left = @ \ {t},
                      ![p].rows = Updated(@, [u \in {t} |->
                        [s \in Sources |-> IF s \in answered THEN run[p].number ELSE None]])]
  /\ UNCHANGED <<keywords, metrics, categories, candidates, requests, hung, runs, prepared, clashed>>

\* Faulty variant: what is missing this time is kept from the run before.
OverwriteKnown(p) ==
  Updated(metrics,
    [t \in DOMAIN run[p].rows |-> [s \in Sources |->
       IF run[p].rows[t][s] = None /\ t \in DOMAIN metrics THEN metrics[t][s]
       ELSE run[p].rows[t][s]]])

\* ON CONFLICT DO UPDATE: all columns, those without an answer too.
Overwrite(p) == Updated(metrics, run[p].rows)

\* Faulty variant: the row is written back as it was loaded.
PromotedWhole(p) ==
  [t \in DOMAIN run[p].rows |-> [run[p].loaded[t] EXCEPT !.status = "active"]]

\* The session writes the columns it has changed: the status of what was PENDING.
Promoted(p) ==
  [t \in DOMAIN run[p].rows |->
     IF run[p].loaded[t].status = "pending" THEN [keywords[t] EXCEPT !.status = "active"]
     ELSE keywords[t]]

CommitMetrics(p) ==
  /\ Free(p) /\ run[p] # None /\ run[p].job = "metrics" /\ run[p].left = {}
  /\ IF DOMAIN run[p].rows \cap Written(Requests) # {}
     THEN p = "api" /\ hung' = TRUE /\ UNCHANGED <<keywords, metrics, run>>
     ELSE /\ metrics' = Overwrite(p)
          /\ keywords' = Updated(keywords, Promoted(p))
          /\ run' = [run EXCEPT ![p] = None]
          /\ hung' = hung
  /\ UNCHANGED <<categories, candidates, requests, runs, prepared, clashed>>

\* A request that fails, a refused statement: the run is rolled back, its rows are lost.
LoseRun(p) ==
  /\ Free(p) /\ run[p] # None
  /\ run' = [run EXCEPT ![p] = None]
  /\ UNCHANGED <<keywords, metrics, categories, candidates, requests, hung, runs, prepared, clashed>>

-----------------------------------------------------------------------------
(* Seeds of the operator *)

\* infer_category_name: items whose title has the term, if there are any; pets first,
\* then the category most of them are in.
Class(answer) ==
  LET matching == SelectSeq(answer, LAMBDA i : i.matches)
      items == IF matching = <<>> THEN answer ELSE matching
      tops == {items[n].top : n \in DOMAIN items} \ {None}
      in(c) == {n \in DOMAIN items : items[n].top = c}
      before(c, d) == \E n \in in(c) : \A m \in in(d) : n <= m
      most == CHOOSE c \in tops : \A d \in tops :
                \/ Cardinality(in(c)) > Cardinality(in(d))
                \/ Cardinality(in(c)) = Cardinality(in(d)) /\ before(c, d)
  IN
  IF answer = None THEN Default
  ELSE IF \E n \in DOMAIN items : items[n].second = Pet THEN Pet
  ELSE IF tops = {} THEN Default
  ELSE IF most \in DOMAIN Internal THEN Internal[most] ELSE Default

\* A transaction: the term the classifier is asked for, the ones after it, what the
\* session will write (category None: it has it already) and what it has written.
Asking(t, left, approves) ==
  [asked |-> t, left |-> left, approves |-> approves,
   pending |-> <<>>, flushed |-> {}, own |-> {}]

CreateSeed(r, t) ==
  /\ ~hung /\ requests[r] = None /\ Room
  /\ requests' = [requests EXCEPT ![r] = Asking(t, {}, {})]
  /\ UNCHANGED <<keywords, metrics, categories, candidates, run, hung, runs, prepared, clashed>>

\* The candidates in any order, those that are approved left out.
Approve(r) ==
  /\ ~hung /\ requests[r] = None /\ Room
  /\ \E ids \in SUBSET {c \in DOMAIN candidates : ~candidates[c]} : \E t \in ids :
       requests' = [requests EXCEPT ![r] = Asking(t, ids \ {t}, ids)]
  /\ UNCHANGED <<keywords, metrics, categories, candidates, run, hung, runs, prepared, clashed>>

\* The category of that name: the request fails when there are two, and adds it when
\* there is none, which writes all the session holds.
Rows(r, name) == categories[name] + (IF name \in requests[r].own THEN 1 ELSE 0)

\* Faulty variant: a category is added without a look at those that are there.
WithCategoryAlways(r, name) ==
  [requests[r] EXCEPT !.own = @ \cup {name}, !.flushed = DOMAIN requests[r].pending]

\* Faulty variant: a category that is missing is not added.
WithCategoryNever(r, name) == requests[r]

WithCategory(r, name) ==
  IF Rows(r, name) = 1 THEN requests[r]
  ELSE [requests[r] EXCEPT !.own = @ \cup {name}, !.flushed = DOMAIN requests[r].pending]

\* Faulty variant: each keyword is flushed as it is added.
WithKeywordFlushed(q, name) ==
  LET t == q.asked IN
  [q EXCEPT
     !.pending = Updated(@, [u \in {t} |->
       [insert |-> t \notin DOMAIN keywords, category |-> name]]),
     !.flushed = @ \cup {t}]

\* The keyword of the term is added, or changed if it is there.
WithKeyword(q, name) ==
  LET t == q.asked IN
  [q EXCEPT !.pending = Updated(@, [u \in {t} |->
     [insert |-> t \notin DOMAIN keywords,
      category |-> IF t \in DOMAIN keywords /\ keywords[t].category = name THEN None ELSE name]])]

\* What the session is still to write: waits for another request's row, or is refused.
Waits(r, q, ts) == (ts \ q.flushed) \cap Written(Requests \ {r}) # {}
Refused(q, ts) == \E t \in ts \ q.flushed : q.pending[t].insert /\ t \in DOMAIN keywords

Seeded(q) ==
  [t \in DOMAIN q.pending |->
     [seed |-> TRUE, status |-> "active",
      category |-> IF q.pending[t].category = None THEN keywords[t].category
                   ELSE q.pending[t].category]]

Fail(r) ==
  /\ requests' = [requests EXCEPT ![r] = None]
  /\ UNCHANGED <<keywords, categories, candidates, hung, clashed>>

Hang == hung' = TRUE /\ UNCHANGED <<keywords, categories, candidates, requests, clashed>>

\* Names that the request adds now and another one holds, as yet unseen.
Clashing(r, q) ==
  {n \in q.own \ requests[r].own :
     \E s \in Requests \ {r} : requests[s] # None /\ n \in requests[s].own}

Commit(r, q) ==
  /\ keywords' = Updated(keywords, Seeded(q))
  /\ categories' = [n \in Names |-> categories[n] + IF n \in q.own THEN 1 ELSE 0]
  /\ candidates' = [c \in DOMAIN candidates |-> candidates[c] \/ c \in q.approves]
  /\ requests' = [requests EXCEPT ![r] = None]
  /\ clashed' = clashed \cup Clashing(r, q)
  /\ hung' = hung

\* The classifier answers; from here to the next question nothing else runs on the loop.
Classified(r, name) ==
  LET before == DOMAIN requests[r].pending
      q == WithKeyword(WithCategory(r, name), name)
      all == DOMAIN q.pending
      flushes == WithCategory(r, name).own # requests[r].own
  IN
  /\ ~hung /\ requests[r] # None
  /\ \E answer \in Answered[requests[r].asked] : Class(answer) = name
  /\ IF Rows(r, name) > 1 THEN Fail(r)
     ELSE IF flushes /\ Waits(r, requests[r], before) THEN Hang
     ELSE IF flushes /\ Refused(requests[r], before) THEN Fail(r)
     ELSE IF q.left # {}
     THEN /\ \E t \in q.left :
               requests' = [requests EXCEPT ![r] = [q EXCEPT !.asked = t, !.left = @ \ {t}]]
          /\ clashed' = clashed \cup Clashing(r, q)
          /\ UNCHANGED <<keywords, categories, candidates, hung>>
     ELSE IF Waits(r, q, all) THEN Hang
     ELSE IF Refused(q, all) THEN Fail(r)
     ELSE Commit(r, q)
  /\ UNCHANGED <<metrics, run, runs, prepared>>

\* The API is started again.
Restart ==
  /\ run' = [run EXCEPT !["api"] = None]
  /\ requests' = [r \in Requests |-> None]
  /\ hung' = FALSE
  /\ UNCHANGED <<keywords, metrics, categories, candidates, runs, prepared, clashed>>

-----------------------------------------------------------------------------

Init ==
  /\ keywords = <<>> /\ candidates = [t \in Proposed |-> FALSE]
  /\ \E missing \in SUBSET Droppable :
       /\ categories = [n \in Names |-> IF n \in missing THEN 0 ELSE 1]
       /\ prepared = (missing = {})
  /\ metrics = <<>> /\ runs = 0 /\ hung = FALSE /\ clashed = {}
  /\ run = [p \in Processes |-> None]
  /\ requests = [r \in Requests |-> None]

Next ==
  \/ \E p \in Processes :
       \/ BeginCollect(p) \/ FetchRelated(p) \/ InsertNew(p)
       \/ BeginMetrics(p) \/ Measure(p) \/ CommitMetrics(p) \/ LoseRun(p)
  \/ \E r \in Requests :
       \/ Approve(r)
       \/ \E t \in Typed : CreateSeed(r, t)
       \/ \E name \in Names : Classified(r, name)
  \/ Restart

Spec == Init /\ [][Next]_vars

-----------------------------------------------------------------------------
(* Properties *)

Row == [seed : BOOLEAN, status : {"pending", "active"}, category : Names]

\* Keywords refer to a category that is there; open transactions hold what they may.
TypeOK ==
  /\ \A t \in DOMAIN keywords : keywords[t] \in Row /\ categories[keywords[t].category] > 0
  /\ \A t \in DOMAIN metrics : t \in DOMAIN keywords /\ DOMAIN metrics[t] = Sources
  /\ \A r \in Requests : requests[r] # None =>
       /\ requests[r].flushed \subseteq DOMAIN requests[r].pending
       /\ requests[r].asked \notin DOMAIN requests[r].pending \cup requests[r].left
  /\ runs \in 0..MaxRuns /\ hung \in BOOLEAN

\* "Promote selected candidates to keywords(is_seed=True)" (routers/admin.py): whichever job
\* loaded or inserted the row meanwhile, what is marked approved is an active seed, and the
\* score jobs, which take the active ones, meet no other keyword that was never measured
\* (collect_metrics.py).
StandingEarned ==
  /\ \A c \in DOMAIN candidates : candidates[c] =>
       c \in DOMAIN keywords /\ keywords[c].seed /\ keywords[c].status = "active"
  /\ \A t \in DOMAIN keywords :
       keywords[t].status = "active" /\ ~keywords[t].seed => t \in DOMAIN metrics

\* A keyword that is a seed stays one (collect_metrics.py, collect_keywords.py): no commit
\* of a row loaded before, or found missing before, takes it back.
SeedsStay ==
  [][\A t \in DOMAIN keywords :
       t \in DOMAIN keywords' /\ (keywords[t].seed => keywords'[t].seed)
       /\ (keywords[t].status = "active" => keywords'[t].status = "active")]_vars

\* The day's row is what one run saw (collect_metrics.py), not the columns of two, though
\* a later run of the day may have seen less.
RowOfOneRun ==
  \A t \in DOMAIN metrics : Cardinality({metrics[t][s] : s \in Sources} \ {None}) = 1

\* The name of a category is not unique: a second row, after which every request for the
\* name fails, comes only from two requests of which each found none while the other had
\* added it (routers/admin.py, routers/keywords.py); not from a request that asks for a name
\* twice, nor from what another one has committed between two of its questions.
SecondNamesClashed == \A n \in Names : categories[n] > 1 => n \in clashed

\* "default category should exist from seed.py" (routers/keywords.py): while they all do,
\* the API's loop never waits for a lock that a coroutine of its own holds
\* (routers/admin.py, db/session.py), as nothing is written before the last question.
LoopGoesOn == prepared => ~hung

=============================================================================
