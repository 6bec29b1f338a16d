--------------------------- MODULE KeywordsProofs ---------------------------
(***************************************************************************)
(* Proofs about Keywords, for every set of terms, categories, clients and  *)
(* requests and for every bound.                                           *)
(*                                                                         *)
(* The invariant says what runs and requests may rely on although they     *)
(* wait between what they read and what they write: keywords and           *)
(* categories are never taken away, so whatever was read is still there;   *)
(* and while every category has its row no request has written anything    *)
(* before its last question, so that there is nothing to wait for.         *)
(***************************************************************************)
EXTENDS Keywords, FiniteSetTheorems, TLAPS

Filled(name) == name \in Names /\ categories[name] > 0

KeywordRows == \A t \in DOMAIN keywords : keywords[t] \in Row /\ Filled(keywords[t].category)

\* A row of the day: what one run has seen.
SeenBy(n, row) ==
  /\ DOMAIN row = Sources
  /\ \A s \in Sources : row[s] \in {n, None}
  /\ \E s \in Sources : row[s] = n

MetricRows ==
  \A t \in DOMAIN metrics : t \in DOMAIN keywords /\ \E n \in Nat : SeenBy(n, metrics[t])

CollectRun(x) ==
  /\ x = [job |-> "collect", left |-> x.left, known |-> x.known, seeds |-> x.seeds, new |-> x.new]
  /\ x.left \subseteq DOMAIN x.seeds
  /\ \A t \in DOMAIN x.seeds : Filled(x.seeds[t])
  /\ \A t \in DOMAIN x.new : Filled(x.new[t])

MetricsRun(x) ==
  /\ x = [job |-> "metrics", number |-> x.number, left |-> x.left,
          loaded |-> x.loaded, rows |-> x.rows]
  /\ x.number \in Nat
  /\ x.left \cup DOMAIN x.rows \subseteq DOMAIN x.loaded
  /\ DOMAIN x.loaded \subseteq DOMAIN keywords
  /\ \A t \in DOMAIN x.rows : SeenBy(x.number, x.rows[t])

RunShape(x) == x = None \/ x = [job |-> "between"] \/ CollectRun(x) \/ MetricsRun(x)

\* What the session is to write for a term: it is there already, or it has its category.
Held(t, value, own) ==
  IF value = None THEN t \in DOMAIN keywords
  ELSE value \in Names /\ (value \in own \/ categories[value] > 0)

RequestShape(x) ==
  /\ x = [asked |-> x.asked, left |-> x.left, approves |-> x.approves,
          pending |-> x.pending, flushed |-> x.flushed, own |-> x.own]
  /\ x.asked \notin DOMAIN x.pending \cup x.left
  /\ x.left \cap DOMAIN x.pending = {}
  /\ x.flushed \subseteq DOMAIN x.pending
  /\ x.approves \subseteq {x.asked} \cup x.left \cup DOMAIN x.pending
  /\ \A t \in DOMAIN x.pending : Held(t, x.pending[t].category, x.own)

\* Nothing is written early while every category is there.
Unwritten ==
  prepared =>
    /\ ~hung
    /\ \A n \in Names : categories[n] = 1
    /\ \A r \in Requests : requests[r] # None => requests[r].own = {} /\ requests[r].flushed = {}

\* A name that did not clash: one row at most, or one request that is to add it.
Single(n) ==
  /\ categories[n] <= 1
  /\ \A r \in Requests : requests[r] # None /\ n \in requests[r].own =>
       /\ categories[n] = 0
       /\ \A s \in Requests : requests[s] # None /\ n \in requests[s].own => s = r

Singles == \A n \in Names : n \notin clashed => Single(n)

IInv ==
  /\ DOMAIN run = Processes /\ DOMAIN requests = Requests
  /\ categories \in [Names -> Nat]
  /\ runs \in 0..MaxRuns /\ hung \in BOOLEAN
  /\ KeywordRows
  /\ MetricRows
  /\ \A p \in Processes : RunShape(run[p])
  /\ \A r \in Requests : requests[r] # None => RequestShape(requests[r])
  /\ StandingEarned
  /\ Unwritten
  /\ Singles

\* Keywords and categories only grow.
Grows ==
  /\ \A t \in DOMAIN keywords :
       t \in DOMAIN keywords' /\ (keywords[t].seed => keywords'[t].seed)
       /\ (keywords[t].status = "active" => keywords'[t].status = "active")
  /\ categories' \in [Names -> Nat]
  /\ \A n \in Names : categories[n] > 0 => categories'[n] > 0

-----------------------------------------------------------------------------
(* What was read stays true *)

LEMMA EmptyDomain == DOMAIN <<>> = {}
OBVIOUS

LEMMA UpdatedFacts ==
  ASSUME NEW f, NEW g
  PROVE /\ DOMAIN Updated(f, g) = DOMAIN f \cup DOMAIN g
        /\ \A x \in DOMAIN g : Updated(f, g)[x] = g[x]
        /\ \A x \in DOMAIN f \ DOMAIN g : Updated(f, g)[x] = f[x]
BY DEF Updated

\* Whatever a run or a request holds over from an earlier state is still good.
LEMMA RunStays ==
  ASSUME Grows, NEW p \in Processes, RunShape(run[p]), run'[p] = run[p]
  PROVE  RunShape(run[p])'
<1>1. CASE CollectRun(run[p])
  <2>1. CollectRun(run[p])'
    BY <1>1 DEF CollectRun, Filled, Grows
  <2> QED
    BY <2>1 DEF RunShape
<1>2. CASE MetricsRun(run[p])
  <2>1. MetricsRun(run[p])'
    BY <1>2 DEF MetricsRun, Grows, SeenBy
  <2> QED
    BY <2>1 DEF RunShape
<1>3. CASE run[p] = None \/ run[p] = [job |-> "between"]
  BY <1>3 DEF RunShape
<1> QED
  BY <1>1, <1>2, <1>3 DEF RunShape

LEMMA RequestStays ==
  ASSUME Grows, NEW r \in Requests, RequestShape(requests[r]), requests'[r] = requests[r]
  PROVE  RequestShape(requests[r])'
<1>1. \A t \in DOMAIN requests[r].pending :
        Held(t, requests[r].pending[t].category, requests[r].own)'
  BY DEF RequestShape, Held, Grows
<1> QED
  BY <1>1 DEF RequestShape

LEMMA QuietTables ==
  ASSUME IInv, UNCHANGED <<keywords, categories>>
  PROVE  Grows /\ KeywordRows'
BY DEF IInv, Grows, KeywordRows, Filled

LEMMA QuietRuns ==
  ASSUME IInv, Grows, UNCHANGED run
  PROVE  DOMAIN run' = Processes /\ \A p \in Processes : RunShape(run[p])'
BY RunStays DEF IInv

LEMMA QuietRequests ==
  ASSUME IInv, Grows, UNCHANGED requests
  PROVE  /\ DOMAIN requests' = Requests
         /\ \A r \in Requests : requests'[r] # None => RequestShape(requests[r])'
BY RequestStays DEF IInv

\* One run changes and nothing else but perhaps the number of runs.
LEMMA OneRun ==
  ASSUME IInv, NEW p \in Processes, NEW x, run' = [run EXCEPT ![p] = x],
         runs' \in 0..MaxRuns, RunShape(x),
         UNCHANGED <<keywords, metrics, categories, candidates, requests, hung, prepared, clashed>>
  PROVE  IInv'
<1>1. Grows /\ KeywordRows'
  BY QuietTables
<1>2. \A q \in Processes \ {p} : RunShape(run[q])'
  BY <1>1, RunStays DEF IInv
<1>3. run'[p] = x
  BY DEF IInv
<1>4. RunShape(run[p])'
  BY <1>3 DEF RunShape, CollectRun, MetricsRun, Filled
<1>5. MetricRows' /\ StandingEarned' /\ Unwritten' /\ Singles'
  BY DEF IInv, MetricRows, SeenBy, StandingEarned, Unwritten, Singles, Single
<1> QED
  BY <1>1, <1>2, <1>4, <1>5, QuietRequests DEF IInv

\* One request changes and nothing else but perhaps the names that clashed.
LEMMA OneRequest ==
  ASSUME IInv, NEW r \in Requests, NEW x, requests' = [requests EXCEPT ![r] = x],
         x # None => RequestShape(x), prepared /\ x # None => x.own = {} /\ x.flushed = {},
         Singles',
         UNCHANGED <<keywords, metrics, categories, candidates, run, runs, hung, prepared>>
  PROVE  IInv'
<1>1. Grows /\ KeywordRows'
  BY QuietTables
<1>2. \A q \in Requests \ {r} : requests'[q] # None => RequestShape(requests[q])'
  BY <1>1, RequestStays DEF IInv
<1>3. requests'[r] = x
  BY DEF IInv
<1>4. requests'[r] # None => RequestShape(requests[r])'
  BY <1>3 DEF RequestShape, Held
<1>5. MetricRows' /\ StandingEarned'
  BY DEF IInv, MetricRows, SeenBy, StandingEarned
<1>6. Unwritten'
  BY <1>3 DEF IInv, Unwritten
<1> QED
  BY <1>1, <1>2, <1>4, <1>5, <1>6, QuietRuns DEF IInv

\* A request that adds nothing clashes with none.
LEMMA SinglesStay ==
  ASSUME IInv, NEW r \in Requests, NEW x, requests' = [requests EXCEPT ![r] = x],
         x # None => x.own = {}, UNCHANGED <<categories, clashed>>
  PROVE  Singles'
<1> SUFFICES ASSUME NEW n \in Names, n \notin clashed PROVE Single(n)'
  BY DEF Singles
<1>1. Single(n)
  BY DEF IInv, Singles
<1>2. requests'[r] = x /\ \A s \in Requests \ {r} : requests'[s] = requests[s]
  BY DEF IInv
<1>3. \A s \in Requests : requests'[s] # None /\ n \in requests'[s].own =>
        requests[s] # None /\ n \in requests[s].own
  BY <1>2
<1> QED
  BY <1>1, <1>3 DEF Single

-----------------------------------------------------------------------------
(* Runs *)

LEMMA InitStep == Init => IInv
<1> SUFFICES ASSUME Init PROVE IInv
  OBVIOUS
<1> USE DEF Init
<1>1. KeywordRows /\ MetricRows /\ StandingEarned
  BY EmptyDomain DEF KeywordRows, MetricRows, StandingEarned
<1>8. \A n \in Names : categories[n] \in {0, 1} /\ (prepared => categories[n] = 1)
  OBVIOUS
<1>9. \A r \in Requests : requests[r] = None
  OBVIOUS
<1>2. Unwritten /\ Singles
  BY <1>8, <1>9 DEF Unwritten, Singles, Single
<1>3. categories \in [Names -> Nat]
  OBVIOUS
<1>4. runs \in 0..MaxRuns
  BY KeywordsAssumption
<1>7. hung \in BOOLEAN
  OBVIOUS
<1>5. DOMAIN run = Processes /\ \A p \in Processes : RunShape(run[p])
  BY DEF RunShape
<1>6. DOMAIN requests = Requests /\ \A r \in Requests : requests[r] = None
  OBVIOUS
<1> QED
  BY <1>1, <1>2, <1>3, <1>4, <1>5, <1>6, <1>7 DEF IInv

LEMMA BeginCollectStep ==
  ASSUME IInv, NEW p \in Processes, BeginCollect(p)
  PROVE  IInv'
<1> DEFINE x == [job |-> "collect", left |-> Seeds, known |-> DOMAIN keywords,
                 seeds |-> [t \in Seeds |-> keywords[t].category], new |-> <<>>]
<1>1. \A t \in Seeds : Filled(keywords[t].category)
  BY DEF IInv, KeywordRows, Seeds
<1>2. CollectRun(x)
  BY <1>1, EmptyDomain DEF CollectRun
<1>3. RunShape(x)
  BY <1>2 DEF RunShape
<1> HIDE DEF x
<1>4. run' = [run EXCEPT ![p] = x]
  BY DEF BeginCollect, x
<1> QED
  BY <1>3, <1>4, OneRun DEF BeginCollect, IInv

LEMMA FetchRelatedStep ==
  ASSUME IInv, NEW p \in Processes, FetchRelated(p)
  PROVE  IInv'
<1>1. CollectRun(run[p])
  BY DEF FetchRelated, IInv, RunShape, CollectRun, MetricsRun
<1>2. PICK s \in run[p].left :
        \E terms : run' = [run EXCEPT ![p].left = @ \ {s},
                             ![p].new = Updated(@, [t \in terms |-> run[p].seeds[s]])]
  BY DEF FetchRelated
<1>3. PICK terms : run' = [run EXCEPT ![p].left = @ \ {s},
                             ![p].new = Updated(@, [t \in terms |-> run[p].seeds[s]])]
  BY <1>2
<1> DEFINE new == Updated(run[p].new, [t \in terms |-> run[p].seeds[s]])
<1> DEFINE x == [job |-> "collect", left |-> run[p].left \ {s}, known |-> run[p].known,
                 seeds |-> run[p].seeds, new |-> new]
<1>4. Filled(run[p].seeds[s])
  BY <1>1 DEF CollectRun
<1>5. \A t \in DOMAIN new : Filled(new[t])
  BY <1>1, <1>4 DEF CollectRun, Updated
<1> HIDE DEF new
<1>6. CollectRun(x)
  BY <1>1, <1>5 DEF CollectRun
<1>7. RunShape(x)
  BY <1>6 DEF RunShape
<1>8. run' = [run EXCEPT ![p] = [run[p] EXCEPT !.left = @ \ {s}, !.new = new]]
  BY <1>3 DEF new
<1> DEFINE y == [run[p] EXCEPT !.left = @ \ {s}]
<1>9. y = [job |-> "collect", left |-> run[p].left \ {s}, known |-> run[p].known,
           seeds |-> run[p].seeds, new |-> run[p].new]
  BY <1>1 DEF CollectRun
<1>10. [run[p] EXCEPT !.left = @ \ {s}, !.new = new] = [y EXCEPT !.new = new]
  OBVIOUS
<1> HIDE DEF y
<1>11. [y EXCEPT !.new = new] = x
  BY <1>9
<1> HIDE DEF x
<1> QED
  BY <1>7, <1>8, <1>10, <1>11, OneRun DEF FetchRelated, IInv

LEMMA BeginMetricsStep ==
  ASSUME IInv, NEW p \in Processes, BeginMetrics(p)
  PROVE  IInv'
<1> DEFINE rows == {t \in DOMAIN keywords : keywords[t].status \in {"pending", "active"}}
<1> DEFINE x == [job |-> "metrics", number |-> runs + 1, left |-> rows,
                 loaded |-> [t \in rows |-> keywords[t]], rows |-> <<>>]
<1>1. runs' \in 0..MaxRuns /\ runs + 1 \in Nat
  BY KeywordsAssumption DEF BeginMetrics, IInv
<1>2. MetricsRun(x)
  BY <1>1, EmptyDomain DEF MetricsRun
<1>3. RunShape(x)
  BY <1>2 DEF RunShape
<1>4. run' = [run EXCEPT ![p] = x]
  BY DEF BeginMetrics
<1> HIDE DEF x
<1> QED
  BY <1>1, <1>3, <1>4, OneRun DEF BeginMetrics

LEMMA MeasureStep ==
  ASSUME IInv, NEW p \in Processes, Measure(p)
  PROVE  IInv'
<1>1. MetricsRun(run[p])
  BY DEF Measure, IInv, RunShape, CollectRun, MetricsRun
<1>2. PICK t \in run[p].left, answered \in Answers :
        IF answered = {} THEN run' = [run EXCEPT ![p].left = @ \ {t}]
        ELSE run' = [run EXCEPT
               ![p].left = @ \ {t},
               ![p].rows = Updated(@, [u \in {t} |->
                 [s \in Sources |-> IF s \in answered THEN run[p].number ELSE None]])]
  BY DEF Measure
<1> DEFINE row == [s \in Sources |-> IF s \in answered THEN run[p].number ELSE None]
<1> DEFINE rows == IF answered = {} THEN run[p].rows ELSE Updated(run[p].rows, [u \in {t} |-> row])
<1> DEFINE x == [job |-> "metrics", number |-> run[p].number, left |-> run[p].left \ {t},
                 loaded |-> run[p].loaded, rows |-> rows]
<1>3. answered # {} => SeenBy(run[p].number, row)
  BY KeywordsAssumption DEF SeenBy
<1>4. /\ DOMAIN rows \subseteq DOMAIN run[p].loaded
      /\ \A u \in DOMAIN rows : SeenBy(run[p].number, rows[u])
  <2> HIDE DEF row
  <2>1. CASE answered = {}
    BY <1>1, <2>1 DEF MetricsRun
  <2>2. CASE answered # {}
    BY <1>1, <1>3, <2>2 DEF MetricsRun, Updated
  <2> QED
    BY <2>1, <2>2
<1>5. run' = [run EXCEPT ![p] = x]
  BY <1>1, <1>2 DEF MetricsRun
<1> HIDE DEF rows
<1>6. MetricsRun(x)
  BY <1>1, <1>4 DEF MetricsRun
<1>7. RunShape(x)
  BY <1>6 DEF RunShape
<1> HIDE DEF x
<1> QED
  BY <1>5, <1>7, OneRun DEF Measure, IInv

LEMMA LoseRunStep ==
  ASSUME IInv, NEW p \in Processes, LoseRun(p)
  PROVE  IInv'
BY OneRun DEF LoseRun, IInv, RunShape

-----------------------------------------------------------------------------
(* What is committed *)

LEMMA NothingWritten ==
  ASSUME IInv, prepared, NEW rs \in SUBSET Requests
  PROVE  Written(rs) = {}
BY DEF IInv, Unwritten, Written

\* A loop that waits for a request's row: some category was missing.
LEMMA HangStep ==
  ASSUME IInv, NEW rs \in SUBSET Requests, Written(rs) # {}, hung' = TRUE,
         UNCHANGED <<keywords, metrics, categories, candidates, run, requests, runs, prepared, clashed>>
  PROVE  IInv'
<1>1. Unwritten' /\ Singles'
  BY NothingWritten DEF Unwritten, IInv, Singles, Single
<1>2. MetricRows' /\ StandingEarned'
  BY DEF IInv, MetricRows, SeenBy, StandingEarned
<1> QED
  BY <1>1, <1>2, QuietTables, QuietRuns, QuietRequests DEF IInv

LEMMA InsertNewStep ==
  ASSUME IInv, NEW p \in Processes, InsertNew(p)
  PROVE  IInv' /\ Grows
<1> DEFINE new == DOMAIN run[p].new
<1>1. CollectRun(run[p])
  BY DEF InsertNew, IInv, RunShape, CollectRun, MetricsRun
<1>2. CASE new \cap Written(Requests) # {}
  <2>1. Written(Requests) # {} /\ hung' = TRUE /\ UNCHANGED <<keywords, run>>
    BY <1>2 DEF InsertNew
  <2> QED
    BY <2>1, HangStep, QuietTables DEF InsertNew
<1>3. CASE new \cap Written(Requests) = {} /\ new \cap DOMAIN keywords # {}
  BY <1>3, OneRun, QuietTables DEF InsertNew, RunShape, IInv
<1>4. CASE new \cap Written(Requests) = {} /\ new \cap DOMAIN keywords = {}
  <2>1. /\ keywords' = Updated(keywords, NewRows(p))
        /\ run' = [run EXCEPT ![p] = Collected(p)] /\ hung' = hung
        /\ UNCHANGED <<metrics, categories, candidates, requests, runs, prepared, clashed>>
    BY <1>4 DEF InsertNew
  <2>2. /\ DOMAIN keywords' = DOMAIN keywords \cup new
        /\ \A t \in DOMAIN keywords : keywords'[t] = keywords[t]
        /\ \A t \in new : keywords'[t] =
             [seed |-> FALSE, status |-> "pending", category |-> run[p].new[t]]
    BY <1>4, <2>1 DEF Updated, NewRows
  <2>3. Grows
    BY <2>1, <2>2 DEF Grows, IInv
  <2>4. KeywordRows'
    <3>0. \A t \in new : Filled(run[p].new[t])
      BY <1>1 DEF CollectRun
    <3>1. \A t \in new : keywords'[t] \in Row /\ Filled(keywords'[t].category)
      <4> TAKE t \in new
      <4>1. keywords'[t] = [seed |-> FALSE, status |-> "pending", category |-> run[p].new[t]]
        BY <2>2
      <4> QED
        BY <3>0, <4>1 DEF Filled, Row
    <3>2. \A t \in DOMAIN keywords : keywords'[t] \in Row /\ Filled(keywords'[t].category)
      BY <2>2 DEF IInv, KeywordRows
    <3> QED
      BY <2>1, <2>2, <3>1, <3>2 DEF KeywordRows, Filled, Row
  <2>5. \A q \in Processes : RunShape(run[q])'
    <3>1. RunShape(run[p])'
      BY <2>1 DEF IInv, RunShape, Collected
    <3>2. \A q \in Processes \ {p} : RunShape(run[q])'
      BY <2>1, <2>3, RunStays DEF IInv
    <3> QED
      BY <3>1, <3>2
  <2>6. MetricRows'
    BY <2>1, <2>2 DEF IInv, MetricRows, SeenBy
  <2>7. StandingEarned'
    <3>1. \A c \in DOMAIN candidates : candidates[c] =>
            c \in DOMAIN keywords' /\ keywords'[c].seed /\ keywords'[c].status = "active"
      BY <2>2 DEF IInv, StandingEarned
    <3>2. \A t \in DOMAIN keywords :
            keywords'[t].status = "active" /\ ~keywords'[t].seed => t \in DOMAIN metrics
      BY <2>2 DEF IInv, StandingEarned
    <3>3. \A t \in new : keywords'[t].status # "active"
      <4> TAKE t \in new
      <4>1. keywords'[t] = [seed |-> FALSE, status |-> "pending", category |-> run[p].new[t]]
        BY <2>2
      <4> QED
        BY <4>1
    <3> QED
      BY <2>1, <2>2, <3>1, <3>2, <3>3 DEF StandingEarned
  <2>8. Unwritten' /\ Singles'
    BY <2>1 DEF IInv, Unwritten, Singles, Single
  <2> QED
    BY <2>1, <2>3, <2>4, <2>5, <2>6, <2>7, <2>8, QuietRequests DEF IInv
<1> QED
  BY <1>2, <1>3, <1>4

LEMMA CommitMetricsStep ==
  ASSUME IInv, NEW p \in Processes, CommitMetrics(p)
  PROVE  IInv' /\ Grows
<1> DEFINE rows == DOMAIN run[p].rows
<1>1. MetricsRun(run[p])
  BY DEF CommitMetrics, IInv, RunShape, CollectRun, MetricsRun
<1>2. CASE rows \cap Written(Requests) # {}
  <2>1. Written(Requests) # {} /\ hung' = TRUE /\ UNCHANGED <<keywords, metrics, run>>
    BY <1>2 DEF CommitMetrics
  <2> QED
    BY <2>1, HangStep, QuietTables DEF CommitMetrics
<1>3. CASE rows \cap Written(Requests) = {}
  <2>1. /\ metrics' = Updated(metrics, run[p].rows)
        /\ keywords' = Updated(keywords, Promoted(p))
        /\ run' = [run EXCEPT ![p] = None] /\ hung' = hung
        /\ UNCHANGED <<categories, candidates, requests, runs, prepared, clashed>>
    BY <1>3 DEF CommitMetrics, Overwrite
  <2>2. rows \subseteq DOMAIN keywords
    BY <1>1 DEF MetricsRun
  <2>3. /\ DOMAIN keywords' = DOMAIN keywords
        /\ \A t \in DOMAIN keywords :
             \/ keywords'[t] = keywords[t]
             \/ t \in rows /\ keywords'[t] = [keywords[t] EXCEPT !.status = "active"]
    BY <2>1, <2>2 DEF Updated, Promoted
  <2>4. /\ DOMAIN metrics' = DOMAIN metrics \cup rows
        /\ \A t \in rows : metrics'[t] = run[p].rows[t]
        /\ \A t \in DOMAIN metrics \ rows : metrics'[t] = metrics[t]
    BY <2>1 DEF Updated
  <2>5. \A t \in DOMAIN keywords :
          /\ keywords'[t] \in Row
          /\ keywords'[t].seed = keywords[t].seed
          /\ keywords'[t].category = keywords[t].category
          /\ keywords[t].status = "active" => keywords'[t].status = "active"
          /\ keywords'[t].status = "active" => keywords[t].status = "active" \/ t \in rows
    BY <2>3 DEF IInv, KeywordRows, Row
  <2>6. Grows
    BY <2>1, <2>3, <2>5 DEF Grows, IInv
  <2>7. KeywordRows'
    BY <2>1, <2>3, <2>5 DEF IInv, KeywordRows, Filled, Row
  <2>8. \A q \in Processes : RunShape(run[q])'
    <3>1. RunShape(run[p])'
      BY <2>1 DEF IInv, RunShape
    <3>2. \A q \in Processes \ {p} : RunShape(run[q])'
      BY <2>1, <2>6, RunStays DEF IInv
    <3> QED
      BY <3>1, <3>2
  <2>9. MetricRows'
    <3>1. \A t \in rows : \E n \in Nat : SeenBy(n, metrics'[t])
      BY <1>1, <2>4 DEF MetricsRun
    <3>2. \A t \in DOMAIN metrics \ rows : \E n \in Nat : SeenBy(n, metrics'[t])
      BY <2>4 DEF IInv, MetricRows
    <3>3. DOMAIN metrics' \subseteq DOMAIN keywords'
      BY <2>2, <2>3, <2>4 DEF IInv, MetricRows
    <3> QED
      BY <2>4, <3>1, <3>2, <3>3 DEF MetricRows, SeenBy
  <2>10. StandingEarned'
    BY <2>1, <2>3, <2>4, <2>5 DEF IInv, StandingEarned
  <2>11. Unwritten' /\ Singles'
    BY <2>1 DEF IInv, Unwritten, Singles, Single
  <2> QED
    BY <2>1, <2>6, <2>7, <2>8, <2>9, <2>10, <2>11, QuietRequests DEF IInv
<1> QED
  BY <1>2, <1>3

-----------------------------------------------------------------------------
(* Requests *)

LEMMA AskingShape ==
  ASSUME NEW t, NEW left, NEW approves, t \notin left, approves \subseteq {t} \cup left
  PROVE  /\ RequestShape(Asking(t, left, approves))
         /\ Asking(t, left, approves).own = {} /\ Asking(t, left, approves).flushed = {}
BY EmptyDomain DEF RequestShape, Asking

LEMMA CreateSeedStep ==
  ASSUME IInv, NEW r \in Requests, NEW t, CreateSeed(r, t)
  PROVE  IInv'
<1> DEFINE x == Asking(t, {}, {})
<1>1. RequestShape(x) /\ x.own = {} /\ x.flushed = {}
  BY AskingShape
<1>2. requests' = [requests EXCEPT ![r] = x]
      /\ UNCHANGED <<keywords, metrics, categories, candidates, run, runs, hung, prepared, clashed>>
  BY DEF CreateSeed
<1> HIDE DEF x
<1>3. Singles'
  BY <1>1, <1>2, SinglesStay
<1> QED
  BY <1>1, <1>2, <1>3, OneRequest

LEMMA ApproveStep ==
  ASSUME IInv, NEW r \in Requests, Approve(r)
  PROVE  IInv'
<1>0. PICK ids \in SUBSET DOMAIN candidates : \E t \in ids :
        requests' = [requests EXCEPT ![r] = Asking(t, ids \ {t}, ids)]
  BY DEF Approve
<1>1. PICK t \in ids : requests' = [requests EXCEPT ![r] = Asking(t, ids \ {t}, ids)]
  BY <1>0
<1>2. RequestShape(Asking(t, ids \ {t}, ids))
      /\ Asking(t, ids \ {t}, ids).own = {} /\ Asking(t, ids \ {t}, ids).flushed = {}
  BY AskingShape
<1>3. Singles'
  BY <1>1, <1>2, SinglesStay DEF Approve
<1> QED
  BY <1>1, <1>2, <1>3, OneRequest DEF Approve

\* What the request adds when it has found none.
LEMMA Added ==
  ASSUME IInv, NEW r \in Requests, requests[r] # None, NEW name \in Names, Rows(r, name) <= 1,
         NEW q, q = WithKeyword(WithCategory(r, name), name)
  PROVE  \/ q.own = requests[r].own
         \/ q.own = requests[r].own \cup {name} /\ categories[name] = 0
<1>1. RequestShape(requests[r])
  BY DEF IInv
<1> DEFINE c == WithCategory(r, name)
<1>2. q.own = c.own
  BY DEF WithKeyword
<1>3. CASE Rows(r, name) = 1
  BY <1>2, <1>3 DEF WithCategory
<1>4. CASE Rows(r, name) # 1
  <2>1. categories[name] = 0
    BY <1>4 DEF Rows, IInv
  <2>2. c = [requests[r] EXCEPT !.own = requests[r].own \cup {name},
                                !.flushed = DOMAIN requests[r].pending]
    BY <1>4 DEF WithCategory
  <2>3. c.own = requests[r].own \cup {name}
    BY <1>1, <2>2 DEF RequestShape
  <2> QED
    BY <1>2, <2>1, <2>3
<1> QED
  BY <1>3, <1>4

\* What is added without a clash is added by one request.
LEMMA SinglesAdded ==
  ASSUME IInv, NEW r \in Requests, requests[r] # None, NEW name \in Names, Rows(r, name) <= 1,
         NEW q, q = WithKeyword(WithCategory(r, name), name), NEW n \in Names,
         n \notin clashed, n \notin Clashing(r, q)
  PROVE  /\ n \in q.own => /\ categories[n] = 0
                          /\ \A s \in Requests \ {r} : requests[s] # None => n \notin requests[s].own
         /\ n \notin q.own => Single(n) /\ n \notin requests[r].own
<1>1. Single(n)
  BY DEF IInv, Singles
<1>2. n \notin q.own => n \notin requests[r].own
  BY Added
<1>3. CASE n \in requests[r].own
  BY <1>1, <1>2, <1>3 DEF Single
<1>4. CASE n \in q.own \ requests[r].own
  <2>1. categories[n] = 0
    BY <1>4, Added
  <2>2. \A s \in Requests \ {r} : requests[s] # None => n \notin requests[s].own
    BY <1>4 DEF Clashing
  <2> QED
    BY <1>4, <2>1, <2>2
<1> QED
  BY <1>1, <1>2, <1>3, <1>4

\* What the session holds once the classifier has named the category.
LEMMA NamedShape ==
  ASSUME IInv, NEW r \in Requests, requests[r] # None, NEW name \in Names, Rows(r, name) <= 1,
         NEW q, q = WithKeyword(WithCategory(r, name), name)
  PROVE  /\ q = [asked |-> q.asked, left |-> q.left, approves |-> q.approves,
                 pending |-> q.pending, flushed |-> q.flushed, own |-> q.own]
         /\ q.asked = requests[r].asked /\ q.left = requests[r].left
         /\ q.approves = requests[r].approves
         /\ DOMAIN q.pending = DOMAIN requests[r].pending \cup {requests[r].asked}
         /\ q.flushed \subseteq DOMAIN requests[r].pending
         /\ \A t \in DOMAIN q.pending : Held(t, q.pending[t].category, q.own)
         /\ prepared => q.own = {} /\ q.flushed = {}
<1> DEFINE c == WithCategory(r, name)
<1>1. RequestShape(requests[r])
  BY DEF IInv
<1>2. /\ c = [asked |-> requests[r].asked, left |-> requests[r].left,
              approves |-> requests[r].approves, pending |-> requests[r].pending,
              flushed |-> c.flushed, own |-> c.own]
      /\ c.flushed \subseteq DOMAIN requests[r].pending
      /\ requests[r].own \subseteq c.own
      /\ name \in c.own \/ categories[name] > 0
  <2>1. CASE Rows(r, name) = 1
    <3>1. c = requests[r]
      BY <2>1 DEF WithCategory
    <3>2. name \in requests[r].own \/ categories[name] > 0
      BY <2>1 DEF Rows, IInv
    <3> HIDE DEF c
    <3> QED
      BY <1>1, <3>1, <3>2 DEF RequestShape
  <2>2. CASE Rows(r, name) # 1
    <3> DEFINE own == requests[r].own \cup {name}
    <3> DEFINE y == [requests[r] EXCEPT !.own = own]
    <3>1. y = [asked |-> requests[r].asked, left |-> requests[r].left,
               approves |-> requests[r].approves, pending |-> requests[r].pending,
               flushed |-> requests[r].flushed, own |-> own]
      <4> HIDE DEF own
      <4> QED
        BY <1>1 DEF RequestShape
    <3>2. c = [requests[r] EXCEPT !.own = own, !.flushed = DOMAIN requests[r].pending]
      BY <2>2 DEF WithCategory
    <3>3. c = [y EXCEPT !.flushed = DOMAIN requests[r].pending]
      BY <3>2
    <3> HIDE DEF c, y
    <3> QED
      BY <3>1, <3>3
  <2> QED
    BY <2>1, <2>2
<1>3. prepared => c.own = {} /\ c.flushed = {}
  BY DEF IInv, Unwritten, WithCategory, Rows
<1> HIDE DEF c
<1> DEFINE value == IF c.asked \in DOMAIN keywords /\ keywords[c.asked].category = name
                    THEN None ELSE name
<1> DEFINE item == [insert |-> c.asked \notin DOMAIN keywords, category |-> value]
<1>4. Held(c.asked, value, c.own)
  BY <1>2, KeywordsAssumption DEF Held
<1> HIDE DEF value
<1>5. q = [c EXCEPT !.pending = Updated(@, [u \in {c.asked} |-> item])]
  BY DEF WithKeyword, c, value
<1>6. /\ q = [asked |-> c.asked, left |-> c.left, approves |-> c.approves,
              pending |-> q.pending, flushed |-> c.flushed, own |-> c.own]
      /\ q.pending = Updated(requests[r].pending, [u \in {c.asked} |-> item])
  BY <1>2, <1>5
<1>7. /\ DOMAIN q.pending = DOMAIN requests[r].pending \cup {c.asked}
      /\ q.pending[c.asked] = item
      /\ \A t \in DOMAIN requests[r].pending \ {c.asked} : q.pending[t] = requests[r].pending[t]
  BY <1>6 DEF Updated
<1>8. \A t \in DOMAIN requests[r].pending : Held(t, requests[r].pending[t].category, c.own)
  BY <1>1, <1>2 DEF RequestShape, Held
<1>9. \A t \in DOMAIN q.pending : Held(t, q.pending[t].category, q.own)
  BY <1>4, <1>6, <1>7, <1>8
<1> QED
  BY <1>2, <1>3, <1>6, <1>7, <1>9

LEMMA CommitStep ==
  ASSUME IInv, NEW r \in Requests, requests[r] # None, NEW name \in Names, Rows(r, name) <= 1,
         NEW q, q = WithKeyword(WithCategory(r, name), name), q.left = {}, Commit(r, q),
         UNCHANGED <<metrics, run, runs, prepared>>
  PROVE  IInv' /\ Grows
<1>1. RequestShape(requests[r])
  BY DEF IInv
<1>2. /\ q.asked = requests[r].asked /\ q.left = requests[r].left
      /\ q.approves = requests[r].approves
      /\ DOMAIN q.pending = DOMAIN requests[r].pending \cup {requests[r].asked}
      /\ \A t \in DOMAIN q.pending : Held(t, q.pending[t].category, q.own)
      /\ prepared => q.own = {}
  BY NamedShape
<1>3. q.approves \subseteq DOMAIN q.pending
  BY <1>1, <1>2 DEF RequestShape
<1>4. /\ keywords' = Updated(keywords, Seeded(q))
      /\ categories' = [n \in Names |-> categories[n] + IF n \in q.own THEN 1 ELSE 0]
      /\ candidates' = [c \in DOMAIN candidates |-> candidates[c] \/ c \in q.approves]
      /\ requests' = [requests EXCEPT ![r] = None] /\ hung' = hung
  BY DEF Commit
<1>5. /\ DOMAIN keywords' = DOMAIN keywords \cup DOMAIN q.pending
      /\ \A t \in DOMAIN q.pending : keywords'[t] =
           [seed |-> TRUE, status |-> "active",
            category |-> IF q.pending[t].category = None THEN keywords[t].category
                         ELSE q.pending[t].category]
      /\ \A t \in DOMAIN keywords \ DOMAIN q.pending : keywords'[t] = keywords[t]
  BY <1>4 DEF Updated, Seeded
<1>6. /\ categories' \in [Names -> Nat]
      /\ \A n \in Names : categories[n] > 0 \/ n \in q.own => categories'[n] > 0
      /\ q.own = {} => categories' = categories
  BY <1>4 DEF IInv
<1>14. \A t \in DOMAIN q.pending : keywords'[t].seed /\ keywords'[t].status = "active"
  <2> TAKE t \in DOMAIN q.pending
  <2> DEFINE name1 == IF q.pending[t].category = None THEN keywords[t].category
                      ELSE q.pending[t].category
  <2>1. keywords'[t] = [seed |-> TRUE, status |-> "active", category |-> name1]
    BY <1>5
  <2> HIDE DEF name1
  <2> QED
    BY <2>1
<1>7. Grows
  <2>1. \A t \in DOMAIN keywords :
          t \in DOMAIN keywords' /\ (keywords[t].seed => keywords'[t].seed)
          /\ (keywords[t].status = "active" => keywords'[t].status = "active")
    BY <1>5, <1>14
  <2> QED
    BY <1>6, <2>1 DEF Grows
<1>8. KeywordRows'
  <2>1. \A t \in DOMAIN q.pending : keywords'[t] \in Row /\ Filled(keywords[t].category)'
    <3> TAKE t \in DOMAIN q.pending
    <3> DEFINE name1 == IF q.pending[t].category = None THEN keywords[t].category
                        ELSE q.pending[t].category
    <3>1. name1 \in Names /\ (categories[name1] > 0 \/ name1 \in q.own)
      BY <1>2 DEF Held, IInv, KeywordRows, Filled
    <3>2. keywords'[t] = [seed |-> TRUE, status |-> "active", category |-> name1]
      BY <1>5
    <3> HIDE DEF name1
    <3>3. name1 \in Names /\ categories'[name1] > 0
      BY <1>6, <3>1
    <3> QED
      BY <3>2, <3>3 DEF Filled, Row
  <2>2. \A t \in DOMAIN keywords \ DOMAIN q.pending :
          keywords'[t] \in Row /\ Filled(keywords[t].category)'
    BY <1>5, <1>6 DEF IInv, KeywordRows, Filled
  <2> QED
    BY <1>5, <2>1, <2>2 DEF KeywordRows, Row
<1>9. MetricRows'
  BY <1>5 DEF IInv, MetricRows, SeenBy
<1>10. \A s \in Requests : requests'[s] # None => RequestShape(requests[s])'
  <2>1. \A s \in Requests \ {r} : requests'[s] # None => RequestShape(requests[s])'
    BY <1>4, <1>7, RequestStays DEF IInv
  <2>2. requests'[r] = None
    BY <1>4 DEF IInv
  <2> QED
    BY <2>1, <2>2
<1>11. StandingEarned'
  <2>1. \A c \in DOMAIN candidates' : candidates'[c] =>
          c \in DOMAIN keywords' /\ keywords'[c].seed /\ keywords'[c].status = "active"
    <3> TAKE c \in DOMAIN candidates'
    <3>1. DOMAIN candidates' = DOMAIN candidates
          /\ (candidates'[c] => candidates[c] \/ c \in q.approves)
      BY <1>4
    <3>2. CASE c \in DOMAIN q.pending
      BY <1>5, <1>14, <3>2
    <3>3. CASE c \notin DOMAIN q.pending
      BY <1>3, <1>5, <3>1, <3>3 DEF IInv, StandingEarned
    <3> QED
      BY <3>2, <3>3
  <2>2. \A t \in DOMAIN keywords' :
          keywords'[t].status = "active" /\ ~keywords'[t].seed => t \in DOMAIN metrics'
    BY <1>5, <1>14 DEF IInv, StandingEarned
  <2> QED
    BY <2>1, <2>2 DEF StandingEarned
<1>12. Unwritten'
  BY <1>2, <1>4, <1>6 DEF IInv, Unwritten
<1>15. Singles'
  <2> SUFFICES ASSUME NEW n \in Names, n \notin clashed' PROVE Single(n)'
    BY DEF Singles
  <2>1. n \notin clashed /\ n \notin Clashing(r, q)
    BY DEF Commit
  <2>2. categories'[n] = categories[n] + (IF n \in q.own THEN 1 ELSE 0)
        /\ requests'[r] = None /\ \A s \in Requests \ {r} : requests'[s] = requests[s]
    BY <1>4 DEF IInv
  <2>3. categories[n] \in Nat
    BY DEF IInv
  <2> QED
    BY <2>1, <2>2, <2>3, SinglesAdded DEF Single
<1>13. DOMAIN requests' = Requests
  BY <1>4 DEF IInv
<1> QED
  BY <1>4, <1>6, <1>7, <1>8, <1>9, <1>10, <1>11, <1>12, <1>13, <1>15, QuietRuns DEF IInv

LEMMA ClassifiedStep ==
  ASSUME IInv, NEW r \in Requests, NEW name \in Names, Classified(r, name)
  PROVE  IInv' /\ Grows
<1> DEFINE q == WithKeyword(WithCategory(r, name), name)
<1> DEFINE before == DOMAIN requests[r].pending
<1>1. /\ ~hung /\ requests[r] # None
      /\ UNCHANGED <<metrics, run, runs, prepared>>
      /\ \/ Fail(r)
         \/ Rows(r, name) <= 1 /\ Hang /\ Written(Requests \ {r}) # {}
         \/ /\ Rows(r, name) <= 1 /\ q.left # {}
            /\ \E t \in q.left :
                 requests' = [requests EXCEPT ![r] = [q EXCEPT !.asked = t, !.left = @ \ {t}]]
            /\ clashed' = clashed \cup Clashing(r, q)
            /\ UNCHANGED <<keywords, categories, candidates, hung>>
         \/ Rows(r, name) <= 1 /\ q.left = {} /\ Commit(r, q)
  <2>1. Rows(r, name) > 1 \/ Rows(r, name) <= 1
    BY DEF IInv, Rows
  <2> DEFINE all == DOMAIN q.pending
  <2> DEFINE flushes == WithCategory(r, name).own # requests[r].own
  <2>2. /\ ~hung /\ requests[r] # None
        /\ UNCHANGED <<metrics, run, runs, prepared>>
        /\ IF Rows(r, name) > 1 THEN Fail(r)
           ELSE IF flushes /\ Waits(r, requests[r], before) THEN Hang
           ELSE IF flushes /\ Refused(requests[r], before) THEN Fail(r)
           ELSE IF q.left # {}
           THEN /\ \E t \in q.left :
                     requests' = [requests EXCEPT ![r] = [q EXCEPT !.asked = t, !.left = @ \ {t}]]
                /\ clashed' = clashed \cup Clashing(r, q)
                /\ UNCHANGED <<keywords, categories, candidates, hung>>
           ELSE IF Waits(r, q, all) THEN Hang
           ELSE IF Refused(q, all) THEN Fail(r)
           ELSE Commit(r, q)
    BY Zenon DEF Classified
  <2>3. (Waits(r, requests[r], before) \/ Waits(r, q, all)) => Written(Requests \ {r}) # {}
    BY DEF Waits
  <2> HIDE DEF q, before, all, flushes
  <2> QED
    BY <2>1, <2>2, <2>3, ZenonT(30)
<1> HIDE DEF q
<1>2. CASE Fail(r)
  <2>1. Singles'
    BY <1>2, SinglesStay DEF Fail
  <2> QED
    BY <1>1, <1>2, <2>1, OneRequest, QuietTables DEF Fail
<1>3. CASE Hang /\ Written(Requests \ {r}) # {}
  BY <1>1, <1>3, HangStep, QuietTables DEF Hang
<1>4. ASSUME Rows(r, name) <= 1, NEW t \in q.left,
             requests' = [requests EXCEPT ![r] = [q EXCEPT !.asked = t, !.left = @ \ {t}]],
             clashed' = clashed \cup Clashing(r, q),
             UNCHANGED <<keywords, categories, candidates, hung>>
      PROVE  IInv' /\ Grows
  <2> DEFINE x == [q EXCEPT !.asked = t, !.left = @ \ {t}]
  <2>1. RequestShape(requests[r])
    BY <1>1 DEF IInv
  <2>2. /\ q = [asked |-> q.asked, left |-> q.left, approves |-> q.approves,
                pending |-> q.pending, flushed |-> q.flushed, own |-> q.own]
        /\ q.asked = requests[r].asked /\ q.left = requests[r].left
        /\ q.approves = requests[r].approves
        /\ DOMAIN q.pending = DOMAIN requests[r].pending \cup {requests[r].asked}
        /\ q.flushed \subseteq DOMAIN requests[r].pending
        /\ \A u \in DOMAIN q.pending : Held(u, q.pending[u].category, q.own)
        /\ prepared => q.own = {} /\ q.flushed = {}
    BY <1>1, <1>4, NamedShape DEF q
  <2>3. x = [asked |-> t, left |-> q.left \ {t}, approves |-> q.approves,
             pending |-> q.pending, flushed |-> q.flushed, own |-> q.own]
    <3> DEFINE y == [q EXCEPT !.asked = t]
    <3>1. y = [asked |-> t, left |-> q.left, approves |-> q.approves,
               pending |-> q.pending, flushed |-> q.flushed, own |-> q.own]
      BY <2>2
    <3>2. x = [y EXCEPT !.left = q.left \ {t}]
      OBVIOUS
    <3> HIDE DEF x, y
    <3> QED
      BY <3>1, <3>2
  <2>4. requests' = [requests EXCEPT ![r] = x]
    BY <1>4
  <2> HIDE DEF x
  <2>5. RequestShape(x)
    BY <1>4, <2>1, <2>2, <2>3 DEF RequestShape
  <2>6. (prepared => x.own = {} /\ x.flushed = {}) /\ x.own = q.own
    BY <1>4, <2>2, <2>3, <2>4
  <2>7. Singles'
    <3> SUFFICES ASSUME NEW n \in Names, n \notin clashed' PROVE Single(n)'
      BY DEF Singles
    <3>1. n \notin clashed /\ n \notin Clashing(r, q)
      BY <1>4
    <3>2. requests'[r].own = q.own /\ \A s \in Requests \ {r} : requests'[s] = requests[s]
      BY <2>4, <2>6 DEF IInv
    <3>3. categories'[n] = categories[n] /\ categories[n] \in Nat
      BY <1>4 DEF IInv
    <3>4. /\ n \in q.own => /\ categories[n] = 0
                            /\ \A s \in Requests \ {r} : requests[s] # None => n \notin requests[s].own
          /\ n \notin q.own => Single(n) /\ n \notin requests[r].own
      BY <1>1, <1>4, <3>1, SinglesAdded DEF q
    <3> QED
      BY <3>2, <3>3, <3>4 DEF Single
  <2> QED
    BY <1>1, <1>4, <2>4, <2>5, <2>6, <2>7, OneRequest, QuietTables
<1>5. CASE Rows(r, name) <= 1 /\ q.left = {} /\ Commit(r, q)
  BY <1>1, <1>5, CommitStep DEF q
<1> QED
  BY <1>1, <1>2, <1>3, <1>4, <1>5

LEMMA RestartStep == IInv /\ Restart => IInv'
<1> SUFFICES ASSUME IInv, Restart PROVE IInv'
  OBVIOUS
<1> USE DEF Restart
<1>1. \A p \in Processes : RunShape(run[p])'
  <2>1. RunShape(run["api"])'
    BY DEF IInv, RunShape, Processes
  <2>2. \A p \in Processes \ {"api"} : RunShape(run[p])'
    BY QuietTables, RunStays DEF IInv
  <2> QED
    BY <2>1, <2>2
<1>2. MetricRows' /\ StandingEarned'
  BY DEF IInv, MetricRows, SeenBy, StandingEarned
<1>3. Unwritten' /\ Singles'
  BY DEF IInv, Unwritten, Singles, Single
<1>4. \A r \in Requests : requests'[r] = None
  OBVIOUS
<1>5. DOMAIN run' = Processes /\ DOMAIN requests' = Requests
  BY DEF IInv
<1> QED
  BY <1>1, <1>2, <1>3, <1>4, <1>5, QuietTables DEF IInv

LEMMA StutterStep == IInv /\ UNCHANGED vars => IInv'
<1> SUFFICES ASSUME IInv, UNCHANGED vars PROVE IInv'
  OBVIOUS
<1> USE DEF vars
<1>1. MetricRows' /\ StandingEarned' /\ Unwritten' /\ Singles'
  BY DEF IInv, MetricRows, SeenBy, StandingEarned, Unwritten, Singles, Single
<1> QED
  BY <1>1, QuietTables, QuietRuns, QuietRequests DEF IInv

LEMMA Inductive == Spec => []IInv
<1>1. IInv /\ [Next]_vars => IInv'
  <2> SUFFICES ASSUME IInv, [Next]_vars PROVE IInv'
    OBVIOUS
  <2>1. ASSUME NEW p \in Processes,
               \/ BeginCollect(p) \/ FetchRelated(p) \/ InsertNew(p)
               \/ BeginMetrics(p) \/ Measure(p) \/ CommitMetrics(p) \/ LoseRun(p)
        PROVE  IInv'
    BY <2>1, BeginCollectStep, FetchRelatedStep, InsertNewStep, BeginMetricsStep, MeasureStep,
       CommitMetricsStep, LoseRunStep
  <2>2. ASSUME NEW r \in Requests,
               \/ Approve(r)
               \/ \E t \in Typed : CreateSeed(r, t)
               \/ \E name \in Names : Classified(r, name)
        PROVE  IInv'
    BY <2>2, ApproveStep, CreateSeedStep, ClassifiedStep
  <2> QED
    BY <2>1, <2>2, RestartStep, StutterStep DEF Next
<1> QED
  BY InitStep, <1>1, PTL DEF Spec

-----------------------------------------------------------------------------

\* Keywords refer to a category that is there, the day's rows to a keyword, and a request
\* asks for no term twice (collect_keywords.py, collect_metrics.py, routers/admin.py).
THEOREM KeywordsTyped == Spec => []TypeOK
<1>1. IInv => TypeOK
  <2> SUFFICES ASSUME IInv PROVE TypeOK
    OBVIOUS
  <2>1. \A t \in DOMAIN keywords : keywords[t] \in Row /\ categories[keywords[t].category] > 0
    BY DEF IInv, KeywordRows, Filled
  <2>2. \A t \in DOMAIN metrics : t \in DOMAIN keywords /\ DOMAIN metrics[t] = Sources
    BY DEF IInv, MetricRows, SeenBy
  <2>3. \A r \in Requests : requests[r] # None =>
          /\ requests[r].flushed \subseteq DOMAIN requests[r].pending
          /\ requests[r].asked \notin DOMAIN requests[r].pending \cup requests[r].left
    BY DEF IInv, RequestShape
  <2> QED
    BY <2>1, <2>2, <2>3 DEF IInv, TypeOK
<1> QED
  BY Inductive, <1>1, PTL

\* Approved candidates are active seeds, other active keywords have been measured
\* (routers/admin.py, collect_metrics.py), in whatever order the writers commit.
THEOREM StandingIsEarned == Spec => []StandingEarned
<1>1. IInv => StandingEarned
  BY DEF IInv
<1> QED
  BY Inductive, <1>1, PTL

\* A row of the day holds the answers of one run (collect_metrics.py).
THEOREM RowsOfOneRun == Spec => []RowOfOneRun
<1>1. IInv => RowOfOneRun
  <2> SUFFICES ASSUME IInv, NEW t \in DOMAIN metrics
               PROVE  Cardinality({metrics[t][s] : s \in Sources} \ {None}) = 1
    BY DEF RowOfOneRun
  <2>1. PICK n \in Nat : SeenBy(n, metrics[t])
    BY DEF IInv, MetricRows
  <2>2. {metrics[t][s] : s \in Sources} \ {None} = {n}
    BY <2>1, KeywordsAssumption DEF SeenBy
  <2> QED
    BY <2>2, FS_Singleton
<1> QED
  BY Inductive, <1>1, PTL

\* A keyword that is a seed, or active, stays so (collect_keywords.py, collect_metrics.py),
\* however old the row that a run has loaded.
THEOREM SeedsAreKept == Spec => SeedsStay
<1>1. IInv /\ [Next]_vars =>
        [\A t \in DOMAIN keywords :
           t \in DOMAIN keywords' /\ (keywords[t].seed => keywords'[t].seed)
           /\ (keywords[t].status = "active" => keywords'[t].status = "active")]_vars
  <2> SUFFICES ASSUME IInv, [Next]_vars PROVE Grows
    BY DEF Grows
  <2>1. ASSUME NEW p \in Processes,
               \/ BeginCollect(p) \/ FetchRelated(p)
               \/ BeginMetrics(p) \/ Measure(p) \/ LoseRun(p)
        PROVE  Grows
    BY <2>1, QuietTables DEF BeginCollect, FetchRelated, BeginMetrics, Measure, LoseRun
  <2>2. ASSUME NEW p \in Processes, InsertNew(p) \/ CommitMetrics(p)
        PROVE  Grows
    BY <2>2, InsertNewStep, CommitMetricsStep
  <2>3. ASSUME NEW r \in Requests, Approve(r) \/ \E t \in Typed : CreateSeed(r, t)
        PROVE  Grows
    BY <2>3, QuietTables DEF Approve, CreateSeed
  <2>4. ASSUME NEW r \in Requests, NEW name \in Names, Classified(r, name)
        PROVE  Grows
    BY <2>4, ClassifiedStep
  <2>5. CASE Restart \/ UNCHANGED vars
    BY <2>5, QuietTables DEF Restart, vars
  <2> QED
    BY <2>1, <2>2, <2>3, <2>4, <2>5 DEF Next
<1> QED
  BY Inductive, <1>1, PTL DEF Spec, SeedsStay

\* A name gets a second category only from two requests that each added it unseen by the
\* other (routers/admin.py, routers/keywords.py), whether or not all had theirs to begin with.
THEOREM SecondNamesHaveClashed == Spec => []SecondNamesClashed
<1>1. IInv => SecondNamesClashed
  BY DEF IInv, Singles, Single, SecondNamesClashed
<1> QED
  BY Inductive, <1>1, PTL

\* The API's loop does not wait for itself (routers/admin.py) when all categories are there:
\* what a request has written before an await is nothing.
THEOREM LoopNeverWaits == Spec => []LoopGoesOn
<1>1. IInv => LoopGoesOn
  BY DEF IInv, Unwritten, LoopGoesOn
<1> QED
  BY Inductive, <1>1, PTL
=============================================================================
