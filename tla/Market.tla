------------------------------- MODULE Market -------------------------------
(***************************************************************************)
(* Import statistics, month by month, and what is derived from them.       *)
(*                                                                         *)
(*   clients/customs.py                 two windows of months, growth      *)
(*   scheduler/jobs/collect_customs.py  statistics into import_stats       *)
(*   services/discover_seeds.py         codes that grow, candidate terms   *)
(*   scoring/opportunity.py             the points of a keyword            *)
(*                                                                         *)
(* Months are numbered: 12 * year + month - 1.                             *)
(***************************************************************************)
EXTENDS OpportunityScoring, FiniteSets

CONSTANTS
  Codes,      \* hs_codes
  Trades,     \* code -> month -> value: what the imports may have been
  Start,      \* the month the behaviour begins in
  MaxMonths,  \* bound: months it lasts
  MaxCodes,   \* codes the job takes in one run
  Excludable, \* codes of the prefixes that are left out
  Affordable, \* codes whose unit price lies between the two limits, in every month
  TopLimit,   \* TOP_HS_LIMIT
  Tokens,     \* code -> the terms its best titles offer
  Volumes,    \* searches a month the ad API may report
  Signals     \* signals of a keyword, all but the customs growth

ASSUME MarketAssumption ==
  /\ \A t \in Trades, c \in Codes :
       \A m \in (Start - 24)..(Start + MaxMonths) : t[c][m] \in Nat
  /\ Start \in Nat /\ MaxMonths \in Nat
  /\ MaxCodes \in Nat \ {0}

\* What the scorer is told of a keyword; a half of a ratio is a whole number of parts.
ASSUME SignalsAssumption ==
  /\ Scale % 2 = 0
  /\ Signals \subseteq
       [volume: DOMAIN LogShare, competition: Int, listings: Nat, growth: Int,
        customs: Int \cup {None}, youtube: Int \cup {None}, blog: Int \cup {None},
        reviews: Nat, cert: BOOLEAN, season: Nat]

VARIABLES
  now,        \* the month of today
  listed,     \* the last month the office has published
  trade,      \* code -> month -> value imported
  stats,      \* code -> month -> the committed row of import_stats
  job,        \* the run of collect_customs, or None
  refreshed,  \* observer: code -> months in which its rows were fetched
  found,      \* term -> its row of seed_candidates
  search      \* the run of discover_seeds, or None

vars == <<now, listed, trade, stats, job, refreshed, found, search>>

-----------------------------------------------------------------------------
(* The client *)

\* Faulty variant: one month less.
MinusLess(m, months) == m - months + 2

\* _yyyymm_minus: one month less than its name says.
Minus(m, months) == m - months + 1

\* The month in which the first window begins and the second ends: it is asked twice.
Middle == Minus(now, 11)
Windows ==
  LET end == Minus(Middle, 1) IN <<Middle..now, Minus(end, 11)..end>>

\* What comes back for a month, summed over both answers; no record without imports.
Amount(c, m) ==
  trade[c][m] * Cardinality({w \in DOMAIN Windows : m \in Windows[w]})

Asked == Minus(Minus(Middle, 1), 11)..now

\* Faulty variant: a month without imports is a record too.
RecordsAll(c) == {m \in Asked : m <= listed}

\* The months that come back; none for a month without imports.
Records(c) == {m \in Asked : m <= listed /\ trade[c][m] > 0}

Later(months, m) == {n \in months : n > m}

\* The month with so many later ones.
Back(months, k) == CHOOSE m \in months : Cardinality(Later(months, m)) = k

\* The amounts, the newest first.
Values(c) ==
  LET months == Records(c)
  IN  [k \in 0..(Cardinality(months) - 1) |-> Amount(c, Back(months, k))]

Percent(new, old) ==
  IF old = 0 THEN IF new = 0 THEN 0 ELSE 10000 ELSE ((new - old) * 100) \div old

Points(v) == Cardinality(DOMAIN v)

\* _growth_rate: two points.
PointGrowth(v, window) ==
  IF Points(v) <= window THEN 0 ELSE Percent(v[0], v[window])

At(f, n) == IF n \in DOMAIN f THEN f[n] ELSE 0

\* The sum of what there is of f.
Total(f, first, last) ==
  LET upto[n \in Nat] == IF n = 0 THEN 0 ELSE upto[n - 1] + At(f, first + n - 1)
  IN  upto[last - first + 1]

\* Faulty variant: the older window holds one month more.
GrowthUneven(v, window) ==
  IF Points(v) < 2 * window THEN PointGrowth(v, window)
  ELSE Percent(Total(v, 0, window - 1), Total(v, window, 2 * window))

\* _window_avg_growth: two windows where there are enough points.
Growth(v, window) ==
  IF Points(v) < 2 * window THEN PointGrowth(v, window)
  ELSE Percent(Total(v, 0, window - 1), Total(v, window, 2 * window - 1))

\* The last twelve records are the ones that are stored.
Stored(c) == {m \in Records(c) : Cardinality(Later(Records(c), m)) < 12}

-----------------------------------------------------------------------------
(* collect_customs: weekly, random codes, one commit *)

BeginCollect ==
  /\ job = None
  /\ \E codes \in SUBSET Codes :
       /\ Cardinality(codes) = Least(MaxCodes, Cardinality(Codes))
       /\ job' = [left |-> codes, rows |-> {}]
  /\ UNCHANGED <<now, listed, trade, stats, refreshed, found, search>>

Fetched(c) == [code |-> c, month |-> now, points |-> [m \in Stored(c) |-> Amount(c, m)]]

\* A code that fails is noted and left out.
FetchCode(c) ==
  /\ job # None /\ c \in job.left
  /\ \E answer \in {{}, {Fetched(c)}} :
       job' = [left |-> job.left \ {c}, rows |-> job.rows \cup answer]
  /\ UNCHANGED <<now, listed, trade, stats, refreshed, found, search>>

\* INSERT ... ON CONFLICT DO UPDATE
Upsert(old, new) ==
  [x \in DOMAIN old \cup DOMAIN new |-> IF x \in DOMAIN new THEN new[x] ELSE old[x]]

RowsOf(c) == {r \in job.rows : r.code = c}

\* The UPSERTs become visible together.
CommitStats ==
  /\ job # None /\ job.left = {}
  /\ stats' = [c \in Codes |->
       IF RowsOf(c) = {} THEN stats[c]
       ELSE Upsert(stats[c], (CHOOSE r \in RowsOf(c) : TRUE).points)]
  /\ refreshed' = [c \in Codes |-> refreshed[c] \cup {r.month : r \in RowsOf(c)}]
  /\ job' = None
  /\ UNCHANGED <<now, listed, trade, found, search>>

\* A refused statement or a restart loses the run.
LoseRun ==
  /\ job # None /\ job' = None
  /\ UNCHANGED <<now, listed, trade, stats, refreshed, found, search>>

-----------------------------------------------------------------------------
(* discover_seeds *)

Leap(y) == y % 4 = 0 /\ (y % 100 # 0 \/ y % 400 = 0)

Days(m) ==
  LET month == (m % 12) + 1 IN
  IF month = 2 THEN IF Leap(m \div 12) THEN 29 ELSE 28
  ELSE IF month \in {4, 6, 9, 11} THEN 30 ELSE 31

\* The days of so many months that end before month m.
DaysBefore(m, months) == Total([j \in 1..6 |-> Days(m - j)], 1, months)

\* The month of the day so many days before the first of month m.
MonthBefore(m, days) ==
  m - (CHOOSE k \in 1..6 : DaysBefore(m, k) >= days /\ DaysBefore(m, k - 1) < days)

Latest == now - 1
RecentStart == MonthBefore(Latest, 62)

\* Faulty variant: the older window begins thirty days later.
PriorStartLate == MonthBefore(Latest, 120)

PriorEnd == MonthBefore(Latest, 63)
PriorStart == MonthBefore(Latest, 150)

\* The sums over both windows.
ImportedRecently(c) == Total(stats[c], RecentStart, Latest)
ImportedBefore(c) == Total(stats[c], PriorStart, PriorEnd)

\* In percent; all of a hundred where nothing was imported before.
Surge(c) ==
  IF ImportedBefore(c) = 0 THEN 100
  ELSE ((ImportedRecently(c) - ImportedBefore(c)) * 100) \div ImportedBefore(c)

Risen ==
  {c \in (Codes \ Excludable) \cap Affordable : ImportedRecently(c) > 0 /\ Surge(c) >= 50}

\* Those imported most; of equal ones the database decides.
TopCodes ==
  {top \in SUBSET Risen :
     /\ Cardinality(top) <= TopLimit
     /\ \A c \in Risen \ top :
          Cardinality(top) = TopLimit
            /\ \A d \in top : ImportedRecently(c) <= ImportedRecently(d)}

BeginSearch ==
  /\ search = None
  /\ \E top \in TopCodes :
       search' = [left |-> {[code |-> c, value |-> ImportedRecently(c), surge |-> Surge(c)] :
                              c \in top},
                  seen |-> {}, scored |-> {}]
  /\ UNCHANGED <<now, listed, trade, stats, job, refreshed, found>>

Candidate(r, t) == [term |-> t, code |-> r.code, surge |-> r.surge]

\* The code with the greatest imports is next: its titles offer terms (none when the shop
\* does not answer), each is looked up once in a run, and one that is searched too
\* little or whose look-up is refused is dropped.
Mine ==
  /\ search # None
  /\ \E r \in search.left :
       /\ \A q \in search.left : q.value <= r.value
       /\ \E terms \in {{}, Tokens[r.code]} :
          \E volume \in [terms \ search.seen -> Volumes \cup {None}] :
            LET kept == {t \in terms \ search.seen : volume[t] # None /\ volume[t] >= 500}
            IN search' = [left |-> search.left \ {r}, seen |-> search.seen \cup terms,
                          scored |-> search.scored \cup {Candidate(r, t) : t \in kept}]
  /\ UNCHANGED <<now, listed, trade, stats, job, refreshed, found>>

\* One INSERT ... ON CONFLICT (term) DO UPDATE.
SaveCandidates ==
  LET of(t) == CHOOSE r \in search.scored : r.term = t IN
  /\ search # None /\ search.left = {}
  /\ found' = Upsert(found, [t \in {r.term : r \in search.scored} |->
                               [code |-> of(t).code, surge |-> of(t).surge]])
  /\ search' = None
  /\ UNCHANGED <<now, listed, trade, stats, job, refreshed>>

\* An error the look-ups do not catch ends the request, nothing is written.
AbortSearch ==
  /\ search # None /\ search' = None
  /\ UNCHANGED <<now, listed, trade, stats, job, refreshed, found>>

-----------------------------------------------------------------------------
(* Time *)

NextMonth ==
  /\ listed = now - 1 /\ now < Start + MaxMonths
  /\ now' = now + 1
  /\ UNCHANGED <<listed, trade, stats, job, refreshed, found, search>>

\* A month is published in the course of the next.
Publish ==
  /\ listed < now - 1
  /\ listed' = listed + 1
  /\ UNCHANGED <<now, trade, stats, job, refreshed, found, search>>

Init ==
  /\ now = Start /\ listed = Start - 2
  /\ trade \in Trades
  /\ stats = [c \in Codes |-> <<>>] /\ refreshed = [c \in Codes |-> {}]
  /\ job = None /\ search = None /\ found = <<>>

Next ==
  \/ BeginCollect \/ CommitStats \/ LoseRun
  \/ \E c \in Codes : FetchCode(c)
  \/ BeginSearch \/ Mine \/ SaveCandidates \/ AbortSearch
  \/ NextMonth \/ Publish

Spec == Init /\ [][Next]_vars

-----------------------------------------------------------------------------
(* Properties *)

TypeOK ==
  /\ now \in Start..(Start + MaxMonths) /\ listed \in {now - 2, now - 1}
  /\ \A c \in Codes : \A m \in DOMAIN stats[c] : m <= listed /\ stats[c][m] \in Nat \ {0}
  /\ job = None \/ job.left \subseteq Codes
  /\ \A t \in DOMAIN found : found[t].code \in Codes /\ found[t].surge \in Int

\* The middle month is in both answers of the client and is summed twice: a stored row is
\* what was imported, or the double of it if its rows were fetched ten months later and
\* not in the month after that, whose run repairs it.
StatsOfTrade ==
  \A c \in Codes : \A m \in DOMAIN stats[c] :
    \/ stats[c][m] = trade[c][m]
    \/ /\ stats[c][m] = 2 * trade[c][m]
       /\ m + 10 \in refreshed[c] /\ m + 11 \notin refreshed[c]

Months == (Start - 24)..(Start + MaxMonths)
Flat(c) == \A m \in Months : trade[c][m] = trade[c][Start] /\ trade[c][m] > 0
Falling(c) == \A m \in Months : m + 1 \in Months => trade[c][m + 1] <= trade[c][m]

\* Growth depends on the month, what is published and the trade: it is looked at while
\* nothing is stored and nothing runs.
Fresh == job = None /\ search = None /\ \A c \in Codes : refreshed[c] = {}

\* Growth rates (clients/customs.py): imports that never change have not grown, by either
\* measure, whatever is published and although one month counts twice.
FlatTradeIsFlat ==
  Fresh =>
    \A c \in Codes : Flat(c) => Growth(Values(c), 3) = 0 /\ Growth(Values(c), 12) = 0

\* "recent 3 months +50 % or more only" (discover_seeds.py): a code whose imports fell all
\* the time never gives a candidate, though most windows overlap and the newer one may
\* hold four months.
NoFallingCandidate == \A t \in DOMAIN found : ~Falling(found[t].code)

With(s, growth) == [s EXCEPT !.customs = growth]

\* "a corroborating signal, not a pass/fail" (scoring/opportunity.py): of two codes the one
\* whose imports grow faster never scores less nor is excluded when the other is not,
\* and no statistics count like flat ones.
BetterTradeNeverHurts ==
  Fresh => LET growth == [c \in Codes |-> Growth(Values(c), 3)] IN
  \A s \in Signals, b, c \in Codes :
    /\ growth[b] <= growth[c] =>
         /\ Score(With(s, growth[b])) <= Score(With(s, growth[c]))
         /\ Excluded(With(s, growth[c])) => Excluded(With(s, growth[b]))
    /\ Flat(c) => Score(With(s, None)) = Score(With(s, growth[c]))

\* "Compare the 3 most-recent complete months vs the 3 preceding." (discover_seeds.py)
WindowsAreThreeMonths ==
  RecentStart = Latest - 2 /\ PriorStart = Latest - 5 /\ PriorEnd = Latest - 3

=============================================================================
