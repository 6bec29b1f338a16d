------------------------------ MODULE Products ------------------------------
(***************************************************************************)
(* The operator's products, their daily scores and the rate they use.      *)
(*                                                                         *)
(*   services/product_service.py  create, adjust and rescore, read         *)
(*   routers/products.py          the requests                             *)
(*   routers/calculator.py        the same costs without a row             *)
(*   scheduler/jobs/collect_exchange_rate.py, clients/exchange_rate.py     *)
(*                                                                         *)
(* The handlers are plain functions: each request has a thread and a       *)
(* transaction of its own, and only the database orders them.              *)
(*                                                                         *)
(* A request carries decimals that the columns do not hold: what is scored *)
(* is the row in memory, what is committed is the row as its columns round *)
(* it, and what is read later is the committed row.                        *)
(***************************************************************************)
EXTENDS ProductScoring, FiniteSets

CONSTANTS
  Workers,       \* threads of the API
  Urls,
  KeywordOf,     \* url -> the keyword the create request links, or None
  Place,         \* cny, duty, ad, weight -> the last place of the column, in parts
  Orders,        \* the price and the cost fields a create request may carry
  Patches,       \* the cost fields a PATCH may carry, None where unchanged
  ShippingRates, \* rows [method, max, price] of intl_shipping_rates
  Mappings,      \* keyword -> rows [hs, confidence] of keyword_hs_mappings
  Hints,         \* keyword -> HS code its term hints at, or None
  PetFood,       \* the HS code suggested when nothing hints at another
  DutyRates,     \* HS code -> base duty in percent, or None
  NaverAvg,      \* keyword -> average price of the latest metric, or None
  Rates,         \* rates the bank may publish
  DefaultRate,   \* _DEFAULT_CNY_KRW of the service, 190 won
  CalculatorRate,\* the calculator's own default, 195 won
  Lookback,      \* days the client walks back
  MaxProducts,   \* bound: products
  MaxScores,     \* bound: score rows inserted
  MaxDays,       \* bound: days
  MaxMisses      \* bound: runs of the rate job that get no rate

Fields == {"moq", "china", "intl", "duty", "sell", "ad", "weight", "method"}
Decimals == {"cny", "duty", "ad", "weight"}

ASSUME ProductsAssumption ==
  /\ KeywordOf \in [Urls -> (DOMAIN Mappings) \cup {None}]
  /\ Place \in [Decimals -> Nat \ {0}]
  /\ \A o \in Orders : DOMAIN o = Fields \cup {"cny"} /\ o.cny \in Nat \ {0}
  /\ \A o \in Patches : DOMAIN o = Fields
  /\ None \notin Urls
  /\ \A o \in Orders : o.moq \in Nat \ {0}
  /\ \A o \in Patches : o.moq \in (Nat \ {0}) \cup {None}
  /\ Rates \subseteq Nat \ {0}
  /\ Lookback \in Nat \ {0} /\ MaxDays \in Nat \ {0}
  /\ MaxProducts \in Nat /\ MaxScores \in Nat

\* Requests refuse a negative amount; the tables hold amounts, duties and weights in
\* parts, and confidences in thousandths.
ASSUME AmountsAssumption ==
  /\ \A o \in Orders \cup Patches, f \in {"china", "intl", "duty", "sell", "ad", "weight"} :
       o[f] \in Nat \cup {None}
  /\ \A r \in ShippingRates : r.max \in Nat /\ r.price \in Nat
  /\ \A k \in DOMAIN Mappings : \A m \in Mappings[k] :
       m.hs \in DOMAIN DutyRates /\ m.confidence \in 0..1000
  /\ \A k \in DOMAIN Mappings : Hints[k] \in (DOMAIN DutyRates) \cup {None}
  /\ \A k \in DOMAIN Mappings : NaverAvg[k] \in Nat \cup {None}
  /\ PetFood \in DOMAIN DutyRates
  /\ \A h \in DOMAIN DutyRates : DutyRates[h] \in Nat \cup {None}
  /\ DefaultRate \in Nat \ {0}

Ids == 1..MaxProducts
Days == 1..MaxDays

VARIABLES
  product,   \* id -> its committed row
  score,     \* id -> day -> the committed score of that day
  task,      \* worker -> the request it serves
  serial,    \* scores inserted so far, their ids
  day,
  fx,        \* the newest exchange rate [rate, age], the age in runs of its job
  misses,
  crossed,   \* observer: URLs whose create requests overlapped
  torn       \* observer: products last scored by a PATCH that was not alone

observer == <<crossed, torn>>
market == <<fx, misses>>
vars == <<product, score, task, serial, day, market, observer>>

-----------------------------------------------------------------------------
(* Look-ups *)

\* The smallest tier that carries the weight.
TierPrice(method, weight) ==
  LET fits == {r \in ShippingRates : r.method = method /\ r.max >= weight}
  IN  IF fits = {} THEN None
      ELSE (CHOOSE r \in fits : \A s \in fits : r.max <= s.max).price

OtherMethod(method) == IF method = "lcl" THEN "sea_self" ELSE "lcl"

\* A method asked for is used if it can; without one the cheaper is.
ShippingPrice(method, weight) ==
  LET price(m) == TierPrice(m, weight)
      other == OtherMethod(method)
  IN  IF method \in {"lcl", "sea_self"}
      THEN IF price(method) # None THEN price(method) ELSE price(other)
      ELSE IF price("lcl") = None THEN price("sea_self")
           ELSE IF price("sea_self") = None THEN price("lcl")
           ELSE Smaller(price("lcl"), price("sea_self"))

\* The weight decides where it can, the operator's amount otherwise.
ResolvedShipping(row) ==
  LET byWeight == IF row.weight # None /\ row.weight > 0
                  THEN ShippingPrice(row.method, row.weight * row.moq) ELSE None
  IN  IF byWeight # None THEN byWeight ELSE row.intl

\* A hint in the term goes before the list of the category, always that of pets.
Suggested(k) == Or(Hints[k], PetFood)

\* The surest mapping, else the suggestion.
HsCode(k) ==
  IF Mappings[k] # {}
  THEN (CHOOSE m \in Mappings[k] : \A n \in Mappings[k] : m.confidence >= n.confidence).hs
  ELSE Suggested(k)

BaseDuty(k) == IF k = None THEN None ELSE DutyRates[HsCode(k)]

AvgPrice(k) ==
  IF k = None \/ NaverAvg[k] = None \/ NaverAvg[k] <= 0 THEN None ELSE NaverAvg[k]

LatestRate == IF fx = None THEN DefaultRate ELSE fx.rate

\* What the scorer is given for a row in memory.
Inputs(row, rate) ==
  LET k == KeywordOf[row.url] IN
  [cny |-> row.cny, moq |-> row.moq, rate |-> rate, china |-> row.china,
   intl |-> ResolvedShipping(row), duty |-> Or(row.duty, BaseDuty(k)),
   sell |-> Or(row.sell, AvgPrice(k)), ad |-> row.ad]

\* Faulty variant: the default duty before the tariff.
BreakdownEightPercent(row) ==
  IF row.cny = 0 THEN None
  ELSE Costs([cny |-> row.cny, moq |-> row.moq, rate |-> LatestRate,
              china |-> Or(row.china, 0), intl |-> ResolvedShipping(row),
              duty |-> Or(row.duty, 8 * Fine), sell |-> 1, ad |-> 100 * Fine])

\* What the detail page computes from the row when it is read, nothing when the price
\* has been rounded to zero.
Breakdown(row) ==
  LET auto == BaseDuty(KeywordOf[row.url]) IN
  IF row.cny = 0 THEN None
  ELSE Costs([cny |-> row.cny, moq |-> row.moq, rate |-> LatestRate,
              china |-> Or(row.china, 0), intl |-> ResolvedShipping(row),
              duty |-> IF row.duty # None THEN row.duty
                       ELSE IF auto # None THEN auto ELSE 8 * Fine,
              sell |-> 1, ad |-> 100 * Fine])

\* The calculator knows no keyword: duty and shipping are in the request, which is
\* refused when price or weight are zero (422) and when neither weight nor amount gives
\* the shipping (400).
Calculated(row) ==
  LET intl == ResolvedShipping(row) IN
  IF row.cny = 0 \/ row.weight = 0 \/ intl = None THEN None
  ELSE Costs([cny |-> row.cny, moq |-> row.moq,
              rate |-> IF fx = None THEN CalculatorRate ELSE fx.rate,
              china |-> Or(row.china, 0), intl |-> intl,
              duty |-> Or(row.duty, 8 * Fine), sell |-> 1, ad |-> 100 * Fine])

-----------------------------------------------------------------------------
(* Requests *)

Idle == [phase |-> "idle"]

\* A product that is not there; a score that is not there: they are numbered from one.
NoRow == [url |-> None]
NoScore == [id |-> 0]
Patching == {"loaded", "flushed", "scored"}

Init ==
  /\ product = [p \in Ids |-> NoRow]
  /\ score = [p \in Ids |-> [d \in Days |-> NoScore]]
  /\ task = [w \in Workers |-> Idle]
  /\ serial = 0 /\ day = 1
  /\ fx = None /\ misses = 0
  /\ crossed = {} /\ torn = {}

Busy == {w \in Workers : task[w].phase # "idle"}
Creating(url) == {w \in Workers : task[w].phase = "checked" /\ task[w].url = url}
Adjusting(p) == {w \in Workers : task[w].phase \in Patching /\ task[w].id = p}

\* Faulty variant: the URL is not looked up.
CheckNothing(w, url) ==
  /\ task[w].phase = "idle"
  /\ \E order \in Orders :
       task' = [task EXCEPT ![w] = [phase |-> "checked", url |-> url, order |-> order]]
  /\ crossed' = IF Creating(url) = {} THEN crossed ELSE crossed \cup {url}
  /\ UNCHANGED <<product, score, serial, day, market, torn>>

\* POST /products: 409 if the URL is known.
Check(w, url) ==
  /\ task[w].phase = "idle"
  /\ ~\E p \in Ids : product[p] # NoRow /\ product[p].url = url
  /\ \E order \in Orders :
       task' = [task EXCEPT ![w] = [phase |-> "checked", url |-> url, order |-> order]]
  /\ crossed' = IF Creating(url) = {} THEN crossed ELSE crossed \cup {url}
  /\ UNCHANGED <<product, score, serial, day, market, torn>>

Columns == Fields \cup {"url", "cny"}

Row(url, order) == [f \in Columns |-> IF f = "url" THEN url ELSE order[f]]

\* What a column of fixed places holds of an amount: NUMERIC rounds halves away from zero.
Held(f, x) == IF f \in Decimals /\ x # None THEN Place[f] * Rounded(x, Place[f]) ELSE x

Kept(row) == [f \in DOMAIN row |-> Held(f, row[f])]

\* The row that was scored is kept beside its inputs, for the properties.
ScoreRow(row, inputs) == [id |-> serial + 1, of |-> row, inputs |-> inputs]

\* The row, its first score and both channels in one transaction.  The score is that of
\* the request, not of the row as it is read later.
Insert(w) ==
  LET row == Row(task[w].url, task[w].order) IN
  /\ task[w].phase = "checked" /\ serial < MaxScores
  /\ \E p \in Ids :
       /\ product[p] = NoRow /\ \A q \in Ids : q < p => product[q] # NoRow
       /\ product' = [product EXCEPT ![p] = Kept(row)]
       /\ score' = [score EXCEPT ![p][day] = ScoreRow(row, Inputs(row, LatestRate))]
  /\ serial' = serial + 1
  /\ task' = [task EXCEPT ![w] = Idle]
  /\ UNCHANGED <<day, market, observer>>

\* PATCH /products/{id}: the row is loaded; 404 if there is none.
Load(w, p) ==
  /\ task[w].phase = "idle" /\ product[p] # NoRow
  /\ \E patch \in Patches :
       task' = [v \in Workers |->
         IF v = w THEN [phase |-> "loaded", id |-> p, loaded |-> product[p], patch |-> patch,
                        alone |-> Adjusting(p) = {}]
         ELSE IF v \in Adjusting(p) THEN [task[v] EXCEPT !.alone = FALSE] ELSE task[v]]
  /\ UNCHANGED <<product, score, serial, day, market, observer>>

\* Faulty variant: what the body leaves out is written as NULL.
AdjustedAll(row, patch) ==
  [f \in DOMAIN row |-> IF f \in {"url", "cny"} THEN row[f] ELSE patch[f]]

\* Fields of the patch that are given replace the row's; a weight that counts
\* clears the operator's shipping.
Adjusted(row, patch) ==
  [f \in DOMAIN row |->
     IF f \in {"url", "cny"} THEN row[f]
     ELSE IF f = "intl" /\ patch.weight # None /\ patch.weight > 0 THEN None
     ELSE IF f = "method" /\ patch[f] = "" THEN None
     ELSE Or(patch[f], row[f])]

Changed(row, loaded) == {f \in DOMAIN loaded : row[f] # loaded[f]}

\* A decimal that is given again may count as changed: the float of the request and the
\* Decimal that was loaded differ unless the float is exact.
GivenAgain(row, loaded, patch) ==
  {f \in Decimals \ {"cny"} : patch[f] # None /\ row[f] = loaded[f]}

LocksRow(w, p) == /\ task[w].phase \in {"flushed", "scored"} /\ task[w].id = p
                  /\ task[w].listed # {}

\* The flush: an UPDATE of the columns that changed, if any; it waits while another
\* transaction has the row.
Flush(w) ==
  LET t == task[w]
      row == Adjusted(t.loaded, t.patch)
  IN
  /\ t.phase = "loaded"
  /\ \E again \in SUBSET GivenAgain(row, t.loaded, t.patch) :
       LET listed == Changed(row, t.loaded) \cup again IN
       /\ listed # {} => \A v \in Workers : ~LocksRow(v, t.id)
       /\ task' = [task EXCEPT ![w] =
            [phase |-> "flushed", id |-> t.id, loaded |-> t.loaded, row |-> row,
             listed |-> listed, alone |-> t.alone]]
  /\ UNCHANGED <<product, score, serial, day, market, observer>>

\* The score is computed from the row in memory, with the decimals of the request;
\* today's score is selected.  A price of zero is refused: 500 and a rollback, DbFails.
Rescore(w) ==
  LET t == task[w] IN
  /\ t.phase = "flushed" /\ t.row.cny # 0
  /\ task' = [task EXCEPT ![w] =
       [phase |-> "scored", id |-> t.id, loaded |-> t.loaded, row |-> t.row,
        listed |-> t.listed, alone |-> t.alone, inputs |-> Inputs(t.row, LatestRate),
        day |-> day, old |-> score[t.id][day]]]
  /\ UNCHANGED <<product, score, serial, day, market, observer>>

\* Faulty variant: the score is committed, the row is not.
WrittenNothing(t) == product[t.id]

Written(t) ==
  [f \in DOMAIN t.row |-> IF f \in t.listed THEN Held(f, t.row[f]) ELSE product[t.id][f]]

\* Delete what was selected, insert the new score and its channels, commit.  A score
\* of the day that was not selected violates the unique key: 500 and a rollback.
Replace(w) ==
  LET t == task[w]
      now == score[t.id][t.day]
  IN
  /\ t.phase = "scored" /\ serial < MaxScores
  /\ task' = [task EXCEPT ![w] = Idle]
  /\ IF now = NoScore \/ now = t.old
     THEN /\ product' = [product EXCEPT ![t.id] = Written(t)]
          /\ score' = [score EXCEPT ![t.id][t.day] = ScoreRow(t.row, t.inputs)]
          /\ serial' = serial + 1
          /\ torn' = IF t.alone THEN torn \ {t.id} ELSE torn \cup {t.id}
     ELSE UNCHANGED <<product, score, serial, torn>>
  /\ UNCHANGED <<day, market, crossed>>

DbFails(w) ==
  /\ w \in Busy
  /\ task' = [task EXCEPT ![w] = Idle]
  /\ UNCHANGED <<product, score, serial, day, market, observer>>

-----------------------------------------------------------------------------
(* The rate *)

Answers == {"rate", "empty", "without", "refused"}

\* Days without a list or without the pair are skipped, an error ends the walk.
Published(answers) ==
  \E n \in 1..Lookback :
    /\ answers[n] = "rate"
    /\ \A m \in 1..(n - 1) : answers[m] \in {"empty", "without"}

\* Faulty variant: fresh for two intervals.
FreshTwice(age) == age <= 2

\* The rate is kept for the interval of the job.  What was fetched by the last run may
\* be on either side: trigger and row do not use the same instant.
MayBeFresh(age) == age <= 1

\* An hour later the job runs: a fresh row is kept, otherwise the bank is asked and the
\* answer is inserted; a failure is reported and the old row stays the newest.
Refresh ==
  LET aged == IF fx = None THEN None ELSE [fx EXCEPT !.age = @ + 1] IN
  /\ \/ /\ fx # None /\ MayBeFresh(aged.age)
        /\ fx' = aged /\ UNCHANGED misses
     \/ \E answers \in [1..Lookback -> Answers] :
          IF Published(answers)
          THEN \E r \in Rates : fx' = [rate |-> r, age |-> 0] /\ UNCHANGED misses
          ELSE misses < MaxMisses /\ misses' = misses + 1 /\ fx' = aged
  /\ UNCHANGED <<product, score, task, serial, day, observer>>

Midnight ==
  /\ day < MaxDays /\ day' = day + 1
  /\ UNCHANGED <<product, score, task, serial, market, observer>>

-----------------------------------------------------------------------------

Request(w) ==
  \/ \E url \in Urls : Check(w, url)
  \/ \E p \in Ids : Load(w, p)
  \/ Insert(w) \/ Flush(w) \/ Rescore(w) \/ Replace(w) \/ DbFails(w)

Next ==
  \/ \E w \in Workers : Request(w)
  \/ Refresh \/ Midnight

Spec == Init /\ [][Next]_vars

-----------------------------------------------------------------------------
(* Properties *)

TypeOK ==
  /\ \A p \in Ids : product[p] # NoRow =>
       /\ DOMAIN product[p] = Columns /\ product[p].url \in Urls
       /\ product[p].moq \in Nat \ {0}
  /\ \A p \in Ids, d \in Days : score[p][d].id \in 0..serial
  /\ \A w \in Workers : task[w].phase \in {"idle", "checked"} \cup Patching
  /\ serial \in 0..MaxScores /\ day \in Days
  /\ fx = None \/ (fx.rate \in Rates /\ fx.age \in Nat)

Present == {p \in Ids : product[p] # NoRow}

\* The score the detail page and the list show: the newest one.
Latest(p) ==
  LET scored == {d \in Days : score[p][d] # NoScore}
  IN  score[p][CHOOSE d \in scored : \A e \in scored : d >= e]

\* "A product with the same URL already exists" (product_service.py): two products of
\* one URL come only from create requests that overlapped; no column is unique.
OneProductPerUrl ==
  \A p, q \in Present :
    p # q /\ product[p].url = product[q].url => product[p].url \in crossed

\* The newest score is that of the row: of what the request gave, of which the columns
\* hold what is committed (product_service.py); unless the PATCH that wrote it overlapped
\* another, and one PATCH made alone repairs it.  And its verdict pays: what is not PASS
\* earns on the channel recommended.
ScoreOfRow ==
  \A p \in Present \ torn : LET s == Latest(p) IN
    /\ Kept(s.of) = product[p] /\ s.inputs = Inputs(s.of, s.inputs.rate)
    /\ Verdict(s.inputs) # "PASS" => Profit(s.inputs, Recommended(s.inputs)) > 0

\* "callers pass all inputs and get the same breakdown shape as /products/{id}"
\* (calculator.py): three pieces of code find the costs of a product, that of the score, of
\* its detail page and of the calculator.  At one rate, for a row the columns hold exactly,
\* score and page agree; with the duty given, page and calculator always do.
CostsAgree ==
  \A p \in Present : LET s == Latest(p) IN
    /\ p \notin torn /\ s.of = product[p] /\ s.inputs.rate = LatestRate =>
         Breakdown(product[p]) = Costs(s.inputs)
    /\ fx # None /\ product[p].duty # None /\ Calculated(product[p]) # None =>
         Calculated(product[p]) = Breakdown(product[p])

\* "returns the most recent exchange_rates row when it's < 1 hour old" (exchange_rate.py):
\* the rate in use was fetched by the last run of the job or the one before it, or by one
\* earlier run for each that got none.
RateIsRecent == fx # None => fx.age <= 1 + misses

=============================================================================
