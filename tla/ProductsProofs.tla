--------------------------- MODULE ProductsProofs ---------------------------
(***************************************************************************)
(* Rows, scores and rates of Products, for any pages, orders, patches,     *)
(* tariffs, tiers, rates and any number of threads.                        *)
(*                                                                         *)
(* The invariant follows a PATCH through its transaction: as long as it is *)
(* alone, the row in the table is the row it has loaded, so that what it   *)
(* scores is what it leaves; and no score of the product is newer than the *)
(* day it scores for, so that the score it leaves is the one shown.        *)
(***************************************************************************)
EXTENDS Products, TLAPS, WellFoundedInduction

Amount == Nat \cup {None}

\* The columns of a product, as a session knows them.
RowShape(x) ==
  /\ x = [f \in Columns |-> x[f]]
  /\ x.url \in Urls /\ x.moq \in Nat \ {0} /\ x.cny \in Nat
  /\ x.china \in Amount /\ x.intl \in Amount /\ x.duty \in Amount
  /\ x.sell \in Amount /\ x.ad \in Amount /\ x.weight \in Amount

\* A row that the table can hold.
Committed(x) == RowShape(x) /\ Kept(x) = x

ScoreShape(x) ==
  /\ x = [id |-> x.id, of |-> x.of, inputs |-> x.inputs] /\ x.id \in 1..serial
  /\ RowShape(x.of) /\ x.of.cny # 0
  /\ x.inputs.rate \in Nat \ {0}

\* A request that has looked for its URL, and a PATCH that has loaded its row.
CheckedShape(x) ==
  x = [phase |-> "checked", url |-> x.url, order |-> x.order]
  /\ x.url \in Urls /\ x.order \in Orders

PatchShape(x) ==
  /\ x.id \in Ids /\ product[x.id] # NoRow
  /\ RowShape(x.loaded) /\ x.loaded.url = product[x.id].url
  /\ x.alone \in BOOLEAN
  /\ x.alone => product[x.id] = x.loaded

\* The columns the UPDATE lists.
ListedShape(x) ==
  /\ Changed(x.row, x.loaded) \subseteq x.listed
  /\ x.listed \subseteq Columns \ {"url"}

AdjustedShape(x) == RowShape(x.row) /\ x.row.url = x.loaded.url /\ ListedShape(x)

LoadedShape(x) ==
  /\ x = [phase |-> "loaded", id |-> x.id, loaded |-> x.loaded, patch |-> x.patch,
          alone |-> x.alone]
  /\ x.patch \in Patches /\ PatchShape(x)

FlushedShape(x) ==
  /\ x = [phase |-> "flushed", id |-> x.id, loaded |-> x.loaded, row |-> x.row,
          listed |-> x.listed, alone |-> x.alone]
  /\ PatchShape(x) /\ AdjustedShape(x)

ScoredShape(x) ==
  /\ x = [phase |-> "scored", id |-> x.id, loaded |-> x.loaded, row |-> x.row,
          listed |-> x.listed, alone |-> x.alone, inputs |-> x.inputs, day |-> x.day,
          old |-> x.old]
  /\ PatchShape(x) /\ AdjustedShape(x) /\ x.row.cny # 0
  /\ x.inputs = Inputs(x.row, x.inputs.rate) /\ x.inputs.rate \in Nat \ {0}
  /\ x.day \in Days /\ x.day <= day
  /\ x.alone => \A d \in Days : score[x.id][d] # NoScore => d <= x.day

TaskShape(x) ==
  x = Idle \/ CheckedShape(x) \/ LoadedShape(x) \/ FlushedShape(x) \/ ScoredShape(x)

\* Whoever is alone with a product is its only PATCH.
Alone ==
  \A v, w \in Workers :
    /\ task[v].phase \in Patching /\ task[w].phase \in Patching
    /\ task[v].id = task[w].id /\ task[v].alone
    => v = w

\* A URL on its way that is not crossed is nobody else's.
OwnUrl ==
  \A w \in Workers : task[w].phase = "checked" /\ task[w].url \notin crossed =>
    /\ \A p \in Ids : product[p] # NoRow => product[p].url # task[w].url
    /\ \A v \in Workers : task[v].phase = "checked" /\ task[v].url = task[w].url => v = w

\* The newest score is that of a row the table holds as it does.
Shown(p) ==
  \E d \in Days :
    /\ score[p][d] # NoScore
    /\ \A e \in Days : score[p][e] # NoScore => e <= d
    /\ Kept(score[p][d].of) = product[p]
    /\ score[p][d].inputs = Inputs(score[p][d].of, score[p][d].inputs.rate)

Rated == fx # None => fx = [rate |-> fx.rate, age |-> fx.age] /\ fx.rate \in Rates /\ fx.age \in Nat

Tables ==
  /\ DOMAIN product = Ids /\ DOMAIN score = Ids /\ DOMAIN task = Workers
  /\ \A p \in Ids : product[p] # NoRow => Committed(product[p])
  /\ \A p \in Ids : DOMAIN score[p] = Days
  /\ \A p \in Ids, d \in Days : score[p][d] # NoScore =>
       ScoreShape(score[p][d]) /\ product[p] # NoRow /\ d <= day
  /\ serial \in 0..MaxScores /\ day \in Days /\ misses \in Nat

IInv ==
  /\ Tables /\ Rated /\ RateIsRecent
  /\ \A w \in Workers : TaskShape(task[w])
  /\ Alone /\ OwnUrl /\ OneProductPerUrl
  /\ \A p \in Ids : product[p] # NoRow /\ p \notin torn => Shown(p)

-----------------------------------------------------------------------------
(* Rounding *)

LEMMA ProductGrows ==
  ASSUME NEW a \in Nat, NEW b \in Nat \ {0}
  PROVE  a * b \in Nat /\ a * b >= a
OBVIOUS

\* Rounding keeps an upper and a lower bound.
LEMMA RoundedBelow ==
  ASSUME NEW n \in Int, NEW d \in Nat \ {0}, NEW b \in Nat, n <= b * d
  PROVE  Rounded(n, d) \in Int /\ Rounded(n, d) <= b
<1>1. CASE n >= 0
  <2>1. 2 * n + d < 2 * d * (b + 1)
    BY <1>1
  <2>2. (2 * n + d) \div (2 * d) < b + 1 /\ (2 * n + d) \div (2 * d) \in Int
    BY <1>1, <2>1
  <2> QED
    BY <1>1, <2>2 DEF Rounded
<1>2. CASE n < 0
  <2>1. (d - 2 * n) \div (2 * d) \in Nat
    BY <1>2
  <2> QED
    BY <1>2, <2>1 DEF Rounded
<1> QED
  BY <1>1, <1>2

LEMMA RoundedAbove ==
  ASSUME NEW n \in Int, NEW d \in Nat \ {0}, NEW b \in Nat, n >= b * d
  PROVE  Rounded(n, d) \in Int /\ Rounded(n, d) >= b
<1>0. b * d \in Nat
  OBVIOUS
<1>1. n >= 0 /\ 2 * n + d >= 2 * d * b
  BY <1>0
<1>2. (2 * n + d) \div (2 * d) \in Int /\ (2 * n + d) \div (2 * d) >= b
  BY <1>1
<1> QED
  BY <1>1, <1>2 DEF Rounded

LEMMA RoundedInt ==
  ASSUME NEW n \in Int, NEW d \in Nat \ {0}
  PROVE  Rounded(n, d) \in Int
<1>1. CASE n >= 0
  BY <1>1 DEF Rounded
<1>2. CASE n < 0
  BY <1>2 DEF Rounded
<1> QED
  BY <1>1, <1>2

LEMMA RoundedNat ==
  ASSUME NEW n \in Nat, NEW d \in Nat \ {0}
  PROVE  Rounded(n, d) \in Nat
BY DEF Rounded

LEMMA RoundedMultiple ==
  ASSUME NEW k \in Nat, NEW d \in Nat \ {0}
  PROVE  Rounded(d * k, d) = k
<1>1. d * k \in Int /\ d * k <= k * d /\ d * k >= k * d
  OBVIOUS
<1>2. Rounded(d * k, d) \in Int /\ Rounded(d * k, d) <= k /\ Rounded(d * k, d) >= k
  BY <1>1, RoundedBelow, RoundedAbove
<1> QED
  BY <1>2

\* What is at least a half is not rounded to nothing.
LEMMA RoundedUp ==
  ASSUME NEW n \in Int, NEW d \in Nat \ {0}, 2 * n >= d
  PROVE  Rounded(n, d) >= 1
<1>1. n >= 0 /\ 2 * n + d >= 2 * d
  OBVIOUS
<1>2. (2 * n + d) \div (2 * d) >= 1
  BY <1>1
<1> QED
  BY <1>1, <1>2 DEF Rounded

\* If a unit is rounded to something, so is every second of them in the whole.
LEMMA RoundedParts ==
  ASSUME NEW n \in Nat, NEW d \in Nat \ {0}, NEW m \in Nat \ {0}, Rounded(n, d * m) >= 1
  PROVE  2 * Rounded(n, d) >= m
<1>1. PICK e \in Nat \ {0} : e = d * m
  OBVIOUS
<1>2. 2 * n >= e
  <2>1. (2 * n + e) \div (2 * e) >= 1
    BY <1>1 DEF Rounded
  <2>2. 2 * n < e => (2 * n + e) \div (2 * e) = 0
    OBVIOUS
  <2> QED
    BY <2>1, <2>2
<1>3. PICK q \in Int : q = Rounded(n, d)
  BY RoundedInt
<1>4. 2 * n + d < 2 * d * (q + 1)
  BY <1>3 DEF Rounded
<1>5. d * m < d * (2 * q + 1)
  BY <1>1, <1>2, <1>4
<1>6. m < 2 * q + 1
  BY <1>5
<1> QED
  BY <1>3, <1>6

-----------------------------------------------------------------------------
(* Rows *)

LEMMA Phases ==
  ASSUME NEW x, TaskShape(x)
  PROVE  /\ x.phase \in {"idle", "checked", "loaded", "flushed", "scored"}
         /\ x.phase = "idle" => x = Idle
         /\ x.phase = "checked" => CheckedShape(x)
         /\ x.phase = "loaded" => LoadedShape(x)
         /\ x.phase = "flushed" => FlushedShape(x)
         /\ x.phase = "scored" => ScoredShape(x)
         /\ x.phase \in Patching => PatchShape(x)
BY DEF TaskShape, Idle, CheckedShape, LoadedShape, FlushedShape, ScoredShape, Patching

LEMMA NewRow ==
  ASSUME NEW url \in Urls, NEW order \in Orders
  PROVE  /\ RowShape(Row(url, order)) /\ Row(url, order).url = url
         /\ Row(url, order).cny # 0
<1>1. Row(url, order) = [f \in Columns |-> IF f = "url" THEN url ELSE order[f]]
  BY DEF Row
<1>2. /\ Row(url, order) = [f \in Columns |-> Row(url, order)[f]]
      /\ Row(url, order).url = url
      /\ \A f \in Fields \cup {"cny"} : Row(url, order)[f] = order[f]
  BY <1>1 DEF Columns, Fields
<1>3. order.moq \in Nat \ {0} /\ order.cny \in Nat \ {0}
  BY ProductsAssumption
<1>4. \A f \in {"china", "intl", "duty", "sell", "ad", "weight"} : order[f] \in Amount
  BY AmountsAssumption DEF Amount
<1> QED
  BY <1>2, <1>3, <1>4 DEF RowShape, Fields

LEMMA AdjustedRow ==
  ASSUME NEW row, RowShape(row), NEW patch \in Patches
  PROVE  RowShape(Adjusted(row, patch)) /\ Adjusted(row, patch).url = row.url
<1> DEFINE new == Adjusted(row, patch)
           given == {"china", "intl", "duty", "sell", "ad", "weight"}
<1>1. DOMAIN row = Columns
  BY DEF RowShape
<1>2. new = [f \in Columns |-> new[f]]
  BY <1>1 DEF Adjusted
<1>3. new.url = row.url /\ new.cny = row.cny
  BY <1>1 DEF Adjusted, Columns
<1>4. new.moq \in Nat \ {0}
  BY <1>1, ProductsAssumption, ScoringAssumption DEF RowShape, Adjusted, Columns, Fields, Or
<1>5. \A f \in given : row[f] \in Amount /\ patch[f] \in Amount
                       /\ f \in Columns \ {"url", "cny", "method"}
  BY AmountsAssumption DEF RowShape, Columns, Fields, Amount
<1>6. \A f \in given : new[f] \in {None, patch[f], row[f]}
  BY <1>1, <1>5 DEF Adjusted, Or
<1>7. \A f \in given : new[f] \in Amount
  BY <1>5, <1>6 DEF Amount
<1> HIDE DEF new
<1> QED
  BY <1>2, <1>3, <1>4, <1>7 DEF RowShape, new

\* A column holds an amount, and holds it as it is when it has held it before.
LEMMA HeldAmount ==
  ASSUME NEW f, NEW x \in Amount
  PROVE  /\ Held(f, x) \in Amount /\ (x \in Nat => Held(f, x) \in Nat)
         /\ Held(f, Held(f, x)) = Held(f, x)
<1>1. CASE ~(f \in Decimals /\ x # None)
  BY <1>1 DEF Held
<1>2. CASE f \in Decimals /\ x # None
  <2>1. PICK d \in Nat \ {0} : d = Place[f]
    BY <1>2, ProductsAssumption
  <2>2. x \in Nat /\ x >= 0 * d
    BY <1>2 DEF Amount
  <2>3. PICK k \in Nat : k = Rounded(x, d)
    BY <2>2, RoundedAbove
  <2>4. Held(f, x) = d * k /\ d * k \in Nat
    BY <1>2, <2>1, <2>3 DEF Held
  <2>5. Rounded(d * k, d) = k
    BY RoundedMultiple
  <2>6. d * k # None
    BY <2>4, ScoringAssumption
  <2> QED
    BY <1>2, <2>1, <2>4, <2>5, <2>6 DEF Held, Amount
<1> QED
  BY <1>1, <1>2

LEMMA HeldOther ==
  ASSUME NEW f, f \notin Decimals, NEW x
  PROVE  Held(f, x) = x
BY DEF Held

\* What is held of a row, column by column.
LEMMA HeldColumns ==
  ASSUME NEW row, RowShape(row), NEW f \in Columns
  PROVE  /\ Held(f, Held(f, row[f])) = Held(f, row[f])
         /\ f \in {"china", "intl", "duty", "sell", "ad", "weight"} => Held(f, row[f]) \in Amount
         /\ f \in {"moq", "url", "method"} => Held(f, row[f]) = row[f]
         /\ f = "cny" => Held(f, row[f]) \in Nat
<1>1. CASE f \in {"moq", "url", "method"}
  BY <1>1, HeldOther DEF Decimals
<1>2. CASE f \notin {"moq", "url", "method"}
  <2>1. row[f] \in Amount /\ (f = "cny" => row[f] \in Nat)
    BY <1>2 DEF RowShape, Columns, Fields, Amount
  <2> QED
    BY <1>2, <2>1, HeldAmount
<1> QED
  BY <1>1, <1>2

\* What an INSERT leaves.
LEMMA KeptRow ==
  ASSUME NEW row, RowShape(row)
  PROVE  Committed(Kept(row)) /\ Kept(row).url = row.url
<1>1. PICK new : new = Kept(row)
  OBVIOUS
<1>2. new = [f \in Columns |-> Held(f, row[f])]
  BY <1>1 DEF Kept, RowShape
<1>3. new = [f \in Columns |-> new[f]] /\ \A f \in Columns : new[f] = Held(f, row[f])
  BY <1>2
<1>4. \A f \in {"china", "intl", "duty", "sell", "ad", "weight"} : new[f] \in Amount
  BY <1>3, HeldColumns DEF Columns, Fields
<1>5. new.url = row.url /\ new.moq = row.moq /\ new.cny \in Nat
  BY <1>3, HeldColumns DEF Columns, Fields
<1>6. RowShape(new)
  BY <1>3, <1>4, <1>5 DEF RowShape
<1>7. Kept(new) = new
  <2>1. \A f \in Columns : Held(f, new[f]) = new[f]
    BY <1>3, HeldColumns
  <2>2. Kept(new) = [f \in Columns |-> Held(f, new[f])]
    BY <1>3 DEF Kept
  <2> QED
    BY <1>3, <2>1, <2>2
<1> QED
  BY <1>1, <1>5, <1>6, <1>7 DEF Committed

\* What an UPDATE leaves has the columns of a product, and is what the table holds of the row
\* that was scored when it has kept the row that was loaded.
LEMMA WrittenRow ==
  ASSUME NEW t, Committed(product[t.id]), RowShape(t.loaded), RowShape(t.row), ListedShape(t)
  PROVE  /\ Committed(Written(t)) /\ Written(t).url = product[t.id].url
         /\ product[t.id] = t.loaded => Written(t) = Kept(t.row)
<1>0. PICK old : old = product[t.id]
  OBVIOUS
<1>1. PICK new : new = Written(t)
  OBVIOUS
<1>2. new = [f \in Columns |-> IF f \in t.listed THEN Held(f, t.row[f]) ELSE old[f]]
  BY <1>0, <1>1 DEF Written, RowShape
<1>3. new = [f \in Columns |-> new[f]]
      /\ \A f \in Columns : new[f] = IF f \in t.listed THEN Held(f, t.row[f]) ELSE old[f]
  BY <1>2
<1>4. RowShape(old) /\ Kept(old) = old
  BY <1>0 DEF Committed
<1>5. \A f \in Columns : Held(f, old[f]) = old[f]
  BY <1>4 DEF Kept, RowShape
<1>6. new.url = old.url
  BY <1>3 DEF ListedShape, Columns
<1>7. new.moq \in Nat \ {0} /\ new.cny \in Nat
  <2>1. Held("moq", t.row.moq) = t.row.moq /\ Held("cny", t.row.cny) \in Nat
    BY HeldColumns DEF Columns, Fields
  <2> QED
    BY <1>3, <1>4, <2>1 DEF Columns, Fields, RowShape
<1>8. \A f \in {"china", "intl", "duty", "sell", "ad", "weight"} : new[f] \in Amount
  <2>1. \A f \in {"china", "intl", "duty", "sell", "ad", "weight"} :
          f \in Columns /\ old[f] \in Amount /\ Held(f, t.row[f]) \in Amount
    BY <1>4, HeldColumns DEF Columns, Fields, RowShape
  <2> QED
    BY <1>3, <2>1
<1>9. RowShape(new)
  BY <1>3, <1>4, <1>6, <1>7, <1>8 DEF RowShape
<1>10. Kept(new) = new
  <2>1. \A f \in Columns : Held(f, new[f]) = new[f]
    BY <1>3, <1>5, HeldColumns
  <2>2. Kept(new) = [f \in Columns |-> Held(f, new[f])]
    BY <1>3 DEF Kept
  <2> QED
    BY <1>3, <2>1, <2>2
<1>11. ASSUME old = t.loaded PROVE new = Kept(t.row)
  <2>1. \A f \in Columns \ t.listed : t.row[f] = old[f]
    BY <1>11 DEF ListedShape, Changed, RowShape
  <2>2. \A f \in Columns : new[f] = Held(f, t.row[f])
    BY <1>3, <1>5, <2>1
  <2>3. Kept(t.row) = [f \in Columns |-> Held(f, t.row[f])]
    BY DEF Kept, RowShape
  <2> QED
    BY <1>3, <2>2, <2>3
<1> QED
  BY <1>0, <1>1, <1>6, <1>9, <1>10, <1>11 DEF Committed

LEMMA InputsRate ==
  ASSUME NEW row, NEW rate
  PROVE  Inputs(row, rate).rate = rate
BY DEF Inputs

LEMMA RateIsPositive ==
  ASSUME Rated
  PROVE  LatestRate \in Nat \ {0}
BY ProductsAssumption, AmountsAssumption DEF Rated, LatestRate

-----------------------------------------------------------------------------
(* Costs *)

\* The three ways to the costs of a product come to the same.
LEMMA SameCosts ==
  ASSUME NEW i, NEW j, Goods(i) = Goods(j), Or(i.china, 0) = Or(j.china, 0), Intl(i) = Intl(j),
         Duty(i) = Duty(j), i.moq = j.moq
  PROVE  Costs(i) = Costs(j)
BY DEF Costs, Cif, Total, UnitCost, Taxed

LEMMA BreakdownIsCosts ==
  ASSUME NEW row, row.cny # 0
  PROVE  Breakdown(row) = Costs(Inputs(row, LatestRate))
<1> DEFINE i == Inputs(row, LatestRate)
<1> DEFINE duty == IF row.duty # None THEN row.duty
                   ELSE IF BaseDuty(KeywordOf[row.url]) # None
                   THEN BaseDuty(KeywordOf[row.url]) ELSE 8 * Fine
<1> DEFINE j == [cny |-> row.cny, moq |-> row.moq, rate |-> LatestRate,
                 china |-> Or(row.china, 0), intl |-> ResolvedShipping(row),
                 duty |-> duty, sell |-> 1, ad |-> 100 * Fine]
<1>1. Goods(i) = Goods(j) /\ Intl(i) = Intl(j) /\ i.moq = j.moq
  BY DEF Goods, Intl, Inputs
<1>2. Or(i.china, 0) = Or(j.china, 0)
  BY ScoringAssumption DEF Or, Inputs
<1>3. Duty(i) = Duty(j)
  BY ScoringAssumption DEF Duty, Or, Inputs
<1>4. Costs(i) = Costs(j)
  <2> HIDE DEF i, j
  <2> QED
    BY <1>1, <1>2, <1>3, SameCosts
<1> QED
  BY <1>4 DEF Breakdown

LEMMA CalculatedIsBreakdown ==
  ASSUME NEW row, fx # None, row.duty # None, Calculated(row) # None
  PROVE  Calculated(row) = Breakdown(row)
BY DEF Calculated, Breakdown, LatestRate, Or

-----------------------------------------------------------------------------
(* The verdict *)

\* Inputs of a product at some rate, as the scorer is given them.
Scored(i) ==
  /\ i.cny \in Nat \ {0} /\ i.moq \in Nat \ {0} /\ i.rate \in Nat \ {0}
  /\ i.china \in Amount /\ i.intl \in Amount /\ i.duty \in Amount
  /\ i.sell \in Amount /\ i.ad \in Amount

LEMMA Parts ==
  /\ Percents \in Nat \ {0} /\ Thousandths \in Nat \ {0} /\ TaxedWon \in Nat \ {0}
  /\ Thousandths = 1000 * Fine
BY ScoringAssumption DEF Percents, Thousandths, TaxedWon

LEMMA EstimateIsPositive ==
  ASSUME NEW i, Scored(i)
  PROVE  Estimate(i) \in Nat \ {0}
<1>1. PICK n \in Nat : n = 3 * i.cny * i.rate * 108
  BY DEF Scored
<1>2. n \div Percents \in Int /\ Rounded(n, Percents) \in Int
  BY Parts, RoundedInt
<1>3. RoundedEven(n, Percents) \in Int
  BY <1>2 DEF RoundedEven
<1> QED
  BY <1>1, <1>3, ScoringAssumption DEF Estimate, Larger

LEMMA Landed ==
  ASSUME NEW i, Scored(i)
  PROVE  /\ Total(i) \in Nat \ {0} /\ UnitCost(i) \in Nat /\ Price(i) \in Nat \ {0}
         /\ UnitCost(i) >= 1 => 2 * Total(i) >= i.moq
<1> USE ScoringAssumption
<1>1. Or(i.china, 0) \in Nat /\ Intl(i) \in Nat /\ Duty(i) \in Nat
  BY DEF Scored, Amount, Or, Intl, Duty
<1>2. Goods(i) \in Nat
  BY DEF Goods, Scored
<1>3. Cif(i) \in Nat
  BY <1>1, <1>2 DEF Cif
<1>4. Taxed(i) \in Nat
  <2>1. Percents + Duty(i) \in Nat
    BY <1>1, Parts
  <2> QED
    BY <1>3, <2>1 DEF Taxed
<1>5. PICK W \in Nat \ {0} : W = TaxedWon
  BY Parts
<1>6. PICK n \in Nat : n = Taxed(i) + W * FilingFee /\ n >= 1 * W
  <2>1. W * FilingFee \in Nat /\ W * FilingFee >= W
    BY ProductGrows
  <2> QED
    BY <1>4, <2>1
<1>7. Total(i) = Rounded(n, W) /\ UnitCost(i) = Rounded(n, W * i.moq)
  BY <1>5, <1>6 DEF Total, UnitCost
<1>8. Total(i) \in Nat \ {0}
  <2>1. n \in Int /\ 2 * n >= W
    BY <1>6
  <2>2. Rounded(n, W) \in Nat /\ Rounded(n, W) >= 1
    BY <2>1, RoundedNat, RoundedUp
  <2> QED
    BY <1>7, <2>2
<1>9. W * i.moq \in Nat \ {0}
  BY DEF Scored
<1>10. UnitCost(i) \in Nat
  BY <1>7, <1>9, RoundedNat
<1>11. UnitCost(i) >= 1 => 2 * Total(i) >= i.moq
  BY <1>7, RoundedParts DEF Scored
<1>12. Price(i) \in Nat \ {0}
  BY EstimateIsPositive DEF Price, Scored, Amount
<1> QED
  BY <1>8, <1>10, <1>11, <1>12

\* What a unit leaves of its price, in parts of a thousandth.
Share(i, ch) == Thousandths - Fine * FeeOf(ch) - Or(i.ad, Fine * AdOf(ch))

LEMMA Earned ==
  ASSUME NEW i, Scored(i), NEW ch \in Channels
  PROVE  /\ Share(i, ch) \in Int /\ Profit(i, ch) \in Int
         /\ Profit(i, ch) = Price(i) * Share(i, ch) - Thousandths * UnitCost(i)
<1>1. FeeOf(ch) \in Nat /\ AdOf(ch) \in Nat
  BY DEF FeeOf, AdOf
<1>2. Share(i, ch) \in Int
  BY <1>1, Parts, ScoringAssumption DEF Scored, Amount, Or, Share
<1>3. Profit(i, ch) = Price(i) * Share(i, ch) - Thousandths * UnitCost(i)
  BY DEF Profit, Share
<1> QED
  BY <1>2, <1>3, Landed, Parts

LEMMA Ratios ==
  ASSUME NEW i, Scored(i), NEW ch \in Channels
  PROVE  Margin(i, ch) \in Int /\ Roi(i, ch) \in Int
<1>1. Profit(i, ch) * Scale \in Int /\ Profit(i, ch) * i.moq * Scale \in Int
  BY Earned, ScoringAssumption DEF Scored
<1>2. Thousandths * Price(i) \in Nat \ {0} /\ Thousandths * Total(i) \in Nat \ {0}
  BY Landed, Parts
<1> QED
  BY <1>1, <1>2, RoundedInt DEF Margin, Roi

\* A channel that earns less than half a won for units that cost something.
LEMMA LittleEarned ==
  ASSUME NEW i, Scored(i), NEW ch \in Channels, UnitCost(i) >= 1,
         2 * Profit(i, ch) < Thousandths
  PROVE  /\ Roi(i, ch) <= Scale
         /\ Profit(i, ch) <= 0 => Roi(i, ch) <= 0
<1>1. PICK P \in Int : P = Profit(i, ch)
  BY Earned
<1>2. PICK T \in Nat \ {0} : T = Total(i)
  BY Landed
<1>3. PICK h \in Nat \ {0} : h = Thousandths
  BY Parts
<1>4. PICK m \in Nat \ {0} : m = i.moq
  BY DEF Scored
<1>5. 2 * P < h /\ m <= 2 * T
  BY <1>1, <1>2, <1>3, <1>4, Landed
<1>6. P * m <= h * T /\ (P <= 0 => P * m <= 0)
  <2>1. CASE P <= 0
    <3>1. P * m <= 0
      BY <2>1
    <3>2. h * T >= 0
      OBVIOUS
    <3> QED
      BY <3>1, <3>2
  <2>2. CASE P > 0
    <3>1. P * m <= P * (2 * T)
      BY <1>5, <2>2
    <3>2. (2 * P) * T <= h * T
      BY <1>5
    <3>3. P * (2 * T) = (2 * P) * T
      OBVIOUS
    <3> QED
      BY <2>2, <3>1, <3>2, <3>3
  <2> QED
    BY <2>1, <2>2
<1>7. PICK x \in Int : x = P * m
  OBVIOUS
<1>8. PICK y \in Nat \ {0} : y = h * T
  OBVIOUS
<1>9. x * Scale \in Int /\ x * Scale <= Scale * y /\ (x <= 0 => x * Scale <= 0 * y)
  BY <1>6, <1>7, <1>8, ScoringAssumption
<1>10. Roi(i, ch) = Rounded(x * Scale, y)
  BY <1>1, <1>2, <1>3, <1>4, <1>7, <1>8 DEF Roi
<1> QED
  BY <1>1, <1>6, <1>7, <1>9, <1>10, RoundedBelow, ScoringAssumption

LEMMA ClampBetween ==
  ASSUME NEW x \in Int
  PROVE  Clamp(x) \in 0..Scale /\ \A b \in Nat : x <= b => Clamp(x) <= b
BY ScoringAssumption DEF Clamp, Larger, Smaller

\* A loss takes all points of the break-even: half of the fifteen for the risk are out of reach.
LEMMA LittleRisk ==
  ASSUME NEW i, Scored(i),
         Profit(i, "smartstore") <= 0 \/ Profit(i, "coupang") <= 0
  PROVE  RiskPoints(i) \in Int /\ 10 * RiskPoints(i) <= 75 * Scale
<1>1. \A ch \in Channels : Profit(i, ch) \in Int /\ Breakeven(i, ch) \in Int
  <2> TAKE ch \in Channels
  <2>1. Profit(i, ch) \in Int /\ Thousandths * Total(i) \in Int
    BY Earned, Landed, Parts
  <2>2. Profit(i, ch) > 0 => (Thousandths * Total(i) + Profit(i, ch) - 1) \div Profit(i, ch) \in Int
    BY <2>1
  <2> QED
    BY <2>1, <2>2 DEF Breakeven, NeverPays
<1>2. Larger(Breakeven(i, "smartstore"), Breakeven(i, "coupang")) >= NeverPays
  BY <1>1 DEF Larger, Breakeven, NeverPays, Channels
<1>3. BreakevenNorm(i) = 0
  BY <1>1, <1>2 DEF BreakevenNorm, ExpectedDemand, NeverPays, Channels, Larger
<1>4. BudgetNorm(i) \in 0..Scale
  <2>1. UnitCost(i) * i.moq \in Int
    BY Landed DEF Scored
  <2>2. Larger(1, UnitCost(i) * i.moq) * Scale \in Nat /\ Budget \in Nat \ {0}
    BY <2>1, ScoringAssumption DEF Larger
  <2>3. (Larger(1, UnitCost(i) * i.moq) * Scale) \div Budget \in Int
    BY <2>2
  <2>4. ASSUME NEW part \in Int
        PROVE  Scale - ((part - (3 * Scale) \div 10) * 10) \div 7 \in Int
    BY ScoringAssumption
  <2> QED
    BY <2>3, <2>4, ClampBetween DEF BudgetNorm
<1>5. RiskPoints(i) = (75 * BudgetNorm(i)) \div 10
  BY <1>3, <1>4, ScoringAssumption DEF RiskPoints
<1> QED
  BY <1>4, <1>5, ScoringAssumption

LEMMA Norms ==
  ASSUME NEW i, Scored(i)
  PROVE  /\ MarginNorm(i) \in 0..Scale /\ RoiNorm(i) \in 0..Scale
         /\ Margin(i, "smartstore") + Margin(i, "coupang") \in Int
         /\ Roi(i, "smartstore") + Roi(i, "coupang") \in Int
<1>1. Margin(i, "smartstore") + Margin(i, "coupang") \in Int
      /\ Roi(i, "smartstore") + Roi(i, "coupang") \in Int
  BY Ratios DEF Channels
<1>2. (Roi(i, "smartstore") + Roi(i, "coupang")) \div 2 \in Int
  BY <1>1
<1> QED
  BY <1>1, <1>2, ClampBetween DEF MarginNorm, RoiNorm

\* What is recommended loses: then no channel earns half a won for a unit.
LEMMA RecommendedLoses ==
  ASSUME NEW i, Scored(i), Profit(i, Recommended(i)) <= 0
  PROVE  /\ \A ch \in Channels : 2 * Profit(i, ch) < Thousandths
         /\ Profit(i, "smartstore") <= 0 \/ Profit(i, "coupang") <= 0
<1>0. PICK h \in Nat \ {0} : h = Thousandths
  BY Parts
<1> DEFINE s == Profit(i, "smartstore")
           c == Profit(i, "coupang")
<1>1. s \in Int /\ c \in Int
  BY Earned DEF Channels
<1> HIDE DEF s, c
<1>2. \A n \in Int : n <= 0 => Rounded(n, h) <= 0
  BY RoundedBelow
<1>3. \A n \in Int : Rounded(n, h) \in Int /\ (2 * n >= h => Rounded(n, h) >= 1)
  BY RoundedInt, RoundedUp
<1>4. CASE Rounded(s, h) > Rounded(c, h)
  <2>1. s <= 0
    BY <1>0, <1>4 DEF Recommended, s, c
  <2>2. Rounded(c, h) < 0
    BY <1>1, <1>2, <1>3, <1>4, <2>1
  <2>3. 2 * c < h
    BY <1>1, <1>3, <2>2
  <2> QED
    BY <1>0, <1>1, <2>1, <2>3 DEF Channels, s, c
<1>5. CASE ~(Rounded(s, h) > Rounded(c, h))
  <2>1. c <= 0
    BY <1>0, <1>5 DEF Recommended, s, c
  <2>2. Rounded(s, h) <= 0
    BY <1>1, <1>2, <1>3, <1>5, <2>1
  <2>3. 2 * s < h
    BY <1>1, <1>3, <2>2
  <2> QED
    BY <1>0, <1>1, <2>1, <2>3 DEF Channels, s, c
<1> QED
  BY <1>4, <1>5

\* Units that cost nothing and are sold at a loss: the channels differ by their fees.
LEMMA FreeUnits ==
  ASSUME NEW i, Scored(i), UnitCost(i) = 0, Profit(i, Recommended(i)) <= 0
  PROVE  /\ Profit(i, "coupang") <= 0
         /\ Profit(i, "smartstore") <= Price(i) * (53 * Fine)
<1>1. PICK p \in Nat \ {0} : p = Price(i)
  BY Landed
<1>2. PICK a \in Int, b \in Int : a = Share(i, "smartstore") /\ b = Share(i, "coupang")
  BY Earned DEF Channels
<1>3. Profit(i, "smartstore") = p * a /\ Profit(i, "coupang") = p * b
  BY <1>1, <1>2, Earned, Parts DEF Channels
<1>4. Profit(i, "smartstore") <= 0 \/ Profit(i, "coupang") <= 0
  BY RecommendedLoses
<1>5. i.ad # None
  <2> SUFFICES ASSUME i.ad = None PROVE FALSE
    OBVIOUS
  <2>1. a >= 1 /\ b >= 1
    BY <1>2, Parts, ScoringAssumption DEF Share, Or, FeeOf, AdOf
  <2>2. p * a >= 1 /\ p * b >= 1
    BY <2>1
  <2> QED
    BY <1>3, <1>4, <2>2
<1>6. a = b + 53 * Fine
  BY <1>2, <1>5, Parts, ScoringAssumption DEF Share, Or, FeeOf, Scored, Amount
<1>7. p * a = p * b + p * (53 * Fine) /\ p * (53 * Fine) >= 0
  BY <1>6, ScoringAssumption
<1>8. p * b \in Int /\ p * (53 * Fine) \in Int
  BY ScoringAssumption
<1> QED
  BY <1>1, <1>3, <1>4, <1>7, <1>8

\* So little profit leaves the points short of what a verdict needs.
LEMMA LittleProfit ==
  ASSUME NEW i, Scored(i), Profit(i, Recommended(i)) <= 0
  PROVE  ProfitPoints(i) \in Int /\ 20 * ProfitPoints(i) < 510 * Scale
<1>1. PICK m \in 0..Scale : m = MarginNorm(i)
  BY Norms
<1>2. PICK r \in 0..Scale : r = RoiNorm(i)
  BY Norms
<1>3. 7 * (7 * r + 3 * m) < 51 * Scale
  <2>1. CASE UnitCost(i) >= 1
    <3>1. PICK x \in Int : x = Roi(i, "smartstore") + Roi(i, "coupang")
      BY Norms
    <3>2. x <= Scale
      <4>1. \A ch \in Channels : /\ Roi(i, ch) \in Int /\ Roi(i, ch) <= Scale
                                 /\ Profit(i, ch) <= 0 => Roi(i, ch) <= 0
        BY <2>1, RecommendedLoses, LittleEarned, Ratios
      <4> QED
        BY <3>1, <4>1, RecommendedLoses, ScoringAssumption DEF Channels
    <3>3. x \div 2 \in Int /\ x \div 2 <= Scale \div 2 /\ Scale \div 2 \in Nat
          /\ 2 * (Scale \div 2) <= Scale
      BY <3>2, ScoringAssumption
    <3>4. r <= Scale \div 2
      BY <1>2, <3>1, <3>3, ClampBetween DEF RoiNorm
    <3> QED
      BY <3>3, <3>4, ScoringAssumption
  <2>2. CASE UnitCost(i) = 0
    <3>1. PICK k \in Nat \ {0} : k = Price(i) * Fine
      BY Landed, ScoringAssumption
    <3>2. PICK s \in Int, c \in Int : s = Profit(i, "smartstore") /\ c = Profit(i, "coupang")
      BY Earned DEF Channels
    <3>3. c <= 0 /\ s <= 53 * k
      <4>1. Price(i) * (53 * Fine) = 53 * k
        BY <3>1, Landed, ScoringAssumption
      <4> QED
        BY <2>2, <3>2, <4>1, FreeUnits
    <3>4. PICK q \in Nat : q = Scale \div 16 /\ 53 * Scale <= 1000 * q /\ 16 * q <= Scale
      BY ScoringAssumption
    <3>5. Thousandths * Price(i) = 1000 * k /\ 1000 * k \in Nat \ {0}
      BY <3>1, Landed, ScoringAssumption DEF Thousandths
    <3>6. Margin(i, "coupang") \in Int /\ Margin(i, "coupang") <= 0
      <4>1. c * Scale \in Int /\ c * Scale <= 0 * (1000 * k)
        BY <3>3, ScoringAssumption
      <4> QED
        BY <3>2, <3>5, <4>1, RoundedBelow DEF Margin
    <3>7. Margin(i, "smartstore") \in Int /\ Margin(i, "smartstore") <= q
      <4>1. s * Scale <= (53 * k) * Scale
        BY <3>3, ScoringAssumption
      <4>2. (53 * Scale) * k <= (1000 * q) * k
        BY <3>4, ScoringAssumption
      <4>3. s * Scale \in Int /\ s * Scale <= q * (1000 * k)
        BY <4>1, <4>2, ScoringAssumption
      <4> QED
        BY <3>2, <3>5, <4>3, RoundedBelow DEF Margin
    <3>8. m <= q
      BY <1>1, <3>6, <3>7, ClampBetween DEF MarginNorm
    <3> QED
      BY <3>4, <3>8, ScoringAssumption
  <2> QED
    BY <2>1, <2>2, Landed
<1>4. ProfitPoints(i) = (35 * (7 * r + 3 * m)) \div 10
  BY <1>1, <1>2 DEF ProfitPoints
<1> QED
  BY <1>3, <1>4, ScoringAssumption

\* What is not passed over earns on the channel that is recommended.
LEMMA PaysOrPass ==
  ASSUME NEW i, Scored(i), Verdict(i) # "PASS"
  PROVE  Profit(i, Recommended(i)) > 0
<1>1. Profit(i, Recommended(i)) \in Int
  BY Earned DEF Recommended, Channels
<1>2. ASSUME Profit(i, Recommended(i)) <= 0 PROVE FALSE
  <2>1. ProfitPoints(i) \in Int /\ 20 * ProfitPoints(i) < 510 * Scale
    BY <1>2, LittleProfit
  <2>2. RiskPoints(i) \in Int /\ 10 * RiskPoints(i) <= 75 * Scale
    BY <1>2, RecommendedLoses, LittleRisk
  <2>3. Points(i) < 60 * Scale /\ Points(i) < 80 * Scale /\ Points(i) \in Int
    BY <2>1, <2>2, ScoringAssumption DEF Points, OpportunityPoints, StabilityPoints
  <2> QED
    BY <2>3, ScoringAssumption DEF Verdict
<1> QED
  BY <1>1, <1>2

-----------------------------------------------------------------------------
(* Look-ups *)

\* A set of numbers has a least one.
LEMMA Least ==
  ASSUME NEW T, T \subseteq Nat, T # {}
  PROVE  \E x \in T : \A y \in T : x <= y
<1>1. IsWellFoundedOn(OpToRel(<, Nat), Nat)
  BY NatLessThanWellFounded
<1>2. PICK x \in T : \A y \in T : ~(<<y, x>> \in OpToRel(<, Nat))
  BY <1>1, WFMin
<1>3. ASSUME NEW y \in T PROVE x <= y
  <2>1. x \in Nat /\ y \in Nat
    OBVIOUS
  <2>2. y < x => <<y, x>> \in OpToRel(<, Nat)
    BY <2>1 DEF OpToRel
  <2>3. ~(y < x)
    BY <1>2, <2>2
  <2> QED
    BY <2>1, <2>3
<1> QED
  BY <1>3

LEMMA TierPrices ==
  ASSUME NEW method, NEW weight
  PROVE  TierPrice(method, weight) \in Amount
<1> DEFINE fits == {r \in ShippingRates : r.method = method /\ r.max >= weight}
           first == CHOOSE r \in fits : \A s \in fits : r.max <= s.max
<1>1. CASE fits = {}
  BY <1>1 DEF TierPrice, Amount
<1>2. CASE fits # {}
  <2> DEFINE T == {r.max : r \in fits}
  <2>1. T \subseteq Nat /\ T # {}
    BY <1>2, AmountsAssumption
  <2>2. PICK x \in T : \A y \in T : x <= y
    <3> HIDE DEF T
    <3> QED
      BY <2>1, Least
  <2>3. \E r \in fits : \A s \in fits : r.max <= s.max
    BY <2>2
  <2>4. first \in fits
    BY <2>3
  <2>5. first.price \in Nat
    BY <2>4, AmountsAssumption
  <2> QED
    BY <1>2, <2>5 DEF TierPrice, Amount
<1> QED
  BY <1>1, <1>2

LEMMA Shipping ==
  ASSUME NEW row, RowShape(row)
  PROVE  ResolvedShipping(row) \in Amount
<1>1. \A m, x : TierPrice(m, x) \in Amount
  BY TierPrices
<1>2. \A m, x : ShippingPrice(m, x) \in Amount
  BY <1>1 DEF ShippingPrice, Smaller
<1> QED
  BY <1>2 DEF ResolvedShipping, RowShape

LEMMA Surest ==
  ASSUME NEW S, S # {}, \A m \in S : m.confidence \in 0..1000
  PROVE  \E m \in S : \A n \in S : m.confidence >= n.confidence
<1> DEFINE T == {1000 - m.confidence : m \in S}
<1>1. T \subseteq Nat /\ T # {}
  OBVIOUS
<1>2. PICK x \in T : \A y \in T : x <= y
  <2> HIDE DEF T
  <2> QED
    BY <1>1, Least
<1>3. PICK m \in S : x = 1000 - m.confidence
  BY <1>2
<1>4. ASSUME NEW n \in S PROVE m.confidence >= n.confidence
  <2>1. x <= 1000 - n.confidence
    BY <1>2
  <2>2. PICK a \in 0..1000 : a = m.confidence
    OBVIOUS
  <2>3. PICK b \in 0..1000 : b = n.confidence
    OBVIOUS
  <2>4. a >= b
    BY <1>3, <2>1, <2>2, <2>3
  <2> QED
    BY <2>2, <2>3, <2>4
<1> QED
  BY <1>4

LEMMA Tariffs ==
  ASSUME NEW k \in (DOMAIN Mappings) \cup {None}
  PROVE  BaseDuty(k) \in Amount
<1>1. CASE k = None
  BY <1>1 DEF BaseDuty, Amount
<1>2. CASE k # None
  <2>1. HsCode(k) \in DOMAIN DutyRates
    <3>1. CASE Mappings[k] = {}
      BY <1>2, <3>1, AmountsAssumption DEF HsCode, Suggested, Or
    <3>2. CASE Mappings[k] # {}
      <4> DEFINE sure == CHOOSE m \in Mappings[k] : \A n \in Mappings[k] : m.confidence >= n.confidence
      <4>1. \A m \in Mappings[k] : m.hs \in DOMAIN DutyRates /\ m.confidence \in 0..1000
        BY <1>2, AmountsAssumption
      <4>5. \E m \in Mappings[k] : \A n \in Mappings[k] : m.confidence >= n.confidence
        BY <3>2, <4>1, Surest
      <4>6. sure \in Mappings[k]
        BY <4>5
      <4> QED
        BY <3>2, <4>1, <4>6 DEF HsCode
    <3> QED
      BY <3>1, <3>2
  <2> QED
    BY <1>2, <2>1, AmountsAssumption DEF BaseDuty, Amount
<1> QED
  BY <1>1, <1>2

\* What the scorer is given is what it can count with.
LEMMA InputsScored ==
  ASSUME NEW row, RowShape(row), row.cny # 0, NEW rate \in Nat \ {0}
  PROVE  Scored(Inputs(row, rate))
<1>1. PICK k \in (DOMAIN Mappings) \cup {None} : k = KeywordOf[row.url]
  BY ProductsAssumption DEF RowShape
<1>2. BaseDuty(k) \in Amount
  BY Tariffs
<1>3. AvgPrice(k) \in Amount
  BY AmountsAssumption DEF AvgPrice, Amount
<1>4. ResolvedShipping(row) \in Amount
  BY Shipping
<1>5. Or(row.duty, BaseDuty(k)) \in Amount /\ Or(row.sell, AvgPrice(k)) \in Amount
  BY <1>2, <1>3 DEF Or, RowShape
<1>6. Inputs(row, rate) = [cny |-> row.cny, moq |-> row.moq, rate |-> rate, china |-> row.china,
                           intl |-> ResolvedShipping(row), duty |-> Or(row.duty, BaseDuty(k)),
                           sell |-> Or(row.sell, AvgPrice(k)), ad |-> row.ad]
  BY <1>1 DEF Inputs
<1> QED
  BY <1>4, <1>5, <1>6 DEF Scored, RowShape

-----------------------------------------------------------------------------
(* What stays *)

\* A task that does not move is still good when its product is there, and is as it was if
\* the task is alone with it.
LEMMA TaskStays ==
  ASSUME NEW w \in Workers, TaskShape(task[w]), task'[w] = task[w],
         day \in Days, day' \in Days, day <= day',
         task[w].phase \in Patching =>
           LET p == task[w].id IN
           /\ product'[p] # NoRow /\ product'[p].url = product[p].url
           /\ task[w].alone => product'[p] = product[p] /\ score'[p] = score[p]
  PROVE  TaskShape(task[w])'
<1> DEFINE x == task[w]
<1>1. CASE x = Idle \/ CheckedShape(x)
  BY <1>1 DEF TaskShape, CheckedShape, Idle
<1>2. ASSUME x.phase \in Patching, PatchShape(x)
      PROVE  PatchShape(x)'
  BY <1>2 DEF PatchShape, RowShape, Ids
<1>3. CASE LoadedShape(x)
  <2>1. LoadedShape(x)'
    BY <1>2, <1>3 DEF LoadedShape, Patching
  <2> QED
    BY <2>1 DEF TaskShape
<1>4. CASE FlushedShape(x)
  <2>1. FlushedShape(x)'
    BY <1>2, <1>4 DEF FlushedShape, Patching, AdjustedShape, RowShape
  <2> QED
    BY <2>1 DEF TaskShape
<1>5. CASE ScoredShape(x)
  <2>1. x.phase \in Patching /\ PatchShape(x)'
    BY <1>2, <1>5 DEF ScoredShape, Patching
  <2>2. x.day \in Days /\ x.day <= day'
    BY <1>5 DEF ScoredShape, Days
  <2>3. x.alone => \A d \in Days : score'[x.id][d] # NoScore => d <= x.day
    BY <1>5, <2>1 DEF ScoredShape
  <2>4. ScoredShape(x)'
    BY <1>5, <2>1, <2>2, <2>3 DEF ScoredShape, AdjustedShape, RowShape
  <2> QED
    BY <2>4 DEF TaskShape
<1> QED
  BY <1>1, <1>3, <1>4, <1>5 DEF TaskShape

\* A step that moves requests only.
LEMMA OnlyTasks ==
  ASSUME IInv, UNCHANGED <<product, score, serial, day, market, torn>>,
         DOMAIN task' = Workers, \A w \in Workers : TaskShape(task[w])',
         Alone', OwnUrl', crossed \subseteq crossed'
  PROVE  IInv'
<1>1. Tables'
  BY DEF IInv, Tables, Committed, RowShape, ScoreShape, market
<1>2. Rated' /\ RateIsRecent'
  BY DEF IInv, Rated, RateIsRecent, market
<1>3. OneProductPerUrl'
  BY DEF IInv, OneProductPerUrl, Present
<1>4. \A p \in Ids : product'[p] # NoRow /\ p \notin torn' => Shown(p)'
  BY DEF IInv, Shown
<1> QED
  BY <1>1, <1>2, <1>3, <1>4 DEF IInv

\* One request comes to rest or goes on as the same PATCH.
LEMMA OneTask ==
  ASSUME IInv, NEW w \in Workers, NEW x, task' = [task EXCEPT ![w] = x], TaskShape(x),
         x.phase # "checked",
         x.phase \in Patching =>
           task[w].phase \in Patching /\ x.id = task[w].id /\ x.alone = task[w].alone,
         UNCHANGED <<product, score, serial, day, market, observer>>
  PROVE  IInv'
<1>1. task'[w] = x /\ DOMAIN task' = Workers /\ \A v \in Workers \ {w} : task'[v] = task[v]
  BY DEF IInv, Tables
<1>2. TaskShape(task[w])'
  BY <1>1 DEF TaskShape, Idle, CheckedShape, LoadedShape, FlushedShape, ScoredShape, PatchShape,
              AdjustedShape, RowShape
<1>3. \A v \in Workers \ {w} : TaskShape(task[v])'
  BY <1>1, TaskStays, Phases DEF IInv, Tables, Days, PatchShape
<1>4. Alone'
  BY <1>1 DEF IInv, Alone
<1>5. OwnUrl'
  BY <1>1 DEF IInv, OwnUrl, observer
<1> QED
  BY <1>1, <1>2, <1>3, <1>4, <1>5, OnlyTasks DEF observer

-----------------------------------------------------------------------------
(* Steps *)

LEMMA InitStep == Init => IInv
<1> SUFFICES ASSUME Init PROVE IInv
  OBVIOUS
<1> USE DEF Init
<1>1. Tables
  BY ProductsAssumption DEF Tables, Days
<1>2. Rated /\ RateIsRecent
  BY DEF Rated, RateIsRecent
<1>3. \A w \in Workers : TaskShape(task[w]) /\ task[w].phase = "idle"
  BY DEF TaskShape, Idle
<1>4. Alone /\ OwnUrl
  BY <1>3 DEF Alone, OwnUrl, Patching
<1>5. OneProductPerUrl
  BY DEF OneProductPerUrl, Present
<1>6. \A p \in Ids : product[p] = NoRow
  OBVIOUS
<1> QED
  BY <1>1, <1>2, <1>3, <1>4, <1>5, <1>6 DEF IInv

LEMMA CheckStep ==
  ASSUME IInv, NEW w \in Workers, NEW url \in Urls, Check(w, url)
  PROVE  IInv'
<1>1. PICK order \in Orders :
        task' = [task EXCEPT ![w] = [phase |-> "checked", url |-> url, order |-> order]]
  BY DEF Check
<1> DEFINE x == [phase |-> "checked", url |-> url, order |-> order]
<1>2. task'[w] = x /\ DOMAIN task' = Workers /\ \A v \in Workers \ {w} : task'[v] = task[v]
  BY <1>1 DEF IInv, Tables
<1>3. TaskShape(task[w])'
  BY <1>2 DEF TaskShape, CheckedShape
<1>4. \A v \in Workers \ {w} : TaskShape(task[v])'
  BY <1>2, TaskStays, Phases DEF IInv, Tables, Days, PatchShape, Check
<1>5. Alone'
  BY <1>2 DEF IInv, Alone, Patching
<1>6. crossed \subseteq crossed' /\ (Creating(url) # {} => url \in crossed')
  BY DEF Check
<1>7. OwnUrl'
  <2> SUFFICES ASSUME NEW u \in Workers, task'[u].phase = "checked", task'[u].url \notin crossed'
               PROVE  /\ \A p \in Ids : product'[p] # NoRow => product'[p].url # task'[u].url
                      /\ \A v \in Workers : task'[v].phase = "checked" /\ task'[v].url = task'[u].url => v = u
    BY DEF OwnUrl
  <2>1. CASE u = w
    BY <1>2, <1>6, <2>1 DEF Check, Creating
  <2>2. CASE u # w
    <3>1. task[u].phase = "checked" /\ task'[u] = task[u] /\ task[u].url \notin crossed
      BY <1>2, <1>6, <2>2
    <3>2. task[u].url # url
      BY <1>6, <3>1 DEF Creating
    <3> QED
      BY <1>2, <3>1, <3>2 DEF IInv, OwnUrl, Check
  <2> QED
    BY <2>1, <2>2
<1> QED
  BY <1>2, <1>3, <1>4, <1>5, <1>6, <1>7, OnlyTasks DEF Check

\* A PATCH that is no longer alone, field by field.
LEMMA JoinedLoaded ==
  ASSUME NEW x, NEW b,
         x = [phase |-> "loaded", id |-> x.id, loaded |-> x.loaded, patch |-> x.patch, alone |-> x.alone]
  PROVE  [x EXCEPT !.alone = b] =
           [phase |-> "loaded", id |-> x.id, loaded |-> x.loaded, patch |-> x.patch, alone |-> b]
OBVIOUS

LEMMA JoinedFlushed ==
  ASSUME NEW x, NEW b,
         x = [phase |-> "flushed", id |-> x.id, loaded |-> x.loaded, row |-> x.row,
              listed |-> x.listed, alone |-> x.alone]
  PROVE  [x EXCEPT !.alone = b] =
           [phase |-> "flushed", id |-> x.id, loaded |-> x.loaded, row |-> x.row,
            listed |-> x.listed, alone |-> b]
OBVIOUS

LEMMA JoinedScored ==
  ASSUME NEW x, NEW b,
         x = [phase |-> "scored", id |-> x.id, loaded |-> x.loaded, row |-> x.row,
              listed |-> x.listed, alone |-> x.alone, inputs |-> x.inputs, day |-> x.day,
              old |-> x.old]
  PROVE  [x EXCEPT !.alone = b] =
           [phase |-> "scored", id |-> x.id, loaded |-> x.loaded, row |-> x.row,
            listed |-> x.listed, alone |-> b, inputs |-> x.inputs, day |-> x.day,
            old |-> x.old]
OBVIOUS

LEMMA LoadStep ==
  ASSUME IInv, NEW w \in Workers, NEW p \in Ids, Load(w, p)
  PROVE  IInv'
<1>1. PICK patch \in Patches :
       task' = [v \in Workers |->
         IF v = w THEN [phase |-> "loaded", id |-> p, loaded |-> product[p], patch |-> patch,
                        alone |-> Adjusting(p) = {}]
         ELSE IF v \in Adjusting(p) THEN [task[v] EXCEPT !.alone = FALSE] ELSE task[v]]
  BY DEF Load
<1> DEFINE x == [phase |-> "loaded", id |-> p, loaded |-> product[p], patch |-> patch,
                 alone |-> Adjusting(p) = {}]
<1>2. /\ DOMAIN task' = Workers /\ task'[w] = x
      /\ \A v \in Workers \ {w} : v \in Adjusting(p) => task'[v] = [task[v] EXCEPT !.alone = FALSE]
      /\ \A v \in Workers \ {w} : v \notin Adjusting(p) => task'[v] = task[v]
  BY <1>1
<1>3. UNCHANGED <<product, score, serial, day, market, observer>> /\ product[p] # NoRow
      /\ task[w].phase = "idle"
  BY DEF Load
<1>4. TaskShape(task[w])'
  <2>1. x.alone \in BOOLEAN /\ RowShape(product[p])
    BY <1>3 DEF IInv, Tables, Committed
  <2>2. LoadedShape(x)
    BY <1>3, <2>1 DEF LoadedShape, PatchShape
  <2>3. LoadedShape(task[w])'
    BY <1>2, <1>3, <2>2 DEF LoadedShape, PatchShape, RowShape
  <2> QED
    BY <2>3 DEF TaskShape
<1>5. ASSUME NEW v \in Adjusting(p) \ {w}
      PROVE  /\ TaskShape(task[v])' /\ task'[v].phase = task[v].phase
             /\ task'[v].id = task[v].id /\ task'[v].alone = FALSE
  <2>1. task'[v] = [task[v] EXCEPT !.alone = FALSE] /\ v \in Workers /\ task[v].phase \in Patching
    BY <1>2, <1>5 DEF Adjusting
  <2>2. TaskShape(task[v])
    BY <2>1 DEF IInv
  <2>3. CASE task[v].phase = "loaded"
    <3>1. LoadedShape(task[v])
      BY <2>2, <2>3, Phases
    <3>2. task'[v] = [phase |-> "loaded", id |-> task[v].id, loaded |-> task[v].loaded,
                      patch |-> task[v].patch, alone |-> FALSE]
      BY <2>1, <3>1, JoinedLoaded DEF LoadedShape
    <3>3. LoadedShape(task[v])'
      BY <1>3, <3>1, <3>2 DEF LoadedShape, PatchShape, RowShape
    <3> QED
      BY <3>1, <3>2, <3>3 DEF TaskShape, LoadedShape
  <2>4. CASE task[v].phase = "flushed"
    <3>1. FlushedShape(task[v])
      BY <2>2, <2>4, Phases
    <3>2. task'[v] = [phase |-> "flushed", id |-> task[v].id, loaded |-> task[v].loaded,
                      row |-> task[v].row, listed |-> task[v].listed, alone |-> FALSE]
      BY <2>1, <3>1, JoinedFlushed DEF FlushedShape
    <3>3. FlushedShape(task[v])'
      BY <1>3, <3>1, <3>2 DEF FlushedShape, PatchShape, RowShape, AdjustedShape, ListedShape
    <3> QED
      BY <3>1, <3>2, <3>3 DEF TaskShape, FlushedShape
  <2>5. CASE task[v].phase = "scored"
    <3>1. ScoredShape(task[v])
      BY <2>2, <2>5, Phases
    <3>2. task'[v] = [phase |-> "scored", id |-> task[v].id, loaded |-> task[v].loaded,
                      row |-> task[v].row, listed |-> task[v].listed, alone |-> FALSE,
                      inputs |-> task[v].inputs, day |-> task[v].day, old |-> task[v].old]
      BY <2>1, <3>1, JoinedScored DEF ScoredShape
    <3>3. ScoredShape(task[v])'
      BY <1>3, <3>1, <3>2 DEF ScoredShape, PatchShape, RowShape, AdjustedShape, ListedShape
    <3> QED
      BY <3>1, <3>2, <3>3 DEF TaskShape, ScoredShape
  <2> QED
    BY <2>1, <2>3, <2>4, <2>5 DEF Patching
<1>6. \A v \in Workers \ {w} : v \notin Adjusting(p) => TaskShape(task[v])'
  BY <1>2, <1>3, TaskStays, Phases DEF IInv, Tables, Days, PatchShape
<1>7. \A v \in Workers : TaskShape(task[v])'
  BY <1>4, <1>5, <1>6
<1>10. \A v \in Adjusting(p) : v \in Workers /\ task[v].phase \in Patching /\ task[v].id = p
  BY DEF Adjusting
<1>11. \A v \in Workers : task[v].phase \in Patching /\ task[v].id = p => v \in Adjusting(p)
  BY DEF Adjusting
<1>8. Alone'
  <2> SUFFICES ASSUME NEW u \in Workers, NEW v \in Workers,
                      task'[u].phase \in Patching, task'[v].phase \in Patching,
                      task'[u].id = task'[v].id, task'[u].alone
               PROVE  u = v
    BY DEF Alone, Patching
  <2>1. u \notin Adjusting(p) \ {w}
    BY <1>5
  <2>2. CASE u = w
    <3>1. x.alone /\ task'[v].id = p
      BY <1>2, <2>2
    <3>2. Adjusting(p) = {}
      BY <3>1
    <3>3. v # w => task'[v] = task[v]
      BY <1>2, <3>2
    <3> QED
      BY <1>11, <2>2, <3>1, <3>2, <3>3
  <2>3. CASE u # w
    <3>1. u \notin Adjusting(p) /\ task'[u] = task[u]
      BY <1>2, <2>1, <2>3
    <3>2. task[u].id # p
      BY <1>11, <3>1
    <3>3. v # w
      BY <1>2, <3>1, <3>2
    <3>4. v \notin Adjusting(p)
      BY <1>5, <1>10, <3>1, <3>2, <3>3
    <3>5. task'[v] = task[v]
      BY <1>2, <3>3, <3>4
    <3> QED
      BY <3>1, <3>5 DEF IInv, Alone
  <2> QED
    BY <2>2, <2>3
<1>9. OwnUrl'
  <2>1. \A v \in Workers : task'[v].phase = "checked" => v # w /\ task'[v] = task[v]
    <3> TAKE v \in Workers
    <3> HAVE task'[v].phase = "checked"
    <3>1. v # w
      BY <1>2
    <3>2. v \notin Adjusting(p)
      BY <1>5, <1>10, <3>1 DEF Patching
    <3> QED
      BY <1>2, <3>1, <3>2
  <2> QED
    BY <1>3, <2>1 DEF IInv, OwnUrl, observer
<1> QED
  BY <1>2, <1>3, <1>7, <1>8, <1>9, OnlyTasks DEF observer

LEMMA FlushStep ==
  ASSUME IInv, NEW w \in Workers, Flush(w)
  PROVE  IInv'
<1> DEFINE t == task[w]
<1> DEFINE row == Adjusted(t.loaded, t.patch)
<1>1. PICK again \in SUBSET GivenAgain(row, t.loaded, t.patch) :
        task' = [task EXCEPT ![w] =
          [phase |-> "flushed", id |-> t.id, loaded |-> t.loaded, row |-> row,
           listed |-> Changed(row, t.loaded) \cup again, alone |-> t.alone]]
  BY DEF Flush
<1> DEFINE x == [phase |-> "flushed", id |-> t.id, loaded |-> t.loaded, row |-> row,
                 listed |-> Changed(row, t.loaded) \cup again, alone |-> t.alone]
<1>2. LoadedShape(t)
  BY Phases DEF Flush, IInv
<1>3. RowShape(row) /\ row.url = t.loaded.url
  BY <1>2, AdjustedRow DEF LoadedShape, PatchShape
<1>4. ListedShape(x)
  <2>1. Changed(row, t.loaded) \subseteq Columns \ {"url"}
    BY <1>2, <1>3 DEF Changed, LoadedShape, PatchShape, RowShape
  <2>2. again \subseteq Columns \ {"url"}
    BY DEF GivenAgain, Decimals, Columns, Fields
  <2> QED
    BY <2>1, <2>2 DEF ListedShape
<1>5. AdjustedShape(x) /\ PatchShape(x)
  BY <1>2, <1>3, <1>4 DEF LoadedShape, PatchShape, AdjustedShape
<1>6. TaskShape(x)
  BY <1>5 DEF TaskShape, FlushedShape
<1>7. task' = [task EXCEPT ![w] = x] /\ UNCHANGED <<product, score, serial, day, market, observer>>
  BY <1>1 DEF Flush
<1>8. x.id = task[w].id /\ x.alone = task[w].alone /\ x.phase = "flushed"
      /\ task[w].phase \in Patching
  BY DEF Flush, Patching
<1> HIDE DEF x
<1> QED
  BY <1>6, <1>7, <1>8, OneTask

LEMMA RescoreStep ==
  ASSUME IInv, NEW w \in Workers, Rescore(w)
  PROVE  IInv'
<1> DEFINE t == task[w]
<1> DEFINE x == [phase |-> "scored", id |-> t.id, loaded |-> t.loaded, row |-> t.row,
                 listed |-> t.listed, alone |-> t.alone, inputs |-> Inputs(t.row, LatestRate), day |-> day,
                 old |-> score[t.id][day]]
<1>1. FlushedShape(t)
  BY Phases DEF Rescore, IInv
<1>2. AdjustedShape(x) /\ PatchShape(x)
  BY <1>1 DEF FlushedShape, PatchShape, AdjustedShape, ListedShape
<1>3. \A d \in Days : score[t.id][d] # NoScore => d <= day
  BY <1>1 DEF IInv, Tables, FlushedShape, PatchShape
<1>4. day \in Days /\ day <= day
  BY DEF IInv, Tables, Days
<1>5. x.inputs = Inputs(x.row, x.inputs.rate) /\ x.inputs.rate \in Nat \ {0}
  BY InputsRate, RateIsPositive DEF IInv
<1>6. TaskShape(x)
  <2>1. x.row.cny # 0
    BY DEF Rescore
  <2>2. ScoredShape(x)
    BY <1>2, <1>3, <1>4, <1>5, <2>1 DEF ScoredShape
  <2> QED
    BY <2>2 DEF TaskShape
<1>7. task' = [task EXCEPT ![w] = x] /\ UNCHANGED <<product, score, serial, day, market, observer>>
  BY DEF Rescore
<1>8. x.id = task[w].id /\ x.alone = task[w].alone /\ x.phase = "scored"
      /\ task[w].phase \in Patching
  BY DEF Rescore, Patching
<1> HIDE DEF x
<1> QED
  BY <1>6, <1>7, <1>8, OneTask

LEMMA DbFailsStep ==
  ASSUME IInv, NEW w \in Workers, DbFails(w)
  PROVE  IInv'
<1>1. TaskShape(Idle) /\ Idle.phase = "idle"
  BY DEF TaskShape, Idle
<1> QED
  BY <1>1, OneTask DEF DbFails, Patching

LEMMA InsertStep ==
  ASSUME IInv, NEW w \in Workers, Insert(w)
  PROVE  IInv'
<1> DEFINE url == task[w].url
<1> DEFINE row == Row(task[w].url, task[w].order)
<1> DEFINE new == ScoreRow(row, Inputs(row, LatestRate))
<1>1. task[w].phase = "checked" /\ CheckedShape(task[w])
  BY Phases DEF Insert, IInv
<1>15. RowShape(row) /\ row.url = url /\ row.cny # 0
  BY <1>1, NewRow DEF CheckedShape
<1>16. PICK kept : kept = Kept(row)
  OBVIOUS
<1>2. Committed(kept) /\ kept.url = url /\ kept # NoRow
  <2>1. Committed(kept) /\ kept.url = url
    BY <1>15, <1>16, KeptRow
  <2> QED
    BY <2>1, ProductsAssumption DEF Committed, RowShape, NoRow
<1>3. PICK p \in Ids : /\ product[p] = NoRow
                       /\ product' = [product EXCEPT ![p] = kept]
                       /\ score' = [score EXCEPT ![p][day] = new]
  BY <1>16 DEF Insert
<1>4. serial' = serial + 1 /\ serial < MaxScores /\ task' = [task EXCEPT ![w] = Idle]
      /\ UNCHANGED <<day, market, observer>>
  BY DEF Insert
<1>5. new.id = serial + 1 /\ new = [id |-> new.id, of |-> new.of, inputs |-> new.inputs]
      /\ new.inputs = Inputs(new.of, new.inputs.rate) /\ new.inputs.rate \in Nat \ {0}
      /\ new.of = row
  BY InputsRate, RateIsPositive DEF ScoreRow, IInv
<1> HIDE DEF row, new
<1>6. /\ DOMAIN product' = Ids /\ DOMAIN score' = Ids /\ DOMAIN task' = Workers
      /\ product'[p] = kept /\ \A q \in Ids \ {p} : product'[q] = product[q] /\ score'[q] = score[q]
      /\ DOMAIN score'[p] = Days /\ score'[p][day] = new
      /\ \A d \in Days \ {day} : score'[p][d] = score[p][d]
      /\ task'[w] = Idle /\ \A v \in Workers \ {w} : task'[v] = task[v]
  BY <1>3, <1>4 DEF IInv, Tables
<1>7. \A d \in Days : score[p][d] = NoScore
  BY <1>3 DEF IInv, Tables
<1>8. Tables'
  <2>1. serial' \in 0..MaxScores /\ day' \in Days /\ misses' \in Nat
    BY <1>4, ProductsAssumption DEF IInv, Tables, market
  <2>2. \A q \in Ids : product'[q] # NoRow => Committed(product[q])'
    BY <1>2, <1>6 DEF IInv, Tables, Committed, RowShape
  <2>3. \A q \in Ids : DOMAIN score'[q] = Days
    BY <1>6 DEF IInv, Tables
  <2>4. \A q \in Ids, d \in Days : score'[q][d] # NoScore =>
          ScoreShape(score[q][d])' /\ product'[q] # NoRow /\ d <= day'
    <3> TAKE q \in Ids, d \in Days
    <3> HAVE score'[q][d] # NoScore
    <3>1. CASE q = p
      <4>1. d = day /\ score'[q][d] = new
        BY <1>6, <1>7, <3>1
      <4>2. ScoreShape(score[q][d])'
        BY <1>4, <1>5, <1>15, <4>1 DEF ScoreShape, IInv, Tables, RowShape
      <4> QED
        BY <1>2, <1>4, <1>6, <3>1, <4>1, <4>2 DEF IInv, Tables, Days
    <3>2. CASE q # p
      <4>1. score[q][d] # NoScore /\ score'[q][d] = score[q][d] /\ product'[q] = product[q]
        BY <1>6, <3>2
      <4>2. ScoreShape(score[q][d]) /\ product[q] # NoRow /\ d <= day
        BY <4>1 DEF IInv, Tables
      <4>3. ScoreShape(score[q][d])'
        BY <1>4, <4>1, <4>2 DEF ScoreShape, IInv, Tables, RowShape
      <4> QED
        BY <1>4, <4>1, <4>2, <4>3
    <3> QED
      BY <3>1, <3>2
  <2> QED
    BY <1>6, <2>1, <2>2, <2>3, <2>4 DEF Tables
<1>9. Rated' /\ RateIsRecent'
  BY <1>4 DEF IInv, Rated, RateIsRecent, market
<1>10. \A v \in Workers : TaskShape(task[v])'
  <2> TAKE v \in Workers
  <2>1. CASE v = w
    BY <1>6, <2>1 DEF TaskShape, Idle
  <2>2. CASE v # w
    <3>1. TaskShape(task[v]) /\ task'[v] = task[v] /\ day \in Days /\ day' \in Days /\ day <= day'
      BY <1>4, <1>6, <2>2 DEF IInv, Tables, Days
    <3>2. ASSUME task[v].phase \in Patching
          PROVE  /\ product'[task[v].id] = product[task[v].id] /\ score'[task[v].id] = score[task[v].id]
                 /\ product[task[v].id] # NoRow
      <4>1. PatchShape(task[v])
        BY <3>1, <3>2, Phases
      <4> QED
        BY <1>3, <1>6, <4>1 DEF PatchShape
    <3> QED
      BY <3>1, <3>2, TaskStays
  <2> QED
    BY <2>1, <2>2
<1>11. Alone'
  BY <1>6 DEF IInv, Alone, Idle, Patching
<1>12. OwnUrl'
  <2> SUFFICES ASSUME NEW u \in Workers, task'[u].phase = "checked", task'[u].url \notin crossed
               PROVE  /\ \A q \in Ids : product'[q] # NoRow => product'[q].url # task'[u].url
                      /\ \A v \in Workers : task'[v].phase = "checked" /\ task'[v].url = task'[u].url => v = u
    BY <1>4 DEF OwnUrl, observer
  <2>1. u # w /\ task'[u] = task[u]
    BY <1>6 DEF Idle
  <2>2. task[u].url # url
    BY <1>1, <2>1 DEF IInv, OwnUrl
  <2>3. \A q \in Ids : product'[q] # NoRow => product'[q].url # task'[u].url
    BY <1>2, <1>6, <2>1, <2>2 DEF IInv, OwnUrl
  <2>4. \A v \in Workers : task'[v].phase = "checked" => task'[v] = task[v]
    BY <1>6 DEF Idle
  <2> QED
    BY <2>1, <2>3, <2>4 DEF IInv, OwnUrl
<1>13. OneProductPerUrl'
  <2>1. \A q \in Ids \ {p} : product[q] # NoRow /\ product[q].url = url => url \in crossed
    BY <1>1 DEF IInv, OwnUrl
  <2> QED
    BY <1>2, <1>4, <1>6, <2>1 DEF IInv, OneProductPerUrl, Present, observer
<1>14. \A q \in Ids : product'[q] # NoRow /\ q \notin torn' => Shown(q)'
  <2> TAKE q \in Ids
  <2> HAVE product'[q] # NoRow /\ q \notin torn'
  <2>1. CASE q = p
    <3>1. new # NoScore
      BY <1>5 DEF NoScore, IInv, Tables
    <3>2. day \in Days /\ \A e \in Days : score'[p][e] # NoScore => e <= day
      BY <1>6, <1>7 DEF IInv, Tables, Days
    <3> QED
      BY <1>5, <1>6, <1>16, <2>1, <3>1, <3>2 DEF Shown
  <2>2. CASE q # p
    <3>1. product'[q] = product[q] /\ score'[q] = score[q] /\ Shown(q)
      BY <1>4, <1>6, <2>2 DEF IInv, observer
    <3> QED
      BY <3>1 DEF Shown
  <2> QED
    BY <2>1, <2>2
<1> QED
  BY <1>8, <1>9, <1>10, <1>11, <1>12, <1>13, <1>14 DEF IInv

LEMMA ReplaceStep ==
  ASSUME IInv, NEW w \in Workers, Replace(w)
  PROVE  IInv'
<1> DEFINE t == task[w]
<1>1. TaskShape(Idle) /\ Idle.phase = "idle"
  BY DEF TaskShape, Idle
<1>2. t.phase = "scored" /\ ScoredShape(t) /\ task' = [task EXCEPT ![w] = Idle]
      /\ UNCHANGED <<day, market, crossed>>
  BY Phases DEF Replace, IInv
<1>3. CASE UNCHANGED <<product, score, serial, torn>>
  BY <1>1, <1>2, <1>3, OneTask DEF Patching, observer
<1>4. CASE /\ product' = [product EXCEPT ![t.id] = Written(t)]
           /\ score' = [score EXCEPT ![t.id][t.day] = ScoreRow(t.row, t.inputs)]
           /\ serial' = serial + 1 /\ serial < MaxScores
           /\ torn' = IF t.alone THEN torn \ {t.id} ELSE torn \cup {t.id}
  <2>1. PICK p \in Ids : p = t.id /\ product[p] # NoRow
    BY <1>2 DEF ScoredShape, PatchShape
  <2>2. Committed(product[p]) /\ RowShape(t.loaded) /\ RowShape(t.row) /\ ListedShape(t)
    BY <1>2, <2>1 DEF ScoredShape, PatchShape, AdjustedShape, IInv, Tables
  <2>3. PICK row : row = Written(t)
    OBVIOUS
  <2>4. /\ Committed(row) /\ row.url = product[p].url
        /\ product[p] = t.loaded => row = Kept(t.row)
    BY <2>1, <2>2, <2>3, WrittenRow
  <2>5. row # NoRow
    BY <2>4, ProductsAssumption DEF Committed, RowShape, NoRow
  <2>6. PICK new : new = ScoreRow(t.row, t.inputs)
    OBVIOUS
  <2>7. new.id = serial + 1 /\ new = [id |-> new.id, of |-> new.of, inputs |-> new.inputs]
        /\ new.inputs = t.inputs /\ new.of = t.row /\ t.row.cny # 0 /\ new.inputs.rate \in Nat \ {0}
    BY <1>2, <2>6 DEF ScoreRow, ScoredShape
  <2>8. PICK today \in Days : today = t.day /\ today <= day
    BY <1>2 DEF ScoredShape
  <2>9. /\ DOMAIN product' = Ids /\ DOMAIN score' = Ids /\ DOMAIN task' = Workers
        /\ product'[p] = row /\ \A q \in Ids \ {p} : product'[q] = product[q] /\ score'[q] = score[q]
        /\ DOMAIN score'[p] = Days /\ score'[p][today] = new
        /\ \A d \in Days \ {today} : score'[p][d] = score[p][d]
        /\ task'[w] = Idle /\ \A v \in Workers \ {w} : task'[v] = task[v]
    BY <1>2, <1>4, <2>1, <2>3, <2>6, <2>8 DEF IInv, Tables
  <2>10. \A q \in Ids : (product'[q] # NoRow <=> product[q] # NoRow) /\ product'[q].url = product[q].url
    BY <2>1, <2>4, <2>5, <2>9
  <2>11. Tables'
    <3>1. serial' \in 0..MaxScores /\ day' \in Days /\ misses' \in Nat
      BY <1>2, <1>4, ProductsAssumption DEF IInv, Tables, market
    <3>2. \A q \in Ids : product'[q] # NoRow => Committed(product[q])'
      BY <2>4, <2>9 DEF IInv, Tables, Committed, RowShape
    <3>3. \A q \in Ids : DOMAIN score'[q] = Days
      BY <2>9 DEF IInv, Tables
    <3>4. \A q \in Ids, d \in Days : score'[q][d] # NoScore =>
            ScoreShape(score[q][d])' /\ product'[q] # NoRow /\ d <= day'
      <4> TAKE q \in Ids, d \in Days
      <4> HAVE score'[q][d] # NoScore
      <4>1. CASE q = p /\ d = today
        <5>1. score'[q][d] = new /\ new.id \in 1..serial'
          BY <1>4, <2>7, <2>9, <4>1 DEF IInv, Tables
        <5>2. RowShape(new.of) /\ new.of.cny # 0
          BY <2>2, <2>7
        <5>3. ScoreShape(score[q][d])'
          BY <2>7, <5>1, <5>2 DEF ScoreShape, RowShape
        <5> QED
          BY <1>2, <2>5, <2>8, <2>9, <4>1, <5>3
      <4>2. CASE ~(q = p /\ d = today)
        <5>1. score'[q][d] = score[q][d] /\ score[q][d] # NoScore
          BY <2>9, <4>2
        <5>2. ScoreShape(score[q][d]) /\ product[q] # NoRow /\ d <= day
          BY <5>1 DEF IInv, Tables
        <5>3. ScoreShape(score[q][d])'
          BY <1>4, <5>1, <5>2 DEF ScoreShape, IInv, Tables, RowShape
        <5> QED
          BY <1>2, <2>10, <5>2, <5>3
      <4> QED
        BY <4>1, <4>2
    <3> QED
      BY <2>9, <3>1, <3>2, <3>3, <3>4 DEF Tables
  <2>12. Rated' /\ RateIsRecent'
    BY <1>2 DEF IInv, Rated, RateIsRecent, market
  <2>13. \A v \in Workers : TaskShape(task[v])'
    <3> TAKE v \in Workers
    <3>1. CASE v = w
      BY <1>1, <2>9, <3>1 DEF TaskShape, Idle
    <3>2. CASE v # w
      <4>1. TaskShape(task[v]) /\ task'[v] = task[v] /\ day \in Days /\ day' \in Days /\ day <= day'
        BY <1>2, <2>9, <3>2 DEF IInv, Tables, Days
      <4>2. ASSUME task[v].phase \in Patching
            PROVE  /\ task[v].id \in Ids /\ product[task[v].id] # NoRow
                   /\ task[v].alone => task[v].id # p
        <5>1. PatchShape(task[v])
          BY <4>1, <4>2, Phases
        <5>2. task[v].alone => task[v].id # p
          BY <1>2, <2>1, <3>2, <4>2 DEF IInv, Alone, Patching
        <5> QED
          BY <5>1, <5>2 DEF PatchShape
      <4>3. task[v].phase \in Patching =>
              LET q == task[v].id IN
              /\ product'[q] # NoRow /\ product'[q].url = product[q].url
              /\ task[v].alone => product'[q] = product[q] /\ score'[q] = score[q]
        BY <2>9, <2>10, <4>2
      <4> QED
        BY <4>1, <4>3, TaskStays
    <3> QED
      BY <3>1, <3>2
  <2>14. Alone'
    BY <2>9 DEF IInv, Alone, Idle, Patching
  <2>15. OwnUrl'
    <3>1. \A v \in Workers : task'[v].phase = "checked" => v # w /\ task'[v] = task[v]
      BY <2>9 DEF Idle
    <3> QED
      BY <1>2, <2>10, <3>1 DEF IInv, OwnUrl
  <2>16. OneProductPerUrl'
    BY <1>2, <2>10 DEF IInv, OneProductPerUrl, Present
  <2>17. \A q \in Ids : product'[q] # NoRow /\ q \notin torn' => Shown(q)'
    <3> TAKE q \in Ids
    <3> HAVE product'[q] # NoRow /\ q \notin torn'
    <3>1. CASE q = p
      <4>1. t.alone
        BY <1>4, <2>1, <3>1
      <4>2. row = Kept(new.of)
        BY <1>2, <2>1, <2>4, <2>7, <4>1 DEF ScoredShape, PatchShape
      <4>3. new # NoScore
        BY <2>7 DEF NoScore, IInv, Tables
      <4>4. \A e \in Days : score'[p][e] # NoScore => e <= today
        BY <1>2, <2>1, <2>8, <2>9, <4>1 DEF ScoredShape, Days
      <4>5. new.inputs = Inputs(new.of, new.inputs.rate)
        BY <1>2, <2>7 DEF ScoredShape
      <4> QED
        BY <2>9, <3>1, <4>2, <4>3, <4>4, <4>5 DEF Shown
    <3>2. CASE q # p
      <4>1. q \notin torn
        BY <1>4, <2>1, <3>2
      <4>2. product'[q] = product[q] /\ score'[q] = score[q] /\ Shown(q)
        BY <2>9, <3>2, <4>1 DEF IInv
      <4> QED
        BY <4>2 DEF Shown
    <3> QED
      BY <3>1, <3>2
  <2> QED
    BY <2>11, <2>12, <2>13, <2>14, <2>15, <2>16, <2>17 DEF IInv
<1> QED
  BY <1>3, <1>4 DEF Replace

\* What is left when only the day and the rate move.
LEMMA OnlyTime ==
  ASSUME IInv, UNCHANGED <<product, score, task, serial, observer>>,
         day' \in Days, day <= day', misses' \in Nat, Rated', RateIsRecent'
  PROVE  IInv'
<1>1. Tables'
  <2>1. \A q \in Ids : product'[q] # NoRow => Committed(product[q])'
    BY DEF IInv, Tables, Committed, RowShape
  <2>2. \A q \in Ids, d \in Days : score'[q][d] # NoScore =>
          ScoreShape(score[q][d])' /\ product'[q] # NoRow /\ d <= day'
    BY DEF IInv, Tables, ScoreShape, RowShape, Days
  <2> QED
    BY <2>1, <2>2 DEF IInv, Tables
<1>2. \A v \in Workers : TaskShape(task[v])'
  BY TaskStays, Phases DEF IInv, Tables, PatchShape
<1>3. Alone' /\ OwnUrl' /\ OneProductPerUrl'
  BY DEF IInv, Alone, OwnUrl, OneProductPerUrl, Present, observer
<1>4. \A q \in Ids : product'[q] # NoRow /\ q \notin torn' => Shown(q)'
  BY DEF IInv, Shown, observer
<1> QED
  BY <1>1, <1>2, <1>3, <1>4 DEF IInv

LEMMA RefreshStep == ASSUME IInv, Refresh PROVE IInv'
<1> DEFINE older == [rate |-> fx.rate, age |-> fx.age + 1]
<1>1. fx # None => [fx EXCEPT !.age = @ + 1] = older
  BY DEF IInv, Rated
<1>2. ASSUME fx # None, MayBeFresh(older.age), fx' = older, misses' = misses
      PROVE  Rated' /\ RateIsRecent'
  BY <1>2 DEF IInv, Tables, Rated, RateIsRecent, MayBeFresh
<1>3. ASSUME NEW r \in Rates, fx' = [rate |-> r, age |-> 0], misses' = misses
      PROVE  Rated' /\ RateIsRecent'
  BY <1>3 DEF IInv, Tables, Rated, RateIsRecent
<1>4. ASSUME misses' = misses + 1, fx' = IF fx = None THEN None ELSE older
      PROVE  Rated' /\ RateIsRecent'
  BY <1>4 DEF IInv, Tables, Rated, RateIsRecent
<1>5. misses' \in Nat /\ Rated' /\ RateIsRecent'
  BY <1>1, <1>2, <1>3, <1>4 DEF Refresh, IInv, Tables
<1>6. day' \in Days /\ day <= day'
  BY DEF Refresh, IInv, Tables, Days
<1> QED
  BY <1>5, <1>6, OnlyTime DEF Refresh

LEMMA MidnightStep == ASSUME IInv, Midnight PROVE IInv'
<1>1. day' \in Days /\ day <= day'
  BY ProductsAssumption DEF Midnight, IInv, Tables, Days
<1>2. misses' \in Nat /\ Rated' /\ RateIsRecent'
  BY DEF Midnight, IInv, Tables, Rated, RateIsRecent, market
<1> QED
  BY <1>1, <1>2, OnlyTime DEF Midnight

LEMMA Inductive == IInv /\ [Next]_vars => IInv'
<1> SUFFICES ASSUME IInv, [Next]_vars PROVE IInv'
  OBVIOUS
<1>1. ASSUME NEW w \in Workers, Request(w) PROVE IInv'
  BY <1>1, CheckStep, LoadStep, InsertStep, FlushStep, RescoreStep, ReplaceStep, DbFailsStep
  DEF Request
<1>2. CASE UNCHANGED vars
  <2>1. day' \in Days /\ day <= day'
    BY <1>2 DEF vars, IInv, Tables, Days
  <2>2. misses' \in Nat /\ Rated' /\ RateIsRecent'
    BY <1>2 DEF vars, IInv, Tables, Rated, RateIsRecent, market
  <2> QED
    BY <1>2, <2>1, <2>2, OnlyTime DEF vars, observer
<1> QED
  BY <1>1, <1>2, RefreshStep, MidnightStep DEF Next

-----------------------------------------------------------------------------
(* Theorems *)

THEOREM Safety == Spec => []IInv
<1>1. Init => IInv
  BY InitStep
<1>2. IInv /\ [Next]_vars => IInv'
  BY Inductive
<1> QED
  BY <1>1, <1>2, PTL DEF Spec

\* Rows, scores, requests and the rate keep their shapes.
THEOREM ProductsTyped == Spec => []TypeOK
<1>1. IInv => TypeOK
  <2> SUFFICES ASSUME IInv PROVE TypeOK
    OBVIOUS
  <2>1. \A p \in Ids : product[p] # NoRow =>
          /\ DOMAIN product[p] = Columns /\ product[p].url \in Urls
          /\ product[p].moq \in Nat \ {0}
    BY DEF IInv, Tables, Committed, RowShape
  <2>2. \A p \in Ids, d \in Days : score[p][d].id \in 0..serial
    <3> TAKE p \in Ids, d \in Days
    <3>1. CASE score[p][d] = NoScore
      <4>1. score[p][d].id = 0
        BY <3>1 DEF NoScore
      <4> QED
        BY <4>1, ProductsAssumption DEF IInv, Tables
    <3>2. CASE score[p][d] # NoScore
      <4>1. ScoreShape(score[p][d]) /\ serial \in 0..MaxScores
        BY <3>2 DEF IInv, Tables
      <4>2. score[p][d].id \in 1..serial
        BY <4>1 DEF ScoreShape
      <4> QED
        BY <4>1, <4>2, ProductsAssumption
    <3> QED
      BY <3>1, <3>2
  <2>3. \A w \in Workers : task[w].phase \in {"idle", "checked"} \cup Patching
    BY Phases DEF IInv, Patching
  <2> QED
    BY <2>1, <2>2, <2>3 DEF IInv, Tables, Rated, TypeOK
<1> QED
  BY <1>1, Safety, PTL

\* Two products share a URL only when their create requests overlapped.
THEOREM UrlsAreLookedUp == Spec => []OneProductPerUrl
<1>1. IInv => OneProductPerUrl
  BY DEF IInv
<1> QED
  BY <1>1, Safety, PTL

\* The rate in use is of the last hour, or of one more for each run that got none.
THEOREM RateIsKeptFresh == Spec => []RateIsRecent
<1>1. IInv => RateIsRecent
  BY DEF IInv
<1> QED
  BY <1>1, Safety, PTL

\* The score shown is the one of the newest day.
LEMMA LatestIsShown ==
  ASSUME IInv, NEW p \in Ids, Shown(p)
  PROVE  /\ RowShape(Latest(p).of) /\ Latest(p).of.cny # 0 /\ Kept(Latest(p).of) = product[p]
         /\ Latest(p).inputs = Inputs(Latest(p).of, Latest(p).inputs.rate)
         /\ Latest(p).inputs.rate \in Nat \ {0}
<1>1. PICK d \in Days : /\ score[p][d] # NoScore
                        /\ \A e \in Days : score[p][e] # NoScore => e <= d
                        /\ Kept(score[p][d].of) = product[p]
                        /\ score[p][d].inputs = Inputs(score[p][d].of, score[p][d].inputs.rate)
  BY DEF Shown
<1> DEFINE scored == {e \in Days : score[p][e] # NoScore}
<1>2. d \in scored /\ \A e \in scored : d >= e
  BY <1>1 DEF Days
<1>3. \A c \in scored : (\A e \in scored : c >= e) => c = d
  BY <1>2 DEF Days
<1>4. (CHOOSE c \in scored : \A e \in scored : c >= e) = d
  BY <1>2, <1>3
<1>5. Latest(p) = score[p][d]
  BY <1>4 DEF Latest
<1>6. ScoreShape(score[p][d])
  BY <1>1 DEF IInv, Tables
<1> QED
  BY <1>1, <1>5, <1>6 DEF ScoreShape

\* The score shown is that of a row of which the table holds what it can, and what it does not
\* pass over pays.
THEOREM ScoresFollowRows == Spec => []ScoreOfRow
<1>1. IInv => ScoreOfRow
  <2> SUFFICES ASSUME IInv, NEW p \in Present \ torn
               PROVE  LET s == Latest(p) IN
                      /\ Kept(s.of) = product[p] /\ s.inputs = Inputs(s.of, s.inputs.rate)
                      /\ Verdict(s.inputs) # "PASS" => Profit(s.inputs, Recommended(s.inputs)) > 0
    BY DEF ScoreOfRow
  <2>1. p \in Ids /\ product[p] # NoRow /\ Shown(p)
    BY DEF Present, IInv
  <2>2. PICK i : i = Latest(p).inputs
    OBVIOUS
  <2>3. PICK of : of = Latest(p).of
    OBVIOUS
  <2>4. /\ RowShape(of) /\ of.cny # 0 /\ Kept(of) = product[p]
        /\ i = Inputs(of, i.rate) /\ i.rate \in Nat \ {0}
    BY <2>1, <2>2, <2>3, LatestIsShown
  <2>5. Scored(Inputs(of, i.rate))
    BY <2>4, InputsScored
  <2>6. Scored(i)
    BY <2>4, <2>5
  <2>7. Verdict(i) # "PASS" => Profit(i, Recommended(i)) > 0
    BY <2>6, PaysOrPass
  <2> QED
    BY <2>2, <2>3, <2>4, <2>7
<1> QED
  BY <1>1, Safety, PTL

\* The list, the detail page and the calculator show the same costs, where the columns hold
\* what was given.
THEOREM CostsAgreeEverywhere == Spec => []CostsAgree
<1>1. IInv => CostsAgree
  <2> SUFFICES ASSUME IInv, NEW p \in Present
               PROVE  LET s == Latest(p) IN
                      /\ p \notin torn /\ s.of = product[p] /\ s.inputs.rate = LatestRate =>
                           Breakdown(product[p]) = Costs(s.inputs)
                      /\ fx # None /\ product[p].duty # None /\ Calculated(product[p]) # None =>
                           Calculated(product[p]) = Breakdown(product[p])
    BY DEF CostsAgree
  <2>1. p \in Ids /\ product[p] # NoRow
    BY DEF Present
  <2>2. ASSUME p \notin torn, Latest(p).of = product[p], Latest(p).inputs.rate = LatestRate
        PROVE  Breakdown(product[p]) = Costs(Latest(p).inputs)
    <3>1. Latest(p).inputs = Inputs(product[p], LatestRate) /\ product[p].cny # 0
      BY <2>1, <2>2, LatestIsShown DEF IInv
    <3> QED
      BY <3>1, BreakdownIsCosts
  <2> QED
    BY <2>2, CalculatedIsBreakdown
<1> QED
  BY <1>1, Safety, PTL

=====
