---------------------------- MODULE MCProducts ----------------------------
(* Amounts in hundreds of won.  One page, with a keyword whose HS code is    *)
(* mapped twice; tiers for light orders in both methods, for heavier ones in *)
(* one, for the heaviest in none.  Prices, duties, shares and weights are in *)
(* halves, of which the columns hold whole ones.                             *)
EXTENDS Products, TLC

OnePage == [u \in Urls |-> "cup"]
WholeOnes == [f \in Decimals |-> 2]

Unchanged == [f \in Fields |-> None]
Patch(f, x) == [Unchanged EXCEPT ![f] = x]
Order(cny, patch) ==
  [f \in Fields \cup {"cny"} |-> IF f = "cny" THEN cny ELSE patch[f]]

\* One and a half yuan, which the column rounds to two.
FineOrder == {Order(3, [Patch("moq", 2) EXCEPT !.weight = 6, !.intl = 70])}

\* The first one gives a duty of half a percent, which the column rounds to one.
TwoPatches ==
  {[Patch("duty", 1) EXCEPT !.intl = 50, !.ad = 0],
   [Patch("weight", 2) EXCEPT !.moq = 6, !.method = "lcl", !.sell = 0]}

Tiers ==
  {[method |-> "lcl", max |-> 10, price |-> 200], [method |-> "lcl", max |-> 24, price |-> 350],
   [method |-> "sea_self", max |-> 12, price |-> 150], [method |-> "sea_self", max |-> 6, price |-> 120]}

MappedCup == [k \in {"cup"} |->
  {[hs |-> "731823", confidence |-> 2], [hs |-> "730000", confidence |-> 1]}]
NoHint == [k \in {"cup"} |-> None]
Tariff == [h \in {"731823", "730000", "230910"} |->
  IF h = "731823" THEN 26 ELSE IF h = "730000" THEN 6 ELSE None]
CupPrice == [k \in {"cup"} |-> 900]

Threads == Permutations(Workers)

===========================================================================
