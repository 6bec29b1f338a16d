--------------------------- MODULE ProductScoring ---------------------------
(***************************************************************************)
(* What a product costs, what it earns on each channel and the verdict.    *)
(*                                                                         *)
(*   scoring/revenue.py             landed cost and economics of a channel *)
(*   scoring/product.py             the hundred points and the verdict     *)
(*   scoring/functional_adapter.py  the scorer the products service uses   *)
(*                                                                         *)
(* Everything is a function of one record of inputs: [cny, moq, rate,      *)
(* china, intl, duty, sell, ad], with None for what is not known.  A       *)
(* request gives its price, duty and advertising with decimals: they are   *)
(* counted in parts, Fine of which are one yuan, one percent and one       *)
(* thousandth.  Fees are in thousandths, won are whole, margins, ROI and   *)
(* points are in parts of Scale.                                           *)
(***************************************************************************)
EXTENDS Integers

CONSTANTS
  None,
  Fine,          \* parts of a yuan, a percent, a thousandth that a request may give
  Scale,         \* parts of one a ratio is rounded to (10^4 in the code)
  UnitShipping,  \* DEFAULT_INTL_SHIPPING_PER_UNIT_KRW
  FilingFee,     \* DEFAULT_FILING_FEE_KRW
  PriceFloor,    \* PRICE_FLOOR_KRW
  Budget         \* DEFAULT_BUDGET_KRW

ASSUME ScoringAssumption ==
  /\ Fine \in Nat \ {0} /\ Scale \in Nat /\ Scale >= 100 /\ UnitShipping \in Nat
  /\ FilingFee \in Nat \ {0} /\ PriceFloor \in Nat \ {0} /\ Budget \in Nat \ {0}
  /\ None \notin Int

Channels == {"smartstore", "coupang"}
FeeOf(ch) == IF ch = "smartstore" THEN 55 ELSE 108
AdOf(ch) == IF ch = "smartstore" THEN 100 ELSE 150

Larger(a, b) == IF a >= b THEN a ELSE b
Smaller(a, b) == IF a <= b THEN a ELSE b
Clamp(x) == Larger(0, Smaller(Scale, x))

\* ROUND_HALF_UP of n / d: halves go away from zero.
Rounded(n, d) ==
  IF n >= 0 THEN (2 * n + d) \div (2 * d) ELSE -((d - 2 * n) \div (2 * d))

\* ROUND_HALF_EVEN of n / d, for n that are not negative: halves go to the even neighbour.
RoundedEven(n, d) ==
  IF 2 * n % (2 * d) = d /\ (n \div d) % 2 = 0 THEN n \div d ELSE Rounded(n, d)

-----------------------------------------------------------------------------
(* Landed cost of the whole order *)

Or(x, default) == IF x = None THEN default ELSE x

\* In parts of a won.
Goods(i) == i.cny * i.moq * i.rate
Intl(i) == Or(i.intl, UnitShipping * i.moq)
Duty(i) == Or(i.duty, 8 * Fine)

Cif(i) == Goods(i) + Fine * (Or(i.china, 0) + Intl(i))

Percents == 100 * Fine
Thousandths == 1000 * Fine

\* CIF, duty on it and a tenth of VAT on both, of which a won is TaxedWon.
Taxed(i) == Cif(i) * (Percents + Duty(i)) * 11
TaxedWon == 10 * Percents * Fine

Total(i) == Rounded(Taxed(i) + TaxedWon * FilingFee, TaxedWon)

UnitCost(i) == Rounded(Taxed(i) + TaxedWon * FilingFee, TaxedWon * i.moq)

\* compute_cost_breakdown: the lines the detail page shows.
Costs(i) ==
  [goods |-> Rounded(Goods(i), Fine), china |-> Or(i.china, 0), intl |-> Intl(i),
   cif |-> Rounded(Cif(i), Fine), duty |-> Rounded(Cif(i) * Duty(i), Percents * Fine),
   vat |-> Rounded(Cif(i) * (Percents + Duty(i)), TaxedWon),
   total |-> Total(i), unit |-> UnitCost(i)]

-----------------------------------------------------------------------------
(* One channel *)

\* Three times the goods and the default duty, no matter what duty is paid.
Estimate(i) == Larger(PriceFloor, RoundedEven(3 * i.cny * i.rate * 108, Percents))

Price(i) == IF i.sell # None /\ i.sell > 0 THEN i.sell ELSE Estimate(i)

\* Per unit, of which a won is Thousandths.
Profit(i, ch) ==
  Price(i) * (Thousandths - Fine * FeeOf(ch) - Or(i.ad, Fine * AdOf(ch)))
    - Thousandths * UnitCost(i)

Margin(i, ch) == Rounded(Profit(i, ch) * Scale, Thousandths * Price(i))
Roi(i, ch) == Rounded(Profit(i, ch) * i.moq * Scale, Thousandths * Total(i))

NeverPays == 1000000000

Breakeven(i, ch) ==
  IF Profit(i, ch) > 0
  THEN (Thousandths * Total(i) + Profit(i, ch) - 1) \div Profit(i, ch)
  ELSE NeverPays

\* The first of the greatest, the channels in the order of their names.
Recommended(i) ==
  IF Rounded(Profit(i, "smartstore"), Thousandths) > Rounded(Profit(i, "coupang"), Thousandths)
  THEN "smartstore" ELSE "coupang"

-----------------------------------------------------------------------------
(* Points, in parts of Scale, and the verdict *)

\* The scorer knows no opportunity snapshot: 50 of 100, times 0.4.
OpportunityPoints == 20 * Scale
StabilityPoints == 7 * Scale

RoiNorm(i) == Clamp((Roi(i, "smartstore") + Roi(i, "coupang")) \div 2)
\* Half is full marks: the mean over one half is the sum.
MarginNorm(i) == Clamp(Margin(i, "smartstore") + Margin(i, "coupang"))

ProfitPoints(i) == (35 * (7 * RoiNorm(i) + 3 * MarginNorm(i))) \div 10

\* Full marks up to 30 % of the budget, none from all of it.
BudgetNorm(i) ==
  LET part == (Larger(1, UnitCost(i) * i.moq) * Scale) \div Budget
  IN  Clamp(Scale - ((part - (3 * Scale) \div 10) * 10) \div 7)

ExpectedDemand == 50

\* Full marks up to half the demand of a month, none from twice that.
BreakevenNorm(i) ==
  LET worst == Larger(Breakeven(i, "smartstore"), Breakeven(i, "coupang"))
  IN  IF worst >= 2 * ExpectedDemand THEN 0
      ELSE Clamp(Scale - (((2 * worst - ExpectedDemand) * Scale) \div (3 * ExpectedDemand)))

RiskPoints(i) == (75 * (BudgetNorm(i) + BreakevenNorm(i))) \div 10

Points(i) == OpportunityPoints + ProfitPoints(i) + RiskPoints(i) + StabilityPoints

Verdict(i) ==
  IF Points(i) >= 80 * Scale THEN "GO"
  ELSE IF Points(i) >= 60 * Scale THEN "CONDITIONAL" ELSE "PASS"

=============================================================================
