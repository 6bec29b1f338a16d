------------------------- MODULE OpportunityScoring -------------------------
(***************************************************************************)
(* The hundred points of a keyword and the filters that hide it.           *)
(*                                                                         *)
(*   scoring/opportunity.py  six axes and their sum                        *)
(*   scoring/filters.py      reasons to exclude                            *)
(*                                                                         *)
(* Signals are a record [volume, competition, listings, growth, customs,   *)
(* youtube, blog, reviews, cert, season], None for an optional one that    *)
(* could not be had.  Growths are in percent, competition and season in    *)
(* parts of Scale, listings in thousands, points in parts of Scale.        *)
(***************************************************************************)
EXTENDS Integers

CONSTANTS
  None,
  Scale,      \* parts of one
  LogShare    \* volume -> _log_norm: log(volume + 1) / log(anchor + 1)

ASSUME ScaleAssumption == Scale \in Nat \ {0} /\ None \notin Int
ASSUME LogShareAssumption ==
  \A v \in DOMAIN LogShare : v \in Nat /\ LogShare[v] \in 0..Scale

Least(a, b) == IF a <= b THEN a ELSE b
Most(a, b) == IF a >= b THEN a ELSE b
Clamped(x) == Most(0, Least(Scale, x))

\* A ramp from 0 at "from" to Scale at "from + span".
Ramp(x, from, span) == Clamped(((x - from) * Scale) \div span)

Demand(s) == 25 * LogShare[s.volume]

Growing(s) == 20 * Ramp(s.growth, -10, 60)

\* Below a thousand searches a month nothing, from ten thousand on all of it.
DemandFactor(s) == Ramp(s.volume, 1000, 9000)

\* What is left of the vacancy, in percent, when the shelves are full.
Penalty(s) == IF s.listings > 500 THEN 70 ELSE IF s.listings > 200 THEN 85 ELSE 100

Vacancy(s) == (Clamped(Scale - s.competition) * Penalty(s)) \div 100

Uncrowded(s) == (20 * Vacancy(s) * DemandFactor(s)) \div Scale

\* No statistics count like flat ones.
Imports(s) == IF s.customs = None THEN 10 * Scale ELSE 20 * Ramp(s.customs, -30, 60)

\* The leading signals, each kept between -50 and 200 percent, in the mean.
Capped(g) == Most(-50, Least(200, g))

Trend(s) ==
  LET mean == IF s.youtube = None THEN Capped(s.blog)
              ELSE IF s.blog = None THEN Capped(s.youtube)
              ELSE (Capped(s.youtube) + Capped(s.blog)) \div 2
  IN  IF s.youtube = None /\ s.blog = None THEN 5 * Scale ELSE 10 * Ramp(mean, -50, 250)

Steady(s) == 5 * Scale - Least(5 * Scale, Most(0, s.season - Scale) * 2)

Axes(s) == <<Demand(s), Growing(s), Uncrowded(s), Imports(s), Trend(s), Steady(s)>>
Bounds == <<25, 20, 20, 20, 10, 5>>

Score(s) == Least(100 * Scale, Axes(s)[1] + Axes(s)[2] + Axes(s)[3]
                               + Axes(s)[4] + Axes(s)[5] + Axes(s)[6])

\* Faulty variant: any strong change of the imports excludes.
ReasonsSteep(s) ==
  {r \in {"certification", "seasonality", "redocean", "declining", "demand"} :
     \/ r = "certification" /\ s.cert
     \/ r = "seasonality" /\ 2 * s.season > 5 * Scale
     \/ r = "redocean" /\ s.reviews > 1000
     \/ r = "declining" /\ s.customs # None /\ (s.customs <= -30 \/ s.customs >= 300)
     \/ r = "demand" /\ s.volume < 500}

\* Missing statistics are no reason to exclude.
Reasons(s) ==
  {r \in {"certification", "seasonality", "redocean", "declining", "demand"} :
     \/ r = "certification" /\ s.cert
     \/ r = "seasonality" /\ 2 * s.season > 5 * Scale
     \/ r = "redocean" /\ s.reviews > 1000
     \/ r = "declining" /\ s.customs # None /\ s.customs <= -30
     \/ r = "demand" /\ s.volume < 500}

Excluded(s) == Reasons(s) # {}

=============================================================================
