------------------------------ MODULE MCMarket ------------------------------
(* Imports that are flat, fall, surge in spring, begin anew or stop.         *)
EXTENDS Market

\* log(v + 1) / log(100001) in hundredths, at the volumes that occur.
LogHundredths == [v \in {300, 5500, 50000} |-> IF v = 300 THEN 49 ELSE IF v = 5500 THEN 74 ELSE 93]

April == 12 * 2024 + 3
Span == (April - 24)..(April + 2)
Flat8(m) == 8
Falls(m) == IF m < April - 9 THEN 8 ELSE IF m < April - 3 THEN 4 ELSE 3
Surges(m) == IF m < April - 3 THEN 2 ELSE 9
Begins(m) == IF m < April - 2 THEN 0 ELSE 5
Both(f(_), g(_)) == [c \in Codes |-> [m \in Span |-> IF c = "a" THEN f(m) ELSE g(m)]]
Pairs == {Both(Flat8, Falls), Both(Surges, Falls), Both(Begins, Surges), Both(Begins, Flat8)}

Offers == [c \in Codes |-> IF c = "a" THEN {"x", "y"} ELSE {"y"}]

Usual == [volume |-> 5500, competition |-> 50, listings |-> 100, growth |-> 20,
          customs |-> None, youtube |-> 40, blog |-> None, reviews |-> 10,
          cert |-> FALSE, season |-> 100]
Cases ==
  {Usual, [Usual EXCEPT !.volume = 50000, !.growth = 400, !.competition = 0, !.youtube = 10000],
   [Usual EXCEPT !.volume = 300, !.growth = -80, !.competition = 100, !.blog = -90],
   [Usual EXCEPT !.listings = 300, !.youtube = None, !.reviews = 2000],
   [Usual EXCEPT !.listings = 900, !.cert = TRUE, !.season = 300]}

=============================================================================
