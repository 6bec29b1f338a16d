---------------------------- MODULE MarketProofs ----------------------------
(***************************************************************************)
(* Proofs about Market, for any codes, trade, signals and length.          *)
(***************************************************************************)
EXTENDS Market, TLAPS, WellFoundedInduction, FiniteSetTheorems

-----------------------------------------------------------------------------
(* Numbers and sets of them *)

\* A set of numbers has a least one.
LEMMA Smallest ==
  ASSUME NEW T, T \subseteq Nat, T # {}
  PROVE  \E x \in T : \A y \in T : x <= y
<1>1. IsWellFoundedOn(OpToRel(<, Nat), Nat)
  BY NatLessThanWellFounded
<1>2. PICK x \in T : \A y \in T : ~(<<y, x>> \in OpToRel(<, Nat))
  BY <1>1, WFMin
<1>3. ASSUME NEW y \in T PROVE x <= y
  <2>1. x \in Nat /\ y \in Nat
    OBVIOUS
  <2>2. y < x => <<y, x>> \in OpToRel(<, Nat)
    BY <2>1 DEF OpToRel
  <2>3. ~(y < x)
    BY <1>2, <2>2
  <2> QED
    BY <2>1, <2>3
<1> QED
  BY <1>3

LEMMA Greatest ==
  ASSUME NEW a \in Int, NEW b \in Int, NEW S, S \subseteq a..b, S # {}
  PROVE  \E m \in S : \A n \in S : n <= m
<1> DEFINE T == {b - m : m \in S}
<1>1. T \subseteq Nat /\ T # {}
  OBVIOUS
<1>2. PICK x \in T : \A y \in T : x <= y
  <2> HIDE DEF T
  <2> QED
    BY <1>1, Smallest
<1>3. PICK m \in S : x = b - m
  BY <1>2
<1>4. ASSUME NEW n \in S PROVE n <= m
  <2>1. x <= b - n
    BY <1>2
  <2>2. m \in Int /\ n \in Int
    OBVIOUS
  <2> QED
    BY <1>3, <2>1, <2>2
<1> QED
  BY <1>4

\* Months between two others are finitely many.
LEMMA FiniteMonths ==
  ASSUME NEW a \in Int, NEW b \in Int, NEW S \in SUBSET (a..b)
  PROVE  IsFiniteSet(S) /\ Cardinality(S) \in Nat
BY FS_Interval, FS_Subset, FS_CardinalityType

Taken(S, k) == \E m \in S : Cardinality(Later(S, m)) = k

\* Every place from the end is taken.
LEMMA Places ==
  ASSUME NEW a \in Int, NEW b \in Int, NEW k \in Nat, NEW S \in SUBSET (a..b), k < Cardinality(S)
  PROVE  Taken(S, k)
<1> DEFINE Lacks(j, R) == j < Cardinality(R) /\ ~Taken(R, j)
           T == {j \in Nat : \E R \in SUBSET (a..b) : Lacks(j, R)}
<1>1. ASSUME T # {} PROVE FALSE
  <2>1. PICK j \in T : \A i \in T : j <= i
    <3>1. T \subseteq Nat
      OBVIOUS
    <3> HIDE DEF T
    <3> QED
      BY <1>1, <3>1, Smallest
  <2>2. PICK R \in SUBSET (a..b) : Lacks(j, R)
    OBVIOUS
  <2>3. IsFiniteSet(R) /\ Cardinality(R) \in Nat /\ j \in Nat /\ j < Cardinality(R)
    BY <2>2, FiniteMonths
  <2>4. R # {}
    BY <2>3, FS_EmptySet
  <2>5. PICK m \in R : \A n \in R : n <= m
    BY <2>4, Greatest
  <2>15. R \subseteq Int
    OBVIOUS
  <2>6. Later(R, m) = {}
    <3>1. \A n \in R : ~(n > m)
      BY <2>5, <2>15
    <3> QED
      BY <3>1 DEF Later
  <2>7. j # 0
    BY <2>2, <2>6, FS_EmptySet DEF Taken
  <2> DEFINE Q == R \ {m}
  <2>8. IsFiniteSet(Q) /\ Cardinality(Q) = Cardinality(R) - 1 /\ Q \in SUBSET (a..b)
    BY <2>3, FS_RemoveElement
  <2>9. j - 1 \in Nat /\ j - 1 < Cardinality(Q)
    BY <2>3, <2>7, <2>8
  <2>10. ~Lacks(j - 1, Q)
    <3>1. j - 1 \notin T
      BY <2>1, <2>3
    <3> HIDE DEF Lacks, Q
    <3> QED
      BY <2>8, <2>9, <3>1
  <2>11. PICK n \in Q : Cardinality(Later(Q, n)) = j - 1
    BY <2>9, <2>10 DEF Taken
  <2>12. Later(R, n) = Later(Q, n) \cup {m} /\ m \notin Later(Q, n)
    <3>1. m > n
      BY <2>5, <2>15
    <3> QED
      BY <3>1 DEF Later
  <2>13. IsFiniteSet(Later(Q, n))
    BY <2>8, FS_Subset DEF Later
  <2>14. Cardinality(Later(R, n)) = j
    <3>1. Cardinality(Later(Q, n) \cup {m}) = Cardinality(Later(Q, n)) + 1
      BY <2>12, <2>13, FS_AddElement
    <3>2. j - 1 + 1 = j
      BY <2>3
    <3> QED
      BY <2>11, <2>12, <3>1, <3>2
  <2> QED
    BY <2>2, <2>14 DEF Taken
<1>2. ~Lacks(k, S)
  BY <1>1
<1> QED
  BY <1>2

LEMMA BackIn ==
  ASSUME NEW a \in Int, NEW b \in Int, NEW k \in Nat, NEW S \in SUBSET (a..b), k < Cardinality(S)
  PROVE  Back(S, k) \in S
<1>1. Taken(S, k)
  BY Places
<1> QED
  BY <1>1 DEF Taken, Back

\* In a row of months without a gap the places are counted back.
LEMMA BackOfRow ==
  ASSUME NEW a \in Int, NEW b \in Int, NEW k \in Nat, k < b - a + 1
  PROVE  Back(a..b, k) = b - k
<1>1. ASSUME NEW m \in a..b PROVE Cardinality(Later(a..b, m)) = b - m
  <2>1. Later(a..b, m) = (m + 1)..b
    BY DEF Later
  <2> QED
    BY <2>1, FS_Interval
<1>2. b - k \in a..b /\ Cardinality(Later(a..b, b - k)) = k
  BY <1>1
<1>3. \A m \in a..b : Cardinality(Later(a..b, m)) = k => m = b - k
  BY <1>1
<1> QED
  BY <1>2, <1>3 DEF Back

-----------------------------------------------------------------------------
(* Sums *)

\* The sums of the first terms of g.
Partial(g, n) ==
  {h \in [0..n -> Nat] : h[0] = 0 /\ \A k \in 1..n : h[k] = h[k - 1] + g[k]}

\* They exist up to any term, and any two such lists agree.
LEMMA PartialExist ==
  ASSUME NEW g \in [Nat -> Nat], NEW m \in Nat
  PROVE  Partial(g, m) # {}
<1> DEFINE T == {n \in Nat : Partial(g, n) = {}}
<1>1. ASSUME T # {} PROVE FALSE
  <2>1. PICK n \in T : \A i \in T : n <= i
    <3>1. T \subseteq Nat
      OBVIOUS
    <3> HIDE DEF T
    <3> QED
      BY <1>1, <3>1, Smallest
  <2>2. n \in Nat /\ Partial(g, n) = {}
    OBVIOUS
  <2>3. CASE n = 0
    <3>1. [k \in 0..0 |-> 0] \in Partial(g, 0)
      BY DEF Partial
    <3> QED
      BY <2>2, <2>3, <3>1
  <2>4. CASE n # 0
    <3>1. n - 1 \in Nat /\ n - 1 \notin T
      BY <2>1, <2>2, <2>4
    <3>2. PICK h : h \in Partial(g, n - 1)
      BY <3>1
    <3>3. h \in [0..(n - 1) -> Nat] /\ h[0] = 0 /\ \A k \in 1..(n - 1) : h[k] = h[k - 1] + g[k]
      BY <3>2 DEF Partial
    <3>4. PICK x \in Nat : x = h[n - 1] + g[n]
      BY <2>2, <3>1, <3>3
    <3> DEFINE e == [k \in 0..n |-> IF k = n THEN x ELSE h[k]]
    <3>5. \A k \in 0..n : k # n => k \in 0..(n - 1)
      BY <2>2, <3>1
    <3>6. e \in [0..n -> Nat] /\ e[0] = 0
      BY <2>2, <2>4, <3>3, <3>5
    <3>7. ASSUME NEW k \in 1..n PROVE e[k] = e[k - 1] + g[k]
      <4>1. k - 1 \in 0..(n - 1) /\ k - 1 # n /\ k - 1 \in 0..n /\ k \in 0..n
        BY <2>2
      <4>2. e[k - 1] = h[k - 1]
        BY <4>1
      <4>3. CASE k = n
        BY <3>4, <4>1, <4>2, <4>3
      <4>4. CASE k # n
        <5>1. k \in 1..(n - 1) /\ e[k] = h[k]
          BY <2>2, <4>1, <4>4
        <5> QED
          BY <3>3, <4>2, <5>1
      <4> QED
        BY <4>3, <4>4
    <3> HIDE DEF e
    <3>8. e \in Partial(g, n)
      BY <3>6, <3>7 DEF Partial
    <3> QED
      BY <2>2, <3>8
  <2> QED
    BY <2>3, <2>4
<1> QED
  BY <1>1

LEMMA PartialAgree ==
  ASSUME NEW g, NEW n \in Nat, NEW h \in Partial(g, n), NEW m \in Nat, NEW e \in Partial(g, m),
         NEW x \in Nat, x <= n, x <= m
  PROVE  h[x] = e[x]
<1> DEFINE T == {k \in Nat : k <= n /\ k <= m /\ h[k] # e[k]}
<1>1. ASSUME T # {} PROVE FALSE
  <2>1. PICK k \in T : \A i \in T : k <= i
    <3>1. T \subseteq Nat
      OBVIOUS
    <3> HIDE DEF T
    <3> QED
      BY <1>1, <3>1, Smallest
  <2>2. k \in Nat /\ k <= n /\ k <= m /\ h[k] # e[k]
    OBVIOUS
  <2>3. k # 0
    BY <2>2 DEF Partial
  <2>4. k - 1 \in Nat /\ k - 1 \notin T /\ k - 1 <= n /\ k - 1 <= m
    BY <2>1, <2>2, <2>3
  <2>5. h[k - 1] = e[k - 1]
    BY <2>4
  <2>6. k \in 1..n /\ k \in 1..m
    BY <2>2, <2>3
  <2>7. h[k] = h[k - 1] + g[k] /\ e[k] = e[k - 1] + g[k]
    BY <2>6 DEF Partial
  <2> QED
    BY <2>2, <2>5, <2>7
<1> QED
  BY <1>1

\* The recursion of a sum has a solution.
LEMMA SumsExist ==
  ASSUME NEW g \in [Nat -> Nat]
  PROVE  \E s \in [Nat -> Nat] : s[0] = 0 /\ \A n \in Nat \ {0} : s[n] = s[n - 1] + g[n]
<1> DEFINE upto(n) == CHOOSE h \in Partial(g, n) : TRUE
           s == [n \in Nat |-> upto(n)[n]]
<1>1. \A n \in Nat : upto(n) \in Partial(g, n)
  BY PartialExist
<1>2. ASSUME NEW n \in Nat PROVE upto(n)[n] \in Nat
  <2>1. upto(n) \in [0..n -> Nat]
    BY <1>1 DEF Partial
  <2>2. n \in 0..n
    OBVIOUS
  <2> HIDE DEF upto
  <2> QED
    BY <2>1, <2>2
<1>3. upto(0)[0] = 0
  BY <1>1 DEF Partial
<1>4. ASSUME NEW n \in Nat \ {0} PROVE upto(n)[n] = upto(n - 1)[n - 1] + g[n]
  <2> HIDE DEF upto
  <2>1. n - 1 \in Nat /\ n \in 1..n
    OBVIOUS
  <2>2. upto(n) \in Partial(g, n) /\ upto(n - 1) \in Partial(g, n - 1)
    BY <1>1, <2>1
  <2>3. upto(n)[n] = upto(n)[n - 1] + g[n]
    BY <2>1, <2>2 DEF Partial
  <2>4. upto(n)[n - 1] = upto(n - 1)[n - 1]
    BY <2>1, <2>2, PartialAgree
  <2> QED
    BY <2>3, <2>4
<1> HIDE DEF upto
<1>5. s \in [Nat -> Nat]
  BY <1>2
<1>6. s[0] = 0 /\ \A n \in Nat \ {0} : s[n] = s[n - 1] + g[n]
  BY <1>3, <1>4
<1> QED
  BY <1>5, <1>6

Amounts(f) == \A n \in DOMAIN f : f[n] \in Nat

\* A sum is a number, of nothing zero, and grows by its last term.
LEMMA TotalStep ==
  ASSUME NEW f, Amounts(f), NEW first \in Int, NEW last \in Int, last >= first - 1
  PROVE  /\ Total(f, first, last) \in Nat
         /\ last = first - 1 => Total(f, first, last) = 0
         /\ last >= first => Total(f, first, last) = Total(f, first, last - 1) + At(f, last)
<1> DEFINE Sums(s) == s = [n \in Nat |-> IF n = 0 THEN 0 ELSE s[n - 1] + At(f, first + n - 1)]
           sums == CHOOSE s : Sums(s)
           g == [n \in Nat |-> At(f, first + n - 1)]
<1>1. g \in [Nat -> Nat]
  BY DEF At, Amounts
<1>2. PICK t \in [Nat -> Nat] : t[0] = 0 /\ \A n \in Nat \ {0} : t[n] = t[n - 1] + g[n]
  <2> HIDE DEF g
  <2> QED
    BY <1>1, SumsExist
<1>3. Sums(t)
  <2>1. \A n \in Nat : g[n] = At(f, first + n - 1)
    OBVIOUS
  <2>2. \A n \in Nat : t[n] = IF n = 0 THEN 0 ELSE t[n - 1] + At(f, first + n - 1)
    <3> HIDE DEF g
    <3> QED
      BY <1>2, <2>1
  <2> QED
    BY <2>2
<1>4. Sums(sums)
  BY <1>3
<1>5. \A x \in Int : Total(f, first, x) = sums[x - first + 1]
  BY DEF Total
<1>6. sums[0] = 0 /\ \A n \in Nat \ {0} : sums[n] = sums[n - 1] + g[n]
  <2> HIDE DEF sums
  <2> QED
    BY <1>4
<1>7. \A n \in Nat : sums[n] \in Nat
  <2> DEFINE T == {n \in Nat : sums[n] \notin Nat}
  <2>1. ASSUME T # {} PROVE FALSE
    <3>1. PICK n \in T : \A i \in T : n <= i
      <4>1. T \subseteq Nat
        OBVIOUS
      <4> HIDE DEF T
      <4> QED
        BY <2>1, <4>1, Smallest
    <3> HIDE DEF sums, g
    <3>2. n # 0
      BY <1>6
    <3>3. n - 1 \in Nat /\ sums[n - 1] \in Nat
      BY <3>1, <3>2
    <3> QED
      BY <1>1, <1>6, <3>2, <3>3
  <2> QED
    BY <2>1
<1> DEFINE n == last - first + 1
<1>8. n \in Nat
  OBVIOUS
<1>9. last >= first => n \in Nat \ {0} /\ n - 1 = (last - 1) - first + 1 /\ g[n] = At(f, last)
  <2>1. last >= first => n \in Nat \ {0} /\ n - 1 = (last - 1) - first + 1 /\ first + n - 1 = last
    OBVIOUS
  <2> QED
    BY <2>1
<1> HIDE DEF sums, g
<1> QED
  BY <1>5, <1>6, <1>7, <1>8, <1>9
-----------------------------------------------------------------------------
(* The calendar *)

\* A month has between 28 and 31 days.
LEMMA DaysBounds ==
  ASSUME NEW m \in Int
  PROVE  \A k \in 0..6 :
           DaysBefore(m, k) \in Nat /\ 28 * k <= DaysBefore(m, k) /\ DaysBefore(m, k) <= 31 * k
<1> DEFINE f == [j \in 1..6 |-> Days(m - j)]
<1>1. \A j \in 1..6 : f[j] \in 28..31 /\ At(f, j) = f[j]
  BY DEF Days, At
<1>2. Amounts(f) /\ DOMAIN f = 1..6
  BY <1>1 DEF Amounts
<1> DEFINE D(k) == Total(f, 1, k)
           Good(k) == D(k) \in Nat /\ 28 * k <= D(k) /\ D(k) <= 31 * k
<1> HIDE DEF f
<1>3. Good(0)
  BY <1>2, TotalStep
<1>4. ASSUME NEW k \in 1..6, Good(k - 1) PROVE Good(k)
  <2>1. D(k) \in Nat /\ D(k) = D(k - 1) + At(f, k)
    BY <1>2, TotalStep
  <2>2. PICK d \in 28..31 : d = At(f, k)
    BY <1>1
  <2> HIDE DEF D
  <2> QED
    BY <1>4, <2>1, <2>2
<1> HIDE DEF Good
<1>5. Good(1)
  BY <1>3, <1>4
<1>6. Good(2)
  BY <1>4, <1>5
<1>7. Good(3)
  BY <1>4, <1>6
<1>8. Good(4)
  BY <1>4, <1>7
<1>9. Good(5)
  BY <1>4, <1>8
<1>10. Good(6)
  BY <1>4, <1>9
<1>11. \A k \in 0..6 : Good(k)
  BY <1>3, <1>5, <1>6, <1>7, <1>8, <1>9, <1>10
<1>12. \A k : DaysBefore(m, k) = D(k)
  BY DEF DaysBefore, f
<1> QED
  BY <1>11, <1>12 DEF Good

\* Where a window begins or ends that is cut so many days before a month.
LEMMA CutOff ==
  ASSUME NEW m \in Int, NEW days \in Nat, NEW low \in 1..6, NEW high \in 1..6,
         days > 31 * (low - 1), days <= 28 * high,
         low = high \/ low + 1 = high
  PROVE  MonthBefore(m, days) \in {m - low, m - high}
<1> DEFINE Cut(k) == DaysBefore(m, k) >= days /\ DaysBefore(m, k - 1) < days
<1>1. \A k \in 0..6 :
        DaysBefore(m, k) \in Nat /\ 28 * k <= DaysBefore(m, k) /\ DaysBefore(m, k) <= 31 * k
  BY DaysBounds
<1>2. DaysBefore(m, high) >= days /\ DaysBefore(m, low - 1) < days
  BY <1>1
<1>3. Cut(low) \/ Cut(high)
  BY <1>1, <1>2
<1>4. ASSUME NEW k \in 1..6, Cut(k) PROVE k \in {low, high}
  <2>1. /\ DaysBefore(m, k) <= 31 * k /\ 28 * (k - 1) <= DaysBefore(m, k - 1)
        /\ DaysBefore(m, k) \in Nat /\ DaysBefore(m, k - 1) \in Nat
    BY <1>1
  <2>2. 31 * k >= days /\ 28 * (k - 1) < days
    BY <1>4, <2>1
  <2>3. k >= low
    BY <2>2
  <2>4. k <= high
    BY <2>2
  <2> QED
    BY <2>3, <2>4
<1> DEFINE cut == CHOOSE k \in 1..6 : Cut(k)
<1>5. cut \in 1..6 /\ Cut(cut)
  BY <1>3
<1>6. cut \in {low, high}
  <2> HIDE DEF Cut, cut
  <2> QED
    BY <1>4, <1>5
<1>7. MonthBefore(m, days) = m - cut
  BY DEF MonthBefore
<1> HIDE DEF cut
<1> QED
  BY <1>6, <1>7

\* The newer window may hold a month more, which is the last of the older; the older
\* holds three at least.
LEMMA WindowsAre ==
  ASSUME now \in Int
  PROVE  /\ RecentStart \in {now - 3, now - 4} /\ Latest = now - 1
         /\ PriorEnd = now - 4 /\ PriorStart \in {now - 6, now - 7}
<1>1. Latest = now - 1 /\ Latest \in Int
  BY DEF Latest
<1>2. MonthBefore(Latest, 62) \in {Latest - 2, Latest - 3}
  BY <1>1, CutOff
<1>3. MonthBefore(Latest, 63) \in {Latest - 3, Latest - 3}
  BY <1>1, CutOff
<1>4. MonthBefore(Latest, 150) \in {Latest - 5, Latest - 6}
  BY <1>1, CutOff
<1> QED
  BY <1>1, <1>2, <1>3, <1>4 DEF RecentStart, PriorEnd, PriorStart

-----------------------------------------------------------------------------
(* The client *)

Clock ==
  /\ now \in Start..(Start + MaxMonths) /\ listed \in {now - 2, now - 1}
  /\ trade \in Trades

LEMMA ClockInts ==
  ASSUME Clock
  PROVE  now \in Int /\ listed \in Int /\ Start \in Int /\ MaxMonths \in Nat
         /\ now >= Start /\ now <= Start + MaxMonths /\ (listed = now - 2 \/ listed = now - 1)
BY MarketAssumption DEF Clock

LEMMA AskedIs ==
  ASSUME now \in Int
  PROVE  /\ Asked = (now - 20)..now /\ DOMAIN Windows = 1..2
         /\ Windows[1] = (now - 10)..now /\ Windows[2] = (now - 20)..(now - 10)
BY DEF Asked, Minus, Middle, Windows

LEMMA TradeNat ==
  ASSUME Clock, NEW c \in Codes, NEW m \in (now - 20)..now
  PROVE  trade[c][m] \in Nat
<1>1. m \in (Start - 24)..(Start + MaxMonths)
  BY ClockInts
<1> QED
  BY <1>1, MarketAssumption DEF Clock

\* The middle month counts twice.
LEMMA AmountIs ==
  ASSUME Clock, NEW c \in Codes, NEW m \in (now - 20)..now
  PROVE  /\ Amount(c, m) \in Nat
         /\ m = now - 10 => Amount(c, m) = 2 * trade[c][m]
         /\ m # now - 10 => Amount(c, m) = trade[c][m]
<1> DEFINE W == {w \in DOMAIN Windows : m \in Windows[w]}
<1>1. now \in Int /\ trade[c][m] \in Nat
  BY ClockInts, TradeNat
<1>2. CASE m = now - 10
  <2>1. W = 1..2
    BY <1>1, <1>2, AskedIs
  <2>2. Cardinality(W) = 2
    <3>1. 1..2 = {1} \cup {2} /\ 2 \notin {1}
      OBVIOUS
    <3>2. IsFiniteSet({1}) /\ Cardinality({1}) = 1
      BY FS_Singleton
    <3>3. Cardinality({1} \cup {2}) = 1 + 1
      BY <3>1, <3>2, FS_AddElement
    <3> HIDE DEF W
    <3> QED
      BY <2>1, <3>1, <3>3
  <2> HIDE DEF W
  <2>3. trade[c][m] * 2 = 2 * trade[c][m] /\ trade[c][m] * 2 \in Nat
    BY <1>1
  <2> QED
    BY <1>2, <2>2, <2>3 DEF Amount, W
<1>3. CASE m # now - 10
  <2>1. PICK w \in 1..2 : W = {w}
    <3>1. CASE m > now - 10
      <4>1. W = {1}
        BY <1>1, <3>1, AskedIs
      <4> QED
        BY <4>1
    <3>2. CASE m < now - 10
      <4>1. W = {2}
        BY <1>1, <3>2, AskedIs
      <4> QED
        BY <4>1
    <3> QED
      BY <1>1, <1>3, <3>1, <3>2
  <2>2. Cardinality(W) = 1
    BY <2>1, FS_Singleton
  <2> HIDE DEF W
  <2>3. trade[c][m] * 1 = trade[c][m]
    BY <1>1
  <2> QED
    BY <1>1, <1>3, <2>2, <2>3 DEF Amount, W
<1> QED
  BY <1>2, <1>3

\* A record comes back for each published month with imports that was asked for.
LEMMA RecordsAre ==
  ASSUME Clock, NEW c \in Codes
  PROVE  /\ Records(c) \in SUBSET ((now - 20)..listed)
         /\ \A m \in Records(c) : m \in (now - 20)..now /\ trade[c][m] \in Nat \ {0}
         /\ \A m \in (now - 20)..listed : trade[c][m] > 0 => m \in Records(c)
<1>1. now \in Int /\ listed \in Int /\ listed <= now - 1 /\ Asked = (now - 20)..now
  BY ClockInts, AskedIs
<1>2. \A m \in (now - 20)..now : trade[c][m] \in Nat
  BY TradeNat
<1>3. \A m \in (now - 20)..listed : m \in (now - 20)..now
  BY <1>1
<1> QED
  BY <1>1, <1>2, <1>3 DEF Records

\* Of the last months every one with imports is stored.
LEMMA StoredAre ==
  ASSUME Clock, NEW c \in Codes
  PROVE  /\ Stored(c) \subseteq Records(c)
         /\ \A m \in (now - 12)..(now - 2) : trade[c][m] > 0 => m \in Stored(c)
<1>1. ASSUME NEW m \in (now - 12)..(now - 2), trade[c][m] > 0 PROVE m \in Stored(c)
  <2>1. now \in Int /\ listed \in Int /\ listed >= now - 2 /\ listed <= now - 1
    BY ClockInts
  <2>2. m \in Records(c)
    BY <1>1, <2>1, RecordsAre
  <2>3. Later(Records(c), m) \subseteq (m + 1)..(now - 1)
    BY <2>1, RecordsAre DEF Later
  <2>4. Cardinality((m + 1)..(now - 1)) = now - 1 - m /\ IsFiniteSet((m + 1)..(now - 1))
    BY <2>1, FS_Interval
  <2>5. Cardinality(Later(Records(c), m)) <= now - 1 - m
        /\ Cardinality(Later(Records(c), m)) \in Nat
    BY <2>3, <2>4, FS_Subset, FS_CardinalityType
  <2>6. Cardinality(Later(Records(c), m)) < 12
    BY <2>1, <2>5
  <2> QED
    BY <2>2, <2>6 DEF Stored
<1> QED
  BY <1>1 DEF Stored

-----------------------------------------------------------------------------
(* Growth *)

LEMMA PercentInt ==
  ASSUME NEW new \in Nat, NEW old \in Nat
  PROVE  Percent(new, old) \in Int /\ (new = old => Percent(new, old) = 0)
<1>1. CASE old = 0
  BY <1>1 DEF Percent
<1>2. CASE old # 0
  <2>1. (new - old) * 100 \in Int /\ (new = old => (new - old) * 100 = 0)
    OBVIOUS
  <2>2. \A x \in Int : x \div old \in Int /\ (x = 0 => x \div old = 0)
    BY <1>2
  <2> QED
    BY <1>2, <2>1, <2>2 DEF Percent
<1> QED
  BY <1>1, <1>2

\* The amounts of the records, numbered from the newest.
LEMMA ValuesAre ==
  ASSUME Clock, NEW c \in Codes
  PROVE  /\ Cardinality(Records(c)) \in Nat /\ Points(Values(c)) = Cardinality(Records(c))
         /\ DOMAIN Values(c) = 0..(Cardinality(Records(c)) - 1) /\ Amounts(Values(c))
         /\ \A k \in DOMAIN Values(c) : Values(c)[k] = Amount(c, Back(Records(c), k))
<1> DEFINE S == Records(c)
           n == Cardinality(S)
<1>1. now \in Int /\ listed \in Int
  BY ClockInts
<1>6. PICK a \in Int : a = now - 20
  BY <1>1
<1>7. S \in SUBSET (a..listed)
  BY <1>6, RecordsAre
<1>2. IsFiniteSet(S) /\ n \in Nat
  BY <1>1, <1>7, FiniteMonths
<1>3. DOMAIN Values(c) = 0..(n - 1) /\ \A k \in 0..(n - 1) : Values(c)[k] = Amount(c, Back(S, k))
  BY DEF Values
<1>4. Points(Values(c)) = n
  <2>1. Cardinality(0..(n - 1)) = n
    <3> HIDE DEF n
    <3>1. n = 0 => 0 > n - 1
      OBVIOUS
    <3> QED
      BY <1>2, <3>1, FS_Interval
  <2> QED
    BY <1>3, <2>1 DEF Points
<1>5. ASSUME NEW k \in 0..(n - 1) PROVE Values(c)[k] \in Nat
  <2>1. k \in Nat /\ k < n
    BY <1>2
  <2>2. Back(S, k) \in S
    <3> HIDE DEF S
    <3> QED
      BY <1>1, <1>7, <2>1, BackIn DEF n
  <2>3. Back(S, k) \in (now - 20)..now
    BY <2>2, RecordsAre
  <2> QED
    BY <1>3, <2>3, AmountIs
<1> QED
  BY <1>2, <1>3, <1>4, <1>5 DEF Amounts

LEMMA GrowthInt ==
  ASSUME Clock, NEW c \in Codes, NEW window \in Nat \ {0}
  PROVE  Growth(Values(c), window) \in Int
<1> DEFINE v == Values(c)
           n == Cardinality(Records(c))
<1>1. n \in Nat /\ Points(v) = n /\ DOMAIN v = 0..(n - 1) /\ Amounts(v)
  BY ValuesAre
<1> SUFFICES Growth(v, window) \in Int
  OBVIOUS
<1> HIDE DEF v, n
<1>2. CASE n < 2 * window
  <2>1. CASE n <= window
    BY <1>1, <1>2, <2>1 DEF Growth, PointGrowth
  <2>2. CASE ~(n <= window)
    <3>1. 0 \in DOMAIN v /\ window \in DOMAIN v
      BY <1>1, <2>2
    <3>2. v[0] \in Nat /\ v[window] \in Nat
      BY <1>1, <3>1 DEF Amounts
    <3>3. Growth(v, window) = Percent(v[0], v[window])
      BY <1>1, <1>2, <2>2 DEF Growth, PointGrowth
    <3> QED
      BY <3>2, <3>3, PercentInt
  <2> QED
    BY <2>1, <2>2
<1>3. CASE ~(n < 2 * window)
  <2>1. Total(v, 0, window - 1) \in Nat /\ Total(v, window, 2 * window - 1) \in Nat
    BY <1>1, TotalStep
  <2>2. Growth(v, window) = Percent(Total(v, 0, window - 1), Total(v, window, 2 * window - 1))
    BY <1>1, <1>3 DEF Growth
  <2> QED
    BY <2>1, <2>2, PercentInt
<1> QED
  BY <1>2, <1>3 DEF v

LEMMA SumOfThree ==
  ASSUME NEW f, Amounts(f), NEW a \in Int
  PROVE  Total(f, a, a + 2) = At(f, a) + At(f, a + 1) + At(f, a + 2)
<1>1. Total(f, a, a - 1) = 0
  BY TotalStep
<1>2. Total(f, a, a) = Total(f, a, a - 1) + At(f, a)
  BY TotalStep
<1>3. Total(f, a, a + 1) = Total(f, a, a + 1 - 1) + At(f, a + 1)
  BY TotalStep
<1>4. Total(f, a, a + 2) = Total(f, a, a + 2 - 1) + At(f, a + 2)
  BY TotalStep
<1>5. a + 1 - 1 = a /\ a + 2 - 1 = a + 1
  OBVIOUS
<1>6. At(f, a) \in Nat /\ At(f, a + 1) \in Nat /\ At(f, a + 2) \in Nat
  BY DEF Amounts, At
<1> QED
  BY <1>1, <1>2, <1>3, <1>4, <1>5, <1>6

\* Flat imports give the same amount everywhere but in the middle month.
LEMMA FlatValues ==
  ASSUME Clock, NEW c \in Codes, Flat(c)
  PROVE  LET v == Values(c) IN
         /\ Amounts(v) /\ Points(v) \in {19, 20} /\ DOMAIN v = 0..(Points(v) - 1)
         /\ \A k \in 0..7 : v[k] = trade[c][Start]
         /\ v[12] = trade[c][Start]
<1> DEFINE x == trade[c][Start]
           n == listed - now + 21
<1>1. /\ now \in Int /\ listed \in Int /\ Start \in Int /\ MaxMonths \in Nat
      /\ now >= Start /\ now <= Start + MaxMonths /\ (listed = now - 2 \/ listed = now - 1)
  BY ClockInts
<1>2. \A m \in (now - 20)..listed : trade[c][m] = x /\ trade[c][m] > 0
  BY <1>1 DEF Flat, Months
<1>3. Records(c) = (now - 20)..listed
  <2>1. (now - 20)..listed \subseteq Records(c)
    BY <1>2, RecordsAre
  <2> QED
    BY <2>1, RecordsAre
<1>4. Cardinality(Records(c)) = n /\ n \in {19, 20}
  BY <1>1, <1>3, FS_Interval
<1>5. Points(Values(c)) = n /\ DOMAIN Values(c) = 0..(n - 1) /\ Amounts(Values(c))
  BY <1>4, ValuesAre
<1>6. ASSUME NEW k \in 0..12, listed - k # now - 10
      PROVE  Values(c)[k] = x
  <2>1. k \in DOMAIN Values(c) /\ k \in Nat /\ k < listed - (now - 20) + 1
    BY <1>1, <1>4, <1>5
  <2>2. Back(Records(c), k) = listed - k
    BY <1>1, <1>3, <2>1, BackOfRow
  <2>3. listed - k \in (now - 20)..listed /\ listed - k \in (now - 20)..now
    BY <1>1
  <2>4. Amount(c, listed - k) = trade[c][listed - k]
    BY <1>6, <2>3, AmountIs
  <2> QED
    BY <1>2, <2>1, <2>2, <2>3, <2>4, ValuesAre
<1>7. \A k \in 0..7 : listed - k # now - 10
  BY <1>1
<1>8. listed - 12 # now - 10
  BY <1>1
<1> HIDE DEF n, x
<1> QED
  BY <1>4, <1>5, <1>6, <1>7, <1>8 DEF x

\* Imports that never change have not grown.
LEMMA FlatGrowth ==
  ASSUME Clock, NEW c \in Codes, Flat(c)
  PROVE  Growth(Values(c), 3) = 0 /\ Growth(Values(c), 12) = 0
<1> DEFINE v == Values(c)
<1>1. PICK x : x = trade[c][Start]
  OBVIOUS
<1>2. /\ Amounts(v) /\ Points(v) \in {19, 20} /\ DOMAIN v = 0..(Points(v) - 1)
      /\ \A k \in 0..7 : v[k] = x
      /\ v[12] = x
  BY <1>1, FlatValues
<1> HIDE DEF v
<1>3. \A k \in 0..12 : k \in DOMAIN v
  BY <1>2
<1>4. x \in Nat
  BY <1>2, <1>3 DEF Amounts
<1>5. Total(v, 0, 2) = At(v, 0) + At(v, 1) + At(v, 2)
  BY <1>2, SumOfThree
<1>6. Total(v, 3, 5) = At(v, 3) + At(v, 4) + At(v, 5)
  BY <1>2, SumOfThree
<1>7. Total(v, 0, 2) = 3 * x /\ Total(v, 3, 5) = 3 * x
  <2>1. \A k \in 0..5 : At(v, k) = x
    BY <1>2, <1>3 DEF At
  <2> QED
    BY <1>4, <1>5, <1>6, <2>1
<1>8. Growth(v, 3) = Percent(Total(v, 0, 2), Total(v, 3, 5))
  BY <1>2 DEF Growth
<1>9. Growth(v, 12) = Percent(v[0], v[12])
  BY <1>2 DEF Growth, PointGrowth
<1>10. 3 * x \in Nat
  BY <1>4
<1>11. Percent(3 * x, 3 * x) = 0 /\ Percent(x, x) = 0
  BY <1>4, <1>10, PercentInt
<1>12. v[0] = x /\ v[12] = x
  BY <1>2
<1> QED
  BY <1>7, <1>8, <1>9, <1>11, <1>12 DEF v

-----------------------------------------------------------------------------
(* Points *)

LEMMA ClampedIs ==
  ASSUME NEW x \in Int
  PROVE  Clamped(x) \in 0..Scale /\ \A y \in Int : x <= y => Clamped(x) <= Clamped(y)
BY ScaleAssumption DEF Clamped, Most, Least

LEMMA RampIs ==
  ASSUME NEW x \in Int, NEW from \in Int, NEW span \in Nat \ {0}
  PROVE  Ramp(x, from, span) \in 0..Scale
<1>1. (x - from) * Scale \in Int
  BY ScaleAssumption
<1>2. \A y \in Int : y \div span \in Int
  OBVIOUS
<1>3. ((x - from) * Scale) \div span \in Int
  BY <1>1, <1>2
<1> QED
  BY <1>3, ClampedIs DEF Ramp

LEMMA ImportsGrow ==
  ASSUME NEW x \in Int, NEW y \in Int, x <= y
  PROVE  Ramp(x, -30, 60) <= Ramp(y, -30, 60)
<1>1. (x + 30) * Scale \in Int /\ (y + 30) * Scale \in Int /\ (x + 30) * Scale <= (y + 30) * Scale
  BY ScaleAssumption
<1>2. \A a, b \in Int : a <= b => a \div 60 \in Int /\ b \div 60 \in Int /\ a \div 60 <= b \div 60
  OBVIOUS
<1>3. PICK a \in Int : a = ((x + 30) * Scale) \div 60
  BY <1>1, <1>2
<1>4. PICK b \in Int : b = ((y + 30) * Scale) \div 60
  BY <1>1, <1>2
<1>5. a <= b
  BY <1>1, <1>2, <1>3, <1>4
<1>6. Ramp(x, -30, 60) = Clamped(a) /\ Ramp(y, -30, 60) = Clamped(b)
  BY <1>3, <1>4 DEF Ramp
<1> QED
  BY <1>5, <1>6, ClampedIs

\* Growth of nothing is worth half of the points.
LEMMA FlatImports == 20 * Ramp(0, -30, 60) = 10 * Scale
<1>1. PICK h \in Nat : Scale = 2 * h
  <2>1. Scale \in Nat /\ Scale = 2 * (Scale \div 2) + (Scale % 2)
    BY ScaleAssumption
  <2>2. Scale % 2 = 0 /\ Scale \div 2 \in Nat
    BY <2>1, SignalsAssumption
  <2> QED
    BY <2>1, <2>2
<1>2. ((0 - (-30)) * Scale) \div 60 = h
  BY <1>1
<1>3. Ramp(0, -30, 60) = Clamped(h)
  BY <1>2 DEF Ramp
<1>4. Clamped(h) = h
  BY <1>1 DEF Clamped, Most, Least
<1> QED
  BY <1>1, <1>3, <1>4

SignalShape(s) ==
  /\ s.volume \in DOMAIN LogShare /\ s.competition \in Int
  /\ s.listings \in Nat /\ s.growth \in Int
  /\ s.youtube \in Int \cup {None} /\ s.blog \in Int \cup {None}
  /\ s.reviews \in Nat /\ s.cert \in BOOLEAN /\ s.season \in Nat

Others(s) == Demand(s) + Growing(s) + Uncrowded(s) + Trend(s) + Steady(s)

LEMMA AxesInt ==
  ASSUME NEW s, SignalShape(s)
  PROVE  /\ Demand(s) \in Int /\ Growing(s) \in Int /\ Uncrowded(s) \in Int
         /\ Trend(s) \in Int /\ Steady(s) \in Int
<1>0. Scale \in Nat \ {0}
  BY ScaleAssumption
<1>1. s.volume \in Int /\ LogShare[s.volume] \in Int
  BY LogShareAssumption, <1>0 DEF SignalShape
<1>2. Demand(s) \in Int
  BY <1>1 DEF Demand
<1>3. Ramp(s.growth, -10, 60) \in 0..Scale
  BY RampIs DEF SignalShape
<1>4. Growing(s) \in Int
  BY <1>0, <1>3 DEF Growing
<1>5. DemandFactor(s) \in 0..Scale
  <2>1. PICK v \in Int : v = s.volume
    BY <1>1
  <2>2. Ramp(v, 1000, 9000) \in 0..Scale
    BY RampIs
  <2> QED
    BY <2>1, <2>2 DEF DemandFactor
<1>6. Clamped(Scale - s.competition) \in 0..Scale
  BY <1>0, ClampedIs DEF SignalShape
<1>7. Vacancy(s) \in Int
  BY <1>0, <1>6 DEF Vacancy, Penalty, SignalShape
<1>8. Uncrowded(s) \in Int
  <2>1. 20 * Vacancy(s) * DemandFactor(s) \in Int
    BY <1>0, <1>5, <1>7
  <2>2. \A x \in Int : x \div Scale \in Int
    BY <1>0
  <2> QED
    BY <2>1, <2>2 DEF Uncrowded
<1>9. Trend(s) \in Int
  <2>1. \A g \in Int : Capped(g) \in Int
    BY DEF Capped, Most, Least
  <2>2. \A m \in Int : Ramp(m, -50, 250) \in 0..Scale
    BY RampIs
  <2>3. \A m \in Int : 10 * Ramp(m, -50, 250) \in Int
    BY <1>0, <2>2
  <2>4. CASE s.youtube = None /\ s.blog = None
    BY <1>0, <2>4 DEF Trend
  <2>5. CASE s.youtube = None /\ s.blog # None
    <3>1. Trend(s) = 10 * Ramp(Capped(s.blog), -50, 250)
      BY <2>5 DEF Trend
    <3> QED
      BY <2>1, <2>3, <2>5, <3>1 DEF SignalShape
  <2>6. CASE s.youtube # None /\ s.blog = None
    <3>1. Trend(s) = 10 * Ramp(Capped(s.youtube), -50, 250)
      BY <2>6 DEF Trend
    <3> QED
      BY <2>1, <2>3, <2>6, <3>1 DEF SignalShape
  <2>7. CASE s.youtube # None /\ s.blog # None
    <3>1. Trend(s) = 10 * Ramp((Capped(s.youtube) + Capped(s.blog)) \div 2, -50, 250)
      BY <2>7 DEF Trend
    <3>2. Capped(s.youtube) \in Int /\ Capped(s.blog) \in Int
      BY <2>1, <2>7 DEF SignalShape
    <3>3. (Capped(s.youtube) + Capped(s.blog)) \div 2 \in Int
      BY <3>2
    <3> QED
      BY <2>3, <3>1, <3>3
  <2> QED
    BY <2>4, <2>5, <2>6, <2>7
<1>10. Steady(s) \in Int
  BY <1>0 DEF Steady, Least, Most, SignalShape
<1> QED
  BY <1>2, <1>4, <1>8, <1>9, <1>10

\* The statistics are one axis, one filter and nothing else.
LEMMA WithGrowth ==
  ASSUME NEW s \in Signals, NEW g \in Int \cup {None}
  PROVE  LET t == With(s, g) IN
         /\ SignalShape(t) /\ t.customs = g
         /\ Others(t) = Others(s) /\ Others(s) \in Int
         /\ Imports(t) \in Int
         /\ Score(t) = Least(100 * Scale, Others(s) + Imports(t))
<1> DEFINE t == With(s, g)
<1>1. s \in [volume: DOMAIN LogShare, competition: Int, listings: Nat, growth: Int,
             customs: Int \cup {None}, youtube: Int \cup {None}, blog: Int \cup {None},
             reviews: Nat, cert: BOOLEAN, season: Nat]
  BY SignalsAssumption
<1>2. /\ t.customs = g /\ t.volume = s.volume /\ t.competition = s.competition
      /\ t.listings = s.listings /\ t.growth = s.growth /\ t.youtube = s.youtube
      /\ t.blog = s.blog /\ t.reviews = s.reviews /\ t.cert = s.cert /\ t.season = s.season
  BY <1>1 DEF With
<1>3. SignalShape(s)
  BY <1>1 DEF SignalShape
<1> HIDE DEF t
<1>4. SignalShape(t)
  BY <1>2, <1>3 DEF SignalShape
<1>5. /\ Demand(t) = Demand(s) /\ Growing(t) = Growing(s)
      /\ Trend(t) = Trend(s) /\ Steady(t) = Steady(s)
  BY <1>2 DEF Demand, Growing, Trend, Steady
<1>6. Uncrowded(t) = Uncrowded(s)
  BY <1>2 DEF Uncrowded, Vacancy, DemandFactor, Penalty
<1>7. Others(t) = Others(s) /\ Others(s) \in Int
  BY <1>3, <1>5, <1>6, AxesInt DEF Others
<1>8. Imports(t) \in Int
  <2>1. CASE g = None
    BY <1>2, <2>1, ScaleAssumption DEF Imports
  <2>2. CASE g # None
    <3>1. Ramp(g, -30, 60) \in 0..Scale
      BY <2>2, RampIs
    <3> QED
      BY <1>2, <2>2, <3>1, ScaleAssumption DEF Imports
  <2> QED
    BY <2>1, <2>2
<1>9. Score(t) = Least(100 * Scale, Others(t) + Imports(t))
  <2>1. Axes(t)[1] + Axes(t)[2] + Axes(t)[3] + Axes(t)[4] + Axes(t)[5] + Axes(t)[6]
          = Demand(t) + Growing(t) + Uncrowded(t) + Imports(t) + Trend(t) + Steady(t)
    BY DEF Axes
  <2>2. Demand(t) + Growing(t) + Uncrowded(t) + Imports(t) + Trend(t) + Steady(t)
          = Others(t) + Imports(t)
    BY <1>4, <1>8, AxesInt DEF Others
  <2> QED
    BY <2>1, <2>2 DEF Score
<1> QED
  BY <1>2, <1>4, <1>7, <1>8, <1>9 DEF t

\* The faster growth is worth no less and excludes no more.
LEMMA GrowthPays ==
  ASSUME NEW s \in Signals, NEW x \in Int, NEW y \in Int, x <= y
  PROVE  /\ Score(With(s, x)) <= Score(With(s, y))
         /\ Excluded(With(s, y)) => Excluded(With(s, x))
<1> DEFINE t == With(s, x)
           u == With(s, y)
<1>1. t.customs = x /\ Imports(t) \in Int /\ Score(t) = Least(100 * Scale, Others(s) + Imports(t))
  BY WithGrowth
<1>2. u.customs = y /\ Imports(u) \in Int /\ Score(u) = Least(100 * Scale, Others(s) + Imports(u))
  BY WithGrowth
<1>3. Others(s) \in Int /\ Scale \in Nat
  BY WithGrowth, ScaleAssumption
<1>4. /\ t.volume = u.volume /\ t.reviews = u.reviews /\ t.cert = u.cert /\ t.season = u.season
  BY SignalsAssumption DEF With
<1> HIDE DEF t, u
<1>5. Imports(t) <= Imports(u)
  <2>1. Ramp(x, -30, 60) \in 0..Scale /\ Ramp(y, -30, 60) \in 0..Scale
    BY RampIs
  <2>2. Imports(t) = 20 * Ramp(x, -30, 60) /\ Imports(u) = 20 * Ramp(y, -30, 60)
    BY <1>1, <1>2, ScaleAssumption DEF Imports
  <2> QED
    BY <1>3, <2>1, <2>2, ImportsGrow
<1>6. Score(t) <= Score(u)
  BY <1>1, <1>2, <1>3, <1>5 DEF Least
<1>7. ASSUME Excluded(u) PROVE Excluded(t)
  <2>1. PICK r : r \in Reasons(u)
    BY <1>7 DEF Excluded
  <2>2. r \in Reasons(t)
    BY <1>1, <1>2, <1>4, <2>1, ScaleAssumption DEF Reasons
  <2> QED
    BY <2>2 DEF Excluded
<1> QED
  BY <1>6, <1>7 DEF t, u

\* No statistics count like no growth.
LEMMA MissingIsFlat ==
  ASSUME NEW s \in Signals
  PROVE  Score(With(s, None)) = Score(With(s, 0))
<1> DEFINE t == With(s, None)
           u == With(s, 0)
<1>1. t.customs = None /\ Score(t) = Least(100 * Scale, Others(s) + Imports(t))
  BY WithGrowth
<1>2. u.customs = 0 /\ Score(u) = Least(100 * Scale, Others(s) + Imports(u))
  BY WithGrowth
<1> HIDE DEF t, u
<1>3. Imports(t) = 10 * Scale
  BY <1>1 DEF Imports
<1>4. Imports(u) = 20 * Ramp(0, -30, 60)
  BY <1>2, ScaleAssumption DEF Imports
<1> QED
  BY <1>1, <1>2, <1>3, <1>4, FlatImports DEF t, u

-----------------------------------------------------------------------------
(* The invariant *)

\* What an answer that was fetched in a month holds: what was imported, the double of it
\* ten months back, and every one of the last months with imports.
Answer(c, month, points) ==
  /\ \A m \in DOMAIN points :
       /\ m \in Int /\ m < month /\ m <= listed
       /\ trade[c][m] \in Nat \ {0}
       /\ IF m = month - 10 THEN points[m] = 2 * trade[c][m] ELSE points[m] = trade[c][m]
  /\ \A m \in (month - 12)..(month - 2) : trade[c][m] > 0 => m \in DOMAIN points

\* A doubled row is one whose repair is still to come.
Row(c, m) ==
  /\ m \in Int /\ m <= listed /\ \E month \in refreshed[c] : m < month
  /\ trade[c][m] \in Nat \ {0}
  /\ \/ stats[c][m] = trade[c][m]
     \/ /\ stats[c][m] = 2 * trade[c][m]
        /\ m + 10 \in refreshed[c] /\ m + 11 \notin refreshed[c]

StatsOK ==
  \A c \in Codes :
    /\ refreshed[c] \subseteq Start..now
    /\ \A m \in DOMAIN stats[c] : Row(c, m)
    /\ \A month \in refreshed[c] : \A m \in (month - 12)..(month - 2) :
         trade[c][m] > 0 => m \in DOMAIN stats[c]

\* No code is fetched twice, and none was refreshed after its answer came.
JobOK ==
  job # None =>
    /\ job.left \subseteq Codes
    /\ \A r \in job.rows :
         /\ r.code \in Codes \ job.left /\ r.month \in Start..now
         /\ \A month \in refreshed[r.code] : month <= r.month
         /\ Answer(r.code, r.month, r.points)
         /\ \A q \in job.rows : q.code = r.code => q = r

Proper(r) == r.code \in Codes /\ r.surge \in Int /\ ~Falling(r.code)

SearchOK ==
  search # None =>
    (\A r \in search.left : Proper(r)) /\ (\A r \in search.scored : Proper(r))

FoundOK == \A t \in DOMAIN found : Proper(found[t])

IInv == Clock /\ StatsOK /\ JobOK /\ SearchOK /\ FoundOK

-----------------------------------------------------------------------------
(* What keeps it *)

LEMMA UpsertIs ==
  ASSUME NEW old, NEW new
  PROVE  /\ DOMAIN Upsert(old, new) = DOMAIN old \cup DOMAIN new
         /\ \A x \in DOMAIN new : Upsert(old, new)[x] = new[x]
         /\ \A x \in DOMAIN old \ DOMAIN new : Upsert(old, new)[x] = old[x]
BY DEF Upsert

LEMMA EmptyIs == DOMAIN <<>> = {}
OBVIOUS

\* What the client returns is an answer of this month.
LEMMA FetchedIs ==
  ASSUME Clock, NEW c \in Codes
  PROVE  Answer(c, now, [m \in Stored(c) |-> Amount(c, m)])
<1>1. now \in Int /\ listed \in Int /\ listed <= now - 1
  BY ClockInts
<1>2. \A m \in Stored(c) :
        m \in (now - 20)..now /\ m \in (now - 20)..listed /\ trade[c][m] \in Nat \ {0}
  BY RecordsAre, StoredAre
<1>3. \A m \in Stored(c) : IF m = now - 10 THEN Amount(c, m) = 2 * trade[c][m]
                                           ELSE Amount(c, m) = trade[c][m]
  BY <1>2, AmountIs
<1>4. \A m \in Stored(c) : m \in Int /\ m < now /\ m <= listed
  BY <1>1, <1>2
<1>5. \A m \in (now - 12)..(now - 2) : trade[c][m] > 0 => m \in Stored(c)
  BY StoredAre
<1> QED
  BY <1>2, <1>3, <1>4, <1>5 DEF Answer

\* An answer renews every doubled row it repairs.
LEMMA Repaired ==
  ASSUME IInv, NEW c \in Codes, NEW M \in Start..now, \A x \in refreshed[c] : x <= M,
         NEW p, Answer(c, M, p)
  PROVE  LET new == Upsert(stats[c], p)
             all == refreshed[c] \cup {M}
         IN  /\ \A m \in DOMAIN new :
                  /\ m \in Int /\ m <= listed /\ \E x \in all : m < x
                  /\ trade[c][m] \in Nat \ {0}
                  /\ \/ new[m] = trade[c][m]
                     \/ new[m] = 2 * trade[c][m] /\ m + 10 \in all /\ m + 11 \notin all
             /\ \A x \in all : \A m \in (x - 12)..(x - 2) : trade[c][m] > 0 => m \in DOMAIN new
<1> DEFINE new == Upsert(stats[c], p)
           all == refreshed[c] \cup {M}
<1>0. /\ DOMAIN new = DOMAIN stats[c] \cup DOMAIN p
      /\ \A m \in DOMAIN p : new[m] = p[m]
      /\ \A m \in DOMAIN stats[c] \ DOMAIN p : new[m] = stats[c][m]
  BY UpsertIs
<1> HIDE DEF new
<1>1. /\ M \in Int /\ now \in Int /\ listed \in Int /\ Start \in Int
      /\ refreshed[c] \subseteq Start..now
  BY ClockInts DEF IInv, StatsOK
<1>2. ASSUME NEW m \in DOMAIN p
      PROVE  /\ m \in Int /\ m <= listed /\ m < M /\ trade[c][m] \in Nat \ {0}
             /\ \/ new[m] = trade[c][m]
                \/ new[m] = 2 * trade[c][m] /\ m + 10 \in all /\ m + 11 \notin all
  <2>1. /\ m \in Int /\ m < M /\ m <= listed /\ trade[c][m] \in Nat \ {0}
        /\ IF m = M - 10 THEN p[m] = 2 * trade[c][m] ELSE p[m] = trade[c][m]
    BY DEF Answer
  <2>2. new[m] = p[m]
    BY <1>0
  <2>3. CASE m = M - 10
    <3>1. m + 10 = M /\ m + 11 > M
      BY <1>1, <2>3
    <3>2. m + 11 \notin refreshed[c]
      BY <1>1, <3>1
    <3> QED
      BY <1>1, <2>1, <2>2, <2>3, <3>1, <3>2
  <2>4. CASE m # M - 10
    BY <2>1, <2>2, <2>4
  <2> QED
    BY <2>1, <2>3, <2>4
<1>3. ASSUME NEW m \in DOMAIN stats[c], m \notin DOMAIN p
      PROVE  /\ m \in Int /\ m <= listed /\ \E x \in all : m < x
             /\ trade[c][m] \in Nat \ {0}
             /\ \/ new[m] = trade[c][m]
                \/ new[m] = 2 * trade[c][m] /\ m + 10 \in all /\ m + 11 \notin all
  <2>1. Row(c, m)
    BY DEF IInv, StatsOK
  <2>2. m \in Int /\ trade[c][m] \in Nat \ {0}
    BY <2>1 DEF Row
  <2>3. new[m] = stats[c][m]
    BY <1>0, <1>3
  <2>4. m + 11 # M
    <3>1. SUFFICES ASSUME m + 11 = M PROVE FALSE
      OBVIOUS
    <3>2. m \in (M - 12)..(M - 2)
      BY <1>1, <2>2, <3>1
    <3> QED
      BY <1>3, <2>2, <3>2 DEF Answer
  <2> QED
    BY <2>1, <2>3, <2>4 DEF Row
<1>5. ASSUME NEW x \in all, NEW m \in (x - 12)..(x - 2), trade[c][m] > 0 PROVE m \in DOMAIN new
  <2>1. CASE x = M
    BY <1>0, <1>5, <2>1 DEF Answer
  <2>2. CASE x \in refreshed[c]
    BY <1>0, <1>5, <2>2 DEF IInv, StatsOK
  <2> QED
    BY <2>1, <2>2
<1>6. M \in all
  OBVIOUS
<1> HIDE DEF all
<1>7. \A m \in DOMAIN new :
        /\ m \in Int /\ m <= listed /\ \E x \in all : m < x
        /\ trade[c][m] \in Nat \ {0}
        /\ \/ new[m] = trade[c][m]
           \/ new[m] = 2 * trade[c][m] /\ m + 10 \in all /\ m + 11 \notin all
  BY <1>0, <1>2, <1>3, <1>6
<1> QED
  BY <1>5, <1>7 DEF new, all

LEMMA SumOfFour ==
  ASSUME NEW f, Amounts(f), NEW a \in Int
  PROVE  Total(f, a, a + 3) = At(f, a) + At(f, a + 1) + At(f, a + 2) + At(f, a + 3)
<1>1. Total(f, a, a + 3) = Total(f, a, a + 3 - 1) + At(f, a + 3)
  BY TotalStep
<1>2. a + 3 - 1 = a + 2
  OBVIOUS
<1> QED
  BY <1>1, <1>2, SumOfThree

\* Imports that fell all the time do not grow by half between the windows.
LEMMA FallingNeverLeaps ==
  ASSUME IInv, NEW c \in Codes, Falling(c), ImportedRecently(c) > 0
  PROVE  Surge(c) < 50
<1>1. /\ now \in Int /\ listed \in Int /\ Start \in Int /\ MaxMonths \in Nat
      /\ now >= Start /\ now <= Start + MaxMonths /\ listed <= now - 1
  BY ClockInts DEF IInv
<1>2. /\ RecentStart \in {now - 3, now - 4} /\ Latest = now - 1
      /\ PriorEnd = now - 4 /\ PriorStart \in {now - 6, now - 7}
  BY <1>1, WindowsAre
<1> DEFINE f == stats[c]
           a(m) == At(f, m)
<1>3. \A m \in DOMAIN f : Row(c, m)
  BY DEF IInv, StatsOK
<1>4. Amounts(f)
  <2>1. ASSUME NEW m \in DOMAIN f PROVE f[m] \in Nat
    <3>1. trade[c][m] \in Nat /\ (f[m] = trade[c][m] \/ f[m] = 2 * trade[c][m])
      BY <1>3 DEF Row
    <3> QED
      BY <3>1
  <2> QED
    BY <2>1 DEF Amounts
<1>5. PICK x \in Int : x = trade[c][now - 4]
  <2>1. now - 4 \in (now - 20)..now
    BY <1>1
  <2>2. trade[c][now - 4] \in Nat
    BY <2>1, TradeNat DEF IInv
  <2> QED
    BY <2>2
<1>6. ASSUME NEW k \in (now - 7)..(now - 1) PROVE a(k) \in Nat /\ a(k) <= trade[c][k]
  <2>1. trade[c][k] \in Nat
    <3>1. k \in (now - 20)..now
      BY <1>1
    <3> QED
      BY <3>1, TradeNat DEF IInv
  <2>2. CASE k \notin DOMAIN f
    BY <2>1, <2>2 DEF At
  <2>3. CASE k \in DOMAIN f
    <3>1. k + 10 \notin refreshed[c]
      BY <1>1 DEF IInv, StatsOK
    <3>2. f[k] = trade[c][k]
      BY <1>3, <2>3, <3>1 DEF Row
    <3> QED
      BY <2>1, <2>3, <3>2 DEF At
  <2> QED
    BY <2>2, <2>3
<1>7. \A k \in (now - 7)..(now - 1) : k \in DOMAIN f => a(k) = trade[c][k]
  <2>1. ASSUME NEW k \in (now - 7)..(now - 1), k \in DOMAIN f PROVE a(k) = trade[c][k]
    <3>1. k + 10 \notin refreshed[c]
      BY <1>1 DEF IInv, StatsOK
    <3> QED
      BY <1>3, <2>1, <3>1 DEF Row, At
  <2> QED
    BY <2>1
<1> DEFINE y(k) == trade[c][k]
<1>8. \A k \in (now - 7)..(now - 2) : y(k) \in Nat /\ y(k + 1) \in Nat /\ y(k + 1) <= y(k)
  <2>1. \A k \in (now - 7)..(now - 2) : k \in Months /\ k + 1 \in Months
    BY <1>1 DEF Months
  <2>2. \A k \in (now - 7)..(now - 2) : k \in (now - 20)..now /\ k + 1 \in (now - 20)..now
    BY <1>1
  <2>3. \A k \in (now - 20)..now : y(k) \in Nat
    BY TradeNat DEF IInv
  <2> QED
    BY <2>1, <2>2, <2>3 DEF Falling
<1>9. PICK k \in (now - 4)..(now - 1) : k \in DOMAIN f /\ y(k) > 0
  <2> SUFFICES ASSUME \A k \in (now - 4)..(now - 1) : ~(k \in DOMAIN f /\ y(k) > 0) PROVE FALSE
    OBVIOUS
  <2>1. \A k \in (now - 4)..(now - 1) : a(k) = 0
    <3>1. ASSUME NEW k \in (now - 4)..(now - 1), k \in DOMAIN f PROVE FALSE
      <4>1. trade[c][k] \in Nat \ {0}
        BY <1>3, <3>1 DEF Row
      <4> QED
        BY <3>1, <4>1
    <3> QED
      BY <3>1 DEF At
  <2> HIDE DEF f
  <2>2. Total(f, now - 3, now - 1) = 0 /\ Total(f, now - 4, now - 1) = 0
    <3>1. PICK b \in Int : b = now - 4
      BY <1>1
    <3>2. now - 3 = b + 1 /\ now - 1 = b + 3
      BY <1>1, <3>1
    <3> QED
      BY <1>1, <1>4, <2>1, <3>1, <3>2, SumOfThree, SumOfFour
  <2> QED
    BY <1>2, <2>2 DEF ImportedRecently, f
<1>10. /\ \A j \in (now - 4)..(now - 1) : y(j) \in Nat /\ y(j) <= x
       /\ \A j \in (now - 7)..(now - 4) : y(j) \in Nat /\ y(j) >= x
  <2>1. PICK b \in Int : b = now - 7
    BY <1>1
  <2>2. \A j \in b..(b + 5) : y(j) \in Nat /\ y(j + 1) \in Nat /\ y(j + 1) <= y(j)
    <3>1. now - 2 = b + 5
      BY <1>1, <2>1
    <3> QED
      BY <1>8, <2>1, <3>1
  <2>3. x = y(b + 3)
    <3>1. now - 4 = b + 3
      BY <1>1, <2>1
    <3> QED
      BY <1>5, <3>1
  <2> HIDE DEF y
  <2>4. y(b + 1) <= y(b) /\ y(b + 2) <= y(b + 1) /\ y(b + 3) <= y(b + 2)
        /\ y(b + 4) <= y(b + 3) /\ y(b + 5) <= y(b + 4) /\ y(b + 6) <= y(b + 5)
        /\ y(b) \in Nat /\ y(b + 1) \in Nat /\ y(b + 2) \in Nat /\ y(b + 3) \in Nat
        /\ y(b + 4) \in Nat /\ y(b + 5) \in Nat /\ y(b + 6) \in Nat
    <3>1. \A j \in {b, b + 1, b + 2, b + 3, b + 4, b + 5} : j \in b..(b + 5)
      OBVIOUS
    <3>2. /\ b + 1 + 1 = b + 2 /\ b + 2 + 1 = b + 3 /\ b + 3 + 1 = b + 4
          /\ b + 4 + 1 = b + 5 /\ b + 5 + 1 = b + 6
      OBVIOUS
    <3> QED
      BY <2>2, <3>1, <3>2
  <2>5. \A j \in (now - 4)..(now - 1) : j \in {b + 3, b + 4, b + 5, b + 6}
    BY <1>1, <2>1
  <2>6. \A j \in (now - 7)..(now - 4) : j \in {b, b + 1, b + 2, b + 3}
    BY <1>1, <2>1
  <2> QED
    BY <2>3, <2>4, <2>5, <2>6
<1>11. x > 0
  BY <1>9, <1>10
<1>12. now - 4 \in DOMAIN f /\ now - 5 \in DOMAIN f /\ now - 6 \in DOMAIN f
  <2>1. PICK month \in refreshed[c] : k < month
    BY <1>3, <1>9 DEF Row
  <2>2. month \in Int /\ month <= now
    BY <1>1 DEF IInv, StatsOK
  <2>3. \A m \in (month - 12)..(month - 2) : trade[c][m] > 0 => m \in DOMAIN f
    BY DEF IInv, StatsOK
  <2>4. now - 5 \in (month - 12)..(month - 2) /\ now - 6 \in (month - 12)..(month - 2)
    BY <1>1, <1>9, <2>1, <2>2
  <2>5. y(now - 4) > 0 /\ y(now - 5) > 0 /\ y(now - 6) > 0
    <3>1. now - 4 \in (now - 7)..(now - 4) /\ now - 5 \in (now - 7)..(now - 4)
          /\ now - 6 \in (now - 7)..(now - 4)
      BY <1>1
    <3> HIDE DEF y
    <3> QED
      BY <1>10, <1>11, <3>1
  <2>6. CASE month = now - 3
    <3>1. k = now - 4
      BY <1>1, <1>9, <2>1, <2>6
    <3> QED
      BY <1>9, <2>3, <2>4, <2>5, <3>1
  <2>7. CASE month # now - 3
    <3>1. now - 4 \in (month - 12)..(month - 2)
      BY <1>1, <1>9, <2>1, <2>2, <2>7
    <3> QED
      BY <2>3, <2>4, <2>5, <3>1
  <2> QED
    BY <2>6, <2>7
<1>13. /\ \A j \in (now - 4)..(now - 1) : a(j) \in Nat /\ a(j) <= x
       /\ \A j \in (now - 6)..(now - 4) : a(j) \in Nat /\ a(j) >= x
       /\ a(now - 7) \in Nat
  <2>1. \A j \in (now - 4)..(now - 1) : j \in (now - 7)..(now - 1)
    BY <1>1
  <2>2. \A j \in (now - 6)..(now - 4) :
          /\ j \in {now - 4, now - 5, now - 6}
          /\ j \in (now - 7)..(now - 1) /\ j \in (now - 7)..(now - 4)
    BY <1>1
  <2>3. now - 7 \in (now - 7)..(now - 1)
    BY <1>1
  <2> HIDE DEF f, a
  <2>4. \A j \in (now - 6)..(now - 4) : a(j) = y(j)
    BY <1>7, <1>12, <2>2
  <2>5. \A j \in (now - 4)..(now - 1) : a(j) \in Nat /\ a(j) <= x
    <3>1. \A j \in (now - 4)..(now - 1) : a(j) \in Nat /\ a(j) <= y(j)
      BY <1>6, <2>1
    <3> HIDE DEF y
    <3> QED
      BY <1>10, <3>1
  <2> QED
    BY <1>6, <1>10, <2>2, <2>3, <2>4, <2>5
<1> HIDE DEF f
<1>14. PICK b \in Int : now = b + 7
  <2>1. now - 7 \in Int /\ now = now - 7 + 7
    BY <1>1
  <2> QED
    BY <2>1
<1>15. /\ Total(f, b + 4, b + 6) = a(b + 4) + a(b + 5) + a(b + 6)
       /\ Total(f, b + 3, b + 6) = a(b + 3) + a(b + 4) + a(b + 5) + a(b + 6)
       /\ Total(f, b + 1, b + 3) = a(b + 1) + a(b + 2) + a(b + 3)
       /\ Total(f, b, b + 3) = a(b) + a(b + 1) + a(b + 2) + a(b + 3)
  <2>1. b + 4 + 1 = b + 5 /\ b + 4 + 2 = b + 6 /\ b + 3 + 1 = b + 4 /\ b + 3 + 2 = b + 5
        /\ b + 3 + 3 = b + 6 /\ b + 1 + 1 = b + 2 /\ b + 1 + 2 = b + 3
    OBVIOUS
  <2>2. Total(f, b, b + 3) = a(b) + a(b + 1) + a(b + 2) + a(b + 3)
    BY <1>4, SumOfFour
  <2>3. b + 1 \in Int /\ Total(f, b + 1, b + 1 + 2) = a(b + 1) + a(b + 1 + 1) + a(b + 1 + 2)
    BY <1>4, SumOfThree
  <2>4. Total(f, b + 3, b + 3 + 3) = a(b + 3) + a(b + 3 + 1) + a(b + 3 + 2) + a(b + 3 + 3)
    BY <1>4, SumOfFour
  <2>5. Total(f, b + 4, b + 4 + 2) = a(b + 4) + a(b + 4 + 1) + a(b + 4 + 2)
    BY <1>4, SumOfThree
  <2> HIDE DEF a
  <2> QED
    BY <2>1, <2>2, <2>3, <2>4, <2>5
<1> HIDE DEF a
<1>16. /\ a(b) \in Nat /\ a(b + 1) \in Nat /\ a(b + 2) \in Nat /\ a(b + 3) \in Nat
       /\ a(b + 4) \in Nat /\ a(b + 5) \in Nat /\ a(b + 6) \in Nat
       /\ a(b + 1) >= x /\ a(b + 2) >= x /\ a(b + 3) >= x
       /\ a(b + 3) <= x /\ a(b + 4) <= x /\ a(b + 5) <= x /\ a(b + 6) <= x
  <2>1. /\ \A j \in {b + 1, b + 2, b + 3} : j \in (now - 6)..(now - 4)
        /\ \A j \in {b + 3, b + 4, b + 5, b + 6} : j \in (now - 4)..(now - 1)
        /\ now - 7 = b
    BY <1>14
  <2> QED
    BY <1>13, <2>1
<1>17. PICK R \in Nat : R = ImportedRecently(c) /\ R <= 4 * x
  <2>1. RecentStart = b + 4 \/ RecentStart = b + 3
    BY <1>2, <1>14
  <2>2. Latest = b + 6
    BY <1>2, <1>14
  <2> QED
    BY <1>15, <1>16, <2>1, <2>2 DEF ImportedRecently, f
<1>18. PICK P \in Nat : P = ImportedBefore(c) /\ P >= 3 * x
  <2>1. PriorStart = b \/ PriorStart = b + 1
    BY <1>2, <1>14
  <2>2. PriorEnd = b + 3
    BY <1>2, <1>14
  <2> QED
    BY <1>11, <1>15, <1>16, <2>1, <2>2 DEF ImportedBefore, f
<1>19. Surge(c) = ((R - P) * 100) \div P /\ P # 0
  BY <1>11, <1>17, <1>18 DEF Surge
<1>20. (R - P) * 100 < 50 * P /\ (R - P) * 100 \in Int
  BY <1>11, <1>17, <1>18
<1>21. \A i \in Int : i < 50 * P => i \div P < 50
  BY <1>19
<1> QED
  BY <1>19, <1>20, <1>21

LEMMA SurgeInt ==
  ASSUME IInv, NEW c \in Codes
  PROVE  Surge(c) \in Int
<1>1. now \in Int
  BY ClockInts DEF IInv
<1>2. Amounts(stats[c])
  <2>1. ASSUME NEW m \in DOMAIN stats[c] PROVE stats[c][m] \in Nat
    <3>1. trade[c][m] \in Nat /\ (stats[c][m] = trade[c][m] \/ stats[c][m] = 2 * trade[c][m])
      BY DEF IInv, StatsOK, Row
    <3> QED
      BY <3>1
  <2> QED
    BY <2>1 DEF Amounts
<1>3. \A a, b \in Int : b >= a - 1 => Total(stats[c], a, b) \in Nat
  BY <1>2, TotalStep
<1>4. ImportedRecently(c) \in Nat /\ ImportedBefore(c) \in Nat
  <2>1. /\ RecentStart \in Int /\ Latest \in Int /\ Latest >= RecentStart - 1
        /\ PriorEnd \in Int /\ PriorStart \in Int /\ PriorEnd >= PriorStart - 1
    BY <1>1, WindowsAre
  <2> QED
    BY <1>3, <2>1 DEF ImportedRecently, ImportedBefore
<1>5. \A x \in Int, y \in Nat \ {0} : (x * 100) \div y \in Int
  OBVIOUS
<1> QED
  BY <1>4, <1>5 DEF Surge

LEMMA Begins == ASSUME Init PROVE IInv
<1>1. Clock
  BY MarketAssumption DEF Init, Clock
<1>2. \A c \in Codes : DOMAIN stats[c] = {} /\ refreshed[c] = {}
  BY EmptyIs DEF Init
<1>3. StatsOK
  BY <1>2 DEF StatsOK
<1>4. JobOK /\ SearchOK
  BY DEF Init, JobOK, SearchOK
<1>5. FoundOK
  BY EmptyIs DEF Init, FoundOK
<1> QED
  BY <1>1, <1>3, <1>4, <1>5 DEF IInv

\* What was imported never changes; what is published only grows.
LEMMA AnswersStay ==
  ASSUME NEW c, NEW month, NEW points, Answer(c, month, points), trade' = trade,
         listed \in Int, listed' \in Int, listed' >= listed
  PROVE  Answer(c, month, points)'
BY DEF Answer

LEMMA RowsStay ==
  ASSUME NEW c, NEW m, Row(c, m), trade' = trade, stats' = stats, refreshed' = refreshed,
         listed \in Int, listed' \in Int, listed' >= listed
  PROVE  Row(c, m)'
BY DEF Row

LEMMA ProperStays ==
  ASSUME NEW r, Proper(r), trade' = trade
  PROVE  Proper(r)'
BY DEF Proper, Falling

LEMMA FoundStays == ASSUME FoundOK, trade' = trade, found' = found PROVE FoundOK'
<1>1. \A t \in DOMAIN found : Proper(found[t])
  BY DEF FoundOK
<1>2. ASSUME NEW t \in DOMAIN found PROVE Proper(found[t])'
  BY <1>1 DEF Proper, Falling
<1> QED
  BY <1>2 DEF FoundOK

LEMMA SearchStays == ASSUME SearchOK, trade' = trade, search' = search PROVE SearchOK'
BY ProperStays DEF SearchOK

LEMMA StatsStay ==
  ASSUME StatsOK, Clock, now' \in Int, now' >= now, listed' \in Int, listed' >= listed,
         trade' = trade, stats' = stats, refreshed' = refreshed
  PROVE  StatsOK'
<1>1. now \in Int /\ listed \in Int /\ Start \in Int
  BY ClockInts
<1>2. ASSUME NEW c \in Codes, NEW m \in DOMAIN stats[c] PROVE Row(c, m)'
  BY <1>1, RowsStay DEF StatsOK
<1>3. \A c \in Codes : refreshed[c] \subseteq Start..now'
  BY <1>1 DEF StatsOK
<1> QED
  BY <1>2, <1>3 DEF StatsOK

LEMMA JobStays ==
  ASSUME JobOK, Clock, now' \in Int, now' >= now, listed' \in Int, listed' >= listed,
         trade' = trade, job' = job, refreshed' = refreshed
  PROVE  JobOK'
<1>1. now \in Int /\ listed \in Int /\ Start \in Int
  BY ClockInts
<1> SUFFICES ASSUME job' # None
             PROVE  /\ job.left \subseteq Codes
                    /\ \A r \in job.rows :
                         /\ r.code \in Codes \ job.left /\ r.month \in Start..now'
                         /\ \A month \in refreshed[r.code] : month <= r.month
                         /\ Answer(r.code, r.month, r.points)'
                         /\ \A q \in job.rows : q.code = r.code => q = r
  BY DEF JobOK
<1>2. ASSUME NEW r \in job.rows PROVE Answer(r.code, r.month, r.points)'
  BY <1>1, AnswersStay DEF JobOK
<1>3. \A r \in job.rows : r.month \in Start..now'
  BY <1>1 DEF JobOK
<1> QED
  BY <1>2, <1>3 DEF JobOK

\* The job: to begin, to fetch and to lose a run changes nothing that is committed.
LEMMA CollectKeeps ==
  ASSUME IInv, BeginCollect \/ LoseRun \/ \E c \in Codes : FetchCode(c)
  PROVE  IInv'
<1>1. UNCHANGED <<now, listed, trade, stats, refreshed, found, search>>
  BY DEF BeginCollect, LoseRun, FetchCode
<1>2. now \in Int /\ listed \in Int /\ Clock /\ StatsOK /\ JobOK /\ SearchOK /\ FoundOK
  BY ClockInts DEF IInv
<1>3. Clock'
  BY <1>1, <1>2 DEF Clock
<1>4. StatsOK' /\ SearchOK' /\ FoundOK'
  BY <1>1, <1>2, StatsStay, SearchStays, FoundStays
<1>5. JobOK'
  <2>1. CASE BeginCollect
    BY <2>1 DEF BeginCollect, JobOK
  <2>2. CASE LoseRun
    BY <2>2 DEF LoseRun, JobOK
  <2>3. ASSUME NEW c \in Codes, FetchCode(c) PROVE JobOK'
    <3>1. PICK answer \in {{}, {Fetched(c)}} :
            job' = [left |-> job.left \ {c}, rows |-> job.rows \cup answer]
      BY <2>3 DEF FetchCode
    <3>2. job # None /\ c \in job.left
      BY <2>3 DEF FetchCode
    <3>3. job'.left = job.left \ {c} /\ job'.rows = job.rows \cup answer
      BY <3>1
    <3>4. job'.left \subseteq Codes
      BY <1>2, <3>2, <3>3 DEF JobOK
    <3> DEFINE Good(r) ==
          /\ r.code \in Codes \ (job.left \ {c}) /\ r.month \in Start..now
          /\ \A month \in refreshed[r.code] : month <= r.month
          /\ Answer(r.code, r.month, r.points)
    <3>5. \A r \in job.rows : Good(r) /\ r.code # c
      BY <1>2, <3>2 DEF JobOK
    <3>6. ASSUME NEW r \in answer PROVE Good(r) /\ r.code = c /\ r = Fetched(c)
      <4>1. r = Fetched(c)
        OBVIOUS
      <4>2. r.code = c /\ r.month = now /\ r.points = [m \in Stored(c) |-> Amount(c, m)]
        BY <4>1 DEF Fetched
      <4>3. Answer(c, now, [m \in Stored(c) |-> Amount(c, m)])
        BY <1>2, FetchedIs
      <4>4. now \in Start..now /\ \A month \in refreshed[c] : month <= now
        BY <1>2, ClockInts DEF StatsOK
      <4>5. Answer(r.code, r.month, r.points)
        BY <4>2, <4>3
      <4> QED
        BY <4>1, <4>2, <4>4, <4>5
    <3>7. \A r \in job'.rows : Good(r)
      <4> HIDE DEF Good
      <4> QED
        BY <3>3, <3>5, <3>6
    <3>8. \A r, q \in job'.rows : q.code = r.code => q = r
      <4>1. \A r, q \in job.rows : q.code = r.code => q = r
        BY <1>2, <3>2 DEF JobOK
      <4> HIDE DEF Good
      <4> QED
        BY <3>3, <3>5, <3>6, <4>1
    <3>9. \A r : Answer(r.code, r.month, r.points)' <=> Answer(r.code, r.month, r.points)
      BY <1>1 DEF Answer
    <3> QED
      BY <1>1, <3>3, <3>4, <3>7, <3>8, <3>9 DEF JobOK
  <2> QED
    BY <2>1, <2>2, <2>3
<1> QED
  BY <1>3, <1>4, <1>5 DEF IInv

\* The one commit: each code with an answer is renewed, the others stay.
LEMMA CommitKeeps == ASSUME IInv, CommitStats PROVE IInv'
<1>1. UNCHANGED <<now, listed, trade, found, search>> /\ job' = None /\ job # None
  BY DEF CommitStats
<1>2. now \in Int /\ listed \in Int /\ Clock /\ StatsOK /\ JobOK /\ SearchOK /\ FoundOK
  BY ClockInts DEF IInv
<1>3. Clock' /\ JobOK' /\ SearchOK' /\ FoundOK'
  BY <1>1, <1>2, SearchStays, FoundStays DEF Clock, JobOK
<1>4. ASSUME NEW c \in Codes
      PROVE  /\ refreshed'[c] \subseteq Start..now
             /\ \A m \in DOMAIN stats'[c] : Row(c, m)'
             /\ \A month \in refreshed'[c] : \A m \in (month - 12)..(month - 2) :
                  trade[c][m] > 0 => m \in DOMAIN stats'[c]
  <2>1. refreshed'[c] = refreshed[c] \cup {r.month : r \in RowsOf(c)}
    BY DEF CommitStats
  <2>2. stats'[c] = IF RowsOf(c) = {} THEN stats[c]
                    ELSE Upsert(stats[c], (CHOOSE r \in RowsOf(c) : TRUE).points)
    BY DEF CommitStats
  <2>3. CASE RowsOf(c) = {}
    <3>1. stats'[c] = stats[c] /\ refreshed'[c] = refreshed[c]
      BY <2>1, <2>2, <2>3
    <3>2. \A m \in DOMAIN stats[c] : Row(c, m)
      BY <1>2 DEF StatsOK
    <3>3. ASSUME NEW m, Row(c, m) PROVE Row(c, m)'
      BY <1>1, <3>1, <3>3 DEF Row
    <3> QED
      BY <1>2, <3>1, <3>2, <3>3 DEF StatsOK
  <2>4. CASE RowsOf(c) # {}
    <3>1. PICK r : r = CHOOSE q \in RowsOf(c) : TRUE
      OBVIOUS
    <3>2. r \in job.rows /\ r.code = c
      BY <2>4, <3>1 DEF RowsOf
    <3>3. \A q \in RowsOf(c) : q = r
      BY <1>1, <1>2, <3>2 DEF JobOK, RowsOf
    <3>4. PICK p : p = r.points
      OBVIOUS
    <3>5. PICK M \in Start..now : M = r.month
      BY <1>1, <1>2, <3>2 DEF JobOK
    <3>6. Answer(c, M, p) /\ \A x \in refreshed[c] : x <= M
      BY <1>1, <1>2, <3>2, <3>4, <3>5 DEF JobOK
    <3>7. stats'[c] = Upsert(stats[c], p)
      BY <2>2, <2>4, <3>1, <3>4
    <3>8. refreshed'[c] = refreshed[c] \cup {M}
      BY <2>1, <3>2, <3>3, <3>5 DEF RowsOf
    <3>9. /\ \A m \in DOMAIN stats'[c] :
               /\ m \in Int /\ m <= listed /\ \E x \in refreshed'[c] : m < x
               /\ trade[c][m] \in Nat \ {0}
               /\ \/ stats'[c][m] = trade[c][m]
                  \/ /\ stats'[c][m] = 2 * trade[c][m]
                     /\ m + 10 \in refreshed'[c] /\ m + 11 \notin refreshed'[c]
          /\ \A x \in refreshed'[c] : \A m \in (x - 12)..(x - 2) :
               trade[c][m] > 0 => m \in DOMAIN stats'[c]
      BY <3>6, <3>7, <3>8, Repaired
    <3>10. \A m \in DOMAIN stats'[c] : Row(c, m)'
      BY <1>1, <3>9 DEF Row
    <3>11. refreshed'[c] \subseteq Start..now
      BY <1>2, <3>5, <3>8 DEF StatsOK
    <3> QED
      BY <3>9, <3>10, <3>11
  <2> QED
    BY <2>3, <2>4
<1>5. StatsOK'
  BY <1>1, <1>4 DEF StatsOK
<1> QED
  BY <1>3, <1>5 DEF IInv

\* Discovery: only codes that do not fall are searched, mined and saved.
LEMMA SearchKeeps ==
  ASSUME IInv, BeginSearch \/ Mine \/ SaveCandidates \/ AbortSearch
  PROVE  IInv'
<1>1. UNCHANGED <<now, listed, trade, stats, job, refreshed>>
  BY DEF BeginSearch, Mine, SaveCandidates, AbortSearch
<1>2. now \in Int /\ listed \in Int /\ Clock /\ StatsOK /\ JobOK /\ SearchOK /\ FoundOK
  BY ClockInts DEF IInv
<1>3. Clock'
  BY <1>1, <1>2 DEF Clock
<1>4. StatsOK' /\ JobOK'
  BY <1>1, <1>2, StatsStay, JobStays
<1>5. SearchOK' /\ FoundOK'
  <2>1. CASE BeginSearch
    <3>1. PICK top \in TopCodes :
            search' = [left |-> {[code |-> c, value |-> ImportedRecently(c), surge |-> Surge(c)] :
                                   c \in top},
                       seen |-> {}, scored |-> {}] /\ found' = found
      BY <2>1 DEF BeginSearch
    <3>2. search'.left = {[code |-> c, value |-> ImportedRecently(c), surge |-> Surge(c)] :
                            c \in top} /\ search'.scored = {}
      BY <3>1
    <3>3. ASSUME NEW c \in top
          PROVE  Proper([code |-> c, value |-> ImportedRecently(c), surge |-> Surge(c)])
      <4>1. c \in Codes /\ ImportedRecently(c) > 0 /\ Surge(c) >= 50
        BY DEF TopCodes, Risen
      <4>2. Surge(c) \in Int
        BY <4>1, SurgeInt
      <4>3. ~(Surge(c) < 50)
        BY <4>1, <4>2
      <4>4. ~Falling(c)
        BY <4>1, <4>3, FallingNeverLeaps
      <4> QED
        BY <4>1, <4>2, <4>4 DEF Proper
    <3>4. \A r \in search'.left : Proper(r)
      BY <3>2, <3>3
    <3> QED
      BY <1>1, <1>2, <3>1, <3>2, <3>4, ProperStays, FoundStays DEF SearchOK
  <2>2. CASE Mine
    <3>1. PICK r \in search.left : \E terms \in {{}, Tokens[r.code]} :
            \E volume \in [terms \ search.seen -> Volumes \cup {None}] :
              LET kept == {t \in terms \ search.seen : volume[t] # None /\ volume[t] >= 500}
              IN search' = [left |-> search.left \ {r}, seen |-> search.seen \cup terms,
                            scored |-> search.scored \cup {Candidate(r, t) : t \in kept}]
      BY <2>2 DEF Mine
    <3>2. search # None /\ found' = found
      BY <2>2 DEF Mine
    <3>3. Proper(r)
      BY <1>2, <3>2 DEF SearchOK
    <3>4. search'.left \subseteq search.left
          /\ \A q \in search'.scored : q \in search.scored \/ \E t : q = Candidate(r, t)
      BY <3>1
    <3>5. \A t : Proper(Candidate(r, t))
      BY <3>3 DEF Proper, Candidate
    <3>6. (\A q \in search'.left : Proper(q)) /\ (\A q \in search'.scored : Proper(q))
      BY <1>2, <3>2, <3>4, <3>5 DEF SearchOK
    <3> QED
      BY <1>1, <1>2, <3>2, <3>6, ProperStays, FoundStays DEF SearchOK
  <2>3. CASE SaveCandidates
    <3> DEFINE of(t) == CHOOSE r \in search.scored : r.term = t
               new == [t \in {r.term : r \in search.scored} |->
                         [code |-> of(t).code, surge |-> of(t).surge]]
    <3>1. search # None /\ search' = None /\ found' = Upsert(found, new)
      BY <2>3 DEF SaveCandidates
    <3>2. ASSUME NEW t \in DOMAIN new PROVE Proper(new[t])
      <4>1. /\ t \in {r.term : r \in search.scored}
            /\ new[t] = [code |-> of(t).code, surge |-> of(t).surge]
        OBVIOUS
      <4>2. of(t) \in search.scored
        BY <4>1
      <4>3. Proper(of(t))
        BY <1>2, <3>1, <4>2 DEF SearchOK
      <4> HIDE DEF new, of
      <4>4. new[t].code = of(t).code /\ new[t].surge = of(t).surge
        BY <4>1
      <4> QED
        BY <4>3, <4>4 DEF Proper
    <3> HIDE DEF new, of
    <3>3. /\ DOMAIN Upsert(found, new) = DOMAIN found \cup DOMAIN new
          /\ \A x \in DOMAIN new : Upsert(found, new)[x] = new[x]
          /\ \A x \in DOMAIN found \ DOMAIN new : Upsert(found, new)[x] = found[x]
      BY UpsertIs
    <3>4. ASSUME NEW t \in DOMAIN found' PROVE Proper(found'[t])
      <4>1. CASE t \in DOMAIN new
        <5>1. found'[t] = new[t]
          BY <3>1, <3>3, <4>1
        <5> QED
          BY <3>2, <4>1, <5>1
      <4>2. CASE t \notin DOMAIN new
        <5>1. t \in DOMAIN found /\ found'[t] = found[t]
          BY <3>1, <3>3, <4>2
        <5> QED
          BY <1>2, <5>1 DEF FoundOK
      <4> QED
        BY <4>1, <4>2
    <3>5. FoundOK'
      BY <1>1, <3>4, ProperStays DEF FoundOK, Proper, Falling
    <3> QED
      BY <3>1, <3>5 DEF SearchOK
  <2>4. CASE AbortSearch
    <3>1. search' = None /\ found' = found
      BY <2>4 DEF AbortSearch
    <3> QED
      BY <1>1, <1>2, <3>1, FoundStays DEF SearchOK
  <2> QED
    BY <2>1, <2>2, <2>3, <2>4
<1> QED
  BY <1>3, <1>4, <1>5 DEF IInv

LEMMA TimeKeeps == ASSUME IInv, NextMonth \/ Publish PROVE IInv'
<1>1. UNCHANGED <<trade, stats, job, refreshed, found, search>>
  BY DEF NextMonth, Publish
<1>2. Clock /\ StatsOK /\ JobOK /\ SearchOK /\ FoundOK
  BY DEF IInv
<1>3. Clock' /\ now' \in Int /\ now' >= now /\ listed' \in Int /\ listed' >= listed
  BY <1>1, <1>2, ClockInts DEF Clock, NextMonth, Publish
<1> QED
  BY <1>1, <1>2, <1>3, StatsStay, JobStays, SearchStays, FoundStays DEF IInv

LEMMA StutterKeeps == ASSUME IInv, UNCHANGED vars PROVE IInv'
<1>1. /\ now' = now /\ listed' = listed /\ trade' = trade /\ stats' = stats /\ job' = job
      /\ refreshed' = refreshed /\ found' = found /\ search' = search
  BY DEF vars
<1>2. now \in Int /\ listed \in Int /\ Clock /\ StatsOK /\ JobOK /\ SearchOK /\ FoundOK
  BY ClockInts DEF IInv
<1>3. Clock'
  BY <1>1, <1>2 DEF Clock
<1> QED
  BY <1>1, <1>2, <1>3, StatsStay, JobStays, SearchStays, FoundStays DEF IInv

\* What each run has fetched, committed or searched agrees with the trade, in every state.
THEOREM Invariant == Spec => []IInv
<1>1. Init => IInv
  BY Begins
<1>2. IInv /\ [Next]_vars => IInv'
  BY CollectKeeps, CommitKeeps, SearchKeeps, TimeKeeps, StutterKeeps DEF Next
<1> QED
  BY <1>1, <1>2, PTL DEF Spec

-----------------------------------------------------------------------------
(* Theorems *)

\* collect_customs.py: what is stored was published and is positive; a run keeps to the
\* codes of hs_codes, and so do the candidates of discover_seeds.py.
THEOREM MarketTyped == Spec => []TypeOK
<1>1. ASSUME IInv PROVE TypeOK
  <2>1. \A c \in Codes : \A m \in DOMAIN stats[c] : m <= listed /\ stats[c][m] \in Nat \ {0}
    <3>1. ASSUME NEW c \in Codes, NEW m \in DOMAIN stats[c]
          PROVE  m <= listed /\ stats[c][m] \in Nat \ {0}
      <4>1. Row(c, m)
        BY <1>1 DEF IInv, StatsOK
      <4>2. \A x \in Nat \ {0} : 2 * x \in Nat \ {0}
        OBVIOUS
      <4> QED
        BY <4>1, <4>2 DEF Row
    <3> QED
      BY <3>1
  <2>2. job = None \/ job.left \subseteq Codes
    BY <1>1 DEF IInv, JobOK
  <2>3. \A t \in DOMAIN found : found[t].code \in Codes /\ found[t].surge \in Int
    BY <1>1 DEF IInv, FoundOK, Proper
  <2> QED
    BY <1>1, <2>1, <2>2, <2>3 DEF TypeOK, IInv, Clock
<1> QED
  BY <1>1, Invariant, PTL

\* clients/customs.py asks for the middle month twice: a stored row is what was imported,
\* or the double of it until a run in the month after repairs it.
THEOREM StatsFollowTrade == Spec => []StatsOfTrade
<1>1. ASSUME IInv PROVE StatsOfTrade
  BY <1>1 DEF IInv, StatsOK, Row, StatsOfTrade
<1> QED
  BY <1>1, Invariant, PTL

\* _window_avg_growth: imports that never change have not grown, whatever is published.
THEOREM FlatStaysFlat == Spec => []FlatTradeIsFlat
<1>1. ASSUME IInv PROVE FlatTradeIsFlat
  BY <1>1, FlatGrowth DEF IInv, FlatTradeIsFlat
<1> QED
  BY <1>1, Invariant, PTL

\* discover_seeds.py: a code whose imports fell all the time never gives a candidate, though
\* the newer window may hold four months and share one with the older.
THEOREM FallingNeverFound == Spec => []NoFallingCandidate
<1>1. ASSUME IInv PROVE NoFallingCandidate
  BY <1>1 DEF IInv, FoundOK, Proper, NoFallingCandidate
<1> QED
  BY <1>1, Invariant, PTL

\* scoring/opportunity.py: the faster growth never scores less nor excludes, and no
\* statistics count like flat ones.
THEOREM GrowthNeverHurts == Spec => []BetterTradeNeverHurts
<1>1. ASSUME IInv PROVE BetterTradeNeverHurts
  <2> DEFINE growth == [c \in Codes |-> Growth(Values(c), 3)]
  <2>1. \A c \in Codes : growth[c] \in Int
    BY <1>1, GrowthInt DEF IInv
  <2>2. \A c \in Codes : Flat(c) => growth[c] = 0
    BY <1>1, FlatGrowth DEF IInv
  <2> SUFFICES ASSUME NEW s \in Signals, NEW b \in Codes, NEW c \in Codes
               PROVE  /\ growth[b] <= growth[c] =>
                           /\ Score(With(s, growth[b])) <= Score(With(s, growth[c]))
                           /\ Excluded(With(s, growth[c])) => Excluded(With(s, growth[b]))
                      /\ Flat(c) => Score(With(s, None)) = Score(With(s, growth[c]))
    BY DEF BetterTradeNeverHurts
  <2> HIDE DEF growth
  <2>3. PICK x \in Int : x = growth[b]
    BY <2>1
  <2>4. PICK y \in Int : y = growth[c]
    BY <2>1
  <2> QED
    BY <2>2, <2>3, <2>4, GrowthPays, MissingIsFlat
<1> QED
  BY <1>1, Invariant, PTL
=============================================================================
