------------------------- MODULE TranslationProofs -------------------------
(***************************************************************************)
(* The budget of the month, for any terms, lengths, budget and bounds.     *)
(***************************************************************************)
EXTENDS Translation, TLAPS

\* What a process is about to reserve.
Reserving(p) == IF At(p, "reserve") THEN Length[run[p].asked] ELSE 0

\* The counter and what is about to be reserved stay within one term of the budget:
\* whoever has read it last still fits, the other takes one term more at most.
Bounded ==
  /\ used + Reserving(Api) + Reserving(Scheduler) <= Budget + Longest
  /\ ~uncounted => sent = used

\* The part of TypeOK about the runs.
RunsTyped ==
  /\ run \in [Processes -> Runs \cup {None}]
  /\ \A p \in Processes : run[p] # None =>
       /\ run[p].left \cap run[p].done = {}
       /\ (run[p].asked = None <=> run[p].phase = "read")
       /\ run[p].asked \notin run[p].left \cup run[p].done

Inv == TypeOK /\ Bounded

-----------------------------------------------------------------------------

\* What a run is at the time of a reservation.
LEMMA AtReserve ==
  ASSUME TypeOK, NEW p \in Processes, NEW phase \in {"reserve", "send"}, At(p, phase)
  PROVE  run[p] \in Runs /\ run[p].asked \in Keywords /\ Length[run[p].asked] \in 1..Longest
<1>1. run[p] \in Runs /\ run[p] # None /\ run[p].phase # "read"
  BY DEF TypeOK, At
<1>2. run[p].asked \in Keywords
  BY <1>1 DEF TypeOK, Runs
<1> QED BY <1>1, <1>2, TranslationAssumption

\* A process reserves nothing, or no more than the longest term.
LEMMA ReservingBounds == TypeOK => \A p \in Processes : Reserving(p) \in 0..Longest
<1> SUFFICES ASSUME TypeOK, NEW p \in Processes PROVE Reserving(p) \in 0..Longest
  OBVIOUS
<1>1. CASE At(p, "reserve")
  <2>1. Length[run[p].asked] \in 1..Longest
    BY <1>1, AtReserve
  <2> QED BY <1>1, <2>1 DEF Reserving
<1>2. CASE ~At(p, "reserve")
  BY <1>2, TranslationAssumption DEF Reserving
<1> QED BY <1>1, <1>2

\* The rest of a run when a term is asked for, or done with, is a run.
LEMMA AsksTyped ==
  ASSUME TypeOK, NEW p \in Processes, NEW k \in Keywords, NEW phase \in {"reserve", "send"},
         At(p, "read"), Oldest(p, k), Asks(p, k, phase)
  PROVE  RunsTyped'
<1>1. run[p] \in Runs /\ run[p] # None
  BY DEF TypeOK, At
<1>2. run'[p] = [run[p] EXCEPT !.left = @ \ {k}, !.asked = k, !.phase = phase]
  BY <1>1 DEF TypeOK, Asks
<1>3. run'[p] \in Runs /\ run'[p].left = run[p].left \ {k} /\ run'[p].asked = k
      /\ run'[p].phase = phase /\ run'[p].done = run[p].done
  BY <1>1, <1>2 DEF Runs
<1>4. k \notin run[p].done /\ k # None
  BY <1>1, NoneAssumption DEF TypeOK, Oldest
<1>5. run' = [run EXCEPT ![p] = run'[p]]
  BY <1>2 DEF Asks, TypeOK
<1> QED BY <1>1, <1>3, <1>4, <1>5 DEF TypeOK, RunsTyped

LEMMA DoneTyped ==
  ASSUME TypeOK, NEW p \in Processes, NEW found, found \subseteq {run[p].asked} \ Silent,
         At(p, "send"), Done(p, found)
  PROVE  RunsTyped'
<1>1. run[p] \in Runs /\ run[p] # None /\ run[p].asked \in Keywords
  BY AtReserve DEF TypeOK, At
<1>2. run'[p] = [run[p] EXCEPT !.done = @ \cup found, !.asked = None, !.phase = "read"]
  BY <1>1 DEF TypeOK, Done
<1>3. run'[p] \in Runs /\ run'[p].left = run[p].left /\ run'[p].asked = None
      /\ run'[p].phase = "read" /\ run'[p].done = run[p].done \cup found
  BY <1>1, <1>2 DEF Runs
<1>4. None \notin Keywords /\ run[p].asked \notin run[p].left
  BY <1>1, NoneAssumption DEF TypeOK
<1>5. run' = [run EXCEPT ![p] = run'[p]]
  BY <1>2 DEF Done, TypeOK
<1>6. run'[p].left \cap run'[p].done = {} /\ None \notin run'[p].left \cup run'[p].done
  BY <1>1, <1>3, <1>4 DEF TypeOK, Runs
<1> QED BY <1>1, <1>3, <1>5, <1>6 DEF TypeOK, RunsTyped

\* A run that goes on to its request keeps the rest.
LEMMA SendTyped ==
  ASSUME TypeOK, NEW p \in Processes, At(p, "reserve"),
         run' = [run EXCEPT ![p].phase = "send"]
  PROVE  RunsTyped'
<1>1. run[p] \in Runs /\ run[p] # None /\ run[p].phase = "reserve"
  BY DEF TypeOK, At
<1>2. run'[p] = [run[p] EXCEPT !.phase = "send"]
  BY <1>1 DEF TypeOK
<1>3. run'[p] \in Runs /\ run'[p].left = run[p].left /\ run'[p].asked = run[p].asked
      /\ run'[p].phase = "send" /\ run'[p].done = run[p].done
  BY <1>1, <1>2 DEF Runs
<1>4. run' = [run EXCEPT ![p] = run'[p]]
  BY <1>2 DEF TypeOK
<1> QED BY <1>1, <1>3, <1>4 DEF TypeOK, RunsTyped

\* So does a run that ends.
LEMMA EndTyped ==
  ASSUME TypeOK, NEW p \in Processes, run' = [run EXCEPT ![p] = None]
  PROVE  RunsTyped'
BY DEF TypeOK, RunsTyped

LEMMA CommitTyped ==
  ASSUME TypeOK, NEW p \in Processes, run[p] # None, Commit(p)
  PROVE  chinese' \subseteq Keywords \ Silent
<1>1. run[p] \in Runs
  BY DEF TypeOK
<1> QED BY <1>1 DEF Commit, TypeOK, Runs

LEMMA TypeInit == Init => TypeOK
BY TranslationAssumption DEF Init, TypeOK

\* TypeOK is inductive.
LEMMA TypeStep == TypeOK /\ [Next]_vars => TypeOK'
<1> SUFFICES ASSUME TypeOK, [Next]_vars PROVE TypeOK'
  OBVIOUS
<1> USE TranslationAssumption
<1>1. ASSUME NEW p \in Processes, Begin(p) PROVE TypeOK'
  <2>1. run'[p] \in Runs /\ run'[p].done = {} /\ run'[p].asked = None
        /\ run'[p].phase = "read" /\ run'[p].left \subseteq Keywords
    BY <1>1 DEF Begin, Batch, Runs, TypeOK
  <2>2. run' = [run EXCEPT ![p] = run'[p]]
    BY <1>1 DEF Begin, TypeOK
  <2> QED BY <1>1, <2>1, <2>2, NoneAssumption DEF Begin, TypeOK
<1>2. ASSUME NEW p \in Processes, Stop(p) PROVE TypeOK'
  <2>1. RunsTyped' /\ chinese' \subseteq Keywords \ Silent
    BY <1>2, EndTyped, CommitTyped DEF Stop, Commit, At
  <2> QED BY <1>2, <2>1 DEF Stop, TypeOK, RunsTyped
<1>3. ASSUME NEW p \in Processes, ReadBudget(p) PROVE TypeOK'
  <2>1. RunsTyped'
    BY <1>3, AsksTyped DEF ReadBudget
  <2> QED BY <1>3, <2>1 DEF ReadBudget, TypeOK, RunsTyped
<1>4. ASSUME NEW p \in Processes, Reserve(p) PROVE TypeOK'
  <2>1. Length[run[p].asked] \in Nat
    BY <1>4, AtReserve DEF Reserve
  <2>2. RunsTyped'
    BY <1>4, SendTyped DEF Reserve
  <2> QED BY <1>4, <2>1, <2>2 DEF Reserve, TypeOK, RunsTyped
<1>5. ASSUME NEW p \in Processes, Failed(p) PROVE TypeOK'
  <2>1. RunsTyped'
    BY <1>5, DoneTyped DEF Failed
  <2> QED BY <1>5, <2>1 DEF Failed, TypeOK, RunsTyped
<1>6. ASSUME NEW p \in Processes, Finish(p) PROVE TypeOK'
  <2>1. RunsTyped' /\ chinese' \subseteq Keywords \ Silent
    BY <1>6, EndTyped, CommitTyped DEF Finish, Commit, At
  <2> QED BY <1>6, <2>1 DEF Finish, TypeOK, RunsTyped
<1>7. ASSUME NEW p \in Processes, NEW k \in Keywords, Answered(p, k) PROVE TypeOK'
  <2>1. RunsTyped'
    BY <1>7, DoneTyped DEF Answered
  <2> QED BY <1>7, <2>1 DEF Answered, TypeOK, RunsTyped
<1>8. ASSUME NEW p \in Processes, SkipRead(p) PROVE TypeOK'
  <2>1. RunsTyped'
    BY <1>8, AsksTyped DEF SkipRead
  <2> QED BY <1>8, <2>1 DEF SkipRead, Troubled, TypeOK, RunsTyped
<1>9. ASSUME NEW p \in Processes, SkipReserve(p) PROVE TypeOK'
  <2>1. Length[run[p].asked] \in Nat
    BY <1>9, AtReserve DEF SkipReserve
  <2>2. RunsTyped'
    BY <1>9, SendTyped DEF SkipReserve
  <2> QED BY <1>9, <2>1, <2>2 DEF SkipReserve, Troubled, TypeOK, RunsTyped
<1>10. ASSUME NEW p \in Processes, Refused(p) PROVE TypeOK'
  <2>1. RunsTyped' /\ chinese' \subseteq Keywords \ Silent
    BY <1>10, EndTyped, CommitTyped DEF Refused, Commit, At
  <2> QED BY <1>10, <2>1 DEF Refused, Troubled, TypeOK, RunsTyped
<1>11. ASSUME NEW p \in Processes, LoseRun(p) PROVE TypeOK'
  <2>1. RunsTyped'
    BY <1>11, EndTyped DEF LoseRun
  <2> QED BY <1>11, <2>1 DEF LoseRun, Troubled, TypeOK, RunsTyped
<1>12. ASSUME NewMonth PROVE TypeOK'
  <2>1. ASSUME NEW p \in Processes, At(p, "reserve")
        PROVE  /\ run'[p] \in Runs /\ run'[p].left = run[p].left /\ run'[p].asked = run[p].asked
               /\ run'[p].phase = "send" /\ run'[p].done = run[p].done
    <3>1. run[p] \in Runs
      BY <2>1 DEF TypeOK, At
    <3>2. run'[p] = [run[p] EXCEPT !.phase = "send"]
      BY <1>12, <2>1 DEF NewMonth
    <3> QED BY <3>1, <3>2 DEF Runs
  <2>2. ASSUME NEW p \in Processes, ~At(p, "reserve") PROVE run'[p] = run[p]
    BY <1>12, <2>2 DEF NewMonth
  <2>3. \A p \in Processes : run'[p] \in Runs \cup {None}
    BY <2>1, <2>2 DEF TypeOK
  <2>4. run' \in [Processes -> Runs \cup {None}]
    BY <1>12, <2>3 DEF NewMonth
  <2> QED BY <1>12, <2>1, <2>2, <2>4 DEF NewMonth, TypeOK, At
<1>13. CASE UNCHANGED vars
  BY <1>13 DEF vars, TypeOK
<1> QED
  BY <1>1, <1>2, <1>3, <1>4, <1>5, <1>6, <1>7, <1>8, <1>9, <1>10, <1>11, <1>12, <1>13 DEF Next, Work

\* Runs hold terms to ask for and translations, in any state (TypeOK).
THEOREM Typed == Spec => []TypeOK
<1>1. Init => TypeOK
  BY TypeInit
<1>2. TypeOK /\ [Next]_vars => TypeOK'
  BY TypeStep
<1> QED BY <1>1, <1>2, PTL DEF Spec

-----------------------------------------------------------------------------

\* The two processes, either way round.
LEMMA Pair ==
  ASSUME NEW p \in Processes
  PROVE  \E q \in Processes :
           p # q /\ ((p = Api /\ q = Scheduler) \/ (p = Scheduler /\ q = Api))
<1>1. Api # Scheduler /\ Api \in Processes /\ Scheduler \in Processes
  BY TranslationAssumption DEF Processes
<1>2. p = Api \/ p = Scheduler
  BY DEF Processes
<1> QED BY <1>1, <1>2

LEMMA BoundedPair ==
  ASSUME Inv, NEW p \in Processes, NEW q \in Processes,
         (p = Api /\ q = Scheduler) \/ (p = Scheduler /\ q = Api)
  PROVE  /\ used \in Nat /\ sent \in Nat
         /\ Reserving(p) \in 0..Longest /\ Reserving(q) \in 0..Longest
         /\ used + Reserving(p) + Reserving(q) <= Budget + Longest
<1>1. Reserving(Api) \in 0..Longest /\ Reserving(Scheduler) \in 0..Longest
  BY ReservingBounds DEF Inv, Processes
<1>2. used \in Nat /\ sent \in Nat
  BY DEF Inv, TypeOK
<1>3. used + Reserving(Api) + Reserving(Scheduler) <= Budget + Longest
  BY DEF Inv, Bounded
<1> QED BY <1>1, <1>2, <1>3, TranslationAssumption

\* A step of one process: it is enough to look at what that one is about to reserve.
LEMMA OneProcess ==
  ASSUME Inv, NEW p \in Processes, NEW n \in 0..Longest, Reserving(p)' = n,
         \A q \in Processes \ {p} : run'[q] = run[q],
         used' \in Nat,
         used' + n <= Budget \/ used' + n <= used + Reserving(p),
         ~uncounted' => sent' = used'
  PROVE  Bounded'
<1>1. PICK q \in Processes : p # q /\ ((p = Api /\ q = Scheduler) \/ (p = Scheduler /\ q = Api))
  BY Pair
<1>2. Reserving(q)' = Reserving(q)
  BY <1>1 DEF Reserving, At
<1>3. /\ used \in Nat /\ Reserving(p) \in 0..Longest /\ Reserving(q) \in 0..Longest
      /\ used + Reserving(p) + Reserving(q) <= Budget + Longest
  BY <1>1, BoundedPair
<1>4. used' + n + Reserving(q) <= Budget + Longest
  <2>1. Longest \in Nat /\ Budget \in Nat /\ n \in Nat
    BY TranslationAssumption
  <2>2. CASE used' + n <= Budget
    <3>1. Reserving(q) \in Nat /\ Reserving(q) <= Longest
      BY <1>3, <2>1
    <3>2. \A u, m, r, b, l \in Nat : u + m <= b /\ r <= l => u + m + r <= b + l
      OBVIOUS
    <3> QED BY <2>1, <2>2, <3>1, <3>2
  <2>3. CASE used' + n <= used + Reserving(p)
    BY <1>3, <2>1, <2>3
  <2> QED BY <2>2, <2>3
<1>5. used' + Reserving(Api)' + Reserving(Scheduler)' <= Budget + Longest
  <2>1. CASE p = Api /\ q = Scheduler
    BY <1>2, <1>4, <2>1
  <2>2. CASE p = Scheduler /\ q = Api
    BY <1>2, <1>3, <1>4, <2>2, TranslationAssumption
  <2> QED BY <1>1, <2>1, <2>2
<1> QED BY <1>5 DEF Bounded

\* A step that leaves the counters alone, and after which the process reserves nothing.
LEMMA LessReserved ==
  ASSUME Inv, NEW p \in Processes, UNCHANGED <<used, sent, uncounted>>,
         \A q \in Processes \ {p} : run'[q] = run[q],
         run'[p] = None \/ run'[p].phase # "reserve"
  PROVE  Bounded'
<1>1. Reserving(p)' = 0
  BY DEF Reserving, At
<1>2. used \in Nat /\ Reserving(p) \in 0..Longest
  BY ReservingBounds DEF Inv, TypeOK
<1>3. used' \in Nat /\ used' + 0 <= used + Reserving(p) /\ 0 \in 0..Longest
  BY <1>2, TranslationAssumption
<1>4. ~uncounted' => sent' = used'
  BY DEF Inv, Bounded
<1> QED BY <1>1, <1>3, <1>4, OneProcess

\* Inv is inductive.
LEMMA BoundedStep == Inv /\ [Next]_vars => Bounded'
<1> SUFFICES ASSUME Inv, [Next]_vars PROVE Bounded'
  OBVIOUS
<1> USE DEF Inv
<1>0. TypeOK' /\ run \in [Processes -> Runs \cup {None}]
  BY TypeStep DEF TypeOK
<1>1. ASSUME NEW p \in Processes, Begin(p) PROVE Bounded'
  BY <1>0, <1>1, LessReserved DEF Begin
<1>2. ASSUME NEW p \in Processes, Stop(p) \/ Finish(p) PROVE Bounded'
  BY <1>0, <1>2, LessReserved DEF Stop, Finish, Commit
<1>3. ASSUME NEW p \in Processes, ReadBudget(p) PROVE Bounded'
  <2>1. PICK k \in Keywords : ~Exceeds(k) /\ Asks(p, k, "reserve")
    BY <1>3 DEF ReadBudget
  <2>2. run[p] \in Runs /\ run[p] # None
    BY <1>0, <1>3 DEF ReadBudget, At
  <2>3. run'[p] = [run[p] EXCEPT !.left = @ \ {k}, !.asked = k, !.phase = "reserve"]
    BY <1>0, <2>1 DEF Asks
  <2>4. run'[p] # None /\ run'[p].phase = "reserve" /\ run'[p].asked = k
    <3>1. run'[p] \in Runs
      BY <2>2, <2>3 DEF Runs
    <3> QED BY <2>2, <2>3, <3>1, NoneAssumption DEF Runs
  <2>5. Reserving(p)' = Length[k] /\ Length[k] \in 0..Longest
    BY <2>4, TranslationAssumption DEF Reserving, At
  <2>6. used' = used /\ used \in Nat /\ used' + Length[k] <= Budget
    <3>1. ~(used + Length[k] > Budget) /\ used' = used /\ used \in Nat
      BY <1>3, <2>1 DEF ReadBudget, Exceeds, TypeOK
    <3> QED BY <3>1, <2>5, TranslationAssumption
  <2>7. ~uncounted' => sent' = used'
    BY <1>3 DEF ReadBudget, Bounded
  <2>8. \A q \in Processes \ {p} : run'[q] = run[q]
    BY <1>0, <2>1 DEF Asks
  <2> QED BY <2>5, <2>6, <2>7, <2>8, OneProcess
<1>4. ASSUME NEW p \in Processes, Reserve(p) PROVE Bounded'
  <2>1. Length[run[p].asked] \in 1..Longest /\ Reserving(p) = Length[run[p].asked]
    BY <1>4, AtReserve DEF Reserve, Reserving
  <2>2. run[p] \in Runs
    BY <1>0, <1>4 DEF Reserve, At
  <2>3. run'[p].phase = "send"
    BY <1>0, <1>4, <2>2 DEF Reserve, Runs
  <2>4. Reserving(p)' = 0
    BY <2>3 DEF Reserving, At
  <2>5. used' \in Nat /\ used' + 0 <= used + Reserving(p) /\ 0 \in 0..Longest
    BY <1>4, <2>1, TranslationAssumption DEF Reserve, TypeOK
  <2>6. ~uncounted' => sent' = used'
    BY <1>4 DEF Reserve, Bounded
  <2>7. \A q \in Processes \ {p} : run'[q] = run[q]
    BY <1>0, <1>4 DEF Reserve
  <2> QED BY <2>4, <2>5, <2>6, <2>7, OneProcess
<1>5. ASSUME NEW p \in Processes, NEW found, At(p, "send"), Done(p, found),
             UNCHANGED <<used, sent, uncounted>>
      PROVE  Bounded'
  <2>1. run[p] \in Runs
    BY <1>0, <1>5 DEF At
  <2>2. run'[p].phase = "read" /\ \A q \in Processes \ {p} : run'[q] = run[q]
    BY <1>0, <1>5, <2>1 DEF Done, Runs
  <2> QED BY <1>5, <2>2, LessReserved
<1>6. ASSUME NEW p \in Processes, SkipRead(p) \/ SkipReserve(p) PROVE Bounded'
  <2>1. run[p] \in Runs
    BY <1>0, <1>6 DEF SkipRead, SkipReserve, At
  <2>2. run'[p].phase = "send" /\ \A q \in Processes \ {p} : run'[q] = run[q]
    <3>1. CASE SkipRead(p)
      <4>1. PICK k \in Keywords : Asks(p, k, "send")
        BY <3>1 DEF SkipRead
      <4>2. run'[p] = [run[p] EXCEPT !.left = @ \ {k}, !.asked = k, !.phase = "send"]
        BY <1>0, <4>1 DEF Asks
      <4> QED BY <1>0, <2>1, <4>1, <4>2 DEF Asks, Runs
    <3>2. CASE SkipReserve(p)
      <4>1. run'[p] = [run[p] EXCEPT !.phase = "send"]
        BY <1>0, <3>2 DEF SkipReserve
      <4> QED BY <1>0, <2>1, <3>2, <4>1 DEF SkipReserve, Runs
    <3> QED BY <1>6, <3>1, <3>2
  <2>3. Reserving(p)' = 0 /\ Reserving(p) \in 0..Longest
    BY <2>2, ReservingBounds DEF Reserving, At
  <2>4. used' \in Nat /\ used' + 0 <= used + Reserving(p) /\ 0 \in 0..Longest
    BY <1>6, <2>3, TranslationAssumption DEF SkipRead, SkipReserve, TypeOK
  <2>5. uncounted'
    BY <1>6 DEF SkipRead, SkipReserve
  <2> QED BY <2>2, <2>3, <2>4, <2>5, OneProcess
<1>7. ASSUME NEW p \in Processes, Refused(p) \/ LoseRun(p) PROVE Bounded'
  BY <1>0, <1>7, LessReserved DEF Refused, LoseRun, Commit
<1>8. CASE NewMonth
  <2>1. ASSUME NEW p \in Processes PROVE Reserving(p)' = 0
    <3>1. CASE At(p, "reserve")
      <4>1. run[p] \in Runs
        BY <1>0, <3>1 DEF At
      <4>2. run'[p].phase = "send"
        BY <1>8, <3>1, <4>1 DEF NewMonth, Runs
      <4> QED BY <4>2 DEF Reserving, At
    <3>2. CASE ~At(p, "reserve")
      BY <1>8, <3>2 DEF NewMonth, Reserving, At
    <3> QED BY <3>1, <3>2
  <2>2. used' + Reserving(Api)' + Reserving(Scheduler)' <= Budget + Longest
    BY <1>8, <2>1, TranslationAssumption DEF NewMonth, Processes
  <2> QED BY <1>8, <2>2 DEF NewMonth, Bounded
<1>9. CASE UNCHANGED vars
  <2>1. Reserving(Api)' = Reserving(Api) /\ Reserving(Scheduler)' = Reserving(Scheduler)
    BY <1>9 DEF vars, Reserving, At
  <2> QED BY <1>9, <2>1 DEF vars, Bounded
<1> QED
  <2>1. ASSUME NEW p \in Processes, Work(p) PROVE Bounded'
    BY <1>2, <1>3, <1>4, <1>5, <2>1 DEF Work, Failed, Answered
  <2> QED BY <1>1, <1>6, <1>7, <1>8, <1>9, <2>1 DEF Next

\* Two processes that read the budget of the month and reserve from it by two commands
\* pass it by one term at most (SentWithinBudget), for any terms and any budget.
THEOREM BudgetKept == Spec => []SentWithinBudget
<1>1. Init => Inv
  <2>1. Init => Bounded
    BY TranslationAssumption DEF Init, Bounded, Reserving, At, Processes
  <2> QED BY <2>1, TypeInit DEF Inv
<1>2. Inv /\ [Next]_vars => Inv'
  BY TypeStep, BoundedStep DEF Inv
<1>3. Inv => SentWithinBudget
  <2> SUFFICES ASSUME Inv, ~uncounted PROVE sent <= Budget + Longest
    BY DEF SentWithinBudget
  <2>1. used \in Nat /\ used + Reserving(Api) + Reserving(Scheduler) <= Budget + Longest
    BY DEF Inv, TypeOK, Bounded
  <2>2. Reserving(Api) \in 0..Longest /\ Reserving(Scheduler) \in 0..Longest
    BY ReservingBounds DEF Inv, Processes
  <2>3. sent = used
    BY DEF Inv, Bounded
  <2> QED BY <2>1, <2>2, <2>3, TranslationAssumption
<1> QED BY <1>1, <1>2, <1>3, PTL DEF Spec

=============================================================================
