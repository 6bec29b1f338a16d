--------------------------- MODULE PublishedPages ---------------------------
(***************************************************************************)
(* What the detail-page generator promises its operator: a requested page  *)
(* is queued, worked on, and then either published, in the template that   *)
(* was asked for last, or given up; nothing is on offer in between; and    *)
(* only a page that was published or given up is requested again.          *)
(*                                                                         *)
(* The promise is that of models/detail_page.py (docstring and the comment *)
(* of template_name) and of the page of the frontend, which offers an      *)
(* image only when it is done and a new run only when none is in progress. *)
(***************************************************************************)
CONSTANTS Pages, Templates, Props, None

VARIABLES
  stage,   \* page -> where its request stands
  want,    \* page -> the template asked for, None before the first request
  shown    \* page -> the picture on offer, None when there is none

jobs == <<stage, want, shown>>

Absent(p) == stage[p] = "absent"
AtRest(p) == stage[p] \in {"published", "givenup"}

Init ==
  /\ stage = [p \in Pages |-> "absent"]
  /\ want = [p \in Pages |-> None]
  /\ shown = [p \in Pages |-> None]

\* A first request, or another one once the last has come to rest; the picture
\* of the last run is withdrawn.
Submit(p, tpl) ==
  /\ Absent(p) \/ AtRest(p)
  /\ stage' = [stage EXCEPT ![p] = "queued"]
  /\ want' = [want EXCEPT ![p] = tpl]
  /\ shown' = [shown EXCEPT ![p] = None]

Begin(p) ==
  /\ stage[p] = "queued"
  /\ stage' = [stage EXCEPT ![p] = "working"]
  /\ UNCHANGED <<want, shown>>

Publish(p, props) ==
  /\ stage[p] = "working"
  /\ stage' = [stage EXCEPT ![p] = "published"]
  /\ shown' = [shown EXCEPT ![p] = [tpl |-> want[p], props |-> props]]
  /\ UNCHANGED want

GiveUp(p) ==
  /\ stage[p] = "working"
  /\ stage' = [stage EXCEPT ![p] = "givenup"]
  /\ UNCHANGED <<want, shown>>

Next ==
  \E p \in Pages :
    \/ \E tpl \in Templates : Submit(p, tpl)
    \/ Begin(p)
    \/ \E props \in Props : Publish(p, props)
    \/ GiveUp(p)

Spec == Init /\ [][Next]_jobs

=============================================================================
