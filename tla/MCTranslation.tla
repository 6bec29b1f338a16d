--------------------------- MODULE MCTranslation ---------------------------
(* The first term has no translation; the others do not fit in one month.    *)
EXTENDS Translation

Letters == [k \in 1..4 |-> IF k = 3 THEN 2 ELSE 1]

=============================================================================
