--------------------------- MODULE MCDetailPages ---------------------------
(* Model values for DetailPages: pages are interchangeable, and so are      *)
(* templates and payloads.                                                  *)
EXTENDS DetailPages, TLC

Symmetry == Permutations(Pages) \cup Permutations(Templates)
              \cup Permutations(Payloads)

=============================================================================
