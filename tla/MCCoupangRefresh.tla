-------------------------- MODULE MCCoupangRefresh --------------------------
(* Three keywords for CoupangRefresh, ranked alike in every run.             *)
EXTENDS CoupangRefresh, TLC

CONSTANTS a, b, c

OneRanking == {<<a, b, c>>}

=============================================================================
