---------------------------- MODULE MCScoreJobs ----------------------------
(* Keywords for ScoreJobs: ids 1 and 2, of which 2 is a seed and ranked      *)
(* first.                                                                    *)
EXTENDS ScoreJobs

TwoRanked == <<2, 1>>

=============================================================================
