------------------------------- MODULE Quota -------------------------------
(* What build_coupang_bucket (ratelimit/rate_limiter.py) makes a bucket with. *)
EXTENDS Integers

CONSTANTS
  Capacity,  \* capacity, in tokens
  PerToken,  \* time units in which one token is earned
  None       \* no key, no bucket, no timeout, no window

ASSUME QuotaAssumption ==
  Capacity \in Nat \ {0} /\ PerToken \in Nat \ {0} /\ None \notin Int

\* The capacity, in time units.
Full == Capacity * PerToken

=============================================================================
