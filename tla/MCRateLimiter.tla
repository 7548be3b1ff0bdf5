--------------------------- MODULE MCRateLimiter ----------------------------
(* Instances of RateLimiter for TLC. *)
EXTENDS RateLimiter

Lim(period, perPeriod, window, mode) ==
    [period |-> period, perPeriod |-> perPeriod, window |-> window, mode |-> mode]

SlidingWait      == <<Lim(3, 2, "sliding", "wait")>>
FixedThenSliding == <<Lim(4, 2, "fixed", "block"), Lim(3, 2, "sliding", "wait")>>
FixedBoth        == <<Lim(4, 2, "fixed", "block"), Lim(2, 1, "fixed", "wait")>>

=============================================================================
