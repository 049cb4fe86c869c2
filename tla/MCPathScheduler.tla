------------------------- MODULE MCPathScheduler -------------------------
(***************************************************************************)
(* The path scheduler with two arms and a window of two.  The clock jumps  *)
(* over the backoffs of a first (10 ms) and a second trip (20 ms), for the *)
(* largest jitter; from the third trip on base * jitter saturates the      *)
(* scaled-down u64 as it would with a huge base.                           *)
(***************************************************************************)
EXTENDS PathScheduler, TLC

MCOutcomes ==
  {[success |-> TRUE,  timed |-> TRUE,  latency |-> 900],
   [success |-> FALSE, timed |-> FALSE, latency |-> 0]}

MCJitter == {125}

MCClock == {0, 10, 30}
=============================================================================
