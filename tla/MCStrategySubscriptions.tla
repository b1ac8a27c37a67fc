---------------------- MODULE MCStrategySubscriptions ----------------------
(***************************************************************************)
(* StrategySubscriptions for TLC, with one condition: a callback moves the *)
(* record of a condition by that record alone, and no record reads another *)
(* one.  A clock unit stands for 120 s.  A stalled side is retried after   *)
(* one unit, abandonment and a stale receipt are due after two, and the    *)
(* suppression outlasts them, so that these moments fall in every order    *)
(* the thresholds allow; the restore delay of 1 s is less than a unit.     *)
(***************************************************************************)
EXTENDS StrategySubscriptions
=============================================================================
