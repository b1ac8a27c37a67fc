----------------------------- MODULE MCRetention -----------------------------
(***************************************************************************)
(* The instance of Retention that TLC checks: two rows, three lines, a     *)
(* rotation that is due after every line, and three days.                  *)
(***************************************************************************)
EXTENDS Retention, TLC

Symmetry == Permutations(Ids)
=============================================================================
