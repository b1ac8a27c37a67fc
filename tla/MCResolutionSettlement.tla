----------------------- MODULE MCResolutionSettlement -----------------------
(* One position that a strategy trades, and one row that the migration of   *)
(* the legacy tables left open; a second strategy sees only that row.       *)
EXTENDS ResolutionSettlement
CONSTANTS s1, s2, p1, m1
MCOwner == [p \in {p1} |-> s1]
=============================================================================
