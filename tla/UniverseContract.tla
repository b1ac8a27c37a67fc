--------------------------- MODULE UniverseContract ---------------------------
(***************************************************************************)
(* What the market rotation promises the strategies of a process: there is *)
(* one newest universe, numbered by its epoch; while they run, the active  *)
(* markets change only in a step that announces them under the next epoch, *)
(* and that step reaches every strategy.                                   *)
(***************************************************************************)
EXTENDS Naturals

CONSTANTS Conditions, Strategies, Scope

VARIABLES
    epoch,      \* the number of the newest announcement
    active,     \* the markets that are active
    told        \* the conditions that each strategy takes for active

Init == /\ epoch \in Nat
        /\ active \subseteq Conditions
        /\ told = [s \in Strategies |-> {}]

Announce == /\ epoch' = epoch + 1
            /\ active' \subseteq Conditions
            /\ told' = [s \in Strategies |-> active' \cap Scope[s]]

\* A start empties the strategies' sets; a boot also goes back to saved state.
Begin == /\ epoch' \in 0 .. epoch
         /\ active' \subseteq Conditions
         /\ told' = [s \in Strategies |-> {}]

Next == Announce \/ Begin

vars == <<epoch, active, told>>
Spec == Init /\ [][Next]_vars
===============================================================================
