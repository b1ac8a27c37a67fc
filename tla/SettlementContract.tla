------------------------- MODULE SettlementContract -------------------------
(***************************************************************************)
(* What the settlement promises whoever reads the results: an entry of the *)
(* ledger is written once and for all, by an exit that ended the position  *)
(* or by a resolution of its market, for the episode that the position is  *)
(* in; a strategy takes a position for settled only when the entry is      *)
(* there, and forgets that in a restart at most.                           *)
(***************************************************************************)
EXTENDS Naturals

CONSTANTS Strategies, Positions, Kinds, Nothing

VARIABLES
    episode,    \* how often each position was opened
    ended,      \* the positions that an exit closed
    decided,    \* the positions whose market is resolved
    ledger,     \* the entry of each kind for a position, or Nothing
    keys        \* the positions that each strategy takes for settled

vars == <<episode, ended, decided, ledger, keys>>

Init ==
    /\ episode = [p \in Positions |-> 0]
    /\ ended = {} /\ decided \subseteq Positions
    /\ ledger = [p \in Positions |-> [k \in Kinds |-> Nothing]]
    /\ keys = [s \in Strategies |-> {}]

\* A position opens, which no resolved market allows.
Open(p) ==
    /\ p \notin decided
    /\ episode' = [episode EXCEPT ![p] = @ + 1]
    /\ ended' = ended \ {p}
    /\ UNCHANGED <<decided, ledger, keys>>

Trade(p) ==
    /\ ended' \in {ended \cup {p}, ended \ {p}}
    /\ UNCHANGED <<episode, decided, ledger, keys>>

Decide(p) ==
    /\ decided' = decided \cup {p}
    /\ UNCHANGED <<episode, ended, ledger, keys>>

Due(k) == IF k = "exit" THEN ended ELSE decided

\* Of the positions that are due some get an entry and some had it; all of them
\* are remembered.
Settle(s, k, due) ==
    /\ due \subseteq Due(k)
    /\ DOMAIN ledger' = Positions
    /\ \A p \in Positions, j \in Kinds : ledger'[p][j] # ledger[p][j] =>
          /\ p \in due /\ j = k
          /\ ledger[p][j] = Nothing /\ ledger'[p][j].episode = episode[p]
    /\ \A p \in due : ledger'[p][k] # Nothing
    /\ keys' = [keys EXCEPT ![s] = @ \cup due]
    /\ UNCHANGED <<episode, ended, decided>>

Restart ==
    /\ keys' = [s \in Strategies |-> {}]
    /\ ended' \in {ended, {}}
    /\ UNCHANGED <<episode, decided, ledger>>

Next ==
    \/ \E p \in Positions : Open(p) \/ Trade(p) \/ Decide(p)
    \/ \E s \in Strategies, k \in Kinds, due \in SUBSET Positions : Settle(s, k, due)
    \/ Restart

Spec == Init /\ [][Next]_vars
=============================================================================
