--------------------------- MODULE MCMarketRotation ---------------------------
(* Two markets, one of which ends, and two strategies, one of which has only *)
(* the first market in its scope.                                            *)
EXTENDS MarketRotation, MCMarketDiscovery, TLC
CONSTANTS c1, c2, s1, s2, i1, i2
MCScope == [s \in {s1, s2} |-> IF s = s1 THEN {c1, c2} ELSE {c1}]
MCEnd == [c \in {c1, c2} |-> IF c = c1 THEN 1 ELSE Never]
Says(flags, text, price) == [flags |-> flags, text |-> text, price |-> price]
MCPayloads == {Says({"active"}, 1, 1), Says({"active"}, 2, 1), Says({"active"}, 1, 2),
               Says({}, 1, 1), Says({"active", "closed"}, 1, 1)}
LegSymmetry == Permutations(Legs)
MCStartup == {{}, {c1}}
===============================================================================
