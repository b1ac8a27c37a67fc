-------------------------- MODULE MCTradingDecisions --------------------------
(***************************************************************************)
(* Small instances of TradingDecisions: the quotes that the cores tell     *)
(* apart, and what can be wrong with a feed.                               *)
(***************************************************************************)
EXTENDS TradingDecisions

Both(up, down) == [side \in Sides |-> IF side = "UP" THEN up ELSE down]

Quotes(up, down) ==
    [bid |-> Both(up - 2, down - 2), ask |-> Both(up, down),
     last |-> Both(up - 1, down - 1), depth |-> Both(up, down),
     late |-> {}, stale |-> {}, spot |-> TRUE, spotLate |-> FALSE,
     move |-> 0, verified |-> TRUE, triggered |-> {}, zones |-> << >>,
     unpaid |-> {}]

Even == [Quotes(52, 46) EXCEPT !.triggered = Sides,
            !.zones = <<[side |-> "UP", conf |-> 70], [side |-> "UP", conf |-> 60]>>]
Level == [Quotes(50, 48) EXCEPT !.unpaid = {"DOWN"}]
UpFalls == [Quotes(42, 50) EXCEPT !.unpaid = {"DOWN"}]
UpFallsOn == [Quotes(40, 49) EXCEPT !.unpaid = {"DOWN"}]
UpWins == [Quotes(82, 20) EXCEPT !.move = 40, !.triggered = {"UP"}]
DownRises == [Quotes(39, 60) EXCEPT !.move = -10, !.triggered = {"DOWN"}]
DownWins == [Quotes(20, 84) EXCEPT !.move = -60, !.triggered = {"DOWN"}]

\* The same, with a feed that is not as it should be.
MCFeeds ==
    {Even, Level, UpFalls, UpFallsOn, UpWins, DownRises, DownWins, Quotes(99, 3),
     [UpWins EXCEPT !.bid = Both(82 - 20, 18), !.spotLate = TRUE],
     [DownWins EXCEPT !.late = {"UP"}, !.spot = FALSE],
     [DownWins EXCEPT !.stale = {"DOWN"}, !.bid = Both(NoPrice, 82)],
     [Quotes(99, 3) EXCEPT !.ask = Both(NoPrice, 3)]}

\* Two gaps of more than twenty seconds, and one of seven between them.
MCInstants == {185, 206, 213, 300}

MCMaxOrders == [c \in CoreNames |-> IF c = "mid_price_sizing" THEN 3 ELSE 2]
===============================================================================
