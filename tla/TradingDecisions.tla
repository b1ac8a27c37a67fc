--------------------------- MODULE TradingDecisions ---------------------------
(***************************************************************************)
(* One strategy trades one market: evaluate_condition builds a view of the *)
(* market and of the Cache's orders and positions, the exit policy or the  *)
(* alpha core decides, and DecisionPipeline pairs, gates, deduplicates and *)
(* maps the decisions to orders.  The venue answers later, in any order.   *)
(*                                                                         *)
(* An evaluation is one step: the pipeline reads the orders in flight once *)
(* for the batch and submits without giving up control.  Sizes are lots:   *)
(* an entry has Lot of them, whatever its stake; an exit has its position. *)
(***************************************************************************)
EXTENDS AlphaCores

CONSTANTS
    Cores,          \* the cores to choose the strategy from
    Instants,       \* seconds from the start at which something happens
    Feeds,          \* what the feeds can show to an evaluation
    Lot,            \* the lots of an entry
    MaxOrders       \* bound: orders of each core in the market

\* A view's quotes and signals, the sides whose book is late or stale, whether
\* the spot price is late, and the sides whose order the cash does not cover.
FeedType ==
    [bid : [Sides -> Nat], ask : [Sides -> Nat], last : [Sides -> Nat],
     depth : [Sides -> Nat], late : SUBSET Sides, stale : SUBSET Sides,
     spot : BOOLEAN, spotLate : BOOLEAN, move : Int, verified : BOOLEAN,
     triggered : SUBSET Sides, zones : Seq([side : Sides, conf : Nat]),
     unpaid : SUBSET Sides]

ASSUME TradingAssumption ==
    /\ Cores \subseteq CoreNames
    /\ Instants \subseteq Int
    /\ \A feed \in Feeds : feed \in FeedType
    /\ Lot \in Nat \ {0} /\ MaxOrders \in [CoreNames -> Nat]

VARIABLES
    core,           \* the strategy
    now,            \* seconds from the start of the market
    active,         \* the condition is in _active_condition_ids
    orders,         \* the Cache's orders, in the order of their client ids
    pos             \* the Cache's open position of each side

vars == <<core, now, active, orders, pos>>

Statuses == {"inflight", "open", "cancelling", "filled", "killed", "rejected"}
Flat == [qty |-> 0, avg |-> NoPrice, since |-> 0]

OrderType ==
    [side : Sides, exit : BOOLEAN, hedge : BOOLEAN, by : {"core", "native_exit"},
     status : Statuses, qty : Nat \ {0}, fill : Nat, price : Nat, sent : Int,
     at : Int, stop : Nat, target : Nat]

TypeOK ==
    /\ core \in Cores
    /\ now \in Instants
    /\ active \in BOOLEAN
    /\ orders \in Seq(OrderType)
    /\ \A i \in DOMAIN orders : orders[i].fill <= orders[i].qty
    /\ Len(orders) <= MaxOrders[core]
    /\ pos \in [Sides -> [qty : Nat, avg : Nat, since : Int]]

------------------------------------------------------------------------------
(***************************************************************************)
(* The view, and what keeps an evaluation from using it.                   *)
(***************************************************************************)
View(feed) ==
    [now |-> now, left |-> Interval - now, bid |-> feed.bid, ask |-> feed.ask,
     last |-> feed.last, depth |-> feed.depth, spot |-> feed.spot,
     move |-> feed.move, verified |-> feed.verified,
     triggered |-> feed.triggered, zones |-> feed.zones,
     orders |-> orders, pos |-> pos]

\* A side without an ask makes the market untradable, exits included; a book
\* beyond the readiness threshold makes it unready.
Blocked(feed) ==
    \/ feed.stale # {}
    \/ \E side \in Sides : feed.ask[side] = NoPrice

\* Books too old to trade on, but not to be ready.
TooLate(feed, side) == side \in feed.late \cup feed.stale

(***************************************************************************)
(* NativeExitPolicy: a stop, a target and a longest time for each open     *)
(* position.  The thresholds are those stamped on the last entry of the    *)
(* side that has some, and the configured ones otherwise.                  *)
(***************************************************************************)
StampedEntries(v, side) ==
    {i \in Entries(v) : /\ v.orders[i].side = side
                        /\ <<v.orders[i].stop, v.orders[i].target>> # <<NoStamp, NoStamp>>}

Stamped(stamp, configured) == IF stamp = NoStamp THEN configured ELSE stamp

StopOf(v, side) ==
    IF StampedEntries(v, side) = {} THEN 3500
    ELSE Stamped(v.orders[Latest(v, StampedEntries(v, side))].stop, 3500)

TargetOf(v, side) ==
    IF StampedEntries(v, side) = {} THEN 9000
    ELSE Stamped(v.orders[Latest(v, StampedEntries(v, side))].target, 9000)

HasExitOrder(v, side) ==
    \E i \in DOMAIN v.orders :
        v.orders[i].exit /\ v.orders[i].side = side /\ Working(v.orders[i])

ExitIsDue(v, side) ==
    /\ Holds(v, side)
    /\ v.bid[side] # NoPrice
    /\ \/ 100 * v.bid[side] <= StopOf(v, side)
       \/ 100 * v.bid[side] >= TargetOf(v, side)
       \/ HeldFor(v, side) >= 900

\* The whole position, at the bid.
ExitDecision(v, side) ==
    [Decision(side, v.bid[side], 100)
        EXCEPT !.intent = "FAK", !.exit = TRUE, !.by = "native_exit", !.qty = v.pos[side].qty]

ExitDecisions(v) ==
    LET Exit(side) == When(ExitIsDue(v, side) /\ ~HasExitOrder(v, side), ExitDecision(v, side))
    IN  Exit("UP") \o Exit("DOWN")

\* evaluate_decisions: an exit goes before the core, and the core needs books
\* that are fresh enough to trade on.
Decisions(feed) ==
    LET v == View(feed)
    IN  IF ExitDecisions(v) # << >> THEN ExitDecisions(v)
        ELSE IF feed.late # {} THEN << >>
        ELSE CoreDecisions(core, v)

(***************************************************************************)
(* DecisionPolicy: decisions of a pair pass together, and only as one UP   *)
(* and one DOWN; then SignalGate.                                          *)
(***************************************************************************)
PairIsWhole(decisions) ==
    LET members == {i \in DOMAIN decisions : decisions[i].pair}
    IN  /\ Cardinality(members) = 2
        /\ {decisions[i].side : i \in members} = Sides

Passive(d) == d.intent = "GTD"

\* The checks of the gate.  A close is exempt from most of them.
InTime(d) == d.exit \/ (Passive(d) /\ d.life # 0) \/ now < Interval

FreshSpot(d, feed) == d.exit \/ (feed.spot /\ ~feed.spotLate)

FairPrice(d, feed) ==
    \/ d.exit \/ Passive(d)
    \/ /\ feed.bid[d.side] # NoPrice
       /\ feed.ask[d.side] - feed.bid[d.side] <= 12
       /\ feed.ask[d.side] <= d.limit

Confident(d) == d.exit \/ d.conf >= 50

\* Fault: exits, too, need a fresh spot price.
PassesWithSpot(d, feed) ==
    /\ ~TooLate(feed, d.side)
    /\ feed.spot /\ ~feed.spotLate
    /\ Confident(d)

\* prevalidate.
Passes(d, feed) ==
    /\ InTime(d)
    /\ ~TooLate(feed, d.side) /\ FreshSpot(d, feed)
    /\ FairPrice(d, feed)
    /\ Passive(d) => d.life \in 1 .. 86400
    /\ Confident(d)

\* What is left of a batch to be submitted.
Survives(d, decisions, feed) ==
    /\ d.pair => PairIsWhole(decisions)
    /\ Passes(d, feed)

(***************************************************************************)
(* DecisionPipeline.apply and the mapping to orders.                       *)
(***************************************************************************)
DedupeKey(d) == <<d.side, d.by, d.exit>>

KeysInFlight == {DedupeKey(orders[i]) : i \in {j \in DOMAIN orders : Working(orders[j])}}

\* A close needs a quantity and a bid, an entry cash; a taker pays the ask.
CanBeMapped(d, feed) ==
    IF d.exit THEN d.qty > 0 /\ feed.bid[d.side] # NoPrice
    ELSE d.side \notin feed.unpaid

OrderPrice(d, feed) ==
    IF d.exit THEN feed.bid[d.side]
    ELSE IF d.intent = "GTD" THEN d.limit ELSE feed.ask[d.side]

\* Fault: a close has the size of an entry.
NewOrderOfLot(d, feed) ==
    [side |-> d.side, exit |-> d.exit, hedge |-> d.hedge, by |-> d.by,
     status |-> "inflight", qty |-> Lot, fill |-> 0,
     price |-> OrderPrice(d, feed), sent |-> now, at |-> now,
     stop |-> d.stop, target |-> d.target]

NewOrder(d, feed) ==
    [side |-> d.side, exit |-> d.exit, hedge |-> d.hedge, by |-> d.by,
     status |-> "inflight", qty |-> IF d.exit THEN d.qty ELSE Lot, fill |-> 0,
     price |-> OrderPrice(d, feed), sent |-> now, at |-> now,
     stop |-> d.stop, target |-> d.target]

\* Fault: the key of a submitted decision is not added to those of the batch.
SubmitForgetsKey(batch, d, feed) ==
    IF DedupeKey(d) \in batch.keys \/ ~CanBeMapped(d, feed)
    THEN batch
    ELSE [orders |-> Append(batch.orders, NewOrder(d, feed)), keys |-> batch.keys]

\* Each decision sees the keys of those submitted before it in the batch.
Submit(batch, d, feed) ==
    IF DedupeKey(d) \in batch.keys \/ ~CanBeMapped(d, feed)
    THEN batch
    ELSE [orders |-> Append(batch.orders, NewOrder(d, feed)),
          keys |-> batch.keys \cup {DedupeKey(d)}]

\* The orders and the keys after the first n decisions.
Batches(decisions, feed) ==
    LET batch[n \in 0 .. Len(decisions)] ==
            IF n = 0 THEN [orders |-> orders, keys |-> KeysInFlight]
            ELSE IF Survives(decisions[n], decisions, feed)
            THEN Submit(batch[n - 1], decisions[n], feed)
            ELSE batch[n - 1]
    IN  batch

Apply(decisions, feed) == Batches(decisions, feed)[Len(decisions)].orders

------------------------------------------------------------------------------
(***************************************************************************)
(* Steps of the strategy.                                                  *)
(***************************************************************************)
\* evaluate_ready_condition; a market before its start is only preloaded.
Evaluate(feed) ==
    /\ active
    /\ now \in 0 .. Interval - 1
    /\ ~Blocked(feed)
    /\ orders' = Apply(Decisions(feed), feed)
    /\ Len(orders') <= MaxOrders[core]
    /\ UNCHANGED <<core, now, active, pos>>

\* retire_expired_condition: the cancellation of the entries may fail.
Retire(cancelled) ==
    /\ active
    /\ now >= Interval
    /\ active' = FALSE
    /\ orders' = [i \in DOMAIN orders |->
                    IF cancelled /\ ~orders[i].exit /\ Working(orders[i])
                    THEN [orders[i] EXCEPT !.status = "cancelling"]
                    ELSE orders[i]]
    /\ UNCHANGED <<core, now, pos>>

(***************************************************************************)
(* Steps of the venue, as the Cache sees them.                             *)
(***************************************************************************)
Accept(i) ==
    /\ orders[i].status = "inflight"
    /\ orders' = [orders EXCEPT ![i].status = "open", ![i].at = now]
    /\ UNCHANGED <<core, now, active, pos>>

Reject(i) ==
    /\ orders[i].status = "inflight"
    /\ orders' = [orders EXCEPT ![i].status = "rejected"]
    /\ UNCHANGED <<core, now, active, pos>>

\* The rest of a taker, a cancellation, or the expiry of a passive order.
Kill(i) ==
    /\ orders[i].status \in {"open", "cancelling"}
    /\ orders' = [orders EXCEPT ![i].status = "killed"]
    /\ UNCHANGED <<core, now, active, pos>>

\* The position after `lots` more of an order: bought, or sold by an exit.
Position(p, o, lots) ==
    IF o.exit
    THEN IF p.qty = lots THEN Flat ELSE [p EXCEPT !.qty = @ - lots]
    ELSE [qty |-> p.qty + lots,
          avg |-> (p.qty * p.avg + lots * o.price) \div (p.qty + lots),
          since |-> IF p.qty = 0 THEN now ELSE p.since]

Fill(i, lots) ==
    LET o == orders[i]
        filled == o.fill + lots
    IN  /\ o.status \in {"open", "cancelling"}
        /\ filled <= o.qty
        /\ orders' = [orders EXCEPT
                        ![i].fill = filled,
                        ![i].status = IF filled = o.qty THEN "filled" ELSE @]
        /\ pos' = [pos EXCEPT ![o.side] = Position(@, o, lots)]
        /\ UNCHANGED <<core, now, active>>

\* The clock goes to the next instant.
Tick ==
    /\ \E t \in Instants :
          /\ t > now
          /\ \A u \in Instants : u > now => t <= u
          /\ now' = t
    /\ UNCHANGED <<core, active, orders, pos>>

Init ==
    /\ core \in Cores
    /\ now \in {t \in Instants : \A u \in Instants : t <= u}
    /\ active = TRUE
    /\ orders = << >>
    /\ pos = [side \in Sides |-> Flat]

Next ==
    \/ \E feed \in Feeds : Evaluate(feed)
    \/ \E cancelled \in BOOLEAN : Retire(cancelled)
    \/ \E i \in DOMAIN orders :
          \/ Accept(i) \/ Reject(i) \/ Kill(i)
          \/ \E lots \in 1 .. orders[i].qty : Fill(i, lots)
    \/ Tick

Spec == Init /\ [][Next]_vars
------------------------------------------------------------------------------
(***************************************************************************)
(* Properties.                                                             *)
(***************************************************************************)
ActiveEntries(sides) ==
    {i \in DOMAIN orders : /\ orders[i].side \in sides /\ ~orders[i].exit
                           /\ IsActive(orders[i])}

\* However evaluations, answers of the venue and cancellations interleave, a
\* side never has two entries, or two exits, at the venue: the keys in flight
\* are read before the batch, and the batch adds its own (DecisionPipeline).
OneInFlight ==
    \A i, j \in DOMAIN orders :
        /\ Working(orders[i]) /\ Working(orders[j])
        /\ orders[i].side = orders[j].side
        /\ orders[i].exit = orders[j].exit
        => i = j

\* What working exits can still sell is never more than what is held, so that
\* a late fill cannot turn a long position into a short one: no exit is sent
\* beside another, and a second entry only adds (has_exit_order).
ExitsFitPosition ==
    \A i \in DOMAIN orders :
        orders[i].exit /\ Working(orders[i])
            => orders[i].qty - orders[i].fill <= pos[orders[i].side].qty

\* A core that enters a market once does so through partial fills, rejected
\* orders, exits and late answers: vwap_momentum and binary_momentum have one
\* entry that is at the venue or was filled, the pair cores one for each side
\* (has_market_activity).
EntersOnce ==
    /\ core \in {"vwap_momentum", "binary_momentum"}
           => Cardinality(ActiveEntries(Sides)) <= 1
    /\ core \in {"dump_hedge", "low_side_dual_reversion", "pre_order_market",
                 "ninety_nine_cent_sniper"}
           => \A side \in Sides : Cardinality(ActiveEntries({side})) <= 1

\* mid_price_sizing never has more than max_layers layers on a side, the ones
\* at the venue included, though it counts only those with a fill.
LayersAreBounded ==
    core = "mid_price_sizing"
        => \A side \in Sides : Cardinality(ActiveEntries({side})) <= MaxLayers

\* Two entries of late_consensus that the venue did not reject are seven
\* seconds apart, however late they were accepted, and more than twenty when they
\* are on opposite sides and no entry was accepted more than twenty seconds
\* after it was sent (entry_frequency_sec, flip_guard_window_sec).  The guard
\* compares with the entry accepted last: once an answer is later, that one need
\* not be the one sent last, and the side can be changed again at once.
EntriesAreSpaced ==
    LET accepted == AcceptedEntries([orders |-> orders])
    IN  core = "late_consensus" =>
            \A i, j \in accepted :
                i < j => /\ orders[j].sent - orders[i].sent >= 7
                         /\ \/ orders[i].side = orders[j].side
                            \/ orders[j].sent - orders[i].sent > 20
                            \/ \E k \in accepted : orders[k].at - orders[k].sent > 20

\* Partial fills, rejected orders, exits and late answers let no core enter a
\* market more often, or sooner again, than it means to: all of the above.
EntriesAreBounded == EntersOnce /\ LayersAreBounded /\ EntriesAreSpaced

\* Whenever it comes, an evaluation with usable books leaves no position at
\* its stop or target without an exit at the venue, whatever the cash, the spot
\* price, the spread and the orders in flight are (evaluate_decisions puts the
\* exit first, and the gate and the cash check exempt it).
StopIsActedOn ==
    active /\ now \in 0 .. Interval - 1 =>
        \A feed \in {f \in Feeds : ~Blocked(f)} : \A side \in Sides \ feed.late :
            ExitIsDue(View(feed), side)
                => HasExitOrder([orders |-> Apply(Decisions(feed), feed)], side)

\* The core hedges, and nothing that is decided of a single order stands in the
\* hedge's way: books the gate accepts, cash, and no order in flight of its key.
HedgeIsClear(feed) ==
    \E i \in DOMAIN Decisions(feed) :
        LET d == Decisions(feed)[i]
        IN  /\ d.hedge
            /\ Passes(d, feed)
            /\ CanBeMapped(d, feed)
            /\ DedupeKey(d) \notin KeysInFlight

\* What tests/test_alpha_dump_hedge.py asserts of the core's answer to a lone
\* leg ("hedge[0].hedge_leg is True") should reach the venue: an evaluation in
\* which the core hedges, with books the gate accepts, cash, and no order of that
\* side in flight, leaves a hedge order.  It does not: a hedge carries the
\* pair's id (build_hedge_order_decision) and, alone in its batch, is dropped
\* as an incomplete pair (_resolve_pair_group).
HedgesArePlaced ==
    active /\ now \in 0 .. Interval - 1 =>
        \A feed \in {f \in Feeds : ~Blocked(f)} :
            HedgeIsClear(feed)
            => HasHedgeOrder([orders |-> Apply(Decisions(feed), feed)])
===============================================================================
