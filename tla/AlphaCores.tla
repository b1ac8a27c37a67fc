------------------------------ MODULE AlphaCores ------------------------------
(***************************************************************************)
(* The alpha cores (src/polysignal_lab/alpha): pure functions from a view  *)
(* of one market to the decisions of one strategy, under the defaults of   *)
(* domain/strategy_config.py.                                              *)
(*                                                                         *)
(* Prices are cents of a dollar, and NoPrice where a book has no quote;    *)
(* thresholds of exits are hundredths of a cent; times are seconds from    *)
(* the start of the market.  What a core computes from a history of trades *)
(* or of spot prices (momentum, MACD, RSI, zigzag zones) is an input of    *)
(* the view: the sides it triggers, and the zones of fibonacci_bot.        *)
(* A confidence is kept up to its floor: the gate compares it with 50.     *)
(*                                                                         *)
(* A view has the fields now, left, bid, ask, last, depth, spot, move (the *)
(* spot over the price to beat), verified, triggered, zones, orders (a     *)
(* sequence, in the order of client ids) and pos (the open position of     *)
(* each side, of quantity 0 when there is none).                           *)
(***************************************************************************)
EXTENDS Integers, Sequences, FiniteSets

CONSTANT MaxLayers      \* max_layers of mid_price_sizing; its default is 3

ASSUME AlphaCoresAssumption == MaxLayers \in Nat \ {0}

Sides == {"UP", "DOWN"}
NoPrice == 0
NoStamp == 0
Interval == 300         \* a five minute market

Opposite(side) == IF side = "UP" THEN "DOWN" ELSE "UP"
Magnitude(n) == IF n < 0 THEN -n ELSE n
Least(a, b) == IF a < b THEN a ELSE b
When(condition, decision) == IF condition THEN <<decision>> ELSE << >>

(***************************************************************************)
(* TradingStateView: what a core reads of its orders and positions.        *)
(***************************************************************************)
Working(o) == o.status \in {"inflight", "open", "cancelling"}
HasFill(o) == o.fill > 0
IsActive(o) == Working(o) \/ HasFill(o)

\* Fault: an order in flight does not count as accepted yet.
WasAcceptedByVenue(o) == o.status \notin {"rejected", "inflight"}

WasAccepted(o) == o.status # "rejected"

Entries(v) == {i \in DOMAIN v.orders : ~v.orders[i].exit}
AcceptedEntries(v) == {i \in Entries(v) : WasAccepted(v.orders[i])}
Holds(v, side) == v.pos[side].qty > 0

HasActivity(v, sides) ==
    \/ \E i \in Entries(v) : v.orders[i].side \in sides /\ IsActive(v.orders[i])
    \/ \E side \in sides : Holds(v, side)

\* The sides of unhedged_leg(): the one side that is held, if it is one.
UnhedgedLegs(v) == {side \in Sides : Holds(v, side) /\ ~Holds(v, Opposite(side))}

HasHedgeOrder(v) ==
    \E i \in DOMAIN v.orders : v.orders[i].hedge /\ IsActive(v.orders[i])

\* The last of the chosen entries, by the time of acceptance and the id.
Latest(v, chosen) ==
    CHOOSE i \in chosen :
        \A j \in chosen : \/ v.orders[j].at < v.orders[i].at
                          \/ v.orders[j].at = v.orders[i].at /\ j <= i

HasEntryLevel(v, side, price) ==
    \E i \in AcceptedEntries(v) :
        v.orders[i].side = side /\ v.orders[i].price = price

FilledLayers(v, side) ==
    Cardinality({i \in Entries(v) : v.orders[i].side = side /\ HasFill(v.orders[i])})

(***************************************************************************)
(* A decision, and the parts that the cores share.  The intent "default"   *)
(* is a decision without an order intent.  A quantity of 0 leaves the size *)
(* to the fixed stake.                                                     *)
(***************************************************************************)
Decision(side, limit, conf) ==
    [side |-> side, limit |-> limit, conf |-> conf, intent |-> "default",
     qty |-> 0, life |-> 0, pair |-> FALSE, hedge |-> FALSE, exit |-> FALSE,
     by |-> "core", stop |-> NoStamp, target |-> NoStamp]

PairCost(a, b) == a + b + 3     \* two fees and the slippage buffer, a cent each

Elapsed(v) == Interval - v.left
AskAtMost(v, side, limit) == v.ask[side] # NoPrice /\ v.ask[side] <= limit
Quoted(v, side) == v.bid[side] # NoPrice /\ v.ask[side] # NoPrice
SpreadOf(v, side) == v.ask[side] - v.bid[side]
BothAsked(v) == \A side \in Sides : v.ask[side] # NoPrice

\* A taker that buys the side opposite to the leg that is held.
Hedge(v, leg, price, intent, conf) ==
    [Decision(Opposite(leg), price, conf)
        EXCEPT !.intent = intent, !.pair = TRUE, !.hedge = TRUE]

HeldFor(v, leg) == v.now - v.pos[leg].since

(***************************************************************************)
(* Cores that follow a price.                                              *)
(***************************************************************************)
VwapMomentum(v) ==
    LET favourite == IF v.last["UP"] >= v.last["DOWN"] THEN "UP" ELSE "DOWN"
        price == v.last[favourite]
        hedged == {leg \in UnhedgedLegs(v) : ~HasHedgeOrder(v)
                                              /\ v.ask[Opposite(leg)] # NoPrice}
    IN  IF hedged # {}
        THEN LET leg == CHOOSE leg \in hedged : TRUE
             IN  <<[Hedge(v, leg, 2, "GTD", 70)
                     EXCEPT !.life = 3600, !.qty = v.pos[leg].qty]>>
        ELSE When(/\ \A side \in Sides : v.last[side] # NoPrice
                  /\ price \in 35 .. 85
                  /\ Elapsed(v) >= 45
                  /\ v.left > 20
                  /\ favourite \in v.triggered
                  /\ ~HasActivity(v, Sides)
                  /\ v.ask[favourite] # NoPrice,
                  Decision(favourite, Least(85, price + 5), 50))

\* Both sides are checked; the MACD histogram has the sign of one at most.
BinaryMomentum(v) ==
    LET Enter(side) ==
            When(/\ v.triggered = {side}
                 /\ Quoted(v, side)
                 /\ v.bid[side] + v.ask[side] <= 140
                 /\ ~HasActivity(v, Sides),
                 [Decision(side, v.ask[side], 50) EXCEPT !.intent = "FAK"])
    IN  Enter("UP") \o Enter("DOWN")

LateConsensus(v) ==
    LET up == v.ask["UP"]
        down == v.ask["DOWN"]
        favourite == IF up > down THEN "UP" ELSE "DOWN"
        size == IF v.left > 60 THEN 8 ELSE IF v.left > 40 THEN 10 ELSE 12
        Since(i) == v.now - v.orders[i].at
        last == Latest(v, AcceptedEntries(v))
    IN  When(/\ BothAsked(v)
             /\ v.left \in 1 .. 120
             /\ AcceptedEntries(v) # {} =>
                    /\ Since(last) >= 7
                    /\ v.orders[last].side # favourite => Since(last) > 20
             /\ up + down <= 105
             /\ Magnitude(up - down) >= 30
             /\ v.ask[favourite] <= 93,
             [Decision(favourite, 93, Least(95, Magnitude(up - down) + 35))
                 EXCEPT !.intent = "IOC", !.qty = size, !.stop = 4800])

(***************************************************************************)
(* compute_tp_sl_thresholds: the stop 15 % under the entry and the target  *)
(* as far above it; a target over 99 cents is cut, and the stop comes as   *)
(* close.                                                                  *)
(***************************************************************************)
PtbTarget(entry) == Least(9900, 115 * entry)
PtbStop(entry) == IF 115 * entry > 9900 THEN 200 * entry - 9900 ELSE 85 * entry

\* The triggers of ptb_diff: the least move, and the longest time to the end.
PtbTriggers == {<<30, 120>>, <<50, 60>>}

PtbDiff(v) ==
    LET side == IF v.move > 0 THEN "UP" ELSE "DOWN"
        ask == v.ask[side]
    IN  When(/\ v.spot /\ v.verified
             /\ v.left > 0
             /\ \E t \in PtbTriggers : Magnitude(v.move) >= t[1] /\ v.left <= t[2]
             /\ ask \in 80 .. 92
             /\ Quoted(v, side)
             /\ SpreadOf(v, side) <= 8,
             [Decision(side, 92, 55)
                 EXCEPT !.stop = PtbStop(ask), !.target = PtbTarget(ask)])

SkewMeanReversion(v) ==
    LET up == v.ask["UP"]
        down == v.ask["DOWN"]
        cheap == IF up < down THEN "UP" ELSE "DOWN"
    IN  When(/\ BothAsked(v)
             /\ v.left <= 3600
             /\ 40 * Magnitude(up - down) >= up + down
             /\ v.ask[cheap] <= 85
             /\ Quoted(v, cheap) => SpreadOf(v, cheap) <= 5,
             Decision(cheap, 85, 55))

\* One order for each zone that the spot is in, at most 60 cents.
ZoneEntry(v, zone) ==
    When(AskAtMost(v, zone.side, 60),
         [Decision(zone.side, Least(v.ask[zone.side] + 2, 60), zone.conf)
             EXCEPT !.intent = "GTD", !.life = 300])

\* The orders of the first n zones.
ZoneEntries(v) ==
    LET entries[n \in 0 .. Len(v.zones)] ==
            IF n = 0 THEN << >> ELSE entries[n - 1] \o ZoneEntry(v, v.zones[n])
    IN  entries

FibonacciBot(v) == IF v.spot THEN ZoneEntries(v)[Len(v.zones)] ELSE << >>

(***************************************************************************)
(* Cores that buy both sides.                                              *)
(***************************************************************************)
DumpHedge(v) ==
    LET leg == CHOOSE leg \in UnhedgedLegs(v) : TRUE
        ask == v.ask[Opposite(leg)]
        cost == PairCost(v.pos[leg].avg, ask)
        Enter(side) ==
            When(side \in v.triggered /\ v.ask[side] # NoPrice,
                 [Decision(side, v.ask[side], 75)
                     EXCEPT !.intent = "FAK", !.pair = TRUE, !.qty = 10])
    IN  IF UnhedgedLegs(v) # {}
        THEN IF HasHedgeOrder(v) \/ ask = NoPrice
             THEN << >>
             ELSE When(cost <= 95, Hedge(v, leg, ask, "FOK", 70))
                  \o When(HeldFor(v, leg) >= 90 /\ cost <= 105,
                          Hedge(v, leg, ask, "FOK", 50))
        ELSE IF HasActivity(v, Sides) \/ Elapsed(v) \notin 0 .. 300
             THEN << >>
             ELSE Enter("UP") \o Enter("DOWN")

\* The bid prices of low_side_dual_reversion below both asks.
DualBids(v) ==
    {p \in {35, 40, 45} :
        /\ PairCost(p, p) <= 98
        /\ \A side \in Sides : v.ask[side] # NoPrice => p < v.ask[side]}

\* The cheapest wins.
DualBid(v) == CHOOSE p \in DualBids(v) : \A q \in DualBids(v) : p <= q

LowSideDualReversion(v) ==
    LET leg == CHOOSE leg \in UnhedgedLegs(v) : TRUE
        other == Opposite(leg)
        avg == v.pos[leg].avg
        Enter(side) == [Decision(side, DualBid(v), 60)
                          EXCEPT !.intent = "GTD", !.pair = TRUE, !.qty = 5,
                                 !.life = Least(v.left - 60, 300)]
    IN  IF UnhedgedLegs(v) # {}
        THEN IF HasHedgeOrder(v)
             THEN << >>
             ELSE When(v.depth[other] # NoPrice /\ v.ask[other] # NoPrice
                            /\ PairCost(avg, v.depth[other]) <= 98,
                       Hedge(v, leg, v.depth[other], "FAK", 70))
                  \o When(/\ HeldFor(v, leg) >= 20
                          /\ v.ask[other] # NoPrice
                          /\ PairCost(avg, v.ask[other]) <= 103,
                          Hedge(v, leg, v.ask[other], "FAK", 50))
        ELSE IF v.left <= 60 \/ HasActivity(v, Sides) \/ DualBids(v) = {}
             THEN << >>
             ELSE <<Enter("UP"), Enter("DOWN")>>

PreOrderMarket(v) ==
    LET leg == CHOOSE leg \in UnhedgedLegs(v) : TRUE
        ask == v.ask[Opposite(leg)]
        \* build_order_decision needs an ask to refer to
        Bid(price, side) ==
            When(v.ask[side] # NoPrice /\ price < v.ask[side],
                 [Decision(side, price, 55)
                     EXCEPT !.intent = "GTD", !.pair = TRUE, !.qty = 5,
                            !.life = IF v.now < 29 THEN 30 - v.now ELSE 1])
        Rung(price) == Bid(price, "UP") \o Bid(price, "DOWN")
    IN  IF UnhedgedLegs(v) # {}
        THEN When(/\ ~HasHedgeOrder(v)
                  /\ ask # NoPrice
                  /\ PairCost(v.pos[leg].avg, ask) <= 100,
                  Hedge(v, leg, ask, "FAK", 55))
        ELSE IF v.now \notin -180 .. 29 \/ HasActivity(v, Sides)
             THEN << >>
             ELSE Rung(45) \o Rung(40)

(***************************************************************************)
(* mid_price_sizing: layers on each side, added when the price moves       *)
(* against the position.                                                   *)
(***************************************************************************)
MidPriceRegime(v) ==
    /\ \A side \in Sides : v.ask[side] \in 40 .. 50
    /\ v.spot
    /\ v.left >= 60

MidPriceExit(v, side) ==
    /\ Holds(v, side)
    /\ v.bid[side] # NoPrice
    /\ v.bid[side] <= 30 \/ v.bid[side] >= 70

\* The move against a position: under its cost when UP, above it when DOWN.
AdverseMove(v, side) ==
    LET change == v.ask[side] - v.pos[side].avg
    IN  IF side = "UP" THEN -change ELSE change

MidPriceLayer(v, side) ==
    LET filled == FilledLayers(v, side)
        layers == IF Holds(v, side) /\ filled = 0 THEN 1 ELSE filled
        Order(conf) == [Decision(side, Least(v.ask[side], 60), conf)
                          EXCEPT !.intent = "FAK"]
    IN  IF ~Quoted(v, side) THEN << >>
        ELSE IF MidPriceExit(v, side)
        THEN <<[Order(100) EXCEPT !.exit = TRUE]>>
        ELSE IF layers = 0
        THEN When(v.ask[side] <= 50, Order(65))
        ELSE When(/\ layers < MaxLayers
                  /\ Holds(v, side)
                  /\ AdverseMove(v, side) >= 5,
                  Order(55))

MidPriceSizing(v) ==
    LET Layer(side) == IF MidPriceRegime(v) \/ MidPriceExit(v, side)
                       THEN MidPriceLayer(v, side) ELSE << >>
    IN  Layer("UP") \o Layer("DOWN")

(***************************************************************************)
(* Cores at the ends of the price range.                                   *)
(***************************************************************************)
\* The middle of the book stands for the probability, which nothing provides.
NinetyNineCentSniper(v) ==
    LET Snipe(side) ==
            When(/\ ~HasActivity(v, {side})
                 /\ AskAtMost(v, side, 99)
                 /\ v.bid[side] > 94
                 /\ v.bid[side] + v.ask[side] >= 199
                 /\ AskAtMost(v, Opposite(side), 5),
                 [Decision(side, 99, 96) EXCEPT !.intent = "FOK"])
    IN  IF v.left <= 90 THEN Snipe("UP") \o Snipe("DOWN") ELSE << >>

OneCentBuy(v) ==
    LET Rung(side, price, conf) ==
            When(/\ v.ask[side] # NoPrice
                 /\ ~HasEntryLevel(v, side, price)
                 /\ price < v.ask[side],
                 [Decision(side, price, conf)
                     EXCEPT !.intent = "GTD", !.qty = 10, !.life = v.left - 20])
        Ladder(side) == Rung(side, 1, 45) \o Rung(side, 2, 40) \o Rung(side, 3, 35)
    IN  IF v.left > 20 /\ Elapsed(v) \in 0 .. 280
        THEN Ladder("UP") \o Ladder("DOWN") ELSE << >>

CoreNames ==
    {"vwap_momentum", "late_consensus", "ptb_diff", "binary_momentum",
     "dump_hedge", "fibonacci_bot", "low_side_dual_reversion",
     "mid_price_sizing", "ninety_nine_cent_sniper", "one_cent_buy",
     "pre_order_market", "skew_mean_reversion"}

\* core.evaluate(view) of each strategy.
CoreDecisions(core, v) ==
    CASE core = "vwap_momentum" -> VwapMomentum(v)
      [] core = "late_consensus" -> LateConsensus(v)
      [] core = "ptb_diff" -> PtbDiff(v)
      [] core = "binary_momentum" -> BinaryMomentum(v)
      [] core = "dump_hedge" -> DumpHedge(v)
      [] core = "fibonacci_bot" -> FibonacciBot(v)
      [] core = "low_side_dual_reversion" -> LowSideDualReversion(v)
      [] core = "mid_price_sizing" -> MidPriceSizing(v)
      [] core = "ninety_nine_cent_sniper" -> NinetyNineCentSniper(v)
      [] core = "one_cent_buy" -> OneCentBuy(v)
      [] core = "pre_order_market" -> PreOrderMarket(v)
      [] core = "skew_mean_reversion" -> SkewMeanReversion(v)
===============================================================================
