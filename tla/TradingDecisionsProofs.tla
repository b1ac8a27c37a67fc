------------------------ MODULE TradingDecisionsProofs ------------------------
(***************************************************************************)
(* The safety of TradingDecisions for every set of feeds and instants,     *)
(* every core, and every bound on the orders.                              *)
(***************************************************************************)
EXTENDS TradingDecisions, FiniteSetTheorems, TLAPS

------------------------------------------------------------------------------
(***************************************************************************)
(* Induction.  A set that has 0 and, with a number, the next one has every *)
(* natural number: were n not in it, x + 1 would inject its members up to  *)
(* n into those that are not 0, which are one less.                        *)
(***************************************************************************)
LEMMA Induction ==
    ASSUME NEW S, 0 \in S, \A n \in Nat : n \in S => n + 1 \in S
    PROVE  \A n \in Nat : n \in S
<1> SUFFICES ASSUME NEW n \in Nat, n \notin S PROVE FALSE
  OBVIOUS
<1> DEFINE A == S \cap (0 .. n)
           next == [x \in A |-> x + 1]
<1>1. IsFiniteSet(A) /\ Cardinality(A) \in Nat
  <2>1. IsFiniteSet(0 .. n)
    BY FS_Interval
  <2> QED BY <2>1, FS_Subset, FS_CardinalityType
<1>2. 0 \in A
  OBVIOUS
<1>3. IsFiniteSet(A \ {0}) /\ Cardinality(A \ {0}) = Cardinality(A) - 1
  BY <1>1, <1>2, FS_RemoveElement
<1>4. next \in [A -> A \ {0}]
  <2> SUFFICES ASSUME NEW x \in A PROVE x + 1 \in A \ {0}
    OBVIOUS
  <2>1. x \in 0 .. n /\ x # n
    OBVIOUS
  <2> QED BY <2>1
<1>5. Cardinality(A \ {0}) < Cardinality(A)
  BY <1>1, <1>3
<1>6. \E x, y \in A : x # y /\ next[x] = next[y]
  <2> HIDE DEF A, next
  <2> QED BY <1>1, <1>3, <1>4, <1>5, FS_PigeonHole
<1> QED BY <1>6

------------------------------------------------------------------------------
(***************************************************************************)
(* Batches: what a batch of decisions adds to the orders.                  *)
(***************************************************************************)
Before == [orders |-> orders, keys |-> KeysInFlight]

After(decisions, feed, batch, n) ==
    IF Survives(decisions[n], decisions, feed)
    THEN Submit(batch, decisions[n], feed)
    ELSE batch

\* The recursive function is defined by its equation.
LEMMA BatchesEquation ==
    ASSUME NEW decisions, Len(decisions) \in Nat, NEW feed
    PROVE  /\ Batches(decisions, feed)[0] = Before
           /\ \A n \in 1 .. Len(decisions) :
                 Batches(decisions, feed)[n]
                     = After(decisions, feed, Batches(decisions, feed)[n - 1], n)
<1> DEFINE Equation(f, m) ==
               f = [n \in 0 .. m |-> IF n = 0 THEN Before
                                     ELSE After(decisions, feed, f[n - 1], n)]
           S == {m \in Nat : \E f : Equation(f, m)}
<1>1. 0 \in S
  <2>1. Equation([n \in 0 .. 0 |-> Before], 0)
    OBVIOUS
  <2> QED BY <2>1
<1>2. ASSUME NEW m \in Nat, m \in S
      PROVE  m + 1 \in S
  <2>1. PICK f : Equation(f, m)
    BY <1>2
  <2> DEFINE g == [n \in 0 .. m + 1 |->
                     IF n = m + 1 THEN After(decisions, feed, f[m], n) ELSE f[n]]
  <2>2. Equation(g, m + 1)
    <3>1. ASSUME NEW n \in 0 .. m + 1
          PROVE  g[n] = IF n = 0 THEN Before ELSE After(decisions, feed, g[n - 1], n)
      <4>1. CASE n = m + 1
        BY <4>1
      <4>2. CASE n # m + 1
        <5>1. n \in 0 .. m
          BY <4>2
        <5>2. f[n] = IF n = 0 THEN Before ELSE After(decisions, feed, f[n - 1], n)
          BY <2>1, <5>1
        <5>3. n # 0 => g[n - 1] = f[n - 1]
          BY <5>1
        <5> QED BY <5>1, <5>2, <5>3, <4>2
      <4> QED BY <4>1, <4>2
    <3> QED BY <3>1
  <2>3. \E h : Equation(h, m + 1)
    <3> HIDE DEF g, Equation
    <3> QED BY <2>2
  <2> QED BY <2>3
<1>3. \E f : Equation(f, Len(decisions))
  <2> HIDE DEF Equation
  <2>1. \A m \in Nat : m \in S
    <3> HIDE DEF S
    <3> QED BY <1>1, <1>2, Induction
  <2> QED BY <2>1
<1>4. Equation(Batches(decisions, feed), Len(decisions))
  BY <1>3 DEF Batches, Before, After
<1> QED
  <2> DEFINE b == Batches(decisions, feed)
  <2> HIDE DEF b
  <2>1. b = [n \in 0 .. Len(decisions) |-> IF n = 0 THEN Before
                                     ELSE After(decisions, feed, b[n - 1], n)]
    BY <1>4 DEF b
  <2>2. /\ b[0] = Before
        /\ \A n \in 1 .. Len(decisions) : b[n] = After(decisions, feed, b[n - 1], n)
    BY <2>1
  <2> QED BY <2>2 DEF b

Intents == {"default", "GTD", "FAK", "FOK", "IOC"}

DecisionType ==
    [side : Sides, limit : Nat, conf : Nat, intent : Intents, qty : Nat,
     life : Nat, pair : BOOLEAN, hedge : BOOLEAN, exit : BOOLEAN,
     by : {"core", "native_exit"}, stop : Nat, target : Nat]

\* The orders that were not there before.
Fresh(os) == Len(orders) + 1 .. Len(os)

\* What the first n decisions have made of the orders: each fresh order is that
\* of a decision that survives, no two have a key in common, and no decision
\* that survives is left without an order of its key.
Grown(batch, decisions, feed, n) ==
    LET os == batch.orders
    IN  /\ os \in Seq(OrderType)
        /\ Len(orders) <= Len(os)
        /\ \A i \in DOMAIN orders : os[i] = orders[i]
        /\ \A i \in Fresh(os) :
              /\ \E k \in 1 .. n : /\ Survives(decisions[k], decisions, feed)
                                  /\ CanBeMapped(decisions[k], feed)
                                  /\ os[i] = NewOrder(decisions[k], feed)
              /\ DedupeKey(os[i]) \in batch.keys \ KeysInFlight
              /\ \A j \in Fresh(os) : DedupeKey(os[i]) = DedupeKey(os[j]) => i = j
        /\ KeysInFlight \subseteq batch.keys
        /\ \A key \in batch.keys :
              \/ key \in KeysInFlight
              \/ \E i \in Fresh(os) : key = DedupeKey(os[i])
        /\ \A k \in 1 .. n :
              Survives(decisions[k], decisions, feed) /\ CanBeMapped(decisions[k], feed)
                  => DedupeKey(decisions[k]) \in batch.keys

LEMMA NewOrderType ==
    ASSUME TypeOK, NEW feed \in FeedType, NEW d \in DecisionType, CanBeMapped(d, feed)
    PROVE  /\ NewOrder(d, feed) \in OrderType
           /\ DedupeKey(NewOrder(d, feed)) = DedupeKey(d)
           /\ NewOrder(d, feed).status = "inflight"
<1>1. now \in Int
  BY TradingAssumption DEF TypeOK
<1>2. OrderPrice(d, feed) \in Nat
  BY DEF OrderPrice, FeedType, DecisionType
<1>3. (IF d.exit THEN d.qty ELSE Lot) \in Nat \ {0}
  BY TradingAssumption DEF CanBeMapped, DecisionType
<1> QED
  BY <1>1, <1>2, <1>3 DEF NewOrder, OrderType, DedupeKey, DecisionType, Statuses

LEMMA BatchGrows ==
    ASSUME TypeOK, NEW feed \in FeedType, NEW decisions \in Seq(DecisionType),
           NEW n \in 1 .. Len(decisions), NEW batch,
           Grown(batch, decisions, feed, n - 1)
    PROVE  Grown(After(decisions, feed, batch, n), decisions, feed, n)
<1> DEFINE d == decisions[n]
           os == batch.orders
           o == NewOrder(d, feed)
           after == After(decisions, feed, batch, n)
           added == [orders |-> Append(os, o), keys |-> batch.keys \cup {DedupeKey(d)}]
<1>1. d \in DecisionType
  OBVIOUS
<1>2. CASE Survives(d, decisions, feed) /\ CanBeMapped(d, feed) /\ DedupeKey(d) \notin batch.keys
  <2>1. after = added
    BY <1>2 DEF After, Submit
  <2>2. o \in OrderType /\ DedupeKey(o) = DedupeKey(d)
    BY <1>1, <1>2, NewOrderType
  <2>3. os \in Seq(OrderType) /\ Len(orders) \in Nat /\ Len(orders) <= Len(os)
    BY DEF Grown, TypeOK
  <2> DEFINE qs == Append(os, o)
  <2>4. /\ qs \in Seq(OrderType)
        /\ Len(qs) = Len(os) + 1
        /\ qs[Len(os) + 1] = o
        /\ \A i \in 1 .. Len(os) : qs[i] = os[i]
    BY <2>2, <2>3
  <2>5. Fresh(qs) = Fresh(os) \cup {Len(os) + 1} /\ Fresh(os) \subseteq 1 .. Len(os)
    BY <2>3, <2>4 DEF Fresh
  <2>6. after.orders = qs /\ after.keys = batch.keys \cup {DedupeKey(d)}
    BY <2>1
  <2> HIDE DEF d, os, o, after, added, qs
  <2>7. KeysInFlight \subseteq batch.keys
    BY DEF Grown
  <2>8. \A i \in DOMAIN orders : qs[i] = orders[i]
    BY <2>3, <2>4 DEF Grown, TypeOK, os
  <2>9. ASSUME NEW i \in Fresh(qs)
        PROVE  /\ \E k \in 1 .. n : /\ Survives(decisions[k], decisions, feed)
                                   /\ CanBeMapped(decisions[k], feed)
                                   /\ qs[i] = NewOrder(decisions[k], feed)
               /\ DedupeKey(qs[i]) \in after.keys \ KeysInFlight
               /\ \A j \in Fresh(qs) : DedupeKey(qs[i]) = DedupeKey(qs[j]) => i = j
    <3>1. CASE i = Len(os) + 1
      <4>1. n \in 1 .. n /\ qs[i] = NewOrder(decisions[n], feed)
        BY <3>1, <2>4 DEF o, d
      <4>2. DedupeKey(qs[i]) = DedupeKey(d)
        BY <3>1, <2>2, <2>4
      <4>3. ASSUME NEW j \in Fresh(os)
            PROVE  DedupeKey(qs[j]) \in batch.keys
        BY <2>4, <2>5 DEF Grown, os
      <4> QED BY <4>1, <4>2, <4>3, <1>2, <2>5, <2>6, <2>7, <3>1 DEF d
    <3>2. CASE i \in Fresh(os)
      <4>1. qs[i] = os[i]
        BY <3>2, <2>4, <2>5
      <4>2. PICK k \in 1 .. n - 1 : /\ Survives(decisions[k], decisions, feed)
                                    /\ CanBeMapped(decisions[k], feed)
                                    /\ os[i] = NewOrder(decisions[k], feed)
        BY <3>2 DEF Grown, os
      <4>3. k \in 1 .. n
        OBVIOUS
      <4>4. DedupeKey(os[i]) \in batch.keys \ KeysInFlight
        BY <3>2 DEF Grown, os
      <4>5. ASSUME NEW j \in Fresh(qs), DedupeKey(qs[i]) = DedupeKey(qs[j])
            PROVE  i = j
        <5>1. CASE j = Len(os) + 1
          BY <5>1, <4>1, <4>4, <4>5, <2>2, <2>4, <1>2
        <5>2. CASE j \in Fresh(os)
          <6>1. qs[j] = os[j]
            BY <5>2, <2>4, <2>5
          <6> QED BY <6>1, <5>2, <3>2, <4>1, <4>5 DEF Grown, os
        <5> QED BY <5>1, <5>2, <2>5
      <4> QED BY <4>1, <4>2, <4>3, <4>4, <4>5, <2>6
    <3> QED BY <3>1, <3>2, <2>5
  <2>10. ASSUME NEW key \in after.keys
         PROVE  \/ key \in KeysInFlight
                \/ \E i \in Fresh(qs) : key = DedupeKey(qs[i])
    <3>1. CASE key = DedupeKey(d)
      BY <3>1, <2>2, <2>4, <2>5
    <3>2. CASE key \in batch.keys
      <4>1. \/ key \in KeysInFlight
            \/ \E i \in Fresh(os) : key = DedupeKey(os[i])
        BY <3>2 DEF Grown, os
      <4> QED BY <4>1, <2>4, <2>5
    <3> QED BY <3>1, <3>2, <2>6
  <2>11. ASSUME NEW k \in 1 .. n, Survives(decisions[k], decisions, feed),
                CanBeMapped(decisions[k], feed)
         PROVE  DedupeKey(decisions[k]) \in after.keys
    <3>1. CASE k = n
      BY <3>1, <2>6 DEF d
    <3>2. CASE k # n
      <4>1. k \in 1 .. n - 1
        BY <3>2
      <4> QED BY <4>1, <2>6, <2>11 DEF Grown
    <3> QED BY <3>1, <3>2
  <2>12. Len(orders) <= Len(qs) /\ qs \in Seq(OrderType)
    BY <2>3, <2>4
  <2> QED
    BY <2>6, <2>7, <2>8, <2>9, <2>10, <2>11, <2>12 DEF Grown, after
<1>3. CASE ~(Survives(d, decisions, feed) /\ CanBeMapped(d, feed) /\ DedupeKey(d) \notin batch.keys)
  <2>1. after = batch
    BY <1>3 DEF After, Submit
  <2>2. \A k \in 1 .. n : k = n \/ k \in 1 .. n - 1
    OBVIOUS
  <2>3. \A k \in 1 .. n - 1 : k \in 1 .. n
    OBVIOUS
  <2> HIDE DEF after
  <2> QED BY <1>3, <2>1, <2>2, <2>3 DEF Grown, after
<1> QED BY <1>2, <1>3

\* What an evaluation makes of the orders.
LEMMA ApplyGrows ==
    ASSUME TypeOK, NEW feed \in FeedType, NEW decisions \in Seq(DecisionType)
    PROVE  \E keys : Grown([orders |-> Apply(decisions, feed), keys |-> keys],
                           decisions, feed, Len(decisions))
<1> DEFINE b == Batches(decisions, feed)
           S == {n \in Nat : n <= Len(decisions) => Grown(b[n], decisions, feed, n)}
<1>1. /\ b[0] = Before
      /\ \A n \in 1 .. Len(decisions) : b[n] = After(decisions, feed, b[n - 1], n)
  BY BatchesEquation
<1> HIDE DEF b
<1>2. Grown(b[0], decisions, feed, 0)
  <2>1. Fresh(orders) = {}
    BY DEF Fresh, TypeOK
  <2> QED BY <1>1, <2>1 DEF Grown, Before, TypeOK
<1>3. ASSUME NEW n \in Nat, n \in S
      PROVE  n + 1 \in S
  <2> SUFFICES ASSUME n + 1 <= Len(decisions)
               PROVE  Grown(b[n + 1], decisions, feed, n + 1)
    OBVIOUS
  <2>1. n + 1 \in 1 .. Len(decisions) /\ n + 1 - 1 = n
    OBVIOUS
  <2>2. Grown(b[n], decisions, feed, n + 1 - 1)
    BY <1>3, <2>1
  <2>3. b[n + 1] = After(decisions, feed, b[n], n + 1)
    BY <1>1, <2>1
  <2> QED BY <2>1, <2>2, <2>3, BatchGrows
<1>4. \A n \in Nat : n \in S
  <2>1. 0 \in S
    BY <1>2
  <2> HIDE DEF S
  <2> QED BY <2>1, <1>3, Induction
<1>5. Grown(b[Len(decisions)], decisions, feed, Len(decisions))
  BY <1>4
<1>6. Apply(decisions, feed) = b[Len(decisions)].orders
  BY DEF Apply, b
<1> QED
  <2> WITNESS b[Len(decisions)].keys
  <2> QED BY <1>5, <1>6 DEF Grown

------------------------------------------------------------------------------
(***************************************************************************)
(* The cores: each decision is well formed, no close has a quantity, a     *)
(* hedge comes with nothing but hedges of its side, and any other entry    *)
(* is justified by the orders and the positions of the view.               *)
(***************************************************************************)
ZoneType == [side : Sides, conf : Nat]

ViewType(v) ==
    /\ v.now \in Int /\ v.left \in Int
    /\ v.bid \in [Sides -> Nat] /\ v.ask \in [Sides -> Nat]
    /\ v.last \in [Sides -> Nat] /\ v.depth \in [Sides -> Nat]
    /\ v.spot \in BOOLEAN /\ v.verified \in BOOLEAN /\ v.move \in Int
    /\ v.triggered \subseteq Sides
    /\ v.zones \in Seq(ZoneType)
    /\ v.orders \in Seq(OrderType)
    /\ v.pos \in [Sides -> [qty : Nat, avg : Nat, since : Int]]

CoreDecision == {d \in DecisionType : d.by = "core" /\ (d.exit => d.qty = 0)}

Hedging(side) == {d \in CoreDecision : d.pair /\ d.side = side}

\* The last entry that the venue accepted is long enough ago.
Spaced(v, side) ==
    AcceptedEntries(v) # {} =>
        LET last == Latest(v, AcceptedEntries(v))
        IN  /\ v.now - v.orders[last].at >= 7
            /\ v.orders[last].side # side => v.now - v.orders[last].at > 20

EnteringOnce ==
    {"vwap_momentum", "binary_momentum", "dump_hedge", "low_side_dual_reversion",
     "pre_order_market"}

SideIsFree(name, v, side) ==
    /\ name \in EnteringOnce => ~HasActivity(v, Sides)
    /\ name = "ninety_nine_cent_sniper" => ~HasActivity(v, {side})
    /\ name = "mid_price_sizing" => FilledLayers(v, side) < MaxLayers
    /\ name = "late_consensus" => Spaced(v, side)

Entering(name, v) ==
    {d \in CoreDecision : ~d.hedge /\ (d.exit \/ SideIsFree(name, v, d.side))}

OneAtMost == {"vwap_momentum", "binary_momentum", "late_consensus"}

Sensible(name, v, decisions) ==
    /\ \/ \E side \in Sides : decisions \in Seq(Hedging(side))
       \/ decisions \in Seq(Entering(name, v))
    /\ name \in OneAtMost => Len(decisions) <= 1

LEMMA WhenIsSeq ==
    ASSUME NEW S, NEW condition \in BOOLEAN, NEW d, condition => d \in S
    PROVE  /\ When(condition, d) \in Seq(S)
           /\ Len(When(condition, d)) = IF condition THEN 1 ELSE 0
BY DEF When

LEMMA EntriesAreSensible ==
    ASSUME NEW name, NEW v, NEW decisions \in Seq(Entering(name, v)),
           name \in OneAtMost => Len(decisions) <= 1
    PROVE  Sensible(name, v, decisions)
BY DEF Sensible, OneAtMost

LEMMA HedgesAreSensible ==
    ASSUME NEW name, NEW v, NEW side \in Sides, NEW decisions \in Seq(Hedging(side)),
           name \in OneAtMost => Len(decisions) <= 1
    PROVE  Sensible(name, v, decisions)
BY DEF Sensible, OneAtMost

LEMMA EmptyIsSensible ==
    ASSUME NEW name, NEW v
    PROVE  Sensible(name, v, << >>)
BY DEF Sensible, OneAtMost

LEMMA WhenIsSensible ==
    ASSUME NEW name, NEW v, NEW condition \in BOOLEAN, NEW d,
           condition => d \in Entering(name, v)
    PROVE  Sensible(name, v, When(condition, d))
<1>1. /\ When(condition, d) \in Seq(Entering(name, v))
      /\ Len(When(condition, d)) = IF condition THEN 1 ELSE 0
  BY WhenIsSeq
<1> DEFINE decisions == When(condition, d)
<1> HIDE DEF decisions
<1>2. decisions \in Seq(Entering(name, v)) /\ Len(decisions) <= 1
  BY <1>1 DEF decisions
<1>3. Sensible(name, v, decisions)
  BY <1>2, EntriesAreSensible
<1> QED BY <1>3 DEF decisions

\* An entry of a core, whatever justifies it.
Plain(side) == {d \in CoreDecision : d.side = side /\ ~d.hedge /\ ~d.exit}

\* The forms that the cores give to a decision.
LEMMA PlainDefault ==
    ASSUME NEW side \in Sides, NEW limit \in Nat, NEW conf \in Nat
    PROVE  Decision(side, limit, conf) \in Plain(side)
BY DEF Decision, Plain, CoreDecision, DecisionType, Intents, NoStamp

LEMMA PlainTaker ==
    ASSUME NEW side \in Sides, NEW limit \in Nat, NEW conf \in Nat, NEW intent \in Intents
    PROVE  [Decision(side, limit, conf) EXCEPT !.intent = intent] \in Plain(side)
BY DEF Decision, Plain, CoreDecision, DecisionType, Intents, NoStamp

LEMMA PlainSized ==
    ASSUME NEW side \in Sides, NEW limit \in Nat, NEW conf \in Nat, NEW intent \in Intents,
           NEW size \in Nat, NEW stop \in Nat
    PROVE  [Decision(side, limit, conf)
              EXCEPT !.intent = intent, !.qty = size, !.stop = stop] \in Plain(side)
BY DEF Decision, Plain, CoreDecision, DecisionType, Intents, NoStamp

LEMMA PlainStamped ==
    ASSUME NEW side \in Sides, NEW limit \in Nat, NEW conf \in Nat,
           NEW stop \in Nat, NEW target \in Nat
    PROVE  [Decision(side, limit, conf) EXCEPT !.stop = stop, !.target = target]
               \in Plain(side)
BY DEF Decision, Plain, CoreDecision, DecisionType, Intents, NoStamp

LEMMA PlainResting ==
    ASSUME NEW side \in Sides, NEW limit \in Nat, NEW conf \in Nat, NEW intent \in Intents,
           NEW life \in Nat
    PROVE  [Decision(side, limit, conf) EXCEPT !.intent = intent, !.life = life]
               \in Plain(side)
BY DEF Decision, Plain, CoreDecision, DecisionType, Intents, NoStamp

LEMMA PlainRung ==
    ASSUME NEW side \in Sides, NEW limit \in Nat, NEW conf \in Nat, NEW intent \in Intents,
           NEW size \in Nat, NEW life \in Nat
    PROVE  [Decision(side, limit, conf)
              EXCEPT !.intent = intent, !.qty = size, !.life = life] \in Plain(side)
BY DEF Decision, Plain, CoreDecision, DecisionType, Intents, NoStamp

LEMMA PlainPair ==
    ASSUME NEW side \in Sides, NEW limit \in Nat, NEW conf \in Nat, NEW intent \in Intents,
           NEW size \in Nat
    PROVE  [Decision(side, limit, conf)
              EXCEPT !.intent = intent, !.pair = TRUE, !.qty = size] \in Plain(side)
BY DEF Decision, Plain, CoreDecision, DecisionType, Intents, NoStamp

LEMMA PlainRestingPair ==
    ASSUME NEW side \in Sides, NEW limit \in Nat, NEW conf \in Nat, NEW intent \in Intents,
           NEW size \in Nat, NEW life \in Nat
    PROVE  [Decision(side, limit, conf)
              EXCEPT !.intent = intent, !.pair = TRUE, !.qty = size, !.life = life]
               \in Plain(side)
BY DEF Decision, Plain, CoreDecision, DecisionType, Intents, NoStamp

\* Only the side of an entry has to be justified.
LEMMA PlainEnters ==
    ASSUME NEW name, NEW v, NEW side, NEW d \in Plain(side),
           name \in EnteringOnce => ~HasActivity(v, Sides),
           name = "ninety_nine_cent_sniper" => ~HasActivity(v, {side}),
           name = "mid_price_sizing" => FilledLayers(v, side) < MaxLayers,
           name = "late_consensus" => Spaced(v, side)
    PROVE  d \in Entering(name, v)
BY DEF Plain, Entering, SideIsFree

LEMMA OppositeSide ==
    ASSUME NEW side \in Sides
    PROVE  Opposite(side) \in Sides /\ Opposite(side) # side
BY DEF Opposite, Sides

LEMMA LeastNat ==
    ASSUME NEW a \in Nat, NEW b \in Nat
    PROVE  Least(a, b) \in Nat
BY DEF Least

LEMMA HedgeIsHedging ==
    ASSUME NEW v, NEW leg \in Sides, NEW price \in Nat, NEW intent \in Intents, NEW conf \in Nat
    PROVE  Hedge(v, leg, price, intent, conf) \in Hedging(Opposite(leg))
<1>1. Opposite(leg) \in Sides
  BY OppositeSide
<1> QED BY <1>1 DEF Hedge, Hedging, CoreDecision, Decision, DecisionType, Intents, NoStamp

LEMMA SizedHedge ==
    ASSUME NEW v, NEW leg \in Sides, NEW price \in Nat, NEW intent \in Intents,
           NEW conf \in Nat, NEW life \in Nat, NEW size \in Nat
    PROVE  [Hedge(v, leg, price, intent, conf) EXCEPT !.life = life, !.qty = size]
               \in Hedging(Opposite(leg))
<1>1. Opposite(leg) \in Sides
  BY OppositeSide
<1> QED BY <1>1 DEF Hedge, Hedging, CoreDecision, Decision, DecisionType, Intents, NoStamp

LEMMA VwapMomentumSensible ==
    ASSUME NEW v, ViewType(v)
    PROVE  Sensible("vwap_momentum", v, VwapMomentum(v))
<1> DEFINE favourite == IF v.last["UP"] >= v.last["DOWN"] THEN "UP" ELSE "DOWN"
           price == v.last[favourite]
           hedged == {leg \in UnhedgedLegs(v) : ~HasHedgeOrder(v)
                                              /\ v.ask[Opposite(leg)] # NoPrice}
           leg == CHOOSE l \in hedged : TRUE
           size == v.pos[leg].qty
           price2 == 2
           conf70 == 70
           hour == 3600
           hedge == [Hedge(v, leg, price2, "GTD", conf70) EXCEPT !.life = hour, !.qty = size]
           due == /\ \A side \in Sides : v.last[side] # NoPrice
                  /\ price \in 35 .. 85
                  /\ Elapsed(v) >= 45
                  /\ v.left > 20
                  /\ favourite \in v.triggered
                  /\ ~HasActivity(v, Sides)
                  /\ v.ask[favourite] # NoPrice
           entry == Decision(favourite, Least(85, price + 5), 50)
<1>1. VwapMomentum(v) = IF hedged # {} THEN <<hedge>> ELSE When(due, entry)
  BY DEF VwapMomentum
<1>2. CASE hedged # {}
  <2>1. leg \in Sides
    BY <1>2 DEF UnhedgedLegs
  <2>2. size \in Nat
    BY <2>1 DEF ViewType
  <2>2a. price2 \in Nat /\ conf70 \in Nat /\ hour \in Nat /\ "GTD" \in Intents
    BY DEF Intents
  <2> HIDE DEF leg, hedged, due, entry, size, price2, conf70, hour
  <2>3. Opposite(leg) \in Sides
    BY <2>1, OppositeSide
  <2>4. hedge \in Hedging(Opposite(leg))
    BY <2>1, <2>2, <2>2a, SizedHedge, Zenon
  <2> HIDE DEF hedge
  <2>5. <<hedge>> \in Seq(Hedging(Opposite(leg))) /\ Len(<<hedge>>) <= 1
    BY <2>4
  <2> QED BY <1>1, <1>2, <2>3, <2>5, HedgesAreSensible
<1>3. CASE hedged = {}
  <2>1. favourite \in Sides
    BY DEF Sides
  <2>2. price \in Nat
    BY <2>1 DEF ViewType
  <2> HIDE DEF favourite, price, hedged
  <2>3. Least(85, price + 5) \in Nat
    BY <2>2, LeastNat
  <2>4. entry \in Plain(favourite)
    BY <2>1, <2>3, PlainDefault
  <2> HIDE DEF entry
  <2>5. due \in BOOLEAN /\ (due => entry \in Entering("vwap_momentum", v))
    BY <2>4, PlainEnters
  <2> HIDE DEF due
  <2>6. VwapMomentum(v) = When(due, entry)
    BY <1>1, <1>3
  <2> QED BY <2>5, <2>6, WhenIsSensible
<1> QED BY <1>2, <1>3

LEMMA BinaryMomentumSensible ==
    ASSUME NEW v, ViewType(v)
    PROVE  Sensible("binary_momentum", v, BinaryMomentum(v))
<1> DEFINE conf == 50
           due(side) == /\ v.triggered = {side}
                        /\ Quoted(v, side)
                        /\ v.bid[side] + v.ask[side] <= 140
                        /\ ~HasActivity(v, Sides)
           entry(side) == [Decision(side, v.ask[side], conf) EXCEPT !.intent = "FAK"]
           up == When(due("UP"), entry("UP"))
           down == When(due("DOWN"), entry("DOWN"))
<1>1. BinaryMomentum(v) = up \o down
  BY DEF BinaryMomentum
<1>2. conf \in Nat /\ "FAK" \in Intents
  BY DEF Intents
<1> HIDE DEF conf
<1>3. ASSUME NEW side \in Sides
      PROVE  /\ When(due(side), entry(side)) \in Seq(Entering("binary_momentum", v))
             /\ Len(When(due(side), entry(side))) = IF due(side) THEN 1 ELSE 0
  <2>1. v.ask[side] \in Nat
    BY DEF ViewType
  <2>2. entry(side) \in Plain(side)
    BY <1>2, <2>1, PlainTaker, Zenon
  <2> HIDE DEF entry
  <2>3. due(side) \in BOOLEAN /\ (due(side) => entry(side) \in Entering("binary_momentum", v))
    BY <2>2, PlainEnters
  <2> HIDE DEF due
  <2> QED BY <2>3, WhenIsSeq
<1>4. ~(due("UP") /\ due("DOWN"))
  OBVIOUS
<1>5. /\ up \in Seq(Entering("binary_momentum", v)) /\ Len(up) = IF due("UP") THEN 1 ELSE 0
      /\ down \in Seq(Entering("binary_momentum", v)) /\ Len(down) = IF due("DOWN") THEN 1 ELSE 0
  BY <1>3 DEF Sides
<1> HIDE DEF up, down, due
<1>6. up \o down \in Seq(Entering("binary_momentum", v)) /\ Len(up \o down) <= 1
  BY <1>4, <1>5
<1> QED BY <1>1, <1>6, EntriesAreSensible

LEMMA LateConsensusSensible ==
    ASSUME NEW v, ViewType(v)
    PROVE  Sensible("late_consensus", v, LateConsensus(v))
<1> DEFINE up == v.ask["UP"]
           down == v.ask["DOWN"]
           favourite == IF up > down THEN "UP" ELSE "DOWN"
           size == IF v.left > 60 THEN 8 ELSE IF v.left > 40 THEN 10 ELSE 12
           last == Latest(v, AcceptedEntries(v))
           limit == 93
           conf == Least(95, Magnitude(up - down) + 35)
           stop == 4800
           due == /\ BothAsked(v)
                  /\ v.left \in 1 .. 120
                  /\ AcceptedEntries(v) # {} =>
                        /\ v.now - v.orders[last].at >= 7
                        /\ v.orders[last].side # favourite => v.now - v.orders[last].at > 20
                  /\ up + down <= 105
                  /\ Magnitude(up - down) >= 30
                  /\ v.ask[favourite] <= 93
           entry == [Decision(favourite, limit, conf)
                       EXCEPT !.intent = "IOC", !.qty = size, !.stop = stop]
<1>1. LateConsensus(v) = When(due, entry)
  BY DEF LateConsensus
<1>2. up \in Nat /\ down \in Nat
  BY DEF ViewType, Sides
<1>3. Magnitude(up - down) + 35 \in Nat
  BY <1>2 DEF Magnitude
<1>4. conf \in Nat
  BY <1>3, LeastNat
<1>5. favourite \in Sides /\ size \in Nat /\ limit \in Nat /\ stop \in Nat /\ "IOC" \in Intents
  BY DEF Sides, Intents
<1>6. due => Spaced(v, favourite)
  BY DEF Spaced
<1> HIDE DEF conf, favourite, size, limit, stop
<1>7. entry \in Plain(favourite)
  BY <1>4, <1>5, PlainSized, Zenon
<1> HIDE DEF entry
<1>8. due \in BOOLEAN /\ (due => entry \in Entering("late_consensus", v))
  BY <1>6, <1>7, PlainEnters DEF EnteringOnce
<1> HIDE DEF due
<1> QED BY <1>1, <1>8, WhenIsSensible

LEMMA PtbDiffSensible ==
    ASSUME NEW v, ViewType(v)
    PROVE  Sensible("ptb_diff", v, PtbDiff(v))
<1> DEFINE side == IF v.move > 0 THEN "UP" ELSE "DOWN"
           ask == v.ask[side]
           limit == 92
           conf == 55
           due == /\ v.spot /\ v.verified
                  /\ v.left > 0
                  /\ \E t \in PtbTriggers : Magnitude(v.move) >= t[1] /\ v.left <= t[2]
                  /\ ask \in 80 .. 92
                  /\ Quoted(v, side)
                  /\ SpreadOf(v, side) <= 8
           entry == [Decision(side, limit, conf)
                       EXCEPT !.stop = PtbStop(ask), !.target = PtbTarget(ask)]
<1>1. PtbDiff(v) = When(due, entry)
  BY DEF PtbDiff
<1>2. side \in Sides /\ limit \in Nat /\ conf \in Nat
  BY DEF Sides
<1>3. ask \in Nat
  BY <1>2 DEF ViewType
<1>4. PtbStop(ask) \in Nat /\ PtbTarget(ask) \in Nat
  BY <1>3 DEF PtbStop, PtbTarget, Least
<1> HIDE DEF side, ask, limit, conf
<1>5. entry \in Plain(side)
  BY <1>2, <1>4, PlainStamped, Zenon
<1> HIDE DEF entry
<1>6. due \in BOOLEAN /\ (due => entry \in Entering("ptb_diff", v))
  <2>1. due \in BOOLEAN
    BY DEF ViewType
  <2> QED BY <1>5, <2>1, PlainEnters DEF EnteringOnce
<1> HIDE DEF due
<1> QED BY <1>1, <1>6, WhenIsSensible

LEMMA SkewMeanReversionSensible ==
    ASSUME NEW v, ViewType(v)
    PROVE  Sensible("skew_mean_reversion", v, SkewMeanReversion(v))
<1> DEFINE up == v.ask["UP"]
           down == v.ask["DOWN"]
           cheap == IF up < down THEN "UP" ELSE "DOWN"
           limit == 85
           conf == 55
           due == /\ BothAsked(v)
                  /\ v.left <= 3600
                  /\ 40 * Magnitude(up - down) >= up + down
                  /\ v.ask[cheap] <= 85
                  /\ Quoted(v, cheap) => SpreadOf(v, cheap) <= 5
           entry == Decision(cheap, limit, conf)
<1>1. SkewMeanReversion(v) = When(due, entry)
  BY DEF SkewMeanReversion
<1>2. cheap \in Sides /\ limit \in Nat /\ conf \in Nat
  BY DEF Sides
<1> HIDE DEF cheap, limit, conf
<1>3. entry \in Plain(cheap)
  BY <1>2, PlainDefault
<1> HIDE DEF entry
<1>4. entry \in Entering("skew_mean_reversion", v)
  BY <1>3, PlainEnters DEF EnteringOnce
<1>5. due \in BOOLEAN
  OBVIOUS
<1> HIDE DEF due
<1> QED BY <1>1, <1>4, <1>5, WhenIsSensible

LEMMA NinetyNineCentSniperSensible ==
    ASSUME NEW v, ViewType(v)
    PROVE  Sensible("ninety_nine_cent_sniper", v, NinetyNineCentSniper(v))
<1> DEFINE name == "ninety_nine_cent_sniper"
           limit == 99
           conf == 96
           due(side) == /\ ~HasActivity(v, {side})
                        /\ AskAtMost(v, side, 99)
                        /\ v.bid[side] > 94
                        /\ v.bid[side] + v.ask[side] >= 199
                        /\ AskAtMost(v, Opposite(side), 5)
           entry(side) == [Decision(side, limit, conf) EXCEPT !.intent = "FOK"]
           up == When(due("UP"), entry("UP"))
           down == When(due("DOWN"), entry("DOWN"))
<1>1. NinetyNineCentSniper(v) = IF v.left <= 90 THEN up \o down ELSE << >>
  BY DEF NinetyNineCentSniper
<1>2. limit \in Nat /\ conf \in Nat /\ "FOK" \in Intents
  BY DEF Intents
<1> HIDE DEF limit, conf
<1>3. ASSUME NEW side \in Sides
      PROVE  When(due(side), entry(side)) \in Seq(Entering(name, v))
  <2>1. entry(side) \in Plain(side)
    BY <1>2, PlainTaker, Zenon
  <2> HIDE DEF entry
  <2>2. due(side) \in BOOLEAN /\ (due(side) => entry(side) \in Entering(name, v))
    BY <2>1, PlainEnters DEF EnteringOnce
  <2> HIDE DEF due
  <2> QED BY <2>2, WhenIsSeq
<1>4. up \in Seq(Entering(name, v)) /\ down \in Seq(Entering(name, v))
  BY <1>3 DEF Sides
<1> HIDE DEF up, down
<1>5. up \o down \in Seq(Entering(name, v))
  BY <1>4
<1> QED BY <1>1, <1>5, EntriesAreSensible, EmptyIsSensible DEF OneAtMost

LEMMA OneCentBuySensible ==
    ASSUME NEW v, ViewType(v)
    PROVE  Sensible("one_cent_buy", v, OneCentBuy(v))
<1> DEFINE S == Entering("one_cent_buy", v)
           size == 10
           life == v.left - 20
           due(side, price) == /\ v.ask[side] # NoPrice
                               /\ ~HasEntryLevel(v, side, price)
                               /\ price < v.ask[side]
           entry(side, price, conf) ==
               [Decision(side, price, conf)
                  EXCEPT !.intent = "GTD", !.qty = size, !.life = life]
           rung(side, price, conf) == When(due(side, price), entry(side, price, conf))
           up == rung("UP", 1, 45) \o rung("UP", 2, 40) \o rung("UP", 3, 35)
           down == rung("DOWN", 1, 45) \o rung("DOWN", 2, 40) \o rung("DOWN", 3, 35)
<1>1. OneCentBuy(v) = IF v.left > 20 /\ Elapsed(v) \in 0 .. 280 THEN up \o down ELSE << >>
  BY DEF OneCentBuy
<1>2. CASE v.left > 20
  <2>1. size \in Nat /\ life \in Nat /\ "GTD" \in Intents
    BY <1>2 DEF ViewType, Intents
  <2> HIDE DEF size, life
  <2>2. ASSUME NEW side \in Sides, NEW price \in Nat, NEW conf \in Nat
        PROVE  rung(side, price, conf) \in Seq(S)
    <3>1. entry(side, price, conf) \in Plain(side)
      BY <2>1, PlainRung, Zenon
    <3> HIDE DEF entry
    <3>2. entry(side, price, conf) \in S
      BY <3>1, PlainEnters DEF EnteringOnce
    <3>3. due(side, price) \in BOOLEAN
      OBVIOUS
    <3> HIDE DEF due, S
    <3> QED BY <3>2, <3>3, WhenIsSeq
  <2> HIDE DEF rung
  <2>3. /\ rung("UP", 1, 45) \in Seq(S) /\ rung("UP", 2, 40) \in Seq(S)
        /\ rung("UP", 3, 35) \in Seq(S)
        /\ rung("DOWN", 1, 45) \in Seq(S) /\ rung("DOWN", 2, 40) \in Seq(S)
        /\ rung("DOWN", 3, 35) \in Seq(S)
    BY <2>2 DEF Sides
  <2>4. up \in Seq(S) /\ down \in Seq(S)
    BY <2>3
  <2> HIDE DEF up, down
  <2>5. up \o down \in Seq(S)
    BY <2>4
  <2> QED BY <1>1, <2>5, EntriesAreSensible, EmptyIsSensible DEF OneAtMost
<1>3. CASE ~(v.left > 20)
  BY <1>1, <1>3, EmptyIsSensible
<1> QED BY <1>2, <1>3

ZoneAfter(v, entries, n) == entries \o ZoneEntry(v, v.zones[n])

LEMMA ZoneEntriesEquation ==
    ASSUME NEW v, Len(v.zones) \in Nat
    PROVE  /\ ZoneEntries(v)[0] = << >>
           /\ \A n \in 1 .. Len(v.zones) :
                 ZoneEntries(v)[n] = ZoneAfter(v, ZoneEntries(v)[n - 1], n)
<1> DEFINE len == Len(v.zones)
           Equation(f, m) ==
               f = [n \in 0 .. m |-> IF n = 0 THEN << >> ELSE ZoneAfter(v, f[n - 1], n)]
           S == {m \in Nat : \E f : Equation(f, m)}
<1>1. 0 \in S
  <2>1. Equation([n \in 0 .. 0 |-> << >>], 0)
    OBVIOUS
  <2> QED BY <2>1
<1>2. ASSUME NEW m \in Nat, m \in S
      PROVE  m + 1 \in S
  <2>1. PICK f : Equation(f, m)
    BY <1>2
  <2> DEFINE g == [n \in 0 .. m + 1 |->
                     IF n = m + 1 THEN ZoneAfter(v, f[m], n) ELSE f[n]]
  <2>2. Equation(g, m + 1)
    <3>1. ASSUME NEW n \in 0 .. m + 1
          PROVE  g[n] = IF n = 0 THEN << >> ELSE ZoneAfter(v, g[n - 1], n)
      <4>1. CASE n = m + 1
        BY <4>1
      <4>2. CASE n # m + 1
        <5>1. n \in 0 .. m
          BY <4>2
        <5>2. f[n] = IF n = 0 THEN << >> ELSE ZoneAfter(v, f[n - 1], n)
          BY <2>1, <5>1
        <5>3. n # 0 => g[n - 1] = f[n - 1]
          BY <5>1
        <5> QED BY <5>1, <5>2, <5>3, <4>2
      <4> QED BY <4>1, <4>2
    <3> QED BY <3>1
  <2>3. \E h : Equation(h, m + 1)
    <3> HIDE DEF g, Equation
    <3> QED BY <2>2
  <2> HIDE DEF Equation
  <2> QED BY <2>3
<1>3. \E f : Equation(f, len)
  <2> HIDE DEF Equation
  <2>1. \A m \in Nat : m \in S
    <3> HIDE DEF S
    <3> QED BY <1>1, <1>2, Induction
  <2>2. len \in Nat
    OBVIOUS
  <2> HIDE DEF len
  <2> QED BY <2>1, <2>2
<1>4. Equation(ZoneEntries(v), len)
  BY <1>3 DEF ZoneEntries, ZoneAfter
<1> DEFINE b == ZoneEntries(v)
<1>5. len \in Nat
  OBVIOUS
<1> HIDE DEF b, len
<1>6. b = [n \in 0 .. len |-> IF n = 0 THEN << >> ELSE ZoneAfter(v, b[n - 1], n)]
  BY <1>4 DEF b
<1>7. /\ b[0] = << >>
      /\ \A n \in 1 .. len : b[n] = ZoneAfter(v, b[n - 1], n)
  BY <1>5, <1>6
<1> QED BY <1>7 DEF b, len

LEMMA FibonacciBotSensible ==
    ASSUME NEW v, ViewType(v)
    PROVE  Sensible("fibonacci_bot", v, FibonacciBot(v))
<1> DEFINE S == Entering("fibonacci_bot", v)
           b == ZoneEntries(v)
           zones == v.zones
           T == {n \in Nat : n <= Len(zones) => b[n] \in Seq(S)}
<1>1. ASSUME NEW zone \in ZoneType
      PROVE  ZoneEntry(v, zone) \in Seq(S)
  <2> DEFINE side == zone.side
             conf == zone.conf
             due == AskAtMost(v, side, 60)
             limit == Least(v.ask[side] + 2, 60)
             life == 300
             entry == [Decision(side, limit, conf) EXCEPT !.intent = "GTD", !.life = life]
  <2>1. ZoneEntry(v, zone) = When(due, entry)
    BY DEF ZoneEntry
  <2>2. side \in Sides /\ conf \in Nat /\ life \in Nat /\ "GTD" \in Intents
    BY DEF Intents, ZoneType
  <2>3. limit \in Nat
    <3>1. v.ask[side] + 2 \in Nat
      BY <2>2 DEF ViewType
    <3> QED BY <3>1, LeastNat
  <2>4. due \in BOOLEAN
    BY DEF AskAtMost
  <2> HIDE DEF side, conf, due, limit, life
  <2>5. entry \in Plain(side)
    BY <2>2, <2>3, PlainResting, Zenon
  <2> HIDE DEF entry
  <2>6. entry \in S
    BY <2>5, PlainEnters DEF EnteringOnce
  <2> HIDE DEF S
  <2> QED BY <2>1, <2>4, <2>6, WhenIsSeq
<1>2. zones \in Seq(ZoneType) /\ Len(zones) \in Nat
  BY DEF ViewType
<1>3. /\ b[0] = << >>
      /\ \A n \in 1 .. Len(zones) : b[n] = ZoneAfter(v, b[n - 1], n)
  BY <1>2, ZoneEntriesEquation
<1>4. FibonacciBot(v) = IF v.spot THEN b[Len(zones)] ELSE << >>
  BY DEF FibonacciBot
<1>5. ASSUME NEW n \in 1 .. Len(zones), NEW q \in Seq(S)
      PROVE  ZoneAfter(v, q, n) \in Seq(S)
  <2>1. zones[n] \in ZoneType
    <3> HIDE DEF zones, S, b
    <3> QED BY <1>2
  <2>2. ZoneEntry(v, zones[n]) \in Seq(S)
    <3> HIDE DEF zones, S, b
    <3> QED BY <1>1, <2>1
  <2> HIDE DEF S
  <2> QED BY <2>2 DEF ZoneAfter
<1> HIDE DEF b, S, zones
<1>6. 0 \in T
  <2>1. << >> \in Seq(S)
    OBVIOUS
  <2> QED BY <1>3, <2>1
<1>7. ASSUME NEW n \in Nat, n \in T
      PROVE  n + 1 \in T
  <2> SUFFICES ASSUME n + 1 <= Len(zones)
               PROVE  b[n + 1] \in Seq(S)
    OBVIOUS
  <2>1. n + 1 \in 1 .. Len(zones) /\ n + 1 - 1 = n
    BY <1>2
  <2>2. b[n] \in Seq(S)
    BY <1>2, <1>7
  <2>3. b[n + 1] = ZoneAfter(v, b[n], n + 1)
    BY <2>1, <1>3
  <2> QED BY <2>1, <2>2, <2>3, <1>5
<1>8. \A n \in Nat : n \in T
  <2> HIDE DEF T
  <2> QED BY <1>6, <1>7, Induction
<1>9. b[Len(zones)] \in Seq(S)
  BY <1>2, <1>8
<1> QED BY <1>4, <1>9, EntriesAreSensible, EmptyIsSensible DEF S, OneAtMost

\* At most two hedges of a leg.
LEMMA HedgesOfLeg ==
    ASSUME NEW v, NEW leg \in Sides, NEW intent \in Intents,
           NEW a \in BOOLEAN, NEW price \in Nat, NEW conf \in Nat,
           NEW b \in BOOLEAN, NEW price2 \in Nat, NEW conf2 \in Nat
    PROVE  /\ When(a, Hedge(v, leg, price, intent, conf))
                 \in Seq(Hedging(Opposite(leg)))
           /\ When(a, Hedge(v, leg, price, intent, conf))
                 \o When(b, Hedge(v, leg, price2, intent, conf2))
                 \in Seq(Hedging(Opposite(leg)))
<1> DEFINE first == When(a, Hedge(v, leg, price, intent, conf))
           second == When(b, Hedge(v, leg, price2, intent, conf2))
           S == Hedging(Opposite(leg))
<1>1. /\ Hedge(v, leg, price, intent, conf) \in S
      /\ Hedge(v, leg, price2, intent, conf2) \in S
  BY HedgeIsHedging
<1> HIDE DEF S
<1>2. first \in Seq(S) /\ second \in Seq(S)
  BY <1>1, WhenIsSeq
<1> HIDE DEF first, second
<1>3. first \o second \in Seq(S)
  BY <1>2
<1> QED BY <1>2, <1>3 DEF first, second, S

LEMMA LegIsSide ==
    ASSUME NEW v, ViewType(v), UnhedgedLegs(v) # {}
    PROVE  LET leg == CHOOSE l \in UnhedgedLegs(v) : TRUE
           IN  /\ leg \in Sides /\ Opposite(leg) \in Sides
               /\ v.ask[Opposite(leg)] \in Nat /\ v.depth[Opposite(leg)] \in Nat
               /\ v.pos[leg].avg \in Nat /\ HeldFor(v, leg) \in Int
<1> DEFINE leg == CHOOSE l \in UnhedgedLegs(v) : TRUE
<1>1. leg \in Sides
  BY DEF UnhedgedLegs
<1> HIDE DEF leg
<1>2. Opposite(leg) \in Sides
  BY <1>1, OppositeSide
<1>3. v.ask[Opposite(leg)] \in Nat /\ v.depth[Opposite(leg)] \in Nat
  BY <1>2 DEF ViewType
<1>4. v.pos[leg] \in [qty : Nat, avg : Nat, since : Int]
  BY <1>1 DEF ViewType
<1>5. v.pos[leg].avg \in Nat /\ v.pos[leg].since \in Int
  BY <1>4
<1>6. HeldFor(v, leg) \in Int
  BY <1>5 DEF HeldFor, ViewType
<1> QED BY <1>1, <1>2, <1>3, <1>5, <1>6 DEF leg

LEMMA DumpHedgeSensible ==
    ASSUME NEW v, ViewType(v)
    PROVE  Sensible("dump_hedge", v, DumpHedge(v))
<1> DEFINE leg == CHOOSE l \in UnhedgedLegs(v) : TRUE
           ask == v.ask[Opposite(leg)]
           cost == PairCost(v.pos[leg].avg, ask)
           cheap == cost <= 95
           stopped == HeldFor(v, leg) >= 90 /\ cost <= 105
           conf70 == 70
           conf50 == 50
           hedges == When(cheap, Hedge(v, leg, ask, "FOK", conf70))
                         \o When(stopped, Hedge(v, leg, ask, "FOK", conf50))
           conf == 75
           size == 10
           due(side) == side \in v.triggered /\ v.ask[side] # NoPrice
           entry(side) == [Decision(side, v.ask[side], conf)
                             EXCEPT !.intent = "FAK", !.pair = TRUE, !.qty = size]
           up == When(due("UP"), entry("UP"))
           down == When(due("DOWN"), entry("DOWN"))
           S == Entering("dump_hedge", v)
<1>1. DumpHedge(v) = IF UnhedgedLegs(v) # {}
                     THEN IF HasHedgeOrder(v) \/ ask = NoPrice THEN << >> ELSE hedges
                     ELSE IF HasActivity(v, Sides) \/ Elapsed(v) \notin 0 .. 300
                     THEN << >> ELSE up \o down
  BY DEF DumpHedge
<1>2. CASE UnhedgedLegs(v) # {}
  <2>1. leg \in Sides /\ Opposite(leg) \in Sides /\ ask \in Nat
    BY <1>2, LegIsSide
  <2>2. /\ cheap \in BOOLEAN /\ stopped \in BOOLEAN /\ "FOK" \in Intents
        /\ conf70 \in Nat /\ conf50 \in Nat
    BY DEF Intents
  <2> HIDE DEF leg, ask, cheap, stopped, conf70, conf50
  <2>3. hedges \in Seq(Hedging(Opposite(leg)))
    BY <2>1, <2>2, HedgesOfLeg, Zenon
  <2> HIDE DEF hedges, up, down
  <2> QED BY <1>1, <1>2, <2>1, <2>3, HedgesAreSensible, EmptyIsSensible DEF OneAtMost
<1>3. CASE UnhedgedLegs(v) = {} /\ HasActivity(v, Sides)
  <2> HIDE DEF hedges, up, down
  <2> QED BY <1>1, <1>3, EmptyIsSensible
<1>4. CASE UnhedgedLegs(v) = {} /\ ~HasActivity(v, Sides)
  <2>1. conf \in Nat /\ size \in Nat /\ "FAK" \in Intents
    BY DEF Intents
  <2> HIDE DEF conf, size
  <2>2. ASSUME NEW side \in Sides
        PROVE  When(due(side), entry(side)) \in Seq(S)
    <3>1. v.ask[side] \in Nat
      BY DEF ViewType
    <3>2. entry(side) \in Plain(side)
      BY <2>1, <3>1, PlainPair, Zenon
    <3> HIDE DEF entry
    <3>3. entry(side) \in S /\ due(side) \in BOOLEAN
      BY <1>4, <3>2, PlainEnters
    <3> HIDE DEF due, S
    <3> QED BY <3>3, WhenIsSeq
  <2>3. up \in Seq(S) /\ down \in Seq(S)
    BY <2>2 DEF Sides
  <2> HIDE DEF up, down, hedges
  <2>4. up \o down \in Seq(S)
    BY <2>3
  <2> QED BY <1>1, <1>4, <2>4, EntriesAreSensible, EmptyIsSensible DEF OneAtMost
<1> QED BY <1>2, <1>3, <1>4

LEMMA LowSideDualReversionSensible ==
    ASSUME NEW v, ViewType(v)
    PROVE  Sensible("low_side_dual_reversion", v, LowSideDualReversion(v))
<1> DEFINE leg == CHOOSE l \in UnhedgedLegs(v) : TRUE
           other == Opposite(leg)
           avg == v.pos[leg].avg
           depth == v.depth[other]
           ask == v.ask[other]
           cheap == depth # NoPrice /\ ask # NoPrice /\ PairCost(avg, depth) <= 98
           stopped == /\ HeldFor(v, leg) >= 20
                      /\ ask # NoPrice
                      /\ PairCost(avg, ask) <= 103
           conf70 == 70
           conf50 == 50
           hedges == When(cheap, Hedge(v, leg, depth, "FAK", conf70))
                         \o When(stopped, Hedge(v, leg, ask, "FAK", conf50))
           bid == DualBid(v)
           conf == 60
           size == 5
           life == Least(v.left - 60, 300)
           entry(side) == [Decision(side, bid, conf)
                             EXCEPT !.intent = "GTD", !.pair = TRUE, !.qty = size, !.life = life]
           S == Entering("low_side_dual_reversion", v)
<1>1. LowSideDualReversion(v)
        = IF UnhedgedLegs(v) # {}
          THEN IF HasHedgeOrder(v) THEN << >> ELSE hedges
          ELSE IF v.left <= 60 \/ HasActivity(v, Sides) \/ DualBids(v) = {}
          THEN << >> ELSE <<entry("UP"), entry("DOWN")>>
  BY DEF LowSideDualReversion
<1>2. CASE UnhedgedLegs(v) # {}
  <2>1. leg \in Sides /\ other \in Sides /\ ask \in Nat /\ depth \in Nat
    BY <1>2, LegIsSide
  <2>2. /\ cheap \in BOOLEAN /\ stopped \in BOOLEAN /\ "FAK" \in Intents
        /\ conf70 \in Nat /\ conf50 \in Nat
    BY DEF Intents
  <2> HIDE DEF leg, ask, depth, cheap, stopped, conf70, conf50
  <2>3. hedges \in Seq(Hedging(Opposite(leg)))
    BY <2>1, <2>2, HedgesOfLeg, Zenon
  <2> HIDE DEF hedges, entry
  <2> QED BY <1>1, <1>2, <2>1, <2>3, HedgesAreSensible, EmptyIsSensible DEF OneAtMost
<1>3. CASE UnhedgedLegs(v) = {} /\ (v.left <= 60 \/ HasActivity(v, Sides) \/ DualBids(v) = {})
  <2> HIDE DEF hedges, entry
  <2> QED BY <1>1, <1>3, EmptyIsSensible
<1>4. CASE /\ UnhedgedLegs(v) = {}
           /\ ~(v.left <= 60 \/ HasActivity(v, Sides) \/ DualBids(v) = {})
  <2>1. bid \in Nat
    <3>1. \E p \in DualBids(v) : \A q \in DualBids(v) : p <= q
      <4>1. DualBids(v) \subseteq {35, 40, 45} /\ DualBids(v) # {}
        BY <1>4 DEF DualBids
      <4>2. CASE 35 \in DualBids(v)
        BY <4>1, <4>2
      <4>3. CASE 35 \notin DualBids(v) /\ 40 \in DualBids(v)
        BY <4>1, <4>3
      <4>4. CASE 35 \notin DualBids(v) /\ 40 \notin DualBids(v)
        BY <4>1, <4>4
      <4> QED BY <4>2, <4>3, <4>4
    <3>2. bid \in DualBids(v)
      BY <3>1, Zenon DEF DualBid
    <3> HIDE DEF bid
    <3> QED BY <3>2 DEF DualBids
  <2>2. v.left - 60 \in Nat
    BY <1>4 DEF ViewType
  <2>3. life \in Nat
    <3> DEFINE rest == v.left - 60
    <3> HIDE DEF rest
    <3>1. rest \in Nat
      BY <2>2 DEF rest
    <3>2. Least(rest, 300) \in Nat
      BY <3>1, LeastNat
    <3> QED BY <3>2 DEF rest
  <2>4. conf \in Nat /\ size \in Nat /\ "GTD" \in Intents
    BY DEF Intents
  <2> HIDE DEF bid, life, conf, size
  <2>5. ASSUME NEW side \in Sides
        PROVE  entry(side) \in S
    <3>1. entry(side) \in Plain(side)
      BY <2>1, <2>3, <2>4, PlainRestingPair, Zenon
    <3> HIDE DEF entry
    <3> QED BY <1>4, <3>1, PlainEnters
  <2> HIDE DEF entry, hedges, S
  <2>6. <<entry("UP"), entry("DOWN")>> \in Seq(S)
    BY <2>5 DEF Sides
  <2>7. Sensible("low_side_dual_reversion", v, <<entry("UP"), entry("DOWN")>>)
    BY <2>6, EntriesAreSensible DEF S, OneAtMost
  <2> QED BY <1>1, <1>4, <2>7
<1> QED BY <1>2, <1>3, <1>4

LEMMA PreOrderMarketSensible ==
    ASSUME NEW v, ViewType(v)
    PROVE  Sensible("pre_order_market", v, PreOrderMarket(v))
<1> DEFINE leg == CHOOSE l \in UnhedgedLegs(v) : TRUE
           ask == v.ask[Opposite(leg)]
           cheap == /\ ~HasHedgeOrder(v)
                    /\ ask # NoPrice
                    /\ PairCost(v.pos[leg].avg, ask) <= 100
           conf == 55
           hedges == When(cheap, Hedge(v, leg, ask, "FAK", conf))
           size == 5
           life == IF v.now < 29 THEN 30 - v.now ELSE 1
           due(price, side) == v.ask[side] # NoPrice /\ price < v.ask[side]
           entry(price, side) ==
               [Decision(side, price, conf)
                  EXCEPT !.intent = "GTD", !.pair = TRUE, !.qty = size, !.life = life]
           rung(price) == When(due(price, "UP"), entry(price, "UP"))
                              \o When(due(price, "DOWN"), entry(price, "DOWN"))
           S == Entering("pre_order_market", v)
<1>1. PreOrderMarket(v)
        = IF UnhedgedLegs(v) # {} THEN hedges
          ELSE IF v.now \notin -180 .. 29 \/ HasActivity(v, Sides)
          THEN << >> ELSE rung(45) \o rung(40)
  BY DEF PreOrderMarket
<1>2. CASE UnhedgedLegs(v) # {}
  <2>1. leg \in Sides /\ Opposite(leg) \in Sides /\ ask \in Nat
    BY <1>2, LegIsSide
  <2>2. cheap \in BOOLEAN /\ "FAK" \in Intents /\ conf \in Nat
    BY DEF Intents
  <2> HIDE DEF leg, ask, cheap, conf
  <2>3. hedges \in Seq(Hedging(Opposite(leg)))
    BY <2>1, <2>2, HedgesOfLeg, Zenon
  <2> HIDE DEF hedges, rung
  <2> QED BY <1>1, <1>2, <2>1, <2>3, HedgesAreSensible DEF OneAtMost
<1>3. CASE UnhedgedLegs(v) = {} /\ (v.now \notin -180 .. 29 \/ HasActivity(v, Sides))
  <2> HIDE DEF hedges, rung
  <2> QED BY <1>1, <1>3, EmptyIsSensible
<1>4. CASE UnhedgedLegs(v) = {} /\ ~(v.now \notin -180 .. 29 \/ HasActivity(v, Sides))
  <2>1. conf \in Nat /\ size \in Nat /\ "GTD" \in Intents
    BY DEF Intents
  <2>2. life \in Nat
    BY DEF ViewType
  <2> HIDE DEF conf, size, life
  <2>3. ASSUME NEW side \in Sides, NEW price \in Nat
        PROVE  When(due(price, side), entry(price, side)) \in Seq(S)
    <3>1. entry(price, side) \in Plain(side)
      BY <2>1, <2>2, PlainRestingPair, Zenon
    <3> HIDE DEF entry
    <3>2. entry(price, side) \in S /\ due(price, side) \in BOOLEAN
      BY <1>4, <3>1, PlainEnters
    <3> HIDE DEF due, S
    <3> QED BY <3>2, WhenIsSeq
  <2> HIDE DEF due, entry
  <2>4. ASSUME NEW price \in Nat
        PROVE  rung(price) \in Seq(S)
    <3> DEFINE up == When(due(price, "UP"), entry(price, "UP"))
               down == When(due(price, "DOWN"), entry(price, "DOWN"))
    <3>1. up \in Seq(S) /\ down \in Seq(S)
      BY <2>3 DEF Sides
    <3> HIDE DEF up, down, S
    <3>2. up \o down \in Seq(S)
      BY <3>1
    <3> QED BY <3>2 DEF up, down
  <2> HIDE DEF rung, hedges
  <2>5. rung(45) \in Seq(S) /\ rung(40) \in Seq(S)
    BY <2>4
  <2>6. rung(45) \o rung(40) \in Seq(S)
    BY <2>5
  <2> QED BY <1>1, <1>4, <2>6, EntriesAreSensible DEF OneAtMost
<1> QED BY <1>2, <1>3, <1>4

LEMMA FilledLayersType ==
    ASSUME NEW v, ViewType(v), NEW side
    PROVE  FilledLayers(v, side) \in Nat
<1>1. IsFiniteSet(DOMAIN v.orders)
  <2>1. DOMAIN v.orders = 1 .. Len(v.orders) /\ Len(v.orders) \in Nat
    BY DEF ViewType
  <2> QED BY <2>1, FS_Interval
<1> DEFINE filled == {i \in Entries(v) : v.orders[i].side = side /\ HasFill(v.orders[i])}
<1>2. filled \subseteq DOMAIN v.orders
  BY DEF Entries
<1>3. IsFiniteSet(filled)
  BY <1>1, <1>2, FS_Subset
<1> QED BY <1>3, FS_CardinalityType DEF FilledLayers

\* A close of a core leaves its size to the stake, and has no quantity.
LEMMA PlainClose ==
    ASSUME NEW name, NEW v, NEW side \in Sides, NEW limit \in Nat, NEW conf \in Nat,
           NEW intent \in Intents
    PROVE  [[Decision(side, limit, conf) EXCEPT !.intent = intent] EXCEPT !.exit = TRUE]
               \in Entering(name, v)
<1>1. [[Decision(side, limit, conf) EXCEPT !.intent = intent] EXCEPT !.exit = TRUE]
          \in {d \in CoreDecision : d.exit /\ ~d.hedge}
  BY DEF Decision, CoreDecision, DecisionType, Intents, NoStamp
<1> QED BY <1>1 DEF Entering

LEMMA MidPriceLayerEnters ==
    ASSUME NEW v, ViewType(v), NEW side \in Sides
    PROVE  MidPriceLayer(v, side) \in Seq(Entering("mid_price_sizing", v))
<1> DEFINE S == Entering("mid_price_sizing", v)
           filled == FilledLayers(v, side)
           layers == IF Holds(v, side) /\ filled = 0 THEN 1 ELSE filled
           limit == Least(v.ask[side], 60)
           order(conf) == [Decision(side, limit, conf) EXCEPT !.intent = "FAK"]
           close == [order(100) EXCEPT !.exit = TRUE]
           first == When(v.ask[side] <= 50, order(65))
           due == /\ layers < MaxLayers
                  /\ Holds(v, side)
                  /\ AdverseMove(v, side) >= 5
           next == When(due, order(55))
<1>1. MidPriceLayer(v, side)
        = IF ~Quoted(v, side) THEN << >>
          ELSE IF MidPriceExit(v, side) THEN <<close>>
          ELSE IF layers = 0 THEN first ELSE next
  BY DEF MidPriceLayer
<1>2. filled \in Nat
  BY FilledLayersType
<1>3. limit \in Nat
  <2>1. v.ask[side] \in Nat
    BY DEF ViewType
  <2> QED BY <2>1, LeastNat
<1>4. "FAK" \in Intents /\ MaxLayers \in Nat \ {0}
  BY AlphaCoresAssumption DEF Intents
<1> HIDE DEF filled, limit
<1>5. layers = 0 \/ layers < MaxLayers => filled < MaxLayers
  BY <1>2, <1>4
<1> HIDE DEF layers
<1>6. close \in S
  <2> DEFINE sure == 100
  <2>1. sure \in Nat
    OBVIOUS
  <2> HIDE DEF sure
  <2>2. [[Decision(side, limit, sure) EXCEPT !.intent = "FAK"] EXCEPT !.exit = TRUE] \in S
    BY <2>1, <1>3, <1>4, PlainClose, Zenon
  <2> QED BY <2>2 DEF sure
<1>7. ASSUME NEW conf \in Nat, filled < MaxLayers
      PROVE  order(conf) \in S
  <2>1. order(conf) \in Plain(side)
    BY <1>3, <1>4, PlainTaker, Zenon
  <2> HIDE DEF order
  <2> QED BY <1>7, <2>1, PlainEnters DEF EnteringOnce, filled
<1>8. (v.ask[side] <= 50) \in BOOLEAN /\ due \in BOOLEAN
  OBVIOUS
<1> HIDE DEF order, S, due, close
<1>9. layers = 0 => first \in Seq(S)
  BY <1>5, <1>7, <1>8, WhenIsSeq
<1>10. next \in Seq(S)
  <2>1. due => filled < MaxLayers
    BY <1>5 DEF due
  <2>2. due => order(55) \in S
    BY <2>1, <1>7
  <2> QED BY <1>8, <2>2, WhenIsSeq
<1> HIDE DEF first, next
<1>11. <<close>> \in Seq(S) /\ << >> \in Seq(S)
  BY <1>6
<1> QED BY <1>1, <1>9, <1>10, <1>11 DEF S

LEMMA MidPriceSizingSensible ==
    ASSUME NEW v, ViewType(v)
    PROVE  Sensible("mid_price_sizing", v, MidPriceSizing(v))
<1> DEFINE S == Entering("mid_price_sizing", v)
           layer(side) == IF MidPriceRegime(v) \/ MidPriceExit(v, side)
                          THEN MidPriceLayer(v, side) ELSE << >>
           up == layer("UP")
           down == layer("DOWN")
<1>1. MidPriceSizing(v) = up \o down
  BY DEF MidPriceSizing
<1>2. ASSUME NEW side \in Sides
      PROVE  layer(side) \in Seq(S)
  <2>1. MidPriceLayer(v, side) \in Seq(S)
    BY MidPriceLayerEnters
  <2> HIDE DEF S
  <2> QED BY <2>1
<1>3. up \in Seq(S) /\ down \in Seq(S)
  BY <1>2 DEF Sides
<1> HIDE DEF up, down
<1>4. up \o down \in Seq(S)
  BY <1>3
<1> QED BY <1>1, <1>4, EntriesAreSensible DEF OneAtMost

\* What the alpha core of a strategy decides is sensible, whichever it is.
LEMMA CoreDecisionsSensible ==
    ASSUME NEW name \in CoreNames, NEW v, ViewType(v)
    PROVE  Sensible(name, v, CoreDecisions(name, v))
<1>1. CASE name = "vwap_momentum"
  BY <1>1, VwapMomentumSensible DEF CoreDecisions
<1>2. CASE name = "late_consensus"
  BY <1>2, LateConsensusSensible DEF CoreDecisions
<1>3. CASE name = "ptb_diff"
  BY <1>3, PtbDiffSensible DEF CoreDecisions
<1>4. CASE name = "binary_momentum"
  BY <1>4, BinaryMomentumSensible DEF CoreDecisions
<1>5. CASE name = "dump_hedge"
  BY <1>5, DumpHedgeSensible DEF CoreDecisions
<1>6. CASE name = "fibonacci_bot"
  BY <1>6, FibonacciBotSensible DEF CoreDecisions
<1>7. CASE name = "low_side_dual_reversion"
  BY <1>7, LowSideDualReversionSensible DEF CoreDecisions
<1>8. CASE name = "mid_price_sizing"
  BY <1>8, MidPriceSizingSensible DEF CoreDecisions
<1>9. CASE name = "ninety_nine_cent_sniper"
  BY <1>9, NinetyNineCentSniperSensible DEF CoreDecisions
<1>10. CASE name = "one_cent_buy"
  BY <1>10, OneCentBuySensible DEF CoreDecisions
<1>11. CASE name = "pre_order_market"
  BY <1>11, PreOrderMarketSensible DEF CoreDecisions
<1>12. CASE name = "skew_mean_reversion"
  BY <1>12, SkewMeanReversionSensible DEF CoreDecisions
<1> QED
  BY <1>1, <1>2, <1>3, <1>4, <1>5, <1>6, <1>7, <1>8, <1>9, <1>10, <1>11, <1>12
     DEF CoreNames

------------------------------------------------------------------------------
(***************************************************************************)
(* What an evaluation decides: closes of positions without one, or what    *)
(* the core decides of the same view.                                      *)
(***************************************************************************)
LEMMA ViewIsTyped ==
    ASSUME TypeOK, NEW feed \in FeedType
    PROVE  ViewType(View(feed))
<1>1. now \in Int /\ Interval - now \in Int
  BY TradingAssumption DEF TypeOK, Interval
<1>2. /\ feed.bid \in [Sides -> Nat] /\ feed.ask \in [Sides -> Nat]
      /\ feed.last \in [Sides -> Nat] /\ feed.depth \in [Sides -> Nat]
      /\ feed.spot \in BOOLEAN /\ feed.verified \in BOOLEAN /\ feed.move \in Int
      /\ feed.triggered \subseteq Sides
  BY DEF FeedType
<1>3. feed.zones \in Seq(ZoneType)
  BY DEF FeedType, ZoneType
<1>4. orders \in Seq(OrderType) /\ pos \in [Sides -> [qty : Nat, avg : Nat, since : Int]]
  BY DEF TypeOK
<1> QED BY <1>1, <1>2, <1>3, <1>4 DEF ViewType, View

\* A close of the exit policy.
Closing(v) ==
    {d \in DecisionType :
        /\ d.exit /\ d.by = "native_exit" /\ d.intent = "FAK" /\ ~d.pair /\ ~d.hedge
        /\ d.qty = v.pos[d.side].qty /\ d.qty > 0 /\ v.bid[d.side] # NoPrice}

CloseIsDue(v, side) == ExitIsDue(v, side) /\ ~HasExitOrder(v, side)

\* The closes of a side, of a quantity.
Closes(side, qty) ==
    {d \in DecisionType :
        /\ d.side = side /\ d.intent = "FAK" /\ d.exit /\ d.by = "native_exit"
        /\ ~d.pair /\ ~d.hedge /\ d.qty = qty}

LEMMA CloseType ==
    ASSUME NEW side \in Sides, NEW limit \in Nat, NEW conf \in Nat, NEW qty \in Nat
    PROVE  [Decision(side, limit, conf)
              EXCEPT !.intent = "FAK", !.exit = TRUE, !.by = "native_exit", !.qty = qty]
               \in Closes(side, qty)
BY DEF Closes, Decision, DecisionType, Intents, NoStamp

LEMMA ExitDecisionCloses ==
    ASSUME NEW v, ViewType(v), NEW side \in Sides, CloseIsDue(v, side)
    PROVE  ExitDecision(v, side) \in Closing(v) /\ ExitDecision(v, side).side = side
<1> DEFINE limit == v.bid[side]
           conf == 100
           qty == v.pos[side].qty
           d == [Decision(side, limit, conf)
                   EXCEPT !.intent = "FAK", !.exit = TRUE, !.by = "native_exit", !.qty = qty]
<1>1. ExitDecision(v, side) = d
  BY DEF ExitDecision
<1>2. limit \in Nat /\ conf \in Nat /\ qty \in Nat
  BY DEF ViewType
<1>3. qty > 0 /\ limit # NoPrice
  BY DEF CloseIsDue, ExitIsDue, Holds
<1> HIDE DEF conf
<1>4. /\ d \in DecisionType
      /\ d.side = side /\ d.intent = "FAK" /\ d.exit /\ d.by = "native_exit"
      /\ ~d.pair /\ ~d.hedge /\ d.qty = qty
  <2> HIDE DEF limit, qty
  <2>1. d \in Closes(side, qty)
    BY <1>2, CloseType, Zenon
  <2> HIDE DEF d
  <2> QED BY <2>1 DEF Closes
<1> HIDE DEF d
<1> QED BY <1>1, <1>3, <1>4 DEF Closing

LEMMA SeqSubset ==
    ASSUME NEW S, NEW T, S \subseteq T, NEW q \in Seq(S)
    PROVE  q \in Seq(T)
OBVIOUS

LEMMA ConcatElements ==
    ASSUME NEW S, NEW p \in Seq(S), NEW q \in Seq(S)
    PROVE  /\ p \o q \in Seq(S)
           /\ Len(p \o q) = Len(p) + Len(q)
           /\ \A k \in 1 .. Len(p) : (p \o q)[k] = p[k]
           /\ \A k \in 1 .. Len(q) : (p \o q)[Len(p) + k] = q[k]
<1>1. p \o q \in Seq(S) /\ Len(p \o q) = Len(p) + Len(q)
  OBVIOUS
<1>2. ASSUME NEW k \in 1 .. Len(p)
      PROVE  (p \o q)[k] = p[k]
  OBVIOUS
<1>3. ASSUME NEW k \in 1 .. Len(q)
      PROVE  (p \o q)[Len(p) + k] = q[k]
  OBVIOUS
<1> QED BY <1>1, <1>2, <1>3

\* Each close that is due is decided.
LEMMA ExitDecisionsClose ==
    ASSUME NEW v, ViewType(v)
    PROVE  /\ ExitDecisions(v) \in Seq(Closing(v))
           /\ \A side \in Sides :
                 CloseIsDue(v, side) =>
                     \E k \in 1 .. Len(ExitDecisions(v)) :
                        ExitDecisions(v)[k] = ExitDecision(v, side)
<1> DEFINE S == Closing(v)
           exit(side) == When(ExitIsDue(v, side) /\ ~HasExitOrder(v, side), ExitDecision(v, side))
           up == exit("UP")
           down == exit("DOWN")
<1>1. ExitDecisions(v) = up \o down
  BY DEF ExitDecisions
<1>2. ASSUME NEW side \in Sides
      PROVE  /\ exit(side) \in Seq(S)
             /\ Len(exit(side)) = IF CloseIsDue(v, side) THEN 1 ELSE 0
             /\ CloseIsDue(v, side) => exit(side)[1] = ExitDecision(v, side)
  <2> DEFINE due == CloseIsDue(v, side)
             d == ExitDecision(v, side)
  <2>1. exit(side) = When(due, d)
    BY DEF CloseIsDue
  <2>2. due \in BOOLEAN /\ (due => d \in S)
    BY ExitDecisionCloses DEF CloseIsDue
  <2> HIDE DEF due, d, S
  <2>3. due => When(due, d)[1] = d
    BY DEF When
  <2>4. When(due, d) \in Seq(S) /\ Len(When(due, d)) = IF due THEN 1 ELSE 0
    BY <2>2, WhenIsSeq
  <2> HIDE DEF exit
  <2> QED BY <2>1, <2>3, <2>4 DEF due, d
<1>3. "UP" \in Sides /\ "DOWN" \in Sides /\ \A side \in Sides : side = "UP" \/ side = "DOWN"
  BY DEF Sides
<1>4. /\ up \in Seq(S) /\ Len(up) = IF CloseIsDue(v, "UP") THEN 1 ELSE 0
      /\ CloseIsDue(v, "UP") => up[1] = ExitDecision(v, "UP")
      /\ down \in Seq(S) /\ Len(down) = IF CloseIsDue(v, "DOWN") THEN 1 ELSE 0
      /\ CloseIsDue(v, "DOWN") => down[1] = ExitDecision(v, "DOWN")
  <2> HIDE DEF exit
  <2> QED BY <1>2, <1>3
<1> HIDE DEF up, down, S
<1> DEFINE all == up \o down
<1>5. all \in Seq(S)
  BY <1>4
<1>6. /\ Len(all) = Len(up) + Len(down)
      /\ \A k \in 1 .. Len(up) : all[k] = up[k]
      /\ \A k \in 1 .. Len(down) : all[Len(up) + k] = down[k]
  BY <1>4, ConcatElements
<1>7. CloseIsDue(v, "UP") => 1 \in 1 .. Len(all) /\ all[1] = ExitDecision(v, "UP")
  BY <1>4, <1>6
<1>8. CloseIsDue(v, "DOWN") => /\ Len(up) + 1 \in 1 .. Len(all)
                               /\ all[Len(up) + 1] = ExitDecision(v, "DOWN")
  BY <1>4, <1>6
<1> HIDE DEF all
<1> QED BY <1>1, <1>3, <1>5, <1>7, <1>8 DEF all, S

LEMMA DecisionsAreSensible ==
    ASSUME TypeOK, NEW feed \in FeedType
    PROVE  LET decisions == Decisions(feed)
               v == View(feed)
           IN  /\ decisions \in Seq(DecisionType)
               /\ \/ decisions \in Seq(Closing(v))
                  \/ Sensible(core, v, decisions)
<1> DEFINE v == View(feed)
           exits == ExitDecisions(v)
<1>1. ViewType(v)
  BY ViewIsTyped
<1>2. core \in CoreNames
  BY TradingAssumption DEF TypeOK
<1>3. Decisions(feed) = IF exits # << >> THEN exits
                        ELSE IF feed.late # {} THEN << >> ELSE CoreDecisions(core, v)
  BY DEF Decisions
<1> HIDE DEF v, exits
<1>4. exits \in Seq(Closing(v))
  BY <1>1, ExitDecisionsClose DEF exits
<1>5. Sensible(core, v, CoreDecisions(core, v)) /\ Sensible(core, v, << >>)
  BY <1>1, <1>2, CoreDecisionsSensible, EmptyIsSensible
<1>6. Closing(v) \subseteq DecisionType
  BY DEF Closing
<1>7. ASSUME NEW q, Sensible(core, v, q)
      PROVE  q \in Seq(DecisionType)
  <2>1. Entering(core, v) \subseteq DecisionType /\ \A side : Hedging(side) \subseteq DecisionType
    BY DEF Entering, Hedging, CoreDecision
  <2>2. CASE q \in Seq(Entering(core, v))
    BY <2>1, <2>2, SeqSubset
  <2>3. CASE \E side \in Sides : q \in Seq(Hedging(side))
    BY <2>1, <2>3, SeqSubset
  <2> QED BY <1>7, <2>2, <2>3 DEF Sensible
<1>8. exits \in Seq(DecisionType)
  BY <1>4, <1>6, SeqSubset
<1>9. Decisions(feed) \in Seq(DecisionType)
  BY <1>3, <1>5, <1>7, <1>8
<1> QED BY <1>3, <1>4, <1>5, <1>9 DEF v

\* A new order at the venue.
Placed(o, v) ==
    /\ o.status = "inflight" /\ o.fill = 0 /\ o.sent = now /\ o.at = now
    /\ o.exit <=> o.by = "native_exit"
    /\ ~o.hedge
    /\ DedupeKey(o) \notin KeysInFlight
    /\ o.exit => o.qty = pos[o.side].qty
    /\ ~o.exit => SideIsFree(core, v, o.side)

SameKind(o, p) == o.side = p.side /\ o.exit = p.exit

\* A hedge is the half of a pair, and all decisions with it are of its side.
LEMMA HedgesAreDropped ==
    ASSUME NEW side \in Sides, NEW decisions \in Seq(Hedging(side)), NEW feed,
           NEW k \in 1 .. Len(decisions)
    PROVE  ~Survives(decisions[k], decisions, feed)
<1>1. \A i \in 1 .. Len(decisions) : decisions[i].pair /\ decisions[i].side = side
  <2> SUFFICES ASSUME NEW i \in 1 .. Len(decisions)
               PROVE  decisions[i].pair /\ decisions[i].side = side
    OBVIOUS
  <2>1. decisions[i] \in Hedging(side)
    OBVIOUS
  <2> QED BY <2>1 DEF Hedging
<1>2. DOMAIN decisions = 1 .. Len(decisions)
  OBVIOUS
<1> DEFINE members == {i \in DOMAIN decisions : decisions[i].pair}
           sides == {decisions[i].side : i \in members}
<1>3. sides \subseteq {side}
  BY <1>1, <1>2
<1>4. sides # Sides
  <2> HIDE DEF sides
  <2>1. "UP" \in Sides /\ "DOWN" \in Sides /\ "UP" # "DOWN"
    BY DEF Sides
  <2> QED BY <1>3, <2>1
<1>5. ~PairIsWhole(decisions)
  BY <1>4 DEF PairIsWhole
<1> QED BY <1>1, <1>5 DEF Survives

\* The decision of an entry or of a close that becomes an order.
LEMMA DecisionIsPlaced ==
    ASSUME TypeOK, NEW feed \in FeedType, NEW k \in 1 .. Len(Decisions(feed)),
           Survives(Decisions(feed)[k], Decisions(feed), feed),
           CanBeMapped(Decisions(feed)[k], feed)
    PROVE  LET v == View(feed)
               d == Decisions(feed)[k]
           IN  /\ d \in DecisionType
               /\ ~d.hedge
               /\ d.exit <=> d.by = "native_exit"
               /\ d.exit => d.qty = pos[d.side].qty
               /\ ~d.exit => SideIsFree(core, v, d.side)
               /\ Sensible(core, v, Decisions(feed)) \/ d.exit
<1> DEFINE v == View(feed)
           decisions == Decisions(feed)
           d == decisions[k]
<1>1. /\ decisions \in Seq(DecisionType)
      /\ decisions \in Seq(Closing(v)) \/ Sensible(core, v, decisions)
  BY DecisionsAreSensible
<1>2. d \in DecisionType
  BY <1>1
<1>3. v.pos = pos
  BY DEF View
<1> HIDE DEF v, decisions
<1>4. CASE decisions \in Seq(Closing(v))
  <2>1. d \in Closing(v)
    BY <1>4 DEF decisions
  <2> QED BY <1>2, <1>3, <2>1 DEF Closing, decisions, v
<1>5. CASE Sensible(core, v, decisions)
  <2>1. \A side \in Sides : decisions \notin Seq(Hedging(side))
    BY HedgesAreDropped DEF decisions
  <2>2. decisions \in Seq(Entering(core, v))
    BY <1>5, <2>1 DEF Sensible
  <2>3. d \in Entering(core, v)
    BY <2>2 DEF decisions
  <2>4. ~d.exit
    BY <2>3 DEF Entering, CoreDecision, DecisionType, CanBeMapped, decisions
  <2>5. ~d.hedge /\ d.by = "core" /\ SideIsFree(core, v, d.side)
    BY <2>3, <2>4 DEF Entering, CoreDecision
  <2> QED BY <1>2, <1>5, <2>4, <2>5 DEF decisions, v
<1> QED BY <1>1, <1>4, <1>5

\* What an evaluation adds: new orders, of different kinds, and one entry of a
\* core that decides one thing at most.
LEMMA EvaluatePlaces ==
    ASSUME TypeOK, NEW feed \in FeedType
    PROVE  LET os == Apply(Decisions(feed), feed)
           IN  /\ os \in Seq(OrderType) /\ Len(orders) <= Len(os)
               /\ \A i \in DOMAIN orders : os[i] = orders[i]
               /\ \A i \in Fresh(os) : Placed(os[i], View(feed))
               /\ \A i, j \in Fresh(os) : SameKind(os[i], os[j]) => i = j
               /\ core \in OneAtMost =>
                     \A i, j \in Fresh(os) : ~os[i].exit /\ ~os[j].exit => i = j
<1> DEFINE decisions == Decisions(feed)
           os == Apply(decisions, feed)
           n == Len(decisions)
           Of(i, k) == /\ Survives(decisions[k], decisions, feed)
                       /\ CanBeMapped(decisions[k], feed)
                       /\ os[i] = NewOrder(decisions[k], feed)
<1>1. decisions \in Seq(DecisionType)
  BY DecisionsAreSensible
<1>2. PICK keys : Grown([orders |-> os, keys |-> keys], decisions, feed, n)
  BY <1>1, ApplyGrows
<1> HIDE DEF os
<1>3. /\ os \in Seq(OrderType) /\ Len(orders) <= Len(os)
      /\ \A i \in DOMAIN orders : os[i] = orders[i]
      /\ \A i \in Fresh(os) : /\ \E k \in 1 .. n : Of(i, k)
                              /\ DedupeKey(os[i]) \notin KeysInFlight
                              /\ \A j \in Fresh(os) :
                                    DedupeKey(os[i]) = DedupeKey(os[j]) => i = j
  BY <1>2 DEF Grown
<1>4. ASSUME NEW i \in Fresh(os)
      PROVE  Placed(os[i], View(feed))
  <2>1. PICK k \in 1 .. n : Of(i, k)
    BY <1>3
  <2> DEFINE d == decisions[k]
  <2>2. /\ ~d.hedge
        /\ d.exit <=> d.by = "native_exit"
        /\ d.exit => d.qty = pos[d.side].qty
        /\ ~d.exit => SideIsFree(core, View(feed), d.side)
    BY <2>1, DecisionIsPlaced
  <2> HIDE DEF d
  <2>3. os[i] = NewOrder(d, feed) /\ DedupeKey(os[i]) \notin KeysInFlight
    BY <2>1, <1>3 DEF d
  <2> QED BY <2>2, <2>3 DEF Placed, NewOrder
<1>5. ASSUME NEW i \in Fresh(os), NEW j \in Fresh(os), SameKind(os[i], os[j])
      PROVE  i = j
  <2>1. os[i] \in OrderType /\ os[j] \in OrderType
    BY <1>3 DEF Fresh, TypeOK
  <2>2. os[i].by = os[j].by
    BY <2>1, <1>4, <1>5 DEF SameKind, Placed, OrderType
  <2> QED BY <1>3, <1>5, <2>2 DEF SameKind, DedupeKey
<1>6. ASSUME NEW i \in Fresh(os), NEW j \in Fresh(os), core \in OneAtMost,
             ~os[i].exit, ~os[j].exit
      PROVE  i = j
  <2>1. PICK k \in 1 .. n : Of(i, k)
    BY <1>3
  <2>2. PICK l \in 1 .. n : Of(j, l)
    BY <1>3
  <2>3. ~decisions[k].exit
    BY <2>1, <1>6 DEF NewOrder
  <2>4. Sensible(core, View(feed), decisions)
    BY <2>1, <2>3, DecisionIsPlaced
  <2>5. n <= 1 /\ n \in Nat
    BY <1>1, <1>6, <2>4 DEF Sensible
  <2>6. k = l
    BY <2>5
  <2> QED BY <2>1, <2>2, <2>6, <1>3
<1> QED BY <1>3, <1>4, <1>5, <1>6 DEF os

------------------------------------------------------------------------------
(***************************************************************************)
(* The inductive invariant.                                                *)
(***************************************************************************)
\* Closes come from the exit policy alone, and hedges from nowhere: the core's
\* lone hedge is half of a pair, which the arbitration drops.
OrdersAreKnown ==
    \A i \in DOMAIN orders :
        /\ orders[i].exit <=> orders[i].by = "native_exit"
        /\ ~orders[i].hedge

\* An order is accepted after it was sent, and not in the future.
OrdersAreTimely ==
    \A i \in DOMAIN orders :
        /\ orders[i].sent <= orders[i].at /\ orders[i].at <= now
        /\ orders[i].status = "inflight" => orders[i].at = orders[i].sent

Alone(sides) == \A i, j \in ActiveEntries(sides) : i = j

\* EntersOnce, without counting.
EnteredOnce ==
    /\ core \in {"vwap_momentum", "binary_momentum"} => Alone(Sides)
    /\ core \in {"dump_hedge", "low_side_dual_reversion", "pre_order_market",
                 "ninety_nine_cent_sniper"}
           => \A side \in Sides : Alone({side})

Inv ==
    /\ TypeOK
    /\ OrdersAreKnown
    /\ OrdersAreTimely
    /\ OneInFlight
    /\ ExitsFitPosition
    /\ EnteredOnce
    /\ LayersAreBounded
    /\ EntriesAreSpaced

------------------------------------------------------------------------------
(***************************************************************************)
(* The venue's answers.  Each order keeps what it is; it can leave the     *)
(* venue, and be accepted once.                                            *)
(***************************************************************************)
Answered(o, p) ==
    /\ p \in OrderType /\ p.fill <= p.qty
    /\ p.side = o.side /\ p.exit = o.exit /\ p.hedge = o.hedge /\ p.by = o.by
    /\ p.qty = o.qty /\ p.sent = o.sent
    /\ o.fill <= p.fill
    /\ Working(p) => Working(o)
    /\ HasFill(p) => IsActive(o)
    /\ WasAccepted(p) => WasAccepted(o)
    /\ p.status = "inflight" => o.status = "inflight"
    /\ \/ p.at = o.at /\ (o.status # "inflight" => (WasAccepted(o) => WasAccepted(p)))
       \/ o.status = "inflight" /\ p.status # "inflight" /\ p.at = now

OrdersAreAnswered ==
    /\ orders' \in Seq(OrderType)
    /\ DOMAIN orders' = DOMAIN orders /\ Len(orders') = Len(orders)
    /\ \A i \in DOMAIN orders : Answered(orders[i], orders'[i])

LEMMA AnsweredStays ==
    ASSUME NEW o \in OrderType, o.fill <= o.qty
    PROVE  Answered(o, o)
BY DEF Answered, IsActive, OrderType

LEMMA SeqUpdate ==
    ASSUME NEW S, NEW q \in Seq(S), NEW i \in DOMAIN q, NEW x \in S
    PROVE  LET r == [q EXCEPT ![i] = x]
           IN  /\ r \in Seq(S) /\ DOMAIN r = DOMAIN q /\ Len(r) = Len(q)
               /\ r[i] = x
               /\ \A j \in DOMAIN q : j # i => r[j] = q[j]
OBVIOUS

LEMMA OneIsAnswered ==
    ASSUME TypeOK, NEW i \in DOMAIN orders, NEW p, Answered(orders[i], p),
           orders' = [orders EXCEPT ![i] = p]
    PROVE  OrdersAreAnswered
<1>1. orders \in Seq(OrderType) /\ p \in OrderType
  BY DEF TypeOK, Answered
<1>2. /\ orders' \in Seq(OrderType) /\ DOMAIN orders' = DOMAIN orders
      /\ Len(orders') = Len(orders)
      /\ orders'[i] = p
      /\ \A j \in DOMAIN orders : j # i => orders'[j] = orders[j]
  BY <1>1, SeqUpdate
<1>3. ASSUME NEW j \in DOMAIN orders
      PROVE  Answered(orders[j], orders'[j])
  <2>1. CASE j = i
    BY <1>2, <2>1
  <2>2. CASE j # i
    <3>1. orders[j] \in OrderType /\ orders[j].fill <= orders[j].qty
      BY <1>1 DEF TypeOK
    <3> QED BY <1>2, <2>2, <3>1, AnsweredStays
  <2> QED BY <2>1, <2>2
<1> QED BY <1>2, <1>3 DEF OrdersAreAnswered

LEMMA AcceptAnswers ==
    ASSUME Inv, NEW i \in DOMAIN orders, Accept(i)
    PROVE  OrdersAreAnswered
<1> DEFINE o == orders[i]
           p == [o EXCEPT !.status = "open", !.at = now]
<1>1. orders' = [orders EXCEPT ![i] = p] /\ o.status = "inflight"
  BY DEF Accept
<1>2. o \in OrderType /\ o.fill <= o.qty /\ now \in Int
  BY TradingAssumption DEF Inv, TypeOK
<1> HIDE DEF o
<1>3. Answered(o, p)
  <2> DEFINE t == now
  <2>1. t \in Int
    BY <1>2
  <2> HIDE DEF t
  <2> DEFINE q == [o EXCEPT !.status = "open", !.at = t]
  <2>2. /\ q \in OrderType /\ q.fill <= q.qty
        /\ q.side = o.side /\ q.exit = o.exit /\ q.hedge = o.hedge /\ q.by = o.by
        /\ q.qty = o.qty /\ q.sent = o.sent /\ q.fill = o.fill
        /\ q.status = "open" /\ q.at = t
    BY <1>2, <2>1 DEF OrderType, Statuses
  <2>3. q = p
    BY DEF t
  <2> HIDE DEF q, p
  <2>4. o.fill <= q.fill
    BY <1>2, <2>2 DEF OrderType
  <2>5. Answered(o, q)
    BY <1>1, <2>2, <2>4 DEF Answered, Working, HasFill, IsActive, WasAccepted, t
  <2> QED BY <2>3, <2>5
<1> HIDE DEF p
<1> QED BY <1>1, <1>3, OneIsAnswered DEF Inv, o

LEMMA RejectAnswers ==
    ASSUME Inv, NEW i \in DOMAIN orders, Reject(i)
    PROVE  OrdersAreAnswered
<1> DEFINE o == orders[i]
           p == [o EXCEPT !.status = "rejected"]
<1>1. orders' = [orders EXCEPT ![i] = p] /\ o.status = "inflight"
  BY DEF Reject
<1>2. o \in OrderType /\ o.fill <= o.qty
  BY DEF Inv, TypeOK
<1> HIDE DEF o
<1>3. Answered(o, p)
  BY <1>1, <1>2 DEF Answered, OrderType, Statuses, Working, HasFill, IsActive, WasAccepted
<1> HIDE DEF p
<1> QED BY <1>1, <1>3, OneIsAnswered DEF Inv, o

LEMMA KillAnswers ==
    ASSUME Inv, NEW i \in DOMAIN orders, Kill(i)
    PROVE  OrdersAreAnswered
<1> DEFINE o == orders[i]
           p == [o EXCEPT !.status = "killed"]
<1>1. orders' = [orders EXCEPT ![i] = p] /\ o.status \in {"open", "cancelling"}
  BY DEF Kill
<1>2. o \in OrderType /\ o.fill <= o.qty
  BY DEF Inv, TypeOK
<1> HIDE DEF o
<1>3. Answered(o, p)
  BY <1>1, <1>2 DEF Answered, OrderType, Statuses, Working, HasFill, IsActive, WasAccepted
<1> HIDE DEF p
<1> QED BY <1>1, <1>3, OneIsAnswered DEF Inv, o

LEMMA FillAnswers ==
    ASSUME Inv, NEW i \in DOMAIN orders, NEW lots \in 1 .. orders[i].qty, Fill(i, lots)
    PROVE  /\ OrdersAreAnswered
           /\ orders'[i].fill = orders[i].fill + lots
<1> DEFINE o == orders[i]
           filled == o.fill + lots
           p == [o EXCEPT !.fill = filled,
                          !.status = IF filled = o.qty THEN "filled" ELSE @]
<1>1. /\ orders' = [orders EXCEPT ![i] = p] /\ o.status \in {"open", "cancelling"}
      /\ filled <= o.qty
  BY DEF Fill
<1>2. o \in OrderType /\ o.fill <= o.qty
  BY DEF Inv, TypeOK
<1>3. filled \in Nat /\ o.fill <= filled
  BY <1>2 DEF OrderType
<1> HIDE DEF o, filled
<1>4. Answered(o, p) /\ p.fill = filled
  BY <1>1, <1>2, <1>3
     DEF Answered, OrderType, Statuses, Working, HasFill, IsActive, WasAccepted
<1> HIDE DEF p
<1>5. OrdersAreAnswered
  BY <1>1, <1>4, OneIsAnswered DEF Inv, o
<1>6. orders'[i] = p
  BY <1>1 DEF Inv, TypeOK
<1> QED BY <1>4, <1>5, <1>6 DEF filled, o

LEMMA RetireAnswers ==
    ASSUME Inv, NEW cancelled \in BOOLEAN, Retire(cancelled)
    PROVE  OrdersAreAnswered
<1> DEFINE p(o) == IF cancelled /\ ~o.exit /\ Working(o)
                   THEN [o EXCEPT !.status = "cancelling"] ELSE o
<1>1. orders' = [i \in DOMAIN orders |-> p(orders[i])]
  BY DEF Retire
<1>2. orders \in Seq(OrderType) /\ \A i \in DOMAIN orders : orders[i].fill <= orders[i].qty
  BY DEF Inv, TypeOK
<1>3. ASSUME NEW o \in OrderType, o.fill <= o.qty
      PROVE  Answered(o, p(o))
  <2>1. CASE cancelled /\ ~o.exit /\ Working(o)
    BY <1>3, <2>1
       DEF Answered, OrderType, Statuses, Working, HasFill, IsActive, WasAccepted
  <2>2. CASE ~(cancelled /\ ~o.exit /\ Working(o))
    BY <1>3, <2>2, AnsweredStays
  <2> QED BY <2>1, <2>2
<1> HIDE DEF p
<1>4. \A i \in DOMAIN orders : Answered(orders[i], p(orders[i]))
  BY <1>2, <1>3
<1>5. \A i \in DOMAIN orders : p(orders[i]) \in OrderType
  BY <1>4 DEF Answered
<1>6. DOMAIN orders = 1 .. Len(orders) /\ Len(orders) \in Nat
  BY <1>2
<1>7. orders' \in Seq(OrderType) /\ DOMAIN orders' = DOMAIN orders /\ Len(orders') = Len(orders)
  BY <1>1, <1>5, <1>6
<1> QED BY <1>1, <1>4, <1>7 DEF OrdersAreAnswered

LEMMA OrdersAreTyped ==
    ASSUME TypeOK, NEW i \in DOMAIN orders
    PROVE  orders[i] \in OrderType /\ orders[i].fill <= orders[i].qty
BY DEF TypeOK

LEMMA ActiveEntriesShrink ==
    ASSUME OrdersAreAnswered, NEW sides
    PROVE  ActiveEntries(sides)' \subseteq ActiveEntries(sides)
<1> SUFFICES ASSUME NEW i \in ActiveEntries(sides)'
             PROVE  i \in ActiveEntries(sides)
  OBVIOUS
<1> DEFINE o == orders[i]
           p == orders'[i]
<1>1. i \in DOMAIN orders /\ p.side \in sides /\ ~p.exit /\ IsActive(p)
  BY DEF ActiveEntries, OrdersAreAnswered, IsActive, Working, HasFill
<1>2. Answered(o, p)
  BY <1>1 DEF OrdersAreAnswered
<1> HIDE DEF o, p
<1>3. IsActive(o) /\ o.side \in sides /\ ~o.exit
  BY <1>1, <1>2 DEF Answered, IsActive
<1> QED BY <1>1, <1>3 DEF ActiveEntries, o

LEMMA ActiveEntriesAreFinite ==
    ASSUME TypeOK, NEW sides
    PROVE  IsFiniteSet(ActiveEntries(sides))
<1>1. DOMAIN orders = 1 .. Len(orders) /\ Len(orders) \in Nat
  BY DEF TypeOK
<1>2. IsFiniteSet(DOMAIN orders)
  BY <1>1, FS_Interval
<1> QED BY <1>2, FS_Subset DEF ActiveEntries

\* The accepted entries, as EntriesAreSpaced names them.
Accepted == {i \in DOMAIN orders : ~orders[i].exit /\ WasAccepted(orders[i])}

Apart(i, j) ==
    /\ orders[j].sent - orders[i].sent >= 7
    /\ \/ orders[i].side = orders[j].side
       \/ orders[j].sent - orders[i].sent > 20
       \/ \E k \in Accepted : orders[k].at - orders[k].sent > 20

LEMMA SpacedIsApart ==
    EntriesAreSpaced <=>
        (core = "late_consensus" => \A i, j \in Accepted : i < j => Apart(i, j))
<1>1. AcceptedEntries([orders |-> orders]) = Accepted
  BY DEF AcceptedEntries, Entries, Accepted
<1> QED BY <1>1 DEF EntriesAreSpaced, Apart

LEMMA AnswersKeepEntriesApart ==
    ASSUME Inv, OrdersAreAnswered, core' = core, now' = now
    PROVE  EntriesAreSpaced'
<1>0. (EntriesAreSpaced <=>
          (core = "late_consensus" => \A i, j \in Accepted : i < j => Apart(i, j)))'
  BY SpacedIsApart, PTL
<1> SUFFICES ASSUME core = "late_consensus", NEW i \in Accepted', NEW j \in Accepted', i < j
             PROVE  Apart(i, j)'
  BY <1>0
<1>1. Accepted' \subseteq Accepted
  <2> SUFFICES ASSUME NEW k \in Accepted' PROVE k \in Accepted
    OBVIOUS
  <2>1. k \in DOMAIN orders /\ ~orders'[k].exit /\ WasAccepted(orders'[k])
    BY DEF Accepted, OrdersAreAnswered, WasAccepted
  <2>2. Answered(orders[k], orders'[k])
    BY <2>1 DEF OrdersAreAnswered
  <2> QED BY <2>1, <2>2 DEF Accepted, Answered
<1>2. Apart(i, j)
  BY <1>1, SpacedIsApart DEF Inv
<1>3. \A k \in Accepted : Answered(orders[k], orders'[k])
  BY DEF Accepted, OrdersAreAnswered
<1>4. ASSUME NEW k \in Accepted, orders[k].at - orders[k].sent > 20
      PROVE  k \in Accepted' /\ orders'[k].at - orders'[k].sent > 20
  <2>1. Answered(orders[k], orders'[k])
    BY <1>3
  <2>2. k \in DOMAIN orders /\ orders[k] \in OrderType /\ ~orders[k].exit /\ WasAccepted(orders[k])
    BY OrdersAreTyped DEF Accepted, Inv
  <2>3. orders[k].status # "inflight"
    <3>1. orders[k].at # orders[k].sent
      BY <1>4, <2>2 DEF OrderType
    <3> QED BY <2>2, <3>1 DEF Inv, OrdersAreTimely
  <2>4. /\ orders'[k].at = orders[k].at /\ orders'[k].sent = orders[k].sent
        /\ WasAccepted(orders'[k]) /\ ~orders'[k].exit
    BY <2>1, <2>2, <2>3 DEF Answered
  <2>5. k \in DOMAIN orders'
    BY <2>2 DEF OrdersAreAnswered
  <2> QED BY <1>4, <2>4, <2>5 DEF Accepted, WasAccepted
<1>5. /\ orders'[i].sent = orders[i].sent /\ orders'[i].side = orders[i].side
      /\ orders'[j].sent = orders[j].sent /\ orders'[j].side = orders[j].side
  BY <1>1, <1>3 DEF Answered
<1> QED BY <1>2, <1>4, <1>5 DEF Apart

LEMMA AnswersPreserve ==
    ASSUME Inv, OrdersAreAnswered, core' = core, now' = now
    PROVE  /\ OrdersAreKnown' /\ OrdersAreTimely' /\ OneInFlight'
           /\ EnteredOnce' /\ LayersAreBounded' /\ EntriesAreSpaced'
<1>1. ASSUME NEW i \in DOMAIN orders'
      PROVE  i \in DOMAIN orders /\ Answered(orders[i], orders'[i]) /\ orders[i] \in OrderType
  BY OrdersAreTyped DEF OrdersAreAnswered, Inv
<1>2. OrdersAreKnown'
  BY <1>1 DEF Inv, OrdersAreKnown, Answered
<1>3. OrdersAreTimely'
  <2> SUFFICES ASSUME NEW i \in DOMAIN orders'
               PROVE  /\ orders'[i].sent <= orders'[i].at /\ orders'[i].at <= now
                      /\ orders'[i].status = "inflight" => orders'[i].at = orders'[i].sent
    BY DEF OrdersAreTimely
  <2>1. i \in DOMAIN orders /\ Answered(orders[i], orders'[i]) /\ orders[i] \in OrderType
    BY <1>1
  <2>2. /\ orders[i].sent <= orders[i].at /\ orders[i].at <= now
        /\ orders[i].status = "inflight" => orders[i].at = orders[i].sent
    BY <2>1 DEF Inv, OrdersAreTimely
  <2>3. now \in Int
    BY TradingAssumption DEF Inv, TypeOK
  <2> QED BY <2>1, <2>2, <2>3 DEF Answered, OrderType
<1>4. OneInFlight'
  BY <1>1 DEF Inv, OneInFlight, Answered, Working
<1>5. EnteredOnce'
  <2>1. \A sides : Alone(sides) => Alone(sides)'
    BY ActiveEntriesShrink DEF Alone
  <2> QED BY <2>1 DEF Inv, EnteredOnce, Sides
<1>6. LayersAreBounded'
  <2> SUFFICES ASSUME core = "mid_price_sizing", NEW side \in Sides
               PROVE  Cardinality(ActiveEntries({side})') <= MaxLayers
    BY DEF LayersAreBounded
  <2> DEFINE before == ActiveEntries({side})
             after == ActiveEntries({side})'
  <2>1. IsFiniteSet(before) /\ after \subseteq before
    BY ActiveEntriesAreFinite, ActiveEntriesShrink DEF Inv
  <2>2. Cardinality(before) <= MaxLayers
    BY DEF Inv, LayersAreBounded
  <2> HIDE DEF before, after
  <2>3. /\ Cardinality(after) <= Cardinality(before) /\ IsFiniteSet(after)
    BY <2>1, FS_Subset
  <2>4. Cardinality(after) \in Nat /\ Cardinality(before) \in Nat /\ MaxLayers \in Nat
    BY <2>1, <2>3, FS_CardinalityType, AlphaCoresAssumption
  <2>5. Cardinality(after) <= MaxLayers
    BY <2>2, <2>3, <2>4
  <2> QED BY <2>5 DEF after
<1>7. EntriesAreSpaced'
  BY AnswersKeepEntriesApart
<1> QED BY <1>2, <1>3, <1>4, <1>5, <1>6, <1>7

LEMMA AnswersPreserveInv ==
    ASSUME Inv, OrdersAreAnswered, UNCHANGED <<core, now, pos>>, active' \in BOOLEAN
    PROVE  Inv'
<1>1. TypeOK'
  BY DEF Inv, TypeOK, OrdersAreAnswered, Answered
<1>2. ExitsFitPosition'
  <2> SUFFICES ASSUME NEW i \in DOMAIN orders', orders'[i].exit, Working(orders'[i])
               PROVE  orders'[i].qty - orders'[i].fill <= pos[orders'[i].side].qty
    BY DEF ExitsFitPosition, Working
  <2> DEFINE o == orders[i]
             p == orders'[i]
  <2>1. i \in DOMAIN orders /\ Answered(o, p) /\ o \in OrderType
    BY OrdersAreTyped DEF OrdersAreAnswered, Inv
  <2>2. o.exit /\ Working(o) => o.qty - o.fill <= pos[o.side].qty
    BY <2>1 DEF Inv, ExitsFitPosition
  <2>3. pos[o.side].qty \in Nat
    BY <2>1 DEF Inv, TypeOK, OrderType
  <2> HIDE DEF o, p
  <2>4. p.qty - p.fill <= pos[p.side].qty
    <3>1. o.exit /\ Working(o) /\ p.qty = o.qty /\ p.side = o.side /\ o.fill <= p.fill
      BY <2>1 DEF Answered, p
    <3>2. o.qty \in Nat /\ o.fill \in Nat /\ p.fill \in Nat
      BY <2>1 DEF OrderType, Answered
    <3> QED BY <2>2, <2>3, <3>1, <3>2
  <2> QED BY <2>4 DEF p
<1>3. /\ OrdersAreKnown' /\ OrdersAreTimely' /\ OneInFlight'
      /\ EnteredOnce' /\ LayersAreBounded' /\ EntriesAreSpaced'
  BY AnswersPreserve
<1> QED BY <1>1, <1>2, <1>3 DEF Inv

\* A fill of an exit is not more than what is held: it is the only one.
LEMMA FillPreserves ==
    ASSUME Inv, NEW i \in DOMAIN orders, NEW lots \in 1 .. orders[i].qty, Fill(i, lots)
    PROVE  Inv'
<1> DEFINE o == orders[i]
           held == pos[o.side]
           then == Position(held, o, lots)
           PosType == [qty : Nat, avg : Nat, since : Int]
<1>1. /\ OrdersAreAnswered
      /\ orders'[i].fill = o.fill + lots
  BY FillAnswers
<1>2. o \in OrderType /\ o.fill <= o.qty
  BY OrdersAreTyped DEF Inv
<1>3. lots \in Nat \ {0} /\ o.side \in Sides /\ o.qty \in Nat /\ o.fill \in Nat /\ o.price \in Nat
  BY <1>2 DEF OrderType
<1>4. /\ Working(o) /\ o.fill + lots <= o.qty
      /\ pos' = [pos EXCEPT ![o.side] = then]
      /\ UNCHANGED <<core, now, active>>
  BY DEF Fill, Working
<1>5. held \in PosType /\ now \in Int /\ pos \in [Sides -> PosType]
  BY <1>3, TradingAssumption DEF Inv, TypeOK
<1>6. held.qty \in Nat /\ held.avg \in Nat /\ held.since \in Int
  BY <1>5
<1>7. o.exit => o.qty - o.fill <= held.qty
  BY <1>4 DEF Inv, ExitsFitPosition
<1>8. o.exit => lots <= held.qty
  BY <1>3, <1>4, <1>6, <1>7
<1> HIDE DEF o, held
<1>9. /\ then \in PosType
      /\ then.qty = IF o.exit THEN held.qty - lots ELSE held.qty + lots
  <2>1. CASE o.exit /\ held.qty = lots
    BY <2>1, <1>6 DEF Position, Flat, NoPrice
  <2>2. CASE o.exit /\ held.qty # lots
    <3> DEFINE rest == held.qty - lots
    <3>1. rest \in Nat
      BY <2>2, <1>3, <1>6, <1>8
    <3>2. then = [held EXCEPT !.qty = rest]
      BY <2>2 DEF Position
    <3> HIDE DEF rest, then
    <3>3. then \in PosType /\ then.qty = rest
      BY <1>5, <3>1, <3>2
    <3> QED BY <2>2, <3>3 DEF rest
  <2>3. CASE ~o.exit
    <3> DEFINE qty == held.qty + lots
               cost == held.qty * held.avg + lots * o.price
               avg == cost \div qty
               since == IF held.qty = 0 THEN now ELSE held.since
    <3>1. qty \in Nat \ {0} /\ since \in Int
      BY <1>3, <1>5, <1>6
    <3>2. cost \in Nat
      <4>1. held.qty * held.avg \in Nat /\ lots * o.price \in Nat
        BY <1>3, <1>6
      <4> QED BY <4>1
    <3>3. then = [qty |-> qty, avg |-> avg, since |-> since]
      BY <2>3 DEF Position
    <3> HIDE DEF qty, cost, since, then
    <3>4. avg \in Nat
      BY <3>1, <3>2
    <3> HIDE DEF avg
    <3>5. then \in PosType /\ then.qty = qty
      BY <3>1, <3>3, <3>4
    <3> QED BY <2>3, <3>5 DEF qty
  <2> QED BY <2>1, <2>2, <2>3
<1> HIDE DEF then
<1>10. TypeOK'
  <2>1. pos' \in [Sides -> PosType]
    <3> HIDE DEF PosType
    <3> QED BY <1>4, <1>5, <1>9
  <2> QED BY <1>1, <1>4, <2>1 DEF Inv, TypeOK, OrdersAreAnswered, Answered
<1>11. ExitsFitPosition'
  <2> SUFFICES ASSUME NEW j \in DOMAIN orders', orders'[j].exit, Working(orders'[j])
               PROVE  orders'[j].qty - orders'[j].fill <= pos'[orders'[j].side].qty
    BY DEF ExitsFitPosition, Working
  <2> DEFINE q == orders[j]
             r == orders'[j]
  <2>1. j \in DOMAIN orders /\ Answered(q, r) /\ q \in OrderType
    BY <1>1, OrdersAreTyped DEF OrdersAreAnswered, Inv
  <2>2. q.exit /\ Working(q) => q.qty - q.fill <= pos[q.side].qty
    BY <2>1 DEF Inv, ExitsFitPosition
  <2>3. q.exit /\ Working(q) /\ q.side = o.side /\ o.exit => j = i
    BY <1>4, <2>1 DEF Inv, OneInFlight, o
  <2>4. j = i => r.fill = o.fill + lots /\ q = o
    BY <1>1 DEF o
  <2>5. /\ q.exit /\ Working(q) /\ r.qty = q.qty /\ r.side = q.side
        /\ q.fill <= r.fill
    BY <2>1 DEF Answered
  <2>6. q.qty \in Nat /\ q.fill \in Nat /\ r.fill \in Nat /\ q.side \in Sides
    BY <2>1 DEF OrderType, Answered
  <2> HIDE DEF q, r
  <2>7. r.qty - r.fill <= pos'[r.side].qty
    <3>1. CASE q.side # o.side
      <4>1. pos'[q.side] = pos[q.side]
        BY <1>4, <1>5, <2>6, <3>1
      <4>2. pos[q.side].qty \in Nat
        BY <1>5, <2>6
      <4> QED BY <2>2, <2>5, <2>6, <4>1, <4>2
    <3>2. CASE q.side = o.side
      <4>1. pos'[q.side] = then /\ pos[q.side] = held
        BY <1>4, <1>5, <2>6, <3>2 DEF held
      <4>2. CASE o.exit
        <5>1. r.fill = q.fill + lots /\ q.exit /\ Working(q)
          BY <2>3, <2>4, <2>5, <3>2, <4>2
        <5> QED BY <1>3, <1>6, <1>9, <2>2, <2>5, <2>6, <4>1, <4>2, <5>1
      <4>3. CASE ~o.exit
        BY <1>3, <1>6, <1>9, <2>2, <2>5, <2>6, <4>1, <4>3
      <4> QED BY <4>2, <4>3
    <3> QED BY <3>1, <3>2
  <2> QED BY <2>7 DEF r
<1>12. /\ OrdersAreKnown' /\ OrdersAreTimely' /\ OneInFlight'
       /\ EnteredOnce' /\ LayersAreBounded' /\ EntriesAreSpaced'
  BY <1>1, <1>4, AnswersPreserve
<1> QED BY <1>10, <1>11, <1>12 DEF Inv

LEMMA TickPreserves ==
    ASSUME Inv, Tick
    PROVE  Inv'
<1>1. now \in Int /\ now' \in Instants /\ now' \in Int /\ now' > now
  BY TradingAssumption DEF Tick, Inv, TypeOK
<1>2. UNCHANGED <<core, active, orders, pos>>
  BY DEF Tick
<1>3. TypeOK'
  BY <1>1, <1>2 DEF Inv, TypeOK
<1>4. OrdersAreTimely'
  <2> SUFFICES ASSUME NEW i \in DOMAIN orders
               PROVE  orders[i].at <= now'
    BY <1>2 DEF Inv, OrdersAreTimely
  <2>1. orders[i] \in OrderType /\ orders[i].at <= now
    BY OrdersAreTyped DEF Inv, OrdersAreTimely
  <2> QED BY <1>1, <2>1 DEF OrderType
<1>5. /\ OrdersAreKnown' /\ OneInFlight' /\ ExitsFitPosition'
      /\ LayersAreBounded' /\ EnteredOnce' /\ EntriesAreSpaced'
  BY <1>2
     DEF Inv, OrdersAreKnown, OneInFlight, ExitsFitPosition, LayersAreBounded,
         EnteredOnce, EntriesAreSpaced, Alone, ActiveEntries, AcceptedEntries,
         Entries, WasAccepted, IsActive, Working, HasFill
<1> QED BY <1>3, <1>4, <1>5 DEF Inv

------------------------------------------------------------------------------
(***************************************************************************)
(* Evaluations.                                                            *)
(***************************************************************************)
\* The time of acceptance of the last entry is that of none before another's.
LEMMA LatestIsLast ==
    ASSUME NEW v, v.orders \in Seq(OrderType), NEW chosen, chosen # {},
           chosen \subseteq DOMAIN v.orders
    PROVE  /\ Latest(v, chosen) \in chosen
           /\ \A j \in chosen : v.orders[j].at <= v.orders[Latest(v, chosen)].at
<1> DEFINE at(i) == v.orders[i].at
           Last(i, j) == at(j) < at(i) \/ (at(j) = at(i) /\ j <= i)
           Upto(n) == chosen \cap 1 .. n
           S == {n \in Nat : Upto(n) # {} => \E i \in Upto(n) : \A j \in Upto(n) : Last(i, j)}
<1>1. /\ \A i \in chosen : at(i) \in Int /\ i \in Nat
      /\ chosen = Upto(Len(v.orders)) /\ Len(v.orders) \in Nat
  <2>1. DOMAIN v.orders = 1 .. Len(v.orders) /\ Len(v.orders) \in Nat
    OBVIOUS
  <2>2. ASSUME NEW i \in chosen
        PROVE  at(i) \in Int /\ i \in Nat
    <3>1. v.orders[i] \in OrderType
      OBVIOUS
    <3>2. at(i) \in Int
      BY <3>1 DEF OrderType
    <3>3. i \in 1 .. Len(v.orders)
      BY <2>1
    <3> QED BY <3>2, <3>3
  <2> QED BY <2>1, <2>2
<1> HIDE DEF at
<1>2. 0 \in S
  BY <1>1
<1>3. ASSUME NEW n \in Nat, n \in S
      PROVE  n + 1 \in S
  <2> SUFFICES ASSUME Upto(n + 1) # {}
               PROVE  \E i \in Upto(n + 1) : \A j \in Upto(n + 1) : Last(i, j)
    OBVIOUS
  <2>1. Upto(n + 1) = IF n + 1 \in chosen THEN Upto(n) \cup {n + 1} ELSE Upto(n)
    BY <1>1
  <2>2. CASE n + 1 \notin chosen
    BY <1>3, <2>1, <2>2
  <2>3. CASE n + 1 \in chosen /\ Upto(n) = {}
    BY <2>1, <2>3, <1>1
  <2>4. CASE n + 1 \in chosen /\ Upto(n) # {}
    <3>1. PICK i \in Upto(n) : \A j \in Upto(n) : Last(i, j)
      BY <1>3, <2>4
    <3>2. i \in Nat /\ at(i) \in Int /\ at(n + 1) \in Int /\ i <= n
      BY <1>1, <2>4
    <3>3. \A j \in Upto(n) : j \in Nat /\ at(j) \in Int /\ j <= n
      BY <1>1
    <3>4. CASE at(n + 1) < at(i)
      <4>1. \A j \in Upto(n + 1) : Last(i, j)
        BY <2>1, <2>4, <3>1, <3>4
      <4> QED BY <2>1, <2>4, <4>1
    <3>5. CASE ~(at(n + 1) < at(i))
      <4>1. \A j \in Upto(n) : at(j) <= at(n + 1)
        BY <3>1, <3>2, <3>3, <3>5
      <4>2. \A j \in Upto(n) : Last(n + 1, j)
        BY <3>2, <3>3, <4>1
      <4>3. Last(n + 1, n + 1)
        OBVIOUS
      <4> QED BY <2>1, <2>4, <4>2, <4>3
    <3> QED BY <3>4, <3>5
  <2> QED BY <2>2, <2>3, <2>4
<1>4. \A n \in Nat : n \in S
  <2> HIDE DEF S
  <2> QED BY <1>2, <1>3, Induction
<1>5. \E i \in chosen : \A j \in chosen : Last(i, j)
  BY <1>1, <1>4
<1>6. Latest(v, chosen) \in chosen /\ \A j \in chosen : Last(Latest(v, chosen), j)
  <2>1. Latest(v, chosen) = CHOOSE i \in chosen : \A j \in chosen : Last(i, j)
    BY DEF Latest, at
  <2> DEFINE P(i) == \A j \in chosen : Last(i, j)
  <2> HIDE DEF P
  <2>2. \E i \in chosen : P(i)
    BY <1>5 DEF P
  <2>3. Latest(v, chosen) = CHOOSE i \in chosen : P(i)
    BY <2>1 DEF P
  <2>4. Latest(v, chosen) \in chosen /\ P(Latest(v, chosen))
    BY <2>2, <2>3, Zenon
  <2> QED BY <2>4 DEF P
<1> QED
  <2>1. \A j \in chosen : at(j) <= at(Latest(v, chosen))
    BY <1>1, <1>6
  <2> QED BY <1>6, <2>1 DEF at

\* Two orders of a kind have a key in common.
LEMMA KindIsKey ==
    ASSUME Inv, NEW i \in DOMAIN orders, Working(orders[i]),
           NEW o \in OrderType, o.exit <=> o.by = "native_exit", SameKind(orders[i], o)
    PROVE  DedupeKey(o) \in KeysInFlight
<1>1. orders[i] \in OrderType
  BY OrdersAreTyped DEF Inv
<1>2. orders[i].exit <=> orders[i].by = "native_exit"
  BY DEF Inv, OrdersAreKnown
<1>3. DedupeKey(o) = DedupeKey(orders[i])
  BY <1>1, <1>2 DEF SameKind, DedupeKey, OrderType
<1> QED BY <1>3 DEF KeysInFlight

LEMMA NoActivityNoEntries ==
    ASSUME NEW feed, NEW sides, ~HasActivity(View(feed), sides)
    PROVE  ActiveEntries(sides) = {}
BY DEF HasActivity, ActiveEntries, View, Entries

\* The orders after an evaluation.
Placing(feed) ==
    /\ orders' \in Seq(OrderType) /\ Len(orders) <= Len(orders')
    /\ \A i \in DOMAIN orders : orders'[i] = orders[i]
    /\ \A i \in Fresh(orders') : Placed(orders'[i], View(feed))
    /\ \A i, j \in Fresh(orders') : SameKind(orders'[i], orders'[j]) => i = j
    /\ core \in OneAtMost =>
          \A i, j \in Fresh(orders') : ~orders'[i].exit /\ ~orders'[j].exit => i = j

LEMMA PlacingSplits ==
    ASSUME Inv, NEW feed, Placing(feed)
    PROVE  /\ DOMAIN orders' = DOMAIN orders \cup Fresh(orders')
           /\ DOMAIN orders \cap Fresh(orders') = {}
           /\ \A i \in DOMAIN orders' : orders'[i] \in OrderType
<1> DEFINE os == orders'
<1>1. os \in Seq(OrderType) /\ Len(orders) <= Len(os) /\ orders \in Seq(OrderType)
  BY DEF Inv, TypeOK, Placing
<1> HIDE DEF os
<1>2. /\ DOMAIN os = 1 .. Len(os) /\ Len(os) \in Nat
      /\ DOMAIN orders = 1 .. Len(orders) /\ Len(orders) \in Nat
  BY <1>1
<1>3. \A i \in DOMAIN os : os[i] \in OrderType
  BY <1>1
<1>4. DOMAIN os = DOMAIN orders \cup Fresh(os) /\ DOMAIN orders \cap Fresh(os) = {}
  BY <1>1, <1>2 DEF Fresh
<1> QED BY <1>3, <1>4 DEF os

LEMMA ActiveEntriesGrow ==
    ASSUME Inv, NEW feed, Placing(feed), NEW sides
    PROVE  ActiveEntries(sides)'
               = ActiveEntries(sides)
                     \cup {i \in Fresh(orders') : orders'[i].side \in sides /\ ~orders'[i].exit}
<1>1. /\ DOMAIN orders' = DOMAIN orders \cup Fresh(orders')
      /\ \A i \in DOMAIN orders : orders'[i] = orders[i]
      /\ \A i \in Fresh(orders') : orders'[i].status = "inflight"
  BY PlacingSplits DEF Placing, Placed
<1> QED BY <1>1 DEF ActiveEntries, IsActive, Working, HasFill

LEMMA PlacingEntersOnce ==
    ASSUME Inv, NEW feed, Placing(feed), core' = core
    PROVE  EnteredOnce'
<1> DEFINE FreshEntries(sides) ==
               {i \in Fresh(orders') : orders'[i].side \in sides /\ ~orders'[i].exit}
<1>1. ASSUME core \in {"vwap_momentum", "binary_momentum"}
      PROVE  Alone(Sides)'
  <2>1. \A i, j \in FreshEntries(Sides) : i = j
    BY <1>1 DEF Placing, OneAtMost
  <2>2. FreshEntries(Sides) # {} => ActiveEntries(Sides) = {}
    BY <1>1, NoActivityNoEntries DEF Placing, Placed, SideIsFree, EnteringOnce
  <2>3. Alone(Sides)
    BY <1>1 DEF Inv, EnteredOnce
  <2> QED BY <2>1, <2>2, <2>3, ActiveEntriesGrow DEF Alone
<1>2. ASSUME core \in {"dump_hedge", "low_side_dual_reversion", "pre_order_market",
                       "ninety_nine_cent_sniper"},
             NEW side \in Sides
      PROVE  Alone({side})'
  <2>1. \A i, j \in FreshEntries({side}) : i = j
    <3>1. \A i \in Fresh(orders') : orders'[i].exit \in BOOLEAN
      BY PlacingSplits DEF OrderType
    <3> QED BY <3>1 DEF Placing, SameKind
  <2>2. FreshEntries({side}) # {} => ActiveEntries({side}) = {}
    <3> SUFFICES ASSUME NEW i \in FreshEntries({side}) PROVE ActiveEntries({side}) = {}
      OBVIOUS
    <3>1. SideIsFree(core, View(feed), side)
      BY DEF Placing, Placed
    <3>2. CASE core = "ninety_nine_cent_sniper"
      BY <3>1, <3>2, NoActivityNoEntries DEF SideIsFree
    <3>3. CASE core # "ninety_nine_cent_sniper"
      <4>1. ActiveEntries(Sides) = {}
        BY <1>2, <3>1, <3>3, NoActivityNoEntries DEF SideIsFree, EnteringOnce
      <4>2. ActiveEntries({side}) \subseteq ActiveEntries(Sides)
        BY DEF ActiveEntries
      <4> QED BY <4>1, <4>2
    <3> QED BY <3>2, <3>3
  <2>3. Alone({side})
    BY <1>2 DEF Inv, EnteredOnce
  <2> QED BY <2>1, <2>2, <2>3, ActiveEntriesGrow DEF Alone
<1> QED BY <1>1, <1>2 DEF EnteredOnce, Sides

\* An entry is placed where no other works, so that those that are active have
\* a fill, which is what the layers are counted by.
LEMMA PlacingBoundsLayers ==
    ASSUME Inv, NEW feed, Placing(feed), core' = core
    PROVE  LayersAreBounded'
<1> SUFFICES ASSUME core = "mid_price_sizing", NEW side \in Sides
             PROVE  Cardinality(ActiveEntries({side})') <= MaxLayers
  BY DEF LayersAreBounded
<1> DEFINE before == ActiveEntries({side})
           after == ActiveEntries({side})'
           fresh == {i \in Fresh(orders') : orders'[i].side = side /\ ~orders'[i].exit}
<1>1. after = before \cup fresh
  BY ActiveEntriesGrow
<1>2. IsFiniteSet(before) /\ Cardinality(before) <= MaxLayers
  BY ActiveEntriesAreFinite DEF Inv, LayersAreBounded
<1>3. CASE fresh = {}
  BY <1>1, <1>2, <1>3
<1>4. ASSUME NEW f \in fresh
      PROVE  Cardinality(after) <= MaxLayers
  <2>1. fresh = {f}
    <3>1. \A i \in Fresh(orders') : orders'[i].exit \in BOOLEAN
      BY PlacingSplits DEF OrderType
    <3> QED BY <3>1 DEF Placing, SameKind
  <2> DEFINE filled == {i \in Entries(View(feed)) : /\ orders[i].side = side
                                                    /\ HasFill(orders[i])}
  <2>2. Cardinality(filled) < MaxLayers
    <3>1. FilledLayers(View(feed), side) < MaxLayers
      BY DEF Placing, Placed, SideIsFree
    <3> QED BY <3>1 DEF FilledLayers, View
  <2>3. before \subseteq filled
    <3> SUFFICES ASSUME NEW i \in before
                 PROVE  i \in filled
      OBVIOUS
    <3>1. i \in DOMAIN orders /\ orders[i].side = side /\ ~orders[i].exit /\ IsActive(orders[i])
      BY DEF ActiveEntries
    <3>2. ~Working(orders[i])
      <4> SUFFICES ASSUME Working(orders[i]) PROVE FALSE
        OBVIOUS
      <4>1. /\ orders'[f] \in OrderType
            /\ orders'[f].exit <=> orders'[f].by = "native_exit"
            /\ DedupeKey(orders'[f]) \notin KeysInFlight
        BY PlacingSplits DEF Placing, Placed
      <4>2. SameKind(orders[i], orders'[f])
        <5>1. orders[i].exit \in BOOLEAN /\ orders'[f].exit \in BOOLEAN
          BY <3>1, <4>1, OrdersAreTyped DEF Inv, OrderType
        <5> QED BY <3>1, <5>1 DEF SameKind
      <4> QED BY <3>1, <4>1, <4>2, KindIsKey
    <3> QED BY <3>1, <3>2 DEF IsActive, Entries, View
  <2>4. IsFiniteSet(filled)
    <3>1. DOMAIN orders = 1 .. Len(orders) /\ Len(orders) \in Nat
      BY DEF Inv, TypeOK
    <3>2. IsFiniteSet(DOMAIN orders)
      BY <3>1, FS_Interval
    <3>3. filled \subseteq DOMAIN orders
      BY DEF Entries, View
    <3> QED BY <3>2, <3>3, FS_Subset
  <2> HIDE DEF before, filled, fresh, after
  <2>5. Cardinality(before) <= Cardinality(filled)
    BY <2>3, <2>4, FS_Subset
  <2>6. Cardinality(after) <= Cardinality(before) + 1
    <3>1. after = before \cup {f}
      BY <1>1, <2>1
    <3>2. Cardinality(before) \in Nat
      BY <1>2, FS_CardinalityType
    <3>3. CASE f \in before
      <4>1. after = before
        BY <3>1, <3>3
      <4> QED BY <3>2, <4>1
    <3>4. CASE f \notin before
      <4>1. Cardinality(after) = Cardinality(before) + 1
        BY <1>2, <3>1, <3>4, FS_AddElement
      <4> QED BY <3>2, <4>1
    <3> QED BY <3>3, <3>4
  <2>7. /\ Cardinality(before) \in Nat /\ Cardinality(filled) \in Nat
        /\ Cardinality(after) \in Nat /\ MaxLayers \in Nat
    <3>1. IsFiniteSet(after)
      BY <1>1, <1>2, <2>1, FS_AddElement
    <3> QED BY <1>2, <2>4, <3>1, FS_CardinalityType, AlphaCoresAssumption
  <2> QED BY <2>2, <2>5, <2>6, <2>7
<1> QED BY <1>3, <1>4

\* A new entry of late_consensus is apart from all before it: from those of
\* its own side by the gap, and from one of the other side either because the
\* guard compares with that side, or through the entry accepted last.
LEMMA PlacingKeepsEntriesApart ==
    ASSUME Inv, NEW feed, Placing(feed), core' = core
    PROVE  EntriesAreSpaced'
<1>0. (EntriesAreSpaced <=>
          (core = "late_consensus" => \A i, j \in Accepted : i < j => Apart(i, j)))'
  BY SpacedIsApart, PTL
<1> SUFFICES ASSUME core = "late_consensus", NEW i \in Accepted', NEW j \in Accepted', i < j
             PROVE  Apart(i, j)'
  BY <1>0
<1>1. /\ DOMAIN orders' = DOMAIN orders \cup Fresh(orders')
      /\ \A k \in DOMAIN orders : orders'[k] = orders[k]
      /\ DOMAIN orders \subseteq Nat
      /\ \A k \in DOMAIN orders : \A l \in Fresh(orders') : k < l
  <2>1. Len(orders) \in Nat /\ DOMAIN orders = 1 .. Len(orders)
    BY DEF Inv, TypeOK
  <2>2. Len(orders') \in Nat
    BY DEF Placing
  <2>3. \A k \in DOMAIN orders : \A l \in Fresh(orders') : k < l
    BY <2>1, <2>2 DEF Fresh
  <2>4. DOMAIN orders' = DOMAIN orders \cup Fresh(orders')
    BY PlacingSplits
  <2>5. \A k \in DOMAIN orders : orders'[k] = orders[k]
    BY DEF Placing
  <2>6. DOMAIN orders \subseteq Nat
    BY <2>1
  <2> QED BY <2>3, <2>4, <2>5, <2>6
<1>2. Accepted \subseteq Accepted'
  BY <1>1 DEF Accepted, WasAccepted
<1>3. Accepted' \cap DOMAIN orders \subseteq Accepted
  BY <1>1 DEF Accepted, WasAccepted
<1>4. ASSUME NEW k \in Accepted
      PROVE  k \in DOMAIN orders /\ orders'[k] = orders[k] /\ k \in Accepted'
  BY <1>1, <1>2 DEF Accepted
<1>5. i \in DOMAIN orders' /\ j \in DOMAIN orders' /\ ~orders'[i].exit /\ ~orders'[j].exit
  BY DEF Accepted
<1>6. CASE i \in Fresh(orders') /\ j \in Fresh(orders')
  <2>1. i = j
    BY <1>5, <1>6 DEF Placing, OneAtMost
  <2>2. j \in Nat
    BY <1>6 DEF Fresh, Inv, TypeOK, Placing
  <2> QED BY <2>1, <2>2
<1>7. CASE i \in DOMAIN orders /\ j \in DOMAIN orders
  <2>1. i \in Accepted /\ j \in Accepted
    BY <1>3, <1>7
  <2>2. Apart(i, j)
    BY <2>1, SpacedIsApart DEF Inv
  <2> QED BY <1>4, <2>1, <2>2 DEF Apart
<1>8. CASE i \in Fresh(orders') /\ j \in DOMAIN orders
  <2>1. j < i /\ j \in Nat /\ i \in Nat
    BY <1>1, <1>8 DEF Fresh, Inv, TypeOK, Placing
  <2> QED BY <2>1
<1>9. CASE i \in DOMAIN orders /\ j \in Fresh(orders')
  <2> DEFINE o == orders[i]
             p == orders'[j]
             v == View(feed)
             last == Latest(v, Accepted)
             l == orders[last]
  <2>1. i \in Accepted
    BY <1>3, <1>9
  <2>2. AcceptedEntries(v) = Accepted /\ v.now = now /\ v.orders = orders
    BY DEF AcceptedEntries, Entries, Accepted, View
  <2>3. p.sent = now /\ Spaced(v, p.side)
    BY <1>5, <1>9 DEF Placing, Placed, SideIsFree
  <2>4. /\ now - l.at >= 7
        /\ l.side # p.side => now - l.at > 20
    BY <2>1, <2>2, <2>3 DEF Spaced
  <2>5. last \in Accepted /\ o.at <= l.at
    <3>1. orders \in Seq(OrderType) /\ Accepted \subseteq DOMAIN orders
      BY DEF Accepted, Inv, TypeOK
    <3> HIDE DEF v
    <3> QED BY <2>1, <2>2, <3>1, LatestIsLast
  <2>6. last \in DOMAIN orders /\ i \in DOMAIN orders
    BY <2>5, <1>9 DEF Accepted
  <2>7. /\ o.sent <= o.at /\ l.sent <= l.at /\ l.at <= now
        /\ o \in OrderType /\ l \in OrderType /\ now \in Int
    BY <2>6, OrdersAreTyped, TradingAssumption DEF Inv, OrdersAreTimely, TypeOK
  <2>8. last # i => Apart(i, last) \/ Apart(last, i)
    <3>1. i \in Nat /\ last \in Nat
      BY <1>1, <2>6
    <3>2. last # i => i < last \/ last < i
      BY <3>1
    <3> QED BY <2>1, <2>5, <3>2, SpacedIsApart DEF Inv
  <2>9. /\ orders'[i] = o
        /\ \A k \in Accepted : k \in Accepted' /\ orders'[k] = orders[k]
    BY <1>1, <1>4, <2>6
  <2>10. p.side \in Sides
    BY <1>9, PlacingSplits DEF OrderType
  <2>11. /\ o.sent \in Int /\ o.at \in Int /\ l.sent \in Int /\ l.at \in Int
         /\ o.side \in Sides /\ l.side \in Sides
    BY <2>7 DEF OrderType
  <2>12. now - o.sent >= 7
    <3> HIDE DEF o, l
    <3> QED BY <2>4, <2>5, <2>7, <2>11
  <2>13. CASE o.side = p.side
    BY <2>3, <2>9, <2>12, <2>13 DEF Apart
  <2>14. CASE o.side # p.side
    <3>1. now - o.sent > 20 \/ \E k \in Accepted : orders[k].at - orders[k].sent > 20
      <4>1. CASE l.side # p.side
        <5> HIDE DEF o, l
        <5> QED BY <2>4, <2>5, <2>7, <2>11, <4>1
      <4>2. CASE l.side = p.side
        <5>1. last # i /\ l.side # o.side
          BY <2>14, <4>2
        <5>2. CASE Apart(i, last)
          <6>1. l.sent - o.sent > 20 \/ \E k \in Accepted : orders[k].at - orders[k].sent > 20
            BY <5>1, <5>2 DEF Apart
          <6> HIDE DEF o, l
          <6> QED BY <2>7, <2>11, <6>1
        <5>3. CASE Apart(last, i)
          <6>1. o.sent - l.sent > 20 \/ \E k \in Accepted : orders[k].at - orders[k].sent > 20
            BY <5>1, <5>3 DEF Apart
          <6>2. CASE o.sent - l.sent > 20
            <7>1. l.at - l.sent > 20
              <8> HIDE DEF o, l
              <8> QED BY <2>5, <2>7, <2>11, <6>2
            <7> QED BY <2>5, <7>1
          <6> QED BY <6>1, <6>2
        <5> QED BY <2>8, <5>1, <5>2, <5>3
      <4> QED BY <4>1, <4>2
    <3>2. orders'[j].sent - orders'[i].sent >= 7
      BY <2>3, <2>9, <2>12
    <3>3. \/ orders'[j].sent - orders'[i].sent > 20
          \/ \E k \in Accepted' : orders'[k].at - orders'[k].sent > 20
      <4>1. CASE now - o.sent > 20
        BY <2>3, <2>9, <4>1
      <4>2. CASE \E k \in Accepted : orders[k].at - orders[k].sent > 20
        BY <2>9, <4>2
      <4> QED BY <3>1, <4>1, <4>2
    <3> QED BY <3>2, <3>3 DEF Apart
  <2> QED BY <2>13, <2>14
<1> QED BY <1>1, <1>5, <1>6, <1>7, <1>8, <1>9

LEMMA EvaluatePreserves ==
    ASSUME Inv, NEW feed \in Feeds, Evaluate(feed)
    PROVE  Inv'
<1>1. feed \in FeedType
  BY TradingAssumption
<1>2. Placing(feed)
  BY <1>1, EvaluatePlaces DEF Evaluate, Placing, Inv
<1>3. UNCHANGED <<core, now, active, pos>> /\ Len(orders') <= MaxOrders[core]
  BY DEF Evaluate
<1>4. /\ DOMAIN orders' = DOMAIN orders \cup Fresh(orders')
      /\ \A i \in DOMAIN orders' : orders'[i] \in OrderType
      /\ \A i \in DOMAIN orders : orders'[i] = orders[i]
      /\ \A i \in Fresh(orders') : Placed(orders'[i], View(feed))
  BY <1>2, PlacingSplits DEF Placing
<1>5. TypeOK'
  <2>1. ASSUME NEW i \in DOMAIN orders'
        PROVE  orders'[i].fill <= orders'[i].qty
    <3>1. CASE i \in DOMAIN orders
      BY <1>4, <3>1 DEF Inv, TypeOK
    <3>2. CASE i \in Fresh(orders')
      BY <1>4, <3>2 DEF Placed, OrderType
    <3> QED BY <1>4, <3>1, <3>2
  <2> QED BY <1>2, <1>3, <2>1 DEF Inv, TypeOK, Placing
<1>6. OrdersAreKnown'
  BY <1>4 DEF Inv, OrdersAreKnown, Placed
<1>7. OrdersAreTimely'
  <2>1. now \in Int
    BY TradingAssumption DEF Inv, TypeOK
  <2> QED BY <1>3, <1>4, <2>1 DEF Inv, OrdersAreTimely, Placed
<1>8. OneInFlight'
  <2> SUFFICES ASSUME NEW i \in DOMAIN orders', NEW j \in DOMAIN orders',
                      Working(orders'[i]), Working(orders'[j]),
                      SameKind(orders'[i], orders'[j])
               PROVE  i = j
    BY DEF OneInFlight, Working, SameKind
  <2>1. ASSUME NEW k \in DOMAIN orders, NEW l \in Fresh(orders'),
               Working(orders'[k]), SameKind(orders'[k], orders'[l])
        PROVE  FALSE
    <3>1. orders'[k] = orders[k] /\ orders'[l] \in OrderType /\ Placed(orders'[l], View(feed))
      BY <1>4
    <3> QED BY <2>1, <3>1, KindIsKey DEF Placed
  <2>2. CASE i \in DOMAIN orders /\ j \in DOMAIN orders
    BY <1>4, <2>2 DEF Inv, OneInFlight, SameKind
  <2>3. CASE i \in Fresh(orders') /\ j \in Fresh(orders')
    BY <1>2, <2>3 DEF Placing
  <2>4. SameKind(orders'[j], orders'[i])
    BY DEF SameKind
  <2> QED BY <1>4, <2>1, <2>2, <2>3, <2>4
<1>9. ExitsFitPosition'
  <2> SUFFICES ASSUME NEW i \in DOMAIN orders', orders'[i].exit, Working(orders'[i])
               PROVE  orders'[i].qty - orders'[i].fill <= pos[orders'[i].side].qty
    BY <1>3 DEF ExitsFitPosition, Working
  <2>1. CASE i \in DOMAIN orders
    BY <1>4, <2>1 DEF Inv, ExitsFitPosition
  <2>2. CASE i \in Fresh(orders')
    <3>1. orders'[i].fill = 0 /\ orders'[i].qty = pos[orders'[i].side].qty
      BY <1>4, <2>2 DEF Placed
    <3>2. orders'[i].qty \in Nat
      BY <1>4 DEF OrderType
    <3> QED BY <3>1, <3>2
  <2> QED BY <1>4, <2>1, <2>2
<1>10. EnteredOnce' /\ LayersAreBounded' /\ EntriesAreSpaced'
  BY <1>2, <1>3, PlacingEntersOnce, PlacingBoundsLayers, PlacingKeepsEntriesApart
<1> QED BY <1>5, <1>6, <1>7, <1>8, <1>9, <1>10 DEF Inv

------------------------------------------------------------------------------
(***************************************************************************)
(* The theorems.                                                           *)
(***************************************************************************)
LEMMA InitEstablishesInv ==
    ASSUME Init
    PROVE  Inv
<1>1. core \in CoreNames /\ MaxOrders[core] \in Nat /\ now \in Instants
  BY TradingAssumption DEF Init
<1>2. pos \in [Sides -> [qty : Nat, avg : Nat, since : Int]]
  BY DEF Init, Flat, NoPrice
<1>3. orders = << >> /\ orders \in Seq(OrderType) /\ Len(orders) = 0 /\ DOMAIN orders = {}
  BY DEF Init
<1>4. TypeOK
  BY <1>1, <1>2, <1>3 DEF TypeOK, Init
<1>5. OrdersAreKnown /\ OrdersAreTimely /\ OneInFlight /\ ExitsFitPosition
  BY <1>3 DEF OrdersAreKnown, OrdersAreTimely, OneInFlight, ExitsFitPosition
<1>6. \A sides : ActiveEntries(sides) = {}
  BY <1>3 DEF ActiveEntries
<1>7. EnteredOnce
  BY <1>6 DEF EnteredOnce, Alone
<1>8. LayersAreBounded
  <2>1. Cardinality({}) = 0
    BY FS_EmptySet
  <2>2. 0 <= MaxLayers
    BY AlphaCoresAssumption
  <2> QED BY <1>6, <2>1, <2>2 DEF LayersAreBounded
<1>9. EntriesAreSpaced
  <2>1. Accepted = {}
    BY <1>3 DEF Accepted
  <2> QED BY <2>1, SpacedIsApart
<1> QED BY <1>4, <1>5, <1>7, <1>8, <1>9 DEF Inv

LEMMA NextPreservesInv ==
    ASSUME Inv, [Next]_vars
    PROVE  Inv'
<1>1. ASSUME NEW feed \in Feeds, Evaluate(feed)
      PROVE  Inv'
  BY <1>1, EvaluatePreserves
<1>2. ASSUME NEW cancelled \in BOOLEAN, Retire(cancelled)
      PROVE  Inv'
  <2>1. UNCHANGED <<core, now, pos>> /\ active' \in BOOLEAN
    BY <1>2 DEF Retire
  <2> QED BY <1>2, <2>1, RetireAnswers, AnswersPreserveInv
<1>3. ASSUME NEW i \in DOMAIN orders, Accept(i) \/ Reject(i) \/ Kill(i)
      PROVE  Inv'
  <2>1. UNCHANGED <<core, now, pos>> /\ active' \in BOOLEAN
    BY <1>3 DEF Accept, Reject, Kill, Inv, TypeOK
  <2> QED BY <1>3, <2>1, AcceptAnswers, RejectAnswers, KillAnswers, AnswersPreserveInv
<1>4. ASSUME NEW i \in DOMAIN orders, NEW lots \in 1 .. orders[i].qty, Fill(i, lots)
      PROVE  Inv'
  BY <1>4, FillPreserves
<1>5. CASE Tick
  BY <1>5, TickPreserves
<1>6. CASE UNCHANGED vars
  <2>1. OrdersAreAnswered
    <3>1. \A i \in DOMAIN orders : Answered(orders[i], orders[i])
      BY OrdersAreTyped, AnsweredStays DEF Inv
    <3> QED BY <1>6, <3>1 DEF OrdersAreAnswered, vars, Inv, TypeOK
  <2>2. UNCHANGED <<core, now, pos>> /\ active' \in BOOLEAN
    BY <1>6 DEF vars, Inv, TypeOK
  <2> QED BY <2>1, <2>2, AnswersPreserveInv
<1> QED BY <1>1, <1>2, <1>3, <1>4, <1>5, <1>6 DEF Next

\* The invariant holds of every behaviour.
THEOREM Invariance == Spec => []Inv
<1>1. Init => Inv
  BY InitEstablishesInv
<1>2. Inv /\ [Next]_vars => Inv'
  BY NextPreservesInv
<1> QED BY <1>1, <1>2, PTL DEF Spec

\* Orders, positions and the clock keep their types: no fill exceeds its order,
\* and no position becomes negative.
THEOREM TypeCorrect == Spec => []TypeOK
<1>1. Inv => TypeOK
  BY DEF Inv
<1> QED BY <1>1, Invariance, PTL

\* However evaluations and the venue's answers interleave, no side has two
\* entries, or two exits, at the venue (the deduplication of DecisionPipeline).
THEOREM NeverTwoInFlight == Spec => []OneInFlight
<1>1. Inv => OneInFlight
  BY DEF Inv
<1> QED BY <1>1, Invariance, PTL

\* What a working exit can still sell is held (has_exit_order).
THEOREM NeverOversold == Spec => []ExitsFitPosition
<1>1. Inv => ExitsFitPosition
  BY DEF Inv
<1> QED BY <1>1, Invariance, PTL

LEMMA AloneIsOneAtMost ==
    ASSUME TypeOK, NEW sides, Alone(sides)
    PROVE  Cardinality(ActiveEntries(sides)) <= 1
<1> DEFINE S == ActiveEntries(sides)
<1>1. \A i, j \in S : i = j
  BY DEF Alone
<1> SUFFICES Cardinality(S) <= 1
  OBVIOUS
<1> HIDE DEF S
<1>2. CASE S = {}
  BY <1>2, FS_EmptySet
<1>3. CASE S # {}
  <2>1. PICK i \in S : TRUE
    BY <1>3
  <2>2. S = {i}
    BY <1>1, <2>1
  <2>3. Cardinality({i}) = 1
    BY FS_Singleton
  <2> QED BY <2>2, <2>3
<1> QED BY <1>2, <1>3

\* Through partial fills, rejections, exits and late answers no core enters a
\* market more often, or sooner again, than it means to (has_market_activity,
\* max_layers, entry_frequency_sec and flip_guard_window_sec).
THEOREM EntriesStayBounded == Spec => []EntriesAreBounded
<1>1. Inv => EntriesAreBounded
  <2> SUFFICES ASSUME Inv PROVE EntersOnce
    BY DEF Inv, EntriesAreBounded
  <2>1. \A sides : Alone(sides) => Cardinality(ActiveEntries(sides)) <= 1
    BY AloneIsOneAtMost DEF Inv
  <2> QED BY <2>1 DEF Inv, EnteredOnce, EntersOnce
<1> QED BY <1>1, Invariance, PTL

\* No order ever hedges: the core's answer to a lone leg is dropped as an
\* incomplete pair, whatever the feeds show and the venue answers
\* (build_hedge_order_decision, _resolve_pair_group).
THEOREM HedgesAreNeverPlaced == Spec => [](\A i \in DOMAIN orders : ~orders[i].hedge)
<1>1. Inv => \A i \in DOMAIN orders : ~orders[i].hedge
  BY DEF Inv, OrdersAreKnown
<1> QED BY <1>1, Invariance, PTL

\* A due close of a position is at the venue, or becomes an order of the batch.
LEMMA DueCloseIsPlaced ==
    ASSUME Inv, NEW feed \in FeedType, ~Blocked(feed), NEW side \in Sides, side \notin feed.late,
           CloseIsDue(View(feed), side)
    PROVE  HasExitOrder([orders |-> Apply(Decisions(feed), feed)], side)
<1> DEFINE v == View(feed)
           decisions == Decisions(feed)
           os == Apply(decisions, feed)
           n == Len(decisions)
<1>1. ViewType(v)
  BY ViewIsTyped DEF Inv
<1>2. PICK k \in 1 .. Len(ExitDecisions(v)) : ExitDecisions(v)[k] = ExitDecision(v, side)
  BY <1>1, ExitDecisionsClose
<1>3. ExitDecisions(v) # << >>
  BY <1>2
<1>4. decisions = ExitDecisions(v)
  BY <1>3 DEF Decisions
<1> DEFINE d == decisions[k]
<1>5. k \in 1 .. n /\ d \in Closing(v) /\ d.side = side
  BY <1>1, <1>2, <1>4, ExitDecisionCloses
<1>6. decisions \in Seq(DecisionType)
  BY DecisionsAreSensible DEF Inv
<1>7. Survives(d, decisions, feed) /\ CanBeMapped(d, feed)
  <2> DEFINE e == d
  <2>1. /\ e.exit /\ e.intent = "FAK" /\ ~e.pair /\ e.qty > 0 /\ feed.bid[e.side] # NoPrice
        /\ e.side = side
    BY <1>5 DEF Closing, View
  <2> HIDE DEF e
  <2>2. ~TooLate(feed, side)
    BY DEF Blocked, TooLate
  <2>3. Passes(e, feed)
    BY <2>1, <2>2 DEF Passes, InTime, FreshSpot, FairPrice, Confident, Passive
  <2>4. Survives(e, decisions, feed) /\ CanBeMapped(e, feed)
    BY <2>1, <2>3 DEF Survives, CanBeMapped
  <2> QED BY <2>4 DEF e
<1>8. PICK keys : Grown([orders |-> os, keys |-> keys], decisions, feed, n)
  BY <1>6, ApplyGrows DEF Inv
<1>9. DedupeKey(d) = <<side, "native_exit", TRUE>>
  BY <1>5 DEF DedupeKey, Closing, DecisionType
<1>10. DedupeKey(d) \notin KeysInFlight
  <2> SUFFICES ASSUME NEW i \in DOMAIN orders, Working(orders[i]),
                      DedupeKey(d) = DedupeKey(orders[i])
               PROVE  FALSE
    BY DEF KeysInFlight
  <2>1. orders[i].side = side /\ orders[i].exit
    BY <1>9 DEF DedupeKey
  <2> QED BY <2>1 DEF CloseIsDue, HasExitOrder, View
<1> HIDE DEF os, d, decisions
<1>11. DedupeKey(d) \in keys
  BY <1>5, <1>7, <1>8 DEF Grown, d
<1>12. PICK i \in Fresh(os) : DedupeKey(d) = DedupeKey(os[i])
  BY <1>8, <1>10, <1>11 DEF Grown
<1>13. os[i].side = side /\ os[i].exit
  BY <1>9, <1>12 DEF DedupeKey
<1>14. os[i].status = "inflight" /\ i \in DOMAIN os
  <2>1. os \in Seq(OrderType)
    BY <1>8 DEF Grown
  <2>2. os[i].status = "inflight"
    BY <1>12, EvaluatePlaces DEF Placed, Inv, os, decisions
  <2> QED BY <2>1, <2>2 DEF Fresh, Inv, TypeOK
<1>15. Working(os[i])
  BY <1>14 DEF Working
<1> QED BY <1>13, <1>14, <1>15 DEF HasExitOrder, os, decisions

\* An evaluation with usable books leaves no position at its stop, target or
\* longest time without an exit at the venue, whatever else the feed shows and
\* the strategy has in flight (evaluate_decisions, the exemptions of the gate).
THEOREM StopsAreActedOn == Spec => []StopIsActedOn
<1>1. Inv => StopIsActedOn
  <2> SUFFICES ASSUME Inv, NEW feed \in Feeds, ~Blocked(feed), NEW side \in Sides \ feed.late,
                      ExitIsDue(View(feed), side)
               PROVE  HasExitOrder([orders |-> Apply(Decisions(feed), feed)], side)
    BY DEF StopIsActedOn
  <2>1. feed \in FeedType
    BY TradingAssumption
  <2>2. CASE ~HasExitOrder(View(feed), side)
    BY <2>1, <2>2, DueCloseIsPlaced DEF CloseIsDue
  <2>3. CASE HasExitOrder(View(feed), side)
    <3> DEFINE os == Apply(Decisions(feed), feed)
    <3>1. PICK i \in DOMAIN orders :
              orders[i].exit /\ orders[i].side = side /\ Working(orders[i])
      BY <2>3 DEF HasExitOrder, View
    <3>2. /\ os \in Seq(OrderType) /\ Len(orders) <= Len(os)
          /\ \A j \in DOMAIN orders : os[j] = orders[j]
      BY <2>1, EvaluatePlaces DEF Inv
    <3>3. i \in DOMAIN os /\ os[i] = orders[i]
      <4> HIDE DEF os
      <4> QED BY <3>1, <3>2 DEF Inv, TypeOK
    <3> QED BY <3>1, <3>3 DEF HasExitOrder
  <2> QED BY <2>2, <2>3
<1> QED BY <1>1, Invariance, PTL

==============================================================================
