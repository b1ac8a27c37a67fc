------------------------- MODULE MarketRotationProofs -------------------------
(***************************************************************************)
(* Proofs about MarketRotation: what the strategies take for active is     *)
(* what the actor has active, over any number of markets, strategies,      *)
(* starts, stops, crashes and boots.                                       *)
(***************************************************************************)
EXTENDS MarketRotation, TLAPS

-----------------------------------------------------------------------------
(* The inductive invariant.                                                *)

(* A closed market has its tombstone, in memory and, once saved, in the    *)
(* state that a boot loads; a tombstone and an active market exclude each  *)
(* other.                                                                  *)
Tombstones ==
    /\ terminal \cap active = {}
    /\ closed \subseteq terminal
    /\ closed \ unsaved \subseteq saved.terminal
    /\ saved.terminal \cap saved.active = {}
    /\ saved.exists = FALSE => saved.terminal = {}

(* No epoch is newer than the actor's.                                     *)
Numbered == /\ saved.epoch <= epoch
            /\ \A s \in Strategies : told[s].epoch <= epoch

(* A replay is only scheduled while the node runs, and what it will        *)
(* announce as left is not active: over, or not delivered again.           *)
ReplayIsRight ==
    /\ replay.scheduled => running
    /\ (replay.exited \cup replay.restored) \cap active = {}
    /\ \A c \in replay.exited : c \in terminal \/ now >= End[c]

IInv == /\ TypeOK /\ Tombstones /\ Numbered /\ ReplayIsRight
        /\ StrategiesFollow /\ LeaversAreGone

-----------------------------------------------------------------------------
(* The initial state.                                                      *)

LEMMA MarketTypes ==
    /\ NoMarket \in [text : Nat, price : Nat]
    /\ \A m \in Markets : m \in [text : Nat, price : Nat]
    /\ \A p \in Payloads : /\ [text |-> p.text, price |-> p.price] \in Markets
                           /\ p.text \in Nat /\ p.price \in Nat
BY RotationAssumption DEF NoMarket, Markets, Unknown

(* What TypeOK says of the markets and of the records.                     *)
LEMMA KnownTypes ==
    ASSUME TypeOK
    PROVE  /\ \A c \in Conditions : /\ market[c] \in Markets \cup {NoMarket}
                                    /\ market[c].text \in Nat /\ market[c].price \in Nat
           /\ replay.scheduled \in BOOLEAN /\ replay.generation \in Nat
           /\ replay.exited \subseteq Conditions /\ replay.restored \subseteq Conditions
           /\ \A s \in Strategies : /\ told[s].epoch \in Int
                                    /\ told[s].universe \subseteq Conditions
           /\ saved.exists \in BOOLEAN /\ saved.epoch \in Nat
           /\ saved.terminal \subseteq Conditions /\ saved.active \subseteq Conditions
           /\ saved.market \in [Conditions -> Markets \cup {NoMarket}]
<1>1. \A c \in Conditions : market[c] \in Markets \cup {NoMarket} BY DEF TypeOK
<1>2. \A c \in Conditions : market[c].text \in Nat /\ market[c].price \in Nat
  BY <1>1, MarketTypes
<1> HIDE DEF Markets, NoMarket
<1> QED BY <1>1, <1>2 DEF TypeOK

LEMMA InitIInv == Init => IInv
<1> SUFFICES ASSUME Init PROVE IInv OBVIOUS
<1>1. PICK S \in Startup : \E markets \in [S -> Markets] :
          /\ active = S
          /\ market = [c \in Conditions |-> IF c \in S THEN markets[c] ELSE NoMarket]
          /\ catalog = [c \in Conditions |->
                          IF c \in S THEN markets[c].text ELSE Unknown]
  BY DEF Init
<1>2. PICK markets \in [S -> Markets] :
          /\ active = S
          /\ market = [c \in Conditions |-> IF c \in S THEN markets[c] ELSE NoMarket]
          /\ catalog = [c \in Conditions |->
                          IF c \in S THEN markets[c].text ELSE Unknown]
  BY <1>1
<1>3. \A c \in S : markets[c] \in Markets /\ markets[c].text \in Nat
  BY <1>2, MarketTypes
<1>4. /\ now = 0 /\ running = FALSE /\ loaded = FALSE
      /\ terminal = {} /\ legs = [c \in Conditions |-> {}]
      /\ sent = [c \in Conditions |-> Unknown]
      /\ epoch = 0 /\ generation = 0 /\ replay = NoReplay /\ alerts = {}
      /\ announced = [entered |-> {}, exited |-> {}]
      /\ told = [s \in Strategies |-> [epoch |-> -1, universe |-> {}]]
      /\ prices = [c \in Conditions |-> Unknown]
      /\ saved = NoState /\ closed = {} /\ unsaved = {}
      /\ deliveries = 0 /\ starts = 0 /\ boots = 0
  BY DEF Init
<1>5. TypeOK
  <2>1. active \subseteq Conditions BY <1>2, RotationAssumption
  <2>2. market \in [Conditions -> Markets \cup {NoMarket}] BY <1>2, <1>3
  <2>3. catalog \in [Conditions -> Nat] BY <1>2, <1>3 DEF Unknown
  <2>4. replay \in [scheduled : BOOLEAN, generation : Nat,
                    exited : SUBSET Conditions, restored : SUBSET Conditions]
    BY <1>4 DEF NoReplay
  <2>5. saved \in [exists : BOOLEAN, epoch : Nat, terminal : SUBSET Conditions,
                   active : SUBSET Conditions,
                   market : [Conditions -> Markets \cup {NoMarket}]]
    BY <1>4 DEF NoState
  <2>6. told \in [Strategies -> [epoch : Int, universe : SUBSET Conditions]] BY <1>4
  <2>7. /\ sent \in [Conditions -> Nat] /\ prices \in [Conditions -> Nat]
        /\ legs \in [Conditions -> SUBSET Legs]
        /\ announced \in [entered : SUBSET Conditions, exited : SUBSET Conditions]
    BY <1>4 DEF Unknown
  <2>9. running \in BOOLEAN /\ loaded \in BOOLEAN BY <1>4, Zenon
  <2>10. 0 \in 0 .. MaxTime BY RotationAssumption
  <2>8. /\ now \in 0 .. MaxTime
        /\ terminal \subseteq Conditions /\ epoch \in Nat /\ generation \in Nat
        /\ alerts \subseteq Nat
        /\ closed \subseteq Conditions /\ unsaved \subseteq Conditions
        /\ deliveries \in Nat /\ starts \in Nat /\ boots \in Nat
    BY <1>4, <2>10
  <2> QED BY <2>1, <2>2, <2>3, <2>4, <2>5, <2>6, <2>7, <2>8, <2>9, Zenon DEF TypeOK
<1>6. Tombstones BY <1>4 DEF Tombstones, NoState
<1>7. Numbered BY <1>4 DEF Numbered, NoState
<1>8. ReplayIsRight BY <1>4 DEF ReplayIsRight, NoReplay
<1>9. StrategiesFollow /\ LeaversAreGone BY <1>4 DEF StrategiesFollow, LeaversAreGone
<1> QED BY <1>5, <1>6, <1>7, <1>8, <1>9 DEF IInv

-----------------------------------------------------------------------------
(* What the steps have in common.                                          *)

(* A step of a running node announces what is active after it, or leaves   *)
(* the active markets alone.                                               *)
LEMMA Heard ==
    ASSUME IInv, running, UNCHANGED <<running, saved>>,
           active' \subseteq Conditions,
           NEW entered \in SUBSET Conditions, NEW exited \in SUBSET Conditions,
           exited \cap active' = {},
           \/ Announce(entered, exited)
           \/ Silence /\ active' = active /\ (replay.scheduled => replay'.scheduled)
    PROVE  /\ StrategiesFollow' /\ LeaversAreGone' /\ Numbered'
           /\ epoch' \in Nat
           /\ told' \in [Strategies -> [epoch : Int, universe : SUBSET Conditions]]
           /\ announced' \in [entered : SUBSET Conditions, exited : SUBSET Conditions]
<1>1. /\ epoch \in Nat /\ saved.epoch \in Nat
      /\ told \in [Strategies -> [epoch : Int, universe : SUBSET Conditions]]
      /\ announced \in [entered : SUBSET Conditions, exited : SUBSET Conditions]
      /\ saved.epoch <= epoch /\ \A s \in Strategies : told[s].epoch <= epoch
  <2>1. saved.epoch \in Nat BY KnownTypes DEF IInv
  <2> QED BY <2>1 DEF IInv, TypeOK, Numbered
<1>2. CASE Announce(entered, exited)
  <2> DEFINE heard(s) == active' \cap Scope[s]
             T == [epoch : Int, universe : SUBSET Conditions]
  <2>1. /\ epoch' = epoch + 1
        /\ announced' = [entered |-> entered, exited |-> exited]
        /\ told' = [s \in Strategies |->
                       IF epoch' > told[s].epoch
                       THEN [epoch |-> epoch', universe |-> heard(s)]
                       ELSE told[s]]
    BY <1>2 DEF Announce, Hears
  <2>2. \A s \in Strategies : heard(s) \in SUBSET Conditions OBVIOUS
  <2>3. epoch' \in Nat /\ epoch <= epoch' BY <1>1, <2>1
  <2> HIDE DEF heard
  <2>4. ASSUME NEW s \in Strategies
        PROVE  told'[s].epoch = epoch' /\ told'[s].universe = heard(s) /\ told'[s] \in T
    <3>1. told[s].epoch \in Int /\ told[s].epoch <= epoch BY <1>1
    <3>2. epoch' > told[s].epoch BY <1>1, <2>1, <3>1
    <3>3. told'[s] = [epoch |-> epoch', universe |-> heard(s)] BY <2>1, <3>2
    <3>4. PICK e, u : e = epoch' /\ u = heard(s) OBVIOUS
    <3>5. told'[s] = [epoch |-> e, universe |-> u] BY <3>3, <3>4
    <3>6. e \in Int /\ u \in SUBSET Conditions BY <2>2, <2>3, <3>4
    <3> QED BY <3>4, <3>5, <3>6
  <2>5. told' \in [Strategies -> T]
    <3>1. told' = [s \in Strategies |-> told'[s]] BY <2>1, Zenon
    <3> HIDE DEF T
    <3> QED BY <2>4, <3>1
  <2>6. StrategiesFollow' BY <2>4 DEF StrategiesFollow, heard
  <2>7. LeaversAreGone' BY <2>1 DEF LeaversAreGone
  <2>8. Numbered'
    <3>1. \A s \in Strategies : told'[s].epoch <= epoch' BY <2>3, <2>4
    <3>2. saved'.epoch <= epoch' BY <1>1, <2>3
    <3> QED BY <3>1, <3>2 DEF Numbered
  <2>9. announced' \in [entered : SUBSET Conditions, exited : SUBSET Conditions]
    BY <2>1
  <2> QED BY <2>3, <2>5, <2>6, <2>7, <2>8, <2>9
<1>3. CASE Silence /\ active' = active /\ (replay.scheduled => replay'.scheduled)
  <2>1. StrategiesFollow'
    BY <1>3 DEF IInv, StrategiesFollow, Silence
  <2>2. LeaversAreGone' /\ Numbered'
    BY <1>3 DEF IInv, LeaversAreGone, Numbered, Silence
  <2> QED BY <1>1, <1>3, <2>1, <2>2 DEF Silence
<1> QED BY <1>2, <1>3

LEMMA PricesSent ==
    ASSUME TypeOK, NEW S \in SUBSET Conditions, NEW retired,
           market' \in [Conditions -> Markets \cup {NoMarket}], SendPrices(S, retired)
    PROVE  sent' \in [Conditions -> Nat] /\ prices' \in [Conditions -> Nat]
<1>1. \A c \in Conditions : market'[c].price \in Nat
  <2> SUFFICES ASSUME NEW c \in Conditions PROVE market'[c].price \in Nat OBVIOUS
  <2>1. market'[c] \in Markets \cup {NoMarket} OBVIOUS
  <2> QED BY <2>1, MarketTypes
<1>2. sent \in [Conditions -> Nat] /\ prices \in [Conditions -> Nat] BY DEF TypeOK
<1>3. \A c \in Conditions :
        (IF c \in retired THEN Unknown ELSE sent[c]) \in Nat
  BY <1>2 DEF Unknown
<1>4. \A c \in Conditions : prices'[c] = market'[c].price \/ prices'[c] = prices[c]
  BY DEF SendPrices
<1>5. \A c \in Conditions :
        sent'[c] = market'[c].price
        \/ sent'[c] = (IF c \in retired THEN Unknown ELSE sent[c])
  BY DEF SendPrices
<1>6. \A c \in Conditions : prices'[c] \in Nat /\ sent'[c] \in Nat
  BY <1>1, <1>2, <1>3, <1>4, <1>5
<1>7. /\ sent' = [c \in Conditions |-> sent'[c]]
      /\ prices' = [c \in Conditions |-> prices'[c]]
  BY DEF SendPrices
<1> QED BY <1>6, <1>7

LEMMA WithoutTypes ==
    ASSUME TypeOK, NEW gone
    PROVE  Without(gone) \in [Conditions -> Markets \cup {NoMarket}]
<1>1. market \in [Conditions -> Markets \cup {NoMarket}] BY DEF TypeOK
<1> QED BY <1>1 DEF Without

LEMMA ExpiredAreActive ==
    ASSUME TypeOK
    PROVE  /\ Expired \subseteq active /\ Expired \subseteq Conditions
           /\ active \subseteq Conditions
           /\ \A c \in Expired : now >= End[c]
BY DEF Expired, TypeOK

-----------------------------------------------------------------------------
(* The instruments: one lemma for each thing that an instrument can do.    *)

InstrumentFrame ==
    /\ running /\ deliveries' = deliveries + 1
    /\ UNCHANGED <<now, running, loaded, generation, alerts, saved, starts, boots>>

LEMMA FrameTypes ==
    ASSUME TypeOK, InstrumentFrame
    PROVE  /\ now' \in 0 .. MaxTime /\ running' \in BOOLEAN /\ loaded' \in BOOLEAN
           /\ generation' \in Nat /\ alerts' \subseteq Nat
           /\ saved' \in [exists : BOOLEAN, epoch : Nat, terminal : SUBSET Conditions,
                          active : SUBSET Conditions,
                          market : [Conditions -> Markets \cup {NoMarket}]]
           /\ deliveries' \in Nat /\ starts' \in Nat /\ boots' \in Nat
<1>1. deliveries' \in Nat BY DEF TypeOK, InstrumentFrame
<1> QED BY <1>1, Zenon DEF TypeOK, InstrumentFrame

LEMMA LegSeen ==
    ASSUME TypeOK, NEW c \in Conditions, NEW leg \in Legs,
           legs' = [legs EXCEPT ![c] = @ \cup {leg}]
    PROVE  legs' \in [Conditions -> SUBSET Legs]
<1>1. legs \in [Conditions -> SUBSET Legs] BY DEF TypeOK
<1> QED BY <1>1

LEMMA ClosedInstrumentKeeps ==
    ASSUME IInv, NEW c \in Conditions, InstrumentFrame, ClosedInstrument(c)
    PROVE  IInv'
<1> DEFINE exited == Expired \cup ({c} \cap active)
<1>1. TypeOK /\ running /\ UNCHANGED <<running, saved, now>> BY DEF IInv, InstrumentFrame
<1>2. exited \in SUBSET Conditions /\ exited \subseteq active /\ active \subseteq Conditions
  BY <1>1, ExpiredAreActive
<1>3. \A x \in exited : x = c \/ now >= End[x] BY <1>1, ExpiredAreActive
<1>4. c \in active => c \in exited OBVIOUS
<1>5. /\ terminal' = terminal \cup {c} /\ active' = active \ exited
      /\ replay' = IF replay.scheduled THEN [replay EXCEPT !.exited = @ \cup exited]
                   ELSE replay
      /\ IF exited = {} THEN Silence ELSE Announce({}, exited)
      /\ SendPrices({}, exited \cup {c})
      /\ closed' = closed \cup {c} /\ unsaved' = unsaved \cup {c}
      /\ market' = Without(exited) /\ UNCHANGED <<legs, catalog>>
  BY DEF ClosedInstrument, AnnounceExits
<1> HIDE DEF exited
<1>6. /\ replay'.scheduled = replay.scheduled /\ replay'.restored = replay.restored
      /\ replay'.exited \in {replay.exited, replay.exited \cup exited}
      /\ replay' \in [scheduled : BOOLEAN, generation : Nat,
                      exited : SUBSET Conditions, restored : SUBSET Conditions]
  <2>1. replay \in [scheduled : BOOLEAN, generation : Nat,
                    exited : SUBSET Conditions, restored : SUBSET Conditions]
    BY <1>1 DEF TypeOK
  <2> QED BY <1>2, <1>5, <2>1
<1>7. /\ StrategiesFollow' /\ LeaversAreGone' /\ Numbered' /\ epoch' \in Nat
      /\ told' \in [Strategies -> [epoch : Int, universe : SUBSET Conditions]]
      /\ announced' \in [entered : SUBSET Conditions, exited : SUBSET Conditions]
  <2>1. active' \subseteq Conditions /\ exited \cap active' = {} BY <1>2, <1>5
  <2>2. CASE exited = {}
    <3>1. Silence /\ active' = active BY <1>5, <2>2
    <3>2. {} \in SUBSET Conditions OBVIOUS
    <3> QED BY <1>1, <1>2, <1>6, <2>1, <3>1, <3>2, Heard
  <2>3. CASE exited # {}
    <3>1. {} \in SUBSET Conditions /\ Announce({}, exited) BY <1>5, <2>3
    <3> QED BY <1>1, <1>2, <2>1, <3>1, Heard
  <2> QED BY <2>2, <2>3
<1>8. TypeOK'
  <2>1. market' \in [Conditions -> Markets \cup {NoMarket}] BY <1>1, <1>5, WithoutTypes
  <2>2. sent' \in [Conditions -> Nat] /\ prices' \in [Conditions -> Nat]
    <3>1. {} \in SUBSET Conditions OBVIOUS
    <3> QED BY <1>1, <1>5, <2>1, <3>1, PricesSent
  <2>3. /\ active' \subseteq Conditions /\ terminal' \subseteq Conditions
        /\ closed' \subseteq Conditions /\ unsaved' \subseteq Conditions
    BY <1>1, <1>2, <1>5 DEF TypeOK
  <2>4. legs' \in [Conditions -> SUBSET Legs] /\ catalog' \in [Conditions -> Nat]
    BY <1>1, <1>5 DEF TypeOK
  <2> QED BY <1>1, <1>6, <1>7, <2>1, <2>2, <2>3, <2>4, FrameTypes, Zenon DEF TypeOK
<1>9. Tombstones'
  BY <1>1, <1>2, <1>4, <1>5 DEF IInv, Tombstones
<1>10. ReplayIsRight'
  <2>1. /\ replay.scheduled => running
        /\ (replay.exited \cup replay.restored) \cap active = {}
        /\ \A x \in replay.exited : x \in terminal \/ now >= End[x]
    BY DEF IInv, ReplayIsRight
  <2>2. replay'.scheduled => running' BY <1>1, <1>6
  <2>3. (replay'.exited \cup replay'.restored) \cap active' = {}
    BY <1>5, <1>6, <2>1
  <2>4. \A x \in replay'.exited : x \in terminal' \/ now' >= End[x]
    BY <1>1, <1>3, <1>5, <1>6, <2>1
  <2> QED BY <2>2, <2>3, <2>4 DEF ReplayIsRight
<1> QED BY <1>7, <1>8, <1>9, <1>10 DEF IInv

LEMMA UselessInstrumentKeeps ==
    ASSUME IInv, NEW c \in Conditions, NEW leg \in Legs, NEW flags,
           InstrumentFrame, UselessInstrument(c, leg, flags)
    PROVE  IInv'
<1>1. TypeOK /\ running /\ UNCHANGED <<running, saved, now>> BY DEF IInv, InstrumentFrame
<1>2. /\ legs' = [legs EXCEPT ![c] = @ \cup {leg}] /\ Silence
      /\ UNCHANGED <<active, market, terminal, sent, replay, catalog, prices, closed,
                     unsaved>>
  BY DEF UselessInstrument
<1>3. /\ StrategiesFollow' /\ LeaversAreGone' /\ Numbered' /\ epoch' \in Nat
      /\ told' \in [Strategies -> [epoch : Int, universe : SUBSET Conditions]]
      /\ announced' \in [entered : SUBSET Conditions, exited : SUBSET Conditions]
  <2>1. {} \in SUBSET Conditions /\ {} \cap active' = {} OBVIOUS
  <2>2. active' \subseteq Conditions BY <1>1, <1>2 DEF TypeOK
  <2> QED BY <1>1, <1>2, <2>1, <2>2, Heard
<1>4. TypeOK'
  <2>1. legs' \in [Conditions -> SUBSET Legs] BY <1>1, <1>2, LegSeen
  <2>2. /\ active' \subseteq Conditions /\ terminal' \subseteq Conditions
        /\ closed' \subseteq Conditions /\ unsaved' \subseteq Conditions
        /\ market' \in [Conditions -> Markets \cup {NoMarket}]
        /\ sent' \in [Conditions -> Nat] /\ prices' \in [Conditions -> Nat]
        /\ catalog' \in [Conditions -> Nat]
        /\ replay' \in [scheduled : BOOLEAN, generation : Nat,
                        exited : SUBSET Conditions, restored : SUBSET Conditions]
    BY <1>1, <1>2, Zenon DEF TypeOK
  <2> QED BY <1>1, <1>3, <2>1, <2>2, FrameTypes, Zenon DEF TypeOK
<1>5. Tombstones' BY <1>1, <1>2 DEF IInv, Tombstones
<1>6. ReplayIsRight' BY <1>1, <1>2 DEF IInv, ReplayIsRight
<1> QED BY <1>3, <1>4, <1>5, <1>6 DEF IInv

LEMMA InactiveInstrumentKeeps ==
    ASSUME IInv, NEW c \in Conditions, NEW leg \in Legs, NEW flags,
           InstrumentFrame, InactiveInstrument(c, leg, flags)
    PROVE  IInv'
<1> DEFINE exited == Expired \cup ({c} \cap active)
<1>1. TypeOK /\ running /\ UNCHANGED <<running, saved, now>> BY DEF IInv, InstrumentFrame
<1>2. exited \in SUBSET Conditions /\ exited \subseteq active /\ active \subseteq Conditions
  BY <1>1, ExpiredAreActive
<1>3. /\ legs' = [legs EXCEPT ![c] = @ \cup {leg}] /\ active' = active \ exited
      /\ IF exited = {} THEN Silence ELSE Announce({}, exited)
      /\ SendPrices({}, exited \cup {c}) /\ market' = Without(exited)
      /\ UNCHANGED <<terminal, replay, catalog, closed, unsaved>>
  BY DEF InactiveInstrument, AnnounceExits
<1> HIDE DEF exited
<1>4. /\ StrategiesFollow' /\ LeaversAreGone' /\ Numbered' /\ epoch' \in Nat
      /\ told' \in [Strategies -> [epoch : Int, universe : SUBSET Conditions]]
      /\ announced' \in [entered : SUBSET Conditions, exited : SUBSET Conditions]
  <2>1. active' \subseteq Conditions /\ exited \cap active' = {} BY <1>2, <1>3
  <2>2. CASE exited = {}
    <3>1. Silence /\ active' = active /\ replay' = replay BY <1>3, <2>2
    <3>2. {} \in SUBSET Conditions OBVIOUS
    <3> QED BY <1>1, <1>2, <2>1, <3>1, <3>2, Heard
  <2>3. CASE exited # {}
    <3>1. {} \in SUBSET Conditions /\ Announce({}, exited) BY <1>3, <2>3
    <3> QED BY <1>1, <1>2, <2>1, <3>1, Heard
  <2> QED BY <2>2, <2>3
<1>5. TypeOK'
  <2>1. market' \in [Conditions -> Markets \cup {NoMarket}] BY <1>1, <1>3, WithoutTypes
  <2>2. sent' \in [Conditions -> Nat] /\ prices' \in [Conditions -> Nat]
    <3>1. {} \in SUBSET Conditions OBVIOUS
    <3> QED BY <1>1, <1>3, <2>1, <3>1, PricesSent
  <2>3. active' \subseteq Conditions BY <1>2, <1>3
  <2>4. /\ terminal' \subseteq Conditions
        /\ closed' \subseteq Conditions /\ unsaved' \subseteq Conditions
        /\ catalog' \in [Conditions -> Nat]
        /\ replay' \in [scheduled : BOOLEAN, generation : Nat,
                        exited : SUBSET Conditions, restored : SUBSET Conditions]
    BY <1>1, <1>3, Zenon DEF TypeOK
  <2>5. legs' \in [Conditions -> SUBSET Legs] BY <1>1, <1>3, LegSeen
  <2> QED BY <1>1, <1>4, <2>1, <2>2, <2>3, <2>4, <2>5, FrameTypes, Zenon DEF TypeOK
<1>6. Tombstones' BY <1>1, <1>3 DEF IInv, Tombstones
<1>7. ReplayIsRight' BY <1>1, <1>3 DEF IInv, ReplayIsRight
<1> QED BY <1>4, <1>5, <1>6, <1>7 DEF IInv

LEMMA ActiveInstrumentKeeps ==
    ASSUME IInv, NEW c \in Conditions, NEW leg \in Legs, NEW flags, NEW m \in Markets,
           InstrumentFrame, ActiveInstrument(c, leg, flags, m)
    PROVE  IInv'
<1> DEFINE entered == {c} \ (active \ Expired)
           described == IF c \in entered \/ market[c].text # m.text THEN {c} ELSE {}
<1>1. TypeOK /\ running /\ UNCHANGED <<running, saved, now>> BY DEF IInv, InstrumentFrame
<1>2. /\ Expired \subseteq active /\ active \subseteq Conditions
      /\ \A x \in Expired : now >= End[x]
  BY <1>1, ExpiredAreActive
<1>3. entered \in SUBSET Conditions /\ entered \subseteq {c}
      /\ (c \notin entered => c \in active)
      /\ described \in SUBSET Conditions
  OBVIOUS
<1>4. /\ legs' = [legs EXCEPT ![c] = @ \cup {leg}]
      /\ c \notin terminal /\ now < End[c]
      /\ replay' = [replay EXCEPT !.restored = @ \ {c}]
      /\ active' = (active \ Expired) \cup {c}
      /\ market' = [Without(Expired) EXCEPT ![c] = m]
      /\ Describe(described)
      /\ IF entered \cup Expired = {} THEN Silence ELSE Announce(entered, Expired)
      /\ SendPrices({c}, Expired)
      /\ UNCHANGED <<terminal, closed, unsaved>>
  BY DEF ActiveInstrument
<1> HIDE DEF entered, described
<1>5. c \notin Expired
  <2>1. End[c] \in Int /\ now \in Int BY <1>1, RotationAssumption DEF TypeOK, Never
  <2> QED BY <1>2, <1>4, <2>1
<1>6. /\ replay'.scheduled = replay.scheduled /\ replay'.exited = replay.exited
      /\ replay'.restored = replay.restored \ {c}
      /\ replay' \in [scheduled : BOOLEAN, generation : Nat,
                      exited : SUBSET Conditions, restored : SUBSET Conditions]
  <2>1. replay \in [scheduled : BOOLEAN, generation : Nat,
                    exited : SUBSET Conditions, restored : SUBSET Conditions]
    BY <1>1 DEF TypeOK
  <2> QED BY <1>4, <2>1
<1>7. /\ StrategiesFollow' /\ LeaversAreGone' /\ Numbered' /\ epoch' \in Nat
      /\ told' \in [Strategies -> [epoch : Int, universe : SUBSET Conditions]]
      /\ announced' \in [entered : SUBSET Conditions, exited : SUBSET Conditions]
  <2>1. active' \subseteq Conditions /\ Expired \cap active' = {} BY <1>2, <1>4, <1>5
  <2>2. Expired \in SUBSET Conditions BY <1>2
  <2>3. CASE entered \cup Expired = {}
    <3>1. Silence /\ active' = active BY <1>3, <1>4, <2>3
    <3> QED BY <1>1, <1>3, <1>6, <2>1, <2>2, <3>1, Heard
  <2>4. CASE entered \cup Expired # {}
    <3>1. Announce(entered, Expired) BY <1>4, <2>4
    <3> QED BY <1>1, <1>3, <2>1, <2>2, <3>1, Heard
  <2> QED BY <2>3, <2>4
<1>8. TypeOK'
  <2>1. market' \in [Conditions -> Markets \cup {NoMarket}]
    <3>1. Without(Expired) \in [Conditions -> Markets \cup {NoMarket}]
      BY <1>1, WithoutTypes
    <3> QED BY <1>4, <3>1
  <2>2. sent' \in [Conditions -> Nat] /\ prices' \in [Conditions -> Nat]
    <3>1. {c} \in SUBSET Conditions OBVIOUS
    <3> QED BY <1>1, <1>4, <2>1, <3>1, PricesSent
  <2>3. catalog' \in [Conditions -> Nat]
    <3>1. \A x \in Conditions : market'[x].text \in Nat
      <4> SUFFICES ASSUME NEW x \in Conditions PROVE market'[x].text \in Nat OBVIOUS
      <4>1. market'[x] \in Markets \cup {NoMarket} BY <2>1
      <4> QED BY <4>1, MarketTypes
    <3>2. catalog \in [Conditions -> Nat] BY <1>1 DEF TypeOK
    <3> QED BY <1>4, <3>1, <3>2 DEF Describe
  <2>4. active' \subseteq Conditions BY <1>2, <1>4
  <2>5. /\ terminal' \subseteq Conditions
        /\ closed' \subseteq Conditions /\ unsaved' \subseteq Conditions
    BY <1>1, <1>4, Zenon DEF TypeOK
  <2>6. legs' \in [Conditions -> SUBSET Legs] BY <1>1, <1>4, LegSeen
  <2> QED BY <1>1, <1>6, <1>7, <2>1, <2>2, <2>3, <2>4, <2>5, <2>6, FrameTypes, Zenon
          DEF TypeOK
<1>9. Tombstones' BY <1>1, <1>2, <1>4 DEF IInv, Tombstones
<1>10. ReplayIsRight'
  <2>1. /\ replay.scheduled => running
        /\ (replay.exited \cup replay.restored) \cap active = {}
        /\ \A x \in replay.exited : x \in terminal \/ now >= End[x]
    BY DEF IInv, ReplayIsRight
  <2>2. c \notin replay.exited
    <3>1. End[c] \in Int /\ now \in Int BY <1>1, RotationAssumption DEF TypeOK, Never
    <3> QED BY <1>4, <2>1, <3>1
  <2>3. (replay'.exited \cup replay'.restored) \cap active' = {}
    BY <1>4, <1>6, <2>1, <2>2
  <2>4. \A x \in replay'.exited : x \in terminal' \/ now' >= End[x]
    BY <1>1, <1>4, <1>6, <2>1
  <2> QED BY <1>1, <1>6, <2>1, <2>3, <2>4 DEF ReplayIsRight
<1> QED BY <1>7, <1>8, <1>9, <1>10 DEF IInv

LEMMA InstrumentKeeps ==
    ASSUME IInv, NEW c \in Conditions, NEW leg \in Legs, NEW p \in Payloads,
           Instrument(c, leg, p)
    PROVE  IInv'
<1>1. InstrumentFrame BY DEF Instrument, InstrumentFrame
<1>2. [text |-> p.text, price |-> p.price] \in Markets BY MarketTypes
<1>3. \/ ClosedInstrument(c)
      \/ UselessInstrument(c, leg, p.flags)
      \/ InactiveInstrument(c, leg, p.flags)
      \/ ActiveInstrument(c, leg, p.flags, [text |-> p.text, price |-> p.price])
  BY Zenon DEF Instrument
<1> QED BY <1>1, <1>2, <1>3, ClosedInstrumentKeeps, UselessInstrumentKeeps,
           InactiveInstrumentKeeps, ActiveInstrumentKeeps, Zenon

-----------------------------------------------------------------------------
(* The timers.                                                             *)

LEMMA ExpiryTimerKeeps ==
    ASSUME IInv, ExpiryTimer PROVE IInv'
<1>1. /\ TypeOK /\ running
      /\ active' = active \ Expired /\ Announce({}, Expired)
      /\ market' = Without(Expired) /\ SendPrices({}, Expired)
      /\ UNCHANGED <<now, running, loaded, terminal, legs, generation, replay,
                     alerts, catalog, saved, closed, unsaved, deliveries, starts,
                     boots>>
  BY DEF IInv, ExpiryTimer, history, bounds
<1>2. Expired \in SUBSET Conditions /\ active \subseteq Conditions
  BY <1>1, ExpiredAreActive
<1>3. /\ StrategiesFollow' /\ LeaversAreGone' /\ Numbered' /\ epoch' \in Nat
      /\ told' \in [Strategies -> [epoch : Int, universe : SUBSET Conditions]]
      /\ announced' \in [entered : SUBSET Conditions, exited : SUBSET Conditions]
  <2>1. active' \subseteq Conditions /\ Expired \cap active' = {} BY <1>1, <1>2
  <2>2. {} \in SUBSET Conditions OBVIOUS
  <2> QED BY <1>1, <1>2, <2>1, <2>2, Heard
<1>4. TypeOK'
  <2>1. market' \in [Conditions -> Markets \cup {NoMarket}] BY <1>1, WithoutTypes
  <2>2. sent' \in [Conditions -> Nat] /\ prices' \in [Conditions -> Nat]
    <3>1. {} \in SUBSET Conditions OBVIOUS
    <3> QED BY <1>1, <2>1, <3>1, PricesSent
  <2>3. active' \subseteq Conditions BY <1>1, <1>2
  <2> QED BY <1>1, <1>3, <2>1, <2>2, <2>3, Zenon DEF TypeOK
<1>5. Tombstones' BY <1>1 DEF IInv, Tombstones
<1>6. ReplayIsRight' BY <1>1 DEF IInv, ReplayIsRight
<1> QED BY <1>3, <1>4, <1>5, <1>6 DEF IInv

LEMMA StartupReplayKeeps ==
    ASSUME IInv, NEW g \in alerts, StartupReplay(g) PROVE IInv'
<1>1. /\ TypeOK /\ alerts' = alerts \ {g}
      /\ UNCHANGED <<now, running, loaded, terminal, legs, generation, saved, closed,
                     unsaved, deliveries, starts, boots>>
  BY DEF IInv, StartupReplay, history, bounds
<1>2. alerts' \subseteq Nat BY <1>1 DEF TypeOK
<1>3. CASE replay.scheduled /\ replay.generation = g /\ generation = g
  <2> DEFINE left == replay.exited \cup replay.restored
  <2>1. /\ replay' = NoReplay /\ UNCHANGED <<active, market>>
        /\ Describe(active) /\ Announce(active, left) /\ SendPrices(active, {})
    BY <1>3 DEF StartupReplay
  <2>2. running /\ left \cap active = {} BY <1>3 DEF IInv, ReplayIsRight
  <2>3. left \in SUBSET Conditions /\ active \in SUBSET Conditions
    <3>1. replay.exited \subseteq Conditions /\ replay.restored \subseteq Conditions
      BY <1>1, KnownTypes
    <3> QED BY <1>1, <3>1 DEF TypeOK
  <2> HIDE DEF left
  <2>4. /\ StrategiesFollow' /\ LeaversAreGone' /\ Numbered' /\ epoch' \in Nat
        /\ told' \in [Strategies -> [epoch : Int, universe : SUBSET Conditions]]
        /\ announced' \in [entered : SUBSET Conditions, exited : SUBSET Conditions]
    <3>1. active' \subseteq Conditions /\ left \cap active' = {} BY <2>1, <2>2, <2>3
    <3> QED BY <1>1, <2>1, <2>2, <2>3, <3>1, Heard
  <2>5. market' \in [Conditions -> Markets \cup {NoMarket}]
    BY <1>1, <2>1 DEF TypeOK
  <2>6. sent' \in [Conditions -> Nat] /\ prices' \in [Conditions -> Nat]
    BY <1>1, <2>1, <2>3, <2>5, PricesSent
  <2>7. catalog' \in [Conditions -> Nat]
    <3>1. \A x \in Conditions : market'[x].text \in Nat BY <1>1, <2>1, KnownTypes
    <3>2. catalog \in [Conditions -> Nat] BY <1>1 DEF TypeOK
    <3> QED BY <2>1, <3>1, <3>2 DEF Describe
  <2>8. replay' \in [scheduled : BOOLEAN, generation : Nat,
                     exited : SUBSET Conditions, restored : SUBSET Conditions]
    BY <2>1 DEF NoReplay
  <2>9. active' \subseteq Conditions BY <2>1, <2>3
  <2>10. TypeOK'
    BY <1>1, <1>2, <2>4, <2>5, <2>6, <2>7, <2>8, <2>9, Zenon DEF TypeOK
  <2>11. Tombstones' BY <1>1, <2>1 DEF IInv, Tombstones
  <2>12. ReplayIsRight' BY <2>1 DEF ReplayIsRight, NoReplay
  <2> QED BY <2>4, <2>10, <2>11, <2>12 DEF IInv
<1>4. CASE ~(replay.scheduled /\ replay.generation = g /\ generation = g)
  <2>1. UNCHANGED <<active, market, replay, announced, told, catalog, prices, epoch,
                    sent>>
    BY <1>4 DEF StartupReplay, subscribers
  <2>2. TypeOK' BY <1>1, <1>2, <2>1, Zenon DEF TypeOK
  <2> QED BY <1>1, <2>1, <2>2 DEF IInv, Tombstones, Numbered, ReplayIsRight,
                                  StrategiesFollow, LeaversAreGone
<1> QED BY <1>3, <1>4

LEMMA TickKeeps ==
    ASSUME IInv, Tick PROVE IInv'
<1>1. /\ TypeOK /\ now < MaxTime /\ now' = now + 1
      /\ UNCHANGED <<running, loaded, active, market, terminal, legs, sent, epoch,
                     generation, replay, alerts, announced, told, catalog, prices,
                     saved, closed, unsaved, deliveries, starts, boots>>
  BY DEF IInv, Tick, subscribers, history, bounds
<1>2. now \in 0 .. MaxTime /\ now' \in 0 .. MaxTime
  BY <1>1, RotationAssumption DEF TypeOK
<1>3. TypeOK' BY <1>1, <1>2, Zenon DEF TypeOK
<1>4. ReplayIsRight'
  <2>1. \A x \in replay.exited : x \in terminal \/ now >= End[x]
    BY DEF IInv, ReplayIsRight
  <2>2. \A x \in replay.exited : x \in Conditions /\ End[x] \in Int
    BY <1>1, KnownTypes, RotationAssumption DEF Never
  <2>3. \A x \in replay.exited : x \in terminal \/ now' >= End[x]
    BY <1>1, <1>2, <2>1, <2>2
  <2> QED BY <1>1, <2>3 DEF IInv, ReplayIsRight
<1> QED BY <1>1, <1>3, <1>4 DEF IInv, Tombstones, Numbered, StrategiesFollow,
                                LeaversAreGone

-----------------------------------------------------------------------------
(* Starts, stops, and the end of a process.                                *)

LEMMA StartKeeps ==
    ASSUME IInv, Start PROVE IInv'
<1> DEFINE left == active \ Expired
           restored == IF loaded THEN left ELSE {}
<1>1. /\ TypeOK /\ running' = TRUE /\ starts' = starts + 1
      /\ generation' = generation + 1
      /\ active' = left \ restored
      /\ IF left \cup Expired # {}
         THEN /\ replay' = [scheduled |-> TRUE, generation |-> generation',
                            exited |-> Expired, restored |-> restored]
              /\ alerts' = alerts \cup {generation'}
         ELSE UNCHANGED <<replay, alerts>>
      /\ told' = [s \in Strategies |-> [told[s] EXCEPT !.universe = {}]]
      /\ market' = Without(Expired \cup restored)
      /\ SendPrices({}, Expired)
      /\ UNCHANGED <<now, loaded, terminal, legs, epoch, announced, catalog, saved,
                     closed, unsaved, deliveries, boots>>
  BY DEF IInv, Start, history
<1>2. /\ Expired \subseteq active /\ active \subseteq Conditions
      /\ \A x \in Expired : now >= End[x]
  BY <1>1, ExpiredAreActive
<1>3. left \subseteq active /\ restored \subseteq left /\ Expired \cap left = {}
      /\ (left \cup Expired = {} => active = {})
  BY <1>2
<1> HIDE DEF left, restored
<1>4. generation' \in Nat /\ starts' \in Nat BY <1>1 DEF TypeOK
<1>5. \A s \in Strategies :
        /\ told'[s].epoch = told[s].epoch /\ told'[s].universe = {}
        /\ told'[s] \in [epoch : Int, universe : SUBSET Conditions]
  <2> SUFFICES ASSUME NEW s \in Strategies
               PROVE  /\ told'[s].epoch = told[s].epoch /\ told'[s].universe = {}
                      /\ told'[s] \in [epoch : Int, universe : SUBSET Conditions]
    OBVIOUS
  <2>1. told[s] \in [epoch : Int, universe : SUBSET Conditions] BY <1>1 DEF TypeOK
  <2>2. told'[s] = [told[s] EXCEPT !.universe = {}] BY <1>1
  <2> QED BY <2>1, <2>2
<1>6. replay' \in [scheduled : BOOLEAN, generation : Nat,
                   exited : SUBSET Conditions, restored : SUBSET Conditions]
      /\ alerts' \subseteq Nat
  <2>1. CASE left \cup Expired # {}
    <3>1. /\ replay' = [scheduled |-> TRUE, generation |-> generation',
                        exited |-> Expired, restored |-> restored]
          /\ alerts' = alerts \cup {generation'}
      BY <1>1, <2>1
    <3>2. Expired \in SUBSET Conditions /\ restored \in SUBSET Conditions
      BY <1>2, <1>3
    <3>3. TRUE \in BOOLEAN OBVIOUS
    <3> QED BY <1>1, <1>4, <3>1, <3>2, <3>3 DEF TypeOK
  <2>2. CASE left \cup Expired = {} BY <1>1, <2>2 DEF TypeOK
  <2> QED BY <2>1, <2>2
<1>7. TypeOK'
  <2>1. market' \in [Conditions -> Markets \cup {NoMarket}] BY <1>1, WithoutTypes
  <2>2. sent' \in [Conditions -> Nat] /\ prices' \in [Conditions -> Nat]
    <3>1. {} \in SUBSET Conditions OBVIOUS
    <3> QED BY <1>1, <2>1, <3>1, PricesSent
  <2>3. told' \in [Strategies -> [epoch : Int, universe : SUBSET Conditions]]
    <3> DEFINE T == [epoch : Int, universe : SUBSET Conditions]
    <3>1. told' = [s \in Strategies |-> told'[s]] BY <1>1, Zenon
    <3>2. \A s \in Strategies : told'[s] \in T BY <1>5
    <3> HIDE DEF T
    <3>3. told' \in [Strategies -> T] BY <3>1, <3>2
    <3> QED BY <3>3 DEF T
  <2>4. running' \in BOOLEAN BY <1>1, Zenon
  <2>5. active' \subseteq Conditions BY <1>1, <1>2, <1>3
  <2> QED BY <1>1, <1>4, <1>6, <2>1, <2>2, <2>3, <2>4, <2>5, Zenon DEF TypeOK
<1>8. Tombstones' BY <1>1, <1>3 DEF IInv, Tombstones
<1>9. Numbered' BY <1>1, <1>5 DEF IInv, Numbered
<1>10. LeaversAreGone' BY <1>1, <1>3 DEF IInv, LeaversAreGone
<1>11. ReplayIsRight' /\ StrategiesFollow'
  <2>1. CASE left \cup Expired # {}
    <3>1. /\ replay'.scheduled = TRUE /\ replay'.exited = Expired
          /\ replay'.restored = restored
      BY <1>1, <2>1
    <3>2. ReplayIsRight' BY <1>1, <1>2, <1>3, <3>1 DEF ReplayIsRight
    <3>3. StrategiesFollow' BY <1>5, <3>1 DEF StrategiesFollow
    <3> QED BY <3>2, <3>3
  <2>2. CASE left \cup Expired = {}
    <3>1. replay' = replay /\ active' = {} /\ running' BY <1>1, <1>3, <2>2
    <3>2. ReplayIsRight' BY <1>1, <3>1 DEF IInv, ReplayIsRight
    <3>3. StrategiesFollow' BY <1>5, <3>1 DEF StrategiesFollow
    <3> QED BY <3>2, <3>3
  <2> QED BY <2>1, <2>2
<1> QED BY <1>7, <1>8, <1>9, <1>10, <1>11 DEF IInv

LEMMA StopKeeps ==
    ASSUME IInv, Stop PROVE IInv'
<1>1. /\ TypeOK /\ running' = FALSE /\ generation' = generation + 1
      /\ replay' = NoReplay
      /\ UNCHANGED <<now, loaded, active, market, terminal, legs, sent, epoch, alerts,
                     announced, told, catalog, prices, saved, closed, unsaved,
                     deliveries, starts, boots>>
  BY DEF IInv, Stop, subscribers, history, bounds
<1>2. generation' \in Nat BY <1>1 DEF TypeOK
<1>3. replay' \in [scheduled : BOOLEAN, generation : Nat,
                   exited : SUBSET Conditions, restored : SUBSET Conditions]
  BY <1>1 DEF NoReplay
<1>4. running' \in BOOLEAN BY <1>1, Zenon
<1>5. TypeOK' BY <1>1, <1>2, <1>3, <1>4, Zenon DEF TypeOK
<1>6. ReplayIsRight' BY <1>1 DEF ReplayIsRight, NoReplay
<1>7. StrategiesFollow' BY <1>1 DEF StrategiesFollow
<1> QED BY <1>1, <1>5, <1>6, <1>7 DEF IInv, Tombstones, Numbered, LeaversAreGone

LEMMA SaveKeeps ==
    ASSUME IInv, Save PROVE IInv'
<1>1. /\ TypeOK
      /\ saved' = [exists |-> TRUE, epoch |-> epoch, terminal |-> terminal,
                   active |-> active, market |-> market]
      /\ unsaved' = {}
      /\ UNCHANGED <<now, running, loaded, active, market, terminal, legs, sent, epoch,
                     generation, replay, alerts, announced, told, catalog, prices,
                     closed, deliveries, starts, boots>>
  BY DEF IInv, Save, subscribers, bounds
<1>2. /\ saved'.exists = TRUE /\ saved'.epoch = epoch /\ saved'.terminal = terminal
      /\ saved'.active = active
  BY <1>1
<1>3. saved' \in [exists : BOOLEAN, epoch : Nat, terminal : SUBSET Conditions,
                  active : SUBSET Conditions,
                  market : [Conditions -> Markets \cup {NoMarket}]]
  <2>1. /\ epoch \in Nat /\ terminal \in SUBSET Conditions /\ active \in SUBSET Conditions
        /\ market \in [Conditions -> Markets \cup {NoMarket}]
    BY <1>1 DEF TypeOK
  <2> DEFINE T == [Conditions -> Markets \cup {NoMarket}]
  <2>2. market \in T BY <2>1
  <2> HIDE DEF T
  <2>3. saved' \in [exists : BOOLEAN, epoch : Nat, terminal : SUBSET Conditions,
                    active : SUBSET Conditions, market : T]
    BY <1>1, <2>1, <2>2
  <2> QED BY <2>3 DEF T
<1>4. unsaved' \subseteq Conditions BY <1>1
<1>5. TypeOK' BY <1>1, <1>3, <1>4, Zenon DEF TypeOK
<1>6. Tombstones' BY <1>1, <1>2 DEF IInv, Tombstones
<1>7. Numbered'
  <2>1. epoch \in Nat BY <1>1 DEF TypeOK
  <2> QED BY <1>1, <1>2, <2>1 DEF IInv, Numbered
<1> QED BY <1>1, <1>5, <1>6, <1>7 DEF IInv, ReplayIsRight, StrategiesFollow, LeaversAreGone

LEMMA BootKeeps ==
    ASSUME IInv, Boot PROVE IInv'
<1>1. PICK S \in Startup : \E markets \in [S -> Markets] :
          /\ Fresh(markets)
          /\ IF saved.exists
             THEN active' = saved.active /\ market' = saved.market
             ELSE /\ active' = S
                  /\ market' = [c \in Conditions |->
                                  IF c \in S THEN markets[c] ELSE NoMarket]
  BY DEF Boot
<1>2. PICK markets \in [S -> Markets] :
          /\ Fresh(markets)
          /\ IF saved.exists
             THEN active' = saved.active /\ market' = saved.market
             ELSE /\ active' = S
                  /\ market' = [c \in Conditions |->
                                  IF c \in S THEN markets[c] ELSE NoMarket]
  BY <1>1
<1>3. /\ TypeOK /\ boots' = boots + 1 /\ deliveries' = 0 /\ starts' = 0
      /\ loaded' = saved.exists
      /\ terminal' = saved.terminal /\ epoch' = saved.epoch
      /\ closed' = closed \ unsaved /\ unsaved' = {}
      /\ UNCHANGED <<now, saved>>
  BY DEF IInv, Boot
<1>4. /\ running' = FALSE
      /\ legs' = [c \in Conditions |-> {}]
      /\ sent' = [c \in Conditions |-> Unknown]
      /\ generation' = 0 /\ replay' = NoReplay /\ alerts' = {}
      /\ announced' = [entered |-> {}, exited |-> {}]
      /\ told' = [s \in Strategies |-> [epoch |-> -1, universe |-> {}]]
      /\ catalog' = [c \in Conditions |-> IF c \in DOMAIN markets THEN markets[c].text
                                          ELSE Unknown]
      /\ prices' = [c \in Conditions |-> Unknown]
  BY <1>2 DEF Fresh
<1>5. /\ S \subseteq Conditions /\ DOMAIN markets = S
      /\ \A c \in S : markets[c] \in Markets /\ markets[c].text \in Nat
  BY <1>2, MarketTypes, RotationAssumption
<1>6. /\ saved.exists \in BOOLEAN /\ saved.epoch \in Nat
      /\ saved.terminal \subseteq Conditions /\ saved.active \subseteq Conditions
      /\ saved.market \in [Conditions -> Markets \cup {NoMarket}]
  BY <1>3, KnownTypes
<1>7. active' \subseteq Conditions /\ market' \in [Conditions -> Markets \cup {NoMarket}]
  <2>1. CASE saved.exists BY <1>2, <1>6, <2>1
  <2>2. CASE ~saved.exists BY <1>2, <1>5, <2>2
  <2> QED BY <2>1, <2>2
<1>8. TypeOK'
  <2>1. catalog' \in [Conditions -> Nat] BY <1>4, <1>5 DEF Unknown
  <2>2. replay' \in [scheduled : BOOLEAN, generation : Nat,
                     exited : SUBSET Conditions, restored : SUBSET Conditions]
    BY <1>4 DEF NoReplay
  <2>3. told' \in [Strategies -> [epoch : Int, universe : SUBSET Conditions]] BY <1>4
  <2>4. /\ sent' \in [Conditions -> Nat] /\ prices' \in [Conditions -> Nat]
        /\ legs' \in [Conditions -> SUBSET Legs]
        /\ announced' \in [entered : SUBSET Conditions, exited : SUBSET Conditions]
    BY <1>4 DEF Unknown
  <2>5. running' \in BOOLEAN /\ loaded' \in BOOLEAN BY <1>3, <1>4, <1>6, Zenon
  <2>6. /\ terminal' \subseteq Conditions /\ epoch' \in Nat /\ generation' \in Nat
        /\ alerts' \subseteq Nat /\ closed' \subseteq Conditions
        /\ unsaved' \subseteq Conditions
        /\ deliveries' \in Nat /\ starts' \in Nat /\ boots' \in Nat
    BY <1>3, <1>4, <1>6 DEF TypeOK
  <2>7. now' \in 0 .. MaxTime
        /\ saved' \in [exists : BOOLEAN, epoch : Nat, terminal : SUBSET Conditions,
                       active : SUBSET Conditions,
                       market : [Conditions -> Markets \cup {NoMarket}]]
    BY <1>3, Zenon DEF TypeOK
  <2> QED BY <1>7, <2>1, <2>2, <2>3, <2>4, <2>5, <2>6, <2>7, Zenon DEF TypeOK
<1>9. Tombstones'
  <2>1. closed \ unsaved \subseteq saved.terminal
        /\ saved.terminal \cap saved.active = {}
        /\ (saved.exists = FALSE => saved.terminal = {})
    BY DEF IInv, Tombstones
  <2>2. terminal' \cap active' = {}
    <3>1. CASE saved.exists BY <1>2, <1>3, <2>1, <3>1
    <3>2. CASE ~saved.exists BY <1>3, <1>6, <2>1, <3>2
    <3> QED BY <3>1, <3>2
  <2> QED BY <1>3, <2>1, <2>2 DEF Tombstones
<1>10. Numbered'
  <2>1. \A s \in Strategies : told'[s].epoch = -1 BY <1>4
  <2> QED BY <1>3, <1>6, <2>1 DEF Numbered
<1>11. ReplayIsRight' BY <1>4 DEF ReplayIsRight, NoReplay
<1>12. StrategiesFollow' BY <1>4 DEF StrategiesFollow
<1>13. LeaversAreGone' BY <1>4 DEF LeaversAreGone
<1> QED BY <1>8, <1>9, <1>10, <1>11, <1>12, <1>13 DEF IInv

-----------------------------------------------------------------------------
(* The theorems.                                                           *)

LEMMA NextKeeps == IInv /\ [Next]_vars => IInv'
<1> SUFFICES ASSUME IInv, [Next]_vars PROVE IInv' OBVIOUS
<1>1. CASE \E c \in Conditions, leg \in Legs, p \in Payloads : Instrument(c, leg, p)
  BY <1>1, InstrumentKeeps, Zenon
<1>2. CASE \E g \in alerts : StartupReplay(g) BY <1>2, StartupReplayKeeps
<1>3. CASE ExpiryTimer BY <1>3, ExpiryTimerKeeps
<1>4. CASE Tick \/ Start \/ Stop \/ Save \/ Boot
  BY <1>4, TickKeeps, StartKeeps, StopKeeps, SaveKeeps, BootKeeps
<1>5. CASE UNCHANGED vars
  <2>1. UNCHANGED <<now, running, loaded, active, market, terminal, legs, sent, epoch,
                    generation, replay, alerts, announced, told, catalog, prices,
                    saved, closed, unsaved, deliveries, starts, boots>>
    BY <1>5 DEF vars, subscribers, history, bounds
  <2>2. TypeOK' BY <2>1, Zenon DEF IInv, TypeOK
  <2> QED BY <2>1, <2>2 DEF IInv, Tombstones, Numbered, ReplayIsRight,
                            StrategiesFollow, LeaversAreGone
<1> QED BY <1>1, <1>2, <1>3, <1>4, <1>5, Zenon DEF Next

(* Tombstones, epochs and the pending replay stay in order in every        *)
(* reachable state.                                                        *)
THEOREM RotationInductive == Spec => []IInv
BY InitIInv, NextKeeps, PTL DEF Spec

(* Every variable has its type in every reachable state.                   *)
THEOREM RotationTypeCorrect == Spec => []TypeOK
<1>1. IInv => TypeOK BY DEF IInv
<1> QED BY <1>1, RotationInductive, PTL

(* While the node runs, every strategy takes the actor's active markets of *)
(* its scope for active, or has a replay coming.                           *)
THEOREM StrategiesAreCurrent == Spec => []StrategiesFollow
<1>1. IInv => StrategiesFollow BY DEF IInv
<1> QED BY <1>1, RotationInductive, PTL

(* A market that was seen closed is not active again, over stops, clean    *)
(* ends and boots.                                                         *)
THEOREM ClosedMarketsStayOut == Spec => []ClosedStaysOut
<1>1. IInv => ClosedStaysOut BY DEF IInv, Tombstones, ClosedStaysOut
<1> QED BY <1>1, RotationInductive, PTL

(* No announcement lists an active market as one that left.                *)
THEOREM LeaversHaveLeft == Spec => []LeaversAreGone
<1>1. IInv => LeaversAreGone BY DEF IInv
<1> QED BY <1>1, RotationInductive, PTL

LEMMA AnnounceIsAllowed ==
    ASSUME IInv, running, NEW entered, NEW exited, Announce(entered, exited),
           active' \subseteq Conditions
    PROVE  Contract!Announce
<1>1. /\ epoch' = epoch + 1
      /\ told' = [s \in Strategies |->
                     IF epoch' > told[s].epoch
                     THEN [epoch |-> epoch', universe |-> active' \cap Scope[s]]
                     ELSE told[s]]
  BY DEF Announce, Hears
<1>2. \A s \in Strategies : epoch' > told[s].epoch
  <2> SUFFICES ASSUME NEW s \in Strategies PROVE epoch' > told[s].epoch OBVIOUS
  <2>1. told[s].epoch \in Int BY KnownTypes DEF IInv
  <2>2. epoch \in Nat /\ told[s].epoch <= epoch BY DEF IInv, TypeOK, Numbered
  <2> QED BY <1>1, <2>1, <2>2
<1>3. \A s \in Strategies : told'[s].universe = active' \cap Scope[s]
  <2> DEFINE heard(s) == active' \cap Scope[s]
  <2>1. \A s \in Strategies : told'[s] = [epoch |-> epoch', universe |-> heard(s)]
    BY <1>1, <1>2
  <2> HIDE DEF heard
  <2>2. ASSUME NEW s \in Strategies PROVE told'[s].universe = heard(s)
    <3>1. PICK e, u : e = epoch' /\ u = heard(s) OBVIOUS
    <3>2. told'[s] = [epoch |-> e, universe |-> u] BY <2>1, <3>1
    <3> QED BY <3>1, <3>2
  <2> QED BY <2>2 DEF heard
<1> QED BY <1>1, <1>3 DEF Contract!Announce

LEMMA StepIsAllowed ==
    ASSUME IInv, IInv', [Next]_vars
    PROVE  [Contract!Next]_(Contract!vars)
<1>1. active' \subseteq Conditions BY DEF IInv, TypeOK
<1>2. CASE running /\ \E entered, exited : Announce(entered, exited)
  BY <1>1, <1>2, AnnounceIsAllowed DEF Contract!Next
<1>3. CASE UNCHANGED <<epoch, active, told>> BY <1>3 DEF Contract!vars
<1>4. ASSUME NEW c \in Conditions, NEW leg \in Legs, NEW p \in Payloads,
             Instrument(c, leg, p)
      PROVE  \/ running /\ \E entered, exited : Announce(entered, exited)
             \/ UNCHANGED <<epoch, active, told>>
  <2>1. running BY <1>4 DEF Instrument
  <2>2. CASE ClosedInstrument(c)
    BY <2>1, <2>2 DEF ClosedInstrument, AnnounceExits, Silence
  <2>3. CASE UselessInstrument(c, leg, p.flags)
    BY <2>3 DEF UselessInstrument, Silence
  <2>4. CASE InactiveInstrument(c, leg, p.flags)
    BY <2>1, <2>4 DEF InactiveInstrument, AnnounceExits, Silence
  <2>5. CASE ActiveInstrument(c, leg, p.flags, [text |-> p.text, price |-> p.price])
    <3> DEFINE entered == {c} \ (active \ Expired)
    <3>1. active' = (active \ Expired) \cup {c} BY <2>5 DEF ActiveInstrument
    <3>2. IF entered \cup Expired = {} THEN Silence ELSE Announce(entered, Expired)
      BY <2>5 DEF ActiveInstrument
    <3>3. entered \cup Expired = {} => active' = active BY <3>1
    <3> HIDE DEF entered
    <3> QED BY <2>1, <3>2, <3>3 DEF Silence
  <2> QED BY <1>4, <2>2, <2>3, <2>4, <2>5, Zenon DEF Instrument
<1>5. CASE ExpiryTimer BY <1>2, <1>5 DEF ExpiryTimer
<1>6. ASSUME NEW g \in alerts, StartupReplay(g)
      PROVE  \/ running /\ \E entered, exited : Announce(entered, exited)
             \/ UNCHANGED <<epoch, active, told>>
  <2>1. replay.scheduled => running BY DEF IInv, ReplayIsRight
  <2> QED BY <1>6, <2>1 DEF StartupReplay, subscribers
<1>7. CASE Tick \/ Stop \/ Save \/ UNCHANGED vars
  BY <1>3, <1>7 DEF Tick, Stop, Save, vars, subscribers
<1>8. CASE Start
  <2>1. epoch' = epoch
        /\ told' = [s \in Strategies |-> [told[s] EXCEPT !.universe = {}]]
    BY <1>8 DEF Start
  <2>2. \A s \in Strategies : told'[s].universe = {}
    <3>1. told \in [Strategies -> [epoch : Int, universe : SUBSET Conditions]]
      BY DEF IInv, TypeOK
    <3> QED BY <2>1, <3>1
  <2>3. epoch \in Nat BY DEF IInv, TypeOK
  <2> QED BY <1>1, <2>1, <2>2, <2>3 DEF Contract!Next, Contract!Begin
<1>9. CASE Boot
  <2>1. epoch' = saved.epoch /\ told' = [s \in Strategies |-> [epoch |-> -1, universe |-> {}]]
    BY <1>9 DEF Boot, Fresh
  <2>2. saved.epoch \in Nat /\ epoch \in Nat /\ saved.epoch <= epoch
    <3>1. saved.epoch \in Nat BY KnownTypes DEF IInv
    <3> QED BY <3>1 DEF IInv, TypeOK, Numbered
  <2>3. \A s \in Strategies : told'[s].universe = {} BY <2>1
  <2> QED BY <1>1, <2>1, <2>2, <2>3 DEF Contract!Next, Contract!Begin
<1> QED BY <1>2, <1>3, <1>4, <1>5, <1>6, <1>7, <1>8, <1>9, Zenon DEF Next

(* The rotation implements UniverseContract: while the strategies run, the *)
(* active markets change only together with every strategy's, under the    *)
(* next epoch.                                                             *)
THEOREM RotationRefines == Spec => UniverseIsOneAndNewest
<1>1. Init => Contract!Init BY RotationAssumption DEF Init, Contract!Init
<1>2. IInv /\ [Next]_vars => [Contract!Next]_(Contract!vars)
  BY NextKeeps, StepIsAllowed
<1> QED BY <1>1, <1>2, RotationInductive, PTL
        DEF Spec, UniverseIsOneAndNewest, Contract!Spec

-----------------------------------------------------------------------------
(***************************************************************************)
(* The slots that discovery asks for (MarketDiscovery), at any moment and  *)
(* for any period.                                                         *)
(***************************************************************************)
CONSTANTS PageLimit, BatchSize, Absent, Other      \* of MarketDiscovery
Discovery == INSTANCE MarketDiscovery WITH None <- Absent

\* The open market of a slot, and a discovery that wants open markets only.
SlotMarket(base, period) ==
    [slug |-> [period |-> period, base |-> base], start |-> base, end |-> base + period]
WantsSlots(config) ==
    /\ Discovery!WantsOpen(config)
    /\ config.next \in Nat /\ config.grace \in Nat

\* The slot of a moment is the last that begins no later than it.
LEMMA BaseIsCurrent ==
    ASSUME NEW time \in Int, NEW period \in Nat \ {0}
    PROVE  /\ time \div period \in Int
           /\ Discovery!Base(time, period) = (time \div period) * period
           /\ Discovery!Base(time, period) \in Int
           /\ Discovery!Base(time, period) <= time
           /\ time < Discovery!Base(time, period) + period
BY DEF Discovery!Base

LEMMA Products ==
    ASSUME NEW p \in Nat \ {0}
    PROVE  /\ \A a \in Int : a * p \in Int
           /\ \A a, b \in Int : (a + b) * p = a * p + b * p
           /\ \A a, b \in Int : a * p < b * p => a < b
           /\ \A a, b \in Int : a <= b => a * p <= b * p
OBVIOUS

\* No slot is asked for in vain: the window of parsing lets pass the market of
\* every slot that is asked for.  When the grace is shorter than the period it
\* lets pass the market of no other slot, but the one that ended exactly the
\* grace ago: one comparison is strict and the other is not.
THEOREM SlotsAreAllowed ==
    ASSUME NEW time \in Int, NEW period \in Nat \ {0}, NEW config, WantsSlots(config),
           Absent \notin Int
    PROVE  LET slots == Discovery!CurrentSlots(time, period, config.next, config.grace)
               Allowed(base) ==
                   Discovery!AllowedWindow(SlotMarket(base, period), config, time)
           IN /\ \A base \in slots : Allowed(base)
              /\ config.grace < period =>
                     \A k \in Int : Allowed(k * period) =>
                         \/ k * period \in slots
                         \/ k * period + period = time - config.grace
<1> DEFINE slots == Discovery!CurrentSlots(time, period, config.next, config.grace)
           Allowed(base) == Discovery!AllowedWindow(SlotMarket(base, period), config, time)
           current == Discovery!Base(time, period)
           q == time \div period
<1>1. /\ q \in Int /\ current = q * period /\ current \in Int
      /\ current <= time /\ time < current + period
  BY BaseIsCurrent
<1>2. config.next \in Nat /\ config.grace \in Nat
  BY DEF WantsSlots
<1>3. \A base \in Int :
          Allowed(base) <=> /\ base <= time + config.next * period
                            /\ base + period >= time - config.grace
  <2>1. SUFFICES ASSUME NEW base \in Int
                 PROVE  Allowed(base) <=> /\ base <= time + config.next * period
                                          /\ base + period >= time - config.grace
    OBVIOUS
  <2>2. base # Absent /\ base + period # Absent
    OBVIOUS
  <2> QED BY <2>2 DEF WantsSlots, Discovery!AllowedWindow, SlotMarket
<1>4. slots = {current + k * period : k \in 0 .. config.next}
              \cup {b \in {current - period} : config.grace > 0 /\ time - current < config.grace}
  BY DEF Discovery!CurrentSlots
<1> HIDE DEF slots, Allowed, current, q
<1>5. ASSUME NEW base \in slots PROVE Allowed(base)
  <2>1. CASE \E k \in 0 .. config.next : base = current + k * period
    <3>1. PICK k \in 0 .. config.next : base = current + k * period
      BY <2>1
    <3>2. k \in Int /\ 0 <= k /\ k <= config.next
      BY <3>1, <1>2
    <3>3. k * period \in Int /\ 0 * period <= k * period /\ k * period <= config.next * period
      BY <3>2, <1>2, Products
    <3>4. config.next * period \in Int /\ 0 * period = 0
      BY <1>2, Products
    <3> QED BY <1>1, <1>2, <1>3, <3>1, <3>3, <3>4
  <2>2. CASE base = current - period /\ time - current < config.grace
    <3>1. 0 * period <= config.next * period /\ config.next * period \in Int /\ 0 * period = 0
      BY <1>2, Products
    <3> QED BY <1>1, <1>2, <1>3, <2>2, <3>1
  <2> QED BY <1>4, <1>5, <2>1, <2>2
<1>6. ASSUME config.grace < period, NEW k \in Int, Allowed(k * period),
             k * period + period # time - config.grace
      PROVE  k * period \in slots
  <2>1. /\ k * period \in Int /\ config.next * period \in Int
        /\ k * period <= time + config.next * period
        /\ k * period + period > time - config.grace
    <3>1. k * period \in Int /\ config.next * period \in Int
      BY <1>2, Products
    <3>2. k * period <= time + config.next * period /\ k * period + period >= time - config.grace
      BY <1>3, <1>6, <3>1
    <3>3. \A x, y \in Int : x >= y /\ x # y => x > y
      OBVIOUS
    <3>4. k * period + period \in Int /\ time - config.grace \in Int
      BY <1>2, <3>1
    <3> QED BY <1>6, <3>1, <3>2, <3>3, <3>4, Zenon
  <2>2. k >= q - 1
    <3>1. (q - 1) * period = current - period /\ (k + 1) * period = k * period + period
      BY <1>1, Products
    <3>2. (q - 1) * period < (k + 1) * period
      BY <1>1, <1>2, <1>6, <2>1, <3>1
    <3> QED BY <1>1, <3>2, Products
  <2>3. k <= q + config.next
    <3>1. /\ (q + config.next + 1) * period = current + config.next * period + period
          /\ (q + config.next + 1) * period \in Int
      BY <1>1, <1>2, Products
    <3>2. k * period < (q + config.next + 1) * period
      BY <1>1, <2>1, <3>1
    <3>3. k < q + config.next + 1
      BY <1>1, <1>2, <3>2, Products
    <3> QED BY <1>1, <1>2, <3>3
  <2>4. CASE k = q - 1
    <3>1. k * period = current - period
      BY <1>1, <2>4
    <3>2. time - current < config.grace /\ config.grace > 0
      BY <1>1, <1>2, <2>1, <3>1
    <3> QED BY <1>4, <3>1, <3>2
  <2>5. CASE k # q - 1
    <3>1. k - q \in 0 .. config.next
      BY <1>1, <1>2, <2>2, <2>3, <2>5
    <3>2. k * period = current + (k - q) * period
      BY <1>1, Products
    <3> QED BY <1>4, <3>1, <3>2
  <2> QED BY <2>4, <2>5
<1> QED BY <1>5, <1>6 DEF slots, Allowed
=============================================================================
