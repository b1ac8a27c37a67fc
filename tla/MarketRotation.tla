---------------------------- MODULE MarketRotation ----------------------------
(***************************************************************************)
(* MarketRotationActor (market_rotation.py) turns the instruments that the *)
(* provider delivers into markets, and tells the strategies which of them  *)
(* are active: the metadata of a market, the numbered universe, the price  *)
(* to beat.  PolymarketInstrumentMarketBuilder (instrument_markets.py)     *)
(* pairs the two legs of a market and keeps tombstones of closed ones.     *)
(*                                                                         *)
(* Messages are handled in the step that publishes them, as the engine's   *)
(* bus does.  Epoch, tombstones and active markets survive a clean end of  *)
(* the process; the strategies remember nothing of them.                   *)
(***************************************************************************)
EXTENDS Integers, FiniteSets

CONSTANTS
    Conditions,     \* condition ids
    Strategies,     \* strategies of the process
    Scope,          \* the conditions in the scope of each strategy
    End,            \* the end of each market, fixed by its slot; may be Never
    Legs,           \* the two instruments of a market
    Payloads,       \* what an instrument can say: status flags, metadata, price
    Startup,        \* the sets of conditions that a process is configured with
    MaxTime,        \* bound: the clock
    MaxDeliveries,  \* bound: instruments delivered to one process
    MaxStarts,      \* bound: starts of one process
    MaxBoots        \* bound: boots of another process

Never == MaxTime + 1
Unknown == 0                \* no metadata, no price to beat
Flags == {"cancelled", "uma", "prices", "resolved", "closed", "active"}

ASSUME RotationAssumption ==
    /\ Scope \in [Strategies -> SUBSET Conditions]
    /\ End \in [Conditions -> 1 .. Never]
    /\ Payloads \subseteq [flags : SUBSET Flags, text : Nat \ {0}, price : Nat]
    /\ Cardinality(Legs) = 2
    /\ Startup \subseteq SUBSET Conditions
    /\ MaxTime \in Nat /\ MaxDeliveries \in Nat
    /\ MaxStarts \in Nat /\ MaxBoots \in Nat

VARIABLES
    now,
    running,        \* the node's components are started
    loaded,         \* _loaded_from_state
    active,         \* keys of _active_by_condition
    market,         \* its values
    terminal,       \* _terminal_condition_ids of the builder
    legs,           \* _instruments: the legs that the builder has seen
    sent,           \* _last_published_ptb
    epoch,
    generation,     \* _lifecycle_generation
    replay,         \* the scheduled startup replay, and what it will announce
    alerts,         \* generations whose time alert may still call back
    announced,      \* the newest universe: entered and exited conditions
    told,           \* each strategy's epoch and its active conditions
    catalog,        \* the metadata that the strategies registered
    prices,         \* the prices to beat that the strategies know
    saved,          \* the state of the last on_save, if there is one
    closed,         \* history: seen closed, and not lost by a crash
    unsaved,        \* history: seen closed since the last on_save
    deliveries, starts, boots

subscribers == <<announced, told, catalog, prices>>
history == <<saved, closed, unsaved>>
bounds == <<deliveries, starts, boots>>
vars == <<now, running, loaded, active, market, terminal, legs, sent, epoch,
          generation, replay, alerts, subscribers, history, bounds>>

NoMarket == [text |-> Unknown, price |-> Unknown]
Markets == {[text |-> p.text, price |-> p.price] : p \in Payloads}
NoState == [exists |-> FALSE, epoch |-> 0, terminal |-> {}, active |-> {},
            market |-> [c \in Conditions |-> NoMarket]]
NoReplay == [scheduled |-> FALSE, generation |-> 0, exited |-> {}, restored |-> {}]

TypeOK ==
    /\ now \in 0 .. MaxTime /\ running \in BOOLEAN /\ loaded \in BOOLEAN
    /\ active \subseteq Conditions
    /\ market \in [Conditions -> Markets \cup {NoMarket}]
    /\ terminal \subseteq Conditions
    /\ legs \in [Conditions -> SUBSET Legs]
    /\ sent \in [Conditions -> Nat]
    /\ epoch \in Nat
    /\ generation \in Nat
    /\ replay \in [scheduled : BOOLEAN, generation : Nat,
                   exited : SUBSET Conditions, restored : SUBSET Conditions]
    /\ alerts \subseteq Nat
    /\ announced \in [entered : SUBSET Conditions, exited : SUBSET Conditions]
    /\ told \in [Strategies -> [epoch : Int, universe : SUBSET Conditions]]
    /\ catalog \in [Conditions -> Nat]
    /\ prices \in [Conditions -> Nat]
    /\ saved \in [exists : BOOLEAN, epoch : Nat, terminal : SUBSET Conditions,
                  active : SUBSET Conditions,
                  market : [Conditions -> Markets \cup {NoMarket}]]
    /\ closed \subseteq Conditions /\ unsaved \subseteq Conditions
    /\ deliveries \in Nat /\ starts \in Nat /\ boots \in Nat

-----------------------------------------------------------------------------
(* The subscribers.                                                        *)

\* handle_market_universe: an epoch that is not newer is ignored.  Strategies
\* that are stopped are not subscribed.
Hears(e, universe) ==
    told' = [s \in Strategies |->
                IF running /\ e > told[s].epoch
                THEN [epoch |-> e, universe |-> universe \cap Scope[s]]
                ELSE told[s]]

\* Another epoch, with the active conditions as they are in the next state.
Announce(entered, exited) ==
    /\ epoch' = epoch + 1
    /\ announced' = [entered |-> entered, exited |-> exited]
    /\ Hears(epoch', active')

Silence == UNCHANGED <<epoch, announced, told>>

\* A universe is published when some condition leaves.
AnnounceExits(exited) == IF exited = {} THEN Silence ELSE Announce({}, exited)

\* handle_market_metadata and, through the custom data state, the price to beat.
Describe(S) == catalog' = [c \in Conditions |->
                             IF c \in S THEN market'[c].text ELSE catalog[c]]

\* _publish_price_to_beat_sync for the markets of S: an unknown price is not
\* published, nor one that was published last.  The signatures of the markets
\* that retire are forgotten.
SendPrices(S, retired) ==
    LET before == [c \in Conditions |-> IF c \in retired THEN Unknown ELSE sent[c]]
        due == {c \in S : market'[c].price \notin {Unknown, before[c]}}
    IN
    /\ sent' = [c \in Conditions |-> IF c \in due THEN market'[c].price ELSE before[c]]
    /\ prices' = [c \in Conditions |->
                    IF c \in due THEN market'[c].price ELSE prices[c]]

-----------------------------------------------------------------------------
(* The instruments.                                                        *)

\* market_status_from_gamma, on the flags that it looks at.
Status(flags) ==
    IF "cancelled" \in flags THEN "CANCELLED"
    ELSE IF {"uma", "prices"} \subseteq flags \/ "resolved" \in flags THEN "RESOLVED"
    ELSE IF "closed" \in flags THEN "CLOSED"
    ELSE IF "active" \in flags THEN "ACTIVE"
    ELSE "UNKNOWN"

IsTerminal(flags) == Status(flags) \in {"CLOSED", "RESOLVED", "CANCELLED"}

\* The values that are left when some conditions are popped.
Without(gone) == [c \in Conditions |-> IF c \in gone THEN NoMarket ELSE market[c]]

Expired == {c \in active : now >= End[c]}

\* on_instrument, for an instrument that says its market is over: a tombstone,
\* whatever leg it is, and the exits also go into a replay to come.
ClosedInstrument(c) ==
    LET exited == Expired \cup ({c} \cap active) IN
    /\ terminal' = terminal \cup {c}
    /\ active' = active \ exited
    /\ replay' = IF replay.scheduled THEN [replay EXCEPT !.exited = @ \cup exited]
                 ELSE replay
    /\ AnnounceExits(exited)
    /\ SendPrices({}, exited \cup {c})
    /\ closed' = closed \cup {c} /\ unsaved' = unsaved \cup {c}
    /\ market' = Without(exited)
    /\ UNCHANGED <<legs, catalog>>

\* Half a market, or one that is closed: the builder returns no Market.
UselessInstrument(c, leg, flags) ==
    /\ legs' = [legs EXCEPT ![c] = @ \cup {leg}]
    /\ \/ legs'[c] # Legs
       \/ c \in terminal /\ Status(flags) = "ACTIVE"
    /\ Silence
    /\ UNCHANGED <<active, market, terminal, sent, replay, catalog, prices, closed,
                   unsaved>>

\* Fault: these exits go into the replay to come as well, though the market may
\* trade again.
InactiveInstrumentMerged(c, leg, flags) ==
    LET exited == Expired \cup ({c} \cap active) IN
    /\ legs' = [legs EXCEPT ![c] = @ \cup {leg}]
    /\ legs'[c] = Legs
    /\ \/ Status(flags) # "ACTIVE"
       \/ c \notin terminal /\ now >= End[c]
    /\ active' = active \ exited
    /\ replay' = IF replay.scheduled THEN [replay EXCEPT !.exited = @ \cup exited]
                 ELSE replay
    /\ AnnounceExits(exited)
    /\ SendPrices({}, exited \cup {c})
    /\ market' = Without(exited)
    /\ UNCHANGED <<terminal, catalog, closed, unsaved>>

\* A market that does not trade, or no longer: it leaves.
InactiveInstrument(c, leg, flags) ==
    LET exited == Expired \cup ({c} \cap active) IN
    /\ legs' = [legs EXCEPT ![c] = @ \cup {leg}]
    /\ legs'[c] = Legs
    /\ \/ Status(flags) # "ACTIVE"
       \/ c \notin terminal /\ now >= End[c]
    /\ active' = active \ exited
    /\ AnnounceExits(exited)
    /\ SendPrices({}, exited \cup {c})
    /\ market' = Without(exited)
    /\ UNCHANGED <<terminal, replay, catalog, closed, unsaved>>

\* Fault: the expired markets leave, but only an entry is announced.
ActiveInstrumentQuiet(c, leg, flags, m) ==
    LET entered == {c} \ (active \ Expired) IN
    /\ legs' = [legs EXCEPT ![c] = @ \cup {leg}]
    /\ legs'[c] = Legs
    /\ Status(flags) = "ACTIVE" /\ c \notin terminal /\ now < End[c]
    /\ replay' = [replay EXCEPT !.restored = @ \ {c}]
    /\ active' = (active \ Expired) \cup {c}
    /\ market' = [Without(Expired) EXCEPT ![c] = m]
    /\ Describe({c})
    /\ IF entered = {} THEN Silence ELSE Announce(entered, Expired)
    /\ SendPrices({c}, Expired)
    /\ UNCHANGED <<terminal, closed, unsaved>>

\* A market that trades: it enters, or its metadata or price is refreshed.
ActiveInstrument(c, leg, flags, m) ==
    LET entered == {c} \ (active \ Expired)
        changed == c \in entered \/ market[c].text # m.text
    IN
    /\ legs' = [legs EXCEPT ![c] = @ \cup {leg}]
    /\ legs'[c] = Legs
    /\ Status(flags) = "ACTIVE" /\ c \notin terminal /\ now < End[c]
    /\ replay' = [replay EXCEPT !.restored = @ \ {c}]
    /\ active' = (active \ Expired) \cup {c}
    /\ market' = [Without(Expired) EXCEPT ![c] = m]
    /\ Describe(IF changed THEN {c} ELSE {})
    /\ IF entered \cup Expired = {} THEN Silence ELSE Announce(entered, Expired)
    /\ SendPrices({c}, Expired)
    /\ UNCHANGED <<terminal, closed, unsaved>>

Instrument(c, leg, p) ==
    LET flags == p.flags IN
    /\ running /\ deliveries < MaxDeliveries
    /\ deliveries' = deliveries + 1
    /\ \/ IsTerminal(flags) /\ ClosedInstrument(c)
       \/ /\ ~IsTerminal(flags)
          /\ \/ UselessInstrument(c, leg, flags)
             \/ InactiveInstrument(c, leg, flags)
             \/ ActiveInstrument(c, leg, flags, [text |-> p.text, price |-> p.price])
    /\ UNCHANGED <<now, running, loaded, generation, alerts, saved, starts, boots>>

-----------------------------------------------------------------------------
(* The timers.  None is sure to fire: they do not under LiveNode.run().    *)

\* _on_market_expiry_timer.
ExpiryTimer ==
    /\ running /\ Expired # {}
    /\ active' = active \ Expired
    /\ Announce({}, Expired)
    /\ market' = Without(Expired)
    /\ SendPrices({}, Expired)
    /\ UNCHANGED <<now, running, loaded, terminal, legs, generation, replay,
                   alerts, catalog, history, bounds>>

\* Fault: a callback that was overtaken by a stop announces all the same.
StartupReplayAnyway(g) ==
    /\ g \in alerts
    /\ alerts' = alerts \ {g}
    /\ replay' = NoReplay
    /\ UNCHANGED <<active, market>>
    /\ Describe(active)
    /\ Announce(active, replay.exited \cup replay.restored)
    /\ SendPrices(active, {})
    /\ UNCHANGED <<now, running, loaded, terminal, legs, generation, history, bounds>>

\* _on_startup_replay, which may call back after the stop that cancelled it.
StartupReplay(g) ==
    /\ g \in alerts
    /\ alerts' = alerts \ {g}
    /\ IF replay.scheduled /\ replay.generation = g /\ generation = g
       THEN /\ replay' = NoReplay
            /\ UNCHANGED <<active, market>>
            /\ Describe(active)
            /\ Announce(active, replay.exited \cup replay.restored)
            /\ SendPrices(active, {})
       ELSE UNCHANGED <<active, market, replay, subscribers, epoch, sent>>
    /\ UNCHANGED <<now, running, loaded, terminal, legs, generation, history, bounds>>

Tick ==
    /\ now < MaxTime
    /\ now' = now + 1
    /\ UNCHANGED <<running, loaded, active, market, terminal, legs, sent, epoch,
                   generation, replay, alerts, subscribers, history, bounds>>

-----------------------------------------------------------------------------
(* Starts, stops, and the end of a process.                                *)

\* on_start: markets that are over leave, a replay is scheduled, and markets
\* from a saved state have to be delivered again.  The strategies start with
\* no active condition.
Start ==
    LET left == active \ Expired
        restored == IF loaded THEN left ELSE {}
        scheduled == left \cup Expired # {}
    IN
    /\ ~running /\ starts < MaxStarts
    /\ running' = TRUE /\ starts' = starts + 1
    /\ generation' = generation + 1
    /\ active' = left \ restored
    /\ IF scheduled
       THEN /\ replay' = [scheduled |-> TRUE, generation |-> generation',
                          exited |-> Expired, restored |-> restored]
            /\ alerts' = alerts \cup {generation'}
       ELSE UNCHANGED <<replay, alerts>>
    /\ told' = [s \in Strategies |-> [told[s] EXCEPT !.universe = {}]]
    /\ market' = Without(Expired \cup restored)
    /\ SendPrices({}, Expired)
    /\ UNCHANGED <<now, loaded, terminal, legs, epoch, announced, catalog,
                   history, deliveries, boots>>

\* on_stop: the replay is dropped; its callback may be on its way.
Stop ==
    /\ running
    /\ running' = FALSE
    /\ generation' = generation + 1
    /\ replay' = NoReplay
    /\ UNCHANGED <<now, loaded, active, market, terminal, legs, sent, epoch, alerts,
                   subscribers, history, bounds>>

\* Fault: the tombstones are not part of the saved state.
SaveWithoutTombstones ==
    /\ ~running
    /\ saved' = [exists |-> TRUE, epoch |-> epoch, terminal |-> {},
                 active |-> active, market |-> market]
    /\ unsaved' = {}
    /\ UNCHANGED <<now, running, loaded, active, market, terminal, legs, sent, epoch,
                   generation, replay, alerts, subscribers, closed, bounds>>

\* on_save, when the node ends cleanly.
Save ==
    /\ ~running
    /\ saved' = [exists |-> TRUE, epoch |-> epoch, terminal |-> terminal,
                 active |-> active, market |-> market]
    /\ unsaved' = {}
    /\ UNCHANGED <<now, running, loaded, active, market, terminal, legs, sent, epoch,
                   generation, replay, alerts, subscribers, closed, bounds>>

\* The actor and the strategies of a process that starts from these markets.
Fresh(markets) ==
    /\ running' = FALSE
    /\ legs' = [c \in Conditions |-> {}]
    /\ sent' = [c \in Conditions |-> Unknown]
    /\ generation' = 0 /\ replay' = NoReplay /\ alerts' = {}
    /\ announced' = [entered |-> {}, exited |-> {}]
    /\ told' = [s \in Strategies |-> [epoch |-> -1, universe |-> {}]]
    /\ catalog' = [c \in Conditions |-> IF c \in DOMAIN markets THEN markets[c].text
                                        ELSE Unknown]
    /\ prices' = [c \in Conditions |-> Unknown]

\* Another process, after a clean end or a crash; on_load, when a state exists,
\* replaces the markets that the process was configured with.
Boot ==
    /\ boots < MaxBoots /\ boots' = boots + 1
    /\ deliveries' = 0 /\ starts' = 0
    /\ \E S \in Startup : \E markets \in [S -> Markets] :
          /\ Fresh(markets)
          /\ IF saved.exists
             THEN active' = saved.active /\ market' = saved.market
             ELSE /\ active' = S
                  /\ market' = [c \in Conditions |->
                                  IF c \in S THEN markets[c] ELSE NoMarket]
    /\ loaded' = saved.exists
    /\ terminal' = saved.terminal /\ epoch' = saved.epoch
    /\ closed' = closed \ unsaved /\ unsaved' = {}
    /\ UNCHANGED <<now, saved>>

Init ==
    /\ now = 0 /\ running = FALSE /\ loaded = FALSE
    /\ \E S \in Startup : \E markets \in [S -> Markets] :
          /\ active = S
          /\ market = [c \in Conditions |-> IF c \in S THEN markets[c] ELSE NoMarket]
          /\ catalog = [c \in Conditions |->
                          IF c \in S THEN markets[c].text ELSE Unknown]
    /\ terminal = {} /\ legs = [c \in Conditions |-> {}]
    /\ sent = [c \in Conditions |-> Unknown]
    /\ epoch = 0 /\ generation = 0 /\ replay = NoReplay /\ alerts = {}
    /\ announced = [entered |-> {}, exited |-> {}]
    /\ told = [s \in Strategies |-> [epoch |-> -1, universe |-> {}]]
    /\ prices = [c \in Conditions |-> Unknown]
    /\ saved = NoState /\ closed = {} /\ unsaved = {}
    /\ deliveries = 0 /\ starts = 0 /\ boots = 0

Next ==
    \/ \E c \in Conditions, leg \in Legs, p \in Payloads : Instrument(c, leg, p)
    \/ ExpiryTimer
    \/ \E g \in alerts : StartupReplay(g)
    \/ Tick \/ Start \/ Stop \/ Save \/ Boot

Spec == Init /\ [][Next]_vars

-----------------------------------------------------------------------------
(* Properties.                                                             *)

\* While the node runs, each strategy takes exactly the actor's active markets
\* of its scope for active: nothing enters or leaves unannounced, and no
\* announcement is taken for an old one.  Only between a start and the first
\* announcement after it a strategy knows of none, and then a replay is due.
StrategiesFollow ==
    running => \A s \in Strategies :
        \/ told[s].universe = active \cap Scope[s]
        \/ replay.scheduled /\ told[s].universe = {}

\* A market that was once seen closed, on either leg, is never active again in
\* this process or in one that loads its state: not by a stale pair of legs,
\* nor by the markets of a saved state.  A crash forgets what was not saved.
ClosedStaysOut == closed \cap active = {}

\* A condition that an announcement lists as left is not active after it: its
\* strategies would drop the books and history of a market that still trades.
LeaversAreGone == announced.exited \cap active = {}

\* The abstract specification of UniverseContract: one newest universe, which
\* every strategy is told of in the step that changes the active markets
\* (_publish_universe, and the generation check of _on_startup_replay).
Contract == INSTANCE UniverseContract WITH
                told <- [s \in Strategies |-> told[s].universe]
UniverseIsOneAndNewest == Contract!Spec
===============================================================================
