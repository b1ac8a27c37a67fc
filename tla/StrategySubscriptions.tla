----------------------- MODULE StrategySubscriptions -----------------------
(***************************************************************************)
(* One strategy of the Nautilus node: its condition subscriptions and the  *)
(* callbacks that move them.  A callback runs to completion before the     *)
(* next one, so each is one action; the evaluation heartbeat, the longest, *)
(* is one action per stage, and no callback runs between its stages.       *)
(*                                                                         *)
(* The heartbeat is called by the 10 s timer and, throttled to the same    *)
(* interval, at the end of on_data and on_book_deltas.  Either call is the *)
(* action EvaluationHeartbeat taken next.                                  *)
(***************************************************************************)
EXTENDS ConditionSubscription

CONSTANTS
    Conditions,         \* the conditions in the strategy's subscription scope
    StartupConditions,  \* _startup_condition_ids
    MaxEpoch,           \* bound on the universe epochs published
    Refusable           \* the sides whose subscribe commands may raise RuntimeError

ASSUME ConditionsAssumption ==
    /\ StartupConditions \subseteq Conditions
    /\ MaxEpoch \in Nat
    /\ Refusable \subseteq Sides

VARIABLES
    record,   \* the subscription record of each condition
    running,  \* between on_start and on_stop
    epoch,    \* _market_epoch, 0 for None
    stage,    \* the stage of the heartbeat callback that runs next
    beat      \* the heartbeat's active_condition_ids

vars == <<record, running, epoch, stage, beat>>

Stages == {"idle", "restore", "reconcile", "recover", "evaluate"}

\* The sides whose subscribe commands the engine takes during a callback.
Accepted == {Sides \ refused : refused \in SUBSET Refusable}

Lags == {0, MaxLag}

Update(c, r) == record' = [record EXCEPT ![c] = r]

InitialRecords ==
    {r \in [active     : BOOLEAN,
            known      : BOOLEAN,
            window     : {"upcoming", "live"},
            visible    : SUBSET Sides,
            phase      : {"UNSUBSCRIBED"},
            pending    : {{}},
            subscribed : {{}},
            awaiting   : {{}},
            generation : {Absent},
            stalled    : {Absent},
            receipt    : {NoAges},
            recovering : {{}},
            dispatched : {NoAges},
            bilateral  : {FALSE},
            everReady  : {FALSE},
            abandoned  : {Absent},
            miss       : {FALSE},
            stale      : {{}},
            restore    : {NoAges},
            refreshed  : {NoAges},
            illegal    : {FALSE}] : r.visible = {}}

Init ==
    /\ record \in [Conditions -> InitialRecords]
    /\ \A c \in Conditions : record[c].active <=> c \in StartupConditions
    /\ running = FALSE
    /\ epoch = 0
    /\ stage = "idle"
    /\ beat = {}
-----------------------------------------------------------------------------
\* The world outside the strategy.

ClockAdvances ==
    /\ stage = "idle"
    /\ record' = [c \in Conditions |-> Aged(record[c])]
    /\ UNCHANGED <<running, epoch, stage, beat>>

\* The market opens, then closes.
WindowAdvances(c) ==
    /\ stage = "idle"
    /\ record[c].window # "ended"
    /\ Update(c, [record[c] EXCEPT !.window =
                    IF @ = "upcoming" THEN "live" ELSE "ended"])
    /\ UNCHANGED <<running, epoch, stage, beat>>

\* The provider puts an instrument in the Cache, whoever asked for it.
InstrumentLoads(c, s) ==
    /\ stage = "idle"
    /\ s \notin record[c].visible
    /\ Update(c, [record[c] EXCEPT !.visible = @ \union {s}])
    /\ UNCHANGED <<running, epoch, stage, beat>>
-----------------------------------------------------------------------------
\* Callbacks.

StartCondition(r, startup, accepted) ==
    IF startup /\ ~Expired(r) THEN SubscribeCondition(r, accepted)
    ELSE [r EXCEPT !.active = FALSE]

OnStart ==
    /\ stage = "idle" /\ ~running
    /\ \E accepted \in Accepted :
          record' = [c \in Conditions |->
                        StartCondition(record[c], c \in StartupConditions, accepted)]
    /\ running' = TRUE
    /\ UNCHANGED <<epoch, stage, beat>>

StopCondition(r) ==
    LET tracked == r.active \/ r.phase # "UNSUBSCRIBED"
        q == IF tracked THEN ClearLifecycle(UnsubscribeInstruments(r), TRUE, FALSE)
             ELSE r
    IN  [q EXCEPT !.restore    = [s \in Sides |-> IF s \in q.subscribed
                                                  THEN Absent ELSE @[s]],
                  !.subscribed = {},
                  !.pending    = {}]

OnStop ==
    /\ stage = "idle" /\ running
    /\ record' = [c \in Conditions |-> StopCondition(record[c])]
    /\ running' = FALSE
    /\ UNCHANGED <<epoch, stage, beat>>

\* on_load forgets the epoch, so that a restored strategy takes the next event.
OnLoad ==
    /\ stage = "idle" /\ ~running
    /\ epoch' = 0
    /\ UNCHANGED <<record, running, stage, beat>>

UniverseCondition(r, listed, exited, accepted) ==
    LET entered == [r EXCEPT !.active = listed]
        gone    == r.active /\ (exited \/ ~listed)
        left    == [LeaveActive(r) EXCEPT !.active = listed]
    IN  SubscribeCondition(IF gone THEN left ELSE entered, accepted)

\* handle_market_universe; an event whose epoch is not newer is dropped.
OnMarketUniverse(e, listed, exited) ==
    /\ stage = "idle" /\ running
    /\ e > epoch
    /\ epoch' = e
    /\ \E accepted \in Accepted :
          record' = [c \in Conditions |->
                        UniverseCondition(record[c], c \in listed, c \in exited,
                                          accepted)]
    /\ UNCHANGED <<running, stage, beat>>

\* handle_market_metadata.
OnMarketMetadata(c) ==
    /\ stage = "idle" /\ running
    /\ \E accepted \in Accepted :
          Update(c, SubscribeCondition([record[c] EXCEPT !.known = TRUE], accepted))
    /\ UNCHANGED <<running, epoch, stage, beat>>

OnInstrument(c, s) ==
    /\ stage = "idle" /\ running
    /\ s \in record[c].visible
    /\ \E accepted \in Accepted :
          Update(c, InstrumentAvailable(record[c], s, s \in accepted))
    /\ UNCHANGED <<running, epoch, stage, beat>>

\* on_quote, on_book, on_book_deltas.  The event finds its condition among the
\* active ones; another one's event is a dropped frame.
OnBook(c, s) ==
    /\ stage = "idle" /\ running
    /\ record[c].active /\ record[c].known
    /\ \E lag \in Lags, evaluated \in BOOLEAN, view \in Views :
          Update(c, BookEvent(record[c], s, lag, evaluated, view))
    /\ UNCHANGED <<running, epoch, stage, beat>>

\* on_trade, spot and price-to-beat data, and the pending evaluation timer.
OnEvaluate(c) ==
    /\ stage = "idle" /\ running
    /\ record[c].active
    /\ \E view \in Views :
          Update(c, EvaluateCondition(record[c], view))
    /\ UNCHANGED <<running, epoch, stage, beat>>
-----------------------------------------------------------------------------
\* The evaluation heartbeat.

DiscoverCondition(r, accepted) ==
    LET q == [r EXCEPT !.known = TRUE]
    IN  IF Suppressed(q) \/ q.active THEN q
        ELSE SubscribeCondition([q EXCEPT !.active = TRUE], accepted)

RetireIfExpired(r) == IF r.active /\ Expired(r) THEN LeaveActive(r) ELSE r

\* Expired conditions leave and the active ones are listed; discovery, when it
\* is due, then registers the open markets it found and attaches them.
EvaluationHeartbeat ==
    /\ stage = "idle" /\ running
    /\ stage' = "restore"
    /\ \E found \in SUBSET {c \in Conditions : record[c].window # "ended"},
          accepted \in Accepted :
          LET kept == [c \in Conditions |-> RetireIfExpired(record[c])]
          IN  /\ beat' = {c \in Conditions : kept[c].active}
              /\ record' = [c \in Conditions |->
                              IF c \in found THEN DiscoverCondition(kept[c], accepted)
                              ELSE kept[c]]
    /\ UNCHANGED <<running, epoch>>

\* Fault: the active conditions are not subscribed again.
HeartbeatOnlyFlushes ==
    /\ stage = "restore"
    /\ stage' = "reconcile"
    /\ record' = [c \in Conditions |-> FlushRestores(record[c])]
    /\ UNCHANGED <<running, epoch, beat>>

RestoresWith(accepted) ==
    /\ stage = "restore"
    /\ stage' = "reconcile"
    /\ record' = [c \in Conditions |->
                    LET r == FlushRestores(record[c])
                    IN  IF c \in beat THEN SubscribeCondition(r, accepted) ELSE r]
    /\ UNCHANGED <<running, epoch, beat>>

HeartbeatRestores == \E accepted \in Accepted : RestoresWith(accepted)

HeartbeatReconciles ==
    /\ stage = "reconcile"
    /\ stage' = "recover"
    /\ \E cached \in [Conditions -> SUBSET Sides], lag \in Lags :
          record' = [c \in Conditions |->
                        IF c \in beat THEN ReconcileFromCache(record[c], cached[c], lag)
                        ELSE record[c]]
    /\ UNCHANGED <<running, epoch, beat>>

HeartbeatRecovers ==
    /\ stage = "recover"
    /\ stage' = "evaluate"
    /\ record' = [c \in Conditions |->
                    IF c \in beat THEN RecoverBookSubscription(record[c])
                    ELSE record[c]]
    /\ UNCHANGED <<running, epoch, beat>>

\* A condition evaluated within the last interval is skipped.
HeartbeatEvaluates ==
    /\ stage = "evaluate"
    /\ stage' = "idle"
    /\ \E due \in SUBSET beat, view \in [Conditions -> Views] :
          record' = [c \in Conditions |->
                        IF c \in due THEN EvaluateCondition(record[c], view[c])
                        ELSE record[c]]
    /\ beat' = {}
    /\ UNCHANGED <<running, epoch>>

Heartbeat ==
    \/ EvaluationHeartbeat
    \/ HeartbeatRestores
    \/ HeartbeatReconciles
    \/ HeartbeatRecovers
    \/ HeartbeatEvaluates

Next ==
    \/ ClockAdvances
    \/ \E c \in Conditions :
          \/ WindowAdvances(c)
          \/ OnMarketMetadata(c)
          \/ OnEvaluate(c)
          \/ \E s \in Sides : InstrumentLoads(c, s) \/ OnInstrument(c, s) \/ OnBook(c, s)
    \/ OnStart
    \/ OnStop
    \/ OnLoad
    \/ \E e \in 1..MaxEpoch, listed, exited \in SUBSET Conditions :
          OnMarketUniverse(e, listed, exited)
    \/ Heartbeat

Spec == Init /\ [][Next]_vars

(***************************************************************************)
(* While the strategy runs a heartbeat is always called again, by the      *)
(* timer or by the data callbacks, and once called it runs to its end.     *)
(* Only the heartbeat's actions change stage, and one of them is enabled   *)
(* when HeartbeatTurn is.  Time passes between the callbacks however many  *)
(* there are.                                                              *)
(***************************************************************************)
HeartbeatTurn == (stage = "idle" => running) /\ stage' \in Stages \ {stage}

Fairness == SF_vars(ClockAdvances) /\ WF_stage(HeartbeatTurn)

FairSpec == Spec /\ Fairness
-----------------------------------------------------------------------------
(***************************************************************************)
(* Safety.  The named parts are the assertions of strategy/invariants.py,  *)
(* which the tests evaluate after the call sequences they script, plus     *)
(* what the recovery code relies on without asserting it.                  *)
(***************************************************************************)

\* The records, the epoch and the heartbeat's progress have their types, and
\* the conditions that a running heartbeat works on are active until its
\* recovery stage may abandon one.
TypeOK ==
    /\ record \in [Conditions -> Records]
    /\ running \in BOOLEAN
    /\ epoch \in 0..MaxEpoch
    /\ stage \in Stages
    /\ beat \in SUBSET Conditions
    /\ stage \in {"restore", "reconcile", "recover"} =>
          \A c \in beat : record[c].active

\* No call sequence makes _transition_condition_phase raise AssertionError:
\* every phase the code writes is a legal successor of the one it replaces.
NoIllegalTransition == \A c \in Conditions : ~record[c].illegal

\* A condition that was subscribed and is not READY has an open book
\* generation with its start, what the heartbeat needs to credit, retry or
\* abandon it: without them it would wait for ever, the wedge that
\* invariants.py guards.  The total-stall clock runs only while it waits, so
\* that no condition is abandoned for an earlier wait.
WaitingIsRecoverable ==
    \A c \in Conditions : LET r == record[c] IN
        /\ r.phase \in SubscribingPhases \ {"READY"} <=> r.awaiting # {}
        /\ r.awaiting # {} <=> r.generation # Absent
        /\ r.stalled \in {Absent, r.generation}

\* READY means that the generation closed with a book on both sides, and a
\* condition that waits for books has no instrument left to subscribe.
PhaseMatchesBooks ==
    \A c \in Conditions : LET r == record[c] IN
        /\ r.phase = "READY" <=> r.bilateral
        /\ r.bilateral => r.everReady
        /\ r.phase = "READY" => \A s \in Sides : r.receipt[s] # Absent
        /\ r.phase = "AWAITING_FIRST_BOOK" => r.pending \subseteq r.subscribed

PastPending(r) == r.phase \in {"AWAITING_FIRST_BOOK", "READY"}

\* Whatever the engine does to the commands of one instrument, and for however
\* long, a condition past the pending stage owns the instruments that the engine
\* does not refuse: a refusal does not reach the other half, now or later
\* (subscribe_market_instrument answers it with False, and the loop goes on).
RefusalIsContained ==
    \A c \in Conditions :
        PastPending(record[c]) =>
            ConditionInstruments(record[c]) \ Refusable \subseteq record[c].subscribed

\* Recovery is pending, or was dispatched, only for sides that the open
\* generation still awaits: a side that answered is not drained again.
RecoveryOnlyForAwaited ==
    \A c \in Conditions : LET r == record[c] IN
        /\ r.recovering \subseteq r.awaiting
        /\ \A s \in Sides : r.dispatched[s] # Absent => s \in r.recovering

\* A condition outside the active set holds no phase, no generation and no
\* readiness marker, whatever late callback or heartbeat stage still runs.
NoStateOutlivesCondition ==
    \A c \in Conditions : LET r == record[c] IN
        ~r.active => /\ r.phase = "UNSUBSCRIBED"
                     /\ r.awaiting = {} /\ r.stalled = Absent
                     /\ r.stale = {} /\ ~r.miss

\* While an abandoned condition is suppressed nothing subscribes it again.
SuppressedStaysUnsubscribed ==
    \A c \in Conditions : Suppressed(record[c]) => record[c].phase = "UNSUBSCRIBED"

-----------------------------------------------------------------------------
\* Steps, and the promise to the rest of the node.

\* A side stops being awaited, in a condition that stays subscribed, only for
\* a book that is no older than the generation: a callback delayed from before
\* a resubscription never makes the condition ready.
CreditedSidesAreFresh ==
    [][\A c \in Conditions : record'[c].phase \in SubscribingPhases =>
          \A s \in record[c].awaiting \ record'[c].awaiting :
              record'[c].receipt[s] \in 0..record[c].generation]_vars

FeedOf(r) ==
    CASE r.phase = "READY"             -> "ready"
      [] r.phase \in SubscribingPhases \ {"READY"} -> "waiting"
      [] OTHER                         -> "out"

\* What tests/test_subscription_invariants.py:388 says of a refused subscription:
\* once the API recovers, "a re-subscribe with Cache-visible instruments must
\* re-establish the subscribed set", or the condition trips the wedge guard of
\* invariants.py (_assert_owns_instruments).  So a heartbeat that subscribes an
\* active condition again, with both instruments in the Cache and the engine
\* taking every command, leaves a condition past the pending stage the owner of
\* both.  It does not: nothing is pending, and _subscribe_market_condition
\* returns before it sends a command.
ResubscribeOwns ==
    [][\A c \in Conditions :
          (RestoresWith(Sides) /\ c \in beat /\ record[c].visible = Sides
              /\ PastPending(record'[c]))
          => ConditionInstruments(record'[c]) \subseteq record'[c].subscribed]_vars

Contract == INSTANCE BookFeedContract WITH
    feed <- [c \in Conditions |-> FeedOf(record[c])],
    owed <- [c \in Conditions |-> record[c].awaiting]

\* The subscriptions keep the contract on the book feed.
FeedContract == Contract!Spec
-----------------------------------------------------------------------------
\* Liveness, under FairSpec.

\* An instrument that the Cache does not have and the engine has not taken: it
\* is asked for again by every heartbeat.
Unclaimed(r) == r.pending \ r.subscribed

\* A condition that never received its books does not wait for ever: they
\* arrive, or the recovery abandons it, or it leaves the active set.  Also when
\* the engine refuses an instrument that the Cache has, and nothing asks for it
\* again; but not when one that the Cache lacks is refused time and again, since
\* _first_book_recovery_due returns before it looks at the clock.
WaitEnds ==
    \A c \in Conditions :
        <>[](Unclaimed(record[c]) = {}) =>
            ((running /\ record[c].awaiting # {} /\ ~record[c].everReady)
                ~> (~running \/ ~record[c].active \/ record[c].phase = "READY"))

\* A READY condition with a silent side does not stay READY on old books: the
\* side delivers again or the condition is reopened (_ready_receipt_stalled).
SilentSideIsReopened ==
    \A c \in Conditions :
        (running /\ record[c].phase = "READY"
            /\ \E s \in Sides : record[c].receipt[s] = StaleReceiptAge)
            ~> (\/ ~running \/ record[c].phase # "READY"
                \/ \A s \in Sides : record[c].receipt[s] # StaleReceiptAge)

\* A condition in the active set does not stay unsubscribed, even when a
\* universe event put it there while it was suppressed.
ActiveGetsSubscribed ==
    \A c \in Conditions :
        (running /\ record[c].active /\ record[c].phase = "UNSUBSCRIBED")
            ~> (~running \/ ~record[c].active \/ record[c].phase # "UNSUBSCRIBED")
=============================================================================
