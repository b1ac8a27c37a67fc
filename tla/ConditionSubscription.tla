----------------------- MODULE ConditionSubscription -----------------------
(***************************************************************************)
(* The subscription record that one strategy keeps for one market          *)
(* condition, and the functions of strategy/subscriptions.py that move it. *)
(* A condition has two instruments, one per side; every dictionary of      *)
(* MarketSubscriptionState keyed by the condition, and every marker the    *)
(* strategy keys by the condition, is a field of the record.  The          *)
(* instruments of two conditions are disjoint, so the record holds all     *)
(* that these functions read or write.                                     *)
(*                                                                         *)
(* A timestamp is kept as its age in clock units.  Absent is a missing     *)
(* dictionary entry.  An age stops at the largest one a guard tells apart  *)
(* (Older), or turns Absent when every guard takes an older entry for a    *)
(* missing one (Faded).                                                    *)
(***************************************************************************)
EXTENDS Integers

CONSTANTS
    StallAge,          \* _BOOK_GENERATION_STALL_SEC
    RetryAge,          \* _BOOK_RECOVERY_RETRY_SEC
    AbandonAge,        \* _BOOK_GENERATION_ABANDON_SEC
    StaleReceiptAge,   \* _STALE_RECEIPT_THRESHOLD_SEC
    SuppressAge,       \* _NO_BOOK_SUPPRESS_SEC
    RestoreDelay,      \* _BOOK_RECOVERY_RESTORE_DELAY_SEC
    MaxLag,            \* the longest delay between ts_init and the callback
    UnsubscribeExited  \* the market_rotation.unsubscribe_exited setting

ASSUME AgesAssumption ==
    /\ StallAge \in Nat /\ RetryAge \in Nat /\ AbandonAge \in Nat
    /\ StaleReceiptAge \in Nat /\ SuppressAge \in Nat /\ RestoreDelay \in Nat
    /\ MaxLag \in Nat
    /\ StallAge < RetryAge /\ RetryAge < AbandonAge /\ AbandonAge < SuppressAge
    /\ MaxLag < StaleReceiptAge /\ StaleReceiptAge <= AbandonAge

ASSUME UnsubscribeExitedAssumption == UnsubscribeExited \in BOOLEAN

Sides == {"UP", "DOWN"}

Absent == -1

Ages(cap) == Absent..cap

Older(age, cap) == IF age = Absent \/ age = cap THEN age ELSE age + 1

Faded(age, cap) == IF age = Absent \/ age + 1 >= cap THEN Absent ELSE age + 1

NoAges == [s \in Sides |-> Absent]
-----------------------------------------------------------------------------
\* ConditionSubscriptionPhase and the table of legal phase writes.

Phases == {"UNSUBSCRIBED", "PENDING_METADATA", "PENDING_INSTRUMENT",
           "SUBSCRIBE_ISSUED", "AWAITING_FIRST_BOOK", "READY"}

SubscribingPhases == Phases \ {"UNSUBSCRIBED", "PENDING_METADATA"}

AllowedPhaseTransitions ==
    [source \in Phases |->
        CASE source = "UNSUBSCRIBED" ->
                {"PENDING_METADATA", "PENDING_INSTRUMENT",
                 "AWAITING_FIRST_BOOK"}
          [] source = "PENDING_INSTRUMENT" -> Phases \ {"UNSUBSCRIBED"}
          [] source = "AWAITING_FIRST_BOOK" ->
                {"PENDING_INSTRUMENT", "AWAITING_FIRST_BOOK", "READY"}
          [] source = "READY" ->
                {"READY", "PENDING_INSTRUMENT", "AWAITING_FIRST_BOOK"}
          [] OTHER ->
                {"PENDING_METADATA", "PENDING_INSTRUMENT",
                 "SUBSCRIBE_ISSUED", "AWAITING_FIRST_BOOK"}]

(***************************************************************************)
(* awaiting = {} stands for a missing entry of                             *)
(* awaiting_book_sides_by_condition, stale = {} for a missing stale        *)
(* marker: the code never stores an empty set in either.  restore and      *)
(* refreshed are the process-wide dictionaries keyed by instrument, with   *)
(* this strategy as the only registered owner.  illegal records that a     *)
(* phase write has raised AssertionError.                                  *)
(***************************************************************************)
Records ==
    [active     : BOOLEAN,       \* _active_condition_ids
     known      : BOOLEAN,       \* registry.by_condition is not None
     window     : {"upcoming", "live", "ended"},  \* now against start_ts, end_ts
     visible    : SUBSET Sides,  \* instruments the Nautilus Cache holds
     phase      : Phases,        \* condition_phases
     pending    : SUBSET Sides,  \* pending_instrument_ids
     subscribed : SUBSET Sides,  \* subscribed_instrument_ids
     awaiting   : SUBSET Sides,  \* awaiting_book_sides_by_condition
     generation : Ages(AbandonAge),     \* book_generation_started_at
     stalled    : Ages(AbandonAge),     \* book_stalled_started_at
     receipt    : [Sides -> Ages(StaleReceiptAge)],  \* last_book_received_at
     recovering : SUBSET Sides,         \* pending_book_recovery_sides
     dispatched : [Sides -> Ages(RetryAge - 1)],  \* book_recovery_dispatched_at
     bilateral  : BOOLEAN,       \* first_bilateral_book_at
     everReady  : BOOLEAN,       \* first_bilateral_book_ever_at
     abandoned  : Ages(SuppressAge - 1),\* _no_book_abandoned_at_by_condition
     miss       : BOOLEAN,       \* _runtime_readiness_miss_condition_ids
     stale      : SUBSET Sides,  \* _stale_orderbook_recovery_by_condition
     restore    : [Sides -> Ages(RestoreDelay)],  \* _global_book_restore_pending
     refreshed  : [Sides -> Ages(RetryAge - 1)],     \* _global_book_recovery_times
     illegal    : BOOLEAN]

\* The framework clock moves every timestamp one unit into the past.
Aged(r) ==
    [r EXCEPT !.generation = Older(@, AbandonAge),
              !.stalled    = Older(@, AbandonAge),
              !.receipt    = [s \in Sides |-> Older(@[s], StaleReceiptAge)],
              !.dispatched = [s \in Sides |-> Faded(@[s], RetryAge)],
              !.abandoned  = Faded(@, SuppressAge),
              !.restore    = [s \in Sides |-> Older(@[s], RestoreDelay)],
              !.refreshed  = [s \in Sides |-> Faded(@[s], RetryAge)]]

ConditionInstruments(r) == IF r.known THEN Sides ELSE {}

PendingInstruments(r) == IF r.known THEN r.pending ELSE {}

Expired(r) == r.known /\ r.window = "ended"

Upcoming(r) == r.known /\ r.window = "upcoming"
-----------------------------------------------------------------------------
\* Phase writes.

TransitionPhase(r, phase) ==
    IF phase = "UNSUBSCRIBED" \/ phase \in AllowedPhaseTransitions[r.phase]
    THEN [r EXCEPT !.phase = phase]
    ELSE [r EXCEPT !.illegal = TRUE]

\* Fault: the first-bilateral marker survives the new generation.
BeginGenerationKeepsBilateral(r, sides) ==
    TransitionPhase(
        [r EXCEPT !.awaiting   = sides,
                  !.generation = 0,
                  !.recovering = {},
                  !.dispatched = NoAges],
        "AWAITING_FIRST_BOOK")

BeginGeneration(r, sides) ==
    TransitionPhase(
        [r EXCEPT !.awaiting   = sides,
                  !.generation = 0,
                  !.recovering = {},
                  !.dispatched = NoAges,
                  !.receipt    = [s \in Sides |->
                                    IF s \in sides THEN Absent ELSE @[s]],
                  !.stalled    = IF @ = Absent THEN 0 ELSE @,
                  !.bilateral  = FALSE],
        "AWAITING_FIRST_BOOK")

FinishGeneration(r) ==
    TransitionPhase(
        [r EXCEPT !.awaiting   = {},
                  !.generation = Absent,
                  !.recovering = {},
                  !.dispatched = NoAges,
                  !.stalled    = Absent,
                  !.bilateral  = TRUE,
                  !.everReady  = TRUE],
        "READY")

RetireGeneration(r, clearHistory) ==
    [r EXCEPT !.awaiting   = {},
              !.generation = Absent,
              !.recovering = {},
              !.dispatched = NoAges,
              !.stalled    = Absent,
              !.bilateral  = FALSE,
              !.everReady  = FALSE,
              !.receipt    = IF clearHistory THEN NoAges ELSE @]

\* The phase that the derived bookkeeping calls for.
PhaseFromDerivedState(r) ==
    IF PendingInstruments(r) # {} /\ ~(ConditionInstruments(r) \subseteq r.subscribed)
    THEN "PENDING_INSTRUMENT"
    ELSE IF r.awaiting # {} THEN "AWAITING_FIRST_BOOK"
    ELSE IF r.phase = "READY" THEN "READY"
    ELSE "SUBSCRIBE_ISSUED"

\* Fault: a READY condition drops to PENDING_INSTRUMENT without a generation.
RecomputePhaseWithoutReentry(r) ==
    IF r.phase = "UNSUBSCRIBED" THEN r
    ELSE TransitionPhase(r, PhaseFromDerivedState(r))

RecomputePhase(r) ==
    LET target  == PhaseFromDerivedState(r)
        reentry == r.phase = "READY" /\ target = "PENDING_INSTRUMENT"
    IN  IF r.phase = "UNSUBSCRIBED" THEN r
        ELSE TransitionPhase(IF reentry THEN BeginGeneration(r, Sides) ELSE r,
                             target)
-----------------------------------------------------------------------------
\* Subscribing and unsubscribing.

\* accepted says whether the engine takes the three subscribe commands or one
\* of them raises RuntimeError.
SubscribeInstrument(r, s, accepted) ==
    LET queued == IF s \in r.visible
                  THEN [r EXCEPT !.pending = @ \ {s}]
                  ELSE RecomputePhase([r EXCEPT !.pending = @ \union {s}])
    IN  IF s \in r.subscribed
        THEN RecomputePhase([r EXCEPT !.pending = @ \ {s}])
        ELSE IF accepted
        THEN RecomputePhase([queued EXCEPT !.subscribed = @ \union {s}])
        ELSE queued

\* Fault: a refusal ends the loop over the instruments.
SubscribeUntilRefused(r, accepted) ==
    LET up == SubscribeInstrument(r, "UP", "UP" \in accepted)
    IN  IF "UP" \in accepted THEN SubscribeInstrument(up, "DOWN", "DOWN" \in accepted)
        ELSE up

SubscribeInstruments(r, accepted) ==
    SubscribeInstrument(SubscribeInstrument(r, "UP", "UP" \in accepted),
                        "DOWN", "DOWN" \in accepted)

Suppressed(r) == r.abandoned # Absent

SubscribeCondition(r, accepted) ==
    LET first == r.phase \notin SubscribingPhases
        begun == IF first THEN BeginGeneration(r, Sides) ELSE r
        wired == SubscribeInstruments(begun, accepted)
    IN  IF ~r.active \/ Suppressed(r) THEN r
        ELSE IF ~first /\ PendingInstruments(r) = {} THEN RecomputePhase(r)
        ELSE IF ~r.known THEN TransitionPhase(r, "PENDING_METADATA")
        ELSE TransitionPhase(wired, PhaseFromDerivedState(wired))

\* Fault: an instrument that loads restarts the wait for its side alone.
InstrumentRestartsWait(r, s, accepted) ==
    LET q == [r EXCEPT !.pending = @ \ {s}]
    IN  IF r.known /\ r.phase = "AWAITING_FIRST_BOOK"
        THEN BeginGeneration(SubscribeInstrument(q, s, accepted), {s})
        ELSE q

InstrumentAvailable(r, s, accepted) ==
    LET q == [r EXCEPT !.pending = @ \ {s}]
    IN  IF r.known /\ (r.active \/ r.phase # "UNSUBSCRIBED")
        THEN SubscribeInstrument(q, s, accepted)
        ELSE q

UnsubscribeInstruments(r) ==
    IF r.known THEN [r EXCEPT !.subscribed = {}, !.restore = NoAges] ELSE r

NoteReady(r) ==
    [r EXCEPT !.miss = FALSE, !.stale = {}, !.stalled = Absent]

\* Fault: the book generation is not retired with the phase.
ClearLifecycleWithoutRetire(r, clearSubscribed, clearHistory) ==
    [r EXCEPT !.phase      = "UNSUBSCRIBED",
              !.pending    = IF r.known THEN {} ELSE @,
              !.subscribed = IF r.known /\ clearSubscribed THEN {} ELSE @,
              !.stale      = {},
              !.miss       = FALSE]

ClearLifecycle(r, clearSubscribed, clearHistory) ==
    [RetireGeneration(r, clearHistory) EXCEPT
        !.phase      = "UNSUBSCRIBED",
        !.pending    = IF r.known THEN {} ELSE @,
        !.subscribed = IF r.known /\ clearSubscribed THEN {} ELSE @,
        !.stale      = {},
        !.miss       = FALSE]

\* What a condition leaving the active set goes through, on expiry and on exit.
LeaveActive(r) ==
    LET cleared == ClearLifecycle([r EXCEPT !.active = FALSE],
                                  UnsubscribeExited, UnsubscribeExited)
    IN  NoteReady(IF UnsubscribeExited THEN UnsubscribeInstruments(cleared)
                  ELSE cleared)

AbandonCondition(r) ==
    LET dropped == UnsubscribeInstruments([r EXCEPT !.active = FALSE,
                                                    !.abandoned = 0])
    IN  IF r.active THEN NoteReady(ClearLifecycle(dropped, TRUE, TRUE)) ELSE r
-----------------------------------------------------------------------------
\* Books.

\* Fault: a book older than the generation is credited.
ObserveDelayedBook(r, s, lag) ==
    LET q == [r EXCEPT !.receipt[s] = lag, !.awaiting = @ \ {s},
                       !.recovering = @ \ {s}, !.dispatched[s] = Absent]
    IN  IF r.awaiting = {} THEN r
        ELSE IF q.awaiting # {} THEN q ELSE FinishGeneration(q)

\* lag is the age of the book's ts_init when the callback runs.
ObserveBook(r, s, lag) ==
    LET recorded == [r EXCEPT !.receipt[s] =
                        IF @ = Absent \/ lag <= @ THEN lag ELSE @]
        credited == [recorded EXCEPT !.awaiting = @ \ {s},
                                     !.recovering = @ \ {s},
                                     !.dispatched[s] = Absent]
    IN  IF r.awaiting = {} \/ (r.generation # Absent /\ lag > r.generation)
        THEN recorded
        ELSE IF credited.awaiting # {} THEN credited
        ELSE FinishGeneration(credited)

\* The heartbeat credits an awaited side whose book is already in the Cache.
CreditCachedBook(r, s, lag) ==
    LET q == ObserveBook(r, s, lag)
    IN  IF s \notin r.awaiting \/ r.generation = Absent \/ lag > r.generation
        THEN r
        ELSE IF q.awaiting = {} THEN NoteReady(q) ELSE q

ReconcileFromCache(r, cached, lag) ==
    LET q == IF "UP" \in cached THEN CreditCachedBook(r, "UP", lag) ELSE r
    IN  IF "DOWN" \in cached THEN CreditCachedBook(q, "DOWN", lag) ELSE q
-----------------------------------------------------------------------------
\* Recovery: drain (phase 1), restore (phase 2), retry, abandon.

RecoveryTargets(r) ==
    IF ~r.known THEN {}
    ELSE {s \in r.awaiting : \/ s \notin r.recovering
                             \/ r.dispatched[s] = Absent}

RefreshDue(r, s) ==
    r.restore[s] = Absent /\ r.refreshed[s] = Absent

DispatchRecovery(r, targets) ==
    [r EXCEPT
        !.restore    = [s \in Sides |-> IF s \in targets /\ RefreshDue(r, s)
                                        THEN 0 ELSE @[s]],
        !.recovering = @ \union targets,
        !.dispatched = [s \in Sides |-> IF s \in targets THEN 0 ELSE @[s]]]

FlushRestores(r) ==
    LET due == {s \in Sides : r.restore[s] = RestoreDelay}
    IN  [r EXCEPT
            !.restore   = [s \in Sides |-> IF s \in due THEN Absent ELSE @[s]],
            !.refreshed = [s \in Sides |->
                             IF s \in due /\ r.known /\ ~Expired(r)
                             THEN 0 ELSE @[s]]]

TotalStall(r) == IF r.stalled # Absent THEN r.stalled ELSE r.generation

\* Fault: a recovery that is due goes before the abandonment.
RecoverInsteadOfAbandon(r) ==
    IF Suppressed(r) \/ PendingInstruments(r) # {} THEN r
    ELSE IF RecoveryTargets(r) # {} THEN DispatchRecovery(r, RecoveryTargets(r))
    ELSE IF ~r.everReady /\ TotalStall(r) = AbandonAge THEN AbandonCondition(r)
    ELSE r

RecoverStalledBook(r) ==
    IF Suppressed(r) \/ PendingInstruments(r) # {} THEN r
    ELSE IF ~r.everReady /\ TotalStall(r) = AbandonAge THEN AbandonCondition(r)
    ELSE IF r.generation > StallAge THEN DispatchRecovery(r, RecoveryTargets(r))
    ELSE r

ReopenForStaleSides(r, sides) ==
    LET begun == BeginGeneration(r, sides)
    IN  [DispatchRecovery(begun, RecoveryTargets(begun)) EXCEPT !.stale = {}]

RecoverStaleOrderbook(r) ==
    LET clock == [r EXCEPT !.stalled = IF @ = Absent THEN 0 ELSE @]
        due   == r.awaiting = {} /\ r.stale # {} /\ PendingInstruments(r) = {}
    IN  IF ~Suppressed(r) /\ due THEN ReopenForStaleSides(clock, r.stale) ELSE r

\* Fault: only a feed that lost both sides counts as stalled.
BilateralStaleReceiptSides(r) ==
    IF /\ r.active /\ r.everReady /\ r.awaiting = {} /\ r.stale = {}
       /\ \A s \in Sides : r.receipt[s] = StaleReceiptAge
    THEN Sides ELSE {}

StaleReceiptSides(r) ==
    IF /\ r.active /\ r.everReady /\ PendingInstruments(r) = {}
       /\ r.awaiting = {} /\ r.stale = {}
       /\ \E s \in Sides : r.receipt[s] # Absent
    THEN {s \in Sides : r.receipt[s] \in {Absent, StaleReceiptAge}}
    ELSE {}

RecoverStaleReceipt(r) ==
    LET sides == StaleReceiptSides(r)
    IN  IF ~Suppressed(r) /\ sides # {} THEN ReopenForStaleSides(r, sides) ELSE r

RecoverBookSubscription(r) ==
    RecoverStaleReceipt(RecoverStaleOrderbook(RecoverStalledBook(r)))
-----------------------------------------------------------------------------
\* Evaluation.  A market view is abstracted to its classification and, when a
\* book is stale, the sides that are.

Views == [kind : {"missing", "tradable"}, stale : {{}}]
         \union [kind : {"stale"}, stale : (SUBSET Sides) \ {{}}]

MarkUnready(r, view) == [r EXCEPT !.stale = view.stale, !.miss = TRUE]

MissingView == [kind |-> "missing", stale |-> {}]

EvaluateView(r, view) ==
    IF view.kind = "tradable" THEN NoteReady(r) ELSE MarkUnready(r, view)

SkipPreloaded(r) == IF r.miss THEN NoteReady(r) ELSE r

EvaluateCondition(r, view) ==
    IF ~r.active THEN r
    ELSE IF Expired(r) THEN LeaveActive(r)
    ELSE IF Upcoming(r) THEN SkipPreloaded(r)
    ELSE IF r.phase # "READY" THEN MarkUnready(r, MissingView)
    ELSE EvaluateView(r, view)

\* evaluated says whether the 500 ms throttle lets the evaluation run.
BookEvent(r, s, lag, evaluated, view) ==
    LET q == ObserveBook(r, s, lag)
    IN  IF Upcoming(r) THEN SkipPreloaded(q)
        ELSE IF q.awaiting # {} THEN [q EXCEPT !.miss = TRUE]
        ELSE IF evaluated THEN EvaluateCondition(q, view)
        ELSE q
=============================================================================
