--------------------- MODULE StrategySubscriptionsProofs ---------------------
(***************************************************************************)
(* The safety of StrategySubscriptions for every number of conditions,     *)
(* epochs and clock units: every callback keeps the records coherent and   *)
(* moves the book feed as BookFeedContract allows.                         *)
(***************************************************************************)
EXTENDS StrategySubscriptions, TLAPS

------------------------------------------------------------------------------
(***************************************************************************)
(* What the functions of ConditionSubscription do to a coherent record.    *)
(***************************************************************************)
WaitingPhases == SubscribingPhases \ {"READY"}

\* The phase agrees with the book generation, and only a subscribed condition
\* keeps anything about its books.  SUBSCRIBE_ISSUED is never written.
GenerationCoherent(r) ==
    /\ r.phase # "SUBSCRIBE_ISSUED"
    /\ r.phase \in WaitingPhases <=> r.awaiting # {}
    /\ r.awaiting # {} <=> r.generation # Absent
    /\ r.stalled \in {Absent, r.generation}
    /\ r.phase = "READY" <=> r.bilateral
    /\ r.bilateral => r.everReady
    /\ r.everReady => r.phase \in SubscribingPhases
    /\ r.stale # {} => r.phase \in SubscribingPhases
    /\ r.abandoned # Absent => r.phase = "UNSUBSCRIBED"

\* A side that is subscribed and not awaited has been received.
ReceiptsCoherent(r) ==
    r.phase \in SubscribingPhases =>
        \A s \in Sides \ r.awaiting : r.receipt[s] # Absent

\* Instruments are pending only in a condition that is subscribed, and only a
\* known condition is.
PendingCoherent(r) ==
    /\ r.phase \notin SubscribingPhases => r.pending = {}
    /\ ~r.known => r.phase \notin SubscribingPhases

RecoveryCoherent(r) ==
    /\ r.recovering \subseteq r.awaiting
    /\ \A s \in Sides : r.dispatched[s] # Absent => s \in r.recovering

\* Coherent, before the phase is recomputed from the pending instruments.
Loose(r) ==
    /\ r \in Records
    /\ ~r.illegal
    /\ GenerationCoherent(r)
    /\ ReceiptsCoherent(r)
    /\ PendingCoherent(r)
    /\ RecoveryCoherent(r)

\* A condition that waits for books has no instrument left to subscribe.
Wired(r) == r.phase = "AWAITING_FIRST_BOOK" => r.pending \subseteq r.subscribed

Coherent(r) == Loose(r) /\ Wired(r)

\* A condition outside the active set keeps no lifecycle state.
Quiet(r) == ~r.active => r.phase = "UNSUBSCRIBED" /\ ~r.miss

\* The metadata of a condition in PENDING_METADATA is still missing.
Settled(r) == r.known => r.phase # "PENDING_METADATA"

\* The instruments whose commands the engine always takes.
Unrefused == Sides \ Refusable

\* A condition that is subscribed owns them.
Owned(r) == r.phase \in SubscribingPhases => Unrefused \subseteq r.subscribed

\* The instruments stay, and no condition becomes subscribed.
SameOwner(r, q) ==
    /\ q.subscribed = r.subscribed
    /\ q.phase \in SubscribingPhases => r.phase \in SubscribingPhases

LEMMA SameOwnerOwned ==
    ASSUME NEW r, NEW q, SameOwner(r, q)
    PROVE  Owned(r) => Owned(q)
BY DEF SameOwner, Owned

LEMMA SameOwnerComposes ==
    ASSUME NEW r, NEW p, NEW q, SameOwner(r, p), SameOwner(p, q)
    PROVE  SameOwner(r, q)
BY DEF SameOwner
-----------------------------------------------------------------------------
\* Ages.

LEMMA AgeTypes ==
    /\ 0 # Absent
    /\ Absent \in Ages(AbandonAge) /\ 0 \in Ages(AbandonAge)
    /\ Absent \in Ages(StaleReceiptAge)
    /\ Absent \in Ages(RetryAge - 1) /\ 0 \in Ages(RetryAge - 1)
    /\ Absent \in Ages(SuppressAge - 1) /\ 0 \in Ages(SuppressAge - 1)
    /\ Absent \in Ages(RestoreDelay) /\ 0 \in Ages(RestoreDelay)
    /\ NoAges \in [Sides -> Ages(StaleReceiptAge)]
    /\ NoAges \in [Sides -> Ages(RetryAge - 1)]
    /\ NoAges \in [Sides -> Ages(RestoreDelay)]
    /\ \A s \in Sides : NoAges[s] = Absent
BY AgesAssumption DEF Ages, Absent, NoAges

LEMMA OlderType ==
    ASSUME NEW cap \in Nat, NEW age \in Ages(cap)
    PROVE  /\ Older(age, cap) \in Ages(cap)
           /\ Older(age, cap) = Absent <=> age = Absent
BY DEF Older, Ages, Absent

LEMMA FadedType ==
    ASSUME NEW cap \in Nat, cap >= 1, NEW age \in Ages(cap - 1)
    PROVE  /\ Faded(age, cap) \in Ages(cap - 1)
           /\ Faded(age, cap) # Absent => age # Absent
BY DEF Faded, Ages, Absent

\* The passing of time keeps a record coherent.
LEMMA AgedCoherent ==
    ASSUME NEW r, Coherent(r)
    PROVE  /\ Coherent(Aged(r))
           /\ Aged(r).active = r.active /\ Aged(r).known = r.known
           /\ Quiet(r) => Quiet(Aged(r))
           /\ Settled(r) => Settled(Aged(r))
<1> DEFINE q == Aged(r)
<1>0. /\ AbandonAge \in Nat /\ StaleReceiptAge \in Nat /\ RestoreDelay \in Nat
      /\ RetryAge \in Nat /\ RetryAge >= 1
      /\ SuppressAge \in Nat /\ SuppressAge >= 1
  BY AgesAssumption
<1>1. r \in Records
  BY DEF Coherent, Loose
<1>2. /\ Older(r.generation, AbandonAge) \in Ages(AbandonAge)
      /\ Older(r.generation, AbandonAge) = Absent <=> r.generation = Absent
      /\ Older(r.stalled, AbandonAge) \in Ages(AbandonAge)
      /\ Older(r.stalled, AbandonAge) = Absent <=> r.stalled = Absent
  BY <1>0, <1>1, OlderType DEF Records
<1>3. \A s \in Sides :
         /\ Older(r.receipt[s], StaleReceiptAge) \in Ages(StaleReceiptAge)
         /\ Older(r.receipt[s], StaleReceiptAge) = Absent <=> r.receipt[s] = Absent
         /\ Older(r.restore[s], RestoreDelay) \in Ages(RestoreDelay)
         /\ Faded(r.dispatched[s], RetryAge) \in Ages(RetryAge - 1)
         /\ Faded(r.dispatched[s], RetryAge) # Absent => r.dispatched[s] # Absent
         /\ Faded(r.refreshed[s], RetryAge) \in Ages(RetryAge - 1)
  <2> SUFFICES ASSUME NEW s \in Sides
               PROVE  /\ Older(r.receipt[s], StaleReceiptAge) \in Ages(StaleReceiptAge)
                      /\ Older(r.receipt[s], StaleReceiptAge) = Absent <=> r.receipt[s] = Absent
                      /\ Older(r.restore[s], RestoreDelay) \in Ages(RestoreDelay)
                      /\ Faded(r.dispatched[s], RetryAge) \in Ages(RetryAge - 1)
                      /\ Faded(r.dispatched[s], RetryAge) # Absent => r.dispatched[s] # Absent
                      /\ Faded(r.refreshed[s], RetryAge) \in Ages(RetryAge - 1)
    OBVIOUS
  <2>1. /\ r.receipt[s] \in Ages(StaleReceiptAge) /\ r.restore[s] \in Ages(RestoreDelay)
        /\ r.dispatched[s] \in Ages(RetryAge - 1) /\ r.refreshed[s] \in Ages(RetryAge - 1)
    BY <1>1 DEF Records
  <2> QED BY <2>1, <1>0, OlderType, FadedType
<1>4. /\ Faded(r.abandoned, SuppressAge) \in Ages(SuppressAge - 1)
      /\ Faded(r.abandoned, SuppressAge) # Absent => r.abandoned # Absent
  BY <1>0, <1>1, FadedType DEF Records
<1>5. q \in Records
  BY <1>1, <1>2, <1>3, <1>4 DEF Records, Aged
<1>6. /\ q.active = r.active /\ q.known = r.known /\ q.phase = r.phase
      /\ q.pending = r.pending /\ q.subscribed = r.subscribed
      /\ q.awaiting = r.awaiting /\ q.recovering = r.recovering
      /\ q.bilateral = r.bilateral /\ q.everReady = r.everReady
      /\ q.stale = r.stale /\ q.miss = r.miss /\ q.illegal = r.illegal
      /\ q.generation = Older(r.generation, AbandonAge)
      /\ q.stalled = Older(r.stalled, AbandonAge)
      /\ q.abandoned = Faded(r.abandoned, SuppressAge)
      /\ q.receipt = [s \in Sides |-> Older(r.receipt[s], StaleReceiptAge)]
      /\ q.dispatched = [s \in Sides |-> Faded(r.dispatched[s], RetryAge)]
  BY <1>1 DEF Aged, Records
<1> HIDE DEF q
<1>7. GenerationCoherent(q)
  BY <1>2, <1>4, <1>6 DEF Coherent, Loose, GenerationCoherent
<1>8. ReceiptsCoherent(q) /\ RecoveryCoherent(q)
  BY <1>3, <1>6 DEF Coherent, Loose, ReceiptsCoherent, RecoveryCoherent
<1>9. Coherent(q)
  BY <1>5, <1>6, <1>7, <1>8 DEF Coherent, Loose, Wired, PendingCoherent
<1> QED BY <1>6, <1>9 DEF q, Quiet, Settled
-----------------------------------------------------------------------------
\* Phase writes and the book generation.

\* What a subscription call, or a recomputation of the phase, leaves alone.
Framed(r, q) ==
    /\ q.active = r.active /\ q.known = r.known /\ q.visible = r.visible
    /\ q.abandoned = r.abandoned /\ q.miss = r.miss

LEMMA PhaseTypes ==
    /\ SubscribingPhases \subseteq Phases
    /\ WaitingPhases = {"PENDING_INSTRUMENT", "SUBSCRIBE_ISSUED", "AWAITING_FIRST_BOOK"}
    /\ SubscribingPhases = WaitingPhases \union {"READY"}
    /\ Phases = SubscribingPhases \union {"UNSUBSCRIBED", "PENDING_METADATA"}
BY DEF Phases, SubscribingPhases, WaitingPhases

LEMMA TransitionLegal ==
    ASSUME NEW r, r \in Records, NEW phase \in Phases,
           phase = "UNSUBSCRIBED" \/ phase \in AllowedPhaseTransitions[r.phase]
    PROVE  TransitionPhase(r, phase) = [r EXCEPT !.phase = phase]
BY DEF TransitionPhase

LEMMA AllowedTransitions ==
    /\ \A source \in Phases :
          "AWAITING_FIRST_BOOK" \in AllowedPhaseTransitions[source]
    /\ \A source \in Phases :
          "PENDING_INSTRUMENT" \in AllowedPhaseTransitions[source]
    /\ "PENDING_METADATA" \in AllowedPhaseTransitions["UNSUBSCRIBED"]
    /\ "PENDING_METADATA" \in AllowedPhaseTransitions["PENDING_METADATA"]
    /\ \A source \in {"PENDING_INSTRUMENT", "AWAITING_FIRST_BOOK", "READY"} :
          "READY" \in AllowedPhaseTransitions[source]
BY DEF AllowedPhaseTransitions, Phases

LEMMA RetireFields ==
    ASSUME NEW r, r \in Records, NEW clearHistory \in BOOLEAN
    PROVE  RetireGeneration(r, clearHistory) \in Records
BY AgeTypes DEF RetireGeneration, Records

\* Clearing the lifecycle leaves a coherent record from any typed one.
LEMMA ClearLifecycleCoherent ==
    ASSUME NEW r, r \in Records, ~r.illegal, ~r.known => r.pending = {},
           NEW clearSubscribed \in BOOLEAN, NEW clearHistory \in BOOLEAN,
           NEW q, q = ClearLifecycle(r, clearSubscribed, clearHistory)
    PROVE  /\ Coherent(q)
           /\ q.phase = "UNSUBSCRIBED" /\ ~q.miss
           /\ q.active = r.active /\ q.known = r.known
<1> DEFINE p == RetireGeneration(r, clearHistory)
<1>1. p \in Records
  BY RetireFields
<1> HIDE DEF p
<1>2. q \in Records
  <2> DEFINE pending == IF r.known THEN {} ELSE p.pending
             subscribed == IF r.known /\ clearSubscribed THEN {} ELSE p.subscribed
  <2>1. pending \in SUBSET Sides /\ subscribed \in SUBSET Sides
    BY <1>1 DEF Records
  <2>2. q = [p EXCEPT !.phase = "UNSUBSCRIBED", !.pending = pending,
                      !.subscribed = subscribed, !.stale = {}, !.miss = FALSE]
    BY <1>1 DEF p, ClearLifecycle, Records
  <2>3. "UNSUBSCRIBED" \in Phases
    BY DEF Phases
  <2> HIDE DEF pending, subscribed
  <2> QED BY ONLY <1>1, <2>1, <2>2, <2>3 DEF Records
<1>3. /\ q.phase = "UNSUBSCRIBED" /\ q.pending = {} /\ ~q.miss /\ q.stale = {}
      /\ q.awaiting = {} /\ q.generation = Absent /\ q.stalled = Absent
      /\ q.recovering = {} /\ q.dispatched = NoAges
      /\ ~q.bilateral /\ ~q.everReady /\ ~q.illegal
      /\ q.active = r.active /\ q.known = r.known
  BY DEF p, ClearLifecycle, RetireGeneration, Records
<1>4. Coherent(q)
  BY <1>2, <1>3, AgeTypes, PhaseTypes
  DEF Coherent, Loose, Wired, GenerationCoherent, ReceiptsCoherent,
      PendingCoherent, RecoveryCoherent
<1> QED BY <1>3, <1>4

\* The fields of a record that opens a generation on the given sides.
LEMMA BeginFields ==
    ASSUME NEW r, r \in Records, NEW sides \in SUBSET Sides,
           NEW q, q = BeginGeneration(r, sides)
    PROVE  /\ q \in Records
           /\ q.phase = "AWAITING_FIRST_BOOK"
           /\ q.awaiting = sides /\ q.generation = 0
           /\ q.stalled = IF r.stalled = Absent THEN 0 ELSE r.stalled
           /\ q.recovering = {} /\ q.dispatched = NoAges
           /\ \A s \in Sides : q.receipt[s] = IF s \in sides THEN Absent
                                              ELSE r.receipt[s]
           /\ ~q.bilateral /\ q.everReady = r.everReady
           /\ Framed(r, q)
           /\ q.pending = r.pending /\ q.subscribed = r.subscribed
           /\ q.stale = r.stale /\ q.illegal = r.illegal
<1> DEFINE receipt == [s \in Sides |-> IF s \in sides THEN Absent ELSE r.receipt[s]]
           stalled == IF r.stalled = Absent THEN 0 ELSE r.stalled
           b == [r EXCEPT !.awaiting = sides, !.generation = 0,
                          !.recovering = {}, !.dispatched = NoAges,
                          !.receipt = receipt, !.stalled = stalled,
                          !.bilateral = FALSE]
           w == [b EXCEPT !.phase = "AWAITING_FIRST_BOOK"]
<1>1. receipt \in [Sides -> Ages(StaleReceiptAge)] /\ stalled \in Ages(AbandonAge)
  BY AgeTypes DEF Records
<1> HIDE DEF receipt, stalled
<1>2. b \in Records
  BY <1>1, AgeTypes DEF Records
<1>3. BeginGeneration(r, sides) = TransitionPhase(b, "AWAITING_FIRST_BOOK")
  BY DEF BeginGeneration, receipt, stalled, Records
<1> HIDE DEF b
<1>4. "AWAITING_FIRST_BOOK" \in AllowedPhaseTransitions[b.phase]
      /\ "AWAITING_FIRST_BOOK" \in Phases
  BY <1>2, AllowedTransitions DEF Records, Phases
<1>5. q = w
  BY <1>2, <1>3, <1>4, TransitionLegal
<1>6. w \in Records
  BY <1>2, <1>4 DEF Records
<1>7. /\ w.phase = "AWAITING_FIRST_BOOK"
      /\ w.awaiting = sides /\ w.generation = 0 /\ w.stalled = stalled
      /\ w.recovering = {} /\ w.dispatched = NoAges /\ w.receipt = receipt
      /\ ~w.bilateral /\ w.everReady = r.everReady
      /\ w.active = r.active /\ w.known = r.known
      /\ w.visible = r.visible
      /\ w.pending = r.pending /\ w.subscribed = r.subscribed
      /\ w.stale = r.stale /\ w.miss = r.miss
      /\ w.restore = r.restore /\ w.refreshed = r.refreshed
      /\ w.abandoned = r.abandoned /\ w.illegal = r.illegal
  BY DEF b, Records
<1> HIDE DEF w
<1> QED BY <1>5, <1>6, <1>7 DEF receipt, stalled, Framed

\* A record with no open generation is coherent once it opens one.
LEMMA BeginCoherent ==
    ASSUME NEW r, Loose(r), NEW sides \in SUBSET Sides, sides # {},
           r.known, r.abandoned = Absent, r.stalled \in {Absent, 0},
           r.phase = "READY" \/ sides = Sides,
           NEW q, q = BeginGeneration(r, sides)
    PROVE  Loose(q)
<1>1. /\ q \in Records /\ q.phase = "AWAITING_FIRST_BOOK"
      /\ q.awaiting = sides /\ q.generation = 0 /\ q.stalled = 0
      /\ q.recovering = {} /\ q.dispatched = NoAges
      /\ \A s \in Sides : q.receipt[s] = IF s \in sides THEN Absent ELSE r.receipt[s]
      /\ ~q.bilateral /\ q.everReady = r.everReady
      /\ Framed(r, q) /\ q.pending = r.pending
      /\ q.stale = r.stale /\ q.illegal = r.illegal
  <2>1. r \in Records
    BY DEF Loose
  <2> QED BY <2>1, BeginFields
<1>2. GenerationCoherent(q)
  BY <1>1, AgeTypes, PhaseTypes DEF Loose, GenerationCoherent, Framed
<1>3. ReceiptsCoherent(q)
  BY <1>1, PhaseTypes DEF Loose, ReceiptsCoherent, GenerationCoherent
<1>4. PendingCoherent(q) /\ RecoveryCoherent(q)
  BY <1>1, AgeTypes, PhaseTypes DEF Loose, PendingCoherent, RecoveryCoherent, Framed
<1> QED BY <1>1, <1>2, <1>3, <1>4 DEF Loose

\* The book feed is left alone, or the condition waits for both sides.
Rewaits(r, q) ==
    \/ q.awaiting = r.awaiting /\ (q.phase = "READY" <=> r.phase = "READY")
    \/ q.awaiting = Sides

LEMMA PhaseWriteCoherent ==
    ASSUME NEW r, Loose(r), r.phase \in {"PENDING_INSTRUMENT", "AWAITING_FIRST_BOOK"},
           NEW phase \in {"PENDING_INSTRUMENT", "AWAITING_FIRST_BOOK"},
           phase = "AWAITING_FIRST_BOOK" => r.pending \subseteq r.subscribed,
           NEW q, q = TransitionPhase(r, phase)
    PROVE  /\ Coherent(q)
           /\ Framed(r, q)
           /\ q.pending = r.pending /\ q.subscribed = r.subscribed
           /\ q.awaiting = r.awaiting /\ q.phase = phase
<1>1. r \in Records
  BY DEF Loose
<1>2. phase \in Phases /\ phase \in AllowedPhaseTransitions[r.phase]
  BY <1>1, AllowedTransitions DEF Records, Phases
<1>3. q = [r EXCEPT !.phase = phase]
  BY <1>1, <1>2, TransitionLegal
<1>4. q \in Records
  BY <1>1, <1>2, <1>3 DEF Records
<1>5. /\ q.phase = phase /\ q.awaiting = r.awaiting /\ q.generation = r.generation
      /\ q.stalled = r.stalled /\ q.bilateral = r.bilateral
      /\ q.everReady = r.everReady /\ q.stale = r.stale
      /\ q.abandoned = r.abandoned /\ q.illegal = r.illegal
      /\ q.receipt = r.receipt /\ q.pending = r.pending
      /\ q.subscribed = r.subscribed /\ q.known = r.known
      /\ q.active = r.active /\ q.visible = r.visible /\ q.miss = r.miss
      /\ q.recovering = r.recovering /\ q.dispatched = r.dispatched
  BY <1>1, <1>3 DEF Records
<1>6. GenerationCoherent(q)
  BY <1>5, PhaseTypes DEF Loose, GenerationCoherent
<1>7. ReceiptsCoherent(q) /\ PendingCoherent(q) /\ RecoveryCoherent(q)
  BY <1>5, PhaseTypes DEF Loose, ReceiptsCoherent, PendingCoherent, RecoveryCoherent
<1> QED BY <1>4, <1>5, <1>6, <1>7 DEF Loose, Coherent, Wired, Framed

\* Writing the derived phase makes a record coherent, unless a ready one has an
\* instrument to subscribe.
LEMMA DerivedPhaseCoherent ==
    ASSUME NEW r, Loose(r), r.phase \in SubscribingPhases,
           r.phase = "READY" => r.pending = {} \/ Sides \subseteq r.subscribed,
           NEW q, q = TransitionPhase(r, PhaseFromDerivedState(r))
    PROVE  /\ Coherent(q)
           /\ Framed(r, q)
           /\ q.pending = r.pending /\ q.subscribed = r.subscribed
           /\ q.awaiting = r.awaiting
           /\ q.phase \in SubscribingPhases
           /\ q.phase = "READY" <=> r.phase = "READY"
<1> DEFINE target == PhaseFromDerivedState(r)
<1>1. r \in Records /\ r.phase \in Phases /\ r.pending \in SUBSET Sides
  BY DEF Loose, Records
<1>2. /\ r.phase \in {"PENDING_INSTRUMENT", "AWAITING_FIRST_BOOK", "READY"}
      /\ r.known
      /\ r.phase = "READY" <=> r.awaiting = {}
  BY <1>1, PhaseTypes DEF Loose, GenerationCoherent, PendingCoherent
<1>3. CASE r.phase = "READY"
  <2>1. target = "READY"
    BY <1>1, <1>2, <1>3 DEF PhaseFromDerivedState, PendingInstruments, ConditionInstruments
  <2>2. q = [r EXCEPT !.phase = "READY"]
    BY <1>1, <1>3, <2>1, TransitionLegal, AllowedTransitions DEF Phases
  <2>3. q = r
    BY <1>1, <1>3, <2>2 DEF Records
  <2> QED BY <1>3, <2>3, PhaseTypes DEF Coherent, Wired, Framed
<1>4. CASE r.phase # "READY"
  <2>1. target \in {"PENDING_INSTRUMENT", "AWAITING_FIRST_BOOK"}
    BY <1>2, <1>4 DEF PhaseFromDerivedState
  <2>2. target = "AWAITING_FIRST_BOOK" => r.pending \subseteq r.subscribed
    BY <1>1, <1>2 DEF PhaseFromDerivedState, PendingInstruments, ConditionInstruments
  <2> HIDE DEF target
  <2>3. /\ Coherent(q) /\ Framed(r, q) /\ q.awaiting = r.awaiting
        /\ q.pending = r.pending /\ q.subscribed = r.subscribed
        /\ q.phase = target
    <3>1. q = TransitionPhase(r, target)
      BY DEF target
    <3> QED BY <1>2, <1>4, <2>1, <2>2, <3>1, PhaseWriteCoherent
  <2> QED BY <1>4, <2>1, <2>3, PhaseTypes
<1> QED BY <1>3, <1>4

\* Recomputing the phase makes a record coherent.
LEMMA RecomputeCoherent ==
    ASSUME NEW r, Loose(r), r.phase # "PENDING_METADATA",
           NEW q, q = RecomputePhase(r)
    PROVE  /\ Coherent(q)
           /\ Framed(r, q)
           /\ q.pending = r.pending /\ q.subscribed = r.subscribed
           /\ q.phase \in SubscribingPhases <=> r.phase \in SubscribingPhases
           /\ q.phase # "PENDING_METADATA"
           /\ q.phase = "READY" => r.phase = "READY"
           /\ q.phase = "READY" => q.pending = {} \/ Sides \subseteq q.subscribed
           /\ Rewaits(r, q)
<1>1. r \in Records /\ r.phase \in Phases
  BY DEF Loose, Records
<1>2. CASE r.phase = "UNSUBSCRIBED"
  <2>1. q = r
    BY <1>2 DEF RecomputePhase
  <2> QED BY <1>2, <2>1, PhaseTypes DEF Coherent, Wired, Framed, Rewaits
<1>3. CASE /\ r.phase = "READY"
           /\ r.pending # {} /\ ~(Sides \subseteq r.subscribed)
  <2> DEFINE b == BeginGeneration(r, Sides)
  <2> HIDE DEF b
  <2>1. /\ r.known /\ r.awaiting = {} /\ r.stalled = Absent
        /\ r.abandoned = Absent
    BY <1>3, PhaseTypes DEF Loose, GenerationCoherent, PendingCoherent
  <2>2. PhaseFromDerivedState(r) = "PENDING_INSTRUMENT"
    BY <1>3, <2>1 DEF PhaseFromDerivedState, PendingInstruments, ConditionInstruments
  <2>3. q = TransitionPhase(b, "PENDING_INSTRUMENT")
    BY <1>3, <2>2 DEF RecomputePhase, b
  <2>4. Loose(b)
    BY <1>3, <2>1, BeginCoherent DEF b, Sides
  <2>5. /\ Framed(r, b) /\ b.phase = "AWAITING_FIRST_BOOK" /\ b.awaiting = Sides
        /\ b.pending = r.pending /\ b.subscribed = r.subscribed
    BY <1>1, BeginFields DEF b
  <2>6. /\ Coherent(q) /\ Framed(b, q) /\ q.awaiting = b.awaiting
        /\ q.pending = b.pending /\ q.subscribed = b.subscribed
        /\ q.phase = "PENDING_INSTRUMENT"
    BY <2>3, <2>4, <2>5, PhaseWriteCoherent
  <2> QED BY <1>3, <2>5, <2>6, PhaseTypes DEF Framed, Rewaits
<1>4. CASE /\ r.phase # "UNSUBSCRIBED"
           /\ r.phase = "READY" => r.pending = {} \/ Sides \subseteq r.subscribed
  <2>1. r.phase \in SubscribingPhases
    BY <1>1, <1>4, PhaseTypes
  <2>2. ~(r.phase = "READY" /\ PhaseFromDerivedState(r) = "PENDING_INSTRUMENT")
    BY <1>1, <1>4 DEF PhaseFromDerivedState, PendingInstruments, ConditionInstruments,
                      Loose, GenerationCoherent, WaitingPhases
  <2>3. q = TransitionPhase(r, PhaseFromDerivedState(r))
    BY <1>4, <2>2 DEF RecomputePhase
  <2> QED BY <1>4, <2>1, <2>3, DerivedPhaseCoherent, PhaseTypes DEF Rewaits
<1> QED BY <1>2, <1>3, <1>4
-----------------------------------------------------------------------------
\* Subscribing.

Rewire(r, pending, subscribed) ==
    [r EXCEPT !.pending = pending, !.subscribed = subscribed]

LEMMA RewireLoose ==
    ASSUME NEW r, Loose(r), NEW pending \in SUBSET Sides,
           NEW subscribed \in SUBSET Sides,
           r.phase \in SubscribingPhases \/ pending = {},
           NEW q, q = Rewire(r, pending, subscribed)
    PROVE  /\ Loose(q)
           /\ Framed(r, q)
           /\ q.pending = pending /\ q.subscribed = subscribed
           /\ q.phase = r.phase /\ q.awaiting = r.awaiting
<1>1. r \in Records
  BY DEF Loose
<1>2. q \in Records
  BY <1>1 DEF Records, Rewire
<1>3. /\ q.pending = pending /\ q.subscribed = subscribed
      /\ q.phase = r.phase /\ q.awaiting = r.awaiting
      /\ q.generation = r.generation /\ q.stalled = r.stalled
      /\ q.bilateral = r.bilateral /\ q.everReady = r.everReady
      /\ q.stale = r.stale /\ q.abandoned = r.abandoned /\ q.illegal = r.illegal
      /\ q.receipt = r.receipt /\ q.known = r.known
      /\ q.active = r.active /\ q.visible = r.visible /\ q.miss = r.miss
      /\ q.recovering = r.recovering /\ q.dispatched = r.dispatched
  BY <1>1 DEF Records, Rewire
<1>4. GenerationCoherent(q)
  BY <1>3 DEF Loose, GenerationCoherent
<1>5. ReceiptsCoherent(q) /\ PendingCoherent(q) /\ RecoveryCoherent(q)
  BY <1>3 DEF Loose, ReceiptsCoherent, PendingCoherent, RecoveryCoherent
<1> QED BY <1>2, <1>3, <1>4, <1>5 DEF Loose, Framed

\* What subscribing one side does to a coherent record.
Subscribes(r, q, s) ==
    /\ Coherent(q)
    /\ Framed(r, q)
    /\ q.phase \in SubscribingPhases <=> r.phase \in SubscribingPhases
    /\ q.phase # "PENDING_METADATA"
    /\ r.subscribed \subseteq q.subscribed
    /\ q.pending \subseteq r.pending \union {s}
    /\ q.phase = "READY" => r.phase = "READY"
    /\ q.phase = "READY" => s \notin q.pending \/ Sides \subseteq q.subscribed
    /\ Rewaits(r, q)

LEMMA SubscribeInstrumentCoherent ==
    ASSUME NEW r, Coherent(r), r.phase # "PENDING_METADATA", NEW s \in Sides,
           r.phase \in SubscribingPhases \/ s \in r.visible, NEW accepted,
           NEW q, q = SubscribeInstrument(r, s, accepted)
    PROVE  Subscribes(r, q, s) /\ (accepted => s \in q.subscribed)
<1> DEFINE less == [r EXCEPT !.pending = @ \ {s}]
           more == [r EXCEPT !.pending = @ \union {s}]
           queued == IF s \in r.visible THEN less ELSE RecomputePhase(more)
<1>1. /\ r \in Records /\ Loose(r) /\ Wired(r)
      /\ r.pending \in SUBSET Sides /\ r.subscribed \in SUBSET Sides
  BY DEF Coherent, Loose, Records
<1>2. r.pending \ {s} \in SUBSET Sides /\ r.pending \union {s} \in SUBSET Sides
      /\ r.subscribed \union {s} \in SUBSET Sides
  BY <1>1
<1>3. r.phase \in SubscribingPhases \/ r.pending \ {s} = {}
  BY <1>1 DEF Loose, PendingCoherent
<1>4. /\ Loose(less) /\ Framed(r, less)
      /\ less.pending = r.pending \ {s} /\ less.subscribed = r.subscribed
      /\ less.phase = r.phase /\ less.awaiting = r.awaiting
  <2>1. less = Rewire(r, r.pending \ {s}, r.subscribed)
    BY <1>1 DEF Records, Rewire
  <2> HIDE DEF less
  <2> QED BY <1>1, <1>2, <1>3, <2>1, RewireLoose
<1>5. CASE s \in r.subscribed
  <2>1. q = RecomputePhase(less)
    BY <1>5 DEF SubscribeInstrument
  <2> HIDE DEF less
  <2>2. /\ Coherent(q) /\ Framed(less, q)
        /\ q.pending = less.pending /\ q.subscribed = less.subscribed
        /\ q.phase \in SubscribingPhases <=> less.phase \in SubscribingPhases
        /\ q.phase # "PENDING_METADATA"
        /\ q.phase = "READY" => less.phase = "READY"
        /\ Rewaits(less, q)
    BY <1>4, <2>1, RecomputeCoherent
  <2> QED BY <1>4, <1>5, <2>2 DEF Subscribes, Framed, Rewaits
<1>6. CASE s \notin r.subscribed
  <2>1. Subscribes(r, queued, s) /\ queued.subscribed = r.subscribed
    <3>1. CASE s \in r.visible
      <4>1. Coherent(less)
        BY <1>1, <1>4 DEF Coherent, Wired
      <4>2. queued = less
        BY <3>1
      <4> HIDE DEF queued, less
      <4> QED BY <1>4, <4>1, <4>2 DEF Subscribes, Rewaits
    <3>2. CASE s \notin r.visible
      <4>1. /\ Loose(more) /\ Framed(r, more)
            /\ more.pending = r.pending \union {s} /\ more.subscribed = r.subscribed
            /\ more.phase = r.phase /\ more.awaiting = r.awaiting
        <5>1. more = Rewire(r, r.pending \union {s}, r.subscribed)
          BY <1>1 DEF Records, Rewire
        <5> HIDE DEF more
        <5> QED BY <1>1, <1>2, <3>2, <5>1, RewireLoose
      <4>2. queued = RecomputePhase(more)
        BY <3>2
      <4> HIDE DEF queued, more
      <4>3. /\ Coherent(queued) /\ Framed(more, queued)
            /\ queued.pending = more.pending /\ queued.subscribed = more.subscribed
            /\ queued.phase \in SubscribingPhases <=> more.phase \in SubscribingPhases
            /\ queued.phase # "PENDING_METADATA"
            /\ queued.phase = "READY" => more.phase = "READY"
            /\ queued.phase = "READY" =>
                  queued.pending = {} \/ Sides \subseteq queued.subscribed
            /\ Rewaits(more, queued)
        BY <4>1, <4>2, RecomputeCoherent
      <4> QED BY <4>1, <4>3 DEF Subscribes, Framed, Rewaits
    <3> QED BY <3>1, <3>2
  <2>2. CASE accepted
    <3> DEFINE wired == [queued EXCEPT !.subscribed = @ \union {s}]
    <3>1. q = RecomputePhase(wired)
      BY <1>6, <2>2 DEF SubscribeInstrument
    <3> HIDE DEF queued
    <3>2. /\ Loose(queued) /\ queued.pending \in SUBSET Sides
          /\ queued.phase \in SubscribingPhases \/ queued.pending = {}
          /\ queued \in Records
      BY <2>1 DEF Subscribes, Coherent, Loose, PendingCoherent, Records
    <3>3. /\ Loose(wired) /\ Framed(queued, wired)
          /\ wired.pending = queued.pending
          /\ wired.subscribed = r.subscribed \union {s}
          /\ wired.phase = queued.phase /\ wired.awaiting = queued.awaiting
      <4>1. wired = Rewire(queued, queued.pending, r.subscribed \union {s})
        BY <2>1, <3>2 DEF Records, Rewire
      <4> HIDE DEF wired
      <4> QED BY <1>2, <3>2, <4>1, RewireLoose
    <3> HIDE DEF wired
    <3>4. /\ Coherent(q) /\ Framed(wired, q)
          /\ q.pending = wired.pending /\ q.subscribed = wired.subscribed
          /\ q.phase \in SubscribingPhases <=> wired.phase \in SubscribingPhases
          /\ q.phase # "PENDING_METADATA"
          /\ q.phase = "READY" => wired.phase = "READY"
          /\ q.phase = "READY" => q.pending = {} \/ Sides \subseteq q.subscribed
          /\ Rewaits(wired, q)
      BY <2>1, <3>1, <3>3, RecomputeCoherent DEF Subscribes
    <3> QED BY <2>1, <3>3, <3>4 DEF Subscribes, Framed, Rewaits
  <2>3. CASE ~accepted
    BY <1>6, <2>1, <2>3 DEF SubscribeInstrument
  <2> QED BY <2>2, <2>3
<1> QED BY <1>5, <1>6

LEMMA SubscribeInstrumentsCoherent ==
    ASSUME NEW r, Coherent(r), r.phase \in SubscribingPhases,
           NEW accepted, NEW q, q = SubscribeInstruments(r, accepted)
    PROVE  /\ Coherent(q)
           /\ Sides \cap accepted \subseteq q.subscribed
           /\ Framed(r, q)
           /\ q.phase \in SubscribingPhases
           /\ q.phase = "READY" => r.phase = "READY"
           /\ q.phase = "READY" => q.pending = {} \/ Sides \subseteq q.subscribed
           /\ Rewaits(r, q)
<1> DEFINE p == SubscribeInstrument(r, "UP", "UP" \in accepted)
<1>1. r.phase # "PENDING_METADATA"
  BY PhaseTypes DEF SubscribingPhases
<1>2. Subscribes(r, p, "UP") /\ ("UP" \in accepted => "UP" \in p.subscribed)
  BY <1>1, SubscribeInstrumentCoherent DEF Sides
<1>3. q = SubscribeInstrument(p, "DOWN", "DOWN" \in accepted)
  BY DEF SubscribeInstruments
<1> HIDE DEF p
<1>4. Subscribes(p, q, "DOWN") /\ ("DOWN" \in accepted => "DOWN" \in q.subscribed)
  BY <1>2, <1>3, SubscribeInstrumentCoherent DEF Subscribes, Sides
<1>5. q.pending \subseteq Sides /\ p.pending \subseteq Sides
  BY <1>2, <1>4 DEF Subscribes, Coherent, Loose, Records
<1>6. q.phase = "READY" => q.pending = {} \/ Sides \subseteq q.subscribed
  BY <1>2, <1>4, <1>5 DEF Subscribes, Sides
<1>7. Coherent(q) /\ Framed(r, q) /\ Rewaits(r, q)
  BY <1>2, <1>4 DEF Subscribes, Framed, Rewaits
<1>8. Sides \cap accepted \subseteq q.subscribed
  BY <1>2, <1>4 DEF Subscribes, Sides
<1> QED BY <1>2, <1>4, <1>6, <1>7, <1>8 DEF Subscribes

\* A subscription call keeps a record coherent and settles an active one.
LEMMA SubscribeConditionCoherent ==
    ASSUME NEW r, Coherent(r), NEW accepted,
           NEW q, q = SubscribeCondition(r, accepted)
    PROVE  /\ Coherent(q)
           /\ Framed(r, q)
           /\ ~r.active => q = r
           /\ r.active \/ Settled(r) => Settled(q)
           /\ Rewaits(r, q)
           /\ Unrefused \subseteq accepted /\ Owned(r) => Owned(q)
<1> DEFINE first == r.phase \notin SubscribingPhases
           begun == IF first THEN BeginGeneration(r, Sides) ELSE r
           wired == SubscribeInstruments(begun, accepted)
<1>1. r \in Records /\ r.phase \in Phases /\ Loose(r)
  BY DEF Coherent, Loose, Records
<1>2. CASE ~r.active \/ Suppressed(r)
  <2>1. q = r
    BY <1>2 DEF SubscribeCondition
  <2>2. r.active => Settled(r)
    BY <1>1, <1>2 DEF Suppressed, Loose, GenerationCoherent, Settled
  <2> QED BY <2>1, <2>2 DEF Framed, Rewaits
<1>3. CASE r.active /\ ~Suppressed(r) /\ ~first /\ PendingInstruments(r) = {}
  <2>1. q = RecomputePhase(r)
    BY <1>3 DEF SubscribeCondition
  <2>2. r.phase # "PENDING_METADATA"
    BY <1>3 DEF SubscribingPhases
  <2>3. /\ Coherent(q) /\ Framed(r, q) /\ q.phase # "PENDING_METADATA"
        /\ Rewaits(r, q) /\ q.subscribed = r.subscribed
    BY <1>1, <2>1, <2>2, RecomputeCoherent
  <2> QED BY <1>3, <2>3 DEF Settled, Owned
<1>4. CASE r.active /\ ~Suppressed(r) /\ first /\ ~r.known
  <2>1. q = TransitionPhase(r, "PENDING_METADATA")
    BY <1>4 DEF SubscribeCondition
  <2>2. /\ r.phase \in {"UNSUBSCRIBED", "PENDING_METADATA"}
        /\ "PENDING_METADATA" \in Phases
    BY <1>1, <1>4, PhaseTypes DEF Phases
  <2>3. q = [r EXCEPT !.phase = "PENDING_METADATA"]
    BY <1>1, <2>1, <2>2, TransitionLegal, AllowedTransitions
  <2>4. q \in Records
    BY <1>1, <2>2, <2>3 DEF Records
  <2>5. /\ q.phase = "PENDING_METADATA" /\ q.awaiting = r.awaiting
        /\ q.generation = r.generation
        /\ q.stalled = r.stalled /\ q.bilateral = r.bilateral
        /\ q.everReady = r.everReady /\ q.stale = r.stale
        /\ q.abandoned = r.abandoned /\ q.illegal = r.illegal
        /\ q.receipt = r.receipt /\ q.pending = r.pending
        /\ q.subscribed = r.subscribed /\ q.known = r.known
        /\ q.active = r.active /\ q.visible = r.visible /\ q.miss = r.miss
        /\ q.recovering = r.recovering /\ q.dispatched = r.dispatched
    BY <1>1, <2>3 DEF Records
  <2>6. "PENDING_METADATA" \notin SubscribingPhases
        /\ "PENDING_METADATA" \notin WaitingPhases
        /\ "UNSUBSCRIBED" \notin SubscribingPhases
        /\ "UNSUBSCRIBED" \notin WaitingPhases
    BY PhaseTypes
  <2>7. GenerationCoherent(q)
    BY <1>1, <1>4, <2>2, <2>5, <2>6 DEF Loose, GenerationCoherent, Suppressed
  <2>8. ReceiptsCoherent(q) /\ PendingCoherent(q) /\ RecoveryCoherent(q) /\ Wired(q)
    BY <1>1, <1>4, <2>5, <2>6
    DEF Loose, ReceiptsCoherent, PendingCoherent, RecoveryCoherent, Wired
  <2>9. Framed(r, q) /\ Rewaits(r, q) /\ ~q.known
    BY <1>4, <2>2, <2>5 DEF Framed, Rewaits
  <2>10. Owned(q)
    BY <2>5, <2>6 DEF Owned
  <2> QED BY <1>1, <1>4, <2>4, <2>5, <2>7, <2>8, <2>9, <2>10 DEF Coherent, Loose, Settled
<1>5. CASE /\ r.active /\ ~Suppressed(r)
           /\ first => r.known
           /\ first \/ PendingInstruments(r) # {}
  <2>1. r.known /\ r.abandoned = Absent
    BY <1>1, <1>5 DEF Loose, PendingCoherent, Suppressed
  <2>2. q = TransitionPhase(wired, PhaseFromDerivedState(wired))
    BY <1>5, <2>1 DEF SubscribeCondition
  <2>3. /\ Coherent(begun) /\ Framed(r, begun) /\ begun.phase \in SubscribingPhases
        /\ Rewaits(r, begun)
    <3>1. CASE first
      <4>1. begun = BeginGeneration(r, Sides)
        BY <3>1
      <4>2. r.stalled = Absent /\ r.pending = {}
        BY <1>1, <3>1, PhaseTypes DEF Loose, GenerationCoherent, PendingCoherent
      <4> HIDE DEF begun
      <4>3. Loose(begun)
        BY <1>1, <2>1, <4>1, <4>2, BeginCoherent DEF Sides
      <4>4. /\ begun.phase = "AWAITING_FIRST_BOOK" /\ Framed(r, begun)
            /\ begun.awaiting = Sides /\ begun.pending = r.pending
        BY <1>1, <4>1, BeginFields
      <4> QED BY <4>2, <4>3, <4>4, PhaseTypes DEF Coherent, Wired, Rewaits
    <3>2. CASE ~first
      BY <3>2 DEF Framed, Rewaits
    <3> QED BY <3>1, <3>2
  <2> HIDE DEF begun
  <2>4. /\ Coherent(wired) /\ Framed(begun, wired)
        /\ wired.phase \in SubscribingPhases
        /\ wired.phase = "READY" =>
              wired.pending = {} \/ Sides \subseteq wired.subscribed
        /\ Rewaits(begun, wired)
        /\ Unrefused \subseteq accepted => Unrefused \subseteq wired.subscribed
    BY <2>3, SubscribeInstrumentsCoherent DEF Unrefused
  <2> HIDE DEF wired
  <2>5. /\ Coherent(q) /\ Framed(wired, q)
        /\ q.phase \in SubscribingPhases
        /\ q.awaiting = wired.awaiting /\ q.subscribed = wired.subscribed
        /\ q.phase = "READY" <=> wired.phase = "READY"
    BY <2>2, <2>4, DerivedPhaseCoherent DEF Coherent
  <2>6. Framed(r, q) /\ Rewaits(r, q)
    BY <2>3, <2>4, <2>5 DEF Framed, Rewaits
  <2> QED BY <1>5, <2>4, <2>5, <2>6, PhaseTypes DEF Settled, Owned
<1>6. ~first => r.known
  BY <1>1 DEF Loose, PendingCoherent
<1> QED BY <1>2, <1>3, <1>4, <1>5, <1>6

\* An instrument that loads is subscribed in a condition the strategy tracks.
LEMMA InstrumentAvailableCoherent ==
    ASSUME NEW r, Coherent(r), Settled(r), NEW s \in r.visible, NEW accepted,
           NEW q, q = InstrumentAvailable(r, s, accepted)
    PROVE  Coherent(q) /\ Framed(r, q) /\ Settled(q) /\ Rewaits(r, q)
           /\ (r.phase = "UNSUBSCRIBED" => q.phase = "UNSUBSCRIBED")
           /\ (Owned(r) => Owned(q))
<1> DEFINE p == [r EXCEPT !.pending = @ \ {s}]
<1>1. /\ r \in Records /\ Loose(r) /\ Wired(r)
      /\ r.pending \in SUBSET Sides /\ r.subscribed \in SUBSET Sides
      /\ s \in Sides /\ r.pending \ {s} \in SUBSET Sides
  BY DEF Coherent, Loose, Records
<1>2. r.phase \in SubscribingPhases \/ r.pending \ {s} = {}
  BY <1>1 DEF Loose, PendingCoherent
<1>3. p = Rewire(r, r.pending \ {s}, r.subscribed)
  BY <1>1 DEF Records, Rewire
<1>4. CASE r.known /\ (r.active \/ r.phase # "UNSUBSCRIBED")
  <2>1. q = SubscribeInstrument(p, s, accepted)
    BY <1>4 DEF InstrumentAvailable
  <2> HIDE DEF p
  <2>2. /\ Loose(p) /\ Framed(r, p) /\ p.phase = r.phase /\ p.awaiting = r.awaiting
        /\ p.pending = r.pending \ {s} /\ p.subscribed = r.subscribed
    BY <1>1, <1>2, <1>3, RewireLoose
  <2>3. Coherent(p) /\ p.phase # "PENDING_METADATA" /\ s \in p.visible
    BY <1>1, <1>4, <2>2 DEF Coherent, Wired, Settled, Framed
  <2>4. Subscribes(p, q, s)
    BY <1>1, <2>1, <2>3, SubscribeInstrumentCoherent
  <2>5. q.phase \in Phases /\ q.subscribed \in SUBSET Sides
    BY <2>4 DEF Subscribes, Coherent, Loose, Records
  <2>6. Owned(r) => Owned(q)
    BY <2>2, <2>4, <2>5 DEF Subscribes, Owned
  <2> QED BY <2>2, <2>4, <2>5, <2>6, PhaseTypes DEF Subscribes, Framed, Rewaits, Settled
<1>5. CASE ~(r.known /\ (r.active \/ r.phase # "UNSUBSCRIBED"))
  <2>1. q = p
    BY <1>5 DEF InstrumentAvailable
  <2> HIDE DEF p
  <2>2. /\ Loose(q) /\ Framed(r, q) /\ q.phase = r.phase /\ q.awaiting = r.awaiting
        /\ q.pending = r.pending \ {s} /\ q.subscribed = r.subscribed
    BY <1>1, <1>2, <1>3, <2>1, RewireLoose
  <2> QED BY <1>1, <2>2 DEF Coherent, Wired, Settled, Framed, Rewaits, Owned
<1> QED BY <1>4, <1>5
-----------------------------------------------------------------------------
\* Steps that leave the lifecycle alone, and leaving the active set.

SameLifecycle(r, q) ==
    /\ q.phase = r.phase /\ q.pending = r.pending /\ q.awaiting = r.awaiting
    /\ q.generation = r.generation /\ q.stalled = r.stalled
    /\ q.receipt = r.receipt /\ q.recovering = r.recovering
    /\ q.dispatched = r.dispatched /\ q.bilateral = r.bilateral
    /\ q.everReady = r.everReady /\ q.abandoned = r.abandoned
    /\ q.stale = r.stale /\ q.illegal = r.illegal
    /\ r.known => q.known

LEMMA SameLifecycleCoherent ==
    ASSUME NEW r, Loose(r), NEW q, q \in Records, SameLifecycle(r, q)
    PROVE  /\ Loose(q)
           /\ Coherent(r) /\ q.subscribed = r.subscribed => Coherent(q)
           /\ Rewaits(r, q)
<1>1. GenerationCoherent(q)
  BY DEF Loose, GenerationCoherent, SameLifecycle
<1>2. ReceiptsCoherent(q) /\ PendingCoherent(q) /\ RecoveryCoherent(q)
  BY DEF Loose, ReceiptsCoherent, PendingCoherent, RecoveryCoherent, SameLifecycle
<1> QED BY <1>1, <1>2 DEF Loose, Coherent, Wired, Rewaits, SameLifecycle

LEMMA NoteReadyCoherent ==
    ASSUME NEW r, Coherent(r), NEW q, q = NoteReady(r)
    PROVE  /\ Coherent(q)
           /\ q.active = r.active /\ q.known = r.known /\ q.visible = r.visible
           /\ q.phase = r.phase /\ q.awaiting = r.awaiting
           /\ q.receipt = r.receipt /\ ~q.miss
           /\ SameOwner(r, q)
<1>1. r \in Records /\ Loose(r)
  BY DEF Coherent, Loose
<1>2. q \in Records
  BY <1>1, AgeTypes DEF NoteReady, Records
<1>3. /\ q.phase = r.phase /\ q.pending = r.pending /\ q.awaiting = r.awaiting
      /\ q.subscribed = r.subscribed
      /\ q.generation = r.generation /\ q.stalled = Absent
      /\ q.receipt = r.receipt /\ q.recovering = r.recovering
      /\ q.dispatched = r.dispatched /\ q.bilateral = r.bilateral
      /\ q.everReady = r.everReady /\ q.abandoned = r.abandoned
      /\ q.stale = {} /\ q.illegal = r.illegal /\ q.known = r.known
      /\ q.active = r.active /\ q.visible = r.visible /\ ~q.miss
  BY <1>1 DEF NoteReady, Records
<1>4. GenerationCoherent(q)
  BY <1>1, <1>3 DEF Loose, GenerationCoherent
<1>5. ReceiptsCoherent(q) /\ PendingCoherent(q) /\ RecoveryCoherent(q) /\ Wired(q)
  BY <1>3 DEF Coherent, Wired, Loose, ReceiptsCoherent, PendingCoherent, RecoveryCoherent
<1> QED BY <1>1, <1>2, <1>3, <1>4, <1>5 DEF Coherent, Loose, SameOwner

LEMMA UnsubscribeFields ==
    ASSUME NEW r, r \in Records, NEW q, q = UnsubscribeInstruments(r)
    PROVE  /\ q \in Records
           /\ SameLifecycle(r, q)
           /\ Framed(r, q)
<1>1. CASE r.known
  <2>1. q = [r EXCEPT !.subscribed = {}, !.restore = NoAges]
    BY <1>1 DEF UnsubscribeInstruments
  <2>2. q \in Records
    BY <2>1, AgeTypes DEF Records
  <2>3. SameLifecycle(r, q) /\ Framed(r, q)
    BY <2>1 DEF Records, SameLifecycle, Framed
  <2> QED BY <2>2, <2>3
<1>2. CASE ~r.known
  BY <1>2 DEF UnsubscribeInstruments, SameLifecycle, Framed
<1> QED BY <1>1, <1>2

\* A condition that is inactive, unsubscribed and without markers.
Left(q) == Coherent(q) /\ q.phase = "UNSUBSCRIBED" /\ ~q.miss

LEMMA LeaveActiveLeft ==
    ASSUME NEW r, Coherent(r), NEW q, q = LeaveActive(r)
    PROVE  Left(q) /\ ~q.active /\ q.known = r.known
<1> DEFINE off     == [r EXCEPT !.active = FALSE]
           cleared == ClearLifecycle(off, UnsubscribeExited, UnsubscribeExited)
           dropped == IF UnsubscribeExited THEN UnsubscribeInstruments(cleared)
                      ELSE cleared
<1>1. r \in Records /\ ~r.illegal /\ (~r.known => r.pending = {})
  BY DEF Coherent, Loose, PendingCoherent
<1>2. off \in Records
  BY <1>1 DEF Records
<1>3. ~off.active /\ ~off.illegal /\ off.known = r.known /\ off.pending = r.pending
  BY <1>1 DEF Records
<1> HIDE DEF off
<1>4. /\ Coherent(cleared) /\ cleared.phase = "UNSUBSCRIBED" /\ ~cleared.miss
      /\ ~cleared.active /\ cleared.known = r.known
  BY <1>1, <1>2, <1>3, ClearLifecycleCoherent, UnsubscribeExitedAssumption
<1>5. q = NoteReady(dropped)
  BY DEF LeaveActive, off
<1> HIDE DEF cleared
<1>6. /\ Coherent(dropped) /\ dropped.phase = "UNSUBSCRIBED"
      /\ ~dropped.active /\ dropped.known = r.known
  <2>1. CASE UnsubscribeExited
    <3> DEFINE u == UnsubscribeInstruments(cleared)
    <3>1. dropped = u
      BY <2>1
    <3> HIDE DEF u, dropped
    <3>2. u \in Records /\ SameLifecycle(cleared, u) /\ Framed(cleared, u)
      BY <1>4, UnsubscribeFields DEF u, Coherent, Loose
    <3>3. Loose(u)
      BY <1>4, <3>2, SameLifecycleCoherent DEF Coherent
    <3>4. u.phase = "UNSUBSCRIBED" /\ ~u.active /\ u.known = r.known
      BY <1>4, <3>2 DEF SameLifecycle, Framed
    <3> QED BY <3>1, <3>3, <3>4 DEF Coherent, Wired
  <2>2. CASE ~UnsubscribeExited
    BY <1>4, <2>2
  <2> QED BY <2>1, <2>2
<1> HIDE DEF dropped
<1> QED BY <1>5, <1>6, NoteReadyCoherent DEF Left

LEMMA AbandonLeft ==
    ASSUME NEW r, Coherent(r), r.active, NEW q, q = AbandonCondition(r)
    PROVE  Left(q) /\ ~q.active /\ q.known = r.known
<1> DEFINE off     == [r EXCEPT !.active = FALSE, !.abandoned = 0]
           dropped == UnsubscribeInstruments(off)
           cleared == ClearLifecycle(dropped, TRUE, TRUE)
<1>1. r \in Records /\ ~r.illegal /\ (~r.known => r.pending = {})
  BY DEF Coherent, Loose, PendingCoherent
<1>2. off \in Records
  BY <1>1, AgeTypes DEF Records
<1>3. ~off.active /\ ~off.illegal /\ off.known = r.known /\ off.pending = r.pending
  BY <1>1 DEF Records
<1>4. q = NoteReady(cleared)
  BY DEF AbandonCondition
<1> HIDE DEF off
<1>5. dropped \in Records /\ SameLifecycle(off, dropped) /\ Framed(off, dropped)
  BY <1>2, UnsubscribeFields
<1>6. /\ ~dropped.active /\ dropped.known = r.known /\ ~dropped.illegal
      /\ ~dropped.known => dropped.pending = {}
  BY <1>1, <1>3, <1>5 DEF SameLifecycle, Framed
<1> HIDE DEF dropped
<1>7. /\ Coherent(cleared) /\ cleared.phase = "UNSUBSCRIBED"
      /\ ~cleared.active /\ cleared.known = r.known
  <2>1. PICK yes \in BOOLEAN : yes = TRUE
    OBVIOUS
  <2>2. cleared = ClearLifecycle(dropped, yes, yes)
    BY <2>1
  <2> HIDE DEF cleared
  <2> QED BY <1>5, <1>6, <2>2, ClearLifecycleCoherent
<1> HIDE DEF cleared
<1> QED BY <1>4, <1>7, NoteReadyCoherent DEF Left
-----------------------------------------------------------------------------
\* Books.

\* Sides were credited, each for a book no older than the generation.
Credits(r, q) ==
    /\ q.awaiting \subseteq r.awaiting /\ q.awaiting # r.awaiting
    /\ \A s \in r.awaiting \ q.awaiting : q.receipt[s] \in 0..r.generation

LEMMA FinishFields ==
    ASSUME NEW r, r \in Records, r.phase \in {"PENDING_INSTRUMENT", "AWAITING_FIRST_BOOK"},
           NEW q, q = FinishGeneration(r)
    PROVE  /\ q \in Records
           /\ Framed(r, q)
           /\ q.phase = "READY" /\ q.awaiting = {} /\ q.generation = Absent
           /\ q.stalled = Absent /\ q.recovering = {} /\ q.dispatched = NoAges
           /\ q.bilateral /\ q.everReady /\ q.illegal = r.illegal
           /\ q.receipt = r.receipt /\ q.stale = r.stale
           /\ q.pending = r.pending /\ q.subscribed = r.subscribed
<1> DEFINE f == [r EXCEPT !.awaiting = {}, !.generation = Absent,
                          !.recovering = {}, !.dispatched = NoAges,
                          !.stalled = Absent, !.bilateral = TRUE,
                          !.everReady = TRUE]
<1>1. f \in Records
  BY AgeTypes DEF Records
<1>2. q = TransitionPhase(f, "READY")
  BY DEF FinishGeneration
<1>3. /\ Framed(r, f) /\ f.phase = r.phase /\ f.awaiting = {} /\ f.generation = Absent
      /\ f.stalled = Absent /\ f.recovering = {} /\ f.dispatched = NoAges
      /\ f.bilateral /\ f.everReady /\ f.illegal = r.illegal
      /\ f.receipt = r.receipt /\ f.stale = r.stale
      /\ f.pending = r.pending /\ f.subscribed = r.subscribed
  BY DEF Records, Framed
<1> HIDE DEF f
<1>4. q = [f EXCEPT !.phase = "READY"]
  BY <1>1, <1>2, <1>3, TransitionLegal, AllowedTransitions DEF Phases
<1>5. q \in Records
  BY <1>1, <1>4 DEF Records, Phases
<1>6. /\ Framed(f, q) /\ q.phase = "READY" /\ q.awaiting = f.awaiting
      /\ q.generation = f.generation
      /\ q.stalled = f.stalled /\ q.recovering = f.recovering
      /\ q.dispatched = f.dispatched
      /\ q.bilateral = f.bilateral /\ q.everReady = f.everReady
      /\ q.illegal = f.illegal
      /\ q.receipt = f.receipt /\ q.stale = f.stale
      /\ q.pending = f.pending /\ q.subscribed = f.subscribed
  BY <1>1, <1>4 DEF Records, Framed
<1> QED BY <1>3, <1>5, <1>6 DEF Framed

\* A book callback credits its side or leaves the generation alone.
LEMMA ObserveBookCoherent ==
    ASSUME NEW r, Coherent(r), NEW s \in Sides, NEW lag \in 0..MaxLag,
           NEW q, q = ObserveBook(r, s, lag)
    PROVE  /\ Coherent(q)
           /\ Framed(r, q)
           /\ q.phase = r.phase \/ (q.phase = "READY" /\ r.phase \in WaitingPhases)
           /\ Rewaits(r, q) \/ Credits(r, q)
           /\ q.awaiting \subseteq r.awaiting /\ r.awaiting \ q.awaiting \subseteq {s}
           /\ q.awaiting # {} => q.generation = r.generation
           /\ \A t \in Sides \ {s} : q.receipt[t] = r.receipt[t]
           /\ q.subscribed = r.subscribed
<1> DEFINE age == IF r.receipt[s] = Absent \/ lag <= r.receipt[s] THEN lag
                  ELSE r.receipt[s]
           receipt == [r.receipt EXCEPT ![s] = age]
           dispatched == [r.dispatched EXCEPT ![s] = Absent]
           recorded == [r EXCEPT !.receipt = receipt]
           credited == [r EXCEPT !.receipt = receipt, !.awaiting = r.awaiting \ {s},
                                 !.recovering = r.recovering \ {s},
                                 !.dispatched = dispatched]
<1>1. /\ r \in Records /\ Loose(r) /\ Wired(r)
      /\ r.receipt \in [Sides -> Ages(StaleReceiptAge)]
      /\ r.dispatched \in [Sides -> Ages(RetryAge - 1)]
      /\ r.awaiting \in SUBSET Sides /\ r.recovering \in SUBSET Sides
      /\ r.generation \in Ages(AbandonAge)
  BY DEF Coherent, Loose, Records
<1>2. /\ age \in Ages(StaleReceiptAge) /\ age # Absent
      /\ lag <= r.generation => age \in 0..r.generation
  <2>1. r.receipt[s] \in Ages(StaleReceiptAge)
    BY <1>1
  <2>2. lag \in Ages(StaleReceiptAge) /\ lag # Absent /\ lag >= 0
    BY AgesAssumption DEF Ages, Absent
  <2>3. age <= lag /\ age \in Int /\ lag \in Int /\ age >= 0 /\ r.generation \in Int
    BY <1>1, <2>1, <2>2, AgesAssumption DEF Ages, Absent
  <2>4. age \in Ages(StaleReceiptAge) /\ age # Absent
    BY <2>1, <2>2
  <2> HIDE DEF age
  <2> QED BY <2>3, <2>4
<1> HIDE DEF age
<1>3. /\ receipt \in [Sides -> Ages(StaleReceiptAge)] /\ receipt[s] = age
      /\ \A t \in Sides \ {s} : receipt[t] = r.receipt[t]
      /\ dispatched \in [Sides -> Ages(RetryAge - 1)] /\ dispatched[s] = Absent
      /\ \A t \in Sides \ {s} : dispatched[t] = r.dispatched[t]
  BY <1>1, <1>2, AgeTypes
<1> HIDE DEF receipt, dispatched
<1>4. CASE r.awaiting = {} \/ (r.generation # Absent /\ lag > r.generation)
  <2>1. q = recorded
    BY <1>1, <1>4 DEF ObserveBook, receipt, age, Records
  <2>2. q \in Records
    BY <1>1, <1>3, <2>1 DEF Records
  <2>3. /\ q.receipt = receipt /\ q.phase = r.phase /\ q.pending = r.pending
        /\ q.subscribed = r.subscribed
        /\ q.awaiting = r.awaiting /\ q.generation = r.generation
        /\ q.stalled = r.stalled /\ q.recovering = r.recovering
        /\ q.dispatched = r.dispatched /\ q.bilateral = r.bilateral
        /\ q.everReady = r.everReady /\ q.abandoned = r.abandoned
        /\ q.stale = r.stale /\ q.illegal = r.illegal /\ q.known = r.known
        /\ Framed(r, q)
    BY <1>1, <2>1 DEF Records, Framed
  <2>4. GenerationCoherent(q)
    BY <1>1, <2>3 DEF Loose, GenerationCoherent
  <2>5. ReceiptsCoherent(q)
    BY <1>1, <1>2, <1>3, <2>3 DEF Loose, ReceiptsCoherent
  <2>6. PendingCoherent(q) /\ RecoveryCoherent(q) /\ Wired(q)
    BY <1>1, <2>3 DEF Loose, Wired, PendingCoherent, RecoveryCoherent
  <2>7. Coherent(q)
    BY <1>1, <2>2, <2>3, <2>4, <2>5, <2>6 DEF Coherent, Loose
  <2>8. Rewaits(r, q)
    BY <2>3 DEF Rewaits
  <2>9. \A t \in Sides \ {s} : q.receipt[t] = r.receipt[t]
    BY <1>3, <2>3
  <2> QED BY <2>3, <2>7, <2>8, <2>9
<1>5. CASE ~(r.awaiting = {} \/ (r.generation # Absent /\ lag > r.generation))
  <2>1. /\ r.phase \in {"PENDING_INSTRUMENT", "AWAITING_FIRST_BOOK"}
        /\ r.phase \in WaitingPhases
        /\ r.abandoned = Absent
        /\ lag <= r.generation
    BY <1>1, <1>5, PhaseTypes DEF Loose, GenerationCoherent, Ages, Absent
  <2>2. q = IF credited.awaiting # {} THEN credited ELSE FinishGeneration(credited)
    BY <1>1, <1>5 DEF ObserveBook, receipt, age, dispatched, Records
  <2>3. credited \in Records
    BY <1>1, <1>3 DEF Records
  <2>4. /\ credited.receipt = receipt /\ credited.phase = r.phase
        /\ credited.pending = r.pending /\ credited.subscribed = r.subscribed
        /\ credited.awaiting = r.awaiting \ {s} /\ credited.generation = r.generation
        /\ credited.stalled = r.stalled /\ credited.recovering = r.recovering \ {s}
        /\ credited.dispatched = dispatched /\ credited.bilateral = r.bilateral
        /\ credited.everReady = r.everReady /\ credited.abandoned = r.abandoned
        /\ credited.stale = r.stale /\ credited.illegal = r.illegal
        /\ credited.known = r.known
        /\ Framed(r, credited)
    BY <1>1 DEF Records, Framed
  <2>5. RecoveryCoherent(credited)
    BY <1>1, <1>3, <2>4 DEF Loose, RecoveryCoherent
  <2> HIDE DEF credited
  <2>6. \A t \in Sides \ (r.awaiting \ {s}) : receipt[t] # Absent
    BY <1>1, <1>2, <1>3, <2>1, PhaseTypes DEF Loose, ReceiptsCoherent
  <2>7. CASE r.awaiting \ {s} # {}
    <3>1. q = credited
      BY <2>2, <2>4, <2>7
    <3>2. GenerationCoherent(q)
      BY <1>1, <1>5, <2>4, <2>7, <3>1 DEF Loose, GenerationCoherent
    <3>3. ReceiptsCoherent(q) /\ PendingCoherent(q) /\ Wired(q)
      BY <1>1, <2>4, <2>6, <3>1 DEF Loose, Wired, ReceiptsCoherent, PendingCoherent
    <3>4. Coherent(q)
      BY <1>1, <2>3, <2>4, <2>5, <3>1, <3>2, <3>3 DEF Coherent, Loose
    <3>5. Rewaits(r, q) \/ Credits(r, q)
      BY <1>2, <1>3, <2>1, <2>4, <3>1 DEF Rewaits, Credits
    <3>6. \A t \in Sides \ {s} : q.receipt[t] = r.receipt[t]
      BY <1>3, <2>4, <3>1
    <3>7. /\ q.phase = r.phase /\ Framed(r, q) /\ q.subscribed = r.subscribed
          /\ q.awaiting \subseteq r.awaiting /\ r.awaiting \ q.awaiting \subseteq {s}
          /\ q.generation = r.generation
      BY <2>4, <3>1
    <3> QED BY <3>4, <3>5, <3>6, <3>7
  <2>8. CASE r.awaiting \ {s} = {}
    <3>1. q = FinishGeneration(credited)
      BY <2>2, <2>4, <2>8
    <3>2. /\ q \in Records /\ Framed(credited, q)
          /\ q.phase = "READY" /\ q.awaiting = {} /\ q.generation = Absent
          /\ q.stalled = Absent /\ q.recovering = {} /\ q.dispatched = NoAges
          /\ q.bilateral /\ q.everReady /\ q.illegal = credited.illegal
          /\ q.receipt = credited.receipt /\ q.stale = credited.stale
          /\ q.pending = credited.pending /\ q.subscribed = credited.subscribed
      BY <2>1, <2>3, <2>4, <3>1, FinishFields
    <3>3. Framed(r, q) /\ q.abandoned = Absent /\ q.known
      BY <1>1, <2>1, <2>4, <3>2, PhaseTypes DEF Framed, Loose, PendingCoherent
    <3>4. GenerationCoherent(q)
      BY <3>2, <3>3, PhaseTypes DEF GenerationCoherent
    <3>5. ReceiptsCoherent(q) /\ PendingCoherent(q) /\ RecoveryCoherent(q) /\ Wired(q)
      BY <2>4, <2>6, <2>8, <3>2, <3>3, AgeTypes, PhaseTypes
      DEF Wired, ReceiptsCoherent, PendingCoherent, RecoveryCoherent
    <3>6. Coherent(q)
      BY <1>1, <2>4, <3>2, <3>4, <3>5 DEF Coherent, Loose
    <3>7. Credits(r, q)
      BY <1>1, <1>2, <1>3, <1>5, <2>1, <2>4, <2>8, <3>2 DEF Credits
    <3> QED BY <1>3, <2>1, <2>4, <2>8, <3>2, <3>3, <3>6, <3>7
  <2> QED BY <2>7, <2>8
<1> QED BY <1>4, <1>5

\* What crediting books for some sides does to a coherent record.
Observes(r, q, sides) ==
    /\ Coherent(q)
    /\ q.active = r.active /\ q.known = r.known /\ q.visible = r.visible
    /\ q.miss => r.miss
    /\ q.phase = r.phase \/ (q.phase = "READY" /\ r.phase \in WaitingPhases)
    /\ q.awaiting \subseteq r.awaiting /\ r.awaiting \ q.awaiting \subseteq sides
    /\ \A t \in r.awaiting \ q.awaiting : q.receipt[t] \in 0..r.generation
    /\ q.awaiting # {} => q.generation = r.generation
    /\ \A t \in Sides \ sides : q.receipt[t] = r.receipt[t]
    /\ SameOwner(r, q)

LEMMA ObserveBookObserves ==
    ASSUME NEW r, Coherent(r), NEW s \in Sides, NEW lag \in 0..MaxLag,
           NEW q, q = ObserveBook(r, s, lag)
    PROVE  Observes(r, q, {s})
<1>1. /\ Coherent(q)
      /\ Framed(r, q)
      /\ q.phase = r.phase \/ (q.phase = "READY" /\ r.phase \in WaitingPhases)
      /\ Rewaits(r, q) \/ Credits(r, q)
      /\ q.awaiting \subseteq r.awaiting /\ r.awaiting \ q.awaiting \subseteq {s}
      /\ q.awaiting # {} => q.generation = r.generation
      /\ \A t \in Sides \ {s} : q.receipt[t] = r.receipt[t]
      /\ q.subscribed = r.subscribed
  BY ObserveBookCoherent
<1>2. r.awaiting \subseteq Sides
  BY DEF Coherent, Loose, Records
<1>3. \A t \in r.awaiting \ q.awaiting : q.receipt[t] \in 0..r.generation
  BY <1>1, <1>2 DEF Rewaits, Credits
<1>4. SameOwner(r, q)
  BY <1>1, PhaseTypes DEF SameOwner
<1> QED BY <1>1, <1>3, <1>4 DEF Observes, Framed

LEMMA CreditCachedBookObserves ==
    ASSUME NEW r, Coherent(r), NEW s \in Sides, NEW lag \in 0..MaxLag,
           NEW q, q = CreditCachedBook(r, s, lag)
    PROVE  Observes(r, q, {s})
<1> DEFINE p == ObserveBook(r, s, lag)
<1>1. Observes(r, p, {s})
  BY ObserveBookObserves
<1>2. CASE s \notin r.awaiting \/ r.generation = Absent \/ lag > r.generation
  <2>1. q = r
    BY <1>2 DEF CreditCachedBook
  <2> QED BY <2>1 DEF Observes, SameOwner
<1>3. CASE ~(s \notin r.awaiting \/ r.generation = Absent \/ lag > r.generation)
  <2>1. q = IF p.awaiting = {} THEN NoteReady(p) ELSE p
    BY <1>3 DEF CreditCachedBook
  <2> HIDE DEF p
  <2>2. CASE p.awaiting = {}
    <3>1. q = NoteReady(p) /\ Coherent(p)
      BY <1>1, <2>1, <2>2 DEF Observes
    <3>2. /\ Coherent(q)
          /\ q.active = p.active /\ q.known = p.known /\ q.visible = p.visible
          /\ q.phase = p.phase /\ q.awaiting = p.awaiting
          /\ q.receipt = p.receipt /\ ~q.miss
          /\ SameOwner(p, q)
      BY <3>1, NoteReadyCoherent
    <3> QED BY <1>1, <2>2, <3>2, SameOwnerComposes DEF Observes
  <2>3. CASE p.awaiting # {}
    BY <1>1, <2>1, <2>3
  <2> QED BY <2>2, <2>3
<1> QED BY <1>2, <1>3

LEMMA ReconcileObserves ==
    ASSUME NEW r, Coherent(r), NEW cached, NEW lag \in 0..MaxLag,
           NEW q, q = ReconcileFromCache(r, cached, lag)
    PROVE  Observes(r, q, Sides)
<1> DEFINE p == IF "UP" \in cached THEN CreditCachedBook(r, "UP", lag) ELSE r
<1>1. Observes(r, p, {"UP"})
  <2>1. CASE "UP" \in cached
    BY <2>1, CreditCachedBookObserves DEF Sides
  <2>2. CASE "UP" \notin cached
    BY <2>2 DEF Observes, SameOwner
  <2> QED BY <2>1, <2>2
<1>2. q = IF "DOWN" \in cached THEN CreditCachedBook(p, "DOWN", lag) ELSE p
  BY DEF ReconcileFromCache
<1> HIDE DEF p
<1>3. Coherent(p)
  BY <1>1 DEF Observes
<1>4. Observes(p, q, {"DOWN"})
  <2>1. CASE "DOWN" \in cached
    BY <1>2, <1>3, <2>1, CreditCachedBookObserves DEF Sides
  <2>2. CASE "DOWN" \notin cached
    BY <1>2, <1>3, <2>2 DEF Observes, SameOwner
  <2> QED BY <2>1, <2>2
<1>5. r.awaiting \subseteq Sides
  BY DEF Coherent, Loose, Records
<1>6. \A t \in r.awaiting \ q.awaiting : q.receipt[t] \in 0..r.generation
  BY <1>1, <1>4, <1>5 DEF Observes, Sides
<1>7. q.phase = r.phase \/ (q.phase = "READY" /\ r.phase \in WaitingPhases)
  BY <1>1, <1>4 DEF Observes, WaitingPhases
<1>8. SameOwner(r, q)
  BY <1>1, <1>4, SameOwnerComposes DEF Observes
<1> QED BY <1>1, <1>4, <1>5, <1>6, <1>7, <1>8 DEF Observes
-----------------------------------------------------------------------------
\* Moves of the book feed.

FeedMoves(r, q) ==
    \/ Rewaits(r, q)
    \/ Credits(r, q)
    \/ q.phase \notin SubscribingPhases
    \/ r.phase = "READY" /\ q.awaiting # {}

LEMMA ObservesMoves ==
    ASSUME NEW r, Coherent(r), NEW q, NEW sides, Observes(r, q, sides)
    PROVE  FeedMoves(r, q)
<1>1. q.phase = "READY" /\ r.phase \in WaitingPhases => q.awaiting # r.awaiting
  BY PhaseTypes DEF Observes, Coherent, Loose, GenerationCoherent
<1> QED BY <1>1 DEF FeedMoves, Rewaits, Credits, Observes

\* The part of the record that the feed's moves are read from, and what it
\* owns, are unchanged.
SameFeed(r, q) ==
    /\ q.phase = r.phase /\ q.awaiting = r.awaiting /\ q.receipt = r.receipt
    /\ q.subscribed = r.subscribed

LEMMA MovesCompose ==
    ASSUME NEW r, NEW p, NEW q,
           \/ FeedMoves(r, p) /\ SameFeed(p, q)
           \/ SameFeed(r, p) /\ r.generation = p.generation /\ FeedMoves(p, q)
    PROVE  FeedMoves(r, q)
BY DEF FeedMoves, SameFeed, Rewaits, Credits
-----------------------------------------------------------------------------
\* Recovery.

LEMMA DispatchRecoveryCoherent ==
    ASSUME NEW r, Coherent(r), NEW targets \in SUBSET r.awaiting,
           NEW q, q = DispatchRecovery(r, targets)
    PROVE  /\ Coherent(q)
           /\ Framed(r, q)
           /\ SameFeed(r, q) /\ q.generation = r.generation
<1> DEFINE restore == [s \in Sides |-> IF s \in targets /\ RefreshDue(r, s)
                                        THEN 0 ELSE r.restore[s]]
           recovering == r.recovering \union targets
           dispatched == [s \in Sides |-> IF s \in targets THEN 0
                                          ELSE r.dispatched[s]]
<1>1. /\ r \in Records /\ Loose(r)
      /\ r.awaiting \in SUBSET Sides /\ r.recovering \in SUBSET r.awaiting
      /\ r.restore \in [Sides -> Ages(RestoreDelay)]
      /\ r.dispatched \in [Sides -> Ages(RetryAge - 1)]
  BY DEF Coherent, Loose, RecoveryCoherent, Records
<1>2. /\ restore \in [Sides -> Ages(RestoreDelay)]
      /\ recovering \in SUBSET Sides
      /\ dispatched \in [Sides -> Ages(RetryAge - 1)]
      /\ recovering \subseteq r.awaiting
      /\ \A s \in Sides : dispatched[s] # Absent => s \in recovering
  BY <1>1, AgeTypes DEF Loose, RecoveryCoherent
<1>3. q = [r EXCEPT !.restore = restore, !.recovering = recovering,
                    !.dispatched = dispatched]
  BY <1>1 DEF DispatchRecovery, Records
<1> HIDE DEF restore, recovering, dispatched
<1>4. q \in Records
  BY <1>1, <1>2, <1>3 DEF Records
<1>5. /\ q.phase = r.phase /\ q.pending = r.pending /\ q.awaiting = r.awaiting
      /\ q.subscribed = r.subscribed
      /\ q.generation = r.generation /\ q.stalled = r.stalled
      /\ q.receipt = r.receipt /\ q.recovering = recovering
      /\ q.dispatched = dispatched /\ q.bilateral = r.bilateral
      /\ q.everReady = r.everReady /\ q.abandoned = r.abandoned
      /\ q.stale = r.stale /\ q.illegal = r.illegal /\ q.known = r.known
      /\ Framed(r, q)
  BY <1>1, <1>3 DEF Records, Framed
<1>6. GenerationCoherent(q)
  BY <1>1, <1>5 DEF Loose, GenerationCoherent
<1>7. ReceiptsCoherent(q) /\ PendingCoherent(q) /\ Wired(q)
  BY <1>1, <1>5 DEF Loose, Coherent, Wired, ReceiptsCoherent, PendingCoherent
<1>8. RecoveryCoherent(q)
  BY <1>2, <1>5 DEF RecoveryCoherent
<1> QED BY <1>1, <1>4, <1>5, <1>6, <1>7, <1>8 DEF Coherent, Loose, SameFeed

LEMMA FlushRestoresCoherent ==
    ASSUME NEW r, Coherent(r), NEW q, q = FlushRestores(r)
    PROVE  /\ Coherent(q)
           /\ Framed(r, q)
           /\ SameFeed(r, q) /\ q.generation = r.generation
<1> DEFINE due == {s \in Sides : r.restore[s] = RestoreDelay}
           restore == [s \in Sides |-> IF s \in due THEN Absent ELSE r.restore[s]]
           refreshed == [s \in Sides |-> IF s \in due /\ r.known /\ ~Expired(r)
                                         THEN 0 ELSE r.refreshed[s]]
<1>1. /\ r \in Records /\ Loose(r)
      /\ r.restore \in [Sides -> Ages(RestoreDelay)]
      /\ r.refreshed \in [Sides -> Ages(RetryAge - 1)]
  BY DEF Coherent, Loose, Records
<1>2. /\ restore \in [Sides -> Ages(RestoreDelay)]
      /\ refreshed \in [Sides -> Ages(RetryAge - 1)]
  BY <1>1, AgeTypes
<1>3. q = [r EXCEPT !.restore = restore, !.refreshed = refreshed]
  BY <1>1 DEF FlushRestores, Records
<1> HIDE DEF restore, refreshed
<1>4. q \in Records
  BY <1>1, <1>2, <1>3 DEF Records
<1>5. SameLifecycle(r, q) /\ q.subscribed = r.subscribed /\ Framed(r, q)
  BY <1>1, <1>3 DEF Records, SameLifecycle, Framed
<1> QED BY <1>1, <1>4, <1>5, SameLifecycleCoherent DEF SameFeed, SameLifecycle

\* What abandoning or draining a stalled condition does to its record.
LEMMA RecoverStalledBookCoherent ==
    ASSUME NEW r, Coherent(r), r.active, NEW q, q = RecoverStalledBook(r)
    PROVE  /\ Coherent(q) /\ q.known = r.known /\ Quiet(q)
           /\ \/ q = r
              \/ /\ SameFeed(r, q) /\ q.awaiting # {} /\ q.generation = r.generation
                 /\ q.active
              \/ q.phase = "UNSUBSCRIBED" /\ ~q.active
<1>1. r.awaiting # {} <=> r.generation # Absent
  BY DEF Coherent, Loose, GenerationCoherent
<1>2. CASE q = r
  BY <1>2 DEF Quiet
<1>3. CASE q = AbandonCondition(r)
  BY <1>3, AbandonLeft DEF Left, Quiet
<1>4. CASE r.generation > StallAge /\ q = DispatchRecovery(r, RecoveryTargets(r))
  <2>1. RecoveryTargets(r) \in SUBSET r.awaiting
    BY DEF RecoveryTargets
  <2>2. r.awaiting # {}
    BY <1>1, <1>4, AgesAssumption DEF Absent
  <2>3. /\ Coherent(q) /\ Framed(r, q) /\ SameFeed(r, q)
        /\ q.generation = r.generation
    BY <1>4, <2>1, DispatchRecoveryCoherent
  <2> QED BY <2>2, <2>3 DEF Framed, SameFeed, Quiet
<1> QED BY <1>2, <1>3, <1>4 DEF RecoverStalledBook

\* Reopening a ready condition for the sides that went stale.
LEMMA ReopenForStaleSidesCoherent ==
    ASSUME NEW r, Coherent(r), r.phase = "READY", PendingInstruments(r) = {},
           NEW sides \in SUBSET Sides, sides # {},
           NEW q, q = ReopenForStaleSides(r, sides)
    PROVE  /\ Coherent(q)
           /\ Framed(r, q)
           /\ q.awaiting = sides /\ q.subscribed = r.subscribed
<1> DEFINE begun == BeginGeneration(r, sides)
           sent == DispatchRecovery(begun, RecoveryTargets(begun))
<1>1. /\ r \in Records /\ Loose(r)
      /\ r.known /\ r.pending = {} /\ r.abandoned = Absent
      /\ r.stalled = Absent
  BY PhaseTypes
  DEF Coherent, Loose, GenerationCoherent, PendingCoherent, PendingInstruments
<1>2. q = [sent EXCEPT !.stale = {}]
  BY DEF ReopenForStaleSides
<1>3. Loose(begun)
  BY <1>1, BeginCoherent
<1>4. /\ begun.pending = {} /\ begun.awaiting = sides /\ Framed(r, begun)
      /\ begun.subscribed = r.subscribed
  BY <1>1, BeginFields
<1> HIDE DEF begun
<1>5. Coherent(begun) /\ RecoveryTargets(begun) \in SUBSET begun.awaiting
  BY <1>3, <1>4 DEF Coherent, Wired, RecoveryTargets
<1>6. Coherent(sent) /\ Framed(begun, sent) /\ SameFeed(begun, sent)
  BY <1>5, DispatchRecoveryCoherent
<1> HIDE DEF sent
<1>7. sent \in Records /\ Loose(sent)
  BY <1>6 DEF Coherent, Loose
<1>8. q \in Records
  BY <1>2, <1>7 DEF Records
<1>9. /\ q.phase = sent.phase /\ q.pending = sent.pending /\ q.awaiting = sent.awaiting
      /\ q.subscribed = sent.subscribed
      /\ q.generation = sent.generation /\ q.stalled = sent.stalled
      /\ q.receipt = sent.receipt /\ q.recovering = sent.recovering
      /\ q.dispatched = sent.dispatched /\ q.bilateral = sent.bilateral
      /\ q.everReady = sent.everReady /\ q.abandoned = sent.abandoned
      /\ q.stale = {} /\ q.illegal = sent.illegal /\ q.known = sent.known
      /\ Framed(sent, q)
  BY <1>2, <1>7 DEF Records, Framed
<1>10. GenerationCoherent(q)
  BY <1>7, <1>9 DEF Loose, GenerationCoherent
<1>11. ReceiptsCoherent(q) /\ PendingCoherent(q) /\ RecoveryCoherent(q) /\ Wired(q)
  BY <1>6, <1>7, <1>9
  DEF Loose, Coherent, Wired, ReceiptsCoherent, PendingCoherent, RecoveryCoherent
<1> QED BY <1>4, <1>6, <1>7, <1>8, <1>9, <1>10, <1>11 DEF Coherent, Loose, SameFeed, Framed

\* The stall clock that RecoverStaleOrderbook starts is the one the new
\* generation starts.
LEMMA ClockStartsWithGeneration ==
    ASSUME NEW r, r \in Records, r.stalled = Absent, NEW sides
    PROVE  BeginGeneration([r EXCEPT !.stalled = 0], sides) = BeginGeneration(r, sides)
<1> DEFINE receipt == [s \in Sides |-> IF s \in sides THEN Absent ELSE r.receipt[s]]
           b == [r EXCEPT !.awaiting = sides, !.generation = 0,
                          !.recovering = {}, !.dispatched = NoAges,
                          !.receipt = receipt, !.stalled = 0, !.bilateral = FALSE]
<1>1. BeginGeneration(r, sides) = TransitionPhase(b, "AWAITING_FIRST_BOOK")
  BY DEF BeginGeneration, receipt, Records
<1>2. BeginGeneration([r EXCEPT !.stalled = 0], sides)
         = TransitionPhase(b, "AWAITING_FIRST_BOOK")
  BY AgeTypes DEF BeginGeneration, receipt, Records
<1> QED BY <1>1, <1>2

\* What a repair of a stale side does to the record of a condition.
Repairs(r, q) ==
    /\ Coherent(q)
    /\ Framed(r, q)
    /\ q = r \/ (r.phase = "READY" /\ r.awaiting = {} /\ q.awaiting # {})
    /\ q.subscribed = r.subscribed

LEMMA RecoverStaleOrderbookRepairs ==
    ASSUME NEW r, Coherent(r), NEW q, q = RecoverStaleOrderbook(r)
    PROVE  Repairs(r, q)
<1> DEFINE clock == [r EXCEPT !.stalled = IF @ = Absent THEN 0 ELSE @]
           due == r.awaiting = {} /\ r.stale # {} /\ PendingInstruments(r) = {}
<1>1. CASE ~(~Suppressed(r) /\ due)
  BY <1>1 DEF RecoverStaleOrderbook, Repairs, Framed
<1>2. CASE ~Suppressed(r) /\ due
  <2>1. /\ r \in Records /\ r.stalled = Absent /\ r.phase = "READY"
        /\ r.stale \in SUBSET Sides
    BY <1>2, PhaseTypes DEF Coherent, Loose, GenerationCoherent, Records
  <2>2. q = ReopenForStaleSides(clock, r.stale)
    BY <1>2 DEF RecoverStaleOrderbook
  <2>3. clock = [r EXCEPT !.stalled = 0]
    BY <2>1 DEF Records
  <2>4. q = ReopenForStaleSides(r, r.stale)
    BY <2>1, <2>2, <2>3, ClockStartsWithGeneration DEF ReopenForStaleSides
  <2>5. /\ Coherent(q) /\ Framed(r, q) /\ q.awaiting = r.stale
        /\ q.subscribed = r.subscribed
    BY <1>2, <2>1, <2>4, ReopenForStaleSidesCoherent
  <2> QED BY <1>2, <2>1, <2>5 DEF Repairs
<1> QED BY <1>1, <1>2

LEMMA RecoverStaleReceiptRepairs ==
    ASSUME NEW r, Coherent(r), NEW q, q = RecoverStaleReceipt(r)
    PROVE  Repairs(r, q)
<1> DEFINE sides == StaleReceiptSides(r)
<1>1. CASE ~(~Suppressed(r) /\ sides # {})
  BY <1>1 DEF RecoverStaleReceipt, Repairs, Framed
<1>2. CASE ~Suppressed(r) /\ sides # {}
  <2>1. /\ r.everReady /\ PendingInstruments(r) = {} /\ r.awaiting = {}
        /\ sides \in SUBSET Sides
    BY <1>2 DEF StaleReceiptSides
  <2> HIDE DEF sides
  <2>2. r.phase = "READY"
    BY <2>1, PhaseTypes DEF Coherent, Loose, GenerationCoherent
  <2>3. q = ReopenForStaleSides(r, sides)
    BY <1>2 DEF RecoverStaleReceipt, sides
  <2>4. /\ Coherent(q) /\ Framed(r, q) /\ q.awaiting = sides
        /\ q.subscribed = r.subscribed
    BY <1>2, <2>1, <2>2, <2>3, ReopenForStaleSidesCoherent
  <2> QED BY <1>2, <2>1, <2>2, <2>4 DEF Repairs
<1> QED BY <1>1, <1>2

LEMMA RecoverBookSubscriptionCoherent ==
    ASSUME NEW r, Coherent(r), r.active, Settled(r),
           NEW q, q = RecoverBookSubscription(r)
    PROVE  /\ Coherent(q) /\ Quiet(q) /\ Settled(q) /\ FeedMoves(r, q)
           /\ Owned(r) => Owned(q)
<1> DEFINE p1 == RecoverStalledBook(r)
           p2 == RecoverStaleOrderbook(p1)
<1>1. /\ Coherent(p1) /\ p1.known = r.known /\ Quiet(p1)
      /\ \/ p1 = r
         \/ /\ SameFeed(r, p1) /\ p1.awaiting # {} /\ p1.generation = r.generation
            /\ p1.active
         \/ p1.phase = "UNSUBSCRIBED" /\ ~p1.active
  BY RecoverStalledBookCoherent
<1>2. q = RecoverStaleReceipt(p2)
  BY DEF RecoverBookSubscription
<1> HIDE DEF p1
<1>3. Repairs(p1, p2)
  BY <1>1, RecoverStaleOrderbookRepairs
<1> HIDE DEF p2
<1>4. Repairs(p2, q)
  BY <1>2, <1>3, RecoverStaleReceiptRepairs DEF Repairs
<1>5. q = p1 \/ (p1.phase = "READY" /\ p1.awaiting = {} /\ q.awaiting # {})
  BY <1>3, <1>4 DEF Repairs
<1>6. /\ Coherent(q) /\ q.active = p1.active /\ q.known = p1.known /\ q.miss = p1.miss
      /\ q.subscribed = p1.subscribed
  BY <1>3, <1>4 DEF Repairs, Framed
<1>7. q.awaiting # {} => q.phase \in SubscribingPhases
  BY <1>6, PhaseTypes DEF Coherent, Loose, GenerationCoherent
<1>8. CASE q = p1
  <2>1. FeedMoves(r, q)
    BY <1>1, <1>8, PhaseTypes DEF FeedMoves, Rewaits, SameFeed
  <2>2. Settled(q)
    BY <1>1, <1>8 DEF SameFeed, Settled
  <2>3. Owned(r) => Owned(q)
    BY <1>1, <1>8, PhaseTypes DEF SameFeed, Owned
  <2> QED BY <1>1, <1>8, <2>1, <2>2, <2>3
<1>9. CASE p1.phase = "READY" /\ p1.awaiting = {} /\ q.awaiting # {}
  <2>1. p1 = r
    BY <1>1, <1>9
  <2> QED BY <1>6, <1>7, <1>9, <2>1, PhaseTypes DEF FeedMoves, Quiet, Settled, Owned
<1> QED BY <1>5, <1>8, <1>9
-----------------------------------------------------------------------------
\* Evaluation.

LEMMA MarkUnreadyCoherent ==
    ASSUME NEW r, Coherent(r), NEW view \in Views,
           view.stale = {} \/ r.phase \in SubscribingPhases,
           NEW q, q = MarkUnready(r, view)
    PROVE  /\ Coherent(q) /\ SameFeed(r, q)
           /\ q.active = r.active /\ q.known = r.known
<1>1. r \in Records /\ Loose(r) /\ view.stale \in SUBSET Sides
  BY DEF Coherent, Loose, Views
<1>2. q \in Records
  BY <1>1 DEF MarkUnready, Records
<1>3. /\ q.phase = r.phase /\ q.pending = r.pending /\ q.awaiting = r.awaiting
      /\ q.subscribed = r.subscribed
      /\ q.generation = r.generation /\ q.stalled = r.stalled
      /\ q.receipt = r.receipt /\ q.recovering = r.recovering
      /\ q.dispatched = r.dispatched /\ q.bilateral = r.bilateral
      /\ q.everReady = r.everReady /\ q.abandoned = r.abandoned
      /\ q.stale = view.stale /\ q.illegal = r.illegal
      /\ q.active = r.active /\ q.known = r.known
  BY <1>1 DEF MarkUnready, Records
<1>4. GenerationCoherent(q)
  BY <1>1, <1>3 DEF Loose, GenerationCoherent
<1>5. ReceiptsCoherent(q) /\ PendingCoherent(q) /\ RecoveryCoherent(q) /\ Wired(q)
  BY <1>1, <1>3
  DEF Loose, Coherent, Wired, ReceiptsCoherent, PendingCoherent, RecoveryCoherent
<1> QED BY <1>1, <1>2, <1>3, <1>4, <1>5 DEF Coherent, Loose, SameFeed

\* Evaluating a condition leaves its feed alone or takes it out.
Evaluates(r, q) ==
    /\ Coherent(q)
    /\ q.known = r.known
    /\ Quiet(r) => Quiet(q)
    /\ SameFeed(r, q) \/ q.phase = "UNSUBSCRIBED"

LEMMA NoteReadyEvaluates ==
    ASSUME NEW r, Coherent(r), NEW q, q = r \/ q = NoteReady(r)
    PROVE  Evaluates(r, q)
<1>1. CASE q = r
  BY <1>1 DEF Evaluates, SameFeed
<1>2. CASE q = NoteReady(r)
  BY <1>2, NoteReadyCoherent DEF Evaluates, SameFeed, SameOwner, Quiet
<1> QED BY <1>1, <1>2

LEMMA EvaluateConditionEvaluates ==
    ASSUME NEW r, Coherent(r), NEW view \in Views,
           NEW q, q = EvaluateCondition(r, view)
    PROVE  Evaluates(r, q)
<1>1. CASE ~r.active
  BY <1>1, NoteReadyEvaluates DEF EvaluateCondition
<1>2. CASE r.active /\ Expired(r)
  <2>1. q = LeaveActive(r)
    BY <1>2 DEF EvaluateCondition
  <2> QED BY <2>1, LeaveActiveLeft DEF Left, Evaluates, Quiet
<1>3. CASE r.active /\ ~Expired(r) /\ Upcoming(r)
  BY <1>3, NoteReadyEvaluates DEF EvaluateCondition, SkipPreloaded
<1>4. CASE r.active /\ ~Expired(r) /\ ~Upcoming(r) /\ r.phase # "READY"
  <2>1. q = MarkUnready(r, MissingView)
    BY <1>4 DEF EvaluateCondition
  <2>2. MissingView \in Views /\ MissingView.stale = {}
    BY DEF Views, MissingView
  <2>3. /\ Coherent(q) /\ SameFeed(r, q)
        /\ q.active = r.active /\ q.known = r.known
    BY <2>1, <2>2, MarkUnreadyCoherent
  <2> QED BY <1>4, <2>3 DEF Evaluates, Quiet
<1>5. CASE r.active /\ ~Expired(r) /\ ~Upcoming(r) /\ r.phase = "READY"
  <2>1. q = EvaluateView(r, view)
    BY <1>5 DEF EvaluateCondition
  <2>2. CASE view.kind = "tradable"
    BY <2>1, <2>2, NoteReadyEvaluates DEF EvaluateView
  <2>3. CASE view.kind # "tradable"
    <3>1. q = MarkUnready(r, view)
      BY <2>1, <2>3 DEF EvaluateView
    <3>2. /\ Coherent(q) /\ SameFeed(r, q)
          /\ q.active = r.active /\ q.known = r.known
      <4>1. r.phase \in SubscribingPhases
        BY <1>5, PhaseTypes
      <4> QED BY <3>1, <4>1, MarkUnreadyCoherent
    <3> QED BY <1>5, <3>2 DEF Evaluates, Quiet
  <2> QED BY <2>2, <2>3
<1> QED BY <1>1, <1>2, <1>3, <1>4, <1>5

LEMMA BookEventCoherent ==
    ASSUME NEW r, Coherent(r), r.active, Settled(r), NEW s \in Sides,
           NEW lag \in 0..MaxLag, NEW evaluated, NEW view \in Views,
           NEW q, q = BookEvent(r, s, lag, evaluated, view)
    PROVE  /\ Coherent(q) /\ Quiet(q) /\ Settled(q) /\ FeedMoves(r, q)
           /\ Owned(r) => Owned(q)
<1> DEFINE p == ObserveBook(r, s, lag)
<1>1. Observes(r, p, {s})
  BY ObserveBookObserves
<1>2. Coherent(p) /\ p.active /\ p.known = r.known
  BY <1>1 DEF Observes
<1>3. Quiet(p) /\ Settled(p) /\ FeedMoves(r, p)
  BY <1>1, <1>2, ObservesMoves, PhaseTypes DEF Observes, Quiet, Settled
<1>4. Owned(r) => Owned(p)
  BY <1>1, SameOwnerOwned DEF Observes
<1>5. \/ q = p
      \/ q = NoteReady(p)
      \/ q = [p EXCEPT !.miss = TRUE]
      \/ q = EvaluateCondition(p, view)
  BY DEF BookEvent, SkipPreloaded
<1> HIDE DEF p
<1>6. CASE q = [p EXCEPT !.miss = TRUE]
  <2>1. p \in Records /\ Loose(p)
    BY <1>2 DEF Coherent, Loose
  <2>2. q \in Records
    BY <1>6, <2>1 DEF Records
  <2>3. /\ SameLifecycle(p, q) /\ q.subscribed = p.subscribed
        /\ q.active = p.active /\ q.known = p.known
    BY <1>6, <2>1 DEF Records, SameLifecycle
  <2>4. Coherent(q)
    BY <1>2, <2>1, <2>2, <2>3, SameLifecycleCoherent
  <2>5. SameFeed(p, q)
    BY <2>3 DEF SameLifecycle, SameFeed
  <2>6. Owned(p) => Owned(q)
    BY <2>5 DEF SameFeed, Owned
  <2> QED BY <1>2, <1>3, <1>4, <2>3, <2>4, <2>5, <2>6, MovesCompose
          DEF Quiet, Settled, SameFeed
<1>7. CASE q # [p EXCEPT !.miss = TRUE]
  <2>1. Evaluates(p, q)
    BY <1>2, <1>5, <1>7, NoteReadyEvaluates, EvaluateConditionEvaluates
  <2>2. FeedMoves(r, q)
    BY <1>3, <2>1, MovesCompose, PhaseTypes DEF Evaluates, FeedMoves
  <2>3. Owned(p) => Owned(q)
    BY <2>1, PhaseTypes DEF Evaluates, SameFeed, Owned
  <2> QED BY <1>3, <1>4, <2>1, <2>2, <2>3 DEF Evaluates, SameFeed, Settled
<1> QED BY <1>6, <1>7

------------------------------------------------------------------------------
(***************************************************************************)
(* What the callbacks do to the records of the strategy.                   *)
(***************************************************************************)

Sound(r) == Coherent(r) /\ Quiet(r) /\ Settled(r)

\* The instruments that the engine does not refuse stay owned.
Retains(r, q) == Owned(r) => Owned(q)

\* A callback moved a record to a sound one.
Advances(r, q) == Sound(q) /\ FeedMoves(r, q) /\ Retains(r, q)

LEMMA AllAccepted ==
    ASSUME NEW accepted \in Accepted
    PROVE  Unrefused \subseteq accepted
BY DEF Accepted, Unrefused

\* A record that changed only outside the lifecycle.
LEMMA SameLifecycleAdvances ==
    ASSUME NEW r, Sound(r), NEW q, q \in Records, SameLifecycle(r, q),
           q.subscribed = r.subscribed, q.active = r.active, q.miss = r.miss,
           q.known = r.known
    PROVE  Advances(r, q)
<1>1. Coherent(q) /\ Rewaits(r, q)
  BY SameLifecycleCoherent DEF Sound, Coherent
<1> QED BY <1>1 DEF Sound, Advances, Quiet, Settled, SameLifecycle, FeedMoves,
                    Retains, Owned

WithMembership(r, active, known) ==
    [r EXCEPT !.active = active, !.known = known]

\* A condition that is set active or inactive, or whose metadata arrives,
\* keeps a coherent record.
LEMMA MembershipCoherent ==
    ASSUME NEW r, Coherent(r), NEW active \in BOOLEAN, NEW known \in BOOLEAN,
           r.known => known,
           NEW q, q = WithMembership(r, active, known)
    PROVE  /\ Coherent(q) /\ Rewaits(r, q)
           /\ q.active = active /\ q.known = known /\ q.phase = r.phase
           /\ q.miss = r.miss /\ q.awaiting = r.awaiting /\ q.receipt = r.receipt
           /\ q.generation = r.generation /\ q.abandoned = r.abandoned
           /\ q.subscribed = r.subscribed
<1>1. r \in Records /\ Loose(r)
  BY DEF Coherent, Loose
<1>2. q \in Records
  BY <1>1 DEF Records, WithMembership
<1>3. /\ SameLifecycle(r, q) /\ q.subscribed = r.subscribed
      /\ q.active = active /\ q.known = known /\ q.miss = r.miss
  BY <1>1 DEF Records, WithMembership, SameLifecycle
<1> QED BY <1>1, <1>2, <1>3, SameLifecycleCoherent DEF SameLifecycle
-----------------------------------------------------------------------------
\* What each callback does to one record.

LEMMA StartConditionAdvances ==
    ASSUME NEW r, Sound(r), r.phase = "UNSUBSCRIBED", ~r.miss,
           NEW startup, NEW accepted \in Accepted,
           NEW q, q = StartCondition(r, startup, accepted)
    PROVE  Advances(r, q)
<1>1. CASE startup /\ ~Expired(r)
  <2>1. q = SubscribeCondition(r, accepted)
    BY <1>1 DEF StartCondition
  <2>2. /\ Coherent(q) /\ Framed(r, q) /\ (~r.active => q = r) /\ Settled(q)
        /\ Rewaits(r, q) /\ (Unrefused \subseteq accepted /\ Owned(r) => Owned(q))
    BY <2>1, SubscribeConditionCoherent DEF Sound
  <2> QED BY <2>2, AllAccepted DEF Sound, Advances, FeedMoves, Quiet, Framed, Retains
<1>2. CASE ~(startup /\ ~Expired(r))
  <2>1. r \in Records
    BY DEF Sound, Coherent, Loose
  <2>2. PICK off, known \in BOOLEAN : off = FALSE /\ known = r.known
    BY <2>1 DEF Records
  <2>3. q = WithMembership(r, off, known)
    BY <1>2, <2>1, <2>2 DEF StartCondition, Records, WithMembership
  <2>4. /\ Coherent(q) /\ Rewaits(r, q) /\ q.active = off /\ q.known = known
        /\ q.phase = r.phase /\ q.miss = r.miss /\ q.subscribed = r.subscribed
    BY <2>2, <2>3, MembershipCoherent DEF Sound
  <2> QED BY <2>4 DEF Sound, Advances, FeedMoves, Quiet, Settled, Retains, Owned
<1> QED BY <1>1, <1>2

LEMMA StopConditionAdvances ==
    ASSUME NEW r, Sound(r), NEW q, q = StopCondition(r)
    PROVE  Advances(r, q) /\ q.phase = "UNSUBSCRIBED" /\ ~q.miss
<1> DEFINE dropped == UnsubscribeInstruments(r)
           tracked == r.active \/ r.phase # "UNSUBSCRIBED"
           p == IF tracked THEN ClearLifecycle(dropped, TRUE, FALSE) ELSE r
           restore == [s \in Sides |-> IF s \in p.subscribed THEN Absent
                                       ELSE p.restore[s]]
<1>1. r \in Records /\ Loose(r) /\ ~r.illegal /\ (~r.known => r.pending = {})
  BY DEF Sound, Coherent, Loose, PendingCoherent
<1>2. dropped \in Records /\ SameLifecycle(r, dropped) /\ Framed(r, dropped)
  BY <1>1, UnsubscribeFields
<1> HIDE DEF dropped
<1>3. Coherent(p) /\ p.phase = "UNSUBSCRIBED" /\ ~p.miss
  <2>1. CASE tracked
    <3>1. PICK yes, no \in BOOLEAN : yes = TRUE /\ no = FALSE
      OBVIOUS
    <3>2. p = ClearLifecycle(dropped, yes, no)
      BY <2>1, <3>1
    <3>3. ~dropped.illegal /\ (~dropped.known => dropped.pending = {})
      BY <1>1, <1>2 DEF SameLifecycle, Framed
    <3> HIDE DEF p
    <3> QED BY <1>2, <3>2, <3>3, ClearLifecycleCoherent
  <2>2. CASE ~tracked
    BY <2>2 DEF Sound, Quiet
  <2> QED BY <2>1, <2>2
<1>4. q = [p EXCEPT !.restore = restore, !.subscribed = {}, !.pending = {}]
  BY DEF StopCondition, dropped
<1> HIDE DEF p
<1>5. p \in Records /\ Loose(p) /\ p.pending = {}
  BY <1>3, PhaseTypes DEF Coherent, Loose, PendingCoherent
<1>6. restore \in [Sides -> Ages(RestoreDelay)]
  BY <1>5, AgeTypes DEF Records
<1> HIDE DEF restore
<1>7. q \in Records
  BY <1>4, <1>5, <1>6 DEF Records
<1>8. SameLifecycle(p, q) /\ q.miss = p.miss
  BY <1>4, <1>5 DEF Records, SameLifecycle
<1>9. Loose(q) /\ q.phase = "UNSUBSCRIBED" /\ ~q.miss
  BY <1>3, <1>5, <1>7, <1>8, SameLifecycleCoherent DEF SameLifecycle
<1> QED BY <1>9, PhaseTypes
        DEF Advances, Sound, Coherent, Wired, Quiet, Settled, FeedMoves, Retains, Owned

LEMMA UniverseConditionAdvances ==
    ASSUME NEW r, Sound(r), NEW listed \in BOOLEAN, NEW exited \in BOOLEAN,
           NEW accepted \in Accepted,
           NEW q, q = UniverseCondition(r, listed, exited, accepted)
    PROVE  Advances(r, q)
<1> DEFINE entered == [r EXCEPT !.active = listed]
           gone == r.active /\ (exited \/ ~listed)
           left == [LeaveActive(r) EXCEPT !.active = listed]
           p == IF gone THEN left ELSE entered
<1>1. r \in Records /\ r.known \in BOOLEAN
  BY DEF Sound, Coherent, Loose, Records
<1>2. q = SubscribeCondition(p, accepted)
  BY DEF UniverseCondition
<1>3. /\ Sound(p) /\ (p.phase \notin SubscribingPhases \/ Rewaits(r, p))
      /\ Owned(r) => Owned(p)
  <2>1. CASE gone
    <3> DEFINE away == LeaveActive(r)
    <3>1. Left(away) /\ away.known = r.known
      BY LeaveActiveLeft DEF Sound
    <3>2. p = [away EXCEPT !.active = listed]
      BY <2>1
    <3> HIDE DEF away, p
    <3>3. away \in Records
      BY <3>1 DEF Left, Coherent, Loose
    <3>4. p = WithMembership(away, listed, r.known)
      BY <3>1, <3>2, <3>3 DEF Records, WithMembership
    <3>5. Coherent(p) /\ p.phase = away.phase /\ p.miss = away.miss
      BY <1>1, <3>1, <3>4, MembershipCoherent DEF Left
    <3> QED BY <3>1, <3>5, PhaseTypes DEF Left, Sound, Quiet, Settled, Owned
  <2>2. CASE ~gone
    <3>1. p = WithMembership(r, listed, r.known)
      BY <1>1, <2>2 DEF Records, WithMembership
    <3> HIDE DEF p
    <3>2. /\ Coherent(p) /\ Rewaits(r, p) /\ p.active = listed
          /\ p.known = r.known /\ p.phase = r.phase /\ p.miss = r.miss
          /\ p.subscribed = r.subscribed
      BY <1>1, <3>1, MembershipCoherent DEF Sound
    <3> QED BY <2>2, <3>2 DEF Sound, Quiet, Settled, Owned
  <2> QED BY <2>1, <2>2
<1> HIDE DEF p
<1>4. /\ Coherent(q) /\ Framed(p, q) /\ (~p.active => q = p) /\ Settled(q)
      /\ Rewaits(p, q) /\ (Unrefused \subseteq accepted /\ Owned(p) => Owned(q))
  BY <1>2, <1>3, SubscribeConditionCoherent DEF Sound
<1>5. FeedMoves(r, q)
  <2>1. p.phase \notin SubscribingPhases => p.awaiting = {} /\ p.phase # "READY"
    BY <1>3, PhaseTypes DEF Sound, Coherent, Loose, GenerationCoherent
  <2>2. q.awaiting = {} /\ q.phase # "READY" => q.phase \notin SubscribingPhases
    BY <1>4, PhaseTypes DEF Coherent, Loose, GenerationCoherent
  <2> QED BY <1>3, <1>4, <2>1, <2>2 DEF Rewaits, FeedMoves
<1> QED BY <1>3, <1>4, <1>5, AllAccepted DEF Advances, Sound, Quiet, Framed, Retains

LEMMA MetadataAdvances ==
    ASSUME NEW r, Sound(r), NEW accepted \in Accepted,
           NEW q, q = SubscribeCondition([r EXCEPT !.known = TRUE], accepted)
    PROVE  Advances(r, q)
<1> DEFINE p == [r EXCEPT !.known = TRUE]
<1>1. r \in Records
  BY DEF Sound, Coherent, Loose
<1>2. PICK active, known \in BOOLEAN : active = r.active /\ known /\ known = TRUE
  BY <1>1 DEF Records
<1>3. p = WithMembership(r, active, known)
  BY <1>1, <1>2 DEF Records, WithMembership
<1> HIDE DEF p
<1>4. /\ Coherent(p) /\ Rewaits(r, p) /\ p.active = r.active
      /\ p.phase = r.phase /\ p.miss = r.miss /\ p.subscribed = r.subscribed
  <2>1. Coherent(r) /\ (r.known => known)
    BY <1>2 DEF Sound
  <2>2. /\ Coherent(p) /\ Rewaits(r, p) /\ p.active = active
        /\ p.phase = r.phase /\ p.miss = r.miss /\ p.subscribed = r.subscribed
    BY <1>3, <2>1, MembershipCoherent
  <2> QED BY <1>2, <2>2
<1>5. p.active \/ Settled(p)
  BY <1>4 DEF Sound, Quiet, Settled
<1>6. q = SubscribeCondition(p, accepted)
  BY DEF p
<1>7. /\ Coherent(q) /\ Framed(p, q) /\ (~p.active => q = p) /\ Settled(q)
      /\ Rewaits(p, q) /\ (Unrefused \subseteq accepted /\ Owned(p) => Owned(q))
  BY <1>4, <1>5, <1>6, SubscribeConditionCoherent
<1>8. Quiet(q) /\ Rewaits(r, q)
  BY <1>4, <1>7 DEF Sound, Quiet, Framed, Rewaits
<1>9. Retains(r, q)
  BY <1>4, <1>7, AllAccepted DEF Retains, Owned
<1> QED BY <1>7, <1>8, <1>9 DEF Advances, Sound, FeedMoves

LEMMA RetireIfExpiredAdvances ==
    ASSUME NEW r, Sound(r), NEW q, q = RetireIfExpired(r)
    PROVE  Advances(r, q) /\ (q = r \/ q.phase = "UNSUBSCRIBED")
<1>1. CASE r.active /\ Expired(r)
  <2>1. q = LeaveActive(r)
    BY <1>1 DEF RetireIfExpired
  <2> QED BY <2>1, LeaveActiveLeft, PhaseTypes
          DEF Left, Sound, Advances, Quiet, Settled, FeedMoves, Retains, Owned
<1>2. CASE ~(r.active /\ Expired(r))
  BY <1>2 DEF RetireIfExpired, Advances, FeedMoves, Rewaits, Retains
<1> QED BY <1>1, <1>2

\* A discovered condition that was already active is settled by the restore
\* stage that follows.
LEMMA DiscoverConditionAdvances ==
    ASSUME NEW r, Sound(r), NEW accepted \in Accepted,
           NEW q, q = DiscoverCondition(r, accepted)
    PROVE  /\ Coherent(q) /\ Quiet(q) /\ Rewaits(r, q) /\ Retains(r, q)
           /\ r.active => q.active
           /\ r.active \/ Settled(q)
<1> DEFINE found == [r EXCEPT !.known = TRUE]
<1>1. r \in Records
  BY DEF Sound, Coherent, Loose
<1>2. PICK active, yes \in BOOLEAN : active = r.active /\ yes /\ yes = TRUE
  BY <1>1 DEF Records
<1>3. found = WithMembership(r, active, yes)
  BY <1>1, <1>2 DEF Records, WithMembership
<1>4. q = IF Suppressed(found) \/ found.active THEN found
          ELSE SubscribeCondition([found EXCEPT !.active = TRUE], accepted)
  BY DEF DiscoverCondition
<1> HIDE DEF found
<1>5. /\ Coherent(found) /\ Rewaits(r, found) /\ found.active = r.active
      /\ found.known = yes
      /\ found.phase = r.phase /\ found.miss = r.miss
      /\ found.awaiting = r.awaiting /\ found.subscribed = r.subscribed
  <2>1. Coherent(r) /\ (r.known => yes)
    BY <1>2 DEF Sound
  <2>2. /\ Coherent(found) /\ Rewaits(r, found) /\ found.active = active
        /\ found.known = yes
        /\ found.phase = r.phase /\ found.miss = r.miss
        /\ found.awaiting = r.awaiting /\ found.subscribed = r.subscribed
    BY <1>3, <2>1, MembershipCoherent
  <2> QED BY <1>2, <2>2
<1>6. found \in Records /\ Quiet(found) /\ (r.active \/ Settled(found))
  BY <1>5 DEF Sound, Quiet, Settled, Coherent, Loose
<1>7. CASE Suppressed(found) \/ found.active
  BY <1>4, <1>5, <1>6, <1>7 DEF Retains, Owned
<1>8. CASE ~(Suppressed(found) \/ found.active)
  <2> DEFINE p == [found EXCEPT !.active = TRUE]
  <2>1. p = WithMembership(found, yes, yes)
    BY <1>2, <1>5, <1>6 DEF Records, WithMembership
  <2>2. q = SubscribeCondition(p, accepted)
    BY <1>4, <1>8
  <2> HIDE DEF p
  <2>3. /\ Coherent(p) /\ p.active = yes /\ p.phase = found.phase
        /\ p.awaiting = found.awaiting /\ p.subscribed = found.subscribed
    BY <1>5, <2>1, MembershipCoherent
  <2>4. /\ Coherent(q) /\ Framed(p, q) /\ Settled(q) /\ Rewaits(p, q)
        /\ Unrefused \subseteq accepted /\ Owned(p) => Owned(q)
    BY <1>2, <2>2, <2>3, SubscribeConditionCoherent
  <2>5. Retains(r, q)
    BY <1>5, <2>3, <2>4, AllAccepted DEF Retains, Owned
  <2> QED BY <1>2, <1>5, <2>3, <2>4, <2>5 DEF Quiet, Framed, Rewaits
<1> QED BY <1>7, <1>8
-----------------------------------------------------------------------------
(***************************************************************************)
(* The inductive invariant.  Beyond the coherence of each record it says   *)
(* what one callback relies on from another: a condition that discovery    *)
(* makes known is settled by the restore stage of the same heartbeat, and  *)
(* on_stop leaves nothing for the next on_start.                           *)
(***************************************************************************)
IndInv ==
    /\ TypeOK
    /\ \A c \in Conditions : Coherent(record[c]) /\ Quiet(record[c])
    /\ \A c \in Conditions : Settled(record[c]) \/ (stage = "restore" /\ c \in beat)
    /\ ~running => /\ stage = "idle"
                   /\ \A c \in Conditions :
                         record[c].phase = "UNSUBSCRIBED" /\ ~record[c].miss

Moves ==
    \A c \in Conditions : /\ FeedMoves(record[c], record'[c])
                          /\ Retains(record[c], record'[c])

LEMMA IdleSound ==
    ASSUME IndInv, stage # "restore"
    PROVE  \A c \in Conditions : Sound(record[c])
BY DEF IndInv, Sound

\* Init establishes the invariant.
LEMMA InitInv == Init => IndInv
<1> SUFFICES ASSUME Init PROVE IndInv
  OBVIOUS
<1>1. ASSUME NEW r \in InitialRecords
      PROVE  /\ Coherent(r) /\ Quiet(r) /\ Settled(r)
             /\ r.phase = "UNSUBSCRIBED" /\ ~r.miss
  <2>1. /\ r.phase = "UNSUBSCRIBED" /\ r.pending = {} /\ r.awaiting = {}
        /\ r.generation = Absent /\ r.stalled = Absent /\ r.recovering = {}
        /\ r.dispatched = NoAges /\ r.bilateral = FALSE /\ r.everReady = FALSE
        /\ r.abandoned = Absent /\ r.miss = FALSE /\ r.stale = {}
        /\ r.illegal = FALSE
    BY <1>1 DEF InitialRecords
  <2>2. r \in Records
    BY <1>1, AgeTypes DEF InitialRecords, Records, Phases
  <2>3. GenerationCoherent(r)
    BY <2>1, PhaseTypes DEF GenerationCoherent
  <2>4. ReceiptsCoherent(r) /\ PendingCoherent(r) /\ RecoveryCoherent(r) /\ Wired(r)
    BY <2>1, AgeTypes, PhaseTypes
    DEF ReceiptsCoherent, PendingCoherent, RecoveryCoherent, Wired
  <2> QED BY <2>1, <2>2, <2>3, <2>4 DEF Coherent, Loose, Quiet, Settled
<1>2. record \in [Conditions -> Records]
  BY <1>1 DEF Init, Coherent, Loose
<1>3. TypeOK
  <2>1. epoch \in 0..MaxEpoch /\ stage \in Stages /\ stage = "idle"
    BY ConditionsAssumption DEF Init, Stages
  <2>2. running \in BOOLEAN /\ beat \in SUBSET Conditions
    BY DEF Init
  <2> QED BY <1>2, <2>1, <2>2 DEF TypeOK
<1>4. \A c \in Conditions : record[c] \in InitialRecords
  BY DEF Init
<1> QED BY <1>1, <1>3, <1>4 DEF IndInv, Init

\* A callback that moves one record.
LEMMA UpdateStep ==
    ASSUME IndInv, stage = "idle", NEW c \in Conditions, NEW q,
           Advances(record[c], q), Update(c, q),
           UNCHANGED <<running, epoch, stage, beat>>,
           running \/ (q.phase = record[c].phase /\ q.miss = record[c].miss)
    PROVE  IndInv' /\ Moves
<1>1. \A d \in Conditions : record'[d] = IF d = c THEN q ELSE record[d]
  BY DEF IndInv, TypeOK, Update
<1>2. q \in Records
  BY DEF Advances, Sound, Coherent, Loose
<1>3. record' \in [Conditions -> Records]
  BY <1>2 DEF IndInv, TypeOK, Update
<1>4. TypeOK'
  BY <1>3 DEF IndInv, TypeOK
<1>5. \A d \in Conditions : Advances(record[d], record'[d])
  BY <1>1, IdleSound DEF Advances, FeedMoves, Rewaits, Retains
<1>6. ~running' => \A d \in Conditions :
                      record'[d].phase = "UNSUBSCRIBED" /\ ~record'[d].miss
  BY <1>1 DEF IndInv
<1> QED BY <1>4, <1>5, <1>6 DEF IndInv, Advances, Sound, Moves

\* A callback that moves every record and stays outside the heartbeat.
LEMMA EachStep ==
    ASSUME IndInv, stage = "idle", stage' = "idle", beat' = beat,
           NEW f, record' = [c \in Conditions |-> f[c]],
           \A c \in Conditions : Advances(record[c], f[c]),
           running' \in BOOLEAN, epoch' \in 0..MaxEpoch,
           running' \/ \A c \in Conditions : f[c].phase = "UNSUBSCRIBED" /\ ~f[c].miss
    PROVE  IndInv' /\ Moves
<1>1. \A c \in Conditions : record'[c] = f[c] /\ f[c] \in Records
  BY DEF Advances, Sound, Coherent, Loose
<1>2. record' \in [Conditions -> Records]
  BY <1>1
<1>3. TypeOK'
  BY <1>2 DEF IndInv, TypeOK
<1>4. \A c \in Conditions : Advances(record[c], record'[c])
  BY <1>1
<1> QED BY <1>1, <1>3, <1>4 DEF IndInv, Advances, Sound, Moves

LEMMA ClockAdvancesStep == IndInv /\ ClockAdvances => IndInv' /\ Moves
<1> SUFFICES ASSUME IndInv, ClockAdvances PROVE IndInv' /\ Moves
  OBVIOUS
<1> DEFINE f == [c \in Conditions |-> Aged(record[c])]
<1>1. ASSUME NEW c \in Conditions
      PROVE  /\ Advances(record[c], f[c])
             /\ f[c].phase = record[c].phase /\ f[c].miss = record[c].miss
  <2>1. Sound(record[c]) /\ record[c] \in Records
    BY IdleSound DEF ClockAdvances, Sound, Coherent, Loose
  <2>2. Coherent(f[c]) /\ Quiet(f[c]) /\ Settled(f[c])
    BY <2>1, AgedCoherent DEF Sound
  <2>3. /\ f[c].phase = record[c].phase /\ f[c].miss = record[c].miss
        /\ f[c].awaiting = record[c].awaiting
        /\ f[c].subscribed = record[c].subscribed
    BY <2>1 DEF Aged, Records
  <2> QED BY <2>2, <2>3 DEF Advances, Sound, FeedMoves, Rewaits, Retains, Owned
<1> HIDE DEF f
<1>2. record' = [c \in Conditions |-> f[c]]
  BY DEF ClockAdvances, f
<1> QED BY <1>1, <1>2, EachStep DEF ClockAdvances, IndInv, TypeOK

LEMMA WorldStep ==
    ASSUME IndInv, NEW c \in Conditions, NEW s \in Sides,
           WindowAdvances(c) \/ InstrumentLoads(c, s)
    PROVE  IndInv' /\ Moves
<1>1. stage = "idle" /\ Sound(record[c]) /\ record[c] \in Records
  BY IdleSound DEF WindowAdvances, InstrumentLoads, Sound, Coherent, Loose
<1>2. ASSUME NEW q, q \in Records, SameLifecycle(record[c], q),
             q.subscribed = record[c].subscribed, q.active = record[c].active,
             q.miss = record[c].miss, q.known = record[c].known, Update(c, q),
             UNCHANGED <<running, epoch, stage, beat>>
      PROVE  IndInv' /\ Moves
  <2>1. Advances(record[c], q) /\ q.phase = record[c].phase
    BY <1>1, <1>2, SameLifecycleAdvances DEF SameLifecycle
  <2> QED BY <1>1, <1>2, <2>1, UpdateStep
<1>3. CASE WindowAdvances(c)
  <2> DEFINE window == IF record[c].window = "upcoming" THEN "live" ELSE "ended"
             q == [record[c] EXCEPT !.window = window]
  <2>1. Update(c, q)
    BY <1>1, <1>3 DEF WindowAdvances, Records
  <2> HIDE DEF window
  <2>2. window \in {"upcoming", "live", "ended"}
    BY DEF window
  <2>3. /\ q \in Records /\ SameLifecycle(record[c], q)
        /\ q.subscribed = record[c].subscribed /\ q.active = record[c].active
        /\ q.miss = record[c].miss /\ q.known = record[c].known
    BY <1>1, <2>2 DEF Records, SameLifecycle
  <2> HIDE DEF q
  <2> QED BY <1>2, <1>3, <2>1, <2>3 DEF WindowAdvances
<1>4. CASE InstrumentLoads(c, s)
  <2> DEFINE q == [record[c] EXCEPT !.visible = record[c].visible \union {s}]
  <2>1. Update(c, q)
    BY <1>1, <1>4 DEF InstrumentLoads, Records
  <2>2. /\ q \in Records /\ SameLifecycle(record[c], q)
        /\ q.subscribed = record[c].subscribed /\ q.active = record[c].active
        /\ q.miss = record[c].miss /\ q.known = record[c].known
    BY <1>1 DEF Records, SameLifecycle
  <2> HIDE DEF q
  <2> QED BY <1>2, <1>4, <2>1, <2>2 DEF InstrumentLoads
<1> QED BY <1>3, <1>4

LEMMA OnStartStep == IndInv /\ OnStart => IndInv' /\ Moves
<1> SUFFICES ASSUME IndInv, OnStart PROVE IndInv' /\ Moves
  OBVIOUS
<1>1. PICK accepted \in Accepted :
         record' = [c \in Conditions |->
                      StartCondition(record[c], c \in StartupConditions, accepted)]
  BY DEF OnStart
<1> DEFINE f == [c \in Conditions |->
                   StartCondition(record[c], c \in StartupConditions, accepted)]
<1>2. ASSUME NEW c \in Conditions PROVE Advances(record[c], f[c])
  <2>1. Sound(record[c]) /\ record[c].phase = "UNSUBSCRIBED" /\ ~record[c].miss
    BY IdleSound DEF OnStart, IndInv
  <2> QED BY <2>1, StartConditionAdvances
<1>3. record' = [c \in Conditions |-> f[c]]
  BY <1>1
<1> HIDE DEF f
<1> QED BY <1>2, <1>3, EachStep DEF OnStart, IndInv, TypeOK

LEMMA OnStopStep == IndInv /\ OnStop => IndInv' /\ Moves
<1> SUFFICES ASSUME IndInv, OnStop PROVE IndInv' /\ Moves
  OBVIOUS
<1> DEFINE f == [c \in Conditions |-> StopCondition(record[c])]
<1>1. ASSUME NEW c \in Conditions
      PROVE  /\ Advances(record[c], f[c])
             /\ f[c].phase = "UNSUBSCRIBED" /\ ~f[c].miss
  BY IdleSound, StopConditionAdvances DEF OnStop
<1>2. record' = [c \in Conditions |-> f[c]]
  BY DEF OnStop
<1> HIDE DEF f
<1> QED BY <1>1, <1>2, EachStep DEF OnStop, IndInv, TypeOK

LEMMA OnLoadStep == IndInv /\ OnLoad => IndInv' /\ Moves
<1> SUFFICES ASSUME IndInv, OnLoad PROVE IndInv' /\ Moves
  OBVIOUS
<1>1. TypeOK'
  BY ConditionsAssumption DEF OnLoad, IndInv, TypeOK
<1>2. Moves
  BY DEF OnLoad, Moves, FeedMoves, Rewaits, Retains
<1> QED BY <1>1, <1>2 DEF OnLoad, IndInv

LEMMA OnMarketUniverseStep ==
    ASSUME IndInv, NEW e \in 1..MaxEpoch, NEW listed, NEW exited,
           OnMarketUniverse(e, listed, exited)
    PROVE  IndInv' /\ Moves
<1>1. PICK accepted \in Accepted :
         record' = [c \in Conditions |->
                      UniverseCondition(record[c], c \in listed, c \in exited, accepted)]
  BY DEF OnMarketUniverse
<1> DEFINE f == [c \in Conditions |->
                   UniverseCondition(record[c], c \in listed, c \in exited, accepted)]
<1>2. ASSUME NEW c \in Conditions PROVE Advances(record[c], f[c])
  <2>1. Sound(record[c])
    BY IdleSound DEF OnMarketUniverse
  <2> DEFINE in  == IF c \in listed THEN TRUE ELSE FALSE
             out == IF c \in exited THEN TRUE ELSE FALSE
  <2>2. in \in BOOLEAN /\ out \in BOOLEAN
    OBVIOUS
  <2>3. (in <=> c \in listed) /\ (out <=> c \in exited)
    OBVIOUS
  <2> HIDE DEF in, out
  <2>4. in = (c \in listed) /\ out = (c \in exited)
    BY <2>2, <2>3
  <2>5. f[c] = UniverseCondition(record[c], in, out, accepted)
    BY <2>4
  <2> QED BY <2>1, <2>2, <2>5, UniverseConditionAdvances
<1>3. record' = [c \in Conditions |-> f[c]]
  BY <1>1
<1> HIDE DEF f
<1>4. e \in 0..MaxEpoch
  BY ConditionsAssumption
<1> QED BY <1>2, <1>3, <1>4, EachStep DEF OnMarketUniverse, IndInv, TypeOK

LEMMA OnMarketMetadataStep ==
    ASSUME IndInv, NEW c \in Conditions, OnMarketMetadata(c)
    PROVE  IndInv' /\ Moves
<1>1. PICK accepted \in Accepted :
         Update(c, SubscribeCondition([record[c] EXCEPT !.known = TRUE], accepted))
  BY DEF OnMarketMetadata
<1> DEFINE q == SubscribeCondition([record[c] EXCEPT !.known = TRUE], accepted)
<1>2. Advances(record[c], q)
  BY IdleSound, MetadataAdvances DEF OnMarketMetadata
<1> HIDE DEF q
<1> QED BY <1>1, <1>2, UpdateStep DEF OnMarketMetadata, q

LEMMA OnInstrumentStep ==
    ASSUME IndInv, NEW c \in Conditions, NEW s \in Sides, OnInstrument(c, s)
    PROVE  IndInv' /\ Moves
<1>1. PICK accepted \in Accepted :
         Update(c, InstrumentAvailable(record[c], s, s \in accepted))
  BY DEF OnInstrument
<1> DEFINE q == InstrumentAvailable(record[c], s, s \in accepted)
<1>2. Sound(record[c]) /\ s \in record[c].visible
  BY IdleSound DEF OnInstrument
<1>3. /\ Coherent(q) /\ Framed(record[c], q) /\ Settled(q) /\ Rewaits(record[c], q)
      /\ record[c].phase = "UNSUBSCRIBED" => q.phase = "UNSUBSCRIBED"
      /\ Owned(record[c]) => Owned(q)
  BY <1>2, InstrumentAvailableCoherent DEF Sound
<1>4. Quiet(q)
  BY <1>2, <1>3 DEF Sound, Quiet, Framed
<1> HIDE DEF q
<1>5. Advances(record[c], q)
  BY <1>3, <1>4 DEF Advances, Sound, FeedMoves, Retains
<1> QED BY <1>1, <1>5, UpdateStep DEF OnInstrument, q

LEMMA OnBookStep ==
    ASSUME IndInv, NEW c \in Conditions, NEW s \in Sides, OnBook(c, s)
    PROVE  IndInv' /\ Moves
<1>1. PICK lag \in Lags, evaluated \in BOOLEAN, view \in Views :
         Update(c, BookEvent(record[c], s, lag, evaluated, view))
  BY DEF OnBook
<1> DEFINE q == BookEvent(record[c], s, lag, evaluated, view)
<1>2. lag \in 0..MaxLag
  BY AgesAssumption DEF Lags
<1>3. Sound(record[c]) /\ record[c].active
  BY IdleSound DEF OnBook
<1>4. /\ Coherent(q) /\ Quiet(q) /\ Settled(q) /\ FeedMoves(record[c], q)
      /\ Owned(record[c]) => Owned(q)
  BY <1>2, <1>3, BookEventCoherent DEF Sound
<1> HIDE DEF q
<1>5. Advances(record[c], q)
  BY <1>4 DEF Advances, Sound, Retains
<1> QED BY <1>1, <1>5, UpdateStep DEF OnBook, q

\* What an evaluation does to a sound record.
LEMMA EvaluatesAdvances ==
    ASSUME NEW r, Sound(r), NEW view \in Views, NEW q, q = EvaluateCondition(r, view)
    PROVE  Advances(r, q)
<1>1. Evaluates(r, q)
  BY EvaluateConditionEvaluates DEF Sound
<1> QED BY <1>1, PhaseTypes
        DEF Evaluates, Sound, Advances, SameFeed, Settled, FeedMoves, Rewaits,
            Retains, Owned

LEMMA OnEvaluateStep ==
    ASSUME IndInv, NEW c \in Conditions, OnEvaluate(c)
    PROVE  IndInv' /\ Moves
<1>1. PICK view \in Views : Update(c, EvaluateCondition(record[c], view))
  BY DEF OnEvaluate
<1> DEFINE q == EvaluateCondition(record[c], view)
<1>2. Advances(record[c], q)
  BY IdleSound, EvaluatesAdvances DEF OnEvaluate
<1> HIDE DEF q
<1> QED BY <1>1, <1>2, UpdateStep DEF OnEvaluate, q
-----------------------------------------------------------------------------
\* The stages of the heartbeat.

LEMMA EvaluationHeartbeatStep == IndInv /\ EvaluationHeartbeat => IndInv' /\ Moves
<1> SUFFICES ASSUME IndInv, EvaluationHeartbeat PROVE IndInv' /\ Moves
  OBVIOUS
<1> DEFINE kept == [c \in Conditions |-> RetireIfExpired(record[c])]
<1>1. PICK found \in SUBSET Conditions, accepted \in Accepted :
         /\ beat' = {c \in Conditions : kept[c].active}
         /\ record' = [c \in Conditions |->
                         IF c \in found THEN DiscoverCondition(kept[c], accepted)
                         ELSE kept[c]]
  BY DEF EvaluationHeartbeat
<1>2. running /\ running' /\ stage' = "restore" /\ epoch' = epoch
  BY DEF EvaluationHeartbeat
<1>3. ASSUME NEW c \in Conditions
      PROVE  /\ Coherent(record'[c]) /\ Quiet(record'[c])
             /\ c \in beat' => record'[c].active
             /\ c \in beat' \/ Settled(record'[c])
             /\ FeedMoves(record[c], record'[c])
             /\ Retains(record[c], record'[c])
  <2>1. /\ Sound(record[c]) /\ Sound(kept[c]) /\ FeedMoves(record[c], kept[c])
        /\ Retains(record[c], kept[c])
        /\ kept[c] = record[c] \/ kept[c].phase = "UNSUBSCRIBED"
    BY IdleSound, RetireIfExpiredAdvances DEF EvaluationHeartbeat, Advances
  <2> HIDE DEF kept
  <2>2. CASE c \notin found
    BY <1>1, <2>1, <2>2 DEF Sound
  <2>3. CASE c \in found
    <3> DEFINE q == DiscoverCondition(kept[c], accepted)
    <3>1. record'[c] = q
      BY <1>1, <2>3
    <3>2. /\ Coherent(q) /\ Quiet(q) /\ Rewaits(kept[c], q) /\ Retains(kept[c], q)
          /\ kept[c].active => q.active
          /\ kept[c].active \/ Settled(q)
      BY <2>1, DiscoverConditionAdvances
    <3> HIDE DEF q
    <3>3. FeedMoves(record[c], q)
      <4>1. CASE kept[c] = record[c]
        BY <3>2, <4>1 DEF FeedMoves
      <4>2. CASE kept[c].phase = "UNSUBSCRIBED"
        <5>1. kept[c].awaiting = {}
          BY <2>1, <4>2, PhaseTypes DEF Sound, Coherent, Loose, GenerationCoherent
        <5>2. q.awaiting = {} /\ q.phase # "READY" => q.phase \notin SubscribingPhases
          BY <3>2, PhaseTypes DEF Coherent, Loose, GenerationCoherent
        <5> QED BY <3>2, <4>2, <5>1, <5>2 DEF Rewaits, FeedMoves
      <4> QED BY <2>1, <4>1, <4>2
    <3>4. Retains(record[c], q)
      BY <2>1, <3>2 DEF Retains
    <3> QED BY <1>1, <3>1, <3>2, <3>3, <3>4
  <2> QED BY <2>2, <2>3
<1> HIDE DEF kept
<1>4. record' \in [Conditions -> Records] /\ beat' \in SUBSET Conditions
  <2>1. \A c \in Conditions : record'[c] \in Records
    BY <1>3 DEF Coherent, Loose
  <2> QED BY <1>1, <2>1
<1>5. TypeOK'
  BY <1>2, <1>3, <1>4 DEF IndInv, TypeOK, Stages
<1> QED BY <1>2, <1>3, <1>5 DEF IndInv, Moves

\* A later stage, which moves every record and keeps the list of conditions.
LEMMA StageStep ==
    ASSUME IndInv, running, running' = running, epoch' = epoch,
           stage' \in {"reconcile", "recover", "evaluate", "idle"},
           beat' = beat \/ (stage' = "idle" /\ beat' = {}),
           NEW f, record' = [c \in Conditions |-> f[c]],
           \A c \in Conditions : Advances(record[c], f[c]),
           stage' \in {"reconcile", "recover"} => \A c \in beat : f[c].active
    PROVE  IndInv' /\ Moves
<1>1. \A c \in Conditions : record'[c] = f[c] /\ f[c] \in Records
  BY DEF Advances, Sound, Coherent, Loose
<1>2. record' \in [Conditions -> Records]
  BY <1>1
<1>3. \A c \in beat : c \in Conditions
  BY DEF IndInv, TypeOK
<1>4. TypeOK'
  BY <1>1, <1>2, <1>3 DEF IndInv, TypeOK, Stages
<1>5. \A c \in Conditions : Advances(record[c], record'[c])
  BY <1>1
<1> QED BY <1>4, <1>5 DEF IndInv, Advances, Sound, Moves

\* The conditions of a running heartbeat are active, and it runs only while
\* the strategy does.
LEMMA BeatFacts ==
    ASSUME IndInv, stage # "idle"
    PROVE  /\ running
           /\ \A c \in Conditions : Coherent(record[c]) /\ Quiet(record[c])
           /\ stage # "restore" => \A c \in Conditions : Sound(record[c])
           /\ stage # "evaluate" => \A c \in beat : record[c].active
           /\ \A c \in Conditions : Settled(record[c]) \/ c \in beat
BY IdleSound DEF IndInv, TypeOK, Stages

LEMMA HeartbeatRestoresStep == IndInv /\ HeartbeatRestores => IndInv' /\ Moves
<1> SUFFICES ASSUME IndInv, HeartbeatRestores PROVE IndInv' /\ Moves
  OBVIOUS
<1>1. PICK accepted \in Accepted :
         record' = [c \in Conditions |->
                      LET r == FlushRestores(record[c])
                      IN  IF c \in beat THEN SubscribeCondition(r, accepted) ELSE r]
  BY DEF HeartbeatRestores, RestoresWith
<1> DEFINE f == [c \in Conditions |->
                   IF c \in beat THEN SubscribeCondition(FlushRestores(record[c]), accepted)
                   ELSE FlushRestores(record[c])]
<1>2. ASSUME NEW c \in Conditions
      PROVE  Advances(record[c], f[c]) /\ (c \in beat => f[c].active)
  <2> DEFINE p == FlushRestores(record[c])
             q == SubscribeCondition(p, accepted)
  <2>1. /\ Coherent(record[c]) /\ Quiet(record[c])
        /\ c \in beat => record[c].active
        /\ Settled(record[c]) \/ c \in beat
    BY BeatFacts DEF HeartbeatRestores, RestoresWith
  <2>2. /\ Coherent(p) /\ Framed(record[c], p)
        /\ p.phase = record[c].phase /\ p.awaiting = record[c].awaiting
        /\ p.subscribed = record[c].subscribed
    BY <2>1, FlushRestoresCoherent DEF SameFeed
  <2> HIDE DEF p
  <2>3. Quiet(p) /\ Rewaits(record[c], p) /\ p.active = record[c].active
        /\ (Settled(record[c]) => Settled(p)) /\ (Owned(record[c]) => Owned(p))
    BY <2>1, <2>2 DEF Quiet, Rewaits, Framed, Settled, Owned
  <2>4. CASE c \notin beat
    <3>1. f[c] = p
      BY <2>4 DEF p
    <3> QED BY <2>1, <2>2, <2>3, <2>4, <3>1 DEF Advances, Sound, FeedMoves, Retains
  <2>5. CASE c \in beat
    <3>1. f[c] = q
      BY <2>5 DEF p
    <3>2. /\ Coherent(q) /\ Framed(p, q) /\ Settled(q) /\ Rewaits(p, q)
          /\ Unrefused \subseteq accepted /\ Owned(p) => Owned(q)
      BY <2>1, <2>2, <2>3, <2>5, SubscribeConditionCoherent
    <3> HIDE DEF q, f
    <3>3. q.active /\ Rewaits(record[c], q) /\ Retains(record[c], q)
      BY <2>1, <2>3, <2>5, <3>2, AllAccepted DEF Framed, Rewaits, Retains
    <3> QED BY <3>1, <3>2, <3>3 DEF Advances, Sound, FeedMoves, Quiet
  <2> QED BY <2>4, <2>5
<1>3. record' = [c \in Conditions |-> f[c]]
  BY <1>1
<1> HIDE DEF f
<1>4. running /\ beat \subseteq Conditions
  BY BeatFacts DEF HeartbeatRestores, RestoresWith, IndInv, TypeOK
<1> QED BY <1>2, <1>3, <1>4, StageStep DEF HeartbeatRestores, RestoresWith

LEMMA HeartbeatReconcilesStep == IndInv /\ HeartbeatReconciles => IndInv' /\ Moves
<1> SUFFICES ASSUME IndInv, HeartbeatReconciles PROVE IndInv' /\ Moves
  OBVIOUS
<1>1. PICK cached \in [Conditions -> SUBSET Sides], lag \in Lags :
         record' = [c \in Conditions |->
                      IF c \in beat THEN ReconcileFromCache(record[c], cached[c], lag)
                      ELSE record[c]]
  BY DEF HeartbeatReconciles
<1> DEFINE f == [c \in Conditions |->
                   IF c \in beat THEN ReconcileFromCache(record[c], cached[c], lag)
                   ELSE record[c]]
<1>2. ASSUME NEW c \in Conditions
      PROVE  Advances(record[c], f[c]) /\ (c \in beat => f[c].active)
  <2>1. Sound(record[c]) /\ (c \in beat => record[c].active)
    BY BeatFacts DEF HeartbeatReconciles
  <2>2. CASE c \notin beat
    BY <2>1, <2>2 DEF Advances, FeedMoves, Rewaits, Retains
  <2>3. CASE c \in beat
    <3>1. lag \in 0..MaxLag
      BY AgesAssumption DEF Lags
    <3>2. f[c] = ReconcileFromCache(record[c], cached[c], lag)
      BY <2>3
    <3> HIDE DEF f
    <3>3. Observes(record[c], f[c], Sides)
      BY <2>1, <3>1, <3>2, ReconcileObserves DEF Sound
    <3>4. FeedMoves(record[c], f[c])
      BY <2>1, <3>3, ObservesMoves DEF Sound
    <3>5. Retains(record[c], f[c])
      BY <3>3, SameOwnerOwned DEF Observes, Retains
    <3> QED BY <2>1, <2>3, <3>3, <3>4, <3>5 DEF Advances, Sound, Observes, Quiet, Settled
  <2> QED BY <2>2, <2>3
<1>3. record' = [c \in Conditions |-> f[c]]
  BY <1>1
<1> HIDE DEF f
<1>4. running /\ beat \subseteq Conditions
  BY BeatFacts DEF HeartbeatReconciles, IndInv, TypeOK
<1> QED BY <1>2, <1>3, <1>4, StageStep DEF HeartbeatReconciles

LEMMA HeartbeatRecoversStep == IndInv /\ HeartbeatRecovers => IndInv' /\ Moves
<1> SUFFICES ASSUME IndInv, HeartbeatRecovers PROVE IndInv' /\ Moves
  OBVIOUS
<1> DEFINE f == [c \in Conditions |->
                   IF c \in beat THEN RecoverBookSubscription(record[c])
                   ELSE record[c]]
<1>1. ASSUME NEW c \in Conditions PROVE Advances(record[c], f[c])
  <2>1. Sound(record[c]) /\ (c \in beat => record[c].active)
    BY BeatFacts DEF HeartbeatRecovers
  <2>2. CASE c \notin beat
    BY <2>1, <2>2 DEF Advances, FeedMoves, Rewaits, Retains
  <2>3. CASE c \in beat
    BY <2>1, <2>3, RecoverBookSubscriptionCoherent DEF Advances, Sound, Retains
  <2> QED BY <2>2, <2>3
<1>2. record' = [c \in Conditions |-> f[c]]
  BY DEF HeartbeatRecovers
<1> HIDE DEF f
<1>3. running
  BY BeatFacts DEF HeartbeatRecovers
<1> QED BY <1>1, <1>2, <1>3, StageStep DEF HeartbeatRecovers

LEMMA HeartbeatEvaluatesStep == IndInv /\ HeartbeatEvaluates => IndInv' /\ Moves
<1> SUFFICES ASSUME IndInv, HeartbeatEvaluates PROVE IndInv' /\ Moves
  OBVIOUS
<1>1. PICK due \in SUBSET beat, view \in [Conditions -> Views] :
         record' = [c \in Conditions |->
                      IF c \in due THEN EvaluateCondition(record[c], view[c])
                      ELSE record[c]]
  BY DEF HeartbeatEvaluates
<1> DEFINE f == [c \in Conditions |->
                   IF c \in due THEN EvaluateCondition(record[c], view[c])
                   ELSE record[c]]
<1>2. ASSUME NEW c \in Conditions PROVE Advances(record[c], f[c])
  <2>1. Sound(record[c]) /\ view[c] \in Views
    BY BeatFacts DEF HeartbeatEvaluates
  <2>2. CASE c \notin due
    BY <2>1, <2>2 DEF Advances, FeedMoves, Rewaits, Retains
  <2>3. CASE c \in due
    BY <2>1, <2>3, EvaluatesAdvances
  <2> QED BY <2>2, <2>3
<1>3. record' = [c \in Conditions |-> f[c]]
  BY <1>1
<1> HIDE DEF f
<1>4. running
  BY BeatFacts DEF HeartbeatEvaluates
<1> QED BY <1>2, <1>3, <1>4, StageStep DEF HeartbeatEvaluates
-----------------------------------------------------------------------------
\* Every step keeps the invariant and moves the feed as promised.
LEMMA NextStep == IndInv /\ [Next]_vars => IndInv' /\ Moves
<1> SUFFICES ASSUME IndInv, [Next]_vars PROVE IndInv' /\ Moves
  OBVIOUS
<1>1. CASE ClockAdvances
  BY <1>1, ClockAdvancesStep
<1>2. CASE \E c \in Conditions :
              \/ WindowAdvances(c)
              \/ OnMarketMetadata(c)
              \/ OnEvaluate(c)
              \/ \E s \in Sides : InstrumentLoads(c, s) \/ OnInstrument(c, s) \/ OnBook(c, s)
  <2>1. PICK c \in Conditions :
              \/ WindowAdvances(c)
              \/ OnMarketMetadata(c)
              \/ OnEvaluate(c)
              \/ \E s \in Sides : InstrumentLoads(c, s) \/ OnInstrument(c, s) \/ OnBook(c, s)
    BY <1>2
  <2>2. CASE WindowAdvances(c)
    <3>1. PICK s \in Sides : TRUE
      BY DEF Sides
    <3> QED BY <2>2, <3>1, WorldStep
  <2>3. CASE OnMarketMetadata(c)
    BY <2>3, OnMarketMetadataStep
  <2>4. CASE OnEvaluate(c)
    BY <2>4, OnEvaluateStep
  <2>5. ASSUME NEW s \in Sides, InstrumentLoads(c, s) PROVE IndInv' /\ Moves
    BY <2>5, WorldStep
  <2>6. ASSUME NEW s \in Sides, OnInstrument(c, s) PROVE IndInv' /\ Moves
    BY <2>6, OnInstrumentStep
  <2>7. ASSUME NEW s \in Sides, OnBook(c, s) PROVE IndInv' /\ Moves
    BY <2>7, OnBookStep
  <2> QED BY <2>1, <2>2, <2>3, <2>4, <2>5, <2>6, <2>7
<1>3. CASE OnStart
  BY <1>3, OnStartStep
<1>4. CASE OnStop
  BY <1>4, OnStopStep
<1>5. CASE OnLoad
  BY <1>5, OnLoadStep
<1>6. CASE \E e \in 1..MaxEpoch, listed, exited \in SUBSET Conditions :
              OnMarketUniverse(e, listed, exited)
  BY <1>6, OnMarketUniverseStep
<1>7. CASE Heartbeat
  BY <1>7, EvaluationHeartbeatStep, HeartbeatRestoresStep, HeartbeatReconcilesStep,
     HeartbeatRecoversStep, HeartbeatEvaluatesStep DEF Heartbeat
<1>8. CASE UNCHANGED vars
  <2>1. IndInv'
    BY <1>8 DEF vars, IndInv, TypeOK
  <2>2. Moves
    BY <1>8 DEF vars, Moves, FeedMoves, Rewaits, Retains
  <2> QED BY <2>1, <2>2
<1> QED BY <1>1, <1>2, <1>3, <1>4, <1>5, <1>6, <1>7, <1>8 DEF Next

\* The inductive invariant holds in every reachable state.
THEOREM Inductive == Spec => []IndInv
BY InitInv, NextStep, PTL DEF Spec

\* The state has its types, and the conditions that a heartbeat restores,
\* reconciles and recovers are active.
THEOREM TypeCorrect == Spec => []TypeOK
<1>1. IndInv => TypeOK
  BY DEF IndInv
<1> QED BY <1>1, Inductive, PTL

\* _transition_condition_phase never raises AssertionError.
THEOREM PhasesAreLegal == Spec => []NoIllegalTransition
<1>1. IndInv => NoIllegalTransition
  BY DEF IndInv, NoIllegalTransition, Coherent, Loose
<1> QED BY <1>1, Inductive, PTL

\* A condition that waits for books has what the recovery needs to end the
\* wait.
THEOREM WaitsAreRecoverable == Spec => []WaitingIsRecoverable
<1>1. IndInv => WaitingIsRecoverable
  BY DEF IndInv, WaitingIsRecoverable, WaitingPhases, Coherent, Loose, GenerationCoherent
<1> QED BY <1>1, Inductive, PTL

\* READY is held exactly with a closed generation and a book on every side.
THEOREM PhasesMatchBooks == Spec => []PhaseMatchesBooks
<1>1. ASSUME IndInv, NEW c \in Conditions
      PROVE  LET r == record[c] IN
             /\ r.phase = "READY" <=> r.bilateral
             /\ r.bilateral => r.everReady
             /\ r.phase = "READY" => \A s \in Sides : r.receipt[s] # Absent
             /\ r.phase = "AWAITING_FIRST_BOOK" => r.pending \subseteq r.subscribed
  <2>1. Coherent(record[c])
    BY <1>1 DEF IndInv
  <2>2. record[c].phase = "READY" =>
           record[c].awaiting = {} /\ record[c].phase \in SubscribingPhases
    BY <2>1, PhaseTypes DEF Coherent, Loose, GenerationCoherent
  <2> QED BY <2>1, <2>2
          DEF Coherent, Wired, Loose, GenerationCoherent, ReceiptsCoherent
<1>2. IndInv => PhaseMatchesBooks
  BY <1>1 DEF PhaseMatchesBooks
<1> QED BY <1>2, Inductive, PTL

\* A refused subscription does not reach the other instrument: whatever callbacks
\* and heartbeats run, and whatever sides the engine refuses, a condition past the
\* pending stage owns every instrument that the engine does not refuse.
THEOREM RefusalsAreContained == Spec => []RefusalIsContained
<1> DEFINE AllOwned == \A c \in Conditions : Owned(record[c])
<1>1. Init => AllOwned
  BY PhaseTypes DEF Init, InitialRecords, Owned
<1>2. IndInv /\ AllOwned /\ [Next]_vars => AllOwned'
  BY NextStep DEF Moves, Retains
<1>3. AllOwned => RefusalIsContained
  BY PhaseTypes
  DEF Owned, Unrefused, RefusalIsContained, PastPending, ConditionInstruments, WaitingPhases
<1> HIDE DEF AllOwned
<1> QED BY <1>1, <1>2, <1>3, Inductive, PTL DEF Spec

\* A side that has answered is not drained again.
THEOREM RecoveryIsForAwaited == Spec => []RecoveryOnlyForAwaited
<1>1. IndInv => RecoveryOnlyForAwaited
  BY DEF IndInv, RecoveryOnlyForAwaited, Coherent, Loose, RecoveryCoherent
<1> QED BY <1>1, Inductive, PTL

\* Nothing of a condition survives its leaving the active set.
THEOREM NothingOutlivesCondition == Spec => []NoStateOutlivesCondition
<1>1. ASSUME IndInv, NEW c \in Conditions, ~record[c].active
      PROVE  /\ record[c].phase = "UNSUBSCRIBED"
             /\ record[c].awaiting = {} /\ record[c].stalled = Absent
             /\ record[c].stale = {} /\ ~record[c].miss
  BY <1>1, PhaseTypes DEF IndInv, Quiet, Coherent, Loose, GenerationCoherent
<1>2. IndInv => NoStateOutlivesCondition
  BY <1>1 DEF NoStateOutlivesCondition
<1> QED BY <1>2, Inductive, PTL

\* A suppressed condition stays unsubscribed.
THEOREM SuppressedIsUnsubscribed == Spec => []SuppressedStaysUnsubscribed
<1>1. IndInv => SuppressedStaysUnsubscribed
  BY DEF IndInv, SuppressedStaysUnsubscribed, Suppressed, Coherent, Loose, GenerationCoherent
<1> QED BY <1>1, Inductive, PTL

\* Only a book that is no older than the generation is credited.
THEOREM CreditsAreFresh == Spec => CreditedSidesAreFresh
<1>1. ASSUME IndInv, IndInv', Moves, NEW c \in Conditions,
             record'[c].phase \in SubscribingPhases,
             NEW s \in record[c].awaiting \ record'[c].awaiting
      PROVE  record'[c].receipt[s] \in 0..record[c].generation
  <2>1. Coherent(record[c]) /\ FeedMoves(record[c], record'[c])
    BY <1>1 DEF IndInv, Moves
  <2>2. s \in Sides /\ record[c].phase # "READY"
    BY <2>1, PhaseTypes DEF Coherent, Loose, Records, GenerationCoherent
  <2> QED BY <1>1, <2>1, <2>2 DEF FeedMoves, Rewaits, Credits
<1>2. IndInv /\ IndInv' /\ Moves =>
         \A c \in Conditions : record'[c].phase \in SubscribingPhases =>
            \A s \in record[c].awaiting \ record'[c].awaiting :
               record'[c].receipt[s] \in 0..record[c].generation
  BY <1>1
<1> QED BY <1>2, Inductive, NextStep, PTL DEF Spec, CreditedSidesAreFresh
-----------------------------------------------------------------------------
\* The refinement of BookFeedContract.

LEMMA FeedOfPhase ==
    ASSUME NEW r, Coherent(r)
    PROVE  /\ FeedOf(r) \in {"out", "waiting", "ready"}
           /\ FeedOf(r) = "ready" <=> r.phase = "READY"
           /\ FeedOf(r) = "waiting" <=> r.awaiting # {}
           /\ r.phase \notin SubscribingPhases => FeedOf(r) = "out" /\ r.awaiting = {}
           /\ r.awaiting \in SUBSET Sides
           /\ r.phase = "READY" => r.awaiting = {}
<1>1. /\ r.phase \in WaitingPhases <=> r.awaiting # {}
      /\ r.awaiting \in SUBSET Sides
  BY DEF Coherent, Loose, GenerationCoherent, Records
<1>2. CASE r.phase = "READY"
  <2>1. FeedOf(r) = "ready" /\ r.awaiting = {}
    BY <1>1, <1>2, PhaseTypes DEF FeedOf
  <2> QED BY <1>1, <1>2, <2>1, PhaseTypes
<1>3. CASE r.phase \in WaitingPhases
  <2>1. FeedOf(r) = "waiting" /\ r.phase # "READY"
    BY <1>3, PhaseTypes DEF FeedOf, WaitingPhases
  <2> QED BY <1>1, <1>3, <2>1, PhaseTypes
<1>4. CASE r.phase \notin SubscribingPhases
  <2>1. FeedOf(r) = "out" /\ r.phase # "READY"
    BY <1>4, PhaseTypes DEF FeedOf, WaitingPhases
  <2> QED BY <1>1, <1>4, <2>1, PhaseTypes
<1> QED BY <1>2, <1>3, <1>4, PhaseTypes

\* The subscriptions implement the contract on the book feed.
THEOREM Refinement == Spec => FeedContract
<1>1. Init => Contract!Init
  <2> SUFFICES ASSUME Init PROVE Contract!Init
    OBVIOUS
  <2>1. \A c \in Conditions :
           record[c].phase = "UNSUBSCRIBED" /\ record[c].awaiting = {}
    BY DEF Init, InitialRecords
  <2>2. \A c \in Conditions : Coherent(record[c])
    BY InitInv DEF IndInv
  <2>3. \A c \in Conditions : FeedOf(record[c]) = "out"
    BY <2>1, <2>2, FeedOfPhase, PhaseTypes
  <2> QED BY <2>1, <2>3 DEF Contract!Init
<1>2. IndInv /\ IndInv' /\ Moves => Contract!Next
  <2> SUFFICES ASSUME IndInv, IndInv', Moves, NEW c \in Conditions
               PROVE  \/ Contract!Stays(c) \/ Contract!Closes(c) \/ Contract!Opens(c)
                      \/ Contract!Reopens(c) \/ Contract!Delivers(c)
    BY DEF Contract!Next
  <2> DEFINE r == record[c]
             q == record'[c]
  <2>1. Coherent(r) /\ Coherent(q) /\ FeedMoves(r, q)
    BY DEF IndInv, Moves
  <2>2. /\ FeedOf(r) \in {"out", "waiting", "ready"}
        /\ FeedOf(r) = "ready" <=> r.phase = "READY"
        /\ FeedOf(r) = "waiting" <=> r.awaiting # {}
        /\ r.phase = "READY" => r.awaiting = {}
        /\ r.awaiting \in SUBSET Sides
    BY <2>1, FeedOfPhase
  <2>3. /\ FeedOf(q) \in {"out", "waiting", "ready"}
        /\ FeedOf(q) = "ready" <=> q.phase = "READY"
        /\ FeedOf(q) = "waiting" <=> q.awaiting # {}
        /\ q.phase \notin SubscribingPhases => FeedOf(q) = "out" /\ q.awaiting = {}
        /\ q.awaiting \in SUBSET Sides
    BY <2>1, FeedOfPhase
  <2>4. CASE q.awaiting = r.awaiting /\ (q.phase = "READY" <=> r.phase = "READY")
    <3>1. FeedOf(q) = FeedOf(r)
      BY <2>2, <2>3, <2>4
    <3> QED BY <2>4, <3>1 DEF Contract!Stays
  <2>5. CASE q.awaiting = Sides
    BY <2>3, <2>5 DEF Contract!Opens, Sides
  <2>6. CASE q.phase \notin SubscribingPhases
    BY <2>3, <2>6 DEF Contract!Closes
  <2>7. CASE r.phase = "READY" /\ q.awaiting # {}
    BY <2>2, <2>3, <2>7 DEF Contract!Reopens
  <2>8. CASE Credits(r, q) /\ q.phase \in SubscribingPhases
    <3>1. FeedOf(q) = IF q.awaiting = {} THEN "ready" ELSE "waiting"
      <4>1. q.awaiting = {} => q.phase = "READY"
        BY <2>1, <2>8, PhaseTypes DEF Coherent, Loose, GenerationCoherent
      <4> QED BY <2>3, <4>1
    <3>2. FeedOf(r) = "waiting"
      BY <2>2, <2>8 DEF Credits
    <3>3. q.awaiting \in (SUBSET r.awaiting) \ {r.awaiting}
      BY <2>8 DEF Credits
    <3> QED BY <3>1, <3>2, <3>3 DEF Contract!Delivers
  <2> QED BY <2>1, <2>4, <2>5, <2>6, <2>7, <2>8 DEF FeedMoves, Rewaits
<1>3. IndInv /\ [Next]_vars => [Contract!Next]_Contract!vars
  BY <1>2, NextStep
<1> QED BY <1>1, <1>3, Inductive, PTL DEF Spec, FeedContract, Contract!Spec
=============================================================================
