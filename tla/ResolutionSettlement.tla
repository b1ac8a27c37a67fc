------------------------ MODULE ResolutionSettlement ------------------------
(***************************************************************************)
(* How a position that a strategy opened gets its one row in               *)
(* report_results: from its early exit (order_events.py), from an          *)
(* InstrumentClose, or from the reconciliation that every heartbeat runs   *)
(* against the resolved markets (resolution_settlement.py).  The keys of   *)
(* settled positions live in the strategy's memory, the results and the    *)
(* position rows in SQLite, the positions in the engine's Cache, and a     *)
(* restart keeps only what is in SQLite.                                   *)
(*                                                                         *)
(* The engine nets (oms_type NETTING): one instrument of one strategy has  *)
(* one position id, and a position that closed is opened again under it.   *)
(* Each opening is an episode here.                                        *)
(***************************************************************************)
EXTENDS Naturals, Sequences, FiniteSets

CONSTANTS
    Strategies,     \* the strategies of one process
    Traded,         \* ids of the positions that the engine can hold
    Migrated,       \* ids of open rows from the legacy tables, long resolved
    Owner,          \* the strategy that trades each position
    Modes,          \* execution_mode: "sandbox" (the default), "live", or both
    MaxHeld,        \* bound: shares that one episode buys
    MaxEpisodes,    \* bound: openings of a position
    MaxRestarts,    \* bound: restarts of the process
    MaxFaults       \* bound: writes that the store rejects

ASSUME SettlementAssumption ==
    /\ Traded \cap Migrated = {}
    /\ Owner \in [Traded -> Strategies]
    /\ Modes \subseteq {"sandbox", "live"}
    /\ MaxHeld \in Nat \ {0} /\ MaxEpisodes \in Nat
    /\ MaxRestarts \in Nat /\ MaxFaults \in Nat

Positions == Traded \cup Migrated
Kinds == {"exit", "resolution"}         \* the two prefixes of a result's id

VARIABLES
    mode,       \* _execution_mode, the same for the whole life of the process
    cache,      \* the engine's position: held, episode, sold, by exit
    exitOrder,  \* shares that the working exit order still has to sell
    closeOrder, \* whether the order that closes a settled position works
    replays,    \* positions whose last fill a restarted engine may repeat
    callbacks,  \* callbacks of the last engine event that have not run yet
    settled,    \* _settled_position_keys of each strategy
    registered, \* whether the market catalog knows the position's market
    resolved,   \* whether the venue has resolved the position's market
    results,    \* report_results: the row of each kind for a position id
    row,        \* report_positions
    logged,     \* the nautilus_position events in system_events
    restarts, faults

vars == <<mode, cache, exitOrder, closeOrder, replays, callbacks, settled, registered,
          resolved, results, row, logged, restarts, faults>>
engine == <<cache, exitOrder>>
store == <<results, row, logged>>

\* Where a result came from decides its closed_at, so whether a repetition
\* carries the same payload: an engine event has a time of its own, a poll
\* takes the time of the poll.
Sources == {"exit", "close", "poll"}
Result == [episode : 0 .. MaxEpisodes, quantity : Nat,
           by : Sources \cup {"nobody"}, overlapped : BOOLEAN, unshown : BOOLEAN]
None == [episode |-> 0, quantity |-> 0, by |-> "nobody", overlapped |-> FALSE,
         unshown |-> FALSE]
NoRow == [status |-> "absent", at |-> 0, episode |-> 0, quantity |-> 0,
          rich |-> FALSE]
MigratedRow == [status |-> "OPEN", at |-> 0, episode |-> 0, quantity |-> 1,
                rich |-> TRUE]

TypeOK ==
    /\ mode \in Modes
    /\ cache \in [Traded -> [held : 0 .. MaxHeld,
                             episode : 0 .. MaxEpisodes, sold : Nat,
                             byExit : BOOLEAN]]
    /\ exitOrder \in [Traded -> 0 .. MaxHeld]
    /\ closeOrder \in [Traded -> BOOLEAN]
    /\ replays \subseteq Traded
    /\ callbacks \in Seq({"fill", "position"} \X Traded)
    /\ settled \in [Strategies -> SUBSET Positions]
    /\ registered \in [Positions -> BOOLEAN]
    /\ resolved \in [Positions -> BOOLEAN]
    /\ results \in [Positions -> [Kinds -> Result]]
    /\ row \in [Positions -> [status : {"absent", "OPEN", "CLOSED"}, at : Nat,
                              episode : 0 .. MaxEpisodes, quantity : Nat,
                              rich : BOOLEAN]]
    /\ logged \in [Positions -> SUBSET [at : Nat, quantity : Nat]]
    /\ restarts \in 0 .. MaxRestarts
    /\ faults \in 0 .. MaxFaults

Init ==
    /\ mode \in Modes
    /\ cache = [p \in Traded |-> [held |-> 0, episode |-> 0,
                                  sold |-> 0, byExit |-> FALSE]]
    /\ exitOrder = [p \in Traded |-> 0]
    /\ closeOrder = [p \in Traded |-> FALSE]
    /\ replays = {}
    /\ callbacks = << >>
    /\ settled = [s \in Strategies |-> {}]
    /\ registered = [p \in Positions |-> p \in Traded]
    /\ resolved = [p \in Positions |-> p \in Migrated]
    /\ results = [p \in Positions |-> [k \in Kinds |-> None]]
    /\ row = [p \in Positions |-> IF p \in Migrated THEN MigratedRow ELSE NoRow]
    /\ logged = [p \in Positions |-> {}]
    /\ restarts = 0 /\ faults = 0

-----------------------------------------------------------------------------
(* The store.                                                              *)

HasResult(p, k) == results[p][k] # None

\* _close_report_position_locked: OPEN to CLOSED in place; the time of the
\* event that the row shows stays.
ClosedRow(r) == IF r.status = "OPEN" THEN [r EXCEPT !.status = "CLOSED"] ELSE r

\* _insert_idempotent on a row of the same id: the same payload is skipped, a
\* different one raises DuplicateRecordError.
Repeats(old, new) == /\ new.by # "poll"
                     /\ old.by = new.by
                     /\ old.episode = new.episode
                     /\ old.quantity = new.quantity

ResultOf(p, by, episode, quantity) ==
    [episode |-> episode, quantity |-> quantity, by |-> by,
     overlapped |-> p \in Traded /\ exitOrder[p] > 0,
     unshown |-> row[p].episode < episode]

\* The time under which _report_state_event_at files a position event:
\* opened_at while the position is open, closed_at once it is closed.
EventAt(c) == IF c.held > 0 THEN 2 * c.episode - 1 ELSE 2 * c.episode
EventRow(c) == [status |-> IF c.held > 0 THEN "OPEN" ELSE "CLOSED",
                at |-> EventAt(c), episode |-> c.episode,
                quantity |-> c.held, rich |-> FALSE]

\* insert_system_event with _upsert_report_current_state, one transaction:
\* the id of the event is its position and time, so another payload for the
\* same time is rejected with the whole transaction; the row changes only for
\* a newer event.
Rejected(p, r) == \E e \in logged[p] : e.at = r.at /\ e.quantity # r.quantity
\* Fault: an event of the same time as the row's replaces it.
UpsertedAlways(old, new) == IF old.status = "absent" \/ new.at >= old.at THEN new ELSE old

Upserted(old, new) == IF old.status = "absent" \/ new.at > old.at THEN new ELSE old

-----------------------------------------------------------------------------
(* The engine, and the orders of the strategy.                             *)

Quiet == callbacks = << >>

\* An entry order fills: the first one opens the position, under the same id
\* as the episode before.
EntryFill(p) ==
    /\ Quiet /\ registered[p] /\ ~resolved[p]
    /\ \E n \in 1 .. MaxHeld - cache[p].held :
          LET opens == cache[p].held = 0 IN
          /\ cache' = [cache EXCEPT
                ![p] = [held |-> @.held + n,
                        episode |-> IF opens THEN @.episode + 1 ELSE @.episode,
                        sold |-> @.sold, byExit |-> FALSE]]
          /\ cache'[p].episode <= MaxEpisodes
          /\ cache'[p].held + cache[p].sold <= MaxHeld * cache'[p].episode
    /\ callbacks' = << <<"position", p>> >>
    /\ UNCHANGED <<mode, replays, exitOrder, closeOrder, settled, registered,
                   resolved, store,
                   restarts, faults>>

\* NativeExitPolicy asks to sell an open position that has no exit order; an
\* expired market is not evaluated any more.
SubmitExit(p) ==
    /\ Quiet /\ registered[p] /\ ~resolved[p]
    /\ cache[p].held > 0 /\ exitOrder[p] = 0
    /\ exitOrder' = [exitOrder EXCEPT ![p] = cache[p].held]
    /\ UNCHANGED <<mode, replays, cache, closeOrder, callbacks, settled,
                   registered, resolved,
                   store, restarts, faults>>

\* The exit order sells some shares; it goes on, or the venue kills the rest.
ExitFill(p) ==
    /\ Quiet
    /\ \E n \in 1 .. exitOrder[p], goesOn \in BOOLEAN :
          /\ n <= cache[p].held
          /\ cache' = [cache EXCEPT
                ![p] = [held |-> @.held - n, episode |-> @.episode,
                        sold |-> @.sold + n, byExit |-> TRUE]]
          /\ exitOrder' = [exitOrder EXCEPT
                ![p] = IF goesOn /\ cache'[p].held > 0 THEN @ - n ELSE 0]
    /\ callbacks' = << <<"fill", p>>, <<"position", p>> >>
    /\ UNCHANGED <<mode, replays, closeOrder, settled, registered, resolved,
                   store, restarts,
                   faults>>

ExitKilled(p) ==
    /\ Quiet /\ exitOrder[p] > 0
    /\ exitOrder' = [exitOrder EXCEPT ![p] = 0]
    /\ UNCHANGED <<mode, replays, cache, closeOrder, callbacks, settled,
                   registered, resolved,
                   store, restarts, faults>>

\* The order that closes a settled position fills.  It carries no strategy
\* tag, so its fill is quarantined and only the position event is recorded.
CloseFill(p) ==
    /\ Quiet /\ closeOrder[p]
    /\ \E n \in 1 .. cache[p].held, goesOn \in BOOLEAN :
          /\ cache' = [cache EXCEPT
                ![p] = [held |-> @.held - n, episode |-> @.episode,
                        sold |-> @.sold, byExit |-> FALSE]]
          /\ closeOrder' = [closeOrder EXCEPT
                ![p] = goesOn /\ cache'[p].held > 0]
    /\ callbacks' = << <<"position", p>> >>
    /\ UNCHANGED <<mode, replays, exitOrder, settled, registered, resolved,
                   store, restarts,
                   faults>>

CloseKilled(p) ==
    /\ Quiet /\ closeOrder[p]
    /\ closeOrder' = [closeOrder EXCEPT ![p] = FALSE]
    /\ UNCHANGED <<mode, replays, engine, callbacks, settled, registered,
                   resolved, store,
                   restarts, faults>>

Resolve(p) ==
    /\ Quiet /\ ~resolved[p]
    /\ resolved' = [resolved EXCEPT ![p] = TRUE]
    /\ UNCHANGED <<mode, replays, engine, closeOrder, callbacks, settled,
                   registered, store,
                   restarts, faults>>

\* The engine delivers the last exit fill of a closed position once more,
\* after it rebuilt its Cache from the venue.
ReplayFill(p) ==
    /\ Quiet /\ p \in replays
    /\ replays' = replays \ {p}
    /\ cache[p].byExit /\ cache[p].held = 0
    /\ callbacks' = << <<"fill", p>> >>
    /\ UNCHANGED <<mode, engine, closeOrder, settled, registered, resolved,
                   store, restarts, faults>>

-----------------------------------------------------------------------------
(* The callbacks of the strategy.                                          *)

\* A write that the store rejects; only so many of them happen.
Fault == faults < MaxFaults /\ faults' = faults + 1

\* Fault: the key of a position that is still open is remembered too.
HandleFillRemembersPending ==
    LET p == callbacks[1][2]
        new == ResultOf(p, "exit", cache[p].episode, cache[p].sold)
    IN
    /\ callbacks # << >> /\ callbacks[1][1] = "fill"
    /\ callbacks' = Tail(callbacks)
    /\ settled' = [settled EXCEPT ![Owner[p]] = @ \cup {p}]
    /\ IF cache[p].held = 0 /\ ~HasResult(p, "exit") /\ p \notin settled[Owner[p]]
       THEN /\ results' = [results EXCEPT ![p]["exit"] = new]
            /\ row' = [row EXCEPT ![p] = ClosedRow(@)]
       ELSE UNCHANGED <<results, row>>
    /\ UNCHANGED <<mode, replays, engine, closeOrder, registered, resolved,
                   logged,
                   restarts, faults>>

\* _record_completed_early_exit, run by the fill of a reduce-only order.
HandleFill ==
    LET p == callbacks[1][2]
        s == Owner[p]
        new == ResultOf(p, "exit", cache[p].episode, cache[p].sold)
        old == results[p]["exit"]
        completed == p \notin settled[s] /\ cache[p].held = 0
    IN
    /\ callbacks # << >> /\ callbacks[1][1] = "fill"
    /\ callbacks' = Tail(callbacks)
    /\ \/ /\ ~completed                     \* duplicate, or still pending
          /\ UNCHANGED <<settled, results, row, faults>>
       \/ /\ completed                      \* the record raises: not remembered
          /\ \/ Fault
             \/ old # None /\ ~Repeats(old, new) /\ UNCHANGED faults
          /\ UNCHANGED <<settled, results, row>>
       \/ /\ completed
          /\ \/ old = None
             \/ old # None /\ Repeats(old, new)
          /\ results' = IF old = None
                        THEN [results EXCEPT ![p]["exit"] = new] ELSE results
          /\ row' = [row EXCEPT ![p] = ClosedRow(@)]
          /\ settled' = [settled EXCEPT ![s] = @ \cup {p}]
          /\ UNCHANGED faults
    /\ UNCHANGED <<mode, replays, engine, closeOrder, registered, resolved,
                   logged, restarts>>

\* handle_position_event: the position of the Cache, as it is now, goes to
\* system_events and to report_positions.
HandlePosition ==
    LET p == callbacks[1][2]
        new == EventRow(cache[p])
    IN
    /\ callbacks # << >> /\ callbacks[1][1] = "position"
    /\ callbacks' = Tail(callbacks)
    /\ \/ Fault /\ UNCHANGED <<row, logged>>
       \/ /\ Rejected(p, new)
          /\ UNCHANGED <<row, logged, faults>>
       \/ /\ ~Rejected(p, new)
          /\ logged' = [logged EXCEPT
                ![p] = @ \cup {[at |-> new.at, quantity |-> new.quantity]}]
          /\ row' = [row EXCEPT ![p] = Upserted(@, new)]
          /\ UNCHANGED faults
    /\ UNCHANGED <<mode, replays, engine, closeOrder, settled, registered,
                   resolved, results,
                   restarts>>

\* trading_state_from_cache: open positions of the strategy whose instrument
\* the catalog knows.
InView(s) == {p \in Traded : /\ Owner[p] = s /\ registered[p]
                             /\ cache[p].held > 0}

\* query_report_open_positions keeps the rows that _valid_position_event
\* accepts.  A position event of the runtime names no side, so its row is not
\* one of them: only migrated rows are.
OpenRows == {p \in Positions : row[p].status = "OPEN" /\ row[p].rich}

\* The result of a candidate: from the Cache's position, or from the row.
SettlementOf(s, p, by) ==
    IF p \in InView(s) THEN ResultOf(p, by, cache[p].episode, cache[p].held)
                        ELSE ResultOf(p, by, row[p].episode, row[p].quantity)

Created(due) == {p \in due : results[p]["resolution"] = None}

\* _record_resolution_result: the positions whose result is on record now; one
\* that the store refuses leaves no trace.
Recorded(s, due, by) ==
    Created(due) \cup
        {p \in due : /\ results[p]["resolution"] # None
                     /\ Repeats(results[p]["resolution"], SettlementOf(s, p, by))}

\* _request_native_close, in the sandbox, for a position that the Cache has.
NativeCloses(s, done) ==
    [p \in Traded |-> closeOrder[p] \/ (mode = "sandbox" /\ p \in done \cap InView(s))]

\* Fault: the key is remembered before the outcome of the write is known.
SettleRemembersFirst(s, due, by, refused) ==
    LET created == Created(due \ refused) IN
    /\ results' = [p \in Positions |->
                    IF p \in created
                    THEN [results[p] EXCEPT !["resolution"] = SettlementOf(s, p, by)]
                    ELSE results[p]]
    /\ row' = [p \in Positions |-> IF p \in created THEN ClosedRow(row[p]) ELSE row[p]]
    /\ settled' = [settled EXCEPT ![s] = @ \cup due]
    /\ UNCHANGED closeOrder

\* What settles the positions that are due: the record, then the key, then the
\* native close.
Settle(s, due, by, refused) ==
    LET created == Created(due \ refused)
        done == Recorded(s, due \ refused, by)
    IN
    /\ results' = [p \in Positions |->
                    IF p \in created
                    THEN [results[p] EXCEPT !["resolution"] = SettlementOf(s, p, by)]
                    ELSE results[p]]
    /\ row' = [p \in Positions |-> IF p \in done THEN ClosedRow(row[p]) ELSE row[p]]
    /\ settled' = [settled EXCEPT ![s] = @ \cup done]
    /\ closeOrder' = NativeCloses(s, done)

\* Fault: the working exit order of the position is not asked for.
InstrumentCloseAnyway(p) ==
    /\ Quiet /\ resolved[p] /\ p \in InView(Owner[p])
    /\ p \notin settled[Owner[p]]
    /\ Settle(Owner[p], {p}, "close", {}) /\ UNCHANGED faults
    /\ UNCHANGED <<mode, replays, engine, callbacks, registered, resolved,
                   logged, restarts>>

\* handle_instrument_close and _settle_cache_position.
InstrumentClose(p) ==
    /\ Quiet /\ resolved[p] /\ p \in InView(Owner[p])
    /\ p \notin settled[Owner[p]]
    /\ exitOrder[p] = 0
    /\ \/ Settle(Owner[p], {p}, "close", {}) /\ UNCHANGED faults
       \/ Settle(Owner[p], {p}, "close", {p}) /\ Fault
    /\ UNCHANGED <<mode, replays, engine, callbacks, registered, resolved,
                   logged, restarts>>

\* Fault: only the rows of the store are candidates.
DueFromRows(s, evidence) == (OpenRows \cap evidence) \ settled[s]

\* resolve_open_positions, run by every heartbeat and when a condition
\* expires: the positions of the Cache and the open rows whose market is known
\* to be resolved.
Due(s, evidence) == ((InView(s) \cup OpenRows) \cap evidence) \ settled[s]

Heartbeat(s, evidence, refused) ==
    /\ Quiet
    /\ evidence \subseteq {p \in Positions : resolved[p]}
    /\ refused \subseteq Due(s, evidence)
    /\ Settle(s, Due(s, evidence), "poll", refused)
    /\ IF refused = {} THEN UNCHANGED faults ELSE Fault
    /\ UNCHANGED <<mode, replays, engine, callbacks, registered, resolved,
                   logged, restarts>>

-----------------------------------------------------------------------------
(* The process ends, and starts again.                                     *)

\* reconcile_report_position_closure, run when the store is opened.
Reconciled(p) == IF \E k \in Kinds : HasResult(p, k) THEN ClosedRow(row[p])
                 ELSE row[p]

\* The sandbox's Cache is empty after a restart; a live engine may rebuild it
\* from the venue.  The catalog only learns of markets that still trade.
Restart ==
    /\ restarts < MaxRestarts
    /\ restarts' = restarts + 1
    /\ \/ /\ mode = "live"
          /\ replays' = {p \in Traded : cache[p].byExit /\ cache[p].held = 0}
          /\ UNCHANGED cache
       \/ /\ replays' = {}
          /\ cache' = [p \in Traded |->
                         [held |-> 0, episode |-> cache[p].episode,
                          sold |-> 0, byExit |-> FALSE]]
    /\ exitOrder' = [p \in Traded |-> 0]
    /\ closeOrder' = [p \in Traded |-> FALSE]
    /\ callbacks' = << >>
    /\ settled' = [s \in Strategies |-> {}]
    /\ registered' = [p \in Positions |-> p \in Traded /\ ~resolved[p]]
    /\ row' = [p \in Positions |-> Reconciled(p)]
    /\ UNCHANGED <<mode, resolved, results, logged, faults>>

Next ==
    \/ \E p \in Traded : \/ EntryFill(p) \/ SubmitExit(p) \/ ExitFill(p)
                         \/ ExitKilled(p) \/ CloseFill(p) \/ CloseKilled(p)
                         \/ ReplayFill(p) \/ InstrumentClose(p)
    \/ \E p \in Positions : Resolve(p)
    \/ HandleFill \/ HandlePosition
    \/ \E s \in Strategies, evidence, refused \in SUBSET Positions :
          Heartbeat(s, evidence, refused)
    \/ Restart

Spec == Init /\ [][Next]_vars

\* A callback that was queued runs, and the heartbeat's timer never stops: in
\* the end one finds the evidence and a store that writes.
FullHeartbeat(s) == Heartbeat(s, {p \in Positions : resolved[p]}, {})
Fairness == /\ WF_vars(HandleFill) /\ WF_vars(HandlePosition)
            /\ \A s \in Strategies : WF_vars(FullHeartbeat(s))
FairSpec == Spec /\ Fairness

-----------------------------------------------------------------------------
(* Properties.                                                             *)

\* A key in memory stands for a row in the database: a position is never
\* taken for settled, by whichever path, unless its result is durable.
SettledIsDurable ==
    \A s \in Strategies : \A p \in settled[s] : \E k \in Kinds : HasResult(p, k)

\* One episode is not counted twice, once as sold and once as resolved, over
\* any restarts, unless it was resolved by a poll while its exit order worked
\* (resolve_open_positions does not look at exit orders).
CountedOnce ==
    \A p \in Positions :
        /\ HasResult(p, "exit") /\ HasResult(p, "resolution")
        /\ results[p]["exit"].episode = results[p]["resolution"].episode
        => /\ results[p]["resolution"].by = "poll"
           /\ results[p]["resolution"].overlapped

\* A position with a result is not shown as open: the result closed its row,
\* and no late or repeated event of the same episode opens it again, unless
\* the row did not show that episode yet.
ReportedIsNotOpen ==
    \A p \in Positions, k \in Kinds :
        /\ HasResult(p, k) /\ row[p].status = "OPEN"
        /\ results[p][k].episode = row[p].episode
        => results[p][k].unshown

\* What the process lost, or settled under the same id before, aside, an open
\* position of a resolved market is settled or closed in the end, and an open
\* row of the legacy tables, which no Cache ever shows, is closed.
InNeed(p) == /\ p \in InView(Owner[p]) /\ resolved[p]
             /\ p \notin settled[Owner[p]] /\ ~HasResult(p, "resolution")
ResolvedIsSettled ==
    /\ \A p \in Traded : InNeed(p) ~> ~InNeed(p)
    /\ \A p \in Migrated : resolved[p] ~> row[p].status = "CLOSED"

\* An episode that an exit ended has its own result once its callbacks have
\* run, if no write failed.  With the id used once that holds; the result of a
\* later episode meets the key, or the result id, of the first.
FirstExitIsReported ==
    \A p \in Traded :
        /\ Quiet /\ cache[p].episode = 1 /\ cache[p].byExit /\ cache[p].held = 0
        /\ p \notin replays /\ faults = 0
        => \E k \in Kinds : HasResult(p, k) /\ results[p][k].episode = 1

Episodes == [p \in Positions |-> IF p \in Traded THEN cache[p].episode ELSE 0]
Ended == {p \in Traded : cache[p].byExit /\ cache[p].held = 0}
Decided == {p \in Positions : resolved[p]}

\* The abstract specification of SettlementContract: the results are a ledger in
\* which nothing is changed or removed, each entry is of the episode that an exit
\* ended or a resolution found, and a key that a strategy remembers has its entry.
Contract == INSTANCE SettlementContract WITH
    episode <- Episodes, ended <- Ended, decided <- Decided,
    ledger <- results, keys <- settled, Nothing <- None
LedgerIsFinal == Contract!Spec
=============================================================================
