------------------------- MODULE DailyReportContent -------------------------
(***************************************************************************)
(* What the daily report of a day says: app/daily_report/sources.py takes  *)
(* the rows of the day from the store and the Cache, equity.py the equity, *)
(* and reporting/daily_report.py counts.  A mean or a rate is the quotient *)
(* of a sum and a count that are given; it is left out.                    *)
(*                                                                         *)
(* A row is a record with an id and its time at; times and ids are numbers *)
(* in their order.  What is absent is None: the intent of an order or fill *)
(* that has none of its own, a profit, the reason of a rejection.          *)
(***************************************************************************)
EXTENDS Integers, FiniteSetsExt

CONSTANTS
    Limit,          \* _DAILY_PROJECTION_LIMIT
    FallbackLimit,  \* _FALLBACK_PROJECTION_LIMIT
    None            \* what is absent

Default == "default"

-----------------------------------------------------------------------------
(* The rows of a day.                                                      *)

\* A day is [start, end) in the report's time zone, whatever its length.
InDay(t, day) == day.start <= t /\ t < day.end

\* ORDER BY time, id LIMIT n.
FirstRows(Time(_), rows, n) ==
    LET Before(q, r) == Time(q) < Time(r) \/ (Time(q) = Time(r) /\ q.id < r.id)
    IN {r \in rows : Cardinality({q \in rows : Before(q, r)}) < n}

At(r) == r.at
DayRows(rows, day, n) == FirstRows(At, {r \in rows : InDay(r.at, day)}, n)

\* _valid_fill_projection.
ValidFill(f) == f.id # None /\ f.order # None /\ f.quantity > 0 /\ f.price > 0

\* query_json leaves out results that do not parse: after the LIMIT.
DayResults(rows, day) == {r \in DayRows(rows, day, Limit) : r.parses}

DayFills(fills, day) ==
    LET page == DayRows(fills, day, Limit)
    IN [valid |-> {f \in page : ValidFill(f)},
        invalid |-> Cardinality({f \in page : ~ValidFill(f)}),
        truncated |-> Cardinality(page) >= Limit]

\* _nautilus_fill_rows_for_day: an event that cannot be projected counts as
\* invalid whatever its time, one with wrong values only on its day.
CacheFills(cache, day) ==
    IF cache = None THEN [valid |-> {}, invalid |-> 0, available |-> FALSE]
    ELSE LET known == {f \in cache : f.projects /\ InDay(f.at, day)}
         IN [valid |-> {f \in known : ValidFill(f)},
             invalid |-> Cardinality({f \in cache : ~f.projects})
                         + Cardinality({f \in known : ~ValidFill(f)}),
             available |-> TRUE]

\* The fallback: fills in system_events.  The query selects by the time the
\* row was written, the report by the time of the event.
EventFills(events, day) ==
    LET page == FirstRows(LAMBDA e : e.writtenAt,
                          {e \in events : InDay(e.writtenAt, day)}, FallbackLimit)
        known == {e \in page : ValidFill(e) /\ e.at # None}
    IN [valid |-> {e \in known : InDay(e.at, day)},
        invalid |-> Cardinality(page \ known),
        truncated |-> Cardinality(page) >= FallbackLimit]

\* Which of the three sources the report counts: the first with a fill.  The
\* fallback is asked only where the others have none, and its invalid rows
\* and its truncation count only then.
FillsOf(store, cache, day) ==
    LET durable == DayFills(store.fills, day)
        native == CacheFills(cache, day)
        events == EventFills(store.events, day)
        invalid == durable.invalid + native.invalid
        Of(fills, bad, cut, reasons) ==
            [fills |-> fills, invalid |-> bad, truncated |-> cut, reasons |-> reasons]
    IN CASE durable.valid # {} -> Of(durable.valid, invalid, durable.truncated, {})
         [] durable.valid = {} /\ native.valid # {} ->
                Of(native.valid, invalid, durable.truncated, {})
         [] durable.valid = {} /\ native.valid = {} /\ events.valid # {} ->
                Of(events.valid, invalid + events.invalid,
                   durable.truncated \/ events.truncated,
                   {"fill_count_best_effort_fallback"})
         [] OTHER ->
                Of({}, invalid + events.invalid, durable.truncated,
                   IF native.available THEN {}
                   ELSE {"report_fill_projection_unavailable"})

\* Orders count on the day they were created, invalid ones also on the day
\* they were updated.
CreatedOrders(orders, day) == DayRows(orders, day, Limit)
UpdatedInvalid(orders, day) ==
    {o \in orders : o.status = "INVALID" /\ InDay(o.updatedAt, day)}
InvalidOrders(orders, day) ==
    LET updated == FirstRows(LAMBDA o : o.updatedAt, UpdatedInvalid(orders, day), Limit)
    IN {o \in CreatedOrders(orders, day) \cup updated : o.invalid}
DayOrders(orders, day) == {o \in CreatedOrders(orders, day) : ~o.invalid}

\* is_rejected_order_payload.
IsRejected(o) == o.status = "REJECTED" \/ (o.status = "CANCELLED" /\ o.reason # None)

\* _telemetry_incomplete_reasons, the part that the health metrics give: what
\* was lost counts on the day of the last loss, a backlog on any day.
MetricReasons(metrics, day) ==
    IF metrics = None THEN {}
    ELSE {r \in {"telemetry_writer_backlog"} : metrics.backlog > 0}
         \cup {r \in {"telemetry_queue_drops"} :
                  metrics.drops > 0 /\ metrics.dropAt # None /\ InDay(metrics.dropAt, day)}
         \cup {r \in {"telemetry_write_failures"} :
                  metrics.failures > 0 /\ metrics.failureAt # None
                  /\ InDay(metrics.failureAt, day)}

\* _collect_daily_report_inputs.
Inputs(store, cache, metrics, day) ==
    LET source == FillsOf(store, cache, day)
        created == {o \in store.orders : InDay(o.at, day)}
        Reason(name, holds) == IF holds THEN {name} ELSE {}
    IN [results |-> DayResults(store.results, day),
        fills |-> source.fills,
        orders |-> DayOrders(store.orders, day),
        rejects |-> {o \in DayOrders(store.orders, day) : IsRejected(o)},
        signals |-> DayRows(store.signals, day, Limit),
        reasons |->
            source.reasons
            \cup Reason("report_fill_projection_invalid", source.invalid > 0)
            \cup Reason("report_order_projection_invalid",
                        InvalidOrders(store.orders, day) # {})
            \cup Reason("report_order_creation_time_inferred",
                        \E o \in CreatedOrders(store.orders, day) : o.inferred)
            \cup Reason("report_order_projection_truncated",
                        \/ Cardinality(created) > Limit
                        \/ Cardinality(UpdatedInvalid(store.orders, day)) > Limit)
            \cup Reason("report_result_projection_truncated",
                        Cardinality(DayResults(store.results, day)) >= Limit)
            \cup Reason("report_signal_projection_truncated",
                        Cardinality(DayRows(store.signals, day, Limit)) >= Limit)
            \cup Reason("report_fill_projection_truncated", source.truncated)
            \cup MetricReasons(metrics, day)]

-----------------------------------------------------------------------------
(* The equity.                                                             *)

IsClosed(r) == r.status \in {"WIN", "LOSS", "VOID", "SPLIT"}
Closed(results) == {r \in results : IsClosed(r)}

\* The sum of what is present.
SumOf(Value(_), rows) == MapThenSumSet(Value, {r \in rows : Value(r) # None})

\* _day_closed_pnl: None without a closed result that has a profit or loss.
DayClosedPnl(results) ==
    IF \A r \in Closed(results) : r.pnl = None THEN None
    ELSE SumOf(LAMBDA r : r.pnl, Closed(results))

\* _report_equity_inputs: the portfolio, else the account, else what the day's
\* results add to the starting balance.
Equity(starting, cache, portfolio, account, pnl) ==
    CASE cache # None /\ portfolio # None -> [ending |-> portfolio, source |-> "portfolio"]
      [] cache # None /\ portfolio = None /\ account # None ->
            [ending |-> account, source |-> "account_balance"]
      [] pnl = None /\ (cache = None \/ (portfolio = None /\ account = None)) ->
            [ending |-> starting, source |-> "starting_balance"]
      [] OTHER -> [ending |-> starting + pnl, source |-> "report_results"]

\* _max_drawdown of the curve <<starting, ending>>, times the peak.
Drawdown(starting, ending) ==
    IF starting > 0 /\ ending < starting THEN starting - ending ELSE 0

-----------------------------------------------------------------------------
(* The report.                                                             *)

CountBy(Key(_), rows) == [k \in {Key(r) : r \in rows} |-> Cardinality({r \in rows : Key(r) = k})]

\* _order_intent.
IntentOf(o) == IF o.intent = None THEN Default ELSE o.intent

\* _fill_payloads_with_order_intents and _execution_aggregates: the intent of
\* a fill is its own, or that of its order, taken from the day's orders where
\* it is one of them and from the store where it is not.
FillIntent(f, orders, stored) ==
    LET Is(o) == o.id = f.order
    IN CASE f.intent # None -> f.intent
         [] f.intent = None /\ \E o \in orders : Is(o) ->
                IntentOf(CHOOSE o \in orders : Is(o))
         [] f.intent = None /\ (\A o \in orders : ~Is(o)) /\ (\E o \in stored : Is(o)) ->
                IntentOf(CHOOSE o \in stored : Is(o))
         [] OTHER -> Default

Outcomes(rows) ==
    LET With(s) == Cardinality({r \in rows : r.status = s})
    IN [closed |-> Cardinality(rows),
        wins |-> With("WIN"), losses |-> With("LOSS"), voids |-> With("VOID"),
        pnl |-> SumOf(LAMBDA r : r.pnl, rows), roi |-> SumOf(LAMBDA r : r.roi, rows),
        rois |-> Cardinality({r \in rows : r.roi # None})]

\* _breakdown, by strategy, asset or timeframe, and the leaderboard of
\* strategy_stats.py, which is the same rows in the order of their profit.
Breakdown(Key(_), rows) ==
    [k \in {Key(r) : r \in rows} |-> Outcomes({r \in rows : Key(r) = k})]

\* calibration_breakdown: the results of a strategy with about the same
\* confidence, in hundredths; what is no number counts as low.
ConfidenceBucket(c) ==
    IF c = None THEN "low" ELSE IF c >= 75 THEN "high" ELSE IF c >= 55 THEN "medium" ELSE "low"
Calibration(rows) ==
    LET Bucket(r) == <<r.strategy, ConfidenceBucket(r.confidence)>>
    IN [k \in {Bucket(r) : r \in rows} |->
            LET mine == {r \in rows : Bucket(r) = k}
            IN [outcomes |-> Outcomes(mine),
                prices |-> SumOf(LAMBDA r : r.entry, mine),
                calibrated |-> Cardinality(mine) >= 30]]

\* build_daily_report.
Report(inputs, equity, starting, stored) ==
    LET closed == Closed(inputs.results)
        Intent(f) == FillIntent(f, inputs.orders, stored)
        known == {r \in closed : r.pnl # None}
    IN [signals |-> Cardinality(inputs.signals),
        orders |-> Cardinality(inputs.orders),
        fills |-> Cardinality(inputs.fills),
        rejected |-> Cardinality(inputs.rejects),
        stale |-> Cardinality({o \in inputs.orders : o.status = "FILLED" /\ o.book = "stale"}),
        attemptsByIntent |-> CountBy(IntentOf, inputs.orders),
        fillsByIntent |-> CountBy(Intent, inputs.fills),
        partialByIntent |-> CountBy(Intent, {f \in inputs.fills : f.partial}),
        rejectsByReason |-> CountBy(LAMBDA o : IF o.reason = None THEN "ORDER_REJECTED"
                                               ELSE o.reason, inputs.rejects),
        outcomes |-> Outcomes(closed),
        profit |-> MapThenSumSet(LAMBDA r : r.pnl, {r \in known : r.pnl > 0}),
        loss |-> MapThenSumSet(LAMBDA r : -r.pnl, {r \in known : r.pnl < 0}),
        byStrategy |-> Breakdown(LAMBDA r : r.strategy, closed),
        calibration |-> Calibration(closed),
        netPnl |-> equity.ending - starting,
        equitySource |-> equity.source,
        drawdown |-> Drawdown(starting, equity.ending),
        status |-> IF inputs.reasons = {} THEN "complete" ELSE "incomplete",
        reasons |-> inputs.reasons]

\* _build_report, of the store and what the Cache knows at this moment.
BuildReport(store, cache, metrics, day, starting, portfolio, account) ==
    LET inputs == Inputs(store, cache, metrics, day)
        equity == Equity(starting, cache, portfolio, account, DayClosedPnl(inputs.results))
        derived == IF equity.source = "report_results"
                   THEN {"equity_derived_from_report_results"} ELSE {}
    IN Report([inputs EXCEPT !.reasons = @ \cup derived], equity, starting, store.orders)
=============================================================================
