----------------------- MODULE MCDailyReportContent -----------------------
(***************************************************************************)
(* The operators of DailyReportContent and ReportResults against what they *)
(* are meant to compute, for all inputs of a small size.  TLC evaluates    *)
(* the assumptions before it runs the module that extends this one.        *)
(***************************************************************************)
EXTENDS Integers, FiniteSetsExt

CONSTANT none

C == INSTANCE DailyReportContent WITH Limit <- 2, FallbackLimit <- 2, None <- none
R == INSTANCE ReportResults WITH One <- 2

Day(n) == [start |-> 2 * n, end |-> 2 * n + 2]      \* two days, of two times each
Times == 0 .. 3

Counts(f) == MapThenSumSet(LAMBDA k : f[k], DOMAIN f)

-----------------------------------------------------------------------------
(* Results of the day.                                                     *)

Result(i) == [id : {i}, at : {0}, parses : {TRUE}, status : {"WIN", "LOSS", "VOID", "SPLIT"},
              pnl : {-1, 2}, roi : {1, none}, strategy : {"a", "b"},
              confidence : {none, 75}, entry : {1}]
SomeResult(i) == {r \in Result(i) : (r.status = "WIN") = (r.pnl > 0)}
ResultSets == {{r1, r2} : r1 \in SomeResult(1), r2 \in SomeResult(2)} \cup {{}}

\* No result is lost or counted twice: what the strategies show adds up to
\* what the report shows, and so do the buckets of the calibration; the
\* profits less the losses are the profit of the day, the one that the equity
\* is derived from.
ASSUME ResultsAddUp ==
    \A results \in ResultSets :
        LET all == C!Outcomes(C!Closed(results))
            by == C!Breakdown(LAMBDA r : r.strategy, results)
            calibration == C!Calibration(results)
        IN /\ \A field \in {"closed", "wins", "losses", "voids", "pnl", "roi", "rois"} :
                 /\ Counts([s \in DOMAIN by |-> by[s][field]]) = all[field]
                 /\ Counts([b \in DOMAIN calibration |->
                               calibration[b].outcomes[field]]) = all[field]
           /\ all.wins + all.losses + all.voids
                 = all.closed - Cardinality({r \in results : r.status = "SPLIT"})
           /\ results # {} => C!DayClosedPnl(results) = all.pnl

-----------------------------------------------------------------------------
(* Orders and their fills.                                                 *)

Order(i) == [id : {i}, at : {0, 2}, updatedAt : {2}, intent : {"taker", none},
             status : {"FILLED", "REJECTED", "CANCELLED", "INVALID"}, reason : {"late", none},
             invalid : BOOLEAN, inferred : {FALSE}, book : {"stale", none}]
SomeOrder(i) == {o \in Order(i) : (o.status = "INVALID") = o.invalid}
Fill(i) == [id : {i}, order : {1, 2, 9}, at : {2}, quantity : {1}, price : {1},
            intent : {"maker", none}, partial : {i = 1}]
NoMetrics == none
Empty == [results |-> {}, fills |-> {}, events |-> {}, orders |-> {}, signals |-> {}]

\* An order or a fill is counted under one intent, a rejection under one
\* reason; the fills of an order are counted under the order's intent on the
\* day of the fill, also when the order was made the day before or its row
\* is invalid; and a day with an invalid order does not look complete.
ASSUME FillsFollowOrders ==
    \A o1 \in SomeOrder(1) : \A f1 \in Fill(1), f2 \in Fill(2) :
    \A orders \in {{o1}, {o1, [o1 EXCEPT !.id = 2, !.at = 2, !.intent = "maker"]}} :
        LET store == [Empty EXCEPT !.orders = orders, !.fills = {f1, f2}]
            report == C!BuildReport(store, none, NoMetrics, Day(1), 1, none, none)
            Meant(f) == IF f.intent # none THEN f.intent
                        ELSE IF f.order \in {o.id : o \in orders}
                        THEN LET o == CHOOSE x \in orders : x.id = f.order
                             IN IF o.intent = none THEN "default" ELSE o.intent
                        ELSE "default"
        IN /\ report.fillsByIntent = C!CountBy(Meant, {f1, f2})
           /\ Counts(report.fillsByIntent) = report.fills /\ report.fills = 2
           /\ Counts(report.partialByIntent) = 1
           /\ Counts(report.attemptsByIntent) = report.orders
           /\ report.orders = Cardinality({o \in orders : o.at = 2 /\ ~o.invalid})
           /\ Counts(report.rejectsByReason) = report.rejected
           /\ report.rejected + report.stale <= report.orders
           /\ (\E o \in orders : o.invalid) => report.status = "incomplete"

-----------------------------------------------------------------------------
(* The source of the fills.                                                *)

Midnight == {1, 2}          \* the last time of a day, and the first of the next
Native(i) == [id : {i, none}, order : {1}, at : Midnight, quantity : {0, 1}, price : {1},
              projects : BOOLEAN]
Durable(i) == {[id |-> i, order |-> 1, at |-> t, quantity |-> q, price |-> 1] :
                  t \in Midnight, q \in {0, 1}}
Written(i) == [id : {i}, order : {1}, at : Midnight \cup {none}, writtenAt : Midnight,
               quantity : {1}, price : {1}]
Caches == {none, {}} \cup {{f} : f \in Native(1)}
StoredFills == {{}} \cup {{f, g} : f \in Durable(1), g \in Durable(2)}
StoredEvents == {{}} \cup {{e, f} : e \in {x \in Written(1) : x.at = 2}, f \in Written(2)}

\* Every fill of a report is of its day and valid, no fill is counted on two
\* days, and the fills come from one source.  A report that calls itself
\* complete saw neither an invalid row nor a full page, and did not fall back
\* to the events; it counted the fills of the store, or else those of a Cache
\* that was there to ask.
ASSUME FillsAreOfTheDay ==
    \A durable \in StoredFills, cache \in Caches, events \in StoredEvents :
        LET store == [Empty EXCEPT !.fills = durable, !.events = events]
            Of(n) == C!FillsOf(store, cache, Day(n))
        IN /\ Of(0).fills \cap Of(1).fills = {}
           /\ \A n \in {0, 1} :
                 LET fills == Of(n).fills
                     complete == C!Inputs(store, cache, NoMetrics, Day(n)).reasons = {}
                 IN /\ \A f \in fills : f.quantity = 1 /\ C!InDay(f.at, Day(n))
                    /\ \/ fills \subseteq durable
                       \/ cache # none /\ fills \subseteq cache
                       \/ fills \subseteq events
                    /\ complete =>
                         /\ \A f \in durable : C!InDay(f.at, Day(n)) => f \in fills
                         /\ fills \subseteq durable \/ (cache # none /\ fills \subseteq cache)
                         /\ fills = {} => cache # none

-----------------------------------------------------------------------------
(* Lost telemetry.                                                         *)

Metrics == [backlog : {0}, drops : {0, 1}, dropAt : Times \cup {none},
            failures : {0, 1}, failureAt : {1, none}]

\* A loss whose time is known shows in the report of exactly one day.
ASSUME LossesShowOnce ==
    \A m \in Metrics :
        m.drops > 0 /\ m.dropAt # none =>
            \E n \in {0, 1} :
                /\ "telemetry_queue_drops" \in C!MetricReasons(m, Day(n))
                /\ "telemetry_queue_drops" \notin C!MetricReasons(m, Day(1 - n))

-----------------------------------------------------------------------------
(* The equity.                                                             *)

\* The net result of the day is the change of the equity, and where it comes
\* from the results alone it is their sum and the report says so.
ASSUME EquityIsNamed ==
    \A cache \in {none, {}}, portfolio \in {none, 0, 3}, account \in {none, 2},
       results \in ResultSets :
        LET store == [Empty EXCEPT !.results = results]
            report == C!BuildReport(store, cache, NoMetrics, Day(0), 1, portfolio, account)
        IN /\ report.equitySource = "report_results" =>
                 report.netPnl = report.outcomes.pnl /\ report.status = "incomplete"
           /\ report.equitySource = "starting_balance" =>
                 report.netPnl = 0 /\ report.outcomes.closed = 0
           /\ report.profit - report.loss = report.outcomes.pnl
           /\ report.drawdown > 0 <=> report.netPnl < 0

-----------------------------------------------------------------------------
(* The result of a position.                                               *)

Held == [reason : {"STOP_LOSS", "CLOSE"}, position : {"", "p"}, reportPosition : {"", "q"},
         entry : {0, 1}, average : {0, 1}, exit : {0}, positionShares : {-1, 0, 3},
         quantity : {2}, stake : {0, 3}, side : {"", "UP"}, market : {"m"}, slug : {"s"},
         asset : {"", "a"}, timeframe : {"t"}, signal : {"", "x"}, owner : {""},
         strategy : {"", "native_exit"}]

\* What the runtime computes is never refused by the store; a resolution is a
\* win at the price of a winning share only, an exit when it earned something,
\* and a position that costs no more than its shares can win loses nothing by
\* a win.
ASSUME ResultsAreKept ==
    \A m \in Held, name \in {"", "core"} :
        /\ \A outcome \in -1 .. 3 :
              LET r == R!Resolution(m, outcome, name)
              IN R!ResolutionIsKnown(m, outcome) =>
                    /\ R!Parses(r)
                    /\ r.status = "WIN" /\ r.stake <= 2 * r.shares * r.scale => r.pnl >= 0
                    /\ r.status = "LOSS" => r.pnl = -r.stake
        /\ \A price \in 0 .. 2, shares \in 0 .. 2 :
              LET r == R!EarlyExit(m, price, shares, name)
              IN R!ExitIsKnown(m, price, shares) =>
                    /\ R!Parses(r)
                    /\ r.status = "WIN" <=> r.pnl > 0
                    /\ r.status = "LOSS" <=> r.pnl < 0

\* The fills of an exit share the stake of the position among them: whatever
\* they are, their results together cost what the position cost.
ASSUME ExitsShareTheStake ==
    \A m \in {x \in Held : x.stake > 0 /\ x.positionShares > 0}, part \in 1 .. 2 :
        R!StakeOf(m, part) + R!StakeOf(m, m.positionShares - part) = m.stake * R!Scale(m)
=============================================================================
