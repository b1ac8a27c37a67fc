--------------------------- MODULE ReportResults ---------------------------
(***************************************************************************)
(* The result of a position, as reporting/exit_result.py computes it from  *)
(* an exit fill or from the outcome of the market, and what the store      *)
(* demands of it before it keeps it (domain/reporting_result.py).          *)
(*                                                                         *)
(* Prices are multiples of 1 / One.  A number that is missing or no finite *)
(* number is 0, a text that is missing or blank is "".  A stake that is    *)
(* shared between the fills of an exit is a fraction: the amounts of a     *)
(* result are multiples of 1 / scale.                                      *)
(***************************************************************************)
EXTENDS Integers

CONSTANT One    \* the price of a share that won

ExitModes == {"TAKE_PROFIT", "STOP_LOSS", "MAX_HOLD_TIME", "RESOLUTION"}
Statuses == {"WIN", "LOSS", "VOID"}
None == "none"

FirstOf(a, b) == IF a # "" THEN a ELSE b
FirstPositive(a, b) == IF a > 0 THEN a ELSE b

\* exit_mode_from_reason: the reasons that are modes.
ModeOf(reason) == IF reason \in ExitModes THEN reason ELSE None

\* entry_price, or the average where there is none.
EntryPrice(m) == FirstPositive(m.entry, m.average)

\* What the quantity cost: its share of the position's stake where both are
\* known, the entry price otherwise.  The second is in the scale of the first.
SharesStake(m) == m.stake > 0 /\ m.positionShares > 0
Scale(m) == IF SharesStake(m) THEN m.positionShares ELSE 1
StakeOf(m, shares) == IF SharesStake(m) THEN m.stake * shares ELSE EntryPrice(m) * shares

\* What a result says of itself besides the amounts; the names that it cannot
\* do without.
Named(m) == /\ m.side \in {"UP", "DOWN"}
            /\ m.market # "" /\ m.slug # "" /\ m.asset # "" /\ m.timeframe # ""
SignalOf(m, kind) == FirstOf(m.signal, kind)
StrategyOf(m, name) ==
    LET s == FirstOf(FirstOf(m.owner, name), m.strategy)
    IN IF s \in {"", "native_exit"} THEN FirstOf(name, "native_exit") ELSE s

\* The id of a result is a hash of these, so that a repeated one is known.
IdOf(kind, strategy, position) == <<kind, strategy, position>>

ResultOf(m, name, kind, position, shares, price, mode, status) ==
    [id |-> IdOf(kind, StrategyOf(m, name), position), position |-> position,
     signal |-> SignalOf(m, kind), strategy |-> StrategyOf(m, name),
     side |-> m.side, entry |-> EntryPrice(m), shares |-> shares,
     scale |-> Scale(m), stake |-> StakeOf(m, shares), outcome |-> price,
     settlement |-> shares * price * Scale(m),
     pnl |-> shares * price * Scale(m) - StakeOf(m, shares),
     mode |-> mode, status |-> status]

-----------------------------------------------------------------------------
(* An exit.                                                                *)

ExitPrice(m, price) == FirstPositive(price, m.exit)

\* The fee is ignored_v1, that is 0, in the profit of both.
ExitStatus(pnl) == IF pnl > 0 THEN "WIN" ELSE IF pnl < 0 THEN "LOSS" ELSE "VOID"

ExitIsKnown(m, price, shares) ==
    /\ ModeOf(m.reason) # None /\ m.position # ""
    /\ EntryPrice(m) > 0 /\ shares > 0 /\ ExitPrice(m, price) > 0
    /\ Named(m)

\* report_result_from_early_exit; None where something is missing.
EarlyExit(m, price, shares, name) ==
    IF ~ExitIsKnown(m, price, shares) THEN None
    ELSE LET px == ExitPrice(m, price)
             pnl == shares * px * Scale(m) - StakeOf(m, shares)
         IN ResultOf(m, name, "exit", m.position, shares, px,
                     ModeOf(m.reason), ExitStatus(pnl))

-----------------------------------------------------------------------------
(* The resolution of the market.                                           *)

ReportPosition(m) == FirstOf(m.reportPosition, m.position)
HeldShares(m) == IF m.positionShares # 0 THEN m.positionShares ELSE m.quantity

\* A market that is split between its sides gives neither a win nor a loss.
ResolutionStatus(outcome) ==
    IF outcome = One THEN "WIN" ELSE IF outcome = 0 THEN "LOSS" ELSE "VOID"

ResolutionIsKnown(m, outcome) ==
    /\ ReportPosition(m) # ""
    /\ EntryPrice(m) > 0 /\ HeldShares(m) > 0
    /\ outcome \in 0 .. One
    /\ Named(m)

\* report_result_from_resolution.
Resolution(m, outcome, name) ==
    IF ~ResolutionIsKnown(m, outcome) THEN None
    ELSE ResultOf(m, name, "resolution", ReportPosition(m), HeldShares(m), outcome,
                  "RESOLUTION", ResolutionStatus(outcome))

-----------------------------------------------------------------------------
(* The store.                                                              *)

\* parse_report_result_row: what insert_report_result and every query of
\* report_results demand.  The times that a result carries are the engine's.
Parses(r) ==
    /\ r.position # "" /\ r.signal # "" /\ r.strategy # ""
    /\ r.side \in {"UP", "DOWN"}
    /\ r.status \in {"WIN", "LOSS", "VOID", "SPLIT"}
    /\ r.mode \in ExitModes \cup {"UNKNOWN"}
    /\ r.entry > 0 /\ r.shares > 0 /\ r.stake > 0
    /\ r.outcome >= 0 /\ r.settlement >= 0
=============================================================================
