---------------------------- MODULE OrderReports ----------------------------
(***************************************************************************)
(* The row of an order in report_orders, as sqlite_store.py derives it     *)
(* from the order's events.  A lifecycle event is written by the callback  *)
(* that receives it; a fill goes through the telemetry queue and is        *)
(* written later by another thread, so the row sees them in either order.  *)
(***************************************************************************)
EXTENDS Naturals

CONSTANTS
    MaxClock,   \* bound: distinct microseconds of ts_event
    MaxIds      \* bound: events with the same ts_event

Instants == 0 .. MaxClock
\* Event ids are random and only compared at one instant.  The rank that the
\* first gets differs from instant to instant, the others get any that is free:
\* with two ranks, a second event is above the first or below it.
Ids == 1 .. MaxIds
FirstId(at) == 1 + (at % MaxIds)

\* The status of a lifecycle event is the name of its class.  CANCELED stands
\* for EXPIRED, REJECTED and DENIED too; no strategy updates an order.
Lifecycle == {"SUBMITTED", "ACCEPTED", "CANCELED"}
Event == [kind : Lifecycle \cup {"FILL"}, at : Instants, id : Ids]
StatusOf(e) == IF e.kind = "FILL" THEN "FILLED" ELSE e.kind
RowOf(e) == [status |-> StatusOf(e), at |-> e.at, id |-> e.id]

Statuses == Lifecycle \cup {"FILLED"}
NoRow == [status |-> "absent", at |-> 0, id |-> 0]
Row == {NoRow} \cup [status : Statuses, at : Instants, id : Ids]

LaterThan(e, r) == e.at > r.at \/ (e.at = r.at /\ e.id > r.id)

\* A lifecycle event, in _upsert_report_current_state: it never replaces a
\* filled row, and otherwise the later event wins, then the greater id.
WithLifecycle(row, e) ==
    IF row = NoRow \/ (row.status # "FILLED" /\ LaterThan(e, row)) THEN RowOf(e)
    ELSE row

\* Fault: a fill of the same time as a lifecycle event has no precedence.
WithFillById(row, e) ==
    IF row = NoRow \/ LaterThan(e, row) THEN RowOf(e) ELSE row

\* A fill, in _apply_fill_to_report_order_state.  The runtime's fill events
\* name no status and no remaining quantity, and the row's quantity is set to
\* the fill's before the two are compared: the status is always FILLED.
WithFill(row, e) ==
    LET wins == \/ row = NoRow
                \/ e.at > row.at
                \/ /\ e.at = row.at
                   /\ row.status # "FILLED" \/ e.id > row.id
    IN IF wins THEN RowOf(e) ELSE row

\* insert_system_event: a repeated event is skipped by its id, then the row is
\* brought up to date in the same transaction.
Written(row, e) == IF e.kind = "FILL" THEN WithFill(row, e) ELSE WithLifecycle(row, e)
=============================================================================
