----------------------------- MODULE Telemetry -----------------------------
(***************************************************************************)
(* The two outboxes between the strategies and the world: the telemetry    *)
(* outbox of observability.py, whose thread writes the fills and asks for  *)
(* the daily report, and the notification outbox of                        *)
(* signal_notifications.py, whose worker publishes signals and generates   *)
(* the reports.  The strategy thread feeds both and waits for neither.     *)
(***************************************************************************)
EXTENDS OrderReports, Sequences, FiniteSets

CONSTANTS
    Orders,
    QueueSize,  \* telemetry_queue_size
    Retries,    \* telemetry_sqlite_lock_retries
    MaxEvents,  \* bound: events of one order
    MaxLost,    \* bound: lifecycle events of an order that the store refuses
    MaxDays,    \* bound: days that pass
    MaxSignals, \* bound: signals that wait in the outbox, later ones left out
    MaxDeaths   \* bound: deaths of the worker

ASSUME TelemetryAssumption ==
    /\ QueueSize \in Nat \ {0} /\ Retries \in Nat /\ MaxEvents \in Nat
    /\ MaxLost \in Nat
    /\ MaxDays \in Nat \ {0} /\ MaxSignals \in Nat \ {0} /\ MaxDeaths \in Nat

VARIABLES
    running,    \* whether stop was not called yet
    history,    \* the events that the strategy received for each order
    written,    \* those of them that are in system_events
    rows,       \* report_orders
    queue,      \* _telemetry_queue: fills, each with its order
    thread,     \* the telemetry thread: what it does next
    writing,    \* the fill it has taken, if any
    tries,      \* how often the store was locked for that fill
    strategy,   \* the strategy thread: "idle", or inside a notification
    today,      \* the number of the day
    asking,     \* the day whose report the telemetry thread is asking for
    requested,  \* _requested_daily_reports
    generated,  \* days whose report was generated
    abandoned,  \* days whose report the worker died with
    outbox,     \* _OUTBOX: "signal", or the day of a report
    worker,     \* "dead" (or not started yet), "waiting" or "working"
    job,        \* what it is working on
    deaths

vars == <<running, history, written, rows, queue, thread, writing, tries,
          strategy, today, asking, requested, generated,
          abandoned, outbox, worker, job, deaths>>
reports == <<history, written, rows>>
fills == <<queue, writing, tries>>
results == <<generated, abandoned, job, deaths>>
notices == <<asking, requested, outbox, worker, results>>

Days == 0 .. MaxDays
Signal == MaxDays + 1       \* a job that is not a day
Fill == [order : Orders, event : Event]

TypeOK ==
    /\ running \in BOOLEAN
    /\ history \in [Orders -> Seq(Event)]
    /\ written \in [Orders -> SUBSET Event]
    /\ rows \in [Orders -> Row]
    /\ queue \in Seq(Fill)
    /\ thread \in {"poll", "put", "drain", "write", "ended"}
    /\ writing \in Seq(Fill) /\ Len(writing) <= 1
    /\ tries \in 0 .. Retries
    /\ strategy \in {"idle", "put"}
    /\ today \in Days /\ asking \in Days
    /\ requested \subseteq Days /\ generated \subseteq Days /\ abandoned \subseteq Days
    /\ outbox \in Seq(Days \cup {Signal})
    /\ worker \in {"dead", "waiting", "working"}
    /\ job \in Days \cup {Signal}
    /\ deaths \in 0 .. MaxDeaths

Init ==
    /\ running = TRUE
    /\ history = [o \in Orders |-> << >>]
    /\ written = [o \in Orders |-> {}]
    /\ rows = [o \in Orders |-> NoRow]
    /\ queue = << >> /\ thread = "poll" /\ writing = << >> /\ tries = 0
    /\ asking = 0
    /\ strategy = "idle" /\ today = 1
    /\ requested = {} /\ generated = {} /\ abandoned = {}
    /\ outbox = << >> /\ worker = "dead" /\ job = Signal /\ deaths = 0

-----------------------------------------------------------------------------
(* The strategy thread: one callback at a time.                            *)

Kinds(o) == {history[o][i].kind : i \in DOMAIN history[o]}

\* The order an engine gives to the events of an order.
Follows(kind, o) ==
    CASE kind = "SUBMITTED" -> Kinds(o) = {}
      [] kind = "ACCEPTED"  -> Kinds(o) = {"SUBMITTED"}
      [] OTHER              -> Kinds(o) # {} /\ "CANCELED" \notin Kinds(o)

\* A new event of the order, at a time of the engine's clock.
NewEvents(o, kinds) ==
    {e \in Event : /\ e.kind \in kinds /\ Follows(e.kind, o)
                   /\ \A i \in DOMAIN history[o] : e.at >= history[o][i].at
                   /\ \A i \in DOMAIN history[o] :
                        history[o][i].at = e.at => history[o][i].id # e.id
                   /\ (\A i \in DOMAIN history[o] : history[o][i].at # e.at)
                        => e.id = FirstId(e.at)}

Store(o, e) == /\ written' = [written EXCEPT ![o] = @ \cup {e}]
               /\ rows' = [rows EXCEPT ![o] = Written(@, e)]

Lost(o) == {i \in DOMAIN history[o] : /\ history[o][i].kind # "FILL"
                                     /\ history[o][i] \notin written[o]}

\* handle_order_lifecycle_event: written at once, or lost when the store
\* fails (record_observability notes it).
OrderEvent(o) ==
    /\ running /\ strategy = "idle" /\ Len(history[o]) < MaxEvents
    /\ \E e \in NewEvents(o, Lifecycle) :
          /\ history' = [history EXCEPT ![o] = Append(@, e)]
          /\ \/ Store(o, e)
             \/ Cardinality(Lost(o)) < MaxLost /\ UNCHANGED <<written, rows>>
    /\ UNCHANGED <<running, fills, thread, strategy, today, notices>>

\* handle_order_filled: queued, or dropped when the queue is full.
OrderFilled(o) ==
    /\ running /\ strategy = "idle" /\ Len(history[o]) < MaxEvents
    /\ \E e \in NewEvents(o, {"FILL"}) :
          /\ history' = [history EXCEPT ![o] = Append(@, e)]
          /\ queue' = IF Len(queue) < QueueSize
                      THEN Append(queue, [order |-> o, event |-> e]) ELSE queue
    /\ UNCHANGED <<running, written, rows, writing, tries, thread,
                   strategy, today, notices>>

\* Fault: a worker that was started once is taken to be there for good.
EnsuredOnce == IF worker = "dead" /\ deaths = 0 THEN "waiting" ELSE worker

\* _ensure_outbox_worker: a dead worker is replaced.
Ensured == IF worker = "dead" THEN "waiting" ELSE worker

Signals == {i \in DOMAIN outbox : outbox[i] = Signal}

\* _notify_accepted_signal and _notify_report_result: the worker is looked
\* after first, then the job is put; the worker can die in between.
Notify ==
    /\ running /\ strategy = "idle"
    /\ strategy' = "put"
    /\ worker' = Ensured
    /\ UNCHANGED <<running, reports, fills, thread, today, asking, requested,
                   outbox, results>>

NotifyPuts ==
    /\ strategy = "put" /\ strategy' = "idle"
    /\ outbox' = IF Cardinality(Signals) < MaxSignals
                 THEN Append(outbox, Signal) ELSE outbox
    /\ UNCHANGED <<running, reports, fills, thread, today, asking,
                   requested, worker, results>>

-----------------------------------------------------------------------------
(* The telemetry thread.                                                   *)

Ends == ~running /\ queue = << >>

\* The head of the loop of _telemetry_run, when the check for the report is
\* not due or yesterday's was asked for already.
Loop ==
    /\ thread = "poll"
    /\ thread' = IF Ends THEN "ended" ELSE "drain"
    /\ UNCHANGED <<running, reports, fills, strategy, today, notices>>

\* _poll_daily_report and _notify_daily_report: yesterday's report.
Request ==
    /\ thread = "poll" /\ ~Ends /\ today - 1 \notin requested
    /\ thread' = "put"
    /\ requested' = requested \cup {today - 1} /\ asking' = today - 1
    /\ worker' = Ensured
    /\ UNCHANGED <<running, reports, fills, strategy, today, outbox, results>>

RequestPuts ==
    /\ thread = "put" /\ thread' = "drain"
    /\ outbox' = Append(outbox, asking) /\ asking' = 0
    /\ UNCHANGED <<running, reports, fills, strategy, today, requested, worker,
                   results>>

\* drain_telemetry_once: the next event is taken from the queue, if any.
Drain ==
    /\ thread = "drain"
    /\ IF queue = << >> THEN thread' = "poll" /\ UNCHANGED <<queue, writing>>
       ELSE /\ thread' = "write"
            /\ writing' = << Head(queue) >> /\ queue' = Tail(queue)
    /\ UNCHANGED <<running, reports, tries, strategy, today, notices>>

\* Fault: an error of the store that is no lock ends the thread.
WriteRaises ==
    /\ thread = "write"
    /\ \/ /\ Store(writing[1].order, writing[1].event)
          /\ thread' = "poll" /\ writing' = << >> /\ tries' = 0
       \/ /\ tries < Retries /\ tries' = tries + 1
          /\ UNCHANGED <<written, rows, thread, writing>>
       \/ /\ thread' = "ended" /\ writing' = << >> /\ tries' = 0
          /\ UNCHANGED <<written, rows>>
    /\ UNCHANGED <<running, history, queue, strategy, today, notices>>

\* _write_telemetry_event: written; or tried again while the store is locked;
\* or given up, after so many tries or for another error.
Write ==
    /\ thread = "write"
    /\ \/ /\ Store(writing[1].order, writing[1].event)
          /\ thread' = "poll" /\ writing' = << >> /\ tries' = 0
       \/ /\ tries < Retries /\ tries' = tries + 1
          /\ UNCHANGED <<written, rows, thread, writing>>
       \/ /\ thread' = "poll" /\ writing' = << >> /\ tries' = 0
          /\ UNCHANGED <<written, rows>>
    /\ UNCHANGED <<running, history, queue, strategy, today, notices>>

Midnight ==
    /\ today < MaxDays /\ today' = today + 1
    /\ UNCHANGED <<running, reports, fills, thread, strategy, notices>>

-----------------------------------------------------------------------------
(* The worker of the notification outbox.                                  *)

Take ==
    /\ worker = "waiting" /\ outbox # << >>
    /\ worker' = "working" /\ job' = Head(outbox) /\ outbox' = Tail(outbox)
    /\ UNCHANGED <<running, reports, fills, thread, strategy, today,
                   asking, requested, generated, abandoned, deaths>>

\* A signal or a result is published, or its failure is audited.
Publish ==
    /\ worker = "working" /\ job = Signal
    /\ worker' = "waiting"
    /\ UNCHANGED <<running, reports, fills, thread, strategy, today,
                   asking, requested, outbox, results>>

\* _generate_daily_report_in_background: a report that is None or raises can
\* be asked for again.
Generates ==
    /\ worker = "working" /\ job # Signal
    /\ worker' = "waiting" /\ job' = Signal
    /\ \/ generated' = generated \cup {job} /\ UNCHANGED requested
       \/ requested' = requested \ {job} /\ UNCHANGED generated
    /\ UNCHANGED <<running, reports, fills, thread, strategy, today,
                   asking, outbox, abandoned, deaths>>

\* What is no Exception, a cancellation for one, ends the worker's loop.  The
\* key of the report that it worked on stays in _requested_daily_reports.
Die ==
    /\ worker # "dead" /\ deaths < MaxDeaths
    /\ worker' = "dead" /\ job' = Signal /\ deaths' = deaths + 1
    /\ abandoned' = IF worker = "working" /\ job # Signal
                    THEN abandoned \cup {job} ELSE abandoned
    /\ UNCHANGED <<running, reports, fills, thread, strategy, today,
                   asking, requested, outbox, generated>>

-----------------------------------------------------------------------------
(* The end of the node, after its strategies stopped.                      *)

Stop ==
    /\ running /\ strategy = "idle" /\ running' = FALSE
    /\ UNCHANGED <<reports, fills, thread, strategy, today, notices>>

\* The join of stop returns, after five seconds or because the thread ended,
\* and what is still queued is dropped, in turns with the thread.
Drop ==
    /\ ~running /\ queue # << >>
    /\ queue' = Tail(queue)
    /\ UNCHANGED <<running, reports, writing, tries, thread, strategy, today, notices>>

Next ==
    \/ \E o \in Orders : OrderEvent(o) \/ OrderFilled(o)
    \/ Notify \/ NotifyPuts
    \/ Loop \/ Request \/ RequestPuts \/ Drain \/ Write
    \/ Midnight \/ Take \/ Publish \/ Generates \/ Die
    \/ Stop \/ Drop

Spec == Init /\ [][Next]_vars

\* The threads run, and DAILY_REPORT_CHECK_INTERVAL_SEC passes again and again.
\* That a report can be generated at all is the assumption on Generates: it
\* fails a number of times, not for ever.
Fairness ==
    /\ WF_vars(Loop) /\ SF_vars(Request)
    /\ WF_vars(RequestPuts) /\ WF_vars(Drain) /\ WF_vars(Write)
    /\ WF_vars(NotifyPuts)
    /\ WF_vars(Take) /\ WF_vars(Publish) /\ WF_vars(Generates)
    /\ SF_vars(Generates /\ generated' # generated)
FairSpec == Spec /\ Fairness

-----------------------------------------------------------------------------
(* Properties.                                                             *)

Settled(o) == /\ history[o] # << >>
              /\ \A i \in DOMAIN history[o] : history[o][i] \in written[o]

\* A lifecycle event after the first fill: the row then depends on which of
\* the two threads writes first.
ClosesAfterFill(o) ==
    \E i, j \in DOMAIN history[o] :
        i < j /\ history[o][i].kind = "FILL" /\ history[o][j].kind # "FILL"

Precedes(a, b) ==
    \/ a.at < b.at
    \/ a.at = b.at /\ a.kind # "FILL" /\ b.kind = "FILL"
    \/ a.at = b.at /\ (a.kind = "FILL") = (b.kind = "FILL") /\ a.id < b.id

\* Whatever the two threads do, once all events of an order are written its
\* row shows the same one: the latest, a fill before another event of the same
\* time.  An order that is cancelled or updated after a fill is the exception.
RowsConverge ==
    \A o \in Orders :
        Settled(o) /\ ~ClosesAfterFill(o) =>
        \E e \in written[o] :
            /\ \A d \in written[o] \ {e} : Precedes(d, e)
            /\ rows[o] = RowOf(e)

Waiting(o) == \E i \in DOMAIN (queue \o writing) : (queue \o writing)[i].order = o

\* The telemetry thread decides every fill that was queued, by a write or by
\* giving up, however long the store stays locked, or stop drops it.
FillsAreDecided == \A o \in Orders : Waiting(o) ~> ~Waiting(o)

\* While signals are notified, yesterday's report is generated: over failed
\* attempts, a dead worker and a job that was put after the worker died, unless
\* the worker died with that report at work, or the process stops.
Overdue == today - 1 \notin generated \cup abandoned
ReportIsGenerated == []<>(strategy = "put") => (Overdue ~> (~Overdue \/ ~running))
=============================================================================
