---------------------------- MODULE HealthAlerts ----------------------------
(***************************************************************************)
(* The notices about the health of the runtime.  LivenessWatchdog polls on *)
(* a thread of its own, decides by evaluate_liveness_alert whether to tell *)
(* the operator, and submits the notice to HealthAlertDispatcher, whose    *)
(* worker thread sends it and tries again until it is sent or stopped.     *)
(* The main thread starts and stops both.                                  *)
(*                                                                         *)
(* What a poll sees of the runtime is its result: "ok", "failing", which   *)
(* must last before anyone is told, or "fatal", which need not.  The text  *)
(* of an alert (its minutes, reason and conditions) is a member of Alerts. *)
(***************************************************************************)
EXTENDS Integers, Sequences, FiniteSets

CONSTANTS
    Alerts,          \* the texts an alert may have
    Threads,         \* identities of the threads that may be created
    QueueSize,       \* alert.send_queue_size
    MinUnhealthy,    \* alert.min_unhealthy_sec
    MinFailures,     \* alert.min_consecutive_failures
    MaxFailedSends   \* bound on the sends that fail

None == "none"

Recovered == "recovered"

ASSUME AlertsAssumption ==
    /\ None \notin Alerts /\ Recovered \notin Alerts /\ None \notin Threads
    /\ QueueSize \in Nat \ {0} /\ MinUnhealthy \in Nat /\ MinFailures \in Nat
    /\ MaxFailedSends \in Nat

Messages == Alerts \union {Recovered}

VARIABLES
    runtime,      \* what evaluate_liveness reports now
    state,        \* _state, the AlertState of the last poll
    poller,       \* the threads that run LivenessWatchdog._run
    worker,       \* the threads that run HealthAlertDispatcher._run
    watch,        \* the watchdog's _thread and _stop
    dispatcher,   \* the dispatcher's _thread, _stop and _inflight_message
    queue,        \* the dispatcher's _queue
    control,      \* where the main thread is in LivenessWatchdog.stop
    told,         \* the last notice the operator has received
    deduplicated, \* stats.deduplicated > 0
    interrupted,  \* a stop has given up a notice that was being sent
    failedSends   \* how many sends have failed

alertVars == <<runtime, state, poller, worker, watch, dispatcher, queue, control,
              told, deduplicated, interrupted, failedSends>>

NoSince == -1

States == [since    : NoSince..MinUnhealthy,  \* unhealthy_since, as its age
           failures : 0..MinFailures,        \* consecutive_failures
           notified : BOOLEAN]

Fresh == [since |-> NoSince, failures |-> 0, notified |-> FALSE]

\* A decision of a poll travels with the poller until the notice is submitted.
Decisions == [state : States, message : Messages \union {None}]

NoDecision == [state |-> Fresh, message |-> None]

Pollers == [stage : {"none", "wait", "submit", "put"}, decision : Decisions]

Workers == [stage   : {"none", "loop", "get", "mark", "retry", "sending", "clear"},
            message : Messages \union {None}]

NoPoller == [stage |-> "none", decision |-> NoDecision]

NoWorker == [stage |-> "none", message |-> None]

AlertsInit ==
    /\ runtime = "ok"
    /\ state = Fresh
    /\ poller = [t \in Threads |-> NoPoller]
    /\ worker = [t \in Threads |-> NoWorker]
    /\ watch = [thread |-> None, stop |-> FALSE]
    /\ dispatcher = [thread |-> None, stop |-> FALSE, inflight |-> None]
    /\ queue = <<>>
    /\ control = "idle"
    /\ told = None
    /\ deduplicated = FALSE /\ interrupted = FALSE
    /\ failedSends = 0
-----------------------------------------------------------------------------
\* The main thread.

Alive(threads, handle) == handle # None /\ threads[handle].stage # "none"

\* Threads are alike: a new one takes any identity that no living one has.
Free(threads) == {t \in Threads : threads[t].stage = "none"}

Created(threads) == CHOOSE t \in Free(threads) : TRUE

RunWorker ==
    /\ Free(worker) # {}
    /\ LET t == Created(worker) IN
          /\ worker' = [worker EXCEPT ![t].stage = "loop"]
          /\ dispatcher' = [dispatcher EXCEPT !.stop = FALSE, !.thread = t]

\* Fault: a worker is started while the last one is still sending.
WorkerAlwaysStarts == RunWorker

\* HealthAlertDispatcher.start.
StartWorker ==
    IF Alive(worker, dispatcher.thread) THEN UNCHANGED <<worker, dispatcher>>
    ELSE RunWorker

\* LivenessWatchdog.start; while its thread is alive it does nothing.
Start ==
    /\ control = "idle" /\ ~Alive(poller, watch.thread)
    /\ StartWorker
    /\ Free(poller) # {}
    /\ LET t == Created(poller) IN
          /\ poller' = [poller EXCEPT ![t].stage = "wait"]
          /\ watch' = [watch EXCEPT !.stop = FALSE, !.thread = t]
    /\ UNCHANGED <<runtime, state, queue, control, told, deduplicated, interrupted,
                   failedSends>>

\* LivenessWatchdog.stop.
Stop ==
    /\ control = "idle"
    /\ watch' = [watch EXCEPT !.stop = TRUE]
    /\ control' = "joinPoller"
    /\ UNCHANGED <<runtime, state, poller, worker, dispatcher, queue, told,
                   deduplicated, interrupted, failedSends>>

\* The join ends with the thread, or after 5 s without it: then the handle is
\* kept.  The dispatcher is stopped next.
JoinPoller ==
    /\ control = "joinPoller"
    /\ watch' = IF Alive(poller, watch.thread) THEN watch
                   ELSE [watch EXCEPT !.thread = None]
    /\ dispatcher' = [dispatcher EXCEPT !.stop = TRUE]
    /\ control' = "joinWorker"
    /\ UNCHANGED <<runtime, state, poller, worker, queue, told, deduplicated,
                   interrupted, failedSends>>

JoinWorker ==
    /\ control = "joinWorker"
    /\ dispatcher' = IF Alive(worker, dispatcher.thread) THEN dispatcher
                     ELSE [dispatcher EXCEPT !.thread = None]
    /\ control' = "idle"
    /\ UNCHANGED <<runtime, state, poller, worker, watch, queue, told,
                   deduplicated, interrupted, failedSends>>
-----------------------------------------------------------------------------
\* evaluate_liveness_alert.

AtMost(n, cap) == IF n > cap THEN cap ELSE n

\* Fault: the unhealthy time is counted from the last poll.
DecideFromLastPoll(previous, health, text) ==
    LET since    == 0
        failures == AtMost(previous.failures + 1, MinFailures)
        seen     == [since |-> since, failures |-> failures,
                     notified |-> previous.notified]
        due      == /\ ~previous.notified
                    /\ \/ health = "fatal"
                       \/ since = MinUnhealthy /\ failures = MinFailures
    IN  IF health = "ok"
        THEN [state |-> Fresh,
              message |-> IF previous.notified THEN Recovered ELSE None]
        ELSE IF due THEN [state |-> [seen EXCEPT !.notified = TRUE], message |-> text]
        ELSE [state |-> seen, message |-> None]

Decide(previous, health, text) ==
    LET since    == IF previous.since = NoSince THEN 0 ELSE previous.since
        failures == AtMost(previous.failures + 1, MinFailures)
        seen     == [since |-> since, failures |-> failures,
                     notified |-> previous.notified]
        due      == /\ ~previous.notified
                    /\ \/ health = "fatal"
                       \/ since = MinUnhealthy /\ failures = MinFailures
    IN  IF health = "ok"
        THEN [state |-> Fresh,
              message |-> IF previous.notified THEN Recovered ELSE None]
        ELSE IF due THEN [state |-> [seen EXCEPT !.notified = TRUE], message |-> text]
        ELSE [state |-> seen, message |-> None]
-----------------------------------------------------------------------------
\* The watchdog's thread: poll_once, with its submit.

PollerExits(t) ==
    /\ poller[t].stage = "wait" /\ watch.stop
    /\ poller' = [poller EXCEPT ![t] = NoPoller]
    /\ UNCHANGED <<runtime, state, worker, watch, dispatcher, queue, control, told,
                   deduplicated, interrupted, failedSends>>

PollOnce(t) ==
    /\ poller[t].stage = "wait" /\ ~watch.stop
    /\ \E text \in Alerts : LET d == Decide(state, runtime, text) IN
          IF d.message = None
          THEN state' = d.state /\ UNCHANGED poller
          ELSE /\ poller' = [poller EXCEPT ![t].stage = "submit", ![t].decision = d]
               /\ UNCHANGED state
    /\ UNCHANGED <<runtime, worker, watch, dispatcher, queue, control, told,
                   deduplicated, interrupted, failedSends>>

PollIsOver(t) == poller' = [poller EXCEPT ![t] = [NoPoller EXCEPT !.stage = "wait"]]

\* An identical notice is being sent: it stands for this one.
SubmitDeduplicates(t) ==
    /\ poller[t].stage = "submit"
    /\ dispatcher.inflight = poller[t].decision.message
    /\ state' = poller[t].decision.state
    /\ deduplicated' = TRUE
    /\ PollIsOver(t)
    /\ UNCHANGED <<runtime, worker, watch, dispatcher, queue, control, told,
                   interrupted, failedSends>>

SubmitChecks(t) ==
    /\ poller[t].stage = "submit"
    /\ dispatcher.inflight # poller[t].decision.message
    /\ poller' = [poller EXCEPT ![t].stage = "put"]
    /\ UNCHANGED <<runtime, state, worker, watch, dispatcher, queue, control, told,
                   deduplicated, interrupted, failedSends>>

\* Fault: the poll forgets that the queue was full.
StateWhenRejected(d) == d.state

\* The queue is full: what was notified before stays notified, and no more.
RejectedState(d) == [d.state EXCEPT !.notified = state.notified]

HasRoom == Len(queue) < QueueSize

SubmitPuts(t) ==
    LET d == poller[t].decision IN
        /\ poller[t].stage = "put"
        /\ queue' = IF HasRoom THEN Append(queue, d.message) ELSE queue
        /\ state' = IF HasRoom THEN d.state ELSE RejectedState(d)
        /\ PollIsOver(t)
        /\ UNCHANGED <<runtime, worker, watch, dispatcher, control, told,
                       deduplicated, interrupted, failedSends>>
-----------------------------------------------------------------------------
\* The dispatcher's thread.

\* The check of _stop at the head of the loop.
WorkerLoops(t) ==
    /\ worker[t].stage = "loop"
    /\ worker' = [worker EXCEPT ![t].stage = IF dispatcher.stop THEN "none" ELSE "get"]
    /\ UNCHANGED <<runtime, state, poller, watch, dispatcher, queue, control, told,
                   deduplicated, interrupted, failedSends>>

\* get(timeout=0.5); a stop is noticed only when it has returned.
WorkerFindsNothing(t) ==
    /\ worker[t].stage = "get" /\ queue = <<>>
    /\ worker' = [worker EXCEPT ![t].stage = "loop"]
    /\ UNCHANGED <<runtime, state, poller, watch, dispatcher, queue, control, told,
                   deduplicated, interrupted, failedSends>>

WorkerGets(t) ==
    /\ worker[t].stage = "get" /\ queue # <<>>
    /\ worker' = [worker EXCEPT ![t] = [stage |-> "mark", message |-> Head(queue)]]
    /\ queue' = Tail(queue)
    /\ UNCHANGED <<runtime, state, poller, watch, dispatcher, control, told,
                   deduplicated, interrupted, failedSends>>

WorkerMarks(t) ==
    /\ worker[t].stage = "mark"
    /\ dispatcher' = [dispatcher EXCEPT !.inflight = worker[t].message]
    /\ worker' = [worker EXCEPT ![t].stage = "retry"]
    /\ UNCHANGED <<runtime, state, poller, watch, queue, control, told,
                   deduplicated, interrupted, failedSends>>

\* The head of _deliver_with_retry: a stop gives the notice up.
WorkerTries(t) ==
    /\ worker[t].stage = "retry"
    /\ worker' = [worker EXCEPT ![t].stage =
                    IF dispatcher.stop THEN "clear" ELSE "sending"]
    /\ interrupted' = (interrupted \/ dispatcher.stop)
    /\ UNCHANGED <<runtime, state, poller, watch, dispatcher, queue, control, told,
                   deduplicated, failedSends>>

WorkerSends(t) ==
    /\ worker[t].stage = "sending"
    /\ told' = worker[t].message
    /\ worker' = [worker EXCEPT ![t].stage = "clear"]
    /\ UNCHANGED <<runtime, state, poller, watch, dispatcher, queue, control,
                   deduplicated, interrupted, failedSends>>

\* Every failure of _deliver_once: of the publisher, its loop, or the send, whose
\* timeout may come after the notice has been accepted.
SendFails(t) ==
    /\ worker[t].stage = "sending"
    /\ failedSends < MaxFailedSends /\ failedSends' = failedSends + 1
    /\ told' \in {told, worker[t].message}
    /\ worker' = [worker EXCEPT ![t].stage = "retry"]
    /\ UNCHANGED <<runtime, state, poller, watch, dispatcher, queue, control,
                   deduplicated, interrupted>>

WorkerClears(t) ==
    /\ worker[t].stage = "clear"
    /\ dispatcher' = [dispatcher EXCEPT !.inflight = None]
    /\ worker' = [worker EXCEPT ![t] = [NoWorker EXCEPT !.stage = "loop"]]
    /\ UNCHANGED <<runtime, state, poller, watch, queue, control, told,
                   deduplicated, interrupted, failedSends>>
-----------------------------------------------------------------------------
RuntimeChanges ==
    /\ runtime' \in {"ok", "failing", "fatal"} \ {runtime}
    /\ UNCHANGED <<state, poller, worker, watch, dispatcher, queue, control, told,
                   deduplicated, interrupted, failedSends>>

Older(since) == IF since = NoSince THEN NoSince ELSE AtMost(since + 1, MinUnhealthy)

\* A decision that a poll carries keeps the unhealthy_since it was made with.
TimePasses ==
    /\ state' = [state EXCEPT !.since = Older(@)]
    /\ poller' = [t \in Threads |->
                    [poller[t] EXCEPT !.decision.state.since = Older(@)]]
    /\ UNCHANGED <<runtime, worker, watch, dispatcher, queue, control, told,
                   deduplicated, interrupted, failedSends>>

PollerSteps(t) ==
    \/ PollerExits(t)
    \/ PollOnce(t)
    \/ SubmitDeduplicates(t)
    \/ SubmitChecks(t)
    \/ SubmitPuts(t)

WorkerSteps(t) ==
    \/ WorkerLoops(t)
    \/ WorkerFindsNothing(t)
    \/ WorkerGets(t)
    \/ WorkerMarks(t)
    \/ WorkerTries(t)
    \/ WorkerSends(t)
    \/ WorkerClears(t)

MainSteps == Start \/ Stop \/ JoinPoller \/ JoinWorker

AlertsNext ==
    \/ MainSteps
    \/ RuntimeChanges
    \/ TimePasses
    \/ \E t \in Threads : PollerSteps(t) \/ WorkerSteps(t) \/ SendFails(t)

AlertsSpec == AlertsInit /\ [][AlertsNext]_alertVars

(***************************************************************************)
(* Threads are scheduled: the poll comes every poll_interval_sec, the      *)
(* worker goes on, and time passes.  The runtime, the starts and stops and *)
(* the failed sends are free.                                              *)
(***************************************************************************)
AlertsFairness ==
    /\ SF_alertVars(TimePasses)
    /\ \A t \in Threads : WF_alertVars(PollerSteps(t)) /\ WF_alertVars(WorkerSteps(t))

AlertsFairSpec == AlertsSpec /\ AlertsFairness
-----------------------------------------------------------------------------
\* Safety.

\* The threads, the episode and the queue have their types, and the queue its
\* bound.
AlertsTypeOK ==
    /\ runtime \in {"ok", "failing", "fatal"}
    /\ state \in States
    /\ poller \in [Threads -> Pollers]
    /\ worker \in [Threads -> Workers]
    /\ watch \in [thread : Threads \union {None}, stop : BOOLEAN]
    /\ dispatcher \in [thread : Threads \union {None}, stop : BOOLEAN,
                       inflight : Messages \union {None}]
    /\ queue \in Seq(Messages) /\ Len(queue) <= QueueSize
    /\ control \in {"idle", "joinPoller", "joinWorker"}
    /\ told \in Messages \union {None}
    /\ deduplicated \in BOOLEAN /\ interrupted \in BOOLEAN
    /\ failedSends \in 0..MaxFailedSends

\* However starts and stops alternate, and however late a stopped thread ends,
\* one thread at most polls and one at most delivers: two would race on the
\* episode, on _inflight_message and on the event loop (stop keeps the handle of
\* a thread that did not end, "so a later start() cannot clear the stop flag and
\* race a second worker").
OneThreadEach ==
    /\ \A t, u \in Threads : poller[t].stage # "none" /\ poller[u].stage # "none" => t = u
    /\ \A t, u \in Threads : worker[t].stage # "none" /\ worker[u].stage # "none" => t = u

\* No notice is on its way.
Quiet ==
    /\ queue = <<>>
    /\ \A t \in Threads : /\ poller[t].stage \in {"none", "wait"}
                          /\ worker[t].stage \in {"none", "loop", "get"}

\* Once no notice is on its way, the last one the operator received says what
\* the watchdog believes it has said, whatever failed, was rejected or was
\* stopped and started again, except after a stop in the middle of a send or a
\* notice taken for the one being sent.
NoticesAreDelivered ==
    Quiet /\ ~interrupted /\ ~deduplicated => (told \in Alerts <=> state.notified)

-----------------------------------------------------------------------------
\* Liveness, under FairSpec.

Serving ==
    /\ Alive(poller, watch.thread) /\ ~watch.stop
    /\ Alive(worker, dispatcher.thread) /\ ~dispatcher.stop

\* A runtime that stays unhealthy is reported in the end, though the queue may
\* be full and sends fail when it is first due.
FailureIsNotified ==
    (Serving /\ runtime # "ok") ~> (state.notified \/ runtime = "ok" \/ ~Serving)
=============================================================================
