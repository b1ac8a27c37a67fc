-------------------------- MODULE DailyReportOutbox --------------------------
(***************************************************************************)
(* The delivery of one day's report to the Telegram channel.  Each process *)
(* that generates reports is a worker; they share the SQLite tables        *)
(* daily_reports, report_publish_outbox and telegram_publishes, and nothing*)
(* else.  A transaction of storage/sqlite_store.py is one action, and      *)
(* complete_daily_report_publish, which reads two rows before its          *)
(* transaction begins, is three.                                           *)
(*                                                                         *)
(* Rows of two dates do not meet in any query, so one date is modelled;    *)
(* the generation of a later date's report is what retries this one.       *)
(* A lease is kept as the clock units it has left, 0 when it has expired.  *)
(***************************************************************************)
EXTENDS Integers

CONSTANTS
    Workers,           \* the processes that generate and deliver reports
    MaxRevision,       \* bound on the revisions of the report
    MaxAttempts,       \* bound on the delivery attempts of a revision
    MaxFaults,         \* bound on the crashes and failed sends
    Lease,             \* lease_sec
    SendTimeout,       \* publish_timeout_sec
    Stalls             \* whether a worker may be held up past its deadline

ASSUME OutboxAssumption ==
    /\ MaxRevision \in Nat \ {0} /\ MaxAttempts \in Nat \ {0} /\ MaxFaults \in Nat
    /\ SendTimeout \in Nat \ {0} /\ Lease \in Nat
    /\ Lease >= 2 * SendTimeout
    /\ Stalls \in BOOLEAN

VARIABLES
    latest,     \* MAX(revision) in daily_reports, 0 before the first report
    outbox,     \* the report_publish_outbox row of each revision
    published,  \* the telegram_publishes status under each idempotency key
    worker,     \* where each worker is in _publish_report
    channel,    \* what the readers of the channel have seen
    faults      \* how many crashes and failed sends have happened

vars == <<latest, outbox, published, worker, channel, faults>>

Revisions == 1..MaxRevision

Attempts == 0..MaxAttempts

Null == -1

Statuses == {"NONE", "PENDING", "DELIVERING", "SENDING", "SENT", "SUPERSEDED"}

\* authorized is payload.authorized_attempts, which payload.send_authorized
\* repeats for the last attempt.
Rows ==
    [status     : Statuses,
     attempt    : Attempts,          \* attempt_count
     lease      : Null..Lease,       \* lease_until
     authorized : SUBSET Attempts]

NoRow == [status |-> "NONE", attempt |-> 0, lease |-> Null, authorized |-> {}]

Results == {"NONE", "FAILED", "SENT"}

\* "readRow", "readPublish" and "write" are the steps of the completion.
Stages == {"idle", "claim", "authorize", "sending", "readRow", "readPublish", "write"}

Completing == {"readRow", "readPublish", "write"}

\* row and seen are what the completion has read before it writes.
WorkerStates ==
    [stage    : Stages,
     revision : 0..MaxRevision,
     attempt  : Attempts,
     timer    : 0..SendTimeout,
     result   : Results,
     row      : Rows,
     seen     : Results]

Idle == [stage |-> "idle", revision |-> 0, attempt |-> 0, timer |-> 0,
         result |-> "NONE", row |-> NoRow, seen |-> "NONE"]

\* posts counts a revision's messages, up to two; unsure holds the revisions of
\* which a send ended without the answer of Telegram; last is the revision of
\* the newest message.
Channels ==
    [posts  : [Revisions -> 0..2],
     unsure : SUBSET Revisions,
     last   : 0..MaxRevision]

Init ==
    /\ latest = 0
    /\ outbox = [r \in Revisions |-> NoRow]
    /\ published = [r \in Revisions |-> "NONE"]
    /\ worker = [w \in Workers |-> Idle]
    /\ channel = [posts |-> [r \in Revisions |-> 0], unsure |-> {}, last |-> 0]
    /\ faults = 0
-----------------------------------------------------------------------------
\* Rows.

Live(row) == row.lease > 0

Expired(row) == row.lease = 0

Superseded(row) == [row EXCEPT !.status = "SUPERSEDED", !.lease = Null]

\* An obsolete intent that is not terminal; a live send is left to its worker.
Supersedable(row) ==
    \/ row.status \in {"PENDING", "DELIVERING"}
    \/ row.status = "SENDING" /\ Expired(row)

\* Fault: revision r itself is taken for an obsolete one.
SupersedeUpTo(rows, r) ==
    [q \in Revisions |-> IF q <= r /\ Supersedable(rows[q])
                         THEN Superseded(rows[q]) ELSE rows[q]]

\* The rows once the ones older than revision r have been retired.
SupersedeOlder(rows, r) ==
    [q \in Revisions |-> IF q < r /\ Supersedable(rows[q])
                         THEN Superseded(rows[q]) ELSE rows[q]]

\* Fault: the lease of a send in progress is not consulted.
ClaimableWhileSending(row) == row.status \in {"PENDING", "DELIVERING", "SENDING"}

Claimable(row) ==
    \/ row.status = "PENDING"
    \/ row.status \in {"DELIVERING", "SENDING"} /\ Expired(row)

\* Fault: a claim forgets which earlier attempts were authorized.
ClaimedForgetsAttempts(row) ==
    [row EXCEPT !.status = "DELIVERING", !.attempt = @ + 1, !.lease = Lease,
                !.authorized = {}]

Claimed(row) ==
    [row EXCEPT !.status = "DELIVERING", !.attempt = @ + 1, !.lease = Lease]

Authorized(row) ==
    [row EXCEPT !.status = "SENDING", !.lease = Lease,
                !.authorized = @ \union {row.attempt}]
-----------------------------------------------------------------------------
\* Reports.

\* claim_daily_report: a report whose content is new becomes the next revision,
\* another one is found again.  The older intents are retired, and the intent of
\* this revision is created unless it exists.
ClaimReport(r, enqueue) ==
    LET rows == IF r > 1 THEN SupersedeOlder(outbox, r) ELSE outbox
    IN  /\ latest' = r
        /\ outbox' = IF enqueue /\ rows[r].status = "NONE"
                     THEN [rows EXCEPT ![r].status = "PENDING"] ELSE rows

\* A created report whose log line cannot be written is not delivered here.
GenerateReport(w, enqueue, delivers) ==
    /\ worker[w].stage = "idle"
    /\ \E r \in Revisions \cap {latest, latest + 1} :
          /\ ClaimReport(r, enqueue)
          /\ delivers \/ r > latest \/ ~enqueue
          /\ worker' = [worker EXCEPT ![w] =
                IF enqueue /\ delivers
                THEN [Idle EXCEPT !.stage = "claim", !.revision = r] ELSE Idle]
    /\ UNCHANGED <<published, channel, faults>>

\* A later report is generated: pending_daily_report_publishes retires obsolete
\* intents and returns the latest one when it is pending or its lease expired.
RetryPending(w) ==
    /\ worker[w].stage = "idle" /\ latest > 0
    /\ outbox' = SupersedeOlder(outbox, latest)
    /\ worker' = [worker EXCEPT ![w] =
            IF Claimable(outbox[latest])
            THEN [Idle EXCEPT !.stage = "claim", !.revision = latest] ELSE Idle]
    /\ UNCHANGED <<latest, published, channel, faults>>
-----------------------------------------------------------------------------
\* _publish_report.

ClaimPublish(w) ==
    LET r == worker[w].revision
        taken == Claimed(outbox[r])
    IN  /\ worker[w].stage = "claim"
        /\ IF Claimable(outbox[r])
           THEN /\ taken.attempt \in Attempts
                /\ outbox' = [outbox EXCEPT ![r] = taken]
                /\ worker' = [worker EXCEPT ![w].stage   = "authorize",
                                            ![w].attempt = taken.attempt]
           ELSE /\ worker' = [worker EXCEPT ![w] = Idle]
                /\ UNCHANGED outbox
        /\ UNCHANGED <<latest, published, channel, faults>>

Holds(w) ==
    LET row == outbox[worker[w].revision]
    IN  row.status = "DELIVERING" /\ row.attempt = worker[w].attempt

\* Fault: an older revision's send in progress is not waited for.
NeverBusy(r) == FALSE

Busy(r) ==
    \E q \in Revisions \ {r} : outbox[q].status = "SENDING" /\ Live(outbox[q])

\* Fault: an obsolete intent may be sent.
MaySendObsolete(w) ==
    LET r == worker[w].revision
    IN  Holds(w) /\ Live(outbox[r]) /\ published[r] # "SENT" /\ ~Busy(r)

MaySend(w) ==
    LET r == worker[w].revision
    IN  /\ Holds(w) /\ Live(outbox[r])
        /\ r = latest
        /\ published[r] # "SENT"
        /\ ~Busy(r)

\* AUTHORIZED: the expired sends of older revisions are fenced off.
AuthorizePublish(w) ==
    LET r == worker[w].revision
        fenced == [q \in Revisions |->
                     IF q < r /\ outbox[q].status = "SENDING" /\ Expired(outbox[q])
                     THEN Superseded(outbox[q]) ELSE outbox[q]]
    IN  /\ worker[w].stage = "authorize" /\ MaySend(w)
        /\ outbox' = [fenced EXCEPT ![r] = Authorized(@)]
        /\ worker' = [worker EXCEPT ![w].stage = "sending",
                                    ![w].timer = SendTimeout]
        /\ UNCHANGED <<latest, published, channel, faults>>

\* STALE: another attempt took the row, or it is obsolete, or its report was
\* sent by a late attempt, which settles the row.
FindStale(w) ==
    LET r == worker[w].revision
        sent == Holds(w) /\ published[r] = "SENT"
    IN  /\ worker[w].stage = "authorize" /\ ~MaySend(w)
        /\ ~Holds(w) \/ sent \/ r # latest
        /\ outbox' = IF sent
                     THEN [outbox EXCEPT ![r].status = "SENT", ![r].lease = Null]
                     ELSE outbox
        /\ worker' = [worker EXCEPT ![w] = Idle]
        /\ UNCHANGED <<latest, published, channel, faults>>

\* EXPIRED: the row is claimed again.  A BUSY worker asks again in 0.1 s, and
\* none of these actions is enabled for it.
FindExpired(w) ==
    LET r == worker[w].revision
    IN  /\ worker[w].stage = "authorize"
        /\ Holds(w) /\ r = latest /\ published[r] # "SENT" /\ Expired(outbox[r])
        /\ worker' = [worker EXCEPT ![w] =
                        [Idle EXCEPT !.stage = "claim", !.revision = r]]
        /\ UNCHANGED <<latest, outbox, published, channel, faults>>
-----------------------------------------------------------------------------
\* TelegramPublisher.send, under asyncio.wait_for.

Posted(r) ==
    [channel EXCEPT !.posts[r] = IF @ = 2 THEN 2 ELSE @ + 1, !.last = r]

Answer(w, result) ==
    worker' = [worker EXCEPT ![w].stage = "readRow", ![w].result = result]

PostAnswered(w) ==
    /\ worker[w].stage = "sending"
    /\ channel' = Posted(worker[w].revision)
    /\ Answer(w, "SENT")
    /\ UNCHANGED <<latest, outbox, published, faults>>

\* The message is posted and the answer lost; send tries again.
PostUnanswered(w) ==
    LET r == worker[w].revision
    IN  /\ worker[w].stage = "sending"
        /\ faults < MaxFaults /\ faults' = faults + 1
        /\ channel' = [Posted(r) EXCEPT !.unsure = @ \union {r}]
        /\ UNCHANGED <<latest, outbox, published, worker>>

\* Every attempt has failed.
SendFails(w) ==
    /\ worker[w].stage = "sending"
    /\ faults < MaxFaults /\ faults' = faults + 1
    /\ Answer(w, "FAILED")
    /\ UNCHANGED <<latest, outbox, published, channel>>

\* The send times out, or the process dies, wherever it is.
Interrupted(w) ==
    /\ worker[w].stage # "idle"
    /\ faults < MaxFaults /\ faults' = faults + 1
    /\ worker' = [worker EXCEPT ![w] = Idle]
    /\ channel' = IF worker[w].stage \in {"sending"} \union Completing
                  THEN [channel EXCEPT !.unsure = @ \union {worker[w].revision}]
                  ELSE channel
    /\ UNCHANGED <<latest, outbox, published>>
-----------------------------------------------------------------------------
\* complete_daily_report_publish.  Its transaction begins at its first write: two
\* processes may read, and then write, at the same time.

\* An attempt that was never authorized is ignored.
CompletionReadsRow(w) ==
    LET row == outbox[worker[w].revision]
    IN  /\ worker[w].stage = "readRow"
        /\ worker' = [worker EXCEPT ![w] =
                IF worker[w].attempt \in row.authorized
                THEN [@ EXCEPT !.stage = "readPublish", !.row = row] ELSE Idle]
        /\ UNCHANGED <<latest, outbox, published, channel, faults>>

CompletionReadsPublish(w) ==
    /\ worker[w].stage = "readPublish"
    /\ worker' = [worker EXCEPT ![w].stage = "write",
                                ![w].seen  = published[worker[w].revision]]
    /\ UNCHANGED <<latest, outbox, published, channel, faults>>

\* _record_daily_report_publish: a recorded success stays, and is the result.
EffectiveResult(w) ==
    IF worker[w].seen = "SENT" THEN "SENT" ELSE worker[w].result

\* Fault: a late failure replaces the record of a success.
RecordLast(w) == worker[w].result

Record(w) ==
    IF worker[w].seen = "SENT" THEN published[worker[w].revision]
    ELSE worker[w].result

\* Fault: a failed publish is final.
SettledFailureIsFinal(row, r, result) ==
    [row EXCEPT !.lease = Null,
                !.status = IF result = "SENT" THEN "SENT" ELSE "SUPERSEDED"]

\* A failure returns the row to PENDING, unless a newer revision exists.
Settled(row, r, result) ==
    [row EXCEPT !.lease = Null,
                !.status = IF result = "SENT" THEN "SENT"
                           ELSE IF r < latest THEN "SUPERSEDED" ELSE "PENDING"]

\* The INSERT of a record that another worker inserted meanwhile rolls back.
InsertCollides(w) ==
    worker[w].seen = "NONE" /\ published[worker[w].revision] # "NONE"

CompletionWrites(w) ==
    LET r == worker[w].revision
        a == worker[w].attempt
        owns(row) == row.status = "SENDING" /\ row.attempt = a
        result == EffectiveResult(w)
    IN  /\ worker[w].stage = "write"
        /\ ~InsertCollides(w)
        /\ published' = [published EXCEPT ![r] = Record(w)]
        /\ outbox' = IF owns(worker[w].row) /\ owns(outbox[r])
                     THEN [outbox EXCEPT ![r] = Settled(@, r, result)]
                     ELSE outbox
        /\ worker' = [worker EXCEPT ![w] = Idle]
        /\ UNCHANGED <<latest, channel, faults>>

CompletionFails(w) ==
    /\ worker[w].stage = "write" /\ InsertCollides(w)
    /\ worker' = [worker EXCEPT ![w] = Idle]
    /\ UNCHANGED <<latest, outbox, published, channel, faults>>
-----------------------------------------------------------------------------
\* A worker that waits: for its turn, for Telegram, or for another's send.  A
\* claim may wait too, behind the reports that the same retry lists first.
Waits(w) ==
    \/ worker[w].stage \in {"idle", "claim"}
    \/ worker[w].stage = "sending" /\ worker[w].timer > 0
    \/ /\ worker[w].stage = "authorize"
       /\ Holds(w) /\ Live(outbox[worker[w].revision]) /\ Busy(worker[w].revision)

ClockAdvances ==
    /\ Stalls \/ \A w \in Workers : Waits(w)
    /\ outbox' = [r \in Revisions |->
                    IF Live(outbox[r]) THEN [outbox[r] EXCEPT !.lease = @ - 1]
                    ELSE outbox[r]]
    /\ worker' = [w \in Workers |->
                    IF worker[w].timer > 0 THEN [worker[w] EXCEPT !.timer = @ - 1]
                    ELSE worker[w]]
    /\ UNCHANGED <<latest, published, channel, faults>>

Delivery(w) ==
    \/ ClaimPublish(w)
    \/ AuthorizePublish(w)
    \/ FindStale(w)
    \/ FindExpired(w)
    \/ PostAnswered(w)
    \/ CompletionReadsRow(w)
    \/ CompletionReadsPublish(w)
    \/ CompletionWrites(w)
    \/ CompletionFails(w)

Fault(w) ==
    \/ PostUnanswered(w)
    \/ SendFails(w)
    \/ Interrupted(w)

Next ==
    \/ ClockAdvances
    \/ \E w \in Workers :
          \/ \E enqueue, delivers \in BOOLEAN : GenerateReport(w, enqueue, delivers)
          \/ RetryPending(w)
          \/ Delivery(w)
          \/ Fault(w)

Spec == Init /\ [][Next]_vars

(***************************************************************************)
(* A worker that can go on does so, unless a fault stops it, and the later *)
(* reports, whose generation retries this one, keep being generated.  That *)
(* a send is answered in the end follows from the bound on the faults.     *)
(***************************************************************************)
Fairness ==
    /\ SF_vars(ClockAdvances)
    /\ SF_vars(\E w \in Workers : RetryPending(w))
    /\ \A w \in Workers : WF_vars(Delivery(w))

FairSpec == Spec /\ Fairness
-----------------------------------------------------------------------------
\* Safety.

\* The tables and the workers have their types, and a row has a lease exactly
\* while it is being delivered.
TypeOK ==
    /\ latest \in 0..MaxRevision
    /\ outbox \in [Revisions -> Rows]
    /\ \A r \in Revisions :
          outbox[r].status \in {"DELIVERING", "SENDING"} <=> outbox[r].lease # Null
    /\ published \in [Revisions -> Results]
    /\ worker \in [Workers -> WorkerStates]
    /\ channel \in Channels
    /\ faults \in 0..MaxFaults

\* At any time one revision at most is being sent under a lease that is live,
\* whatever stalls, crashes and reclaims came before (the BUSY answer).
OneLiveSend ==
    \A q, r \in Revisions :
        /\ outbox[q].status = "SENDING" /\ Live(outbox[q])
        /\ outbox[r].status = "SENDING" /\ Live(outbox[r])
        => q = r

\* The channel never shows an older revision after a newer one.
MessagesFollowRevisions == [][channel'.last >= channel.last]_vars

\* A revision is posted twice only when an earlier send of it ended without an
\* answer: two workers that race, reclaim or retry never repeat a message that
\* one of them knows to be delivered.
DuplicatesAreUnsure ==
    \A r \in Revisions : channel.posts[r] > 1 => r \in channel.unsure

\* A completion in the middle of which another process wrote the same record:
\* what it has read is stale when it writes.
Disturbed(w) ==
    worker[w].stage = "write" /\ worker[w].seen # published[worker[w].revision]

\* The record of a success is final: no late failure, of whichever attempt,
\* downgrades it (test_daily_report_publish_failure_does_not_downgrade_success),
\* unless its completion was disturbed.
SentIsNotDowngraded ==
    [][\A r \in Revisions : published[r] = "SENT"
          => \/ published'[r] = "SENT"
             \/ \E w \in Workers : /\ worker[w].revision = r
                                   /\ Disturbed(w) /\ worker'[w] = Idle]_vars

\* A send that Telegram has confirmed is on record once its completion is over,
\* even when the row was reclaimed, superseded or settled in the meantime, unless
\* the completion was disturbed.
ConfirmedPostIsRecorded ==
    [][\A w \in Workers :
          /\ worker[w].result = "SENT" /\ worker'[w] = Idle /\ faults' = faults
          => published'[worker[w].revision] = "SENT" \/ Disturbed(w)]_vars

\* Only an intent that a newer revision replaced is given up: no crash, failed
\* send, late attempt or lost completion retires the report of the day.
OnlyReplacedIsGivenUp ==
    \A r \in Revisions : outbox[r].status = "SUPERSEDED" => r < latest

LiveSends == {r \in Revisions : outbox[r].status = "SENDING" /\ Live(outbox[r])}
Shown == {r \in Revisions : channel.posts[r] > 0}
OnRecord == {r \in Revisions : published[r] = "SENT"}

\* The abstract specification of ReportDeliveryContract, which the outbox
\* implements unless a worker is held up past its deadline: revisions are
\* posted one at a time, the newest only, again only in doubt, and a send that
\* ends without doubt is on record exactly if it posted.
Contract == INSTANCE ReportDeliveryContract WITH
    newest <- latest, sending <- LiveSends, posted <- Shown, last <- channel.last,
    doubtful <- channel.unsure, recorded <- OnRecord
DeliveryContract == Contract!Spec

\* Liveness, under FairSpec: the latest revision that was queued is delivered,
\* whoever crashed while delivering it, unless a newer revision replaces it.
LatestIsDelivered ==
    \A r \in Revisions :
        (latest = r /\ outbox[r].status # "NONE")
            ~> (published[r] = "SENT" \/ latest > r)
=============================================================================
