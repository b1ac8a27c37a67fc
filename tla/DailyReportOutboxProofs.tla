---------------------- MODULE DailyReportOutboxProofs ----------------------
(***************************************************************************)
(* DailyReportOutbox for any number of workers, revisions and attempts:    *)
(* its types, and the invariants that hold whatever stalls, crashes,       *)
(* late attempts and overlapping completions happen.  The typing of a row  *)
(* is what each of them rests on, so one inductive invariant carries all.  *)
(***************************************************************************)
EXTENDS DailyReportOutbox, FiniteSetTheorems, TLAPS

\* A row has a lease exactly while it is being delivered.
LeaseMatchesStatus ==
    \A r \in Revisions :
        outbox[r].status \in {"DELIVERING", "SENDING"} <=> outbox[r].lease # Null

\* Retiring a row keeps the types, and leaves neither a lease nor a live send.
LEMMA SupersededRow ==
    ASSUME NEW row \in Rows, NEW new, new = Superseded(row)
    PROVE  /\ new \in Rows
           /\ new.status = "SUPERSEDED"
           /\ new.lease = Null
  <1>1. new = [row EXCEPT !.status = "SUPERSEDED", !.lease = Null]
    BY DEF Superseded
  <1>2. Null \in Null..Lease /\ "SUPERSEDED" \in Statuses
    BY OutboxAssumption DEF OutboxAssumption, Null, Statuses
  <1> QED
    BY <1>1, <1>2 DEF Rows

\* The rows after the obsolete ones have been retired: each keeps its contents
\* or is retired, and only a row older than r is retired.
LEMMA SupersedeOlderRows ==
    ASSUME NEW rows \in [Revisions -> Rows], NEW r \in Nat,
           NEW new, new = SupersedeOlder(rows, r)
    PROVE  /\ new \in [Revisions -> Rows]
           /\ \A q \in Revisions :
                 \/ new[q] = rows[q]
                 \/ /\ q < r
                    /\ new[q].status = "SUPERSEDED"
                    /\ new[q].lease = Null
  <1>1. \A q \in Revisions : Superseded(rows[q]) \in Rows
        /\ Superseded(rows[q]).status = "SUPERSEDED"
        /\ Superseded(rows[q]).lease = Null
    BY SupersededRow
  <1> QED
    BY <1>1 DEF SupersedeOlder

LEMMA ClaimedRow ==
    ASSUME NEW row \in Rows, NEW new, new = Claimed(row),
           new.attempt \in Attempts
    PROVE  /\ new \in Rows
           /\ new.status = "DELIVERING"
           /\ new.lease = Lease
           /\ new.lease # Null
  <1>1. new = [row EXCEPT !.status = "DELIVERING", !.attempt = row.attempt + 1,
                          !.lease = Lease]
    BY DEF Claimed, Rows
  <1>2. Lease \in Null..Lease /\ Lease # Null /\ "DELIVERING" \in Statuses
    BY OutboxAssumption DEF OutboxAssumption, Null, Statuses
  <1> QED
    BY <1>1, <1>2 DEF Rows

LEMMA AuthorizedRow ==
    ASSUME NEW row \in Rows, NEW new, new = Authorized(row)
    PROVE  /\ new \in Rows
           /\ new.status = "SENDING"
           /\ new.lease # Null
  <1>1. new = [row EXCEPT !.status = "SENDING", !.lease = Lease,
                          !.authorized = row.authorized \union {row.attempt}]
    BY DEF Authorized, Rows
  <1>2. Lease \in Null..Lease /\ Lease # Null /\ "SENDING" \in Statuses
    BY OutboxAssumption DEF OutboxAssumption, Null, Statuses
  <1>3. row.authorized \union {row.attempt} \in SUBSET Attempts
    BY DEF Rows
  <1> QED
    BY <1>1, <1>2, <1>3 DEF Rows

LEMMA SettledRow ==
    ASSUME NEW row \in Rows, NEW r, NEW result, NEW new,
           new = Settled(row, r, result)
    PROVE  /\ new \in Rows
           /\ new.status \in {"SENT", "SUPERSEDED", "PENDING"}
           /\ new.status = "SUPERSEDED" => r < latest
           /\ new.lease = Null
  <1> DEFINE status == IF result = "SENT" THEN "SENT"
                       ELSE IF r < latest THEN "SUPERSEDED" ELSE "PENDING"
  <1>1. new = [row EXCEPT !.lease = Null, !.status = status]
    BY DEF Settled
  <1>2. Null \in Null..Lease
    BY OutboxAssumption DEF OutboxAssumption, Null
  <1>3. /\ status \in Statuses
        /\ status \in {"SENT", "SUPERSEDED", "PENDING"}
        /\ status = "SUPERSEDED" => r < latest
    BY DEF Statuses
  <1> HIDE DEF status
  <1> QED
    BY <1>1, <1>2, <1>3 DEF Rows
-----------------------------------------------------------------------------
\* What a step does to the rows is enough for the three invariants: a row may
\* keep its contents, lose lease time, or change to one that is well formed,
\* that is no live send (unless no other row is one), and that is retired only
\* when it is obsolete.

RowsAreTyped ==
    /\ outbox \in [Revisions -> Rows]
    /\ LeaseMatchesStatus

\* The row of revision r may become the row new.
Replaces(new, old, r, top) ==
    \/ new = old
    \/ /\ new.status \in {"DELIVERING", "SENDING"} <=> new.lease # Null
       /\ new.status = "SUPERSEDED" => r < top
       /\ new.status = "SENDING" /\ new.lease > 0 =>
             old.status = "SENDING" /\ old.lease > 0

LEMMA RowStep ==
    ASSUME RowsAreTyped, OneLiveSend, OnlyReplacedIsGivenUp,
           latest \in 0..MaxRevision, latest' \in 0..MaxRevision,
           latest' >= latest,
           outbox' \in [Revisions -> Rows],
           \A r \in Revisions : Replaces(outbox'[r], outbox[r], r, latest')
    PROVE  RowsAreTyped' /\ OneLiveSend' /\ OnlyReplacedIsGivenUp'
  <1>1. Revisions \subseteq Int
    BY DEF Revisions
  <1>2. RowsAreTyped'
    BY DEF RowsAreTyped, LeaseMatchesStatus, Replaces
  <1>3. OnlyReplacedIsGivenUp'
    BY <1>1 DEF OnlyReplacedIsGivenUp, Replaces
  <1>4. OneLiveSend'
    BY DEF OneLiveSend, Live, Replaces
  <1> QED
    BY <1>2, <1>3, <1>4
-----------------------------------------------------------------------------
\* The rest of the state.

LEMMA WorkerFields ==
    ASSUME NEW x \in WorkerStates
    PROVE  /\ x.stage \in Stages /\ x.revision \in 0..MaxRevision
           /\ x.attempt \in Attempts /\ x.timer \in 0..SendTimeout
           /\ x.result \in Results /\ x.row \in Rows /\ x.seen \in Results
  BY DEF WorkerStates

LEMMA IdleIsTyped ==
    Idle \in WorkerStates
  <1>1. NoRow \in Rows
    BY OutboxAssumption DEF OutboxAssumption, NoRow, Rows, Statuses, Attempts, Null
  <1>2. "idle" \in Stages /\ "NONE" \in Results /\ 0 \in 0..MaxRevision
        /\ 0 \in Attempts /\ 0 \in 0..SendTimeout
    BY OutboxAssumption DEF OutboxAssumption, Stages, Results, Attempts
  <1> QED
    BY <1>1, <1>2 DEF Idle, WorkerStates

\* A worker that turns to the claim of revision r.
LEMMA ClaimingIsTyped ==
    ASSUME NEW r \in 0..MaxRevision, NEW new,
           new = [Idle EXCEPT !.stage = "claim", !.revision = r]
    PROVE  new \in WorkerStates /\ new.revision = r
  <1>1. "claim" \in Stages
    BY DEF Stages
  <1> QED
    BY <1>1, IdleIsTyped DEF WorkerStates

\* The workers when one of them has moved.
LEMMA WorkerMoves ==
    ASSUME NEW w, worker \in [Workers -> WorkerStates], NEW new \in WorkerStates,
           worker' = [worker EXCEPT ![w] = new]
    PROVE  worker' \in [Workers -> WorkerStates]
  OBVIOUS

LEMMA PostedIsTyped ==
    ASSUME NEW r \in Revisions, channel \in Channels, NEW new, new = Posted(r)
    PROVE  new \in Channels
  <1> DEFINE count == IF channel.posts[r] = 2 THEN 2 ELSE channel.posts[r] + 1
  <1>1. new = [channel EXCEPT !.posts = [channel.posts EXCEPT ![r] = count],
                              !.last = r]
    BY DEF Posted, Channels
  <1>2. count \in 0..2
    BY DEF Channels
  <1>3. r \in 0..MaxRevision
    BY OutboxAssumption DEF OutboxAssumption, Revisions
  <1> HIDE DEF count
  <1> QED
    BY <1>1, <1>2, <1>3 DEF Channels

LEMMA UnsureIsTyped ==
    ASSUME NEW r \in Revisions, NEW old \in Channels, NEW new,
           new = [old EXCEPT !.unsure = @ \union {r}]
    PROVE  new \in Channels
  <1>1. new = [old EXCEPT !.unsure = old.unsure \union {r}]
    BY DEF Channels
  <1>2. old.unsure \union {r} \in SUBSET Revisions
    BY DEF Channels
  <1> QED
    BY <1>1, <1>2 DEF Channels

\* A worker that is delivering has a revision to deliver.
WorkersHaveRevisions ==
    \A w \in Workers : worker[w].stage # "idle" => worker[w].revision \in Revisions

OthersAreTyped ==
    /\ latest \in 0..MaxRevision
    /\ published \in [Revisions -> Results]
    /\ worker \in [Workers -> WorkerStates]
    /\ channel \in Channels
    /\ faults \in 0..MaxFaults

IndInv ==
    /\ OthersAreTyped /\ WorkersHaveRevisions
    /\ RowsAreTyped /\ OneLiveSend /\ OnlyReplacedIsGivenUp

\* The rows and the latest revision stay as they are.
LEMMA RowsStay ==
    ASSUME IndInv, UNCHANGED <<latest, outbox>>
    PROVE  RowsAreTyped' /\ OneLiveSend' /\ OnlyReplacedIsGivenUp'
  BY DEF IndInv, RowsAreTyped, LeaseMatchesStatus, OneLiveSend, Live,
         OnlyReplacedIsGivenUp

LEMMA WorkerTurns ==
    ASSUME IndInv, NEW w \in Workers, NEW new \in WorkerStates,
           worker' = [worker EXCEPT ![w] = new],
           new.stage # "idle" => new.revision \in Revisions
    PROVE  worker' \in [Workers -> WorkerStates] /\ WorkersHaveRevisions'
  BY WorkerMoves DEF IndInv, OthersAreTyped, WorkersHaveRevisions

LEMMA InitInductive ==
    ASSUME Init
    PROVE  IndInv
  <1>1. NoRow \in Rows /\ NoRow.lease = Null /\ NoRow.status = "NONE"
    BY OutboxAssumption DEF OutboxAssumption, NoRow, Rows, Statuses, Attempts, Null
  <1>2. OthersAreTyped
    BY IdleIsTyped, OutboxAssumption
    DEF Init, OthersAreTyped, OutboxAssumption, Results, Channels
  <1>3. WorkersHaveRevisions
    BY DEF Init, WorkersHaveRevisions, Idle
  <1>4. RowsAreTyped /\ OneLiveSend /\ OnlyReplacedIsGivenUp
    BY <1>1 DEF Init, RowsAreTyped, LeaseMatchesStatus, OneLiveSend,
                OnlyReplacedIsGivenUp
  <1> QED
    BY <1>2, <1>3, <1>4 DEF IndInv
-----------------------------------------------------------------------------
\* One lemma per action.

LEMMA GenerateReportInductive ==
    ASSUME IndInv, NEW w \in Workers, NEW enqueue \in BOOLEAN,
           NEW delivers \in BOOLEAN, GenerateReport(w, enqueue, delivers)
    PROVE  IndInv'
  <1>1. PICK r \in Revisions \cap {latest, latest + 1} :
           /\ ClaimReport(r, enqueue)
           /\ worker' = [worker EXCEPT ![w] =
                IF enqueue /\ delivers
                THEN [Idle EXCEPT !.stage = "claim", !.revision = r] ELSE Idle]
    BY DEF GenerateReport
  <1>2. latest \in Nat /\ MaxRevision \in Nat /\ r \in 1..MaxRevision
    BY <1>1, OutboxAssumption DEF IndInv, OthersAreTyped, OutboxAssumption, Revisions
  <1>3. latest' = r /\ latest' \in 0..MaxRevision /\ latest' >= latest
    BY <1>1, <1>2 DEF ClaimReport
  <1> DEFINE rows == IF r > 1 THEN SupersedeOlder(outbox, r) ELSE outbox
             new == IF enqueue /\ delivers
                    THEN [Idle EXCEPT !.stage = "claim", !.revision = r] ELSE Idle
  <1>4. /\ rows \in [Revisions -> Rows]
        /\ \A q \in Revisions :
              \/ rows[q] = outbox[q]
              \/ /\ q < r
                 /\ rows[q].status = "SUPERSEDED"
                 /\ rows[q].lease = Null
    BY <1>2, SupersedeOlderRows DEF IndInv, RowsAreTyped
  <1>5. outbox' = IF enqueue /\ rows[r].status = "NONE"
                  THEN [rows EXCEPT ![r].status = "PENDING"] ELSE rows
    BY <1>1 DEF ClaimReport
  <1> HIDE DEF rows
  <1>6. ASSUME NEW q \in Revisions
        PROVE  outbox'[q] \in Rows /\ Replaces(outbox'[q], outbox[q], q, latest')
    <2>1. CASE q = r /\ enqueue /\ rows[r].status = "NONE"
      <3> DEFINE row == [rows[r] EXCEPT !.status = "PENDING"]
      <3>1. outbox'[q] = row
        BY <1>4, <1>5, <2>1
      <3>2. rows[r] = outbox[r]
        BY <1>4, <2>1, <1>2
      <3>3. row \in Rows /\ row.status = "PENDING" /\ row.lease = outbox[r].lease
        BY <1>4, <2>1, <3>2 DEF Rows, Statuses
      <3>4. outbox[r].lease = Null
        BY <2>1, <3>2 DEF IndInv, RowsAreTyped, LeaseMatchesStatus
      <3> HIDE DEF row
      <3> QED
        BY <2>1, <3>1, <3>3, <3>4 DEF Replaces
    <2>2. CASE ~(q = r /\ enqueue /\ rows[r].status = "NONE")
      <3>1. outbox'[q] = rows[q]
        BY <1>4, <1>5, <2>2
      <3> QED
        BY <1>3, <1>4, <3>1 DEF Replaces
    <2> QED
      BY <2>1, <2>2
  <1>7. outbox' \in [Revisions -> Rows]
    BY <1>4, <1>5, <1>6
  <1>8. RowsAreTyped' /\ OneLiveSend' /\ OnlyReplacedIsGivenUp'
    BY <1>3, <1>6, <1>7, RowStep DEF IndInv, OthersAreTyped
  <1>9. new \in WorkerStates /\ (new.stage # "idle" => new.revision \in Revisions)
    <2>1. r \in 0..MaxRevision /\ r \in Revisions
      BY <1>2 DEF Revisions
    <2> QED
      BY <2>1, IdleIsTyped, ClaimingIsTyped DEF Idle
  <1>10. worker' \in [Workers -> WorkerStates] /\ WorkersHaveRevisions'
    <2> HIDE DEF new
    <2> QED
      BY <1>9, <1>1, WorkerTurns DEF new
  <1>11. OthersAreTyped'
    BY <1>3, <1>10 DEF GenerateReport, IndInv, OthersAreTyped
  <1> QED
    BY <1>8, <1>10, <1>11 DEF IndInv

LEMMA RetryPendingInductive ==
    ASSUME IndInv, NEW w \in Workers, RetryPending(w)
    PROVE  IndInv'
  <1>1. latest \in Nat /\ latest \in Revisions /\ latest' = latest
    BY OutboxAssumption
    DEF RetryPending, IndInv, OthersAreTyped, OutboxAssumption, Revisions
  <1>2. /\ outbox' \in [Revisions -> Rows]
        /\ \A q \in Revisions :
              \/ outbox'[q] = outbox[q]
              \/ /\ q < latest
                 /\ outbox'[q].status = "SUPERSEDED"
                 /\ outbox'[q].lease = Null
    BY <1>1, SupersedeOlderRows DEF RetryPending, IndInv, RowsAreTyped
  <1>3. \A q \in Revisions : Replaces(outbox'[q], outbox[q], q, latest')
    BY <1>1, <1>2 DEF Replaces
  <1>4. RowsAreTyped' /\ OneLiveSend' /\ OnlyReplacedIsGivenUp'
    BY <1>1, <1>2, <1>3, RowStep DEF IndInv, OthersAreTyped
  <1> DEFINE new == IF Claimable(outbox[latest])
                    THEN [Idle EXCEPT !.stage = "claim", !.revision = latest]
                    ELSE Idle
  <1>5. new \in WorkerStates /\ (new.stage # "idle" => new.revision \in Revisions)
    BY <1>1, IdleIsTyped, ClaimingIsTyped DEF Idle, IndInv, OthersAreTyped
  <1>6. worker' \in [Workers -> WorkerStates] /\ WorkersHaveRevisions'
    <2>1. worker' = [worker EXCEPT ![w] = new]
      BY DEF RetryPending
    <2> HIDE DEF new
    <2> QED
      BY <1>5, <2>1, WorkerTurns
  <1>7. OthersAreTyped'
    BY <1>1, <1>6 DEF RetryPending, IndInv, OthersAreTyped
  <1> QED
    BY <1>4, <1>6, <1>7 DEF IndInv

\* The steps that move one worker only, and perhaps the channel, the record of
\* publishes or the count of faults.
LEMMA WorkerOnlyInductive ==
    ASSUME IndInv, NEW w \in Workers, NEW new \in WorkerStates,
           worker' = [worker EXCEPT ![w] = new],
           new.stage # "idle" => new.revision \in Revisions,
           UNCHANGED <<latest, outbox>>,
           published' \in [Revisions -> Results],
           channel' \in Channels,
           faults' \in 0..MaxFaults
    PROVE  IndInv'
  <1>1. RowsAreTyped' /\ OneLiveSend' /\ OnlyReplacedIsGivenUp'
    BY RowsStay
  <1>2. worker' \in [Workers -> WorkerStates] /\ WorkersHaveRevisions'
    BY WorkerTurns
  <1>3. OthersAreTyped'
    BY <1>2 DEF IndInv, OthersAreTyped
  <1> QED
    BY <1>1, <1>2, <1>3 DEF IndInv

LEMMA ClaimPublishInductive ==
    ASSUME IndInv, NEW w \in Workers, ClaimPublish(w)
    PROVE  IndInv'
  <1> DEFINE r == worker[w].revision
             taken == Claimed(outbox[r])
  <1>1. worker[w] \in WorkerStates /\ r \in Revisions /\ outbox[r] \in Rows
    BY DEF ClaimPublish, IndInv, OthersAreTyped, WorkersHaveRevisions, RowsAreTyped
  <1>2. UNCHANGED <<latest, published, channel, faults>>
    BY DEF ClaimPublish
  <1>3. CASE Claimable(outbox[r])
    <2>1. /\ taken.attempt \in Attempts
          /\ outbox' = [outbox EXCEPT ![r] = taken]
          /\ worker' = [worker EXCEPT ![w].stage   = "authorize",
                                      ![w].attempt = taken.attempt]
      BY <1>3 DEF ClaimPublish
    <2>2. taken \in Rows /\ taken.status = "DELIVERING" /\ taken.lease # Null
      BY <1>1, <2>1, ClaimedRow
    <2> DEFINE a == taken.attempt
    <2> HIDE DEF r, taken, a
    <2>3. outbox' \in [Revisions -> Rows]
      BY <1>1, <2>1, <2>2 DEF IndInv, RowsAreTyped
    <2>4. \A q \in Revisions : Replaces(outbox'[q], outbox[q], q, latest')
      BY <2>1, <2>2 DEF IndInv, RowsAreTyped, Replaces
    <2>5. RowsAreTyped' /\ OneLiveSend' /\ OnlyReplacedIsGivenUp'
      BY <1>2, <2>3, <2>4, RowStep DEF IndInv, OthersAreTyped
    <2> DEFINE new == [worker[w] EXCEPT !.stage = "authorize", !.attempt = a]
    <2>6. worker' = [worker EXCEPT ![w] = new]
      BY <2>1 DEF a, IndInv, OthersAreTyped
    <2>7. new \in WorkerStates /\ new.revision = r
      <3>1. "authorize" \in Stages /\ a \in Attempts
        BY <2>1 DEF Stages, a
      <3> QED
        BY <1>1, <3>1 DEF WorkerStates, r
    <2> HIDE DEF new
    <2>8. worker' \in [Workers -> WorkerStates] /\ WorkersHaveRevisions'
      BY <1>1, <2>6, <2>7, WorkerTurns
    <2>9. OthersAreTyped'
      BY <1>2, <2>8 DEF IndInv, OthersAreTyped
    <2> QED
      BY <2>5, <2>8, <2>9 DEF IndInv
  <1>4. CASE ~Claimable(outbox[r])
    <2>1. worker' = [worker EXCEPT ![w] = Idle] /\ UNCHANGED outbox
      BY <1>4 DEF ClaimPublish
    <2> QED
      BY <1>2, <2>1, IdleIsTyped, WorkerOnlyInductive DEF Idle, IndInv, OthersAreTyped
  <1> QED
    BY <1>3, <1>4

\* The one step that makes a send live: no other one is.
LEMMA AuthorizePublishInductive ==
    ASSUME IndInv, NEW w \in Workers, AuthorizePublish(w)
    PROVE  IndInv'
  <1> DEFINE r == worker[w].revision
             fenced == [q \in Revisions |->
                          IF q < r /\ outbox[q].status = "SENDING" /\ Expired(outbox[q])
                          THEN Superseded(outbox[q]) ELSE outbox[q]]
             sent == Authorized(fenced[r])
  <1>1. worker[w] \in WorkerStates /\ r \in Revisions /\ outbox[r] \in Rows
    BY DEF AuthorizePublish, IndInv, OthersAreTyped, WorkersHaveRevisions, RowsAreTyped
  <1>2. r = latest /\ latest' = latest /\ r \in Int
    BY <1>1 DEF AuthorizePublish, MaySend, Revisions
  <1>3. \A q \in Revisions \ {r} : ~(outbox[q].status = "SENDING" /\ Live(outbox[q]))
    BY DEF AuthorizePublish, MaySend, Busy
  <1>4. /\ fenced \in [Revisions -> Rows]
        /\ \A q \in Revisions :
              \/ fenced[q] = outbox[q]
              \/ /\ q < r
                 /\ fenced[q].status = "SUPERSEDED"
                 /\ fenced[q].lease = Null
    <2>1. \A q \in Revisions : Superseded(outbox[q]) \in Rows
          /\ Superseded(outbox[q]).status = "SUPERSEDED"
          /\ Superseded(outbox[q]).lease = Null
      BY SupersededRow DEF IndInv, RowsAreTyped
    <2> QED
      BY <2>1 DEF IndInv, RowsAreTyped
  <1>5. outbox' = [fenced EXCEPT ![r] = sent]
    BY DEF AuthorizePublish
  <1>6. worker' = [worker EXCEPT ![w].stage = "sending", ![w].timer = SendTimeout]
        /\ UNCHANGED <<latest, published, channel, faults>>
    BY DEF AuthorizePublish
  <1> HIDE DEF fenced
  <1>7. sent \in Rows /\ sent.status = "SENDING" /\ sent.lease # Null
    BY <1>1, <1>4, AuthorizedRow
  <1> HIDE DEF sent, r
  <1>8. outbox' \in [Revisions -> Rows] /\ outbox'[r] = sent
    BY <1>1, <1>4, <1>5, <1>7
  <1>9. \A q \in Revisions \ {r} : outbox'[q] = fenced[q]
    BY <1>1, <1>4, <1>5
  <1>10. RowsAreTyped'
    BY <1>4, <1>7, <1>8, <1>9 DEF IndInv, RowsAreTyped, LeaseMatchesStatus
  <1>11. OnlyReplacedIsGivenUp'
    BY <1>2, <1>4, <1>7, <1>8, <1>9 DEF IndInv, OnlyReplacedIsGivenUp
  <1>12. OneLiveSend'
    <2>1. \A q \in Revisions \ {r} :
             ~(outbox'[q].status = "SENDING" /\ Live(outbox'[q]))
      BY <1>3, <1>4, <1>9
    <2> QED
      BY <2>1 DEF OneLiveSend
  <1> DEFINE new == [worker[w] EXCEPT !.stage = "sending", !.timer = SendTimeout]
  <1>13. worker' = [worker EXCEPT ![w] = new]
    BY <1>6 DEF IndInv, OthersAreTyped
  <1>14. new \in WorkerStates /\ new.revision = r
    <2>1. "sending" \in Stages /\ SendTimeout \in 0..SendTimeout
      BY OutboxAssumption DEF OutboxAssumption, Stages
    <2> QED
      BY <1>1, <2>1 DEF WorkerStates, r
  <1> HIDE DEF new
  <1>15. worker' \in [Workers -> WorkerStates] /\ WorkersHaveRevisions'
    BY <1>1, <1>13, <1>14, WorkerTurns
  <1>16. OthersAreTyped'
    BY <1>6, <1>15 DEF IndInv, OthersAreTyped
  <1> QED
    BY <1>10, <1>11, <1>12, <1>15, <1>16 DEF IndInv

LEMMA FindStaleInductive ==
    ASSUME IndInv, NEW w \in Workers, FindStale(w)
    PROVE  IndInv'
  <1> DEFINE r == worker[w].revision
             sent == Holds(w) /\ published[r] = "SENT"
             row == [outbox[r] EXCEPT !.status = "SENT", !.lease = Null]
  <1>1. r \in Revisions /\ outbox[r] \in Rows
    BY DEF FindStale, IndInv, WorkersHaveRevisions, RowsAreTyped
  <1>2. worker' = [worker EXCEPT ![w] = Idle]
        /\ UNCHANGED <<latest, published, channel, faults>>
    BY DEF FindStale
  <1>3. CASE sent
    <2>1. outbox' = [outbox EXCEPT ![r] = row]
      BY <1>1, <1>3 DEF FindStale, IndInv, RowsAreTyped
    <2>2. row \in Rows /\ row.status = "SENT" /\ row.lease = Null
      <3>1. "SENT" \in Statuses /\ Null \in Null..Lease
        BY OutboxAssumption DEF OutboxAssumption, Statuses, Null
      <3> QED
        BY <1>1, <3>1 DEF Rows
    <2> HIDE DEF r, row, sent
    <2>3. outbox' \in [Revisions -> Rows]
      BY <1>1, <2>1, <2>2 DEF IndInv, RowsAreTyped
    <2>4. \A q \in Revisions : Replaces(outbox'[q], outbox[q], q, latest')
      BY <1>1, <2>1, <2>2 DEF IndInv, RowsAreTyped, Replaces
    <2>5. RowsAreTyped' /\ OneLiveSend' /\ OnlyReplacedIsGivenUp'
      BY <1>2, <2>3, <2>4, RowStep DEF IndInv, OthersAreTyped
    <2>6. worker' \in [Workers -> WorkerStates] /\ WorkersHaveRevisions'
      BY <1>2, IdleIsTyped, WorkerTurns DEF Idle
    <2>7. OthersAreTyped'
      BY <1>2, <2>6 DEF IndInv, OthersAreTyped
    <2> QED
      BY <2>5, <2>6, <2>7 DEF IndInv
  <1>4. CASE ~sent
    <2>1. UNCHANGED outbox
      BY <1>4 DEF FindStale
    <2> QED
      BY <1>2, <2>1, IdleIsTyped, WorkerOnlyInductive DEF Idle, IndInv, OthersAreTyped
  <1> QED
    BY <1>3, <1>4

LEMMA FindExpiredInductive ==
    ASSUME IndInv, NEW w \in Workers, FindExpired(w)
    PROVE  IndInv'
  <1> DEFINE r == worker[w].revision
             new == [Idle EXCEPT !.stage = "claim", !.revision = r]
  <1>1. r \in Revisions /\ r \in 0..MaxRevision
    BY OutboxAssumption
    DEF FindExpired, IndInv, WorkersHaveRevisions, OutboxAssumption, Revisions
  <1>2. new \in WorkerStates /\ new.revision = r
    BY <1>1, ClaimingIsTyped
  <1>3. worker' = [worker EXCEPT ![w] = new]
        /\ UNCHANGED <<latest, outbox, published, channel, faults>>
    BY DEF FindExpired
  <1> HIDE DEF new, r
  <1> QED
    BY <1>1, <1>2, <1>3, WorkerOnlyInductive DEF IndInv, OthersAreTyped

LEMMA AnswerTyped ==
    ASSUME IndInv, NEW w \in Workers, NEW result \in Results,
           worker[w].stage = "sending", Answer(w, result),
           UNCHANGED <<latest, outbox, published>>,
           channel' \in Channels, faults' \in 0..MaxFaults
    PROVE  IndInv'
  <1> DEFINE new == [worker[w] EXCEPT !.stage = "readRow", !.result = result]
  <1>1. worker[w] \in WorkerStates /\ worker[w].revision \in Revisions
    BY DEF IndInv, OthersAreTyped, WorkersHaveRevisions
  <1>2. worker' = [worker EXCEPT ![w] = new]
    BY DEF Answer, IndInv, OthersAreTyped
  <1>3. new \in WorkerStates /\ new.revision = worker[w].revision
    BY <1>1 DEF WorkerStates, Stages
  <1>4. published' \in [Revisions -> Results]
    BY DEF IndInv, OthersAreTyped
  <1> HIDE DEF new
  <1> QED
    BY <1>1, <1>2, <1>3, <1>4, WorkerOnlyInductive

LEMMA PostAnsweredInductive ==
    ASSUME IndInv, NEW w \in Workers, PostAnswered(w)
    PROVE  IndInv'
  <1>1. worker[w].revision \in Revisions
    BY DEF PostAnswered, IndInv, WorkersHaveRevisions
  <1>2. channel' \in Channels
    BY <1>1, PostedIsTyped DEF PostAnswered, IndInv, OthersAreTyped
  <1>3. "SENT" \in Results
    BY DEF Results
  <1> QED
    BY <1>2, <1>3, AnswerTyped DEF PostAnswered, IndInv, OthersAreTyped

LEMMA FaultCounted ==
    ASSUME IndInv, faults < MaxFaults, faults' = faults + 1
    PROVE  faults' \in 0..MaxFaults
  BY OutboxAssumption DEF IndInv, OthersAreTyped, OutboxAssumption

LEMMA PostUnansweredInductive ==
    ASSUME IndInv, NEW w \in Workers, PostUnanswered(w)
    PROVE  IndInv'
  <1> DEFINE r == worker[w].revision
             posted == Posted(r)
  <1>1. r \in Revisions
    BY DEF PostUnanswered, IndInv, WorkersHaveRevisions
  <1>2. posted \in Channels
    BY <1>1, PostedIsTyped DEF IndInv, OthersAreTyped
  <1>3. channel' = [posted EXCEPT !.unsure = @ \union {r}]
        /\ UNCHANGED <<latest, outbox, published, worker>>
    BY DEF PostUnanswered
  <1> HIDE DEF posted, r
  <1>4. channel' \in Channels
    BY <1>1, <1>2, <1>3, UnsureIsTyped
  <1>5. RowsAreTyped' /\ OneLiveSend' /\ OnlyReplacedIsGivenUp'
    BY <1>3, RowsStay
  <1>6. OthersAreTyped' /\ WorkersHaveRevisions'
    BY <1>3, <1>4, FaultCounted
    DEF PostUnanswered, IndInv, OthersAreTyped, WorkersHaveRevisions
  <1> QED
    BY <1>5, <1>6 DEF IndInv

LEMMA SendFailsInductive ==
    ASSUME IndInv, NEW w \in Workers, SendFails(w)
    PROVE  IndInv'
  <1>1. "FAILED" \in Results
    BY DEF Results
  <1> QED
    BY <1>1, AnswerTyped, FaultCounted DEF SendFails, IndInv, OthersAreTyped

LEMMA InterruptedInductive ==
    ASSUME IndInv, NEW w \in Workers, Interrupted(w)
    PROVE  IndInv'
  <1> DEFINE r == worker[w].revision
  <1>1. r \in Revisions
    BY DEF Interrupted, IndInv, WorkersHaveRevisions
  <1>2. channel' \in Channels
    <2>1. CASE channel' = channel
      BY <2>1 DEF IndInv, OthersAreTyped
    <2>2. CASE channel' = [channel EXCEPT !.unsure = @ \union {r}]
      BY <1>1, <2>2, UnsureIsTyped DEF IndInv, OthersAreTyped
    <2> QED
      BY <2>1, <2>2 DEF Interrupted
  <1>3. worker' = [worker EXCEPT ![w] = Idle]
        /\ UNCHANGED <<latest, outbox, published>>
    BY DEF Interrupted
  <1> QED
    BY <1>2, <1>3, FaultCounted, IdleIsTyped, WorkerOnlyInductive
    DEF Interrupted, Idle, IndInv, OthersAreTyped

LEMMA CompletionReadsRowInductive ==
    ASSUME IndInv, NEW w \in Workers, CompletionReadsRow(w)
    PROVE  IndInv'
  <1> DEFINE row == outbox[worker[w].revision]
             read == [worker[w] EXCEPT !.stage = "readPublish", !.row = row]
             new == IF worker[w].attempt \in row.authorized THEN read ELSE Idle
  <1>1. worker[w] \in WorkerStates /\ worker[w].revision \in Revisions
        /\ row \in Rows
    BY DEF CompletionReadsRow, IndInv, OthersAreTyped, WorkersHaveRevisions,
           RowsAreTyped
  <1>2. worker' = [worker EXCEPT ![w] = new]
        /\ UNCHANGED <<latest, outbox, published, channel, faults>>
    BY DEF CompletionReadsRow, IndInv, OthersAreTyped
  <1> HIDE DEF row
  <1>3. read \in WorkerStates /\ read.revision = worker[w].revision
    BY <1>1 DEF WorkerStates, Stages
  <1> HIDE DEF read
  <1>4. new \in WorkerStates /\ (new.stage # "idle" => new.revision \in Revisions)
    BY <1>1, <1>3, IdleIsTyped DEF Idle
  <1> HIDE DEF new
  <1> QED
    BY <1>2, <1>4, WorkerOnlyInductive DEF IndInv, OthersAreTyped

LEMMA CompletionReadsPublishInductive ==
    ASSUME IndInv, NEW w \in Workers, CompletionReadsPublish(w)
    PROVE  IndInv'
  <1> DEFINE seen == published[worker[w].revision]
             new == [worker[w] EXCEPT !.stage = "write", !.seen = seen]
  <1>1. worker[w] \in WorkerStates /\ worker[w].revision \in Revisions
        /\ seen \in Results
    BY DEF CompletionReadsPublish, IndInv, OthersAreTyped, WorkersHaveRevisions
  <1>2. worker' = [worker EXCEPT ![w] = new]
        /\ UNCHANGED <<latest, outbox, published, channel, faults>>
    BY DEF CompletionReadsPublish, IndInv, OthersAreTyped
  <1> HIDE DEF seen
  <1>3. new \in WorkerStates /\ new.revision = worker[w].revision
    BY <1>1 DEF WorkerStates, Stages
  <1> HIDE DEF new
  <1> QED
    BY <1>1, <1>2, <1>3, WorkerOnlyInductive DEF IndInv, OthersAreTyped

\* A failure retires the row only when a newer revision exists.
LEMMA CompletionWritesInductive ==
    ASSUME IndInv, NEW w \in Workers, CompletionWrites(w)
    PROVE  IndInv'
  <1> DEFINE r == worker[w].revision
             result == EffectiveResult(w)
             row == Settled(outbox[r], r, result)
  <1>1. worker[w] \in WorkerStates /\ r \in Revisions /\ outbox[r] \in Rows
    BY DEF CompletionWrites, IndInv, OthersAreTyped, WorkersHaveRevisions, RowsAreTyped
  <1>2. published' \in [Revisions -> Results]
    <2>1. Record(w) \in Results
      BY <1>1, WorkerFields DEF Record, IndInv, OthersAreTyped
    <2> QED
      BY <1>1, <2>1 DEF CompletionWrites, IndInv, OthersAreTyped
  <1>3. worker' = [worker EXCEPT ![w] = Idle] /\ UNCHANGED <<latest, channel, faults>>
    BY DEF CompletionWrites
  <1>4. \/ outbox' = [outbox EXCEPT ![r] = row]
        \/ outbox' = outbox
    BY <1>1 DEF CompletionWrites, IndInv, RowsAreTyped
  <1>5. CASE outbox' = [outbox EXCEPT ![r] = row]
    <2>1. /\ row \in Rows
          /\ row.status \in {"SENT", "SUPERSEDED", "PENDING"}
          /\ row.status = "SUPERSEDED" => r < latest
          /\ row.lease = Null
      BY <1>1, SettledRow
    <2> HIDE DEF r, row
    <2>2. outbox' \in [Revisions -> Rows]
      BY <1>1, <1>5, <2>1 DEF IndInv, RowsAreTyped
    <2>3. \A q \in Revisions : Replaces(outbox'[q], outbox[q], q, latest')
      BY <1>1, <1>3, <1>5, <2>1 DEF IndInv, RowsAreTyped, Replaces
    <2>4. RowsAreTyped' /\ OneLiveSend' /\ OnlyReplacedIsGivenUp'
      BY <1>3, <2>2, <2>3, RowStep DEF IndInv, OthersAreTyped
    <2>5. worker' \in [Workers -> WorkerStates] /\ WorkersHaveRevisions'
      BY <1>3, IdleIsTyped, WorkerTurns DEF Idle
    <2>6. OthersAreTyped'
      BY <1>2, <1>3, <2>5 DEF IndInv, OthersAreTyped
    <2> QED
      BY <2>4, <2>5, <2>6 DEF IndInv
  <1>6. CASE outbox' = outbox
    BY <1>2, <1>3, <1>6, IdleIsTyped, WorkerOnlyInductive
    DEF Idle, IndInv, OthersAreTyped
  <1> QED
    BY <1>4, <1>5, <1>6

LEMMA CompletionFailsInductive ==
    ASSUME IndInv, NEW w \in Workers, CompletionFails(w)
    PROVE  IndInv'
  BY IdleIsTyped, WorkerOnlyInductive DEF CompletionFails, Idle, IndInv, OthersAreTyped

\* A lease that runs down makes no send live.
LEMMA ClockAdvancesInductive ==
    ASSUME IndInv, ClockAdvances
    PROVE  IndInv'
  <1>1. UNCHANGED <<latest, published, channel, faults>>
    BY DEF ClockAdvances
  <1>2. ASSUME NEW r \in Revisions
        PROVE  outbox'[r] \in Rows /\ Replaces(outbox'[r], outbox[r], r, latest')
    <2>1. outbox[r] \in Rows
      BY DEF IndInv, RowsAreTyped
    <2>2. CASE Live(outbox[r])
      <3> DEFINE left == outbox[r].lease - 1
                 row == [outbox[r] EXCEPT !.lease = left]
      <3>1. outbox'[r] = row
        BY <2>2 DEF ClockAdvances
      <3>2. left \in Null..Lease /\ left # Null
        BY <2>1, <2>2, OutboxAssumption DEF Live, Rows, Null, OutboxAssumption
      <3> HIDE DEF left
      <3>3. row \in Rows /\ row.lease # Null /\ row.status = outbox[r].status
        BY <2>1, <3>2 DEF Rows
      <3>4. row.status \in {"DELIVERING", "SENDING"}
        BY <2>2, <3>3 DEF IndInv, RowsAreTyped, LeaseMatchesStatus, Live, Null
      <3> HIDE DEF row
      <3> QED
        BY <2>2, <3>1, <3>3, <3>4 DEF Replaces, Live
    <2>3. CASE ~Live(outbox[r])
      <3>1. outbox'[r] = outbox[r]
        BY <2>3 DEF ClockAdvances
      <3> QED
        BY <2>1, <3>1 DEF Replaces
    <2> QED
      BY <2>2, <2>3
  <1>3. outbox' \in [Revisions -> Rows]
    <2>1. outbox' = [r \in Revisions |-> outbox'[r]]
      BY DEF ClockAdvances
    <2> QED
      BY <1>2, <2>1
  <1>4. RowsAreTyped' /\ OneLiveSend' /\ OnlyReplacedIsGivenUp'
    BY <1>1, <1>2, <1>3, RowStep DEF IndInv, OthersAreTyped
  <1>5. ASSUME NEW w \in Workers
        PROVE  worker'[w] \in WorkerStates /\ worker'[w].stage = worker[w].stage
               /\ worker'[w].revision = worker[w].revision
    <2>1. worker[w] \in WorkerStates
      BY DEF IndInv, OthersAreTyped
    <2>2. CASE worker[w].timer > 0
      <3> DEFINE left == worker[w].timer - 1
      <3>1. worker'[w] = [worker[w] EXCEPT !.timer = left]
        BY <2>2 DEF ClockAdvances
      <3>2. left \in 0..SendTimeout
        BY <2>1, <2>2, WorkerFields, OutboxAssumption DEF OutboxAssumption
      <3> HIDE DEF left
      <3> QED
        BY <2>1, <3>1, <3>2 DEF WorkerStates
    <2>3. CASE ~(worker[w].timer > 0)
      BY <2>1, <2>3 DEF ClockAdvances
    <2> QED
      BY <2>2, <2>3
  <1>6. worker' \in [Workers -> WorkerStates] /\ WorkersHaveRevisions'
    <2>1. worker' = [w \in Workers |-> worker'[w]]
      BY DEF ClockAdvances
    <2>2. worker' \in [Workers -> WorkerStates]
      BY <1>5, <2>1
    <2> QED
      BY <1>5, <2>2 DEF IndInv, WorkersHaveRevisions
  <1>7. OthersAreTyped'
    BY <1>1, <1>6 DEF IndInv, OthersAreTyped
  <1> QED
    BY <1>4, <1>6, <1>7 DEF IndInv
-----------------------------------------------------------------------------
\* Every step, and the theorems.

LEMMA StepInductive ==
    ASSUME IndInv, [Next]_vars
    PROVE  IndInv'
  <1>1. ASSUME NEW w \in Workers, Delivery(w)
        PROVE  IndInv'
    BY <1>1, ClaimPublishInductive, AuthorizePublishInductive, FindStaleInductive,
       FindExpiredInductive, PostAnsweredInductive, CompletionReadsRowInductive,
       CompletionReadsPublishInductive, CompletionWritesInductive,
       CompletionFailsInductive DEF Delivery
  <1>2. ASSUME NEW w \in Workers, Fault(w)
        PROVE  IndInv'
    BY <1>2, PostUnansweredInductive, SendFailsInductive, InterruptedInductive
    DEF Fault
  <1>3. CASE Next
    BY <1>1, <1>2, <1>3, ClockAdvancesInductive, GenerateReportInductive,
       RetryPendingInductive DEF Next
  <1>4. CASE UNCHANGED vars
    <2>1. RowsAreTyped' /\ OneLiveSend' /\ OnlyReplacedIsGivenUp'
      BY <1>4, RowsStay DEF vars
    <2>2. OthersAreTyped' /\ WorkersHaveRevisions'
      BY <1>4 DEF vars, IndInv, OthersAreTyped, WorkersHaveRevisions
    <2> QED
      BY <2>1, <2>2 DEF IndInv
  <1> QED
    BY <1>3, <1>4

\* The inductive invariant holds in every reachable state.
THEOREM OutboxInductive == Spec => []IndInv
  <1>1. Init => IndInv
    BY InitInductive
  <1>2. IndInv /\ [Next]_vars => IndInv'
    BY StepInductive
  <1> QED
    BY <1>1, <1>2, PTL DEF Spec

\* The tables and the workers keep their types, and a row its lease exactly
\* while it is being delivered.
THEOREM OutboxTypeCorrect == Spec => []TypeOK
  <1>1. IndInv => TypeOK
    BY DEF IndInv, OthersAreTyped, RowsAreTyped, LeaseMatchesStatus, TypeOK
  <1> QED
    BY <1>1, OutboxInductive, PTL

\* At most one revision is being sent under a live lease, with any number of
\* workers, however long they stall and whatever their completions interleave.
THEOREM SendsAreExclusive == Spec => []OneLiveSend
  <1>1. IndInv => OneLiveSend
    BY DEF IndInv
  <1> QED
    BY <1>1, OutboxInductive, PTL

\* A report is given up only when a newer revision replaces it.
THEOREM LatestIsNeverGivenUp == Spec => []OnlyReplacedIsGivenUp
  <1>1. IndInv => OnlyReplacedIsGivenUp
    BY DEF IndInv
  <1> QED
    BY <1>1, OutboxInductive, PTL
-----------------------------------------------------------------------------
\* What a completion records.

\* A worker that sends, or completes a send, owns an authorized attempt; a
\* worker that does not complete one has no result.
IsAuthorized(x, rows) ==
    /\ x.stage \in {"sending"} \union Completing
          => x.attempt \in rows[x.revision].authorized
    /\ x.stage \notin Completing => x.result = "NONE"

SendersAreAuthorized == \A w \in Workers : IsAuthorized(worker[w], outbox)

\* No attempt of a row loses its authorization.
AuthorizationsStay ==
    \A q \in Revisions : outbox[q].authorized \subseteq outbox'[q].authorized

LEMMA SupersededKeepsAuthorized ==
    ASSUME NEW row \in Rows
    PROVE  Superseded(row).authorized = row.authorized
  BY DEF Superseded, Rows

LEMMA SupersedeOlderKeepsAuthorized ==
    ASSUME NEW rows \in [Revisions -> Rows], NEW r \in Nat, NEW q \in Revisions
    PROVE  SupersedeOlder(rows, r)[q].authorized = rows[q].authorized
  BY SupersededKeepsAuthorized DEF SupersedeOlder

LEMMA ClaimReportKeepsAuthorized ==
    ASSUME IndInv, NEW r \in Revisions, NEW enqueue \in BOOLEAN,
           ClaimReport(r, enqueue)
    PROVE  AuthorizationsStay
  <1> DEFINE rows == IF r > 1 THEN SupersedeOlder(outbox, r) ELSE outbox
  <1>1. r \in Nat
    BY OutboxAssumption DEF OutboxAssumption, Revisions
  <1>2. rows \in [Revisions -> Rows]
        /\ \A q \in Revisions : rows[q].authorized = outbox[q].authorized
    BY <1>1, SupersedeOlderRows, SupersedeOlderKeepsAuthorized DEF IndInv, RowsAreTyped
  <1>3. outbox' = IF enqueue /\ rows[r].status = "NONE"
                  THEN [rows EXCEPT ![r].status = "PENDING"] ELSE rows
    BY DEF ClaimReport
  <1> HIDE DEF rows
  <1>4. \A q \in Revisions : outbox'[q].authorized = rows[q].authorized
    BY <1>2, <1>3 DEF Rows
  <1> QED
    BY <1>2, <1>4 DEF AuthorizationsStay

LEMMA ClaimPublishKeepsAuthorized ==
    ASSUME IndInv, NEW w \in Workers, ClaimPublish(w)
    PROVE  AuthorizationsStay
  <1> DEFINE r == worker[w].revision
             taken == Claimed(outbox[r])
  <1>1. outbox \in [Revisions -> Rows]
    BY DEF IndInv, RowsAreTyped
  <1>2. r \in Revisions
    BY DEF ClaimPublish, IndInv, WorkersHaveRevisions
  <1>3. taken.authorized = outbox[r].authorized
    BY <1>1, <1>2 DEF Claimed, Rows
  <1>4. outbox' = [outbox EXCEPT ![r] = taken] \/ outbox' = outbox
    BY DEF ClaimPublish
  <1> HIDE DEF taken, r
  <1> QED
    BY <1>1, <1>2, <1>3, <1>4 DEF AuthorizationsStay

\* Authorizing adds the attempt of the row, which is the worker's.
LEMMA AuthorizePublishAuthorizes ==
    ASSUME IndInv, NEW w \in Workers, AuthorizePublish(w)
    PROVE  /\ AuthorizationsStay
           /\ worker[w].attempt \in outbox'[worker[w].revision].authorized
  <1> DEFINE r == worker[w].revision
             fenced == [q \in Revisions |->
                          IF q < r /\ outbox[q].status = "SENDING" /\ Expired(outbox[q])
                          THEN Superseded(outbox[q]) ELSE outbox[q]]
  <1>1. outbox \in [Revisions -> Rows] /\ r \in Revisions /\ r \in Int
    BY DEF AuthorizePublish, IndInv, RowsAreTyped, WorkersHaveRevisions, Revisions
  <1>2. fenced \in [Revisions -> Rows]
    BY <1>1, SupersededRow
  <1>3. \A q \in Revisions : fenced[q].authorized = outbox[q].authorized
    BY <1>1, SupersededKeepsAuthorized
  <1>4. fenced[r] = outbox[r]
    BY <1>1
  <1>5. outbox' = [fenced EXCEPT ![r] = Authorized(@)]
    BY DEF AuthorizePublish
  <1>6. outbox[r].attempt = worker[w].attempt
    BY DEF AuthorizePublish, MaySend, Holds
  <1> HIDE DEF fenced, r
  <1>7. Authorized(outbox[r]).authorized
          = outbox[r].authorized \union {worker[w].attempt}
    BY <1>1, <1>6 DEF Authorized, Rows
  <1>8. outbox'[r] = Authorized(outbox[r])
        /\ \A q \in Revisions \ {r} : outbox'[q] = fenced[q]
    BY <1>1, <1>2, <1>4, <1>5
  <1>9. AuthorizationsStay
    BY <1>3, <1>7, <1>8 DEF AuthorizationsStay
  <1> QED
    BY <1>7, <1>8, <1>9 DEF r

LEMMA SettlingKeepsAuthorized ==
    ASSUME IndInv, NEW w \in Workers, FindStale(w) \/ CompletionWrites(w)
    PROVE  AuthorizationsStay
  <1> DEFINE r == worker[w].revision
             sent == [outbox[r] EXCEPT !.status = "SENT", !.lease = Null]
             settled == Settled(outbox[r], r, EffectiveResult(w))
  <1>1. outbox \in [Revisions -> Rows] /\ r \in Revisions
    BY DEF FindStale, CompletionWrites, IndInv, RowsAreTyped, WorkersHaveRevisions
  <1>2. sent.authorized = outbox[r].authorized
    BY <1>1 DEF Rows
  <1>3. settled.authorized = outbox[r].authorized
    BY <1>1 DEF Rows, Settled
  <1>4. \/ outbox' = [outbox EXCEPT ![r] = sent]
        \/ outbox' = [outbox EXCEPT ![r] = settled]
        \/ outbox' = outbox
    BY <1>1 DEF FindStale, CompletionWrites
  <1> HIDE DEF sent, settled, r
  <1> QED
    BY <1>1, <1>2, <1>3, <1>4 DEF AuthorizationsStay

\* One worker moves to a state that keeps the rule, the others stay.
LEMMA SendersStayAuthorized ==
    ASSUME IndInv, SendersAreAuthorized, AuthorizationsStay,
           NEW w \in Workers, NEW new,
           worker' = [worker EXCEPT ![w] = new],
           IsAuthorized(new, outbox')
    PROVE  SendersAreAuthorized'
  <1>1. ASSUME NEW v \in Workers
        PROVE  IsAuthorized(worker'[v], outbox')
    <2>1. CASE v = w
      BY <2>1 DEF IndInv, OthersAreTyped
    <2>2. CASE v # w
      <3>1. worker'[v] = worker[v]
        BY <2>2 DEF IndInv, OthersAreTyped
      <3>2. worker[v].stage \in {"sending"} \union Completing
               => worker[v].revision \in Revisions
        BY DEF IndInv, WorkersHaveRevisions, Completing
      <3> QED
        BY <3>1, <3>2 DEF SendersAreAuthorized, IsAuthorized, AuthorizationsStay
    <2> QED
      BY <2>1, <2>2
  <1> QED
    BY <1>1 DEF SendersAreAuthorized

LEMMA IdleIsAuthorized ==
    ASSUME NEW rows
    PROVE  IsAuthorized(Idle, rows)
  BY DEF IsAuthorized, Idle, Completing

LEMMA ClaimingIsAuthorized ==
    ASSUME NEW rows, NEW r
    PROVE  IsAuthorized([Idle EXCEPT !.stage = "claim", !.revision = r], rows)
  BY DEF IsAuthorized, Idle, Completing

LEMMA SendersInitially ==
    ASSUME Init
    PROVE  SendersAreAuthorized
  BY IdleIsAuthorized DEF Init, SendersAreAuthorized

\* The answer of a send leaves the attempt of its worker authorized.
LEMMA AnswerIsAuthorized ==
    ASSUME IndInv, SendersAreAuthorized, NEW w \in Workers, NEW result,
           worker[w].stage = "sending", Answer(w, result), outbox' = outbox
    PROVE  SendersAreAuthorized'
  <1> DEFINE new == [worker[w] EXCEPT !.stage = "readRow", !.result = result]
  <1>1. worker \in [Workers -> WorkerStates] /\ worker[w] \in WorkerStates
        /\ IsAuthorized(worker[w], outbox)
    BY DEF IndInv, OthersAreTyped, SendersAreAuthorized
  <1>2. worker' = [worker EXCEPT ![w] = new]
    BY <1>1 DEF Answer
  <1>3. /\ new.stage = "readRow" /\ new.attempt = worker[w].attempt
        /\ new.revision = worker[w].revision
    BY <1>1 DEF WorkerStates
  <1> HIDE DEF new
  <1>4. IsAuthorized(new, outbox')
    BY <1>1, <1>3 DEF IsAuthorized, Completing
  <1> QED
    BY <1>2, <1>4, SendersStayAuthorized DEF AuthorizationsStay

LEMMA DeliveryKeepsSenders ==
    ASSUME IndInv, SendersAreAuthorized, NEW w \in Workers, Delivery(w)
    PROVE  SendersAreAuthorized'
  <1>1. worker \in [Workers -> WorkerStates] /\ IsAuthorized(worker[w], outbox)
    BY DEF IndInv, OthersAreTyped, SendersAreAuthorized
  <1>2. worker[w] \in WorkerStates
    BY <1>1
  <1>3. CASE outbox' = outbox /\ worker' = [worker EXCEPT ![w] = Idle]
    BY <1>3, IdleIsAuthorized, SendersStayAuthorized DEF AuthorizationsStay
  <1>4. CASE ClaimPublish(w)
    <2>1. AuthorizationsStay
      BY <1>4, ClaimPublishKeepsAuthorized
    <2> DEFINE a == Claimed(outbox[worker[w].revision]).attempt
               new == [worker[w] EXCEPT !.stage = "authorize", !.attempt = a]
    <2>2. worker' = [worker EXCEPT ![w] = new] \/ worker' = [worker EXCEPT ![w] = Idle]
      BY <1>1, <1>4 DEF ClaimPublish
    <2>3. IsAuthorized(new, outbox')
      <3>1. worker[w].result = "NONE"
        BY <1>1, <1>4 DEF ClaimPublish, IsAuthorized, Completing
      <3>2. new.stage = "authorize" /\ new.result = "NONE"
        BY <1>2, <3>1 DEF WorkerStates
      <3> HIDE DEF new
      <3> QED
        BY <3>2 DEF IsAuthorized, Completing
    <2> HIDE DEF new
    <2> QED
      BY <2>1, <2>2, <2>3, IdleIsAuthorized, SendersStayAuthorized
  <1>5. CASE AuthorizePublish(w)
    <2> DEFINE new == [worker[w] EXCEPT !.stage = "sending", !.timer = SendTimeout]
    <2>1. worker' = [worker EXCEPT ![w] = new]
      BY <1>1, <1>5 DEF AuthorizePublish
    <2>2. /\ new.stage = "sending" /\ new.result = worker[w].result
          /\ new.attempt = worker[w].attempt /\ new.revision = worker[w].revision
      BY <1>2 DEF WorkerStates
    <2>3. worker[w].result = "NONE"
      BY <1>1, <1>5 DEF AuthorizePublish, IsAuthorized, Completing
    <2>4. IsAuthorized(new, outbox')
      <3> HIDE DEF new
      <3> QED
        BY <1>5, <2>2, <2>3, AuthorizePublishAuthorizes DEF IsAuthorized
    <2> HIDE DEF new
    <2> QED
      BY <1>5, <2>1, <2>4, AuthorizePublishAuthorizes, SendersStayAuthorized
  <1>6. CASE FindStale(w) \/ CompletionWrites(w)
    <2>1. worker' = [worker EXCEPT ![w] = Idle]
      BY <1>6 DEF FindStale, CompletionWrites
    <2> QED
      BY <1>6, <2>1, SettlingKeepsAuthorized, IdleIsAuthorized, SendersStayAuthorized
  <1>7. CASE FindExpired(w)
    <2> DEFINE new == [Idle EXCEPT !.stage = "claim", !.revision = worker[w].revision]
    <2>1. worker' = [worker EXCEPT ![w] = new] /\ outbox' = outbox
      BY <1>7 DEF FindExpired
    <2>2. IsAuthorized(new, outbox')
      BY ClaimingIsAuthorized
    <2> HIDE DEF new
    <2> QED
      BY <2>1, <2>2, SendersStayAuthorized DEF AuthorizationsStay
  <1>8. CASE PostAnswered(w)
    BY <1>8, AnswerIsAuthorized DEF PostAnswered
  <1>9. CASE CompletionReadsRow(w)
    <2> DEFINE row == outbox[worker[w].revision]
               read == [worker[w] EXCEPT !.stage = "readPublish", !.row = row]
    <2>1. outbox' = outbox
          /\ \/ worker' = [worker EXCEPT ![w] = read]
             \/ worker' = [worker EXCEPT ![w] = Idle]
      BY <1>1, <1>9 DEF CompletionReadsRow
    <2>2. IsAuthorized(read, outbox)
      <3>1. worker[w].attempt \in outbox[worker[w].revision].authorized
        BY <1>1, <1>9 DEF CompletionReadsRow, IsAuthorized, Completing
      <3> HIDE DEF row
      <3>2. /\ read.stage = "readPublish" /\ read.attempt = worker[w].attempt
            /\ read.revision = worker[w].revision
        BY <1>2 DEF WorkerStates
      <3> HIDE DEF read
      <3> QED
        BY <3>1, <3>2 DEF IsAuthorized, Completing
    <2> HIDE DEF read
    <2> QED
      BY <1>3, <2>1, <2>2, SendersStayAuthorized DEF AuthorizationsStay
  <1>10. CASE CompletionReadsPublish(w)
    <2> DEFINE seen == published[worker[w].revision]
               new == [worker[w] EXCEPT !.stage = "write", !.seen = seen]
    <2>1. outbox' = outbox /\ worker' = [worker EXCEPT ![w] = new]
      BY <1>1, <1>10 DEF CompletionReadsPublish
    <2>2. worker[w].attempt \in outbox[worker[w].revision].authorized
      BY <1>1, <1>10 DEF CompletionReadsPublish, IsAuthorized, Completing
    <2> HIDE DEF seen
    <2>3. /\ new.stage = "write" /\ new.attempt = worker[w].attempt
          /\ new.revision = worker[w].revision
      BY <1>2 DEF WorkerStates
    <2> HIDE DEF new
    <2>4. IsAuthorized(new, outbox')
      BY <2>1, <2>2, <2>3 DEF IsAuthorized, Completing
    <2> QED
      BY <2>1, <2>4, SendersStayAuthorized DEF AuthorizationsStay
  <1>11. CASE CompletionFails(w)
    BY <1>3, <1>11 DEF CompletionFails
  <1> QED
    BY <1>4, <1>5, <1>6, <1>7, <1>8, <1>9, <1>10, <1>11 DEF Delivery

LEMMA SendersStep ==
    ASSUME IndInv, SendersAreAuthorized, [Next]_vars
    PROVE  SendersAreAuthorized'
  <1>1. ASSUME NEW w \in Workers, Delivery(w)
        PROVE  SendersAreAuthorized'
    BY <1>1, DeliveryKeepsSenders
  <1>2. ASSUME NEW w \in Workers, Fault(w)
        PROVE  SendersAreAuthorized'
    <2>1. CASE PostUnanswered(w)
      BY <2>1 DEF PostUnanswered, SendersAreAuthorized
    <2>2. CASE SendFails(w)
      BY <2>2, AnswerIsAuthorized DEF SendFails
    <2>3. CASE Interrupted(w)
      <3>1. worker' = [worker EXCEPT ![w] = Idle] /\ outbox' = outbox
        BY <2>3 DEF Interrupted
      <3> QED
        BY <3>1, IdleIsAuthorized, SendersStayAuthorized DEF AuthorizationsStay
    <2> QED
      BY <1>2, <2>1, <2>2, <2>3 DEF Fault
  <1>3. ASSUME NEW w \in Workers, NEW enqueue \in BOOLEAN, NEW delivers \in BOOLEAN,
               GenerateReport(w, enqueue, delivers)
        PROVE  SendersAreAuthorized'
    <2>1. PICK r \in Revisions :
             /\ ClaimReport(r, enqueue)
             /\ worker' = [worker EXCEPT ![w] =
                  IF enqueue /\ delivers
                  THEN [Idle EXCEPT !.stage = "claim", !.revision = r] ELSE Idle]
      BY <1>3 DEF GenerateReport
    <2>2. AuthorizationsStay
      BY <2>1, ClaimReportKeepsAuthorized
    <2>3. PICK new : worker' = [worker EXCEPT ![w] = new] /\ IsAuthorized(new, outbox')
      BY <2>1, IdleIsAuthorized, ClaimingIsAuthorized
    <2> QED
      BY <2>2, <2>3, SendersStayAuthorized
  <1>4. ASSUME NEW w \in Workers, RetryPending(w)
        PROVE  SendersAreAuthorized'
    <2>1. latest \in Nat /\ outbox \in [Revisions -> Rows]
      BY OutboxAssumption DEF IndInv, OthersAreTyped, RowsAreTyped, OutboxAssumption
    <2>2. AuthorizationsStay
      BY <1>4, <2>1, SupersedeOlderKeepsAuthorized DEF RetryPending, AuthorizationsStay
    <2>3. PICK new : worker' = [worker EXCEPT ![w] = new] /\ IsAuthorized(new, outbox')
      BY <1>4, IdleIsAuthorized, ClaimingIsAuthorized DEF RetryPending
    <2> QED
      BY <2>2, <2>3, SendersStayAuthorized
  <1>5. CASE ClockAdvances
    <2>1. \A q \in Revisions : outbox'[q].authorized = outbox[q].authorized
      BY <1>5 DEF ClockAdvances, IndInv, RowsAreTyped, Rows
    <2>2. \A w \in Workers : /\ worker'[w].stage = worker[w].stage
                             /\ worker'[w].attempt = worker[w].attempt
                             /\ worker'[w].revision = worker[w].revision
                             /\ worker'[w].result = worker[w].result
      BY <1>5 DEF ClockAdvances, IndInv, OthersAreTyped, WorkerStates
    <2>3. \A w \in Workers : worker[w].stage \in {"sending"} \union Completing
                                => worker[w].revision \in Revisions
      BY DEF IndInv, WorkersHaveRevisions, Completing
    <2> QED
      BY <2>1, <2>2, <2>3 DEF SendersAreAuthorized, IsAuthorized
  <1>6. CASE UNCHANGED vars
    BY <1>6 DEF vars, SendersAreAuthorized
  <1> QED
    BY <1>1, <1>2, <1>3, <1>4, <1>5, <1>6 DEF Next

\* Only a completion changes a record, and it leaves one that it read as SENT.
LEMMA SuccessStays ==
    ASSUME IndInv, [Next]_vars, NEW r \in Revisions,
           published[r] = "SENT", published'[r] # "SENT"
    PROVE  \E w \in Workers : /\ worker[w].revision = r
                              /\ Disturbed(w) /\ worker'[w] = Idle
  <1>1. PICK w \in Workers : CompletionWrites(w)
    BY DEF vars, Next, Delivery, Fault, GenerateReport, RetryPending, ClockAdvances,
           ClaimPublish, AuthorizePublish, FindStale, FindExpired, PostAnswered,
           PostUnanswered, SendFails, Interrupted, CompletionReadsRow,
           CompletionReadsPublish, CompletionFails
  <1>2. published' = [published EXCEPT ![worker[w].revision] = Record(w)]
        /\ worker[w].stage = "write" /\ worker' = [worker EXCEPT ![w] = Idle]
    BY <1>1 DEF CompletionWrites
  <1>3. worker'[w] = Idle
    BY <1>2 DEF IndInv, OthersAreTyped
  <1>4. worker[w].revision = r /\ worker[w].seen # "SENT"
    BY <1>2 DEF IndInv, OthersAreTyped, Record
  <1>5. Disturbed(w)
    BY <1>2, <1>4 DEF Disturbed
  <1> QED
    BY <1>3, <1>4, <1>5

\* A worker with a confirmed send becomes idle, without a fault, in a completion
\* that writes the success, or that was disturbed.
LEMMA ConfirmedStep ==
    ASSUME IndInv, SendersAreAuthorized, [Next]_vars, NEW w \in Workers,
           worker[w].result = "SENT", worker'[w] = Idle, faults' = faults,
           ~Disturbed(w)
    PROVE  published'[worker[w].revision] = "SENT"
  <1> DEFINE r == worker[w].revision
  <1>1. worker[w].stage \in Completing
    BY DEF SendersAreAuthorized, IsAuthorized
  <1>2. worker[w].attempt \in outbox[r].authorized
    BY <1>1 DEF SendersAreAuthorized, IsAuthorized
  <1>3. worker'[w] # worker[w]
    BY DEF Idle
  <1>4. \/ CompletionReadsRow(w) \/ CompletionReadsPublish(w)
        \/ CompletionWrites(w) \/ CompletionFails(w)
    <2>1. worker \in [Workers -> WorkerStates] /\ faults \in Int
      BY OutboxAssumption DEF IndInv, OthersAreTyped, OutboxAssumption
    <2>2. ~ClockAdvances
      <3>1. ASSUME ClockAdvances PROVE worker'[w].result = worker[w].result
        BY <2>1, <3>1 DEF ClockAdvances, WorkerStates
      <3> QED
        BY <3>1 DEF Idle
    <2>3. ASSUME NEW v \in Workers, v # w, NEW new,
                 worker' = [worker EXCEPT ![v] = new]
          PROVE  FALSE
      BY <1>3, <2>1, <2>3
    <2>4. ASSUME NEW v \in Workers, Delivery(v)
          PROVE  \/ CompletionReadsRow(w) \/ CompletionReadsPublish(w)
                 \/ CompletionWrites(w) \/ CompletionFails(w)
      <3>1. \E new : worker' = [worker EXCEPT ![v] = new]
        BY <2>1, <2>4 DEF Delivery, ClaimPublish, AuthorizePublish, FindStale,
             FindExpired, PostAnswered, Answer, CompletionReadsRow,
             CompletionReadsPublish, CompletionWrites, CompletionFails
      <3>2. v = w
        BY <2>3, <3>1
      <3>3. Delivery(w)
        BY <2>4, <3>2
      <3> QED
        BY <1>1, <3>3 DEF Delivery, Completing, ClaimPublish, AuthorizePublish,
             FindStale, FindExpired, PostAnswered
    <2>5. ASSUME NEW v \in Workers, Fault(v)
          PROVE  FALSE
      BY <2>1, <2>5 DEF Fault, PostUnanswered, SendFails, Interrupted
    <2>6. ASSUME NEW v \in Workers, NEW enqueue \in BOOLEAN, NEW delivers \in BOOLEAN,
                 GenerateReport(v, enqueue, delivers) \/ RetryPending(v)
          PROVE  FALSE
      <3>1. \E new : worker' = [worker EXCEPT ![v] = new]
        BY <2>6 DEF GenerateReport, RetryPending
      <3>2. v = w
        BY <2>3, <3>1
      <3> QED
        BY <1>1, <2>6, <3>2 DEF GenerateReport, RetryPending, Completing
    <2>7. Next
      BY <1>3 DEF vars
    <2> QED
      BY <2>2, <2>4, <2>5, <2>6, <2>7 DEF Next
  <1>5. CompletionWrites(w) \/ CompletionFails(w)
    <2>1. ASSUME CompletionReadsRow(w) PROVE worker'[w].stage = "readPublish"
      BY <1>2, <2>1 DEF CompletionReadsRow, IndInv, OthersAreTyped, WorkerStates
    <2>2. ASSUME CompletionReadsPublish(w) PROVE worker'[w].stage = "write"
      BY <2>2 DEF CompletionReadsPublish, IndInv, OthersAreTyped, WorkerStates
    <2>3. worker'[w].stage = "idle"
      BY DEF Idle
    <2>4. ~CompletionReadsRow(w) /\ ~CompletionReadsPublish(w)
      BY <2>1, <2>2, <2>3
    <2> QED
      BY <1>4, <2>4
  <1>6. r \in Revisions /\ published \in [Revisions -> Results]
    BY <1>1 DEF IndInv, OthersAreTyped, WorkersHaveRevisions, Completing
  <1>7. worker[w].seen = published[r]
    BY <1>5 DEF Disturbed, CompletionWrites, CompletionFails
  <1>8. CompletionWrites(w)
    BY <1>5, <1>7 DEF CompletionFails, InsertCollides
  <1>9. Record(w) = "SENT"
    BY <1>7 DEF Record
  <1> QED
    BY <1>6, <1>8, <1>9 DEF CompletionWrites

\* With any workers, stalls and overlapping completions, the record of a success
\* is only ever overwritten by a completion that read the record before it.
THEOREM SuccessIsFinal == Spec => SentIsNotDowngraded
  <1>1. IndInv /\ [Next]_vars
           => [\A r \in Revisions : published[r] = "SENT"
                 => \/ published'[r] = "SENT"
                    \/ \E w \in Workers : /\ worker[w].revision = r
                                          /\ Disturbed(w) /\ worker'[w] = Idle]_vars
    BY SuccessStays
  <1> QED
    BY <1>1, OutboxInductive, PTL DEF Spec, SentIsNotDowngraded

\* A confirmed post is recorded: no reclaim, superseding or late answer makes the
\* completion of an authorized attempt look like one to ignore.
THEOREM PostsAreRecorded == Spec => ConfirmedPostIsRecorded
  <1>1. Init => SendersAreAuthorized
    BY SendersInitially
  <1>2. IndInv /\ SendersAreAuthorized /\ [Next]_vars => SendersAreAuthorized'
    BY SendersStep
  <1>3. IndInv /\ SendersAreAuthorized /\ [Next]_vars
           => [\A w \in Workers :
                 /\ worker[w].result = "SENT" /\ worker'[w] = Idle /\ faults' = faults
                 => published'[worker[w].revision] = "SENT" \/ Disturbed(w)]_vars
    BY ConfirmedStep
  <1> QED
    BY <1>1, <1>2, <1>3, OutboxInductive, PTL DEF Spec, ConfirmedPostIsRecorded
-----------------------------------------------------------------------------
(***************************************************************************)
(* Without stalls.  A worker then answers within its lease, so its row is  *)
(* still its own, nobody else sends, and what it has read is current.      *)
(***************************************************************************)
IsSending(x) == x.stage \in {"sending"} \union Completing

Owning == {"authorize", "sending"} \union Completing

\* An attempt belongs to one worker, and the row has seen no smaller one last.
AttemptsAreOwn ==
    \A w \in Workers : worker[w].stage \in Owning =>
        /\ worker[w].attempt <= outbox[worker[w].revision].attempt
        /\ \A v \in Workers \ {w} :
              worker[v].stage \in Owning /\ worker[v].revision = worker[w].revision
                 => worker[v].attempt # worker[w].attempt

\* The lease of a send outlasts its timer.
IsLive(x, rows) ==
    LET row == rows[x.revision]
    IN  IsSending(x) => /\ row.status = "SENDING" /\ row.attempt = x.attempt
                        /\ row.lease > x.timer

SendsAreLive == \A w \in Workers : IsLive(worker[w], outbox)

\* What has been posted is no newer than what is being sent.
MessagesInOrder ==
    /\ channel.last <= latest
    /\ \A w \in Workers :
          /\ worker[w].revision <= latest
          /\ IsSending(worker[w]) => channel.last <= worker[w].revision

SeenIsCurrent == \A w \in Workers : ~Disturbed(w)

\* A worker that knows of a post, and has not recorded it yet.
Knows(x, r) == x.stage \in Completing /\ x.result = "SENT" /\ x.revision = r

\* A revision that was posted is unsure, recorded, or about to be recorded; and
\* one that is being sent for the first time, or again, was not posted surely.
PostsAreKnown ==
    /\ \A r \in Revisions :
          \/ channel.posts[r] = 0 \/ r \in channel.unsure \/ published[r] = "SENT"
          \/ \E w \in Workers : Knows(worker[w], r)
    /\ \A w \in Workers : worker[w].stage = "sending" =>
          \/ channel.posts[worker[w].revision] = 0
          \/ worker[w].revision \in channel.unsure
    /\ DuplicatesAreUnsure

OwnInv == AttemptsAreOwn /\ SendsAreLive

StallFree ==
    /\ SendersAreAuthorized /\ OwnInv
    /\ MessagesInOrder /\ SeenIsCurrent /\ PostsAreKnown

\* One worker at most is sending or completing a send.
LEMMA OneSender ==
    ASSUME IndInv, OwnInv, NEW v \in Workers, NEW w \in Workers,
           IsSending(worker[v]), IsSending(worker[w])
    PROVE  v = w
  <1>1. /\ worker[v].revision \in Revisions /\ worker[w].revision \in Revisions
        /\ worker[v].timer \in Nat /\ worker[w].timer \in Nat
    <2>1. worker[v].timer \in 0..SendTimeout /\ worker[w].timer \in 0..SendTimeout
      BY WorkerFields DEF IndInv, OthersAreTyped
    <2> QED
      BY <2>1, OutboxAssumption
      DEF IndInv, WorkersHaveRevisions, IsSending, Completing, OutboxAssumption
  <1>2. /\ outbox[worker[v].revision].lease \in Int
        /\ outbox[worker[w].revision].lease \in Int
    BY <1>1, OutboxAssumption DEF IndInv, RowsAreTyped, Rows, Null, OutboxAssumption
  <1>3. /\ outbox[worker[v].revision].status = "SENDING"
        /\ outbox[worker[w].revision].status = "SENDING"
        /\ Live(outbox[worker[v].revision]) /\ Live(outbox[worker[w].revision])
        /\ outbox[worker[v].revision].attempt = worker[v].attempt
        /\ outbox[worker[w].revision].attempt = worker[w].attempt
    BY <1>1, <1>2 DEF OwnInv, SendsAreLive, IsLive, Live
  <1>4. worker[v].revision = worker[w].revision
    BY <1>1, <1>3 DEF IndInv, OneLiveSend
  <1>5. worker[v].stage \in Owning /\ worker[w].stage \in Owning
    BY DEF IsSending, Owning
  <1> QED
    BY <1>3, <1>4, <1>5 DEF OwnInv, AttemptsAreOwn

\* What most steps do to the rows: attempts are only counted up, and a live send
\* is left alone.
KeepsSends ==
    \A q \in Revisions :
        /\ outbox'[q].attempt >= outbox[q].attempt
        /\ outbox[q].status = "SENDING" /\ Live(outbox[q]) => outbox'[q] = outbox[q]

\* One worker moves, and goes on with the attempt it had or with none.
GoesOn(x, new) ==
    /\ new.stage \in Owning =>
          /\ x.stage \in Owning
          /\ new.revision = x.revision /\ new.attempt = x.attempt
    /\ IsSending(new) => IsSending(x) /\ new.timer = x.timer

LEMMA AttemptsStayOwn ==
    ASSUME IndInv, AttemptsAreOwn, NEW w \in Workers, NEW new,
           worker' = [worker EXCEPT ![w] = new], GoesOn(worker[w], new),
           \A q \in Revisions : outbox'[q].attempt >= outbox[q].attempt,
           outbox' \in [Revisions -> Rows]
    PROVE  AttemptsAreOwn'
  <1>1. \A v \in Workers : worker'[v].stage \in Owning =>
            /\ worker[v].stage \in Owning
            /\ worker'[v].revision = worker[v].revision
            /\ worker'[v].attempt = worker[v].attempt
    BY DEF GoesOn, IndInv, OthersAreTyped
  <1>2. ASSUME NEW v \in Workers, worker[v].stage \in Owning
        PROVE  worker[v].attempt <= outbox'[worker[v].revision].attempt
    <2> DEFINE r == worker[v].revision
    <2>1. r \in Revisions
      BY <1>2 DEF IndInv, WorkersHaveRevisions, Owning, Completing
    <2>2. worker[v].attempt \in Int /\ outbox[r].attempt \in Int
          /\ outbox'[r].attempt \in Int
      BY <2>1, WorkerFields
      DEF IndInv, OthersAreTyped, RowsAreTyped, Rows, Attempts
    <2>3. worker[v].attempt <= outbox[r].attempt
      BY <1>2 DEF AttemptsAreOwn
    <2>4. outbox'[r].attempt >= outbox[r].attempt
      BY <2>1
    <2> QED
      BY <2>2, <2>3, <2>4
  <1> QED
    BY <1>1, <1>2 DEF AttemptsAreOwn

\* The row of a worker that sends is such a live send.
LEMMA LiveSendIsKept ==
    ASSUME IndInv, OwnInv, KeepsSends, NEW v \in Workers, IsSending(worker[v])
    PROVE  outbox'[worker[v].revision] = outbox[worker[v].revision]
  <1> DEFINE r == worker[v].revision
  <1>1. r \in Revisions /\ worker[v].timer \in 0..SendTimeout
    BY WorkerFields
    DEF IndInv, OthersAreTyped, WorkersHaveRevisions, IsSending, Completing
  <1>2. outbox[r].lease \in Int /\ SendTimeout \in Int
    BY <1>1, OutboxAssumption DEF IndInv, RowsAreTyped, Rows, Null, OutboxAssumption
  <1>3. outbox[r].status = "SENDING" /\ outbox[r].lease > worker[v].timer
    BY DEF OwnInv, SendsAreLive, IsLive
  <1>4. Live(outbox[r])
    BY <1>1, <1>2, <1>3 DEF Live
  <1> QED
    BY <1>1, <1>3, <1>4 DEF KeepsSends

LEMMA SendsStayLive ==
    ASSUME IndInv, OwnInv, KeepsSends, NEW w \in Workers, NEW new,
           worker' = [worker EXCEPT ![w] = new], GoesOn(worker[w], new)
    PROVE  SendsAreLive'
  <1>1. ASSUME NEW v \in Workers, IsSending(worker'[v])
        PROVE  /\ IsSending(worker[v])
               /\ worker'[v].revision = worker[v].revision
               /\ worker'[v].attempt = worker[v].attempt
               /\ worker'[v].timer = worker[v].timer
    <2>1. IsSending(worker'[v]) => worker'[v].stage \in Owning
      BY DEF IsSending, Owning
    <2> QED
      BY <1>1, <2>1 DEF GoesOn, IndInv, OthersAreTyped
  <1>2. ASSUME NEW v \in Workers, IsSending(worker[v])
        PROVE  outbox'[worker[v].revision] = outbox[worker[v].revision]
    BY <1>2, LiveSendIsKept
  <1>3. ASSUME NEW v \in Workers PROVE IsLive(worker'[v], outbox')
    <2>1. CASE IsSending(worker'[v])
      BY <2>1, <1>1, <1>2 DEF OwnInv, SendsAreLive, IsLive
    <2> QED
      BY <2>1 DEF IsLive
  <1> QED
    BY <1>3 DEF SendsAreLive

LEMMA OwnStays ==
    ASSUME IndInv, IndInv', OwnInv, KeepsSends, NEW w \in Workers, NEW new,
           worker' = [worker EXCEPT ![w] = new], GoesOn(worker[w], new)
    PROVE  OwnInv'
  BY AttemptsStayOwn, SendsStayLive DEF OwnInv, KeepsSends, IndInv, RowsAreTyped

LEMMA IdleGoesOn ==
    ASSUME NEW x
    PROVE  GoesOn(x, Idle)
  BY DEF GoesOn, Idle, Owning, IsSending, Completing

LEMMA ClaimingGoesOn ==
    ASSUME NEW x, NEW r
    PROVE  GoesOn(x, [Idle EXCEPT !.stage = "claim", !.revision = r])
  BY DEF GoesOn, Idle, Owning, IsSending, Completing

\* Retiring spares the live sends.
LEMMA SupersedeOlderSpares ==
    ASSUME NEW rows \in [Revisions -> Rows], NEW r \in Nat, NEW q \in Revisions
    PROVE  /\ SupersedeOlder(rows, r)[q].attempt = rows[q].attempt
           /\ rows[q].status = "SENDING" /\ Live(rows[q])
                 => SupersedeOlder(rows, r)[q] = rows[q]
  <1>1. Superseded(rows[q]).attempt = rows[q].attempt
    BY DEF Superseded, Rows
  <1>2. rows[q].status = "SENDING" /\ Live(rows[q]) => ~Supersedable(rows[q])
    BY DEF Supersedable, Live, Expired
  <1> QED
    BY <1>1, <1>2 DEF SupersedeOlder

LEMMA ClaimReportSpares ==
    ASSUME IndInv, NEW r \in Revisions, NEW enqueue \in BOOLEAN,
           ClaimReport(r, enqueue)
    PROVE  KeepsSends
  <1> DEFINE rows == IF r > 1 THEN SupersedeOlder(outbox, r) ELSE outbox
  <1>1. r \in Nat /\ outbox \in [Revisions -> Rows]
    BY OutboxAssumption DEF OutboxAssumption, Revisions, IndInv, RowsAreTyped
  <1>2. rows \in [Revisions -> Rows]
        /\ \A q \in Revisions :
              /\ rows[q].attempt = outbox[q].attempt
              /\ outbox[q].status = "SENDING" /\ Live(outbox[q]) => rows[q] = outbox[q]
    BY <1>1, SupersedeOlderRows, SupersedeOlderSpares
  <1>3. outbox' = IF enqueue /\ rows[r].status = "NONE"
                  THEN [rows EXCEPT ![r].status = "PENDING"] ELSE rows
    BY DEF ClaimReport
  <1> HIDE DEF rows
  <1>4. \A q \in Revisions : /\ outbox'[q].attempt = rows[q].attempt
                             /\ rows[q].status = "SENDING" => outbox'[q] = rows[q]
    BY <1>2, <1>3 DEF Rows
  <1>5. \A q \in Revisions : outbox[q].attempt \in Int
    BY <1>1 DEF Rows, Attempts
  <1> QED
    BY <1>2, <1>4, <1>5 DEF KeepsSends

LEMMA UnchangedSpares ==
    ASSUME IndInv, outbox' = outbox
    PROVE  KeepsSends
  <1>1. \A q \in Revisions : outbox[q].attempt \in Int
    BY DEF IndInv, RowsAreTyped, Rows, Attempts
  <1> QED
    BY <1>1 DEF KeepsSends

LEMMA RetryPendingSpares ==
    ASSUME IndInv, NEW w \in Workers, RetryPending(w)
    PROVE  KeepsSends
  <1>1. latest \in Nat /\ outbox \in [Revisions -> Rows]
    BY OutboxAssumption DEF IndInv, OthersAreTyped, RowsAreTyped, OutboxAssumption
  <1>2. \A q \in Revisions : outbox[q].attempt \in Int
    BY <1>1 DEF Rows, Attempts
  <1> QED
    BY <1>1, <1>2, SupersedeOlderSpares DEF RetryPending, KeepsSends

\* A worker that holds a row finds it DELIVERING, which is no send.
LEMMA FindStaleSpares ==
    ASSUME IndInv, NEW w \in Workers, FindStale(w)
    PROVE  KeepsSends
  <1> DEFINE r == worker[w].revision
             row == [outbox[r] EXCEPT !.status = "SENT", !.lease = Null]
  <1>1. r \in Revisions /\ outbox \in [Revisions -> Rows]
    BY DEF FindStale, IndInv, WorkersHaveRevisions, RowsAreTyped
  <1>2. row.attempt = outbox[r].attempt /\ \A q \in Revisions : outbox[q].attempt \in Int
    BY <1>1 DEF Rows, Attempts
  <1>3. CASE outbox' = outbox
    BY <1>3, UnchangedSpares
  <1>4. CASE Holds(w) /\ outbox' = [outbox EXCEPT ![r] = row]
    <2>1. outbox[r].status # "SENDING"
      BY <1>4 DEF Holds
    <2> HIDE DEF r, row
    <2> QED
      BY <1>1, <1>2, <1>4, <2>1 DEF KeepsSends
  <1> QED
    BY <1>1, <1>3, <1>4 DEF FindStale

\* A claim takes a row that nobody is sending.
LEMMA ClaimPublishSpares ==
    ASSUME IndInv, NEW w \in Workers, ClaimPublish(w)
    PROVE  KeepsSends
  <1> DEFINE r == worker[w].revision
             taken == Claimed(outbox[r])
  <1>1. r \in Revisions /\ outbox \in [Revisions -> Rows]
    BY DEF ClaimPublish, IndInv, WorkersHaveRevisions, RowsAreTyped
  <1>2. CASE ~Claimable(outbox[r])
    BY <1>2, UnchangedSpares DEF ClaimPublish
  <1>3. CASE Claimable(outbox[r])
    <2>1. outbox' = [outbox EXCEPT ![r] = taken]
      BY <1>3 DEF ClaimPublish
    <2>2. taken.attempt = outbox[r].attempt + 1
      BY <1>1 DEF Claimed, Rows
    <2>3. ~(outbox[r].status = "SENDING" /\ Live(outbox[r]))
      BY <1>3 DEF Claimable, Live, Expired
    <2>4. \A q \in Revisions : outbox[q].attempt \in Int
      BY <1>1 DEF Rows, Attempts
    <2> HIDE DEF taken, r
    <2> QED
      BY <1>1, <2>1, <2>2, <2>3, <2>4 DEF KeepsSends
  <1> QED
    BY <1>2, <1>3

\* A claim takes the next attempt, which no worker has.
LEMMA ClaimPublishOwns ==
    ASSUME IndInv, IndInv', OwnInv, NEW w \in Workers, ClaimPublish(w)
    PROVE  OwnInv'
  <1> DEFINE r == worker[w].revision
             taken == Claimed(outbox[r])
             new == [worker[w] EXCEPT !.stage = "authorize", !.attempt = taken.attempt]
  <1>1. /\ r \in Revisions /\ outbox \in [Revisions -> Rows]
        /\ worker \in [Workers -> WorkerStates] /\ worker[w] \in WorkerStates
        /\ worker[w].stage = "claim"
    BY DEF ClaimPublish, IndInv, WorkersHaveRevisions, RowsAreTyped, OthersAreTyped
  <1>2. CASE ~Claimable(outbox[r])
    <2>1. worker' = [worker EXCEPT ![w] = Idle] /\ outbox' = outbox
      BY <1>2 DEF ClaimPublish
    <2> QED
      BY <2>1, IdleGoesOn, UnchangedSpares, OwnStays
  <1>3. CASE Claimable(outbox[r])
    <2>1. outbox' = [outbox EXCEPT ![r] = taken] /\ worker' = [worker EXCEPT ![w] = new]
      BY <1>1, <1>3 DEF ClaimPublish
    <2>2. taken.attempt = outbox[r].attempt + 1
      BY <1>1 DEF Claimed, Rows
    <2>4. new.stage = "authorize" /\ new.revision = r /\ new.attempt = taken.attempt
      BY <1>1 DEF WorkerStates
    <2>5. \A q \in Revisions : outbox[q].attempt \in Int
      BY <1>1 DEF Rows, Attempts
    <2> HIDE DEF taken, new, r
    <2>6. KeepsSends
      BY ClaimPublishSpares
    <2>7. SendsAreLive'
      <3>1. ASSUME NEW v \in Workers PROVE IsLive(worker'[v], outbox')
        <4>1. CASE v = w
          BY <1>1, <2>1, <2>4, <4>1 DEF IsLive, IsSending, Completing
        <4>2. CASE v # w /\ IsSending(worker[v])
          <5>1. worker'[v] = worker[v]
            BY <1>1, <2>1, <4>2
          <5>2. outbox'[worker[v].revision] = outbox[worker[v].revision]
            BY <2>6, <4>2, LiveSendIsKept
          <5> QED
            BY <5>1, <5>2 DEF OwnInv, SendsAreLive, IsLive
        <4>3. CASE v # w /\ ~IsSending(worker[v])
          BY <1>1, <2>1, <4>3 DEF IsLive
        <4> QED
          BY <4>1, <4>2, <4>3
      <3> QED
        BY <3>1 DEF SendsAreLive
    <2>8. AttemptsAreOwn'
      <3>1. ASSUME NEW v \in Workers \ {w}, worker[v].stage \in Owning
            PROVE  /\ worker'[v] = worker[v]
                   /\ worker[v].attempt <= outbox'[worker[v].revision].attempt
                   /\ worker[v].revision = r => worker[v].attempt < taken.attempt
        <4>1. worker'[v] = worker[v] /\ worker[v].attempt \in Int
          BY <1>1, <2>1, WorkerFields DEF Attempts
        <4>2. worker[v].revision \in Revisions
          BY <3>1 DEF IndInv, WorkersHaveRevisions, Owning, Completing
        <4>3. worker[v].attempt <= outbox[worker[v].revision].attempt
          BY <3>1 DEF OwnInv, AttemptsAreOwn
        <4> QED
          BY <1>1, <2>1, <2>2, <2>5, <4>1, <4>2, <4>3
      <3>2. /\ worker'[w].attempt = taken.attempt /\ worker'[w].revision = r
            /\ outbox'[r].attempt = taken.attempt /\ taken.attempt \in Int
        BY <1>1, <2>1, <2>2, <2>4, <2>5
      <3>3. \A v \in Workers \ {w} : worker'[v] = worker[v]
        BY <1>1, <2>1
      <3>4. ASSUME NEW v \in Workers \ {w}, worker'[v].stage \in Owning,
                   worker'[v].revision = r
            PROVE  worker'[v].attempt # taken.attempt
        <4>1. worker[v].attempt < taken.attempt /\ worker[v].attempt \in Int
          BY <1>1, <3>1, <3>3, <3>4, WorkerFields DEF Attempts
        <4> QED
          BY <3>2, <3>3, <4>1
      <3>5. ASSUME NEW v \in Workers, worker'[v].stage \in Owning
            PROVE  worker'[v].attempt <= outbox'[worker'[v].revision].attempt
        BY <3>1, <3>2, <3>3, <3>5
      <3>6. ASSUME NEW v \in Workers, NEW u \in Workers \ {v},
                   worker'[v].stage \in Owning, worker'[u].stage \in Owning,
                   worker'[u].revision = worker'[v].revision
            PROVE  worker'[u].attempt # worker'[v].attempt
        <4>1. CASE v = w
          BY <3>2, <3>4, <3>6, <4>1
        <4>2. CASE u = w
          BY <3>2, <3>4, <3>6, <4>2
        <4>3. CASE v # w /\ u # w
          BY <3>3, <3>6, <4>3 DEF OwnInv, AttemptsAreOwn
        <4> QED
          BY <4>1, <4>2, <4>3
      <3> QED
        BY <3>5, <3>6 DEF AttemptsAreOwn
    <2> QED
      BY <2>7, <2>8 DEF OwnInv
  <1> QED
    BY <1>2, <1>3

\* A send begins with a lease that outlasts its timer.
LEMMA AuthorizePublishOwns ==
    ASSUME IndInv, IndInv', OwnInv, NEW w \in Workers, AuthorizePublish(w)
    PROVE  OwnInv'
  <1> DEFINE r == worker[w].revision
             fenced == [q \in Revisions |->
                          IF q < r /\ outbox[q].status = "SENDING" /\ Expired(outbox[q])
                          THEN Superseded(outbox[q]) ELSE outbox[q]]
             new == [worker[w] EXCEPT !.stage = "sending", !.timer = SendTimeout]
             sent == Authorized(outbox[r])
  <1>1. /\ r \in Revisions /\ r \in Int /\ outbox \in [Revisions -> Rows]
        /\ worker \in [Workers -> WorkerStates] /\ worker[w] \in WorkerStates
        /\ worker[w].stage = "authorize"
    BY DEF AuthorizePublish, IndInv, WorkersHaveRevisions, RowsAreTyped,
           OthersAreTyped, Revisions
  <1>2. outbox[r].status = "DELIVERING" /\ outbox[r].attempt = worker[w].attempt
    BY DEF AuthorizePublish, MaySend, Holds
  <1>3. \A q \in Revisions : /\ fenced[q].attempt = outbox[q].attempt
                             /\ Live(outbox[q]) => fenced[q] = outbox[q]
    <2>1. \A q \in Revisions : Superseded(outbox[q]).attempt = outbox[q].attempt
      BY <1>1 DEF Superseded, Rows
    <2> QED
      BY <2>1 DEF Live, Expired
  <1>4. fenced[r] = outbox[r]
    BY <1>1
  <1>5. outbox' = [fenced EXCEPT ![r] = Authorized(@)]
        /\ worker' = [worker EXCEPT ![w] = new]
    BY <1>1 DEF AuthorizePublish
  <1>6. /\ new.stage = "sending" /\ new.revision = r
        /\ new.attempt = worker[w].attempt /\ new.timer = SendTimeout
    BY <1>1 DEF WorkerStates
  <1>7. fenced = [q \in Revisions |-> fenced[q]]
    OBVIOUS
  <1> HIDE DEF fenced, new
  <1>8. /\ outbox'[r] = sent
        /\ \A q \in Revisions \ {r} : outbox'[q] = fenced[q]
    BY <1>1, <1>4, <1>5, <1>7
  <1>9. sent.status = "SENDING" /\ sent.attempt = outbox[r].attempt /\ sent.lease = Lease
    BY <1>1 DEF Authorized, Rows
  <1> HIDE DEF sent
  <1>10. \A q \in Revisions : outbox[q].attempt \in Int
    BY <1>1 DEF Rows, Attempts
  <1>11. KeepsSends
    BY <1>1, <1>2, <1>3, <1>8, <1>9, <1>10 DEF KeepsSends
  <1>12. AttemptsAreOwn'
    <2>1. \A v \in Workers : worker'[v].stage \in Owning =>
             /\ worker[v].stage \in Owning
             /\ worker'[v].revision = worker[v].revision
             /\ worker'[v].attempt = worker[v].attempt
      BY <1>1, <1>5, <1>6 DEF Owning
    <2>2. \A q \in Revisions : outbox'[q].attempt = outbox[q].attempt
      BY <1>3, <1>8, <1>9
    <2>3. \A v \in Workers : worker[v].stage \in Owning => worker[v].revision \in Revisions
      BY DEF IndInv, WorkersHaveRevisions, Owning, Completing
    <2> QED
      BY <2>1, <2>2, <2>3 DEF OwnInv, AttemptsAreOwn
  <1>13. ASSUME NEW v \in Workers PROVE IsLive(worker'[v], outbox')
    <2>1. CASE v = w
      <3>1. Lease > SendTimeout
        BY OutboxAssumption DEF OutboxAssumption
      <3> QED
        BY <1>1, <1>2, <1>5, <1>6, <1>8, <1>9, <2>1, <3>1 DEF IsLive
    <2>2. CASE v # w /\ IsSending(worker[v])
      BY <1>1, <1>5, <1>11, <2>2, LiveSendIsKept DEF OwnInv, SendsAreLive, IsLive
    <2>3. CASE v # w /\ ~IsSending(worker[v])
      BY <1>1, <1>5, <2>3 DEF IsLive
    <2> QED
      BY <2>1, <2>2, <2>3
  <1> QED
    BY <1>12, <1>13 DEF OwnInv, SendsAreLive

\* A completion settles the only row that is being sent.
LEMMA CompletionWritesOwns ==
    ASSUME IndInv, IndInv', OwnInv, NEW w \in Workers, CompletionWrites(w)
    PROVE  OwnInv'
  <1> DEFINE r == worker[w].revision
             row == Settled(outbox[r], r, EffectiveResult(w))
  <1>1. /\ r \in Revisions /\ outbox \in [Revisions -> Rows]
        /\ worker \in [Workers -> WorkerStates] /\ worker[w].stage = "write"
    BY DEF CompletionWrites, IndInv, WorkersHaveRevisions, RowsAreTyped, OthersAreTyped
  <1>2. row.attempt = outbox[r].attempt /\ \A q \in Revisions : outbox[q].attempt \in Int
    BY <1>1 DEF Settled, Rows, Attempts
  <1>3. worker' = [worker EXCEPT ![w] = Idle]
        /\ (outbox' = [outbox EXCEPT ![r] = row] \/ outbox' = outbox)
    BY DEF CompletionWrites
  <1> HIDE DEF row
  <1>4. \A q \in Revisions : outbox'[q].attempt >= outbox[q].attempt
    BY <1>1, <1>2, <1>3
  <1>5. AttemptsAreOwn'
    BY <1>3, <1>4, IdleGoesOn, AttemptsStayOwn DEF OwnInv, IndInv, RowsAreTyped
  <1>6. IsSending(worker[w])
    BY <1>1 DEF IsSending, Completing
  <1>7. ASSUME NEW v \in Workers PROVE IsLive(worker'[v], outbox')
    <2>1. ~IsSending(worker'[v])
      <3>1. CASE v = w
        BY <1>1, <1>3, <3>1 DEF IsSending, Completing, Idle
      <3>2. CASE v # w
        BY <1>1, <1>3, <1>6, <3>2, OneSender
      <3> QED
        BY <3>1, <3>2
    <2> QED
      BY <2>1 DEF IsLive
  <1> QED
    BY <1>5, <1>7 DEF OwnInv, SendsAreLive

\* Time passes only while every send has time left, on its timer and its lease.
LEMMA ClockAdvancesOwns ==
    ASSUME ~Stalls, IndInv, OwnInv, ClockAdvances
    PROVE  OwnInv'
  <1>1. \A w \in Workers : Waits(w)
    BY DEF ClockAdvances
  <1>2. outbox \in [Revisions -> Rows] /\ worker \in [Workers -> WorkerStates]
    BY DEF IndInv, RowsAreTyped, OthersAreTyped
  <1>3. \A q \in Revisions :
           /\ outbox'[q].status = outbox[q].status
           /\ outbox'[q].attempt = outbox[q].attempt
           /\ Live(outbox[q]) => outbox'[q].lease = outbox[q].lease - 1
    BY <1>2 DEF ClockAdvances, Rows
  <1>4. \A w \in Workers :
           /\ worker'[w].stage = worker[w].stage
           /\ worker'[w].revision = worker[w].revision
           /\ worker'[w].attempt = worker[w].attempt
           /\ worker[w].timer > 0 => worker'[w].timer = worker[w].timer - 1
    BY <1>2 DEF ClockAdvances, WorkerStates
  <1>5. AttemptsAreOwn'
    <2>1. \A w \in Workers : worker[w].stage \in Owning => worker[w].revision \in Revisions
      BY DEF IndInv, WorkersHaveRevisions, Owning, Completing
    <2> QED
      BY <1>3, <1>4, <2>1 DEF OwnInv, AttemptsAreOwn
  <1>6. ASSUME NEW w \in Workers, IsSending(worker[w])
        PROVE  IsLive(worker'[w], outbox')
    <2> DEFINE r == worker[w].revision
    <2>1. worker[w].stage = "sending" /\ worker[w].timer > 0
      BY <1>1, <1>6 DEF Waits, IsSending, Completing
    <2>2. r \in Revisions
      BY <2>1 DEF IndInv, WorkersHaveRevisions
    <2>3. worker[w].timer \in Int /\ outbox[r].lease \in Int
      BY <1>2, <2>2, WorkerFields, OutboxAssumption DEF Rows, Null, OutboxAssumption
    <2>4. /\ outbox[r].status = "SENDING" /\ outbox[r].attempt = worker[w].attempt
          /\ outbox[r].lease > worker[w].timer
      BY <1>6 DEF OwnInv, SendsAreLive, IsLive
    <2>5. Live(outbox[r])
      BY <2>1, <2>3, <2>4 DEF Live
    <2>6. outbox'[r].lease > worker'[w].timer
      BY <1>3, <1>4, <2>1, <2>2, <2>3, <2>4, <2>5
    <2> QED
      BY <1>3, <1>4, <2>2, <2>4, <2>6 DEF IsLive
  <1>7. ASSUME NEW w \in Workers, ~IsSending(worker[w])
        PROVE  IsLive(worker'[w], outbox')
    BY <1>4, <1>7 DEF IsLive, IsSending
  <1> QED
    BY <1>5, <1>6, <1>7 DEF OwnInv, SendsAreLive

LEMMA AnswerOwns ==
    ASSUME IndInv, IndInv', OwnInv, NEW w \in Workers, NEW result,
           worker[w].stage = "sending", Answer(w, result), outbox' = outbox
    PROVE  OwnInv'
  <1> DEFINE new == [worker[w] EXCEPT !.stage = "readRow", !.result = result]
  <1>1. worker \in [Workers -> WorkerStates] /\ worker[w] \in WorkerStates
    BY DEF IndInv, OthersAreTyped
  <1>2. worker' = [worker EXCEPT ![w] = new]
    BY <1>1 DEF Answer
  <1>3. /\ new.stage = "readRow" /\ new.revision = worker[w].revision
        /\ new.attempt = worker[w].attempt /\ new.timer = worker[w].timer
    BY <1>1 DEF WorkerStates
  <1> HIDE DEF new
  <1>4. GoesOn(worker[w], new)
    BY <1>3 DEF GoesOn, IsSending, Owning, Completing
  <1> QED
    BY <1>2, <1>4, UnchangedSpares, OwnStays

LEMMA CompletionReadsOwns ==
    ASSUME IndInv, IndInv', OwnInv, NEW w \in Workers,
           CompletionReadsRow(w) \/ CompletionReadsPublish(w)
    PROVE  OwnInv'
  <1> DEFINE row == outbox[worker[w].revision]
             seen == published[worker[w].revision]
             read == [worker[w] EXCEPT !.stage = "readPublish", !.row = row]
             found == [worker[w] EXCEPT !.stage = "write", !.seen = seen]
  <1>1. /\ worker \in [Workers -> WorkerStates] /\ worker[w] \in WorkerStates
        /\ worker[w].stage \in {"readRow", "readPublish"}
    BY DEF IndInv, OthersAreTyped, CompletionReadsRow, CompletionReadsPublish
  <1>2. /\ outbox' = outbox
        /\ \/ worker' = [worker EXCEPT ![w] = read]
           \/ worker' = [worker EXCEPT ![w] = found]
           \/ worker' = [worker EXCEPT ![w] = Idle]
    BY <1>1 DEF CompletionReadsRow, CompletionReadsPublish
  <1> HIDE DEF row, seen
  <1>3. /\ read.stage = "readPublish" /\ read.revision = worker[w].revision
        /\ read.attempt = worker[w].attempt /\ read.timer = worker[w].timer
    BY <1>1 DEF WorkerStates
  <1>4. /\ found.stage = "write" /\ found.revision = worker[w].revision
        /\ found.attempt = worker[w].attempt /\ found.timer = worker[w].timer
    BY <1>1 DEF WorkerStates
  <1> HIDE DEF read, found
  <1>5. GoesOn(worker[w], read) /\ GoesOn(worker[w], found)
    BY <1>1, <1>3, <1>4 DEF GoesOn, IsSending, Owning, Completing
  <1> QED
    BY <1>2, <1>5, IdleGoesOn, UnchangedSpares, OwnStays

\* A step in which one worker turns idle, or to a claim, and the rows are kept.
LEMMA TurnOwns ==
    ASSUME IndInv, IndInv', OwnInv, KeepsSends, NEW w \in Workers, NEW r,
           \/ worker' = [worker EXCEPT ![w] = Idle]
           \/ worker' = [worker EXCEPT ![w] =
                           [Idle EXCEPT !.stage = "claim", !.revision = r]]
    PROVE  OwnInv'
  BY IdleGoesOn, ClaimingGoesOn, OwnStays

LEMMA OwnStep ==
    ASSUME ~Stalls, IndInv, IndInv', OwnInv, [Next]_vars
    PROVE  OwnInv'
  <1>1. ASSUME NEW w \in Workers, Delivery(w)
        PROVE  OwnInv'
    <2>1. CASE ClaimPublish(w)
      BY <2>1, ClaimPublishOwns
    <2>2. CASE AuthorizePublish(w)
      BY <2>2, AuthorizePublishOwns
    <2>3. CASE FindStale(w)
      BY <2>3, FindStaleSpares, TurnOwns DEF FindStale
    <2>4. CASE FindExpired(w)
      BY <2>4, UnchangedSpares, TurnOwns DEF FindExpired
    <2>5. CASE PostAnswered(w)
      BY <2>5, AnswerOwns DEF PostAnswered
    <2>6. CASE CompletionReadsRow(w) \/ CompletionReadsPublish(w)
      BY <2>6, CompletionReadsOwns
    <2>7. CASE CompletionWrites(w)
      BY <2>7, CompletionWritesOwns
    <2>8. CASE CompletionFails(w)
      BY <2>8, UnchangedSpares, TurnOwns DEF CompletionFails
    <2> QED
      BY <1>1, <2>1, <2>2, <2>3, <2>4, <2>5, <2>6, <2>7, <2>8 DEF Delivery
  <1>2. ASSUME NEW w \in Workers, Fault(w)
        PROVE  OwnInv'
    <2>1. CASE PostUnanswered(w)
      BY <2>1 DEF PostUnanswered, OwnInv, AttemptsAreOwn, SendsAreLive, IsLive
    <2>2. CASE SendFails(w)
      BY <2>2, AnswerOwns DEF SendFails
    <2>3. CASE Interrupted(w)
      BY <2>3, UnchangedSpares, TurnOwns DEF Interrupted
    <2> QED
      BY <1>2, <2>1, <2>2, <2>3 DEF Fault
  <1>3. ASSUME NEW w \in Workers, NEW enqueue \in BOOLEAN, NEW delivers \in BOOLEAN,
               GenerateReport(w, enqueue, delivers)
        PROVE  OwnInv'
    <2>1. PICK r \in Revisions :
             /\ ClaimReport(r, enqueue)
             /\ worker' = [worker EXCEPT ![w] =
                  IF enqueue /\ delivers
                  THEN [Idle EXCEPT !.stage = "claim", !.revision = r] ELSE Idle]
      BY <1>3 DEF GenerateReport
    <2>2. KeepsSends
      BY <2>1, ClaimReportSpares
    <2> QED
      BY <2>1, <2>2, TurnOwns
  <1>4. ASSUME NEW w \in Workers, RetryPending(w)
        PROVE  OwnInv'
    BY <1>4, RetryPendingSpares, TurnOwns DEF RetryPending
  <1>5. CASE UNCHANGED vars
    BY <1>5 DEF vars, OwnInv, AttemptsAreOwn, SendsAreLive, IsLive
  <1> QED
    BY <1>1, <1>2, <1>3, <1>4, <1>5, ClockAdvancesOwns DEF Next

\* One worker moves, sends nothing else than before, and nothing is posted.
LEMMA OrderStays ==
    ASSUME IndInv, MessagesInOrder, NEW w \in Workers, NEW new,
           worker' = [worker EXCEPT ![w] = new],
           latest' \in Int, latest' >= latest, channel'.last = channel.last,
           new.revision <= latest',
           IsSending(new) => /\ IsSending(worker[w])
                             /\ new.revision = worker[w].revision
    PROVE  MessagesInOrder' /\ channel'.last >= channel.last
  <1>1. latest \in Int /\ channel.last \in Int
        /\ \A v \in Workers : worker[v].revision \in Int
    BY WorkerFields, OutboxAssumption DEF IndInv, OthersAreTyped, Channels, OutboxAssumption
  <1>2. \A v \in Workers : worker'[v] = IF v = w THEN new ELSE worker[v]
    BY DEF IndInv, OthersAreTyped
  <1>3. channel'.last <= latest'
    BY <1>1 DEF MessagesInOrder
  <1>4. ASSUME NEW v \in Workers
        PROVE  /\ worker'[v].revision <= latest'
               /\ IsSending(worker'[v]) => channel'.last <= worker'[v].revision
    <2>1. CASE v = w
      BY <1>1, <1>2, <2>1 DEF MessagesInOrder
    <2>2. CASE v # w
      BY <1>1, <1>2, <2>2 DEF MessagesInOrder
    <2> QED
      BY <2>1, <2>2
  <1> QED
    BY <1>1, <1>3, <1>4 DEF MessagesInOrder

\* The revision that is sent when a send begins is the latest.
LEMMA OrderAtAuthorize ==
    ASSUME IndInv, MessagesInOrder, NEW w \in Workers, AuthorizePublish(w)
    PROVE  MessagesInOrder'
  <1> DEFINE new == [worker[w] EXCEPT !.stage = "sending", !.timer = SendTimeout]
  <1>1. /\ worker \in [Workers -> WorkerStates] /\ worker[w] \in WorkerStates
        /\ worker[w].revision = latest
    BY DEF AuthorizePublish, MaySend, IndInv, OthersAreTyped
  <1>2. worker' = [worker EXCEPT ![w] = new] /\ latest' = latest /\ channel' = channel
    BY <1>1 DEF AuthorizePublish
  <1>3. new.revision = latest
    BY <1>1 DEF WorkerStates
  <1> HIDE DEF new
  <1>4. \A v \in Workers : worker'[v] = IF v = w THEN new ELSE worker[v]
    BY <1>1, <1>2
  <1>5. latest \in Int
    BY OutboxAssumption DEF IndInv, OthersAreTyped, OutboxAssumption
  <1> QED
    BY <1>2, <1>3, <1>4, <1>5 DEF MessagesInOrder

\* Nobody else sends when a message is posted.
LEMMA OrderAtPost ==
    ASSUME IndInv, OwnInv, MessagesInOrder, NEW w \in Workers,
           worker[w].stage = "sending", latest' = latest,
           channel'.last = worker[w].revision,
           \A v \in Workers : worker'[v].revision = worker[v].revision,
           \A v \in Workers : IsSending(worker'[v]) => IsSending(worker[v])
    PROVE  MessagesInOrder' /\ channel'.last >= channel.last
  <1>1. IsSending(worker[w])
    BY DEF IsSending
  <1>2. \A v \in Workers : IsSending(worker'[v]) => v = w
    BY <1>1, OneSender
  <1>3. worker[w].revision \in Int /\ channel.last \in Int
    BY WorkerFields, OutboxAssumption DEF IndInv, OthersAreTyped, Channels, OutboxAssumption
  <1> QED
    BY <1>1, <1>2, <1>3 DEF MessagesInOrder

\* What a post does: last becomes the revision of the worker.
LEMMA PostedLast ==
    ASSUME IndInv, NEW w \in Workers, PostAnswered(w) \/ PostUnanswered(w)
    PROVE  /\ worker[w].stage = "sending" /\ latest' = latest
           /\ channel'.last = worker[w].revision
           /\ \A v \in Workers : worker'[v].revision = worker[v].revision
           /\ \A v \in Workers : IsSending(worker'[v]) => IsSending(worker[v])
  <1> DEFINE r == worker[w].revision
  <1>1. worker[w].stage = "sending" /\ latest' = latest
    BY DEF PostAnswered, PostUnanswered
  <1>2. channel' = Posted(r) \/ channel' = [Posted(r) EXCEPT !.unsure = @ \union {r}]
    BY DEF PostAnswered, PostUnanswered
  <1>3. r \in Revisions /\ channel \in Channels
    BY <1>1 DEF IndInv, OthersAreTyped, WorkersHaveRevisions
  <1>4. Posted(r).last = r /\ Posted(r) \in Channels
    BY <1>3, PostedIsTyped DEF Posted, Channels
  <1>5. channel'.last = r
    BY <1>2, <1>4 DEF Channels
  <1>6. worker \in [Workers -> WorkerStates]
    BY DEF IndInv, OthersAreTyped
  <1>7. IsSending(worker[w])
    BY <1>1 DEF IsSending
  <1>8. worker' = worker \/ worker' = [worker EXCEPT ![w].stage = "readRow",
                                                    ![w].result = "SENT"]
    BY DEF PostAnswered, PostUnanswered, Answer
  <1>9. \A v \in Workers : /\ worker'[v].revision = worker[v].revision
                           /\ v # w => worker'[v] = worker[v]
    BY <1>6, <1>8 DEF WorkerStates
  <1> QED
    BY <1>1, <1>5, <1>7, <1>9

\* A reader never sees an older revision after a newer one.
LEMMA OrderStep ==
    ASSUME ~Stalls, IndInv, OwnInv, MessagesInOrder, [Next]_vars
    PROVE  MessagesInOrder' /\ channel'.last >= channel.last
  <1>1. /\ latest \in Int /\ channel.last \in Int
        /\ worker \in [Workers -> WorkerStates]
        /\ \A v \in Workers : worker[v] \in WorkerStates /\ worker[v].revision <= latest
    BY OutboxAssumption
    DEF IndInv, OthersAreTyped, Channels, OutboxAssumption, MessagesInOrder
  <1>2. Idle.revision <= latest /\ ~IsSending(Idle)
    <2>1. latest >= 0
      BY OutboxAssumption DEF IndInv, OthersAreTyped, OutboxAssumption
    <2> QED
      BY <1>1, <2>1 DEF Idle, IsSending, Completing
  <1>3. ASSUME NEW w \in Workers, worker' = [worker EXCEPT ![w] = Idle],
               latest' = latest, channel'.last = channel.last
        PROVE  MessagesInOrder' /\ channel'.last >= channel.last
    <2>1. latest' \in Int /\ latest' >= latest /\ Idle.revision <= latest'
      BY <1>1, <1>2, <1>3
    <2> QED
      BY <1>2, <1>3, <2>1, OrderStays
  <1>4. ASSUME NEW w \in Workers, NEW new, worker' = [worker EXCEPT ![w] = new],
               new.revision = worker[w].revision,
               IsSending(new) => IsSending(worker[w]),
               latest' = latest, channel' = channel
        PROVE  MessagesInOrder' /\ channel'.last >= channel.last
    <2>1. latest' \in Int /\ latest' >= latest /\ new.revision <= latest'
      BY <1>1, <1>4
    <2> QED
      BY <1>4, <2>1, OrderStays
  <1>5. ASSUME NEW w \in Workers, NEW r, r <= latest', latest' \in Int,
               latest' >= latest, channel' = channel,
               \/ worker' = [worker EXCEPT ![w] = Idle]
               \/ worker' = [worker EXCEPT ![w] =
                               [Idle EXCEPT !.stage = "claim", !.revision = r]]
        PROVE  MessagesInOrder' /\ channel'.last >= channel.last
    <2> DEFINE new == [Idle EXCEPT !.stage = "claim", !.revision = r]
    <2>1. new.revision = r /\ ~IsSending(new)
      BY DEF Idle, IsSending, Completing
    <2>2. Idle.revision <= latest'
      BY <1>1, <1>2, <1>5 DEF Idle
    <2> HIDE DEF new
    <2>3. CASE worker' = [worker EXCEPT ![w] = Idle]
      BY <1>2, <1>5, <2>2, <2>3, OrderStays
    <2>4. CASE worker' = [worker EXCEPT ![w] = new]
      BY <1>5, <2>1, <2>4, OrderStays
    <2> QED
      BY <1>5, <2>3, <2>4 DEF new
  <1>6. ASSUME NEW w \in Workers, NEW result, worker[w].stage = "sending",
               Answer(w, result), latest' = latest, channel' = channel
        PROVE  MessagesInOrder' /\ channel'.last >= channel.last
    <2> DEFINE new == [worker[w] EXCEPT !.stage = "readRow", !.result = result]
    <2>1. worker' = [worker EXCEPT ![w] = new]
      BY <1>1, <1>6 DEF Answer
    <2>2. new.revision = worker[w].revision /\ IsSending(worker[w])
      BY <1>1, <1>6 DEF WorkerStates, IsSending
    <2> HIDE DEF new
    <2> QED
      BY <1>4, <1>6, <2>1, <2>2
  <1>7. ASSUME NEW w \in Workers, Delivery(w)
        PROVE  MessagesInOrder' /\ channel'.last >= channel.last
    <2>1. CASE ClaimPublish(w)
      <3> DEFINE a == Claimed(outbox[worker[w].revision]).attempt
                 new == [worker[w] EXCEPT !.stage = "authorize", !.attempt = a]
      <3>1. /\ latest' = latest /\ channel' = channel
            /\ worker' = [worker EXCEPT ![w] = new] \/ worker' = [worker EXCEPT ![w] = Idle]
        BY <1>1, <2>1 DEF ClaimPublish
      <3>2. new.revision = worker[w].revision /\ new.stage = "authorize"
        BY <1>1 DEF WorkerStates
      <3> HIDE DEF new
      <3>3. ~IsSending(new)
        BY <3>2 DEF IsSending, Completing
      <3> QED
        BY <1>3, <1>4, <3>1, <3>2, <3>3
    <2>2. CASE AuthorizePublish(w)
      <3>1. channel' = channel /\ MessagesInOrder'
        BY <2>2, OrderAtAuthorize DEF AuthorizePublish
      <3> QED
        BY <1>1, <3>1
    <2>3. CASE FindStale(w) \/ CompletionWrites(w) \/ CompletionFails(w)
      BY <1>3, <2>3 DEF FindStale, CompletionWrites, CompletionFails
    <2>4. CASE FindExpired(w)
      BY <1>1, <1>5, <2>4 DEF FindExpired
    <2>5. CASE PostAnswered(w)
      BY <2>5, PostedLast, OrderAtPost
    <2>6. CASE CompletionReadsRow(w)
      <3> DEFINE row == outbox[worker[w].revision]
                 new == [worker[w] EXCEPT !.stage = "readPublish", !.row = row]
      <3>1. /\ latest' = latest /\ channel' = channel
            /\ worker' = [worker EXCEPT ![w] = new] \/ worker' = [worker EXCEPT ![w] = Idle]
        BY <1>1, <2>6 DEF CompletionReadsRow
      <3> HIDE DEF row
      <3>2. new.revision = worker[w].revision /\ IsSending(worker[w])
        BY <1>1, <2>6 DEF WorkerStates, CompletionReadsRow, IsSending, Completing
      <3> HIDE DEF new
      <3> QED
        BY <1>3, <1>4, <3>1, <3>2
    <2>7. CASE CompletionReadsPublish(w)
      <3> DEFINE seen == published[worker[w].revision]
                 new == [worker[w] EXCEPT !.stage = "write", !.seen = seen]
      <3>1. latest' = latest /\ channel' = channel /\ worker' = [worker EXCEPT ![w] = new]
        BY <1>1, <2>7 DEF CompletionReadsPublish
      <3> HIDE DEF seen
      <3>2. new.revision = worker[w].revision /\ IsSending(worker[w])
        BY <1>1, <2>7 DEF WorkerStates, CompletionReadsPublish, IsSending, Completing
      <3> HIDE DEF new
      <3> QED
        BY <1>4, <3>1, <3>2
    <2> QED
      BY <1>7, <2>1, <2>2, <2>3, <2>4, <2>5, <2>6, <2>7 DEF Delivery
  <1>8. ASSUME NEW w \in Workers, Fault(w)
        PROVE  MessagesInOrder' /\ channel'.last >= channel.last
    <2>1. CASE PostUnanswered(w)
      BY <2>1, PostedLast, OrderAtPost
    <2>2. CASE SendFails(w)
      BY <1>6, <2>2 DEF SendFails
    <2>3. CASE Interrupted(w)
      <3>1. channel'.last = channel.last
        BY <2>3 DEF Interrupted, IndInv, OthersAreTyped, Channels
      <3> QED
        BY <1>3, <2>3, <3>1 DEF Interrupted
    <2> QED
      BY <1>8, <2>1, <2>2, <2>3 DEF Fault
  <1>9. ASSUME NEW w \in Workers, NEW enqueue \in BOOLEAN, NEW delivers \in BOOLEAN,
               GenerateReport(w, enqueue, delivers)
        PROVE  MessagesInOrder' /\ channel'.last >= channel.last
    <2>1. PICK r \in Revisions \cap {latest, latest + 1} :
             /\ ClaimReport(r, enqueue)
             /\ worker' = [worker EXCEPT ![w] =
                  IF enqueue /\ delivers
                  THEN [Idle EXCEPT !.stage = "claim", !.revision = r] ELSE Idle]
      BY <1>9 DEF GenerateReport
    <2>2. latest' = r /\ r \in Int /\ r >= latest /\ channel' = channel
      BY <1>1, <1>9, <2>1 DEF ClaimReport, GenerateReport
    <2>3. r <= latest' /\ latest' \in Int /\ latest' >= latest
      BY <2>2
    <2>4. \/ worker' = [worker EXCEPT ![w] = Idle]
          \/ worker' = [worker EXCEPT ![w] =
                          [Idle EXCEPT !.stage = "claim", !.revision = r]]
      BY <2>1
    <2> QED
      BY <1>5, <2>2, <2>3, <2>4
  <1>10. ASSUME NEW w \in Workers, RetryPending(w)
         PROVE  MessagesInOrder' /\ channel'.last >= channel.last
    <2>1. /\ latest <= latest' /\ latest' \in Int /\ latest' >= latest
          /\ channel' = channel
      BY <1>1, <1>10 DEF RetryPending
    <2>2. \/ worker' = [worker EXCEPT ![w] = Idle]
          \/ worker' = [worker EXCEPT ![w] =
                          [Idle EXCEPT !.stage = "claim", !.revision = latest]]
      BY <1>10 DEF RetryPending
    <2> QED
      BY <1>5, <2>1, <2>2
  <1>11. CASE ClockAdvances
    <2>1. \A v \in Workers : /\ worker'[v].revision = worker[v].revision
                             /\ worker'[v].stage = worker[v].stage
      BY <1>1, <1>11 DEF ClockAdvances, WorkerStates
    <2> QED
      BY <1>1, <1>11, <2>1 DEF ClockAdvances, MessagesInOrder, IsSending
  <1>12. CASE UNCHANGED vars
    BY <1>1, <1>12 DEF vars, MessagesInOrder
  <1> QED
    BY <1>7, <1>8, <1>9, <1>10, <1>11, <1>12 DEF Next

\* What a completion has read stays current: nobody else writes a record.
LEMMA SeenStep ==
    ASSUME ~Stalls, IndInv, OwnInv, SeenIsCurrent, [Next]_vars
    PROVE  SeenIsCurrent'
  <1>1. worker \in [Workers -> WorkerStates]
    BY DEF IndInv, OthersAreTyped
  <1>2. ASSUME published' = published,
               \A v \in Workers : worker'[v].stage = "write" =>
                   /\ worker[v].stage = "write"
                   /\ worker'[v].seen = worker[v].seen
                   /\ worker'[v].revision = worker[v].revision
        PROVE  SeenIsCurrent'
    BY <1>2 DEF SeenIsCurrent, Disturbed
  <1>3. ASSUME NEW w \in Workers, NEW new, worker' = [worker EXCEPT ![w] = new],
               new.stage # "write", published' = published
        PROVE  SeenIsCurrent'
    BY <1>1, <1>2, <1>3
  <1>4. Idle.stage # "write" /\ \A r : [Idle EXCEPT !.stage = "claim", !.revision = r].stage
                                          # "write"
    BY DEF Idle
  <1>5. ASSUME NEW w \in Workers, NEW result, Answer(w, result), published' = published
        PROVE  SeenIsCurrent'
    <2> DEFINE new == [worker[w] EXCEPT !.stage = "readRow", !.result = result]
    <2>1. worker' = [worker EXCEPT ![w] = new]
      BY <1>1, <1>5 DEF Answer
    <2>2. new.stage = "readRow"
      BY <1>1 DEF WorkerStates
    <2> HIDE DEF new
    <2> QED
      BY <1>3, <1>5, <2>1, <2>2
  <1>6. ASSUME NEW w \in Workers, Delivery(w)
        PROVE  SeenIsCurrent'
    <2>1. CASE ClaimPublish(w)
      <3> DEFINE a == Claimed(outbox[worker[w].revision]).attempt
                 new == [worker[w] EXCEPT !.stage = "authorize", !.attempt = a]
      <3>1. /\ published' = published
            /\ worker' = [worker EXCEPT ![w] = new] \/ worker' = [worker EXCEPT ![w] = Idle]
        BY <1>1, <2>1 DEF ClaimPublish
      <3>2. new.stage = "authorize"
        BY <1>1 DEF WorkerStates
      <3> HIDE DEF new
      <3> QED
        BY <1>3, <1>4, <3>1, <3>2
    <2>2. CASE AuthorizePublish(w)
      <3> DEFINE new == [worker[w] EXCEPT !.stage = "sending", !.timer = SendTimeout]
      <3>1. published' = published /\ worker' = [worker EXCEPT ![w] = new]
        BY <1>1, <2>2 DEF AuthorizePublish
      <3>2. new.stage = "sending"
        BY <1>1 DEF WorkerStates
      <3> HIDE DEF new
      <3> QED
        BY <1>3, <3>1, <3>2
    <2>3. CASE FindStale(w) \/ CompletionFails(w)
      BY <1>3, <1>4, <2>3 DEF FindStale, CompletionFails
    <2>4. CASE FindExpired(w)
      BY <1>3, <1>4, <2>4 DEF FindExpired
    <2>5. CASE PostAnswered(w)
      BY <1>5, <2>5 DEF PostAnswered
    <2>6. CASE CompletionReadsRow(w)
      <3> DEFINE row == outbox[worker[w].revision]
                 new == [worker[w] EXCEPT !.stage = "readPublish", !.row = row]
      <3>1. /\ published' = published
            /\ worker' = [worker EXCEPT ![w] = new] \/ worker' = [worker EXCEPT ![w] = Idle]
        BY <1>1, <2>6 DEF CompletionReadsRow
      <3> HIDE DEF row
      <3>2. new.stage = "readPublish"
        BY <1>1 DEF WorkerStates
      <3> HIDE DEF new
      <3> QED
        BY <1>3, <1>4, <3>1, <3>2
    <2>7. CASE CompletionReadsPublish(w)
      <3> DEFINE seen == published[worker[w].revision]
                 new == [worker[w] EXCEPT !.stage = "write", !.seen = seen]
      <3>1. published' = published /\ worker' = [worker EXCEPT ![w] = new]
        BY <1>1, <2>7 DEF CompletionReadsPublish
      <3>2. new.seen = published[worker[w].revision] /\ new.revision = worker[w].revision
        BY <1>1 DEF WorkerStates
      <3> HIDE DEF new
      <3> QED
        BY <1>1, <3>1, <3>2 DEF SeenIsCurrent, Disturbed
    <2>8. CASE CompletionWrites(w)
      <3>1. IsSending(worker[w]) /\ worker' = [worker EXCEPT ![w] = Idle]
        BY <2>8 DEF CompletionWrites, IsSending, Completing
      <3>2. \A v \in Workers : v # w => worker[v].stage # "write"
        BY <3>1, OneSender DEF IsSending, Completing
      <3> QED
        BY <1>1, <1>4, <3>1, <3>2 DEF SeenIsCurrent, Disturbed
    <2> QED
      BY <1>6, <2>1, <2>2, <2>3, <2>4, <2>5, <2>6, <2>7, <2>8 DEF Delivery
  <1>7. ASSUME NEW w \in Workers, Fault(w)
        PROVE  SeenIsCurrent'
    <2>1. CASE PostUnanswered(w)
      BY <2>1 DEF PostUnanswered, SeenIsCurrent, Disturbed
    <2>2. CASE SendFails(w)
      BY <1>5, <2>2 DEF SendFails
    <2>3. CASE Interrupted(w)
      BY <1>3, <1>4, <2>3 DEF Interrupted
    <2> QED
      BY <1>7, <2>1, <2>2, <2>3 DEF Fault
  <1>8. ASSUME NEW w \in Workers, NEW enqueue \in BOOLEAN, NEW delivers \in BOOLEAN,
               GenerateReport(w, enqueue, delivers) \/ RetryPending(w)
        PROVE  SeenIsCurrent'
    <2>1. PICK new : worker' = [worker EXCEPT ![w] = new] /\ new.stage # "write"
      BY <1>4, <1>8 DEF GenerateReport, RetryPending
    <2> QED
      BY <1>3, <1>8, <2>1 DEF GenerateReport, RetryPending
  <1>9. CASE ClockAdvances
    <2>1. \A v \in Workers : /\ worker'[v].revision = worker[v].revision
                             /\ worker'[v].stage = worker[v].stage
                             /\ worker'[v].seen = worker[v].seen
      BY <1>1, <1>9 DEF ClockAdvances, WorkerStates
    <2> QED
      BY <1>2, <1>9, <2>1 DEF ClockAdvances
  <1>10. CASE UNCHANGED vars
    BY <1>10 DEF vars, SeenIsCurrent, Disturbed
  <1> QED
    BY <1>6, <1>7, <1>8, <1>9, <1>10 DEF Next

\* One worker moves without posting, keeps what it knows or has it recorded, and
\* begins no send.
LEMMA PostsStayKnown ==
    ASSUME IndInv, PostsAreKnown, NEW w \in Workers, NEW new,
           worker' = [worker EXCEPT ![w] = new],
           channel'.posts = channel.posts, channel.unsure \subseteq channel'.unsure,
           \A r \in Revisions : published[r] = "SENT" => published'[r] = "SENT",
           \A r \in Revisions : Knows(worker[w], r)
              => Knows(new, r) \/ r \in channel'.unsure \/ published'[r] = "SENT",
           new.stage # "sending"
    PROVE  PostsAreKnown'
  <1>1. \A v \in Workers : worker'[v] = IF v = w THEN new ELSE worker[v]
    BY DEF IndInv, OthersAreTyped
  <1>2. ASSUME NEW r \in Revisions
        PROVE  \/ channel'.posts[r] = 0 \/ r \in channel'.unsure \/ published'[r] = "SENT"
               \/ \E v \in Workers : Knows(worker'[v], r)
    <2>1. CASE \E v \in Workers : Knows(worker[v], r)
      <3>1. PICK v \in Workers : Knows(worker[v], r)
        BY <2>1
      <3>2. CASE v = w
        BY <1>1, <3>1, <3>2
      <3>3. CASE v # w
        BY <1>1, <3>1, <3>3
      <3> QED
        BY <3>2, <3>3
    <2>2. CASE channel.posts[r] = 0 \/ r \in channel.unsure \/ published[r] = "SENT"
      BY <2>2
    <2> QED
      BY <2>1, <2>2 DEF PostsAreKnown
  <1>3. ASSUME NEW v \in Workers, worker'[v].stage = "sending"
        PROVE  \/ channel'.posts[worker'[v].revision] = 0
               \/ worker'[v].revision \in channel'.unsure
    BY <1>1, <1>3 DEF PostsAreKnown
  <1>4. DuplicatesAreUnsure'
    BY DEF PostsAreKnown, DuplicatesAreUnsure
  <1> QED
    BY <1>2, <1>3, <1>4 DEF PostsAreKnown

\* A send begins only for a revision that has no record of a success, and no
\* other worker is about to record one.
LEMMA PostsAtAuthorize ==
    ASSUME IndInv, OwnInv, PostsAreKnown, NEW w \in Workers, AuthorizePublish(w)
    PROVE  PostsAreKnown'
  <1> DEFINE r == worker[w].revision
             new == [worker[w] EXCEPT !.stage = "sending", !.timer = SendTimeout]
  <1>1. /\ r \in Revisions /\ worker \in [Workers -> WorkerStates]
        /\ worker[w].stage = "authorize" /\ published[r] # "SENT"
        /\ outbox[r].status = "DELIVERING"
    BY DEF AuthorizePublish, MaySend, Holds, IndInv, WorkersHaveRevisions, OthersAreTyped
  <1>2. worker' = [worker EXCEPT ![w] = new] /\ channel' = channel /\ published' = published
    BY <1>1 DEF AuthorizePublish
  <1>3. new.stage = "sending" /\ new.revision = r
    BY <1>1 DEF WorkerStates
  <1>4. \A v \in Workers : ~Knows(worker[v], r)
    <2>1. ASSUME NEW v \in Workers, Knows(worker[v], r) PROVE FALSE
      <3>1. IsSending(worker[v]) /\ worker[v].revision = r
        BY <2>1 DEF Knows, IsSending
      <3> HIDE DEF r
      <3>2. outbox[r].status = "SENDING"
        BY <3>1 DEF OwnInv, SendsAreLive, IsLive
      <3> QED
        BY <1>1, <3>2
    <2> QED
      BY <2>1
  <1>5. channel.posts[r] = 0 \/ r \in channel.unsure
    BY <1>1, <1>4 DEF PostsAreKnown
  <1> HIDE DEF new, r
  <1>6. \A v \in Workers : worker'[v] = IF v = w THEN new ELSE worker[v]
    BY <1>1, <1>2
  <1>7. \A q : ~Knows(worker[w], q)
    BY <1>1 DEF Knows, Completing
  <1>8. \A q \in Revisions : (\E v \in Workers : Knows(worker[v], q))
                                => \E v \in Workers : Knows(worker'[v], q)
    BY <1>6, <1>7
  <1>9. \A v \in Workers : worker'[v].stage = "sending" =>
            \/ channel'.posts[worker'[v].revision] = 0
            \/ worker'[v].revision \in channel'.unsure
    BY <1>2, <1>3, <1>5, <1>6 DEF PostsAreKnown
  <1> QED
    BY <1>2, <1>8, <1>9 DEF PostsAreKnown, DuplicatesAreUnsure

\* An answered post is known to its worker; it is the first one of its revision
\* unless an earlier one is unsure.
LEMMA PostsAtAnswer ==
    ASSUME IndInv, OwnInv, PostsAreKnown, NEW w \in Workers, PostAnswered(w)
    PROVE  PostsAreKnown'
  <1> DEFINE r == worker[w].revision
             count == IF channel.posts[r] = 2 THEN 2 ELSE channel.posts[r] + 1
             new == [worker[w] EXCEPT !.stage = "readRow", !.result = "SENT"]
  <1>1. /\ r \in Revisions /\ worker \in [Workers -> WorkerStates]
        /\ worker[w].stage = "sending" /\ channel \in Channels
    BY DEF PostAnswered, IndInv, WorkersHaveRevisions, OthersAreTyped
  <1>2. /\ channel'.unsure = channel.unsure /\ published' = published
        /\ channel'.posts = [channel.posts EXCEPT ![r] = count]
        /\ channel.posts \in [Revisions -> 0..2]
    BY <1>1 DEF PostAnswered, Posted, Channels
  <1>3. worker' = [worker EXCEPT ![w] = new]
    BY <1>1 DEF PostAnswered, Answer
  <1>4. new.stage = "readRow" /\ new.result = "SENT" /\ new.revision = r
    BY <1>1 DEF WorkerStates
  <1>5. channel.posts[r] = 0 \/ r \in channel.unsure
    BY <1>1 DEF PostsAreKnown
  <1>6. count > 1 => r \in channel.unsure
    BY <1>5
  <1> HIDE DEF new, count, r
  <1>7. \A v \in Workers : worker'[v] = IF v = w THEN new ELSE worker[v]
    BY <1>1, <1>3
  <1>8. Knows(new, r)
    BY <1>4 DEF Knows, Completing
  <1>9. \A q : ~Knows(worker[w], q)
    BY <1>1 DEF Knows, Completing
  <1>10. \A q \in Revisions \ {r} : channel'.posts[q] = channel.posts[q]
    BY <1>2
  <1>11. channel'.posts[r] = count
    BY <1>1, <1>2
  <1>12. ASSUME NEW q \in Revisions
         PROVE  \/ channel'.posts[q] = 0 \/ q \in channel'.unsure \/ published'[q] = "SENT"
                \/ \E v \in Workers : Knows(worker'[v], q)
    <2>1. CASE q = r
      BY <1>7, <1>8, <2>1
    <2>2. CASE q # r
      BY <1>2, <1>7, <1>9, <1>10, <2>2 DEF PostsAreKnown
    <2> QED
      BY <2>1, <2>2
  <1>13. \A v \in Workers : worker'[v].stage # "sending"
    <2>1. IsSending(worker[w])
      BY <1>1 DEF IsSending
    <2>2. \A v \in Workers : v # w => worker[v].stage # "sending"
      BY <2>1, OneSender DEF IsSending
    <2> QED
      BY <1>4, <1>7, <2>2
  <1>14. DuplicatesAreUnsure'
    BY <1>2, <1>6, <1>10, <1>11 DEF DuplicatesAreUnsure, PostsAreKnown
  <1> QED
    BY <1>12, <1>13, <1>14 DEF PostsAreKnown

\* An unanswered post makes its revision unsure.
LEMMA PostsAtUnanswered ==
    ASSUME IndInv, PostsAreKnown, NEW w \in Workers, PostUnanswered(w)
    PROVE  PostsAreKnown'
  <1> DEFINE r == worker[w].revision
             posted == Posted(r)
  <1>1. r \in Revisions /\ channel \in Channels
    BY DEF PostUnanswered, IndInv, WorkersHaveRevisions, OthersAreTyped
  <1>2. posted \in Channels /\ posted.unsure = channel.unsure
        /\ \A q \in Revisions \ {r} : posted.posts[q] = channel.posts[q]
    <2>1. posted \in Channels
      BY <1>1, PostedIsTyped
    <2> QED
      BY <1>1, <2>1 DEF Posted, Channels
  <1>3. worker' = worker /\ published' = published
        /\ channel' = [posted EXCEPT !.unsure = @ \union {r}]
    BY DEF PostUnanswered
  <1> HIDE DEF posted, r
  <1>4. /\ channel'.unsure = channel.unsure \union {r}
        /\ \A q \in Revisions \ {r} : channel'.posts[q] = channel.posts[q]
    BY <1>2, <1>3 DEF Channels
  <1>5. \A v \in Workers : worker[v].stage = "sending" => worker[v].revision \in Revisions
    BY DEF IndInv, WorkersHaveRevisions
  <1>6. DuplicatesAreUnsure'
    BY <1>4 DEF PostsAreKnown, DuplicatesAreUnsure
  <1>7. \A v \in Workers : worker'[v].stage = "sending" =>
            \/ channel'.posts[worker'[v].revision] = 0
            \/ worker'[v].revision \in channel'.unsure
    BY <1>3, <1>4, <1>5 DEF PostsAreKnown
  <1>8. \A q \in Revisions :
            \/ channel'.posts[q] = 0 \/ q \in channel'.unsure \/ published'[q] = "SENT"
            \/ \E v \in Workers : Knows(worker'[v], q)
    BY <1>3, <1>4 DEF PostsAreKnown
  <1> QED
    BY <1>6, <1>7, <1>8 DEF PostsAreKnown

\* A completion records what its worker knows: its attempt is authorized, and
\* what it has read is current.
LEMMA PostsAtCompletion ==
    ASSUME IndInv, SendersAreAuthorized, SeenIsCurrent, PostsAreKnown,
           NEW w \in Workers,
           \/ CompletionReadsRow(w) \/ CompletionReadsPublish(w)
           \/ CompletionWrites(w) \/ CompletionFails(w)
    PROVE  PostsAreKnown'
  <1> DEFINE r == worker[w].revision
  <1>1. /\ worker \in [Workers -> WorkerStates] /\ worker[w] \in WorkerStates
        /\ worker[w].stage \in Completing /\ channel' = channel
        /\ r \in Revisions /\ published \in [Revisions -> Results]
    BY DEF IndInv, OthersAreTyped, WorkersHaveRevisions, CompletionReadsRow,
           CompletionReadsPublish, CompletionWrites, CompletionFails, Completing
  <1>2. Idle.stage # "sending"
    BY DEF Idle
  <1>3. CASE CompletionReadsRow(w)
    <2> DEFINE row == outbox[r]
               new == [worker[w] EXCEPT !.stage = "readPublish", !.row = row]
    <2>1. worker[w].attempt \in outbox[r].authorized
      BY <1>1 DEF SendersAreAuthorized, IsAuthorized
    <2>2. worker' = [worker EXCEPT ![w] = new] /\ published' = published
      BY <1>1, <1>3, <2>1 DEF CompletionReadsRow
    <2> HIDE DEF row
    <2>3. /\ new.stage = "readPublish" /\ new.result = worker[w].result
          /\ new.revision = worker[w].revision
      BY <1>1 DEF WorkerStates
    <2> HIDE DEF new
    <2>4. \A q : Knows(worker[w], q) => Knows(new, q)
      BY <2>3 DEF Knows, Completing
    <2> QED
      BY <1>1, <2>2, <2>3, <2>4, PostsStayKnown
  <1>4. CASE CompletionReadsPublish(w)
    <2> DEFINE seen == published[r]
               new == [worker[w] EXCEPT !.stage = "write", !.seen = seen]
    <2>1. worker' = [worker EXCEPT ![w] = new] /\ published' = published
      BY <1>1, <1>4 DEF CompletionReadsPublish
    <2> HIDE DEF seen
    <2>2. /\ new.stage = "write" /\ new.result = worker[w].result
          /\ new.revision = worker[w].revision
      BY <1>1 DEF WorkerStates
    <2> HIDE DEF new
    <2>3. \A q : Knows(worker[w], q) => Knows(new, q)
      BY <2>2 DEF Knows, Completing
    <2> QED
      BY <1>1, <2>1, <2>2, <2>3, PostsStayKnown
  <1>5. CASE CompletionWrites(w)
    <2>1. /\ worker' = [worker EXCEPT ![w] = Idle]
          /\ published' = [published EXCEPT ![r] = Record(w)]
          /\ worker[w].stage = "write"
      BY <1>5 DEF CompletionWrites
    <2>2. worker[w].seen = published[r]
      BY <2>1 DEF SeenIsCurrent, Disturbed
    <2>3. published[r] = "SENT" \/ worker[w].result = "SENT" => published'[r] = "SENT"
      BY <1>1, <2>1, <2>2 DEF Record
    <2>4. \A q \in Revisions : published[q] = "SENT" => published'[q] = "SENT"
      BY <1>1, <2>1, <2>3
    <2>5. \A q \in Revisions : Knows(worker[w], q) => published'[q] = "SENT"
      BY <2>3 DEF Knows
    <2> QED
      BY <1>1, <1>2, <2>1, <2>4, <2>5, PostsStayKnown
  <1>6. CASE CompletionFails(w)
    BY <1>6 DEF CompletionFails, InsertCollides, SeenIsCurrent, Disturbed
  <1> QED
    BY <1>3, <1>4, <1>5, <1>6

LEMMA PostsStep ==
    ASSUME ~Stalls, IndInv, OwnInv, SendersAreAuthorized, SeenIsCurrent, PostsAreKnown,
           [Next]_vars
    PROVE  PostsAreKnown'
  <1>1. worker \in [Workers -> WorkerStates]
    BY DEF IndInv, OthersAreTyped
  <1>2. ASSUME NEW w \in Workers, NEW new, worker' = [worker EXCEPT ![w] = new],
               new.stage # "sending", worker[w].stage \notin Completing,
               channel' = channel, published' = published
        PROVE  PostsAreKnown'
    <2>1. \A r \in Revisions : ~Knows(worker[w], r)
      BY <1>2 DEF Knows
    <2> QED
      BY <1>2, <2>1, PostsStayKnown
  <1>3. Idle.stage # "sending"
        /\ \A r : [Idle EXCEPT !.stage = "claim", !.revision = r].stage # "sending"
    BY DEF Idle
  <1>4. ASSUME NEW w \in Workers, Delivery(w)
        PROVE  PostsAreKnown'
    <2>1. CASE ClaimPublish(w)
      <3> DEFINE a == Claimed(outbox[worker[w].revision]).attempt
                 new == [worker[w] EXCEPT !.stage = "authorize", !.attempt = a]
      <3>1. /\ channel' = channel /\ published' = published
            /\ worker' = [worker EXCEPT ![w] = new] \/ worker' = [worker EXCEPT ![w] = Idle]
        BY <1>1, <2>1 DEF ClaimPublish
      <3>2. new.stage = "authorize" /\ worker[w].stage \notin Completing
        BY <1>1, <2>1 DEF WorkerStates, ClaimPublish, Completing
      <3> HIDE DEF new
      <3> QED
        BY <1>2, <1>3, <3>1, <3>2
    <2>2. CASE AuthorizePublish(w)
      BY <2>2, PostsAtAuthorize
    <2>3. CASE FindStale(w)
      BY <1>2, <1>3, <2>3 DEF FindStale, Completing
    <2>4. CASE FindExpired(w)
      BY <1>2, <1>3, <2>4 DEF FindExpired, Completing
    <2>5. CASE PostAnswered(w)
      BY <2>5, PostsAtAnswer
    <2>6. CASE \/ CompletionReadsRow(w) \/ CompletionReadsPublish(w)
               \/ CompletionWrites(w) \/ CompletionFails(w)
      BY <2>6, PostsAtCompletion
    <2> QED
      BY <1>4, <2>1, <2>2, <2>3, <2>4, <2>5, <2>6 DEF Delivery
  <1>5. ASSUME NEW w \in Workers, Fault(w)
        PROVE  PostsAreKnown'
    <2>1. CASE PostUnanswered(w)
      BY <2>1, PostsAtUnanswered
    <2>2. CASE SendFails(w)
      <3> DEFINE new == [worker[w] EXCEPT !.stage = "readRow", !.result = "FAILED"]
      <3>1. /\ channel' = channel /\ published' = published
            /\ worker' = [worker EXCEPT ![w] = new] /\ worker[w].stage \notin Completing
        BY <1>1, <2>2 DEF SendFails, Answer, Completing
      <3>2. new.stage = "readRow"
        BY <1>1 DEF WorkerStates
      <3> HIDE DEF new
      <3> QED
        BY <1>2, <3>1, <3>2
    <2>3. CASE Interrupted(w)
      <3>1. worker' = [worker EXCEPT ![w] = Idle] /\ published' = published
        BY <2>3 DEF Interrupted
      <3>2. /\ channel'.posts = channel.posts /\ channel.unsure \subseteq channel'.unsure
            /\ worker[w].stage \in Completing => worker[w].revision \in channel'.unsure
        BY <2>3 DEF Interrupted, IndInv, OthersAreTyped, Channels
      <3>3. \A r \in Revisions : Knows(worker[w], r) => r \in channel'.unsure
        BY <3>2 DEF Knows
      <3> QED
        BY <1>3, <3>1, <3>2, <3>3, PostsStayKnown
    <2> QED
      BY <1>5, <2>1, <2>2, <2>3 DEF Fault
  <1>6. ASSUME NEW w \in Workers, NEW enqueue \in BOOLEAN, NEW delivers \in BOOLEAN,
               GenerateReport(w, enqueue, delivers) \/ RetryPending(w)
        PROVE  PostsAreKnown'
    <2>1. PICK new : worker' = [worker EXCEPT ![w] = new] /\ new.stage # "sending"
      BY <1>3, <1>6 DEF GenerateReport, RetryPending
    <2>2. /\ channel' = channel /\ published' = published
          /\ worker[w].stage \notin Completing
      BY <1>6 DEF GenerateReport, RetryPending, Completing
    <2> QED
      BY <1>2, <2>1, <2>2
  <1>7. CASE ClockAdvances
    <2>1. \A v \in Workers : /\ worker'[v].revision = worker[v].revision
                             /\ worker'[v].stage = worker[v].stage
                             /\ worker'[v].result = worker[v].result
      BY <1>1, <1>7 DEF ClockAdvances, WorkerStates
    <2>2. channel' = channel /\ published' = published
      BY <1>7 DEF ClockAdvances
    <2> QED
      BY <2>1, <2>2 DEF PostsAreKnown, DuplicatesAreUnsure, Knows
  <1>8. CASE UNCHANGED vars
    BY <1>8 DEF vars, PostsAreKnown, DuplicatesAreUnsure, Knows
  <1> QED
    BY <1>4, <1>5, <1>6, <1>7, <1>8 DEF Next

LEMMA StallFreeInitially ==
    ASSUME Init
    PROVE  StallFree
  <1>1. \A w \in Workers : worker[w] = Idle
    BY DEF Init
  <1>2. OwnInv
    BY <1>1 DEF OwnInv, AttemptsAreOwn, SendsAreLive, IsLive, Idle, IsSending, Owning,
                Completing
  <1>3. MessagesInOrder
    BY <1>1 DEF Init, MessagesInOrder, Idle, IsSending, Completing
  <1>4. SeenIsCurrent
    <2>1. Idle.stage # "write"
      BY DEF Idle
    <2> QED
      BY <1>1, <2>1 DEF SeenIsCurrent, Disturbed
  <1>5. PostsAreKnown
    BY <1>1 DEF Init, PostsAreKnown, DuplicatesAreUnsure, Idle
  <1> QED
    BY <1>2, <1>3, <1>4, <1>5, SendersInitially DEF StallFree

LEMMA StallFreeStep ==
    ASSUME ~Stalls, IndInv, StallFree, [Next]_vars
    PROVE  StallFree' /\ channel'.last >= channel.last
  <1>1. IndInv'
    BY StepInductive
  <1> QED
    BY <1>1, SendersStep, OwnStep, OrderStep, SeenStep, PostsStep DEF StallFree

\* If no worker is held up past its deadline, the channel never shows an older
\* revision after a newer one, with any workers, crashes and failed sends.
THEOREM ChannelIsOrdered ==
    ASSUME ~Stalls
    PROVE  Spec => MessagesFollowRevisions
  <1>1. Init => StallFree
    BY StallFreeInitially
  <1>2. IndInv /\ StallFree /\ [Next]_vars => StallFree'
    BY StallFreeStep
  <1>3. IndInv /\ StallFree /\ [Next]_vars => [channel'.last >= channel.last]_vars
    BY StallFreeStep
  <1> QED
    BY <1>1, <1>2, <1>3, OutboxInductive, PTL DEF Spec, MessagesFollowRevisions

\* If no worker is held up past its deadline, a revision is posted again only
\* after a send of it that ended without Telegram's answer.
THEOREM RepeatsAreUnsure ==
    ASSUME ~Stalls
    PROVE  Spec => []DuplicatesAreUnsure
  <1>1. Init => StallFree
    BY StallFreeInitially
  <1>2. IndInv /\ StallFree /\ [Next]_vars => StallFree'
    BY StallFreeStep
  <1>3. StallFree => DuplicatesAreUnsure
    BY DEF StallFree, PostsAreKnown
  <1> QED
    BY <1>1, <1>2, <1>3, OutboxInductive, PTL DEF Spec
-----------------------------------------------------------------------------
(***************************************************************************)
(* Without stalls, the outbox implements ReportDeliveryContract.           *)
(***************************************************************************)
\* What is on record, or about to be, was posted.
RecordsAreTrue ==
    /\ \A r \in Revisions : published[r] = "SENT" => channel.posts[r] > 0
    /\ \A w \in Workers : \A r \in Revisions :
          Knows(worker[w], r) => channel.posts[r] > 0

\* What may still be sent is not on record.
SendsAreUnrecorded ==
    \A r \in Revisions : outbox[r].status = "SENDING" => published[r] # "SENT"

\* A completion that goes on has read its own send.
HasRead(x) ==
    x.stage \in {"readPublish", "write"}
        => x.row.status = "SENDING" /\ x.row.attempt = x.attempt

TrueInv ==
    /\ RecordsAreTrue /\ SendsAreUnrecorded
    /\ \A w \in Workers : HasRead(worker[w])

\* No row turns into a send.
NoNewSends ==
    \A q \in Revisions : outbox'[q] = outbox[q] \/ outbox'[q].status # "SENDING"

LEMMA UnchangedSends ==
    ASSUME IndInv, KeepsSends, NoNewSends
    PROVE  LiveSends' = LiveSends
  BY DEF KeepsSends, NoNewSends, LiveSends

LEMMA SupersedeOlderSendsNothing ==
    ASSUME NEW rows \in [Revisions -> Rows], NEW r \in Nat, NEW q \in Revisions
    PROVE  SupersedeOlder(rows, r)[q] = rows[q]
           \/ SupersedeOlder(rows, r)[q].status = "SUPERSEDED"
  BY SupersedeOlderRows

LEMMA ClaimReportSendsNothing ==
    ASSUME IndInv, NEW r \in Revisions, NEW enqueue \in BOOLEAN,
           ClaimReport(r, enqueue)
    PROVE  NoNewSends
  <1> DEFINE rows == IF r > 1 THEN SupersedeOlder(outbox, r) ELSE outbox
  <1>1. r \in Nat /\ outbox \in [Revisions -> Rows]
    BY OutboxAssumption DEF OutboxAssumption, Revisions, IndInv, RowsAreTyped
  <1>2. rows \in [Revisions -> Rows]
        /\ \A q \in Revisions : rows[q] = outbox[q] \/ rows[q].status = "SUPERSEDED"
    BY <1>1, SupersedeOlderRows
  <1>3. outbox' = IF enqueue /\ rows[r].status = "NONE"
                  THEN [rows EXCEPT ![r].status = "PENDING"] ELSE rows
    BY DEF ClaimReport
  <1> HIDE DEF rows
  <1>4. \A q \in Revisions : outbox'[q] = rows[q] \/ outbox'[q].status = "PENDING"
    BY <1>2, <1>3 DEF Rows
  <1> QED
    BY <1>2, <1>4 DEF NoNewSends

LEMMA DeliverySendsNothing ==
    ASSUME IndInv, NEW w \in Workers,
           \/ RetryPending(w) \/ ClaimPublish(w) \/ FindStale(w) \/ outbox' = outbox
    PROVE  NoNewSends
  <1> DEFINE r == worker[w].revision
             taken == Claimed(outbox[r])
             sent == [outbox[r] EXCEPT !.status = "SENT", !.lease = Null]
  <1>1. outbox \in [Revisions -> Rows]
    BY DEF IndInv, RowsAreTyped
  <1>2. CASE RetryPending(w)
    <2>1. latest \in Nat
      BY OutboxAssumption DEF IndInv, OthersAreTyped, OutboxAssumption
    <2> QED
      BY <1>1, <1>2, <2>1, SupersedeOlderSendsNothing DEF RetryPending, NoNewSends
  <1>3. CASE ClaimPublish(w)
    <2>1. r \in Revisions /\ taken.status = "DELIVERING"
      BY <1>1, <1>3 DEF ClaimPublish, Claimed, Rows, IndInv, WorkersHaveRevisions
    <2>2. outbox' = [outbox EXCEPT ![r] = taken] \/ outbox' = outbox
      BY <1>3 DEF ClaimPublish
    <2> HIDE DEF r, taken
    <2> QED
      BY <1>1, <2>1, <2>2 DEF NoNewSends
  <1>4. CASE FindStale(w)
    <2>1. r \in Revisions /\ sent.status = "SENT"
      BY <1>1, <1>4 DEF FindStale, Rows, IndInv, WorkersHaveRevisions
    <2>2. outbox' = [outbox EXCEPT ![r] = sent] \/ outbox' = outbox
      BY <1>1, <2>1, <1>4 DEF FindStale
    <2> HIDE DEF r, sent
    <2> QED
      BY <1>1, <2>1, <2>2 DEF NoNewSends
  <1> QED
    BY <1>2, <1>3, <1>4 DEF NoNewSends

\* One worker moves; nothing is put on record, and no send begins.
LEMMA TruthStays ==
    ASSUME IndInv, TrueInv, NEW w \in Workers, NEW new,
           worker' = [worker EXCEPT ![w] = new],
           NoNewSends, published' = published,
           \A r \in Revisions : channel.posts[r] > 0 => channel'.posts[r] > 0,
           \A r \in Revisions :
              Knows(new, r) => Knows(worker[w], r) \/ channel'.posts[r] > 0,
           HasRead(new)
    PROVE  TrueInv'
  <1>1. \A v \in Workers : worker'[v] = IF v = w THEN new ELSE worker[v]
    BY DEF IndInv, OthersAreTyped
  <1>2. RecordsAreTrue'
    BY <1>1 DEF TrueInv, RecordsAreTrue
  <1>3. SendsAreUnrecorded'
    BY DEF TrueInv, SendsAreUnrecorded, NoNewSends
  <1>4. \A v \in Workers : HasRead(worker'[v])
    BY <1>1 DEF TrueInv
  <1> QED
    BY <1>2, <1>3, <1>4 DEF TrueInv

\* A worker that is not completing knows and has read nothing.
LEMMA KnowsNothing ==
    ASSUME NEW x, x.stage \notin Completing
    PROVE  HasRead(x) /\ \A r : ~Knows(x, r)
  BY DEF HasRead, Knows, Completing

LEMMA TurningKeepsTruth ==
    ASSUME IndInv, TrueInv, NEW w \in Workers, NEW new,
           worker' = [worker EXCEPT ![w] = new], new.stage \notin Completing,
           NoNewSends, published' = published,
           \A r \in Revisions : channel.posts[r] > 0 => channel'.posts[r] > 0
    PROVE  TrueInv'
  BY KnowsNothing, TruthStays

\* A send begins for a revision that is not on record, and while none is live.
LEMMA AuthorizeBegins ==
    ASSUME IndInv, TrueInv, NEW w \in Workers, AuthorizePublish(w)
    PROVE  /\ LiveSends = {} /\ LiveSends' = {latest}
           /\ latest \in Revisions /\ latest \notin OnRecord
           /\ TrueInv'
  <1> DEFINE r == worker[w].revision
             fenced == [q \in Revisions |->
                          IF q < r /\ outbox[q].status = "SENDING" /\ Expired(outbox[q])
                          THEN Superseded(outbox[q]) ELSE outbox[q]]
             sent == Authorized(outbox[r])
             new == [worker[w] EXCEPT !.stage = "sending", !.timer = SendTimeout]
  <1>1. /\ r \in Revisions /\ r \in Int /\ outbox \in [Revisions -> Rows]
        /\ worker \in [Workers -> WorkerStates] /\ worker[w] \in WorkerStates
        /\ r = latest /\ published[r] # "SENT" /\ outbox[r].status = "DELIVERING"
    BY DEF AuthorizePublish, MaySend, Holds, IndInv, WorkersHaveRevisions,
           RowsAreTyped, OthersAreTyped, Revisions
  <1>2. \A q \in Revisions \ {r} : ~(outbox[q].status = "SENDING" /\ Live(outbox[q]))
    BY DEF AuthorizePublish, MaySend, Busy
  <1>3. \A q \in Revisions : fenced[q] = outbox[q] \/ fenced[q].status = "SUPERSEDED"
    BY <1>1, SupersededRow
  <1>4. fenced[r] = outbox[r]
    BY <1>1
  <1>5. /\ outbox' = [fenced EXCEPT ![r] = Authorized(@)]
        /\ worker' = [worker EXCEPT ![w] = new]
        /\ published' = published /\ channel' = channel /\ latest' = latest
    BY <1>1 DEF AuthorizePublish
  <1>6. sent.status = "SENDING" /\ sent.lease = Lease
    BY <1>1 DEF Authorized, Rows
  <1>7. Lease > 0
    BY OutboxAssumption DEF OutboxAssumption
  <1>8. fenced = [q \in Revisions |-> fenced[q]]
    OBVIOUS
  <1>9. new.stage = "sending"
    BY <1>1 DEF WorkerStates
  <1> HIDE DEF fenced, new
  <1>10. outbox'[r] = sent /\ \A q \in Revisions \ {r} : outbox'[q] = fenced[q]
    BY <1>1, <1>4, <1>5, <1>8
  <1> HIDE DEF sent, r
  <1>11. LiveSends = {}
    BY <1>1, <1>2 DEF LiveSends
  <1>12. \A q \in Revisions \ {r} : ~(outbox'[q].status = "SENDING" /\ Live(outbox'[q]))
    BY <1>2, <1>3, <1>10
  <1>13. LiveSends' = {r}
    BY <1>1, <1>6, <1>7, <1>10, <1>12 DEF LiveSends, Live
  <1>14. SendsAreUnrecorded'
    BY <1>1, <1>3, <1>5, <1>10 DEF TrueInv, SendsAreUnrecorded
  <1>15. \A v \in Workers : worker'[v] = IF v = w THEN new ELSE worker[v]
    BY <1>1, <1>5
  <1>16. HasRead(new) /\ \A q : ~Knows(new, q)
    BY <1>9, KnowsNothing DEF Completing
  <1>17. RecordsAreTrue' /\ \A v \in Workers : HasRead(worker'[v])
    BY <1>5, <1>15, <1>16 DEF TrueInv, RecordsAreTrue
  <1> QED
    BY <1>1, <1>11, <1>13, <1>14, <1>17 DEF TrueInv, OnRecord

\* The send of a worker is the live one.
LEMMA SenderIsLive ==
    ASSUME IndInv, OwnInv, NEW w \in Workers, IsSending(worker[w])
    PROVE  LiveSends = {worker[w].revision} /\ worker[w].revision \in Revisions
  <1> DEFINE r == worker[w].revision
  <1>1. r \in Revisions /\ worker[w].timer \in 0..SendTimeout
    BY WorkerFields
    DEF IndInv, OthersAreTyped, WorkersHaveRevisions, IsSending, Completing
  <1>2. outbox[r].lease \in Int /\ SendTimeout \in Int
    BY <1>1, OutboxAssumption DEF IndInv, RowsAreTyped, Rows, Null, OutboxAssumption
  <1>3. outbox[r].status = "SENDING" /\ outbox[r].lease > worker[w].timer
    BY DEF OwnInv, SendsAreLive, IsLive
  <1>4. Live(outbox[r])
    BY <1>1, <1>2, <1>3 DEF Live
  <1>5. \A q \in LiveSends : q = r
    BY <1>1, <1>3, <1>4 DEF IndInv, OneLiveSend, LiveSends
  <1> HIDE DEF r
  <1>6. r \in LiveSends
    BY <1>1, <1>3, <1>4 DEF LiveSends, r
  <1> QED
    BY <1>1, <1>5, <1>6 DEF r

\* What a post does to the channel, and to who knows of it.
LEMMA PostShows ==
    ASSUME IndInv, NEW w \in Workers, PostAnswered(w) \/ PostUnanswered(w)
    PROVE  /\ worker[w].revision \in Revisions
           /\ Shown' = Shown \cup {worker[w].revision}
           /\ channel'.last = worker[w].revision
           /\ channel'.unsure = IF PostAnswered(w) THEN channel.unsure
                                ELSE channel.unsure \cup {worker[w].revision}
           /\ \A q \in Revisions : channel.posts[q] > 0 => channel'.posts[q] > 0
           /\ channel'.posts[worker[w].revision] > 0
  <1> DEFINE r == worker[w].revision
             count == IF channel.posts[r] = 2 THEN 2 ELSE channel.posts[r] + 1
             posted == Posted(r)
  <1>1. r \in Revisions /\ channel \in Channels
    BY DEF PostAnswered, PostUnanswered, IndInv, OthersAreTyped, WorkersHaveRevisions
  <1>2. /\ posted.posts = [channel.posts EXCEPT ![r] = count]
        /\ posted.last = r /\ posted.unsure = channel.unsure
    BY <1>1 DEF Posted, Channels
  <1>3. posted \in Channels
    BY <1>1, PostedIsTyped
  <1>4. count > 0 /\ \A q \in Revisions : channel.posts[q] \in 0..2
    BY <1>1 DEF Channels
  <1>5. PostAnswered(w) => channel' = posted
    BY DEF PostAnswered
  <1>6. PostUnanswered(w) => channel' = [posted EXCEPT !.unsure = @ \cup {r}]
    BY DEF PostUnanswered
  <1> HIDE DEF count, posted, r
  <1>7. /\ channel'.posts = posted.posts /\ channel'.last = posted.last
        /\ channel'.unsure = IF PostAnswered(w) THEN posted.unsure ELSE posted.unsure \cup {r}
    BY <1>3, <1>5, <1>6 DEF Channels
  <1>8. \A q \in Revisions : channel'.posts[q] = IF q = r THEN count ELSE channel.posts[q]
    BY <1>1, <1>2, <1>7 DEF Channels
  <1>9. Shown' = Shown \cup {r}
    BY <1>1, <1>4, <1>8 DEF Shown
  <1> QED
    BY <1>1, <1>2, <1>4, <1>7, <1>8, <1>9 DEF r

\* A completion settles its row and records what it knows in one step.
LEMMA CompletionSettles ==
    ASSUME IndInv, StallFree, TrueInv, NEW w \in Workers, CompletionWrites(w)
    PROVE  /\ LiveSends' = {}
           /\ OnRecord' = IF worker[w].result = "SENT"
                          THEN OnRecord \cup {worker[w].revision} ELSE OnRecord
           /\ TrueInv'
  <1> DEFINE r == worker[w].revision
             row == Settled(outbox[r], r, EffectiveResult(w))
  <1>1. /\ r \in Revisions /\ outbox \in [Revisions -> Rows]
        /\ worker \in [Workers -> WorkerStates] /\ worker[w].stage = "write"
        /\ published \in [Revisions -> Results]
    BY DEF CompletionWrites, IndInv, WorkersHaveRevisions, RowsAreTyped, OthersAreTyped
  <1>2. IsSending(worker[w])
    BY <1>1 DEF IsSending, Completing
  <1>3. /\ outbox[r].status = "SENDING" /\ outbox[r].attempt = worker[w].attempt
        /\ worker[w].row.status = "SENDING" /\ worker[w].row.attempt = worker[w].attempt
    BY <1>1, <1>2 DEF StallFree, OwnInv, SendsAreLive, IsLive, TrueInv, HasRead
  <1>4. published[r] # "SENT" /\ worker[w].seen = published[r]
    BY <1>1, <1>3 DEF TrueInv, SendsAreUnrecorded, StallFree, SeenIsCurrent, Disturbed
  <1>5. Record(w) = worker[w].result
    BY <1>4 DEF Record
  <1>6. /\ outbox' = [outbox EXCEPT ![r] = row]
        /\ published' = [published EXCEPT ![r] = worker[w].result]
        /\ worker' = [worker EXCEPT ![w] = Idle] /\ channel' = channel
    BY <1>1, <1>3, <1>5 DEF CompletionWrites
  <1>7. row.status # "SENDING"
    BY <1>1, SettledRow
  <1>8. LiveSends = {r}
    BY <1>2, SenderIsLive DEF StallFree
  <1>9. worker[w].result = "SENT" => Knows(worker[w], r)
    BY <1>1 DEF Knows, Completing
  <1> HIDE DEF row, r
  <1>10. LiveSends' = {}
    BY <1>1, <1>6, <1>7, <1>8 DEF LiveSends
  <1>11. OnRecord' = IF worker[w].result = "SENT" THEN OnRecord \cup {r} ELSE OnRecord
    BY <1>1, <1>4, <1>6 DEF OnRecord
  <1>12. \A v \in Workers : worker'[v] = IF v = w THEN Idle ELSE worker[v]
    BY <1>1, <1>6
  <1>13. HasRead(Idle) /\ \A q : ~Knows(Idle, q)
    BY KnowsNothing DEF Idle, Completing
  <1>14. SendsAreUnrecorded'
    BY <1>1, <1>6, <1>7 DEF TrueInv, SendsAreUnrecorded
  <1>15. RecordsAreTrue'
    BY <1>1, <1>6, <1>9, <1>12, <1>13 DEF TrueInv, RecordsAreTrue
  <1>16. \A v \in Workers : HasRead(worker'[v])
    BY <1>12, <1>13 DEF TrueInv
  <1> QED
    BY <1>10, <1>11, <1>14, <1>15, <1>16 DEF TrueInv, r

\* A lease runs out only of a send whose outcome is in doubt, or that never
\* posted.
LEMMA LapseIsAllowed ==
    ASSUME ~Stalls, IndInv, IndInv', StallFree, TrueInv, ClockAdvances
    PROVE  /\ TrueInv'
           /\ \/ LiveSends' = LiveSends
              \/ \E r \in LiveSends :
                    LiveSends' = {} /\ (r \in Shown => r \in channel.unsure)
  <1>1. outbox \in [Revisions -> Rows] /\ worker \in [Workers -> WorkerStates]
    BY DEF IndInv, RowsAreTyped, OthersAreTyped
  <1>2. \A q \in Revisions : /\ outbox'[q].status = outbox[q].status
                             /\ Live(outbox'[q]) => Live(outbox[q])
    BY <1>1 DEF ClockAdvances, Rows, Live
  <1>3. \A w \in Workers :
           /\ worker'[w].stage = worker[w].stage /\ worker'[w].result = worker[w].result
           /\ worker'[w].revision = worker[w].revision
           /\ worker'[w].row = worker[w].row /\ worker'[w].attempt = worker[w].attempt
    BY <1>1 DEF ClockAdvances, WorkerStates
  <1>4. UNCHANGED <<published, channel>>
    BY DEF ClockAdvances
  <1>5. TrueInv'
    BY <1>2, <1>3, <1>4 DEF TrueInv, RecordsAreTrue, SendsAreUnrecorded, HasRead, Knows
  <1>6. LiveSends' \subseteq LiveSends /\ \A p, q \in LiveSends : p = q
    BY <1>2 DEF LiveSends, IndInv, OneLiveSend
  <1>7. ASSUME NEW r \in LiveSends, r \notin LiveSends'
        PROVE  r \in Shown => r \in channel.unsure
    <2>1. ASSUME NEW w \in Workers, Knows(worker[w], r)
          PROVE  FALSE
      <3>1. /\ IsSending(worker'[w]) /\ worker'[w].revision = r
            /\ r \in Revisions
        BY <1>3, <1>7, <2>1 DEF Knows, IsSending, LiveSends
      <3>2. OwnInv'
        BY ClockAdvancesOwns DEF StallFree
      <3>3. outbox'[r].status = "SENDING" /\ outbox'[r].lease > worker'[w].timer
        BY <3>1, <3>2 DEF OwnInv, SendsAreLive, IsLive
      <3>4. worker'[w].timer \in 0..SendTimeout /\ outbox'[r].lease \in Null..Lease
        BY <3>1 DEF IndInv, OthersAreTyped, RowsAreTyped, Rows, WorkerStates
      <3>5. worker'[w].timer >= 0 /\ worker'[w].timer \in Int /\ outbox'[r].lease \in Int
        BY <3>4, OutboxAssumption DEF OutboxAssumption, Null
      <3> QED
        BY <1>7, <3>1, <3>3, <3>5 DEF LiveSends, Live
    <2>2. published[r] # "SENT" /\ r \in Revisions
      BY <1>7 DEF TrueInv, SendsAreUnrecorded, LiveSends
    <2> QED
      BY <2>1, <2>2 DEF StallFree, PostsAreKnown, Shown
  <1>8. LiveSends' = LiveSends \/ \E r \in LiveSends : r \notin LiveSends'
    BY <1>6
  <1>9. \A r \in LiveSends : r \notin LiveSends' => LiveSends' = {}
    BY <1>6
  <1> QED
    BY <1>5, <1>7, <1>8, <1>9

LEMMA TrueInitially ==
    ASSUME Init
    PROVE  TrueInv
  <1>1. \A w \in Workers : worker[w] = Idle
    BY DEF Init
  <1>2. HasRead(Idle) /\ \A r : ~Knows(Idle, r)
    BY KnowsNothing DEF Idle, Completing
  <1>3. RecordsAreTrue
    BY <1>1, <1>2 DEF Init, RecordsAreTrue
  <1>4. SendsAreUnrecorded
    BY DEF Init, SendsAreUnrecorded
  <1> QED
    BY <1>1, <1>2, <1>3, <1>4 DEF TrueInv

LEMMA ContractInitially ==
    ASSUME Init
    PROVE  Contract!Init
  <1>1. LiveSends = {}
    BY DEF Init, LiveSends, NoRow
  <1>2. Shown = {} /\ OnRecord = {} /\ channel.unsure = {} /\ channel.last = 0
    BY DEF Init, Shown, OnRecord
  <1> QED
    BY <1>1, <1>2 DEF Init, Contract!Init

\* A step of the contract, or none.
Allowed == [Contract!Next]_(Contract!vars)

LEMMA NothingHappens ==
    ASSUME LiveSends' = LiveSends, UNCHANGED <<latest, published, channel>>
    PROVE  Allowed
  BY DEF Allowed, Contract!vars, Shown, OnRecord

\* A worker turns idle, or to a claim or an authorization, and no send ends.
LEMMA TurnIsAllowed ==
    ASSUME IndInv, TrueInv, NEW w \in Workers, NEW new,
           worker' = [worker EXCEPT ![w] = new], new.stage \notin Completing,
           KeepsSends, NoNewSends, UNCHANGED <<latest, published, channel>>
    PROVE  TrueInv' /\ Allowed
  BY UnchangedSends, NothingHappens, TurningKeepsTruth

LEMMA GenerationIsAllowed ==
    ASSUME IndInv, TrueInv, NEW w \in Workers,
           NEW enqueue \in BOOLEAN, NEW delivers \in BOOLEAN,
           GenerateReport(w, enqueue, delivers)
    PROVE  TrueInv' /\ Allowed
  <1>1. PICK r \in Revisions :
           /\ r \in {latest, latest + 1} /\ ClaimReport(r, enqueue)
           /\ worker' = [worker EXCEPT ![w] =
                IF enqueue /\ delivers
                THEN [Idle EXCEPT !.stage = "claim", !.revision = r] ELSE Idle]
    BY DEF GenerateReport
  <1>2. UNCHANGED <<published, channel>> /\ latest' = r
    BY <1>1 DEF GenerateReport, ClaimReport
  <1>3. NoNewSends /\ LiveSends' = LiveSends
    BY <1>1, ClaimReportSpares, ClaimReportSendsNothing, UnchangedSends
  <1>4. /\ Idle.stage \notin Completing
        /\ [Idle EXCEPT !.stage = "claim", !.revision = r].stage \notin Completing
    BY DEF Idle, Completing
  <1>5. TrueInv'
    BY <1>1, <1>2, <1>3, <1>4, TurningKeepsTruth
  <1>6. CASE r = latest
    BY <1>2, <1>3, <1>5, <1>6, NothingHappens
  <1>7. CASE r = latest + 1
    <2>1. Shown' = Shown /\ OnRecord' = OnRecord
      BY <1>2 DEF Shown, OnRecord
    <2> QED
      BY <1>2, <1>3, <1>7, <2>1, <1>5 DEF Allowed, Contract!Next, Contract!Report
  <1> QED
    BY <1>1, <1>5, <1>6, <1>7

LEMMA AuthorizationIsAllowed ==
    ASSUME IndInv, TrueInv, NEW w \in Workers, AuthorizePublish(w)
    PROVE  TrueInv' /\ Allowed
  <1>1. /\ LiveSends = {} /\ LiveSends' = {latest} /\ latest > 0
        /\ latest \notin OnRecord /\ TrueInv'
    BY AuthorizeBegins DEF Revisions
  <1>2. UNCHANGED <<latest, channel>> /\ Shown' = Shown /\ OnRecord' = OnRecord
    BY DEF AuthorizePublish, Shown, OnRecord
  <1> QED
    BY <1>1, <1>2 DEF Allowed, Contract!Next, Contract!Begin

\* The send of the live revision posts it, to an answer or to none.
LEMMA PostIsAllowed ==
    ASSUME IndInv, StallFree, TrueInv, NEW w \in Workers,
           PostAnswered(w) \/ PostUnanswered(w)
    PROVE  TrueInv' /\ Allowed
  <1> DEFINE r == worker[w].revision
             new == [worker[w] EXCEPT !.stage = "readRow", !.result = "SENT"]
  <1>1. /\ worker \in [Workers -> WorkerStates] /\ worker[w].stage = "sending"
        /\ UNCHANGED <<latest, outbox, published>>
    BY DEF IndInv, OthersAreTyped, PostAnswered, PostUnanswered
  <1>2. LiveSends = {r} /\ r \in Revisions
    BY <1>1, SenderIsLive DEF StallFree, IsSending
  <1>3. NoNewSends
    BY <1>1 DEF NoNewSends
  <1>4. TrueInv'
    <2>1. CASE PostAnswered(w)
      <3>1. worker' = [worker EXCEPT ![w] = new]
        BY <1>1, <2>1 DEF PostAnswered, Answer
      <3>2. new.stage = "readRow" /\ new.revision = r
        BY <1>1 DEF WorkerStates
      <3> HIDE DEF new
      <3>3. HasRead(new) /\ \A q : Knows(new, q) => q = r
        BY <3>2 DEF HasRead, Knows
      <3> QED
        BY <1>1, <1>3, <3>1, <3>3, PostShows, TruthStays
    <2>2. CASE PostUnanswered(w)
      <3>1. worker' = worker
        BY <2>2 DEF PostUnanswered
      <3> QED
        BY <1>1, <3>1, PostShows DEF TrueInv, RecordsAreTrue, SendsAreUnrecorded
    <2> QED
      BY <2>1, <2>2
  <1>5. r \in Shown => r \in channel.unsure
    BY <1>1, <1>2 DEF StallFree, PostsAreKnown, Shown
  <1>6. LiveSends' = LiveSends /\ OnRecord' = OnRecord
    BY <1>1 DEF LiveSends, OnRecord
  <1>7. /\ Shown' = Shown \cup {r} /\ channel'.last = r
        /\ channel'.unsure \in {channel.unsure, channel.unsure \cup {r}}
    BY PostShows
  <1> HIDE DEF r
  <1>8. Contract!Post(r)
    BY <1>1, <1>5, <1>6, <1>7 DEF Contract!Post
  <1> QED
    BY <1>2, <1>4, <1>8 DEF Allowed, Contract!Next

LEMMA FailureIsAllowed ==
    ASSUME IndInv, TrueInv, NEW w \in Workers, SendFails(w)
    PROVE  TrueInv' /\ Allowed
  <1> DEFINE new == [worker[w] EXCEPT !.stage = "readRow", !.result = "FAILED"]
  <1>1. /\ worker \in [Workers -> WorkerStates]
        /\ UNCHANGED <<latest, outbox, published, channel>>
    BY DEF IndInv, OthersAreTyped, SendFails
  <1>2. worker' = [worker EXCEPT ![w] = new]
    BY <1>1 DEF SendFails, Answer
  <1>3. new.stage = "readRow" /\ new.result = "FAILED"
    BY <1>1 DEF WorkerStates
  <1> HIDE DEF new
  <1>4. HasRead(new) /\ \A q : ~Knows(new, q)
    BY <1>3 DEF HasRead, Knows
  <1>5. KeepsSends /\ NoNewSends
    BY <1>1, UnchangedSpares DEF NoNewSends
  <1> QED
    BY <1>1, <1>2, <1>4, <1>5, TruthStays, UnchangedSends, NothingHappens

LEMMA InterruptionIsAllowed ==
    ASSUME IndInv, StallFree, TrueInv, NEW w \in Workers, Interrupted(w)
    PROVE  TrueInv' /\ Allowed
  <1> DEFINE r == worker[w].revision
  <1>1. /\ worker' = [worker EXCEPT ![w] = Idle] /\ Idle.stage \notin Completing
        /\ UNCHANGED <<latest, outbox, published>>
    BY DEF Interrupted, Idle, Completing
  <1>2. /\ channel'.posts = channel.posts /\ channel'.last = channel.last
        /\ channel'.unsure = IF IsSending(worker[w]) THEN channel.unsure \cup {r}
                             ELSE channel.unsure
    BY DEF Interrupted, IsSending, IndInv, OthersAreTyped, Channels
  <1>3. NoNewSends /\ KeepsSends
    BY <1>1, UnchangedSpares DEF NoNewSends
  <1>4. TrueInv'
    BY <1>1, <1>2, <1>3, TurningKeepsTruth
  <1>5. LiveSends' = LiveSends /\ Shown' = Shown /\ OnRecord' = OnRecord
    BY <1>1, <1>2 DEF LiveSends, Shown, OnRecord
  <1>6. CASE IsSending(worker[w])
    <2>1. r \in LiveSends
      BY <1>6, SenderIsLive DEF StallFree
    <2>2. Contract!Doubt(r)
      BY <1>1, <1>2, <1>5, <1>6 DEF Contract!Doubt
    <2> QED
      BY <1>4, <2>1, <2>2 DEF Allowed, Contract!Next
  <1>7. CASE ~IsSending(worker[w])
    BY <1>1, <1>2, <1>4, <1>5, <1>7 DEF Allowed, Contract!vars
  <1> QED
    BY <1>6, <1>7

LEMMA ReadingIsAllowed ==
    ASSUME IndInv, StallFree, TrueInv, NEW w \in Workers,
           CompletionReadsRow(w) \/ CompletionReadsPublish(w)
    PROVE  TrueInv' /\ Allowed
  <1> DEFINE row == outbox[worker[w].revision]
             seen == published[worker[w].revision]
             read == [worker[w] EXCEPT !.stage = "readPublish", !.row = row]
             found == [worker[w] EXCEPT !.stage = "write", !.seen = seen]
  <1>1. /\ worker \in [Workers -> WorkerStates] /\ worker[w] \in WorkerStates
        /\ worker[w].stage \in Completing
        /\ UNCHANGED <<latest, outbox, published, channel>>
    BY DEF IndInv, OthersAreTyped, CompletionReadsRow, CompletionReadsPublish, Completing
  <1>2. row.status = "SENDING" /\ row.attempt = worker[w].attempt
    BY <1>1 DEF StallFree, OwnInv, SendsAreLive, IsLive, IsSending
  <1>3. \/ worker' = [worker EXCEPT ![w] = read]
        \/ worker' = [worker EXCEPT ![w] = found] /\ worker[w].stage = "readPublish"
        \/ worker' = [worker EXCEPT ![w] = Idle]
    BY <1>1 DEF CompletionReadsRow, CompletionReadsPublish
  <1> HIDE DEF row, seen
  <1>4. /\ read.row = row /\ read.attempt = worker[w].attempt
        /\ read.result = worker[w].result /\ read.revision = worker[w].revision
    BY <1>1 DEF WorkerStates
  <1>5. /\ found.row = worker[w].row /\ found.attempt = worker[w].attempt
        /\ found.result = worker[w].result /\ found.revision = worker[w].revision
    BY <1>1 DEF WorkerStates
  <1> HIDE DEF read, found
  <1>6. HasRead(read) /\ \A q : Knows(read, q) => Knows(worker[w], q)
    BY <1>1, <1>2, <1>4 DEF HasRead, Knows
  <1>7. /\ worker[w].stage = "readPublish" => HasRead(found)
        /\ \A q : Knows(found, q) => Knows(worker[w], q)
    BY <1>1, <1>5 DEF HasRead, Knows, TrueInv
  <1>8. HasRead(Idle) /\ \A q : ~Knows(Idle, q)
    BY KnowsNothing DEF Idle, Completing
  <1>9. NoNewSends /\ KeepsSends
    BY <1>1, UnchangedSpares DEF NoNewSends
  <1> QED
    BY <1>1, <1>3, <1>6, <1>7, <1>8, <1>9, TruthStays, UnchangedSends, NothingHappens

\* A completion confirms its post, or gives up a revision that was not posted or
\* is in doubt.
LEMMA CompletionIsAllowed ==
    ASSUME IndInv, StallFree, TrueInv, NEW w \in Workers, CompletionWrites(w)
    PROVE  TrueInv' /\ Allowed
  <1> DEFINE r == worker[w].revision
  <1>1. worker[w].stage \in Completing /\ UNCHANGED <<latest, channel>>
    BY DEF CompletionWrites, Completing
  <1>2. IsSending(worker[w])
    BY <1>1 DEF IsSending
  <1>3. LiveSends = {r} /\ r \in Revisions
    BY <1>2, SenderIsLive DEF StallFree
  <1>4. /\ LiveSends' = {} /\ TrueInv'
        /\ OnRecord' = IF worker[w].result = "SENT" THEN OnRecord \cup {r} ELSE OnRecord
    BY CompletionSettles
  <1>5. Shown' = Shown
    BY <1>1 DEF Shown
  <1>6. CASE worker[w].result = "SENT"
    <2>1. r \in Shown
      BY <1>1, <1>3, <1>6 DEF TrueInv, RecordsAreTrue, Knows, Shown
    <2>2. Contract!Confirm(r)
      BY <1>1, <1>4, <1>5, <1>6, <2>1 DEF Contract!Confirm
    <2> QED
      BY <1>3, <1>4, <2>2 DEF Allowed, Contract!Next
  <1>7. CASE worker[w].result # "SENT"
    <2>1. ASSUME NEW v \in Workers, Knows(worker[v], r)
          PROVE  FALSE
      BY <1>2, <1>7, <2>1, OneSender DEF StallFree, IsSending, Knows
    <2>2. published[r] # "SENT"
      BY <1>3 DEF TrueInv, SendsAreUnrecorded, LiveSends
    <2>3. r \in Shown => r \in channel.unsure
      BY <2>1, <2>2 DEF StallFree, PostsAreKnown, Shown
    <2>4. Contract!GiveUp(r)
      BY <1>1, <1>4, <1>5, <1>7, <2>3 DEF Contract!GiveUp
    <2> QED
      BY <1>3, <1>4, <2>4 DEF Allowed, Contract!Next
  <1> QED
    BY <1>6, <1>7

LEMMA ClockIsAllowed ==
    ASSUME ~Stalls, IndInv, IndInv', StallFree, TrueInv, ClockAdvances
    PROVE  TrueInv' /\ Allowed
  <1>1. UNCHANGED <<latest, published, channel>>
    BY DEF ClockAdvances
  <1>2. CASE LiveSends' = LiveSends
    BY <1>1, <1>2, NothingHappens, LapseIsAllowed
  <1>3. ASSUME NEW r \in LiveSends,
               LiveSends' = {} /\ (r \in Shown => r \in channel.unsure)
        PROVE  Allowed
    <2>1. Shown' = Shown /\ OnRecord' = OnRecord
      BY <1>1 DEF Shown, OnRecord
    <2>2. Contract!GiveUp(r)
      BY <1>1, <1>3, <2>1 DEF Contract!GiveUp
    <2> QED
      BY <2>2 DEF Allowed, Contract!Next
  <1> QED
    BY <1>2, <1>3, LapseIsAllowed

LEMMA DeliveryIsAllowed ==
    ASSUME IndInv, StallFree, TrueInv, NEW w \in Workers, Delivery(w)
    PROVE  TrueInv' /\ Allowed
  <1>1. worker \in [Workers -> WorkerStates] /\ worker[w] \in WorkerStates
    BY DEF IndInv, OthersAreTyped
  <1>2. /\ Idle.stage \notin Completing
        /\ \A r : [Idle EXCEPT !.stage = "claim", !.revision = r].stage \notin Completing
    BY DEF Idle, Completing
  <1>3. CASE ClaimPublish(w)
    <2> DEFINE a == Claimed(outbox[worker[w].revision]).attempt
               new == [worker[w] EXCEPT !.stage = "authorize", !.attempt = a]
    <2>1. /\ UNCHANGED <<latest, published, channel>>
          /\ worker' = [worker EXCEPT ![w] = new] \/ worker' = [worker EXCEPT ![w] = Idle]
      BY <1>1, <1>3 DEF ClaimPublish
    <2>2. new.stage \notin Completing
      BY <1>1 DEF WorkerStates, Completing
    <2> HIDE DEF new
    <2> QED
      BY <1>2, <1>3, <2>1, <2>2, ClaimPublishSpares, DeliverySendsNothing, TurnIsAllowed
  <1>4. CASE FindStale(w)
    <2>1. /\ worker' = [worker EXCEPT ![w] = Idle]
          /\ UNCHANGED <<latest, published, channel>>
      BY <1>4 DEF FindStale
    <2> QED
      BY <1>2, <1>4, <2>1, FindStaleSpares, DeliverySendsNothing, TurnIsAllowed
  <1>5. CASE FindExpired(w)
    <2>1. /\ worker' = [worker EXCEPT ![w] =
                          [Idle EXCEPT !.stage = "claim", !.revision = worker[w].revision]]
          /\ UNCHANGED <<latest, published, channel>> /\ outbox' = outbox
      BY <1>5 DEF FindExpired
    <2> QED
      BY <1>2, <2>1, UnchangedSpares, DeliverySendsNothing, TurnIsAllowed
  <1>6. CASE CompletionFails(w)
    BY <1>6 DEF CompletionFails, InsertCollides, StallFree, SeenIsCurrent, Disturbed
  <1> QED
    BY <1>3, <1>4, <1>5, <1>6, AuthorizationIsAllowed, PostIsAllowed, ReadingIsAllowed,
       CompletionIsAllowed
    DEF Delivery

LEMMA ContractStep ==
    ASSUME ~Stalls, IndInv, StallFree, TrueInv, [Next]_vars
    PROVE  TrueInv' /\ Allowed
  <1>1. IndInv'
    BY StepInductive
  <1>2. ASSUME NEW w \in Workers, Fault(w)
        PROVE  TrueInv' /\ Allowed
    BY <1>2, PostIsAllowed, FailureIsAllowed, InterruptionIsAllowed DEF Fault
  <1>3. ASSUME NEW w \in Workers, RetryPending(w)
        PROVE  TrueInv' /\ Allowed
    <2>1. PICK new : worker' = [worker EXCEPT ![w] = new] /\ new.stage \notin Completing
      <3>1. /\ Idle.stage \notin Completing
            /\ [Idle EXCEPT !.stage = "claim", !.revision = latest].stage \notin Completing
        BY DEF Idle, Completing
      <3> QED
        BY <1>3, <3>1 DEF RetryPending
    <2>2. UNCHANGED <<latest, published, channel>>
      BY <1>3 DEF RetryPending
    <2> QED
      BY <1>3, <2>1, <2>2, RetryPendingSpares, DeliverySendsNothing, TurnIsAllowed
  <1>4. CASE UNCHANGED vars
    <2>1. UNCHANGED <<latest, outbox, published, worker, channel>>
      BY <1>4 DEF vars
    <2>2. TrueInv'
      BY <2>1 DEF TrueInv, RecordsAreTrue, SendsAreUnrecorded
    <2>3. LiveSends' = LiveSends
      BY <2>1 DEF LiveSends
    <2> QED
      BY <2>1, <2>2, <2>3, NothingHappens
  <1> QED
    BY <1>1, <1>2, <1>3, <1>4, ClockIsAllowed, GenerationIsAllowed, DeliveryIsAllowed
    DEF Next

\* If no worker is held up past its deadline, the outbox with any workers, crashes
\* and failed sends is an outbox of the contract: one revision goes out at a time,
\* the newest, again only in doubt, and a send that ends without doubt is on record
\* exactly if it posted.
THEOREM DeliveryRefines ==
    ASSUME ~Stalls
    PROVE  Spec => DeliveryContract
  <1>1. Init => StallFree /\ TrueInv /\ Contract!Init
    BY StallFreeInitially, TrueInitially, ContractInitially
  <1>2. IndInv /\ StallFree /\ [Next]_vars => StallFree'
    BY StallFreeStep
  <1>3. IndInv /\ StallFree /\ TrueInv /\ [Next]_vars
           => TrueInv' /\ [Contract!Next]_(Contract!vars)
    BY ContractStep DEF Allowed
  <1> QED
    BY <1>1, <1>2, <1>3, OutboxInductive, PTL DEF Spec, DeliveryContract, Contract!Spec

-----------------------------------------------------------------------------
(***************************************************************************)
(* What the report of a day has (DailyReportContent), for any tables and   *)
(* limits.  A page has the rows that fewer than a limit come before.       *)
(***************************************************************************)
CONSTANTS Limit, FallbackLimit, Absent      \* of DailyReportContent
Content == INSTANCE DailyReportContent WITH None <- Absent

\* A page that is shorter than its limit has every row: of the rows that it
\* misses one has no missing row before it, so those before it are all on the
\* page, and too few to keep it out.
LEMMA ShortPageIsWhole ==
    ASSUME NEW rows, IsFiniteSet(rows), NEW n \in Nat,
           NEW before \in [rows -> SUBSET rows],
           \A r \in rows : r \notin before[r],
           \A q, r \in rows : q \in before[r] => before[q] \subseteq before[r],
           NEW page, page = {r \in rows : Cardinality(before[r]) < n},
           Cardinality(page) < n
    PROVE  page = rows
<1> DEFINE missing == rows \ page
           sets == {before[r] : r \in missing}
<1>1. SUFFICES ASSUME missing # {} PROVE FALSE
  OBVIOUS
<1>2. IsWellFoundedOn(StrictSubsetOrdering(rows), FiniteSubsetsOf(rows))
  BY FS_StrictSubsetOrderingWellFounded
<1>3. sets \subseteq FiniteSubsetsOf(rows) /\ sets # {}
  BY <1>1, FS_Subset DEF FiniteSubsetsOf
<1>4. PICK b \in sets : \A c \in sets : <<c, b>> \notin StrictSubsetOrdering(rows)
  <2> HIDE DEF sets
  <2> QED BY <1>2, <1>3, WFMin
<1>5. PICK r \in missing : b = before[r]
  BY <1>4
<1>6. before[r] \subseteq page
  <2>1. SUFFICES ASSUME NEW q \in before[r], q \notin page PROVE FALSE
    OBVIOUS
  <2>2. q \in missing /\ before[q] \in sets
    BY <2>1
  <2>3. before[q] \subseteq before[r] /\ before[q] # before[r]
    BY <2>1, <2>2, <1>5
  <2>4. <<before[q], b>> \in StrictSubsetOrdering(rows)
    BY <2>2, <2>3, <1>5 DEF StrictSubsetOrdering
  <2> QED BY <2>2, <2>4, <1>4
<1>7. page \subseteq rows /\ IsFiniteSet(page)
  BY FS_Subset
<1>8. /\ Cardinality(before[r]) <= Cardinality(page)
      /\ Cardinality(before[r]) \in Nat /\ Cardinality(page) \in Nat
  BY <1>6, <1>7, FS_Subset, FS_CardinalityType
<1>9. Cardinality(before[r]) < n
  BY <1>8
<1> QED BY <1>9, <1>5

\* The operator of the instance is the one of FiniteSets.
LEMMA SameCardinality == \A S : Content!Cardinality(S) = Cardinality(S)
BY DEF Cardinality, Content!Cardinality

\* What the rows of a table are: their times and ids are numbers.
Ordered(rows) == IsFiniteSet(rows) /\ \A r \in rows : r.at \in Int /\ r.id \in Int

OfDay(rows, day) == {r \in rows : Content!InDay(r.at, day)}

LEMMA PageOfDay ==
    ASSUME NEW rows, Ordered(rows), NEW day, NEW n \in Nat,
           Cardinality(Content!DayRows(rows, day, n)) < n
    PROVE  Content!DayRows(rows, day, n) = OfDay(rows, day)
<1> DEFINE mine == OfDay(rows, day)
           Before(q, r) == q.at < r.at \/ (q.at = r.at /\ q.id < r.id)
           before == [r \in mine |-> {q \in mine : Before(q, r)}]
           page == Content!DayRows(rows, day, n)
<1>1. IsFiniteSet(mine) /\ mine \subseteq rows
  BY FS_Subset DEF Ordered, OfDay
<1>2. \A r \in mine : r.at \in Int /\ r.id \in Int
  BY <1>1 DEF Ordered
<1>3. page = {r \in mine : Cardinality(before[r]) < n}
  BY SameCardinality DEF Content!DayRows, Content!FirstRows, Content!At, OfDay
<1>4. before \in [mine -> SUBSET mine]
  OBVIOUS
<1>5. /\ \A r \in mine : r \notin before[r]
      /\ \A q, r \in mine : q \in before[r] => before[q] \subseteq before[r]
  BY <1>2
<1> HIDE DEF mine, before, page
<1>6. page = mine
  <2>1. Cardinality(page) < n
    BY DEF page
  <2> QED BY <2>1, <1>1, <1>3, <1>4, <1>5, ShortPageIsWhole
<1> QED BY <1>6 DEF mine, page

\* A page has every row also when there are no more rows than its limit: no
\* row comes before itself.
LEMMA SmallDayIsWhole ==
    ASSUME NEW rows, Ordered(rows), NEW day, NEW n \in Nat,
           Cardinality(OfDay(rows, day)) <= n
    PROVE  Content!DayRows(rows, day, n) = OfDay(rows, day)
<1> DEFINE mine == OfDay(rows, day)
           Before(q, r) == q.at < r.at \/ (q.at = r.at /\ q.id < r.id)
<1>1. IsFiniteSet(mine) /\ mine \subseteq rows
  BY FS_Subset DEF Ordered, OfDay
<1>2. \A r \in mine : r.at \in Int /\ r.id \in Int
  BY <1>1 DEF Ordered
<1>3. Content!DayRows(rows, day, n) =
          {r \in mine : Cardinality({q \in mine : Before(q, r)}) < n}
  BY SameCardinality DEF Content!DayRows, Content!FirstRows, Content!At, OfDay
<1>4. ASSUME NEW r \in mine
      PROVE  Cardinality({q \in mine : Before(q, r)}) < n
  <2> DEFINE before == {q \in mine : Before(q, r)}
  <2>1. before \subseteq mine \ {r}
    BY <1>2
  <2>2. IsFiniteSet(mine \ {r}) /\ Cardinality(mine \ {r}) = Cardinality(mine) - 1
    BY <1>1, <1>4, FS_RemoveElement
  <2> HIDE DEF before
  <2>3. Cardinality(before) <= Cardinality(mine \ {r})
    BY <2>1, <2>2, FS_Subset
  <2>4. /\ IsFiniteSet(before) /\ Cardinality(before) \in Nat
        /\ Cardinality(mine) \in Nat /\ Cardinality(mine) <= n
    BY <1>1, <2>1, <2>2, FS_Subset, FS_CardinalityType DEF mine
  <2> HIDE DEF mine
  <2> QED BY <2>2, <2>3, <2>4 DEF before
<1> QED BY <1>3, <1>4

-----------------------------------------------------------------------------
(* A report that calls itself complete.                                    *)

\* The tables of the store, and the limits of the queries.
IsStore(store) ==
    /\ Ordered(store.fills) /\ Ordered(store.orders)
    /\ Ordered(store.signals) /\ Ordered(store.results)

\* The fills of a day, of whichever source, are valid and of that day.
LEMMA FillsAreValid ==
    ASSUME NEW store, NEW cache, NEW day,
           NEW f \in Content!FillsOf(store, cache, day).fills
    PROVE  Content!ValidFill(f) /\ Content!InDay(f.at, day)
<1> DEFINE durable == Content!DayFills(store.fills, day)
           native == Content!CacheFills(cache, day)
           events == Content!EventFills(store.events, day)
<1>1. \A x \in durable.valid : Content!ValidFill(x) /\ Content!InDay(x.at, day)
  BY DEF Content!DayFills, Content!DayRows, Content!FirstRows
<1>2. \A x \in native.valid : Content!ValidFill(x) /\ Content!InDay(x.at, day)
  BY DEF Content!CacheFills
<1>3. \A x \in events.valid : Content!ValidFill(x) /\ Content!InDay(x.at, day)
  BY DEF Content!EventFills
<1>4. f \in durable.valid \cup native.valid \cup events.valid
  <2> HIDE DEF durable, native, events
  <2>1. CASE durable.valid # {}
    BY <2>1 DEF Content!FillsOf, durable, native, events
  <2>2. CASE durable.valid = {} /\ native.valid # {}
    BY <2>2 DEF Content!FillsOf, durable, native, events
  <2>3. CASE durable.valid = {} /\ native.valid = {} /\ events.valid # {}
    BY <2>3 DEF Content!FillsOf, durable, native, events
  <2>4. CASE durable.valid = {} /\ native.valid = {} /\ events.valid = {}
    BY <2>4 DEF Content!FillsOf, durable, native, events
  <2> QED BY <2>1, <2>2, <2>3, <2>4
<1> QED BY <1>1, <1>2, <1>3, <1>4

\* What the absence of reasons says of the queries, read off _collect_daily_report_inputs.
LEMMA NoReasons ==
    ASSUME NEW store, NEW cache, NEW metrics, NEW day,
           Content!Inputs(store, cache, metrics, day).reasons = {}
    PROVE  LET source == Content!FillsOf(store, cache, day)
           IN /\ source.reasons = {} /\ ~(source.invalid > 0) /\ source.truncated # TRUE
              /\ Content!InvalidOrders(store.orders, day) = {}
              /\ ~(Cardinality(OfDay(store.orders, day)) > Limit)
              /\ ~(Cardinality(Content!UpdatedInvalid(store.orders, day)) > Limit)
              /\ ~(Cardinality(Content!DayResults(store.results, day)) >= Limit)
              /\ ~(Cardinality(Content!DayRows(store.signals, day, Limit)) >= Limit)
<1> DEFINE source == Content!FillsOf(store, cache, day)
           created == {o \in store.orders : Content!InDay(o.at, day)}
<1>1. source.reasons = {} /\ ~(source.invalid > 0) /\ source.truncated # TRUE
  BY DEF Content!Inputs
<1>2. Content!InvalidOrders(store.orders, day) = {}
  BY DEF Content!Inputs
<1>3. /\ ~(Cardinality(created) > Limit)
      /\ ~(Cardinality(Content!UpdatedInvalid(store.orders, day)) > Limit)
  BY SameCardinality DEF Content!Inputs
<1>4. /\ ~(Cardinality(Content!DayResults(store.results, day)) >= Limit)
      /\ ~(Cardinality(Content!DayRows(store.signals, day, Limit)) >= Limit)
  BY SameCardinality DEF Content!Inputs
<1> QED BY <1>1, <1>2, <1>3, <1>4 DEF OfDay

\* What a durable page without invalid rows and below its limit has, and how
\* the source of a report without reasons was chosen.
LEMMA CompleteSource ==
    ASSUME Limit \in Nat,
           NEW store, Ordered(store.fills), IsFiniteSet(store.events),
           NEW cache, cache = Absent \/ IsFiniteSet(cache),
           NEW day, NEW source, source = Content!FillsOf(store, cache, day),
           source.reasons = {}, ~(source.invalid > 0), source.truncated # TRUE
    PROVE  /\ \A f \in OfDay(store.fills, day) : Content!ValidFill(f)
           /\ OfDay(store.fills, day) \subseteq source.fills
           /\ \/ source.fills \subseteq store.fills
              \/ cache # Absent /\ source.fills \subseteq cache
           /\ source.fills = {} => cache # Absent
<1> DEFINE durable == Content!DayFills(store.fills, day)
           native == Content!CacheFills(cache, day)
           events == Content!EventFills(store.events, day)
           page == Content!DayRows(store.fills, day, Limit)
           mine == OfDay(store.fills, day)
<1>1. /\ durable.valid = {f \in page : Content!ValidFill(f)}
      /\ durable.invalid = Cardinality({f \in page : ~Content!ValidFill(f)})
      /\ durable.truncated = (Cardinality(page) >= Limit)
  BY SameCardinality DEF Content!DayFills
<1>2. page \subseteq mine /\ mine \subseteq store.fills /\ IsFiniteSet(page)
  <2>1. page \subseteq mine /\ mine \subseteq store.fills
    BY DEF Content!DayRows, Content!FirstRows, OfDay
  <2> QED BY <2>1, FS_Subset DEF Ordered
<1>3. durable.invalid \in Nat
  <2>1. IsFiniteSet({f \in page : ~Content!ValidFill(f)})
    BY <1>2, FS_Subset
  <2> QED BY <1>1, <2>1, FS_CardinalityType
<1>4. native.invalid \in Nat
      /\ native.available = (cache # Absent)
      /\ (cache = Absent => native.valid = {})
      /\ (cache # Absent => native.valid \subseteq cache)
  <2>1. CASE cache = Absent
    BY <2>1 DEF Content!CacheFills
  <2>2. CASE cache # Absent
    <3> DEFINE known == {f \in cache : f.projects /\ Content!InDay(f.at, day)}
    <3>1. /\ native.invalid = Cardinality({f \in cache : ~f.projects})
                              + Cardinality({f \in known : ~Content!ValidFill(f)})
          /\ native.available = TRUE
          /\ native.valid = {f \in known : Content!ValidFill(f)}
      BY <2>2, SameCardinality DEF Content!CacheFills
    <3>2. /\ IsFiniteSet({f \in cache : ~f.projects})
          /\ IsFiniteSet({f \in known : ~Content!ValidFill(f)})
      BY <2>2, FS_Subset
    <3>3. /\ Cardinality({f \in cache : ~f.projects}) \in Nat
          /\ Cardinality({f \in known : ~Content!ValidFill(f)}) \in Nat
      BY <3>2, FS_CardinalityType
    <3>4. native.invalid \in Nat
      <4> HIDE DEF native, known
      <4> QED BY <3>1, <3>3
    <3>5. native.valid \subseteq cache
      BY <3>1
    <3> QED BY <2>2, <3>1, <3>4, <3>5
  <2> QED BY <2>1, <2>2
<1>5. events.invalid \in Nat
  <2> DEFINE rows == Content!FirstRows(LAMBDA e : e.writtenAt,
                         {e \in store.events : Content!InDay(e.writtenAt, day)},
                         FallbackLimit)
             known == {e \in rows : Content!ValidFill(e) /\ e.at # Absent}
  <2>1. rows \subseteq store.events
    BY DEF Content!FirstRows
  <2>2. events.invalid = Cardinality(rows \ known)
    BY SameCardinality DEF Content!EventFills
  <2> HIDE DEF rows
  <2>3. IsFiniteSet(rows \ known)
    BY <2>1, FS_Subset
  <2> QED BY <2>2, <2>3, FS_CardinalityType
<1> HIDE DEF durable, native, events, page
<1>6. /\ source.fills = (IF durable.valid # {} THEN durable.valid ELSE native.valid)
      /\ source.truncated = durable.truncated
      /\ \/ source.invalid = durable.invalid + native.invalid
         \/ source.invalid = (durable.invalid + native.invalid) + events.invalid
      /\ source.fills = {} => cache # Absent
  <2>1. CASE durable.valid # {}
    BY <2>1 DEF Content!FillsOf, durable, native, events
  <2>2. CASE durable.valid = {} /\ native.valid # {}
    BY <2>2, <1>4 DEF Content!FillsOf, durable, native, events
  <2>3. CASE durable.valid = {} /\ native.valid = {} /\ events.valid # {}
    BY <2>3 DEF Content!FillsOf, durable, native, events
  <2>4. CASE durable.valid = {} /\ native.valid = {} /\ events.valid = {}
    BY <2>4, <1>4 DEF Content!FillsOf, durable, native, events
  <2> QED BY <2>1, <2>2, <2>3, <2>4
<1>7. durable.invalid = 0
  BY <1>3, <1>4, <1>5, <1>6
<1>8. \A f \in page : Content!ValidFill(f)
  <2>1. IsFiniteSet({f \in page : ~Content!ValidFill(f)})
    BY <1>2, FS_Subset
  <2>2. {f \in page : ~Content!ValidFill(f)} = {}
    BY <2>1, <1>1, <1>7, FS_EmptySet
  <2> QED BY <2>2
<1>9. page = mine
  <2>1. ~(Cardinality(page) >= Limit)
    BY <1>1, <1>6
  <2>2. Cardinality(page) \in Nat
    BY <1>2, FS_CardinalityType
  <2>3. Cardinality(page) < Limit
    BY <2>1, <2>2
  <2> QED BY <2>3, PageOfDay DEF page
<1>10. durable.valid = mine
  BY <1>1, <1>8, <1>9
<1>11. mine \subseteq source.fills
  BY <1>6, <1>10
<1>12. source.fills \subseteq store.fills \/ (cache # Absent /\ source.fills \subseteq cache)
  BY <1>2, <1>4, <1>6, <1>10
<1> QED BY <1>6, <1>8, <1>9, <1>11, <1>12

\* A daily report that gives no reason for being incomplete has every fill,
\* order and signal that the store has for its day, and no invalid one; its
\* fills are of the store, or of a Cache that was there to ask; and it has
\* every result of the day, unless a stored one does not parse: those are
\* dropped before the length of the page is looked at.
THEOREM CompleteReportsAreWhole ==
    ASSUME Limit \in Nat,
           NEW store, IsStore(store), IsFiniteSet(store.events),
           NEW cache, cache = Absent \/ IsFiniteSet(cache),
           NEW metrics, NEW day,
           NEW inputs, inputs = Content!Inputs(store, cache, metrics, day),
           inputs.reasons = {}
    PROVE  /\ \A f \in OfDay(store.fills, day) : f \in inputs.fills /\ Content!ValidFill(f)
           /\ \/ inputs.fills \subseteq store.fills
              \/ cache # Absent /\ inputs.fills \subseteq cache
           /\ inputs.fills = {} => cache # Absent
           /\ inputs.orders = OfDay(store.orders, day)
           /\ \A o \in OfDay(store.orders, day) : ~o.invalid
           /\ inputs.signals = OfDay(store.signals, day)
           /\ (\A r \in OfDay(store.results, day) : r.parses)
                 => inputs.results = OfDay(store.results, day)
<1> DEFINE source == Content!FillsOf(store, cache, day)
<1>1. /\ source.reasons = {} /\ ~(source.invalid > 0) /\ source.truncated # TRUE
      /\ Content!InvalidOrders(store.orders, day) = {}
      /\ ~(Cardinality(OfDay(store.orders, day)) > Limit)
      /\ ~(Cardinality(Content!DayResults(store.results, day)) >= Limit)
      /\ ~(Cardinality(Content!DayRows(store.signals, day, Limit)) >= Limit)
  BY NoReasons
<1>2. /\ inputs.fills = source.fills
      /\ inputs.orders = Content!DayOrders(store.orders, day)
      /\ inputs.signals = Content!DayRows(store.signals, day, Limit)
      /\ inputs.results = Content!DayResults(store.results, day)
  BY DEF Content!Inputs
<1> HIDE DEF source
<1>3. /\ \A f \in OfDay(store.fills, day) : f \in inputs.fills /\ Content!ValidFill(f)
      /\ \/ inputs.fills \subseteq store.fills
         \/ cache # Absent /\ inputs.fills \subseteq cache
      /\ inputs.fills = {} => cache # Absent
  <2>1. Ordered(store.fills)
    BY DEF IsStore
  <2>2. /\ \A f \in OfDay(store.fills, day) : Content!ValidFill(f)
        /\ OfDay(store.fills, day) \subseteq source.fills
        /\ source.fills \subseteq store.fills \/ (cache # Absent /\ source.fills \subseteq cache)
        /\ source.fills = {} => cache # Absent
    BY <2>1, <1>1, CompleteSource DEF source
  <2> QED BY <2>2, <1>2
<1>4. ASSUME NEW rows, Ordered(rows)
      PROVE  /\ IsFiniteSet(OfDay(rows, day))
             /\ Cardinality(OfDay(rows, day)) \in Nat
             /\ Content!DayRows(rows, day, Limit) \subseteq OfDay(rows, day)
             /\ Cardinality(Content!DayRows(rows, day, Limit)) \in Nat
  <2>1. OfDay(rows, day) \subseteq rows
        /\ Content!DayRows(rows, day, Limit) \subseteq OfDay(rows, day)
    BY DEF OfDay, Content!DayRows, Content!FirstRows
  <2>2. IsFiniteSet(rows)
    BY <1>4 DEF Ordered
  <2>3. IsFiniteSet(OfDay(rows, day)) /\ IsFiniteSet(Content!DayRows(rows, day, Limit))
    BY <2>1, <2>2, FS_Subset
  <2> QED BY <2>1, <2>3, FS_CardinalityType
<1>5. Content!CreatedOrders(store.orders, day) = OfDay(store.orders, day)
  <2>1. Cardinality(OfDay(store.orders, day)) <= Limit
    BY <1>1, <1>4 DEF IsStore
  <2> QED BY <2>1, SmallDayIsWhole DEF IsStore, Content!CreatedOrders
<1>6. \A o \in OfDay(store.orders, day) : ~o.invalid
  BY <1>1, <1>5 DEF Content!InvalidOrders
<1>7. inputs.orders = OfDay(store.orders, day)
  BY <1>2, <1>5, <1>6 DEF Content!DayOrders
<1>8. inputs.signals = OfDay(store.signals, day)
  <2>1. Cardinality(Content!DayRows(store.signals, day, Limit)) < Limit
    BY <1>1, <1>4 DEF IsStore
  <2> QED BY <2>1, <1>2, PageOfDay DEF IsStore
<1>9. ASSUME \A r \in OfDay(store.results, day) : r.parses
      PROVE  inputs.results = OfDay(store.results, day)
  <2> DEFINE page == Content!DayRows(store.results, day, Limit)
  <2>1. inputs.results = page
    BY <1>2, <1>4, <1>9 DEF Content!DayResults, IsStore
  <2>2. Cardinality(page) < Limit
    <3>1. Cardinality(page) \in Nat
      BY <1>4 DEF IsStore
    <3>2. ~(Cardinality(page) >= Limit)
      <4> HIDE DEF page
      <4> QED BY <2>1, <1>1, <1>2
    <3> QED BY <3>1, <3>2
  <2>3. page = OfDay(store.results, day)
    BY <2>2, PageOfDay DEF IsStore
  <2> QED BY <2>1, <2>3
<1> QED BY <1>3, <1>6, <1>7, <1>8, <1>9
=============================================================================
