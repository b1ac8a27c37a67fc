----------------------- MODULE ReportDeliveryContract -----------------------
(***************************************************************************)
(* What the outbox promises the readers of the channel and of the record,  *)
(* whichever processes deliver, crash and retry, as long as none is held   *)
(* up past a deadline: revisions go out one at a time and only while they  *)
(* are the newest; one is posted again only if its last send ended in      *)
(* doubt; and a send that ends without doubt is on record exactly if it    *)
(* posted.                                                                 *)
(***************************************************************************)
EXTENDS Naturals

VARIABLES
    newest,     \* the newest revision of the report, 0 before the first
    sending,    \* the revisions that may be posted
    posted,     \* the revisions that the channel shows
    last,       \* the revision of its newest message
    doubtful,   \* the revisions of which a send ended without an answer
    recorded    \* the revisions that are on record as sent

vars == <<newest, sending, posted, last, doubtful, recorded>>

Init ==
    /\ newest = 0 /\ last = 0
    /\ sending = {} /\ posted = {} /\ doubtful = {} /\ recorded = {}

Report ==
    /\ newest' = newest + 1
    /\ UNCHANGED <<sending, posted, last, doubtful, recorded>>

Begin ==
    /\ sending = {}
    /\ newest > 0 /\ newest \notin recorded
    /\ sending' = {newest}
    /\ UNCHANGED <<newest, posted, last, doubtful, recorded>>

\* A message appears; the answer to the sender may be lost.
Post(r) ==
    /\ r \in posted => r \in doubtful
    /\ posted' = posted \cup {r} /\ last' = r
    /\ doubtful' \in {doubtful, doubtful \cup {r}}
    /\ UNCHANGED <<newest, sending, recorded>>

\* The sender gives up, or dies, without knowing whether it posted.
Doubt(r) ==
    /\ doubtful' = doubtful \cup {r}
    /\ UNCHANGED <<newest, sending, posted, last, recorded>>

Confirm(r) ==
    /\ r \in posted
    /\ sending' = {} /\ recorded' = recorded \cup {r}
    /\ UNCHANGED <<newest, posted, last, doubtful>>

\* The revision may be sent again: it was not posted, or nobody knows.
GiveUp(r) ==
    /\ r \in posted => r \in doubtful
    /\ sending' = {}
    /\ UNCHANGED <<newest, posted, last, doubtful, recorded>>

Next ==
    \/ Report
    \/ Begin
    \/ \E r \in sending : Post(r) \/ Doubt(r) \/ Confirm(r) \/ GiveUp(r)

Spec == Init /\ [][Next]_vars
=============================================================================
