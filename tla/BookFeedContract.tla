-------------------------- MODULE BookFeedContract --------------------------
(***************************************************************************)
(* What a strategy promises the rest of the node about the book feed of    *)
(* its conditions.  A condition is out, waits for books, or is ready; only *)
(* a ready one is evaluated.  It becomes ready when every side it is owed  *)
(* has been delivered and in no other way, and while it waits the sides    *)
(* still owed only shrink, unless the subscription starts from nothing.    *)
(***************************************************************************)
CONSTANTS Conditions, Sides

VARIABLES
    feed,  \* [Conditions -> {"out", "waiting", "ready"}]
    owed   \* the sides each waiting condition has not received

vars == <<feed, owed>>

Init ==
    /\ feed = [c \in Conditions |-> "out"]
    /\ owed = [c \in Conditions |-> {}]

Stays(c) == feed'[c] = feed[c] /\ owed'[c] = owed[c]

Closes(c) == feed'[c] = "out" /\ owed'[c] = {}

\* The subscription starts from nothing and owes both sides.
Opens(c) == feed'[c] = "waiting" /\ owed'[c] = Sides

\* A ready condition waits again, for the sides that went stale.
Reopens(c) ==
    /\ feed[c] = "ready"
    /\ feed'[c] = "waiting"
    /\ owed'[c] \in (SUBSET Sides) \ {{}}

Delivers(c) ==
    /\ feed[c] = "waiting"
    /\ owed'[c] \in (SUBSET owed[c]) \ {owed[c]}
    /\ feed'[c] = IF owed'[c] = {} THEN "ready" ELSE "waiting"

Next ==
    \A c \in Conditions :
        Stays(c) \/ Closes(c) \/ Opens(c) \/ Reopens(c) \/ Delivers(c)

Spec == Init /\ [][Next]_vars
=============================================================================
