--------------------------- MODULE TelemetryProofs ---------------------------
(***************************************************************************)
(* Telemetry is type-correct, and the row of an order converges, whatever  *)
(* the order in which the strategy's thread and the telemetry thread write *)
(* its events, with any orders, times, ids, queue, retries and bounds.     *)
(*                                                                         *)
(* RowsConverge speaks of the orders all of whose events are written, which*)
(* no step keeps.  What every step keeps is that the row shows the last of *)
(* the events that are written, as far as they go, and for that: only what *)
(* the strategy received is written, only fills wait, and two events of an *)
(* order never have both the time and the id in common.                    *)
(***************************************************************************)
EXTENDS Telemetry, TLAPS

-----------------------------------------------------------------------------
(* The order of the events of an order.                                    *)

\* Precedes compares the time, then whether it is a fill, then the id.
LEMMA PrecedesIsTransitive ==
    ASSUME NEW a \in Event, NEW b \in Event, NEW c \in Event,
           Precedes(a, b), Precedes(b, c)
    PROVE  Precedes(a, c)
BY DEF Precedes, Event, Instants, Ids, Lifecycle

\* Two events that differ in time or id are ordered.
LEMMA PrecedesIsTotal ==
    ASSUME NEW a \in Event, NEW b \in Event, a.at # b.at \/ a.id # b.id
    PROVE  Precedes(a, b) \/ Precedes(b, a)
BY DEF Precedes, Event, Instants, Ids, Lifecycle

LEMMA RowOfType ==
    ASSUME NEW e \in Event
    PROVE  /\ RowOf(e) \in Row /\ RowOf(e) # NoRow
           /\ RowOf(e).at = e.at /\ RowOf(e).id = e.id
           /\ RowOf(e).status = "FILLED" <=> e.kind = "FILL"
BY DEF RowOf, StatusOf, NoRow, Row, Event, Statuses, Lifecycle

LEMMA WrittenType ==
    ASSUME NEW r \in Row, NEW e \in Event
    PROVE  Written(r, e) \in Row
BY RowOfType DEF Written, WithFill, WithLifecycle

\* A row that shows m shows the later of m and e once e is written, unless m
\* is a fill and e is none.
LEMMA WrittenShowsLater ==
    ASSUME NEW m \in Event, NEW e \in Event, m.kind = "FILL" => e.kind = "FILL"
    PROVE  Written(RowOf(m), e) = IF Precedes(m, e) THEN RowOf(e) ELSE RowOf(m)
<1>1. CASE e.kind = "FILL"
  BY <1>1, RowOfType DEF Written, WithFill, Precedes, Event, Instants, Ids
<1>2. CASE e.kind # "FILL"
  BY <1>2, RowOfType DEF Written, WithLifecycle, LaterThan, Precedes, Event, Instants, Ids
<1> QED BY <1>1, <1>2

-----------------------------------------------------------------------------
(* The invariant.                                                          *)

Received(o) == {history[o][i] : i \in DOMAIN history[o]}

\* The day that is asked for is one that has passed.
Begun == today > 0

OnlyReceivedIsWritten == \A o \in Orders : written[o] \subseteq Received(o)

Pending(waiting) == \A i \in DOMAIN waiting :
    /\ waiting[i].event \in Received(waiting[i].order)
    /\ waiting[i].event.kind = "FILL"

OnlyFillsWait == Pending(queue) /\ Pending(writing)

WriterHasFill == thread = "write" => writing # << >>

EventsDiffer ==
    \A o \in Orders : \A d, e \in Received(o) : d.at = e.at /\ d.id = e.id => d = e

Last(e, events) == e \in events /\ \A d \in events \ {e} : Precedes(d, e)

\* What the row of an order with these events written should be.
Shows(r, events) == IF events = {} THEN r = NoRow
                    ELSE \E e \in events : Last(e, events) /\ r = RowOf(e)

RowsShowLast == \A o \in Orders : ClosesAfterFill(o) \/ Shows(rows[o], written[o])

Inv == /\ TypeOK /\ Begun /\ WriterHasFill
       /\ OnlyReceivedIsWritten /\ OnlyFillsWait /\ EventsDiffer /\ RowsShowLast

-----------------------------------------------------------------------------
(* One write.                                                              *)

LEMMA WrittenShowsLast ==
    ASSUME NEW events \in SUBSET Event, NEW e \in Event, NEW r, Shows(r, events),
           \A d \in events : d.at = e.at /\ d.id = e.id => d = e,
           e.kind = "FILL" \/ \A d \in events : d.kind # "FILL"
    PROVE  Shows(Written(r, e), events \cup {e})
<1>1. CASE events = {}
  <2>1. r = NoRow
    BY <1>1 DEF Shows
  <2>2. Written(r, e) = RowOf(e)
    BY <2>1 DEF Written, WithFill, WithLifecycle
  <2>3. Last(e, events \cup {e})
    BY <1>1 DEF Last
  <2> QED BY <2>2, <2>3 DEF Shows
<1>2. CASE events # {}
  <2>1. PICK m \in events : Last(m, events) /\ r = RowOf(m)
    BY <1>2 DEF Shows
  <2>2. Written(r, e) = IF Precedes(m, e) THEN RowOf(e) ELSE RowOf(m)
    BY <2>1, WrittenShowsLater
  <2>3. CASE Precedes(m, e)
    <3>1. \A d \in events : Precedes(d, e)
      <4> SUFFICES ASSUME NEW d \in events PROVE Precedes(d, e)
        OBVIOUS
      <4>1. d = m \/ Precedes(d, m)
        BY <2>1 DEF Last
      <4> QED BY <2>3, <4>1, PrecedesIsTransitive
    <3>2. Last(e, events \cup {e})
      BY <3>1 DEF Last
    <3> QED BY <2>2, <2>3, <3>2 DEF Shows
  <2>4. CASE ~Precedes(m, e)
    <3>1. e = m \/ Precedes(e, m)
      BY <2>4, PrecedesIsTotal
    <3>2. Last(m, events \cup {e})
      BY <2>1, <3>1 DEF Last
    <3> QED BY <2>2, <2>4, <3>2 DEF Shows
  <2> QED BY <2>3, <2>4
<1> QED BY <1>1, <1>2

-----------------------------------------------------------------------------
(* A new event of an order.                                                *)

LEMMA HistoryGrows ==
    ASSUME TypeOK, EventsDiffer, NEW o \in Orders, NEW kinds, NEW e \in NewEvents(o, kinds),
           history' = [history EXCEPT ![o] = Append(@, e)]
    PROVE  /\ history' \in [Orders -> Seq(Event)]
           /\ e \in Event /\ e.kind \in kinds
           /\ \A p \in Orders : p # o => history'[p] = history[p]
           /\ Received(o)' = Received(o) \cup {e}
           /\ ClosesAfterFill(o) => ClosesAfterFill(o)'
           /\ e.kind # "FILL" /\ ~ClosesAfterFill(o)'
                => \A d \in Received(o) : d.kind # "FILL"
<1> DEFINE h == history[o]
<1>1. h \in Seq(Event) /\ e \in Event /\ e.kind \in kinds
  BY DEF TypeOK, NewEvents
<1>2. history'[o] = Append(h, e) /\ \A p \in Orders : p # o => history'[p] = history[p]
  BY DEF TypeOK
<1>3. history' \in [Orders -> Seq(Event)]
  BY <1>1 DEF TypeOK
<1> HIDE DEF h
<1>5. /\ DOMAIN h = 1 .. Len(h) /\ Len(h) \in Nat
      /\ DOMAIN Append(h, e) = 1 .. Len(h) + 1
      /\ Append(h, e)[Len(h) + 1] = e
      /\ \A i \in 1 .. Len(h) : Append(h, e)[i] = h[i]
  BY <1>1
<1>6. Received(o)' = Received(o) \cup {e}
  <2>1. Received(o)' = {Append(h, e)[i] : i \in 1 .. Len(h) + 1}
    BY <1>2, <1>5 DEF Received
  <2>2. Received(o) = {h[i] : i \in 1 .. Len(h)}
    BY <1>5 DEF Received, h
  <2>3. 1 .. Len(h) + 1 = (1 .. Len(h)) \cup {Len(h) + 1}
    BY <1>5
  <2> QED BY <1>5, <2>1, <2>2, <2>3
<1>8. ClosesAfterFill(o) => ClosesAfterFill(o)'
  BY <1>2, <1>5 DEF ClosesAfterFill, h
<1>9. e.kind # "FILL" /\ ~ClosesAfterFill(o)' => \A d \in Received(o) : d.kind # "FILL"
  <2> SUFFICES ASSUME e.kind # "FILL", ~ClosesAfterFill(o)', NEW i \in 1 .. Len(h)
               PROVE  h[i].kind # "FILL"
    BY <1>5 DEF Received, h
  <2>1. /\ i \in DOMAIN Append(h, e) /\ Len(h) + 1 \in DOMAIN Append(h, e)
        /\ i < Len(h) + 1
    BY <1>5
  <2> QED BY <1>2, <1>5, <2>1 DEF ClosesAfterFill
<1> QED BY <1>1, <1>2, <1>3, <1>6, <1>8, <1>9

\* What is waiting stays known, and the events stay different.
LEMMA ReceivedGrows ==
    ASSUME Inv, NEW o \in Orders, NEW kinds, NEW e \in NewEvents(o, kinds),
           history' = [history EXCEPT ![o] = Append(@, e)]
    PROVE  /\ EventsDiffer'
           /\ \A p \in Orders : Received(p) \subseteq Received(p)'
           /\ \A p \in Orders : p # o => (ClosesAfterFill(p) <=> ClosesAfterFill(p)')
<1>1. /\ \A p \in Orders : p # o => history'[p] = history[p]
      /\ Received(o)' = Received(o) \cup {e}
      /\ \A d \in Received(o) : d.at = e.at => d.id # e.id
  <2>1. TypeOK /\ EventsDiffer
    BY DEF Inv
  <2>2. e \in NewEvents(o, kinds)
    OBVIOUS
  <2>3. \A p \in Orders : p # o => history'[p] = history[p]
    BY <2>1, <2>2, HistoryGrows
  <2>4. Received(o)' = Received(o) \cup {e}
    BY <2>1, <2>2, HistoryGrows
  <2>5. \A d \in Received(o) : d.at = e.at => d.id # e.id
    BY DEF NewEvents, Received
  <2> QED BY <2>3, <2>4, <2>5
<1>2. \A p \in Orders : p # o => Received(p)' = Received(p)
  BY <1>1 DEF Received
<1>3. EventsDiffer'
  BY <1>1, <1>2 DEF Inv, EventsDiffer
<1>4. \A p \in Orders : p # o => (ClosesAfterFill(p) <=> ClosesAfterFill(p)')
  BY <1>1 DEF ClosesAfterFill
<1> QED BY <1>1, <1>2, <1>3, <1>4

LEMMA PendingStays ==
    ASSUME NEW q \in Seq(Fill), Pending(q), NEW i \in DOMAIN q,
           \A p \in Orders : Received(p) \subseteq Received(p)'
    PROVE  /\ q[i].event \in Received(q[i].order)'
           /\ q[i].event.kind = "FILL"
<1>1. q[i] \in Fill
  OBVIOUS
<1>2. q[i].order \in Orders
  BY <1>1 DEF Fill
<1> QED BY <1>2 DEF Pending

-----------------------------------------------------------------------------
(* The steps of the strategy's thread.                                     *)

LEMMA StoreTypes ==
    ASSUME TypeOK, NEW o \in Orders, NEW e \in Event, Store(o, e)
    PROVE  /\ written' \in [Orders -> SUBSET Event] /\ rows' \in [Orders -> Row]
           /\ written'[o] = written[o] \cup {e} /\ rows'[o] = Written(rows[o], e)
           /\ \A p \in Orders : p # o => written'[p] = written[p] /\ rows'[p] = rows[p]
<1>1. Written(rows[o], e) \in Row
  BY WrittenType DEF TypeOK
<1> QED BY <1>1 DEF Store, TypeOK

LEMMA OrderEventKeeps ==
    ASSUME Inv, NEW o \in Orders, OrderEvent(o)
    PROVE  Inv'
<1>1. PICK e \in NewEvents(o, Lifecycle) :
          /\ history' = [history EXCEPT ![o] = Append(@, e)]
          /\ Store(o, e) \/ UNCHANGED <<written, rows>>
  BY DEF OrderEvent
<1>2. UNCHANGED <<running, fills, thread, strategy, today, notices>>
  BY DEF OrderEvent
<1>3. TypeOK /\ EventsDiffer
  BY DEF Inv
<1>4. /\ history' \in [Orders -> Seq(Event)]
      /\ e \in Event /\ e.kind \in Lifecycle
      /\ Received(o)' = Received(o) \cup {e}
      /\ ClosesAfterFill(o) => ClosesAfterFill(o)'
  BY <1>1, <1>3, HistoryGrows
<1>5. e.kind # "FILL"
  BY <1>4 DEF Lifecycle
<1>6. ~ClosesAfterFill(o)' => \A d \in Received(o) : d.kind # "FILL"
  BY <1>1, <1>3, <1>5, HistoryGrows
<1>7. /\ EventsDiffer'
      /\ \A p \in Orders : Received(p) \subseteq Received(p)'
      /\ \A p \in Orders : p # o => (ClosesAfterFill(p) <=> ClosesAfterFill(p)')
  BY <1>1, ReceivedGrows
<1>8. /\ written' \in [Orders -> SUBSET Event] /\ rows' \in [Orders -> Row]
      /\ \A p \in Orders : p # o => written'[p] = written[p] /\ rows'[p] = rows[p]
      /\ \/ written'[o] = written[o] \cup {e} /\ rows'[o] = Written(rows[o], e)
         \/ written'[o] = written[o] /\ rows'[o] = rows[o]
  BY <1>1, <1>3, <1>4, StoreTypes DEF TypeOK
<1>9. TypeOK'
  BY <1>2, <1>3, <1>4, <1>8 DEF TypeOK, fills, notices, results
<1>10. Begun' /\ WriterHasFill'
  BY <1>2 DEF Inv, Begun, WriterHasFill, fills
<1>11. OnlyReceivedIsWritten'
  BY <1>4, <1>7, <1>8 DEF Inv, OnlyReceivedIsWritten
<1>12. OnlyFillsWait'
  <2>1. queue \in Seq(Fill) /\ writing \in Seq(Fill) /\ Pending(queue) /\ Pending(writing)
    BY DEF Inv, TypeOK, OnlyFillsWait
  <2>2. queue' = queue /\ writing' = writing
    BY <1>2 DEF fills
  <2> QED BY <1>7, <2>1, <2>2, PendingStays DEF OnlyFillsWait, Pending
<1>13. RowsShowLast'
  <2> SUFFICES ASSUME NEW p \in Orders, ~ClosesAfterFill(p)'
               PROVE  Shows(rows'[p], written'[p])
    BY DEF RowsShowLast, Shows, Last
  <2>1. Shows(rows[p], written[p])
    BY <1>4, <1>7 DEF Inv, RowsShowLast
  <2>2. CASE p # o
    BY <1>8, <2>1, <2>2
  <2>3. CASE p = o /\ written'[o] = written[o] \cup {e} /\ rows'[o] = Written(rows[o], e)
    <3>1. written[o] \subseteq Received(o) /\ written[o] \in SUBSET Event
      BY <1>3 DEF Inv, OnlyReceivedIsWritten, TypeOK
    <3>2. \A d \in written[o] : d.kind # "FILL"
      BY <1>6, <2>3, <3>1
    <3>3. \A d \in written[o] : d.at = e.at /\ d.id = e.id => d = e
      BY <1>1, <3>1 DEF NewEvents, Received
    <3> QED BY <1>4, <2>1, <2>3, <3>1, <3>2, <3>3, WrittenShowsLast
  <2> QED BY <1>8, <2>1, <2>2, <2>3
<1> QED BY <1>7, <1>9, <1>10, <1>11, <1>12, <1>13 DEF Inv

LEMMA OrderFilledKeeps ==
    ASSUME Inv, NEW o \in Orders, OrderFilled(o)
    PROVE  Inv'
<1>1. PICK e \in NewEvents(o, {"FILL"}) :
          /\ history' = [history EXCEPT ![o] = Append(@, e)]
          /\ \/ queue' = Append(queue, [order |-> o, event |-> e])
             \/ queue' = queue
  BY DEF OrderFilled
<1>2. UNCHANGED <<running, written, rows, writing, tries, thread, strategy, today, notices>>
  BY DEF OrderFilled
<1>3. TypeOK /\ EventsDiffer
  BY DEF Inv
<1>4. /\ history' \in [Orders -> Seq(Event)]
      /\ e \in Event /\ e.kind \in {"FILL"}
      /\ Received(o)' = Received(o) \cup {e}
      /\ ClosesAfterFill(o) => ClosesAfterFill(o)'
  BY <1>1, <1>3, HistoryGrows
<1>5. /\ EventsDiffer'
      /\ \A p \in Orders : Received(p) \subseteq Received(p)'
      /\ \A p \in Orders : p # o => (ClosesAfterFill(p) <=> ClosesAfterFill(p)')
  BY <1>1, ReceivedGrows
<1>6. [order |-> o, event |-> e] \in Fill
  BY <1>4 DEF Fill
<1>7. queue' \in Seq(Fill)
  <2>1. queue \in Seq(Fill)
    BY <1>3 DEF TypeOK
  <2> QED BY <1>1, <1>6, <2>1
<1>8. TypeOK'
  BY <1>2, <1>3, <1>4, <1>7 DEF TypeOK, notices, results
<1>9. Begun' /\ WriterHasFill'
  BY <1>2 DEF Inv, Begun, WriterHasFill
<1>10. OnlyReceivedIsWritten'
  BY <1>2, <1>5 DEF Inv, OnlyReceivedIsWritten
<1>11. OnlyFillsWait'
  <2>1. queue \in Seq(Fill) /\ writing \in Seq(Fill) /\ Pending(queue) /\ Pending(writing)
    BY DEF Inv, TypeOK, OnlyFillsWait
  <2>2. Pending(writing)'
    BY <1>2, <1>5, <2>1, PendingStays DEF Pending
  <2>3. CASE queue' = queue
    BY <1>5, <2>1, <2>2, <2>3, PendingStays DEF OnlyFillsWait, Pending
  <2>4. CASE queue' = Append(queue, [order |-> o, event |-> e])
    <3> PICK q \in Seq(Fill) : q = queue
      BY <2>1
    <3>1. \A i \in DOMAIN q : /\ q[i].event \in Received(q[i].order)'
                              /\ q[i].event.kind = "FILL"
      <4> TAKE i \in DOMAIN q
      <4> QED BY <1>5, <2>1, PendingStays
    <3>2. \A i \in DOMAIN queue' :
              \/ i \in DOMAIN q /\ queue'[i] = q[i]
              \/ queue'[i] = [order |-> o, event |-> e]
      BY <1>6, <2>1, <2>4
    <3>3. e \in Received(o)'
      BY <1>4
    <3>4. Pending(queue)'
      BY <1>4, <3>1, <3>2, <3>3 DEF Pending
    <3> QED BY <2>2, <3>4 DEF OnlyFillsWait
  <2> QED BY <1>1, <2>3, <2>4
<1>12. RowsShowLast'
  BY <1>2, <1>4, <1>5 DEF Inv, RowsShowLast, Shows, Last
<1> QED BY <1>5, <1>8, <1>9, <1>10, <1>11, <1>12 DEF Inv

-----------------------------------------------------------------------------
(* The steps of the telemetry thread.                                      *)

\* A step that leaves the reports and what waits alone.
LEMMA OtherStepKeeps ==
    ASSUME Inv, UNCHANGED <<reports, fills>>, TypeOK', Begun',
           thread' = "write" => thread = "write"
    PROVE  Inv'
<1>1. UNCHANGED <<history, written, rows, queue, writing>>
  BY DEF reports, fills
<1>2. OnlyReceivedIsWritten' /\ EventsDiffer'
  BY <1>1 DEF Inv, OnlyReceivedIsWritten, EventsDiffer, Received
<1>3. OnlyFillsWait'
  BY <1>1 DEF Inv, OnlyFillsWait, Pending, Received
<1>4. RowsShowLast'
  BY <1>1 DEF Inv, RowsShowLast, Shows, Last, ClosesAfterFill
<1> QED BY <1>1, <1>2, <1>3, <1>4 DEF Inv, WriterHasFill

\* A step that leaves the reports alone, and moves what waits.
LEMMA MovingKeeps ==
    ASSUME Inv, UNCHANGED reports, TypeOK', Begun', WriterHasFill',
           Pending(queue'), Pending(writing')
    PROVE  Inv'
<1>1. UNCHANGED <<history, written, rows>>
  BY DEF reports
<1>2. OnlyReceivedIsWritten' /\ EventsDiffer'
  BY <1>1 DEF Inv, OnlyReceivedIsWritten, EventsDiffer, Received
<1>3. OnlyFillsWait'
  BY <1>1 DEF OnlyFillsWait, Pending, Received
<1>4. RowsShowLast'
  BY <1>1 DEF Inv, RowsShowLast, Shows, Last, ClosesAfterFill
<1> QED BY <1>2, <1>3, <1>4 DEF Inv

\* The head of a queue of fills, and what is left without it.
LEMMA TakenIsPending ==
    ASSUME NEW q \in Seq(Fill), q # << >>, Pending(q)
    PROVE  /\ Head(q) \in Fill /\ Tail(q) \in Seq(Fill)
           /\ Pending(Tail(q)) /\ Pending(<< Head(q) >>)
<1>1. Head(q) \in Fill /\ Tail(q) \in Seq(Fill) /\ Head(q) = q[1] /\ 1 \in DOMAIN q
  OBVIOUS
<1>2. \A i \in DOMAIN Tail(q) : i + 1 \in DOMAIN q /\ Tail(q)[i] = q[i + 1]
  OBVIOUS
<1>3. Pending(Tail(q))
  BY <1>2 DEF Pending
<1>4. DOMAIN << Head(q) >> = {1} /\ << Head(q) >>[1] = q[1]
  BY <1>1
<1>5. Pending(<< Head(q) >>)
  BY <1>1, <1>4 DEF Pending
<1> QED BY <1>1, <1>3, <1>5

LEMMA DrainKeeps ==
    ASSUME Inv, Drain
    PROVE  Inv'
<1>1. UNCHANGED <<running, reports, tries, strategy, today, notices>>
  BY DEF Drain
<1>2. /\ TypeOK /\ queue \in Seq(Fill)
      /\ Pending(queue) /\ Pending(writing)
  BY DEF Inv, TypeOK, OnlyFillsWait
<1>3. CASE queue = << >>
  <2>1. thread' = "poll" /\ UNCHANGED <<queue, writing>>
    BY <1>3 DEF Drain
  <2>2. TypeOK' /\ Begun'
    BY <1>1, <1>2, <2>1 DEF Inv, TypeOK, Begun, reports, notices, results
  <2> QED BY <1>1, <2>1, <2>2, OtherStepKeeps DEF fills
<1>4. CASE queue # << >>
  <2>1. thread' = "write" /\ writing' = << Head(queue) >> /\ queue' = Tail(queue)
    BY <1>4 DEF Drain
  <2>2. /\ Head(queue) \in Fill /\ Tail(queue) \in Seq(Fill)
        /\ Pending(Tail(queue)) /\ Pending(<< Head(queue) >>)
    BY <1>2, <1>4, TakenIsPending
  <2>3. /\ writing' \in Seq(Fill) /\ Len(writing') <= 1 /\ writing' # << >>
    BY <2>1, <2>2
  <2>4. queue' \in Seq(Fill) /\ thread' = "write"
    BY <2>1, <2>2
  <2>5. TypeOK' /\ Begun'
    BY <1>1, <1>2, <2>3, <2>4 DEF Inv, TypeOK, Begun, reports, notices, results
  <2>6. WriterHasFill'
    BY <2>3 DEF WriterHasFill
  <2>7. Pending(queue') /\ Pending(writing')
    BY <2>1, <2>2
  <2> QED BY <1>1, <2>5, <2>6, <2>7, MovingKeeps
<1> QED BY <1>3, <1>4

LEMMA DropKeeps ==
    ASSUME Inv, Drop
    PROVE  Inv'
<1>1. /\ queue # << >> /\ queue' = Tail(queue)
      /\ UNCHANGED <<running, reports, writing, tries, thread, strategy, today, notices>>
  BY DEF Drop
<1>2. /\ TypeOK /\ queue \in Seq(Fill)
      /\ Pending(queue) /\ Pending(writing)
  BY DEF Inv, TypeOK, OnlyFillsWait
<1>3. Tail(queue) \in Seq(Fill) /\ Pending(Tail(queue))
  BY <1>1, <1>2, TakenIsPending
<1>4. queue' \in Seq(Fill) /\ Pending(queue') /\ Pending(writing')
  BY <1>1, <1>2, <1>3
<1>5. TypeOK' /\ Begun' /\ WriterHasFill'
  BY <1>1, <1>2, <1>4 DEF Inv, TypeOK, Begun, WriterHasFill, reports, notices, results
<1> QED BY <1>1, <1>4, <1>5, MovingKeeps

\* The fill that is written comes after every event that is written already.
LEMMA WriteKeeps ==
    ASSUME Inv, Write
    PROVE  Inv'
<1> DEFINE o == writing[1].order
           e == writing[1].event
<1>1. /\ thread = "write"
      /\ UNCHANGED <<running, history, queue, strategy, today, notices>>
      /\ \/ Store(o, e) \/ UNCHANGED <<written, rows>>
      /\ \/ thread' = "poll" /\ writing' = << >> /\ tries' = 0
         \/ /\ tries < Retries /\ tries' = tries + 1
            /\ UNCHANGED <<written, rows, thread, writing>>
  BY DEF Write
<1>2. TypeOK /\ Pending(queue) /\ Pending(writing) /\ EventsDiffer /\ OnlyReceivedIsWritten
  BY DEF Inv, OnlyFillsWait
<1>3. writing \in Seq(Fill) /\ writing # << >>
  BY <1>1 DEF Inv, TypeOK, WriterHasFill
<1>4. 1 \in DOMAIN writing /\ writing[1] \in Fill
  BY <1>3
<1>5. o \in Orders /\ e \in Event /\ e \in Received(o) /\ e.kind = "FILL"
  BY <1>2, <1>4 DEF Fill, Pending
<1>6. /\ thread' \in {"poll", "write"} /\ (thread' = "write" => UNCHANGED writing)
      /\ writing' \in {<< >>, writing}
  BY <1>1
<1>7. writing' \in Seq(Fill) /\ Len(writing') <= 1
  <2>1. Len(writing) <= 1 /\ Len(<< >>) = 0
    BY <1>2 DEF TypeOK
  <2>2. CASE writing' = << >>
    BY <2>2
  <2>3. CASE writing' = writing
    BY <1>3, <2>1, <2>3
  <2> QED BY <1>6, <2>2, <2>3
<1>8. tries' \in 0 .. Retries
  BY <1>1, <1>2, TelemetryAssumption DEF TypeOK
<1> HIDE DEF o, e
<1>9. /\ written' \in [Orders -> SUBSET Event] /\ rows' \in [Orders -> Row]
      /\ \A p \in Orders : p # o => written'[p] = written[p] /\ rows'[p] = rows[p]
      /\ \/ written'[o] = written[o] \cup {e} /\ rows'[o] = Written(rows[o], e)
         \/ written'[o] = written[o] /\ rows'[o] = rows[o]
  BY <1>1, <1>2, <1>5, StoreTypes DEF TypeOK
<1>10. TypeOK'
  BY <1>1, <1>2, <1>6, <1>7, <1>8, <1>9 DEF TypeOK, notices, results
<1>11. Begun' /\ WriterHasFill' /\ EventsDiffer'
  BY <1>1, <1>3, <1>6 DEF Inv, Begun, WriterHasFill, EventsDiffer, Received
<1>12. OnlyReceivedIsWritten'
  BY <1>1, <1>2, <1>5, <1>9 DEF OnlyReceivedIsWritten, Received
<1>13. OnlyFillsWait'
  <2>1. Pending(<< >>)
    BY DEF Pending
  <2>2. Pending(writing') /\ Pending(queue')
    BY <1>1, <1>2, <1>6, <2>1
  <2> QED BY <1>1, <2>2 DEF OnlyFillsWait, Pending, Received
<1>14. RowsShowLast'
  <2>1. ASSUME NEW p \in Orders, ~ClosesAfterFill(p)
        PROVE  Shows(rows'[p], written'[p])
    <3>1. Shows(rows[p], written[p])
      BY <2>1 DEF Inv, RowsShowLast
    <3>2. CASE p = o /\ written'[o] = written[o] \cup {e} /\ rows'[o] = Written(rows[o], e)
      <4>1. written[o] \subseteq Received(o) /\ written[o] \in SUBSET Event
        BY <1>2, <1>5 DEF OnlyReceivedIsWritten, TypeOK
      <4>2. \A d \in written[o] : d.at = e.at /\ d.id = e.id => d = e
        BY <1>2, <1>5, <4>1 DEF EventsDiffer
      <4> QED BY <1>5, <3>1, <3>2, <4>1, <4>2, WrittenShowsLast
    <3> QED BY <1>9, <3>1, <3>2
  <2>2. \A p \in Orders : ClosesAfterFill(p) <=> ClosesAfterFill(p)'
    BY <1>1 DEF ClosesAfterFill
  <2> QED BY <2>1, <2>2 DEF RowsShowLast, Shows, Last
<1> QED BY <1>10, <1>11, <1>12, <1>13, <1>14 DEF Inv

-----------------------------------------------------------------------------
(* Everything else.                                                        *)

LEMMA LoopKeeps ==
    ASSUME Inv, Loop \/ Request \/ RequestPuts
    PROVE  Inv'
<1>1. /\ UNCHANGED <<running, reports, fills, strategy, today>>
      /\ UNCHANGED results
      /\ thread' \in {"ended", "drain", "put"}
      /\ worker' = worker \/ worker' = Ensured
      /\ asking' \in {asking, today - 1, 0}
      /\ requested' = requested \/ requested' = requested \cup {today - 1}
      /\ outbox' = outbox \/ outbox' = Append(outbox, asking)
  BY DEF Loop, Request, RequestPuts, notices
<1>2. TypeOK /\ today > 0
  BY DEF Inv, Begun
<1>3. today - 1 \in Days /\ 0 \in Days
  BY <1>2, TelemetryAssumption DEF TypeOK, Days
<1>4. worker' \in {"dead", "waiting", "working"}
  BY <1>1, <1>2 DEF TypeOK, Ensured
<1>5. asking' \in Days /\ requested' \subseteq Days
  BY <1>1, <1>2, <1>3 DEF TypeOK
<1>6. outbox' \in Seq(Days \cup {Signal})
  <2>1. outbox \in Seq(Days \cup {Signal}) /\ asking \in Days \cup {Signal}
    BY <1>2 DEF TypeOK
  <2> HIDE DEF Days, Signal
  <2> QED BY <1>1, <2>1
<1>7. TypeOK' /\ Begun'
  BY <1>1, <1>2, <1>4, <1>5, <1>6 DEF TypeOK, Begun, reports, fills, results
<1> QED BY <1>1, <1>7, OtherStepKeeps

LEMMA NotifyingKeeps ==
    ASSUME Inv, Notify \/ NotifyPuts \/ Stop \/ Midnight
    PROVE  Inv'
<1>1. /\ UNCHANGED <<reports, fills, thread, asking, requested, results>>
      /\ running' \in {running, FALSE}
      /\ strategy' \in {strategy, "put", "idle"}
      /\ worker' = worker \/ worker' = Ensured
      /\ outbox' = outbox \/ outbox' = Append(outbox, Signal)
      /\ today' = today \/ (today < MaxDays /\ today' = today + 1)
  BY DEF Notify, NotifyPuts, Stop, Midnight, notices
<1>2. TypeOK /\ today > 0
  BY DEF Inv, Begun
<1>3. today' \in Days /\ today' > 0
  BY <1>1, <1>2, TelemetryAssumption DEF TypeOK, Days
<1>4. worker' \in {"dead", "waiting", "working"} /\ running' \in BOOLEAN
      /\ strategy' \in {"idle", "put"}
  BY <1>1, <1>2 DEF TypeOK, Ensured
<1>5. outbox' \in Seq(Days \cup {Signal})
  <2>1. outbox \in Seq(Days \cup {Signal})
    BY <1>2 DEF TypeOK
  <2> HIDE DEF Days, Signal
  <2> QED BY <1>1, <2>1
<1>6. TypeOK' /\ Begun'
  BY <1>1, <1>2, <1>3, <1>4, <1>5 DEF TypeOK, Begun, reports, fills, results
<1> QED BY <1>1, <1>6, OtherStepKeeps

LEMMA WorkingKeeps ==
    ASSUME Inv, Take \/ Publish \/ Generates \/ Die
    PROVE  Inv'
<1>1. /\ UNCHANGED <<running, reports, fills, thread, strategy, today, asking>>
      /\ worker' \in {"waiting", "working", "dead"}
  BY DEF Take, Publish, Generates, Die
<1>2. TypeOK
  BY DEF Inv
<1>3. /\ outbox' \in Seq(Days \cup {Signal})
      /\ job' \in Days \cup {Signal}
  <2>1. outbox \in Seq(Days \cup {Signal}) /\ job \in Days \cup {Signal}
    BY <1>2 DEF TypeOK
  <2>2. \/ UNCHANGED outbox /\ job' \in {job, Signal}
        \/ outbox # << >> /\ job' = Head(outbox) /\ outbox' = Tail(outbox)
    BY DEF Take, Publish, Generates, Die, results
  <2> QED BY <2>1, <2>2
<1>4. requested' \subseteq Days /\ generated' \subseteq Days /\ abandoned' \subseteq Days
  BY <1>2 DEF TypeOK, Take, Publish, Generates, Die, results
<1>5. deaths' \in 0 .. MaxDeaths
  BY <1>2, TelemetryAssumption DEF TypeOK, Take, Publish, Generates, Die, results
<1>6. TypeOK' /\ Begun'
  BY <1>1, <1>2, <1>3, <1>4, <1>5 DEF Inv, TypeOK, Begun, reports, fills
<1> QED BY <1>1, <1>6, OtherStepKeeps

-----------------------------------------------------------------------------
(* The theorems.                                                           *)

LEMMA InitHolds == Init => Inv
<1> SUFFICES ASSUME Init PROVE Inv
  OBVIOUS
<1>1. NoRow \in Row
  BY DEF Row
<1>2. TypeOK /\ Begun /\ WriterHasFill
  BY <1>1, TelemetryAssumption DEF Init, TypeOK, Begun, WriterHasFill, Days, Signal
<1>3. OnlyReceivedIsWritten /\ EventsDiffer /\ OnlyFillsWait
  BY DEF Init, OnlyReceivedIsWritten, EventsDiffer, OnlyFillsWait, Pending, Received
<1>4. RowsShowLast
  BY DEF Init, RowsShowLast, Shows
<1> QED BY <1>2, <1>3, <1>4 DEF Inv

LEMMA StepHolds == Inv /\ [Next]_vars => Inv'
<1> SUFFICES ASSUME Inv, [Next]_vars PROVE Inv'
  OBVIOUS
<1>1. CASE \E o \in Orders : OrderEvent(o) \/ OrderFilled(o)
  BY <1>1, OrderEventKeeps, OrderFilledKeeps
<1>2. CASE Notify \/ NotifyPuts \/ Stop \/ Midnight
  BY <1>2, NotifyingKeeps
<1>3. CASE Loop \/ Request \/ RequestPuts
  BY <1>3, LoopKeeps
<1>4. CASE Drain \/ Drop
  BY <1>4, DrainKeeps, DropKeeps
<1>5. CASE Write
  BY <1>5, WriteKeeps
<1>6. CASE Take \/ Publish \/ Generates \/ Die
  BY <1>6, WorkingKeeps
<1>7. CASE UNCHANGED vars
  <2>1. UNCHANGED <<reports, fills, thread, today>> /\ TypeOK'
    BY <1>7 DEF vars, reports, fills, Inv, TypeOK
  <2> QED BY <2>1, OtherStepKeeps DEF Inv, Begun
<1> QED BY <1>1, <1>2, <1>3, <1>4, <1>5, <1>6, <1>7 DEF Next

\* In every reachable state the invariant holds.
THEOREM TelemetryInvariance == Spec => []Inv
BY InitHolds, StepHolds, PTL DEF Spec

\* Every variable keeps its type.
THEOREM TelemetryTypeCorrect == Spec => []TypeOK
<1>1. Inv => TypeOK
  BY DEF Inv
<1> QED BY <1>1, TelemetryInvariance, PTL

\* Once all the events of an order are written, its row shows the latest of
\* them, in whatever order the callbacks and the telemetry thread wrote them,
\* unless a lifecycle event followed a fill.
THEOREM RowsShowTheLatest == Spec => []RowsConverge
<1>1. Inv => RowsConverge
  <2> SUFFICES ASSUME Inv, NEW o \in Orders, Settled(o), ~ClosesAfterFill(o)
               PROVE  \E e \in written[o] : /\ \A d \in written[o] \ {e} : Precedes(d, e)
                                            /\ rows[o] = RowOf(e)
    BY DEF RowsConverge
  <2>1. history[o] \in Seq(Event) /\ history[o] # << >>
    BY DEF Inv, TypeOK, Settled
  <2>2. 1 \in DOMAIN history[o]
    BY <2>1
  <2>3. written[o] # {}
    BY <2>2 DEF Settled
  <2> QED BY <2>3 DEF Inv, RowsShowLast, Shows, Last
<1> QED BY <1>1, TelemetryInvariance, PTL
=============================================================================
