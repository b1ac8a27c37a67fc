-------------------------- MODULE SupervisionProofs --------------------------
(***************************************************************************)
(* The two watches over the running node, with any thresholds, windows,    *)
(* limits, texts, threads and failures.                                    *)
(*                                                                         *)
(* RestartSupervision is type-correct, its restarts and kills are bounded, *)
(* and, when the writes of a start succeed, no boot is ended on what an    *)
(* earlier one left.                                                       *)
(*                                                                         *)
(* HealthAlerts is type-correct, never runs two pollers or two workers and *)
(* delivers what it says.  OneThreadEach is not inductive: it needs to     *)
(* know that the handle a start looks at is the handle of whatever thread  *)
(* still lives.                                                            *)
(***************************************************************************)
EXTENDS RestartSupervision, HealthAlerts, FiniteSetTheorems, FunctionTheorems, TLAPS

-----------------------------------------------------------------------------
(* RestartSupervision.                                                     *)


\* An age that grows stays in range.
LEMMA NextAgeType ==
    ASSUME NEW age \in Ages \union {Absent}
    PROVE  /\ NextAge(age) \in Ages \union {Absent}
           /\ age \in Ages => NextAge(age) \in Ages
BY SupervisionAssumption DEF NextAge, Ages, Absent

\* The clock keeps what is older older.
LEMMA NextAgeMonotone ==
    ASSUME NEW young \in Ages \union {Absent}, NEW old \in Ages, young <= old
    PROVE  NextAge(young) <= NextAge(old)
BY SupervisionAssumption DEF NextAge, Ages, Absent

\* An aged history is a history of its window.
LEMMA AgedType ==
    ASSUME NEW window \in Nat, NEW ages \in SUBSET (0..window)
    PROVE  Aged(ages, window) \in SUBSET (0..window)
<1> SUFFICES ASSUME NEW a \in ages, a < window PROVE a + 1 \in 0..window
  BY DEF Aged
<1> QED
  BY DEF Aged

\* A history is finite.
LEMMA HistoryFinite ==
    ASSUME NEW window \in Nat, NEW ages \in SUBSET (0..window)
    PROVE  IsFiniteSet(ages)
<1>1. 0 \in Int /\ window \in Int
  OBVIOUS
<1>2. IsFiniteSet(0..window)
  BY <1>1, FS_Interval
<1> QED
  BY <1>2, FS_Subset

\* Aging never adds to a history.
LEMMA AgedBounded ==
    ASSUME NEW window \in Nat, NEW ages \in SUBSET (0..window)
    PROVE  Cardinality(Aged(ages, window)) <= Cardinality(ages)
<1> DEFINE kept == {a \in ages : a < window}
           next == [a \in kept |-> a + 1]
<1>1. IsFiniteSet(ages)
  BY HistoryFinite
<1>2. IsFiniteSet(kept) /\ Cardinality(kept) <= Cardinality(ages)
  BY <1>1, FS_Subset
<1>3. next \in Surjection(kept, Aged(ages, window))
  BY Fun_IsSurj DEF Aged
<1>4. Cardinality(Aged(ages, window)) <= Cardinality(kept)
  BY <1>2, <1>3, FS_Surjection
<1>5. /\ Cardinality(ages) \in Nat /\ Cardinality(kept) \in Nat
      /\ Cardinality(Aged(ages, window)) \in Nat
  BY <1>1, <1>2, <1>3, FS_CardinalityType, FS_Surjection
<1> QED
  BY <1>2, <1>4, <1>5

\* Recording an event adds one at most.
LEMMA RecordBounded ==
    ASSUME NEW window \in Nat, NEW ages \in SUBSET (0..window)
    PROVE  /\ ages \union {0} \in SUBSET (0..window)
           /\ Cardinality(ages) \in Nat
           /\ Cardinality(ages \union {0}) <= Cardinality(ages) + 1
<1>1. IsFiniteSet(ages)
  BY HistoryFinite
<1>2. /\ Cardinality(ages) \in Nat
      /\ Cardinality(ages \union {0}) \in {Cardinality(ages), Cardinality(ages) + 1}
  BY <1>1, FS_CardinalityType, FS_AddElement
<1> QED
  BY <1>2
-----------------------------------------------------------------------------
\* Type correctness.

LEMMA EndedType ==
    ASSUME TypeOK, Ended
    PROVE  /\ app' \in [stage : Stages, age : Ages, wedged : BOOLEAN]
           /\ watchdog' \in [requested : BOOLEAN, fleet : Ages \union {Absent}]
           /\ app' = NoProcess /\ watchdog' = IdleWatchdog
BY SupervisionAssumption DEF Ended, NoProcess, IdleWatchdog, Stages, Ages

\* The clock leaves an idle watchdog idle.
LEMMA IdleStaysIdle ==
    ASSUME watchdog = IdleWatchdog, ClockAdvances
    PROVE  watchdog' = IdleWatchdog
<1>1. watchdog' = [IdleWatchdog EXCEPT !.fleet = NextAge(IdleWatchdog.fleet)]
  BY Zenon DEF ClockAdvances
<1>2. NextAge(IdleWatchdog.fleet) = Absent
  BY DEF IdleWatchdog, NextAge
<1> QED
  BY <1>1, <1>2 DEF IdleWatchdog

\* counted is a record of two sets in every reachable state.
Typed == TypeOK /\ counted \in [restarts : SUBSET (0..RestartWindow),
                                kills    : SUBSET (0..KillWindow)]

LEMMA InitTyped == Init => Typed
BY SupervisionAssumption
   DEF Init, Typed, TypeOK, NoProcess, IdleWatchdog, Stages, Ages, Heartbeats, Owners, Details

LEMMA StepTyped ==
    ASSUME Typed, [Next]_vars
    PROVE  Typed'
<1> USE SupervisionAssumption DEF Typed, TypeOK
<1>1. CASE Spawn
  BY <1>1 DEF Spawn, NoProcess, Stages, Ages, Heartbeats, Owners
<1>2. CASE WriteMarker
  BY <1>2 DEF WriteMarker, Stages, Ages
<1>3. CASE WriteStarting
  BY <1>3 DEF WriteStarting, StartingHeartbeat, Stages, Ages, Heartbeats, Owners, Details
<1>4. CASE WriteHeartbeat
  <2>1. PICK detail \in Details, brings \in BOOLEAN,
             oldest \in {Absent, 0} \union 0..heartbeat.miss :
           heartbeat' = [age |-> 0, owner |-> "current",
                         data |-> IF brings THEN 0 ELSE heartbeat.data,
                         miss |-> oldest, detail |-> detail]
    BY <1>4 DEF WriteHeartbeat
  <2>2. heartbeat.miss \in Ages \union {Absent} /\ heartbeat.data \in Ages \union {Absent}
    BY DEF Heartbeats
  <2>3. oldest \in Ages \union {Absent}
    BY <2>2 DEF Ages, Absent
  <2>4. heartbeat' \in Heartbeats
    BY <2>1, <2>2, <2>3 DEF Heartbeats, Owners, Ages
  <2> QED
    BY <1>4, <2>4 DEF WriteHeartbeat
<1>5. CASE Wedge
  BY <1>5 DEF Wedge
<1>6. CASE Crash \/ StopCompletes
  BY <1>6, EndedType DEF Crash, StopCompletes
<1>7. CASE Poll
  BY <1>7 DEF Poll, Gate, FleetClock, HistoryWhenSuppressed, Ages
<1>8. CASE Restart
  <2>1. ASSUME Requested, RestartDue
        PROVE  /\ app' \in [stage : Stages, age : Ages, wedged : BOOLEAN]
               /\ watchdog' \in [requested : BOOLEAN, fleet : Ages \union {Absent}]
               /\ app'.stage = "stopping"
    BY <2>1 DEF Requested, Stages
  <2>2. CASE RequestRestart
    BY <2>1, <2>2, RecordBounded DEF RequestRestart
  <2>3. CASE RequestUnrecorded
    BY <2>1, <2>3 DEF RequestUnrecorded
  <2>4. CASE DieRecording
    BY <2>4, EndedType DEF DieRecording
  <2> QED
    BY <1>8, <2>2, <2>3, <2>4 DEF Restart
<1>9. CASE Kill
  BY <1>9, EndedType, RecordBounded DEF Kill
<1>10. CASE FeedChanges
  BY <1>10 DEF FeedChanges
<1>11. CASE ClockAdvances
  <2>1. /\ app' \in [stage : Stages, age : Ages, wedged : BOOLEAN]
        /\ app.stage = "down" => app' = app
        /\ app'.stage = app.stage
    BY <1>11, NextAgeType DEF ClockAdvances
  <2>2. /\ watchdog' \in [requested : BOOLEAN, fleet : Ages \union {Absent}]
        /\ watchdog = IdleWatchdog => watchdog' = IdleWatchdog
    BY <1>11, NextAgeType, IdleStaysIdle DEF ClockAdvances
  <2>3. heartbeat' \in Heartbeats
    <3>1. PICK detail \in {heartbeat.detail, "stalled"} :
             heartbeat' = [heartbeat EXCEPT !.age = NextAge(@), !.data = NextAge(@),
                                            !.miss = NextAge(@), !.detail = detail]
      BY <1>11 DEF ClockAdvances
    <3>2. detail \in Details
      BY <3>1 DEF Heartbeats, Details
    <3>3. /\ NextAge(heartbeat.age) \in Ages \union {Absent}
          /\ NextAge(heartbeat.data) \in Ages \union {Absent}
          /\ NextAge(heartbeat.miss) \in Ages \union {Absent}
      BY NextAgeType DEF Heartbeats
    <3> QED
      BY <3>1, <3>2, <3>3 DEF Heartbeats
  <2>4. marker' \in Ages \union {Absent}
    BY <1>11, NextAgeType DEF ClockAdvances
  <2>5. /\ restarts' \in SUBSET (0..RestartWindow) /\ kills' \in SUBSET (0..KillWindow)
        /\ counted' \in [restarts : SUBSET (0..RestartWindow),
                         kills    : SUBSET (0..KillWindow)]
    BY <1>11, AgedType DEF ClockAdvances
  <2> QED
    BY <1>11, <2>1, <2>2, <2>3, <2>4, <2>5 DEF ClockAdvances
<1>12. CASE UNCHANGED vars
  BY <1>12 DEF vars
<1> QED
  BY <1>1, <1>2, <1>3, <1>4, <1>5, <1>6, <1>7, <1>8, <1>9, <1>10, <1>11, <1>12 DEF Next

\* The supervision is type-correct, and an ended process leaves nothing behind.
THEOREM SupervisionTypeCorrect == Spec => [](Typed /\ TypeOK)
<1>1. Typed => TypeOK
  BY DEF Typed
<1> QED
  BY <1>1, InitTyped, StepTyped, PTL DEF Spec
-----------------------------------------------------------------------------
(***************************************************************************)
(* The bound.  The limits read the histories on disk, the bound is about   *)
(* the events: it holds because the events since the last loss are among   *)
(* the recorded ones.                                                      *)
(***************************************************************************)
CountedIsRecorded ==
    /\ counted.restarts \subseteq restarts
    /\ counted.kills \subseteq kills

Bounded ==
    /\ Cardinality(restarts) <= MaxRestarts
    /\ Cardinality(kills) <= MaxKills

BoundInv == Typed /\ CountedIsRecorded /\ Bounded

LEMMA StepBounded ==
    ASSUME BoundInv, [Next]_vars
    PROVE  BoundInv'
<1> USE SupervisionAssumption DEF BoundInv, CountedIsRecorded, Bounded
<1>1. Typed'
  BY StepTyped
<1>2. /\ restarts \in SUBSET (0..RestartWindow) /\ kills \in SUBSET (0..KillWindow)
      /\ counted \in [restarts : SUBSET (0..RestartWindow), kills : SUBSET (0..KillWindow)]
  BY DEF Typed, TypeOK
<1>3. Cardinality({}) = 0
  BY FS_EmptySet
<1>4. CASE RequestRestart
  <2>1. Cardinality(restarts') <= MaxRestarts
    BY <1>2, <1>4, RecordBounded DEF RequestRestart, RestartDue, BreakerOpen
  <2>2. counted' = [counted EXCEPT !.restarts = counted.restarts \union {0}]
    BY <1>4 DEF RequestRestart
  <2> QED
    BY <1>1, <1>2, <1>4, <2>1, <2>2 DEF RequestRestart
<1>5. CASE RequestUnrecorded \/ DieRecording
  BY <1>1, <1>2, <1>3, <1>5 DEF RequestUnrecorded, DieRecording
<1>6. CASE Kill
  <2>1. CASE /\ kills' = kills \union {0}
             /\ counted' = [counted EXCEPT !.kills = @ \union {0}]
    <3>1. Cardinality(kills') <= MaxKills
      BY <1>2, <1>6, <2>1, RecordBounded DEF Kill
    <3> QED
      BY <1>1, <1>2, <1>6, <2>1, <3>1 DEF Kill
  <2>2. CASE kills' \in {kills, {}} /\ counted' = [counted EXCEPT !.kills = {}]
    BY <1>1, <1>2, <1>3, <1>6, <2>2 DEF Kill
  <2> QED
    BY <1>6, <2>1, <2>2 DEF Kill
<1>7. CASE ClockAdvances
  <2>1. /\ Cardinality(restarts') <= Cardinality(restarts)
        /\ Cardinality(kills') <= Cardinality(kills)
    BY <1>2, <1>7, AgedBounded DEF ClockAdvances
  <2>2. /\ Cardinality(restarts) \in Nat /\ Cardinality(kills) \in Nat
        /\ Cardinality(restarts') \in Nat /\ Cardinality(kills') \in Nat
    BY <1>1, <1>2, RecordBounded DEF Typed, TypeOK
  <2>3. CountedIsRecorded'
    BY <1>2, <1>7 DEF ClockAdvances, Aged
  <2> QED
    BY <1>1, <2>1, <2>2, <2>3
<1>8. CASE Poll
  BY <1>1, <1>8 DEF Poll, HistoryWhenSuppressed
<1>9. CASE UNCHANGED <<restarts, kills, counted>>
  BY <1>1, <1>9
<1> QED
  BY <1>4, <1>5, <1>6, <1>7, <1>8, <1>9
     DEF Next, Restart, Spawn, WriteMarker, WriteStarting, WriteHeartbeat, Wedge, Crash,
         StopCompletes, FeedChanges, vars

\* Restarts and kills that were recorded never exceed their limits in a window,
\* whatever crashes, wedges, starves or fails to be written.
THEOREM NoRestartLoop == Spec => []RestartsAreBounded
<1>1. Init => BoundInv
  BY InitTyped, FS_EmptySet, SupervisionAssumption
     DEF Init, BoundInv, CountedIsRecorded, Bounded
<1>2. BoundInv => RestartsAreBounded
  <2> SUFFICES ASSUME BoundInv PROVE RestartsAreBounded
    OBVIOUS
  <2>1. IsFiniteSet(restarts) /\ IsFiniteSet(kills)
    BY HistoryFinite, SupervisionAssumption DEF BoundInv, Typed, TypeOK
  <2>2. /\ Cardinality(counted.restarts) <= Cardinality(restarts)
        /\ Cardinality(counted.kills) <= Cardinality(kills)
        /\ Cardinality(restarts) \in Nat /\ Cardinality(kills) \in Nat
        /\ Cardinality(counted.restarts) \in Nat /\ Cardinality(counted.kills) \in Nat
    BY <2>1, FS_Subset, FS_CardinalityType DEF BoundInv, CountedIsRecorded
  <2> QED
    BY <2>2, SupervisionAssumption DEF RestartsAreBounded, BoundInv, Bounded
<1> QED
  BY <1>1, <1>2, StepBounded, PTL DEF Spec
-----------------------------------------------------------------------------
(***************************************************************************)
(* A fresh boot.  Once the first heartbeat is written, all that the gate   *)
(* and the supervisor look at is of this boot, hence no older than it.     *)
(***************************************************************************)
Begun == app.stage \in {"running", "stopping"}

EvidenceIsOwn ==
    /\ Begun => heartbeat.owner = "current" /\ marker # Absent
    /\ app.stage \in {"spawned", "preparing"} => heartbeat.owner # "current"
    /\ Begun => /\ heartbeat.age <= app.age /\ heartbeat.data <= app.age
                /\ heartbeat.miss <= app.age /\ watchdog.fleet <= app.age
    /\ Begun \/ app.stage = "preparing" => marker # Absent /\ marker <= app.age
    /\ ~Begun => watchdog = IdleWatchdog

FreshInv == Typed /\ EvidenceIsOwn

LEMMA StepFresh ==
    ASSUME FreshInv, [Next]_vars, FailingWrites = {}
    PROVE  FreshInv'
<1> USE DEF FreshInv, EvidenceIsOwn, Begun
<1>1. Typed'
  BY StepTyped
<1>2. /\ app \in [stage : Stages, age : Ages, wedged : BOOLEAN]
      /\ heartbeat \in Heartbeats /\ marker \in Ages \union {Absent}
      /\ watchdog \in [requested : BOOLEAN, fleet : Ages \union {Absent}]
      /\ app.stage = "down" => app = NoProcess
  BY DEF Typed, TypeOK
<1>3. ASSUME Ended PROVE EvidenceIsOwn'
  BY <1>3 DEF Ended, NoProcess
<1>4. CASE Spawn
  <2>1. heartbeat'.owner # "current" /\ app'.stage = "spawned" /\ watchdog' = watchdog
    BY <1>2, <1>4 DEF Spawn, NoProcess, Heartbeats
  <2> QED
    BY <1>1, <1>2, <1>4, <2>1 DEF Spawn
<1>5. CASE WriteMarker
  <2>1. marker' = 0 /\ app' = [app EXCEPT !.stage = "preparing"]
    BY <1>5 DEF WriteMarker, Outcomes
  <2> QED
    BY <1>1, <1>2, <1>5, <2>1 DEF WriteMarker, Ages, Absent
<1>6. CASE WriteStarting
  <2>1. heartbeat' = StartingHeartbeat /\ app' = [app EXCEPT !.stage = "running"]
    BY <1>6 DEF WriteStarting, Outcomes
  <2>2. watchdog' = IdleWatchdog /\ marker' = marker /\ app'.age = app.age /\ app.age \in Ages
    BY <1>2, <1>6, <2>1 DEF WriteStarting
  <2>3. heartbeat'.age <= app'.age /\ heartbeat'.data <= app'.age /\ heartbeat'.miss <= app'.age
        /\ watchdog'.fleet <= app'.age
    BY <2>1, <2>2 DEF StartingHeartbeat, IdleWatchdog, Ages, Absent
  <2> QED
    BY <1>1, <1>2, <1>6, <2>1, <2>2, <2>3 DEF WriteStarting, StartingHeartbeat
<1>7. CASE WriteHeartbeat
  <2>1. /\ heartbeat'.age = 0 /\ heartbeat'.owner = "current"
        /\ heartbeat'.data \in {0, heartbeat.data}
        /\ heartbeat'.miss \in {Absent, 0} \union 0..heartbeat.miss
    BY <1>7 DEF WriteHeartbeat
  <2>2. /\ app.age \in Ages /\ heartbeat.miss \in Ages \union {Absent}
        /\ heartbeat.data <= app.age /\ heartbeat.miss <= app.age /\ Begun
    BY <1>2, <1>7 DEF WriteHeartbeat, Heartbeats
  <2>3. heartbeat'.age <= app.age /\ heartbeat'.data <= app.age /\ heartbeat'.miss <= app.age
    BY <2>1, <2>2 DEF Ages, Absent
  <2> QED
    BY <1>1, <1>7, <2>1, <2>2, <2>3 DEF WriteHeartbeat
<1>8. CASE Wedge
  BY <1>1, <1>2, <1>8 DEF Wedge
<1>9. CASE Crash \/ StopCompletes \/ DieRecording \/ Kill
  BY <1>1, <1>3, <1>9 DEF Crash, StopCompletes, DieRecording, Kill
<1>10. CASE Poll
  <2>1. watchdog'.fleet \in {Absent, 0, watchdog.fleet} /\ app.stage = "running"
    BY <1>2, <1>10 DEF Poll, Gate, FleetClock
  <2> QED
    BY <1>1, <1>2, <1>10, <2>1 DEF Poll, Ages, Absent
<1>11. CASE RequestRestart \/ RequestUnrecorded
  <2>1. /\ app' = [app EXCEPT !.stage = "stopping"] /\ app.stage = "running"
        /\ watchdog' = [watchdog EXCEPT !.requested = TRUE]
        /\ UNCHANGED <<heartbeat, marker>>
    BY <1>11 DEF RequestRestart, RequestUnrecorded, Requested, RestartDue, Gate
  <2> QED
    BY <1>1, <1>2, <2>1
<1>12. CASE FeedChanges \/ UNCHANGED vars
  BY <1>1, <1>12 DEF FeedChanges, vars
<1>13. CASE ClockAdvances
  <2>1. /\ app'.stage = app.stage /\ heartbeat'.owner = heartbeat.owner
        /\ ~Begun => watchdog' = IdleWatchdog
    BY <1>2, <1>13, IdleStaysIdle DEF ClockAdvances, Heartbeats
  <2>2. /\ heartbeat'.age = NextAge(heartbeat.age)
        /\ heartbeat'.data = NextAge(heartbeat.data)
        /\ heartbeat'.miss = NextAge(heartbeat.miss)
        /\ watchdog'.fleet = NextAge(watchdog.fleet)
        /\ marker' = NextAge(marker)
        /\ app.stage # "down" => app'.age = NextAge(app.age)
    BY <1>2, <1>13 DEF ClockAdvances, Heartbeats
  <2>3. marker # Absent => marker' # Absent
    BY <1>2, <2>2 DEF NextAge, Ages, Absent
  <2>4. CASE Begun
    <3>1. /\ heartbeat'.age <= app'.age /\ heartbeat'.data <= app'.age
          /\ heartbeat'.miss <= app'.age /\ watchdog'.fleet <= app'.age
          /\ marker' <= app'.age
      BY <1>2, <2>2, <2>4, NextAgeMonotone DEF Heartbeats
    <3> QED
      BY <1>1, <2>1, <2>3, <2>4, <3>1
  <2>5. CASE app.stage = "preparing"
    <3>1. marker' <= app'.age
      BY <1>2, <2>2, <2>5, NextAgeMonotone
    <3> QED
      BY <1>1, <2>1, <2>3, <2>5, <3>1
  <2>6. CASE app.stage \in {"down", "spawned"}
    BY <1>1, <2>1, <2>6
  <2> QED
    BY <1>2, <2>4, <2>5, <2>6 DEF Stages
<1> QED
  BY <1>4, <1>5, <1>6, <1>7, <1>8, <1>9, <1>10, <1>11, <1>12, <1>13 DEF Next, Restart

\* The gate finds a fresh boot nothing to answer for.
LEMMA RestartIsLate ==
    ASSUME FreshInv, Restart
    PROVE  app.age > CriticalDown
<1>1. /\ app.stage = "running"
      /\ Starved \/ Misses \/ FleetNeverReady
  BY DEF Restart, RequestRestart, RequestUnrecorded, DieRecording, RestartDue, Gate
<1>2. /\ heartbeat.data <= app.age /\ heartbeat.miss <= app.age
      /\ watchdog.fleet <= app.age /\ marker <= app.age
  BY <1>1 DEF FreshInv, EvidenceIsOwn, Begun
<1>3. /\ heartbeat.data \in Int /\ heartbeat.miss \in Int /\ watchdog.fleet \in Int
      /\ marker \in Int /\ app.age \in Int /\ CriticalDown \in Int
  BY SupervisionAssumption DEF FreshInv, Typed, TypeOK, Heartbeats, Ages, Absent
<1> QED
  BY <1>1, <1>2, <1>3 DEF Starved, DataAge, Misses, FleetNeverReady

\* So does the supervisor.
LEMMA KillIsLate ==
    ASSUME FreshInv, Kill
    PROVE  app.age > BootGrace \/ app.age > KillAge
<1>1. CASE NeverCame
  BY <1>1 DEF NeverCame
<1>2. CASE Frozen
  <2>1. heartbeat.age <= app.age
    BY <1>2 DEF Frozen, Kill, FreshInv, EvidenceIsOwn, Begun, Typed, TypeOK, Stages
  <2>2. heartbeat.age \in Int /\ app.age \in Int /\ KillAge \in Int
    BY SupervisionAssumption DEF FreshInv, Typed, TypeOK, Heartbeats, Ages, Absent
  <2> QED
    BY <1>2, <2>1, <2>2 DEF Frozen
<1> QED
  BY <1>1, <1>2 DEF Kill

\* With any thresholds and any reuse of pids, a boot whose first writes succeed is
\* never restarted or killed before it had the time itself.
THEOREM BootsAreSpared ==
    ASSUME FailingWrites = {}
    PROVE  Spec => FreshBootIsSpared
<1>1. Init => FreshInv
  BY InitTyped DEF Init, FreshInv, EvidenceIsOwn, Begun, NoProcess
<1>2. FreshInv /\ [Next]_vars => FreshInv'
  BY StepFresh
<1>3. FreshInv /\ [Next]_vars
        => [/\ Restart => app.age > CriticalDown
            /\ Kill => app.age > BootGrace \/ app.age > KillAge]_vars
  BY RestartIsLate, KillIsLate
<1> QED
  BY <1>1, <1>2, <1>3, PTL DEF Spec, FreshBootIsSpared
-----------------------------------------------------------------------------
(***************************************************************************)
(* The breaker's window.  A boot is restarted after more than CriticalDown *)
(* only, so a window that is not longer never holds two restarts.          *)
(***************************************************************************)
OneInWindow ==
    /\ \E age \in 0..RestartWindow : restarts \subseteq {age}
    /\ app.stage \notin {"down", "stopping"} => \A age \in restarts : app.age <= age

LEMMA StepOneInWindow ==
    ASSUME FreshInv, OneInWindow, [Next]_vars, RestartWindow <= CriticalDown
    PROVE  OneInWindow'
<1> USE SupervisionAssumption DEF OneInWindow
<1>1. /\ app \in [stage : Stages, age : Ages, wedged : BOOLEAN]
      /\ restarts \subseteq 0..RestartWindow
      /\ app.stage = "down" => app = NoProcess
  BY DEF FreshInv, Typed, TypeOK
<1>2. CASE Spawn
  <2>1. app'.age = 0 /\ restarts' = restarts
    BY <1>2 DEF Spawn, NoProcess
  <2> QED
    BY <1>1, <2>1
<1>3. CASE WriteMarker \/ WriteStarting \/ WriteHeartbeat \/ Wedge
  <2>1. /\ restarts' = restarts /\ app'.age = app.age
        /\ app.stage \in {"down", "stopping"} => app'.stage = app.stage
    BY <1>1, <1>3 DEF WriteMarker, WriteStarting, WriteHeartbeat, Wedge
  <2> QED
    BY <2>1
<1>4. CASE Crash \/ StopCompletes \/ Kill
  <2>1. restarts' = restarts /\ app'.stage = "down"
    BY <1>4 DEF Crash, StopCompletes, Kill, Ended, NoProcess
  <2> QED
    BY <2>1
<1>5. CASE Poll \/ FeedChanges \/ UNCHANGED vars
  BY <1>5 DEF Poll, HistoryWhenSuppressed, FeedChanges, vars
<1>6. CASE Restart
  <2>1. restarts = {}
    <3>1. app.age > CriticalDown /\ app.stage = "running"
      BY <1>6, RestartIsLate
         DEF Restart, RequestRestart, RequestUnrecorded, DieRecording, RestartDue, Gate
    <3> SUFFICES ASSUME NEW age \in restarts PROVE FALSE
      OBVIOUS
    <3>2. app.age <= age /\ age <= RestartWindow /\ age \in Int /\ app.age \in Int
      BY <1>1, <3>1 DEF Ages
    <3> QED
      BY <3>1, <3>2
  <2>2. restarts' \subseteq {0} /\ app'.stage \in {"down", "stopping"}
    BY <1>1, <1>6, <2>1
       DEF Restart, RequestRestart, RequestUnrecorded, DieRecording, Requested, Ended, NoProcess
  <2> QED
    BY <2>2
<1>7. CASE ClockAdvances
  <2>1. PICK old \in 0..RestartWindow : restarts \subseteq {old}
    OBVIOUS
  <2>2. restarts' \subseteq {old + 1} /\ restarts' \subseteq 0..RestartWindow
    BY <1>1, <1>7, <2>1 DEF ClockAdvances, Aged
  <2>3. \E age \in 0..RestartWindow : restarts' \subseteq {age}
    <3>1. CASE restarts' = {}
      BY <3>1
    <3>2. CASE restarts' # {}
      BY <2>2, <3>2
    <3> QED
      BY <3>1, <3>2
  <2>4. /\ app'.stage = app.stage
        /\ app.stage # "down" => app'.age = NextAge(app.age)
    BY <1>1, <1>7 DEF ClockAdvances
  <2>5. ASSUME app.stage \notin {"down", "stopping"}, NEW age \in restarts'
        PROVE  app'.age <= age
    <3>1. PICK before \in restarts : age = before + 1
      BY <1>7, <2>5 DEF ClockAdvances, Aged
    <3>2. app.age <= before /\ before \in Int /\ app.age \in Ages
      BY <1>1, <2>5, <3>1
    <3> QED
      BY <2>4, <2>5, <3>1, <3>2 DEF NextAge, Ages, Absent
  <2> QED
    BY <2>3, <2>4, <2>5
<1> QED
  BY <1>2, <1>3, <1>4, <1>5, <1>6, <1>7 DEF Next

\* With a window no longer than critical_down_sec, as in config/signal_bot.yaml, and
\* a limit of more than one, the breaker never opens: it does not bound restarts.
THEOREM NarrowWindowNeverTrips ==
    ASSUME FailingWrites = {}, RestartWindow <= CriticalDown, MaxRestarts > 1
    PROVE  Spec => []~BreakerOpen
<1>1. Init => FreshInv /\ OneInWindow
  BY InitTyped, SupervisionAssumption
     DEF Init, FreshInv, EvidenceIsOwn, Begun, NoProcess, OneInWindow
<1>2. FreshInv /\ OneInWindow /\ [Next]_vars => (FreshInv /\ OneInWindow)'
  BY StepFresh, StepOneInWindow
<1>3. OneInWindow => ~BreakerOpen
  <2> SUFFICES ASSUME OneInWindow PROVE ~BreakerOpen
    OBVIOUS
  <2>1. PICK age \in 0..RestartWindow : restarts \subseteq {age}
    BY DEF OneInWindow
  <2>2. IsFiniteSet({age}) /\ Cardinality({age}) = 1
    BY FS_Singleton
  <2>3. Cardinality(restarts) \in Nat /\ Cardinality(restarts) <= 1
    BY <2>1, <2>2, FS_Subset, FS_CardinalityType
  <2> QED
    BY <2>3, SupervisionAssumption DEF BreakerOpen
<1> QED
  BY <1>1, <1>2, <1>3, PTL DEF Spec

-----------------------------------------------------------------------------
(* HealthAlerts.                                                           *)


\* A thread that lives is the one the handle names.
HandlesKept ==
    /\ \A t \in Threads : poller[t].stage # "none" => watch.thread = t
    /\ \A t \in Threads : worker[t].stage # "none" => dispatcher.thread = t

\* A poll that submits has a notice to submit.
NoticesCarried ==
    \A t \in Threads :
        poller[t].stage \in {"submit", "put"} => poller[t].decision.message # None

AlertsInv == AlertsTypeOK /\ HandlesKept /\ NoticesCarried

\* A new thread has an identity that no living thread has.
LEMMA CreatedIsFree ==
    ASSUME NEW threads, Free(threads) # {}
    PROVE  Created(threads) \in Threads /\ threads[Created(threads)].stage = "none"
<1>1. Created(threads) \in Free(threads)
  BY DEF Created
<1> QED
  BY <1>1 DEF Free

\* A decision is a state and a notice.
LEMMA DecideType ==
    ASSUME NEW previous \in States, NEW health, NEW text \in Alerts
    PROVE  Decide(previous, health, text) \in Decisions
<1> DEFINE since    == IF previous.since = NoSince THEN 0 ELSE previous.since
           failures == AtMost(previous.failures + 1, MinFailures)
           seen     == [since |-> since, failures |-> failures,
                        notified |-> previous.notified]
<1>1. since \in NoSince..MinUnhealthy /\ failures \in 0..MinFailures
  BY AlertsAssumption DEF States, NoSince, AtMost
<1> HIDE DEF since, failures
<1>2. /\ seen \in States
      /\ [seen EXCEPT !.notified = TRUE] \in States
  BY <1>1 DEF States
<1>3. Fresh \in States
  BY AlertsAssumption DEF Fresh, States, NoSince
<1>4. /\ [state |-> seen, message |-> None] \in Decisions
      /\ [state |-> [seen EXCEPT !.notified = TRUE], message |-> text] \in Decisions
      /\ \A m \in {Recovered, None} : [state |-> Fresh, message |-> m] \in Decisions
  BY <1>2, <1>3 DEF Decisions, Messages
<1> QED
  BY <1>4 DEF Decide, seen, since, failures

\* The ages of an episode stay in their range.
LEMMA OlderType ==
    ASSUME NEW since \in NoSince..MinUnhealthy
    PROVE  Older(since) \in NoSince..MinUnhealthy
BY AlertsAssumption DEF Older, AtMost, NoSince

\* What an action writes has its type.
LEMMA NoThreadTypes ==
    /\ NoDecision \in Decisions
    /\ NoPoller \in Pollers
    /\ NoWorker \in Workers
    /\ Fresh \in States
<1>1. Fresh \in States
  BY AlertsAssumption DEF Fresh, States, NoSince
<1> QED
  BY <1>1 DEF NoDecision, Decisions, NoPoller, Pollers, NoWorker, Workers
-----------------------------------------------------------------------------
\* The main thread: a start creates a thread only when none lives.
LEMMA MainInductive ==
    ASSUME AlertsInv, MainSteps
    PROVE  AlertsInv'
<1> USE AlertsAssumption DEF AlertsInv, AlertsTypeOK, HandlesKept, NoticesCarried
<1>1. CASE Start
  <2>1. /\ \A t \in Threads : poller[t].stage = "none"
        /\ Free(poller) # {}
    BY <1>1 DEF Start, Alive
  <2>2. PICK p \in Threads :
          /\ poller[p].stage = "none"
          /\ poller' = [poller EXCEPT ![p].stage = "wait"]
          /\ watch' = [watch EXCEPT !.stop = FALSE, !.thread = p]
    BY <1>1, CreatedIsFree DEF Start
  <2>3. /\ poller' \in [Threads -> Pollers]
        /\ watch' \in [thread : Threads \union {None}, stop : BOOLEAN]
        /\ \A t \in Threads : poller'[t].stage # "none" => watch'.thread = t
    BY <2>1, <2>2 DEF Pollers
  <2>4. /\ worker' \in [Threads -> Workers]
        /\ dispatcher' \in [thread : Threads \union {None}, stop : BOOLEAN,
                            inflight : Messages \union {None}]
        /\ \A t \in Threads : worker'[t].stage # "none" => dispatcher'.thread = t
    <3>1. StartWorker
      BY <1>1 DEF Start
    <3>2. CASE UNCHANGED <<worker, dispatcher>>
      BY <3>2
    <3>3. CASE ~Alive(worker, dispatcher.thread) /\ RunWorker
      <4>1. \A t \in Threads : worker[t].stage = "none"
        BY <3>3 DEF Alive
      <4>2. PICK w \in Threads :
              /\ worker' = [worker EXCEPT ![w].stage = "loop"]
              /\ dispatcher' = [dispatcher EXCEPT !.stop = FALSE, !.thread = w]
        BY <3>3, CreatedIsFree DEF RunWorker
      <4> QED
        BY <4>1, <4>2 DEF Workers
    <3> QED
      BY <3>1, <3>2, <3>3 DEF StartWorker
  <2> QED
    BY <1>1, <2>3, <2>4 DEF Start
<1>2. CASE Stop
  BY <1>2 DEF Stop
<1>3. CASE JoinPoller
  BY <1>3 DEF JoinPoller, Alive
<1>4. CASE JoinWorker
  BY <1>4 DEF JoinWorker, Alive
<1> QED
  BY <1>1, <1>2, <1>3, <1>4 DEF MainSteps

\* A poll ends with its thread waiting.
LEMMA PollIsOverType ==
    ASSUME AlertsInv, NEW t \in Threads, poller[t].stage # "none", PollIsOver(t)
    PROVE  /\ poller' \in [Threads -> Pollers]
           /\ \A u \in Threads : poller'[u].stage # "none" => watch.thread = u
           /\ NoticesCarried'
BY NoThreadTypes DEF AlertsInv, AlertsTypeOK, HandlesKept, NoticesCarried, PollIsOver, Pollers,
                     NoPoller

\* The watchdog's thread creates no thread, and its decisions are typed.
LEMMA PollerInductive ==
    ASSUME AlertsInv, NEW t \in Threads, PollerSteps(t)
    PROVE  AlertsInv'
<1> USE AlertsAssumption DEF AlertsInv, AlertsTypeOK, HandlesKept, NoticesCarried
<1>0. poller[t].stage = "submit" \/ poller[t].stage = "put"
        => /\ poller[t].decision.state \in States
           /\ poller[t].decision.message \in Messages
  BY DEF Pollers, Decisions
<1>1. CASE PollerExits(t)
  BY <1>1, NoThreadTypes DEF PollerExits, NoPoller
<1>2. CASE PollOnce(t)
  <2>1. PICK text \in Alerts :
          LET d == Decide(state, runtime, text) IN
          IF d.message = None
          THEN state' = d.state /\ UNCHANGED poller
          ELSE /\ poller' = [poller EXCEPT ![t].stage = "submit", ![t].decision = d]
               /\ UNCHANGED state
    BY <1>2 DEF PollOnce
  <2> DEFINE d == Decide(state, runtime, text)
  <2>2. d \in Decisions
    BY DecideType
  <2> HIDE DEF d
  <2>3. CASE d.message = None
    <3>1. state' \in States /\ UNCHANGED poller
      BY <2>1, <2>2, <2>3 DEF d, Decisions
    <3> QED
      BY <1>2, <3>1 DEF PollOnce
  <2>4. CASE d.message # None
    <3>1. /\ poller' = [poller EXCEPT ![t].stage = "submit", ![t].decision = d]
          /\ UNCHANGED state
      BY <2>1, <2>4 DEF d
    <3>2. /\ poller' \in [Threads -> Pollers]
          /\ \A u \in Threads : poller'[u].stage # "none" => watch.thread = u
          /\ NoticesCarried'
      BY <1>2, <2>2, <2>4, <3>1 DEF PollOnce, Pollers
    <3> QED
      BY <1>2, <3>1, <3>2 DEF PollOnce
  <2> QED
    BY <2>3, <2>4
<1>3. CASE SubmitDeduplicates(t)
  BY <1>0, <1>3, PollIsOverType DEF SubmitDeduplicates
<1>4. CASE SubmitChecks(t)
  BY <1>4 DEF SubmitChecks, Pollers
<1>5. CASE SubmitPuts(t)
  <2>1. /\ poller[t].decision.state \in States
        /\ RejectedState(poller[t].decision) \in States
    BY <1>0, <1>5 DEF SubmitPuts, RejectedState, States
  <2>2. queue' \in Seq(Messages) /\ Len(queue') <= QueueSize
    <3>1. poller[t].decision.message \in Messages
      BY <1>0, <1>5 DEF SubmitPuts
    <3> QED
      BY <1>5, <3>1 DEF SubmitPuts, HasRoom
  <2> QED
    BY <1>5, <2>1, <2>2, PollIsOverType DEF SubmitPuts
<1> QED
  BY <1>1, <1>2, <1>3, <1>4, <1>5 DEF PollerSteps

\* The dispatcher's thread creates no thread either.
LEMMA WorkerInductive ==
    ASSUME AlertsInv, NEW t \in Threads, WorkerSteps(t) \/ SendFails(t)
    PROVE  AlertsInv'
<1> USE AlertsAssumption DEF AlertsInv, AlertsTypeOK, HandlesKept, NoticesCarried
<1>1. worker[t].message \in Messages \union {None}
  BY DEF Workers
<1>2. CASE WorkerLoops(t)
  BY <1>2 DEF WorkerLoops, Workers
<1>3. CASE WorkerFindsNothing(t)
  BY <1>3 DEF WorkerFindsNothing, Workers
<1>4. CASE WorkerGets(t)
  <2>1. /\ Head(queue) \in Messages
        /\ Tail(queue) \in Seq(Messages)
        /\ Len(Tail(queue)) <= QueueSize
    BY <1>4 DEF WorkerGets
  <2> QED
    BY <1>4, <2>1 DEF WorkerGets, Workers
<1>5. CASE WorkerMarks(t)
  BY <1>1, <1>5 DEF WorkerMarks, Workers
<1>6. CASE WorkerTries(t)
  BY <1>6 DEF WorkerTries, Workers
<1>7. CASE WorkerSends(t)
  BY <1>1, <1>7 DEF WorkerSends, Workers
<1>8. CASE WorkerClears(t)
  BY <1>8, NoThreadTypes DEF WorkerClears, Workers, NoWorker
<1>9. CASE SendFails(t)
  BY <1>1, <1>9 DEF SendFails, Workers
<1> QED
  BY <1>2, <1>3, <1>4, <1>5, <1>6, <1>7, <1>8, <1>9 DEF WorkerSteps

\* The clock ages the episode in a decision that a poll carries, and no more.
LEMMA ClockKeepsDecisions ==
    ASSUME AlertsInv, TimePasses
    PROVE  /\ poller' \in [Threads -> Pollers]
           /\ \A t \in Threads :
                /\ poller'[t].stage = poller[t].stage
                /\ poller'[t].decision.message = poller[t].decision.message
                /\ poller'[t].decision.state.notified = poller[t].decision.state.notified
<1>1. ASSUME NEW p \in Pollers
      PROVE  /\ [p EXCEPT !.decision.state.since = Older(@)] \in Pollers
             /\ [p EXCEPT !.decision.state.since = Older(@)].stage = p.stage
             /\ [p EXCEPT !.decision.state.since = Older(@)].decision.message
                  = p.decision.message
             /\ [p EXCEPT !.decision.state.since = Older(@)].decision.state.notified
                  = p.decision.state.notified
  <2>1. p.decision.state \in States /\ Older(p.decision.state.since) \in NoSince..MinUnhealthy
    BY OlderType DEF Pollers, Decisions, States
  <2> DEFINE older == [p.decision.state EXCEPT !.since = Older(p.decision.state.since)]
  <2>2. older \in States /\ older.notified = p.decision.state.notified
    BY <2>1 DEF States
  <2> HIDE DEF older
  <2>3. [p.decision EXCEPT !.state = older] \in Decisions
    BY <2>2 DEF Pollers, Decisions
  <2>4. [p EXCEPT !.decision.state.since = Older(@)]
          = [p EXCEPT !.decision = [p.decision EXCEPT !.state = older]]
    BY DEF Pollers, Decisions, States, older
  <2>5. [p EXCEPT !.decision = [p.decision EXCEPT !.state = older]]
          = [stage |-> p.stage,
             decision |-> [state |-> older, message |-> p.decision.message]]
    BY DEF Pollers, Decisions
  <2> QED
    BY <2>2, <2>4, <2>5 DEF Pollers, Decisions
<1> QED
  BY <1>1 DEF TimePasses, AlertsInv, AlertsTypeOK

LEMMA ClockInductive ==
    ASSUME AlertsInv, TimePasses
    PROVE  AlertsInv'
<1> USE AlertsAssumption DEF AlertsInv, AlertsTypeOK, HandlesKept, NoticesCarried
<1>1. state' \in States
  BY OlderType DEF TimePasses, States
<1>2. /\ poller' \in [Threads -> Pollers]
      /\ \A t \in Threads : /\ poller'[t].stage = poller[t].stage
                            /\ poller'[t].decision.message = poller[t].decision.message
  BY ClockKeepsDecisions
<1>3. UNCHANGED <<runtime, worker, watch, dispatcher, queue, control, told,
                  deduplicated, interrupted, failedSends>>
  BY DEF TimePasses
<1> QED
  BY <1>1, <1>2, <1>3

\* The first state and every step keep AlertsInv.
LEMMA AlertsBegin == AlertsInit => AlertsInv
<1> SUFFICES ASSUME AlertsInit PROVE AlertsInv
  OBVIOUS
<1>1. /\ queue \in Seq(Messages) /\ Len(queue) <= QueueSize
      /\ failedSends \in 0..MaxFailedSends
  BY AlertsAssumption DEF AlertsInit
<1>2. /\ poller \in [Threads -> Pollers] /\ worker \in [Threads -> Workers]
      /\ state \in States
  BY NoThreadTypes DEF AlertsInit
<1> QED
  BY <1>1, <1>2
     DEF AlertsInit, AlertsInv, AlertsTypeOK, HandlesKept, NoticesCarried, NoPoller, NoWorker

LEMMA AlertsStep == AlertsInv /\ [AlertsNext]_alertVars => AlertsInv'
<1> SUFFICES ASSUME AlertsInv, [AlertsNext]_alertVars PROVE AlertsInv'
  OBVIOUS
<1>1. CASE MainSteps
  BY <1>1, MainInductive
<1>2. CASE RuntimeChanges
  BY <1>2 DEF RuntimeChanges, AlertsInv, AlertsTypeOK, HandlesKept, NoticesCarried
<1>3. CASE TimePasses
  BY <1>3, ClockInductive
<1>4. ASSUME NEW t \in Threads, PollerSteps(t) \/ WorkerSteps(t) \/ SendFails(t)
      PROVE  AlertsInv'
  BY <1>4, PollerInductive, WorkerInductive
<1>5. CASE UNCHANGED alertVars
  BY <1>5 DEF alertVars, AlertsInv, AlertsTypeOK, HandlesKept, NoticesCarried
<1> QED
  BY <1>1, <1>2, <1>3, <1>4, <1>5 DEF AlertsNext

\* AlertsInv holds in every reachable state.
THEOREM AlertsInductive == AlertsSpec => []AlertsInv
BY AlertsBegin, AlertsStep, PTL DEF AlertsSpec

\* The threads, the episode and the queue have their types, and the queue never
\* holds more than send_queue_size notices.
THEOREM AlertsTypeCorrect == AlertsSpec => []AlertsTypeOK
BY AlertsInductive, PTL DEF AlertsInv

\* Starts and stops in any order never leave two pollers or two workers.
THEOREM ThreadsAreSingle == AlertsSpec => []OneThreadEach
<1>1. AlertsInv => OneThreadEach
  BY DEF AlertsInv, HandlesKept, OneThreadEach
<1> QED
  BY <1>1, AlertsInductive, PTL
-----------------------------------------------------------------------------
(***************************************************************************)
(* Delivery.  NoticesAreDelivered speaks of a quiet system; on the way     *)
(* there the last notice is in the queue, or else with the worker, or else *)
(* with the operator, and it is that one which must say what the watchdog  *)
(* believes.                                                               *)
(***************************************************************************)
Carries(t) == worker[t].stage \in {"mark", "retry", "sending"}

LastNotice ==
    IF queue # <<>> THEN queue[Len(queue)]
    ELSE IF \E t \in Threads : Carries(t) THEN worker[dispatcher.thread].message
    ELSE told

\* What a poll submits says what its state will say.
DecisionsAgree ==
    \A t \in Threads : poller[t].stage \in {"submit", "put"} =>
        (poller[t].decision.message \in Alerts <=> poller[t].decision.state.notified)

LastNoticeAgrees ==
    ~interrupted /\ ~deduplicated => (LastNotice \in Alerts <=> state.notified)

DeliveryInv == AlertsInv /\ DecisionsAgree /\ LastNoticeAgrees

\* A decision without a notice changes nothing that was said, and one with a
\* notice says what its state says.
LEMMA DecideAgrees ==
    ASSUME NEW previous \in States, NEW health, NEW text \in Alerts,
           NEW d, d = Decide(previous, health, text)
    PROVE  /\ d.message = None => d.state.notified = previous.notified
           /\ d.message # None => (d.message \in Alerts <=> d.state.notified)
<1> DEFINE since    == IF previous.since = NoSince THEN 0 ELSE previous.since
           failures == AtMost(previous.failures + 1, MinFailures)
           seen     == [since |-> since, failures |-> failures,
                        notified |-> previous.notified]
<1>1. /\ seen.notified = previous.notified
      /\ [seen EXCEPT !.notified = TRUE].notified = TRUE
      /\ Fresh.notified = FALSE
      /\ previous.notified \in BOOLEAN
  BY DEF Fresh, States
<1>2. \/ /\ d = [state |-> Fresh,
                message |-> IF previous.notified THEN Recovered ELSE None]
      \/ d = [state |-> [seen EXCEPT !.notified = TRUE], message |-> text]
      \/ d = [state |-> seen, message |-> None]
  BY DEF Decide, seen, since, failures
<1> HIDE DEF seen
<1>3. CASE d = [state |-> Fresh,
                message |-> IF previous.notified THEN Recovered ELSE None]
  <2>1. d.state.notified = FALSE /\ d.message \in {Recovered, None}
    BY <1>1, <1>3
  <2>2. d.message = None => previous.notified = FALSE
    BY <1>1, <1>3 DEF None, Recovered
  <2> QED
    BY <2>1, <2>2, AlertsAssumption
<1>4. CASE d = [state |-> [seen EXCEPT !.notified = TRUE], message |-> text]
  <2>1. d.state = [seen EXCEPT !.notified = TRUE] /\ d.message = text
    BY <1>4
  <2>2. d.state.notified = TRUE
    BY <1>1, <2>1
  <2> QED
    BY <2>1, <2>2, AlertsAssumption
<1>5. CASE d = [state |-> seen, message |-> None]
  BY <1>1, <1>5
<1> QED
  BY <1>2, <1>3, <1>4, <1>5

\* Where the notice, the decisions and what was said stay, so does the delivery.
LEMMA DeliveryKept ==
    ASSUME DeliveryInv, AlertsInv',
           LastNotice' = LastNotice, state'.notified = state.notified,
           interrupted => interrupted', deduplicated => deduplicated',
           DecisionsAgree'
    PROVE  DeliveryInv'
BY DEF DeliveryInv, LastNoticeAgrees

\* The main thread moves no notice: the worker it starts carries none.
LEMMA MainDelivers ==
    ASSUME DeliveryInv, MainSteps
    PROVE  DeliveryInv'
<1>1. AlertsInv /\ AlertsInv'
  BY MainInductive DEF DeliveryInv
<1>2. UNCHANGED <<queue, told, state, interrupted, deduplicated>>
  BY DEF MainSteps, Start, Stop, JoinPoller, JoinWorker
<1>3. DecisionsAgree'
  <2>1. CASE Start
    <3>1. PICK p \in Threads : poller' = [poller EXCEPT ![p].stage = "wait"]
      BY <2>1, CreatedIsFree DEF Start
    <3> QED
      BY <3>1, <1>1 DEF DeliveryInv, DecisionsAgree, AlertsInv, AlertsTypeOK, Pollers
  <2>2. CASE Stop \/ JoinPoller \/ JoinWorker
    BY <2>2 DEF Stop, JoinPoller, JoinWorker, DeliveryInv, DecisionsAgree
  <2> QED
    BY <2>1, <2>2 DEF MainSteps
<1>4. LastNotice' = LastNotice
  <2>1. CASE UNCHANGED worker /\ \A t \in Threads : Carries(t) =>
                dispatcher'.thread = dispatcher.thread
    BY <1>2, <2>1 DEF LastNotice, Carries
  <2>2. CASE /\ \A t \in Threads : worker[t].stage = "none"
             /\ \E w \in Threads : worker' = [worker EXCEPT ![w].stage = "loop"]
    <3>1. \A t \in Threads : ~Carries(t) /\ ~Carries(t)'
      BY <1>1, <2>2 DEF Carries, AlertsInv, AlertsTypeOK, Workers
    <3> QED
      BY <1>2, <3>1 DEF LastNotice
  <2>3. CASE Start
    <3>1. StartWorker
      BY <2>3 DEF Start
    <3>2. CASE UNCHANGED <<worker, dispatcher>>
      BY <2>1, <3>2
    <3>3. CASE ~Alive(worker, dispatcher.thread) /\ RunWorker
      <4>1. \A t \in Threads : worker[t].stage = "none"
        BY <1>1, <3>3, AlertsAssumption DEF Alive, AlertsInv, HandlesKept
      <4> QED
        BY <2>2, <3>3, <4>1, CreatedIsFree DEF RunWorker
    <3> QED
      BY <3>1, <3>2, <3>3 DEF StartWorker
  <2>4. CASE Stop
    BY <2>1, <2>4 DEF Stop
  <2>5. CASE JoinPoller
    BY <1>1, <2>1, <2>5 DEF JoinPoller, AlertsInv, AlertsTypeOK
  <2>6. CASE JoinWorker
    <3>1. ASSUME NEW t \in Threads, Carries(t)
          PROVE  dispatcher' = dispatcher
      BY <1>1, <2>6, <3>1, AlertsAssumption
         DEF JoinWorker, Alive, Carries, AlertsInv, HandlesKept
    <3> QED
      BY <2>1, <2>6, <3>1 DEF JoinWorker
  <2> QED
    BY <2>3, <2>4, <2>5, <2>6 DEF MainSteps
<1> QED
  BY <1>1, <1>2, <1>3, <1>4, DeliveryKept

\* A poll moves what was said and the last notice together.
LEMMA PollerDelivers ==
    ASSUME DeliveryInv, NEW t \in Threads, PollerSteps(t)
    PROVE  DeliveryInv'
<1>1. AlertsInv /\ AlertsInv'
  BY PollerInductive DEF DeliveryInv
<1>2. /\ poller \in [Threads -> Pollers] /\ state \in States
      /\ \A u \in Threads : poller[u] \in Pollers /\ poller[u].decision.state \in States
  BY <1>1 DEF AlertsInv, AlertsTypeOK, Pollers, Decisions
<1>3. UNCHANGED <<worker, dispatcher, told, interrupted>>
  BY DEF PollerSteps, PollerExits, PollOnce, SubmitDeduplicates, SubmitChecks, SubmitPuts
<1>4. ASSUME UNCHANGED queue PROVE LastNotice' = LastNotice
  BY <1>3, <1>4 DEF LastNotice, Carries
<1>5. ASSUME PollIsOver(t) PROVE DecisionsAgree'
  BY <1>2, <1>5 DEF PollIsOver, DeliveryInv, DecisionsAgree, NoPoller
<1>6. CASE PollerExits(t)
  <2>1. DecisionsAgree'
    BY <1>2, <1>6 DEF PollerExits, DeliveryInv, DecisionsAgree, NoPoller
  <2> QED
    BY <1>1, <1>4, <1>6, <2>1, DeliveryKept DEF PollerExits
<1>7. CASE PollOnce(t)
  <2>1. PICK text \in Alerts :
          LET d == Decide(state, runtime, text) IN
          IF d.message = None
          THEN state' = d.state /\ UNCHANGED poller
          ELSE /\ poller' = [poller EXCEPT ![t].stage = "submit", ![t].decision = d]
               /\ UNCHANGED state
    BY <1>7 DEF PollOnce
  <2> DEFINE d == Decide(state, runtime, text)
  <2>2. /\ d.message = None => d.state.notified = state.notified
        /\ d.message # None => (d.message \in Alerts <=> d.state.notified)
    BY <1>2, DecideAgrees
  <2> HIDE DEF d
  <2>3. CASE d.message = None
    <3>1. state'.notified = state.notified /\ UNCHANGED poller
      BY <2>1, <2>2, <2>3 DEF d
    <3>2. DecisionsAgree'
      BY <3>1 DEF DeliveryInv, DecisionsAgree
    <3> QED
      BY <1>1, <1>4, <1>7, <3>1, <3>2, DeliveryKept DEF PollOnce
  <2>4. CASE d.message # None
    <3>1. /\ poller' = [poller EXCEPT ![t].stage = "submit", ![t].decision = d]
          /\ UNCHANGED state
      BY <2>1, <2>4 DEF d
    <3>2. DecisionsAgree'
      BY <1>2, <2>2, <2>4, <3>1 DEF DeliveryInv, DecisionsAgree, Pollers
    <3> QED
      BY <1>1, <1>4, <1>7, <3>1, <3>2, DeliveryKept DEF PollOnce
  <2> QED
    BY <2>3, <2>4
<1>8. CASE SubmitDeduplicates(t)
  BY <1>1, <1>5, <1>8 DEF SubmitDeduplicates, DeliveryInv, LastNoticeAgrees
<1>9. CASE SubmitChecks(t)
  <2>1. DecisionsAgree'
    BY <1>2, <1>9 DEF SubmitChecks, DeliveryInv, DecisionsAgree, Pollers
  <2> QED
    BY <1>1, <1>4, <1>9, <2>1, DeliveryKept DEF SubmitChecks
<1>10. CASE SubmitPuts(t)
  <2> DEFINE d == poller[t].decision
  <2>1. d.message \in Alerts <=> d.state.notified
    BY <1>10 DEF SubmitPuts, DeliveryInv, DecisionsAgree
  <2>2. DecisionsAgree'
    BY <1>5, <1>10 DEF SubmitPuts
  <2>3. CASE HasRoom
    <3>1. queue' # <<>> /\ queue'[Len(queue')] = d.message
      BY <1>1, <1>10, <2>3 DEF SubmitPuts, AlertsInv, AlertsTypeOK
    <3>2. LastNotice' = d.message /\ state' = d.state
      BY <1>10, <2>3, <3>1 DEF SubmitPuts, LastNotice
    <3> QED
      BY <1>1, <2>1, <2>2, <3>2 DEF DeliveryInv, LastNoticeAgrees
  <2>4. CASE ~HasRoom
    <3>1. UNCHANGED <<queue, deduplicated>> /\ state' = RejectedState(d)
      BY <1>10, <2>4 DEF SubmitPuts
    <3>2. state'.notified = state.notified
      BY <1>2, <3>1 DEF RejectedState, States
    <3> QED
      BY <1>1, <1>3, <1>4, <2>2, <3>1, <3>2, DeliveryKept
  <2> QED
    BY <2>3, <2>4
<1> QED
  BY <1>6, <1>7, <1>8, <1>9, <1>10 DEF PollerSteps

\* The worker hands the last notice on, from the queue to the operator.
LEMMA WorkerDelivers ==
    ASSUME DeliveryInv, NEW t \in Threads, WorkerSteps(t) \/ SendFails(t)
    PROVE  DeliveryInv'
<1>1. AlertsInv /\ AlertsInv'
  BY WorkerInductive DEF DeliveryInv
<1>2. /\ worker \in [Threads -> Workers] /\ dispatcher.thread = t
      /\ \A u \in Threads : worker[u] \in Workers
      /\ \A u \in Threads : worker[u].stage # "none" => u = t
      /\ queue \in Seq(Messages)
  BY <1>1 DEF AlertsInv, AlertsTypeOK, HandlesKept, WorkerSteps, WorkerLoops, WorkerFindsNothing,
              WorkerGets, WorkerMarks, WorkerTries, WorkerSends, WorkerClears, SendFails
<1>3. UNCHANGED <<poller, state, deduplicated>>
  BY DEF WorkerSteps, WorkerLoops, WorkerFindsNothing, WorkerGets, WorkerMarks,
         WorkerTries, WorkerSends, WorkerClears, SendFails
<1>4. DecisionsAgree' /\ dispatcher'.thread = t
  BY <1>1, <1>2, <1>3 DEF DeliveryInv, DecisionsAgree, AlertsInv, AlertsTypeOK, WorkerSteps,
     WorkerLoops, WorkerFindsNothing, WorkerGets, WorkerMarks, WorkerTries, WorkerSends,
     WorkerClears, SendFails
<1>5. LastNotice = IF queue # <<>> THEN queue[Len(queue)]
                   ELSE IF Carries(t) THEN worker[t].message ELSE told
  BY <1>2 DEF LastNotice, Carries
<1>6. ASSUME NEW row, worker' = [worker EXCEPT ![t] = row]
      PROVE  LastNotice' = IF queue' # <<>> THEN queue'[Len(queue')]
                           ELSE IF row.stage \in {"mark", "retry", "sending"}
                                THEN row.message ELSE told'
  <2>1. /\ worker'[t] = row
        /\ \A u \in Threads \ {t} : worker'[u] = worker[u]
    BY <1>2, <1>6
  <2>2. (\E u \in Threads : Carries(u)') <=> row.stage \in {"mark", "retry", "sending"}
    BY <1>2, <2>1 DEF Carries
  <2> QED
    BY <1>4, <2>1, <2>2 DEF LastNotice
<1>7. ASSUME LastNotice' = LastNotice, interrupted => interrupted' PROVE DeliveryInv'
  BY <1>1, <1>3, <1>4, <1>7, DeliveryKept
<1>16. ASSUME NEW x, worker' = [worker EXCEPT ![t].stage = x]
       PROVE  worker' = [worker EXCEPT ![t] = [stage |-> x, message |-> worker[t].message]]
  <2>1. worker[t] = [stage |-> worker[t].stage, message |-> worker[t].message]
    BY <1>2 DEF Workers
  <2>2. [worker[t] EXCEPT !.stage = x] = [stage |-> x, message |-> worker[t].message]
    BY <2>1
  <2> QED
    BY <1>2, <1>16, <2>2
<1>8. CASE WorkerLoops(t)
  <2> DEFINE row == [stage   |-> IF dispatcher.stop THEN "none" ELSE "get",
                     message |-> worker[t].message]
  <2>1. worker' = [worker EXCEPT ![t] = row]
    BY <1>8, <1>16 DEF WorkerLoops
  <2>2. row.stage \notin {"mark", "retry", "sending"} /\ ~Carries(t)
    BY <1>8 DEF WorkerLoops, Carries
  <2> HIDE DEF row
  <2>3. LastNotice' = IF queue' # <<>> THEN queue'[Len(queue')] ELSE told'
    BY <1>6, <2>1, <2>2
  <2> QED
    BY <1>5, <1>7, <1>8, <2>2, <2>3 DEF WorkerLoops
<1>9. CASE WorkerFindsNothing(t)
  <2>1. worker' = [worker EXCEPT ![t] = [stage |-> "loop", message |-> worker[t].message]]
    BY <1>9, <1>16 DEF WorkerFindsNothing
  <2> QED
    BY <1>5, <1>6, <1>7, <1>9, <2>1 DEF WorkerFindsNothing, Carries
<1>10. CASE WorkerGets(t)
  <2>1. queue # <<>> /\ queue' = Tail(queue)
    BY <1>10 DEF WorkerGets
  <2>2. \/ queue' = <<>> /\ queue[Len(queue)] = Head(queue)
        \/ queue' # <<>> /\ queue'[Len(queue')] = queue[Len(queue)]
    <3>1. /\ queue \in Seq(Messages) /\ Len(queue) \in Nat \ {0}
          /\ Head(queue) = queue[1]
          /\ Len(Tail(queue)) = Len(queue) - 1
          /\ \A i \in 1..(Len(queue) - 1) : Tail(queue)[i] = queue[i + 1]
      BY <1>2, <2>1
    <3>2. CASE Len(queue) = 1
      BY <2>1, <3>1, <3>2
    <3>3. CASE Len(queue) > 1
      <4>1. Len(queue') = Len(queue) - 1 /\ Len(queue) - 1 \in 1..(Len(queue) - 1)
        BY <2>1, <3>1, <3>3
      <4>2. queue'[Len(queue) - 1] = queue[Len(queue) - 1 + 1]
        BY <2>1, <3>1, <4>1
      <4>3. Len(queue) - 1 + 1 = Len(queue)
        BY <3>1
      <4>4. queue' # <<>>
        BY <3>1, <4>1
      <4> QED
        BY <4>1, <4>2, <4>3, <4>4
    <3> QED
      BY <3>1, <3>2, <3>3
  <2>3. worker' = [worker EXCEPT ![t] = [stage |-> "mark", message |-> Head(queue)]]
    BY <1>10 DEF WorkerGets
  <2>4. LastNotice = queue[Len(queue)]
    BY <1>5, <2>1
  <2>5. LastNotice' = IF queue' # <<>> THEN queue'[Len(queue')] ELSE Head(queue)
    <3> DEFINE row == [stage |-> "mark", message |-> Head(queue)]
    <3>1. /\ worker' = [worker EXCEPT ![t] = row]
          /\ row.stage = "mark" /\ row.message = Head(queue)
      BY <2>3
    <3> HIDE DEF row
    <3> QED
      BY <1>6, <3>1
  <2> QED
    BY <1>7, <1>10, <2>2, <2>4, <2>5 DEF WorkerGets
<1>11. CASE WorkerMarks(t)
  <2>1. worker' = [worker EXCEPT ![t] = [stage |-> "retry", message |-> worker[t].message]]
    BY <1>11, <1>16 DEF WorkerMarks
  <2> QED
    BY <1>5, <1>6, <1>7, <1>11, <2>1 DEF WorkerMarks, Carries
<1>12. CASE WorkerTries(t)
  <2>1. CASE dispatcher.stop
    BY <1>1, <1>4, <1>12, <2>1 DEF WorkerTries, DeliveryInv, LastNoticeAgrees
  <2>2. CASE ~dispatcher.stop
    <3>1. worker' = [worker EXCEPT ![t] = [stage |-> "sending",
                                           message |-> worker[t].message]]
      BY <1>12, <1>16, <2>2 DEF WorkerTries
    <3> QED
      BY <1>5, <1>6, <1>7, <1>12, <3>1 DEF WorkerTries, Carries
  <2> QED
    BY <2>1, <2>2
<1>13. CASE WorkerSends(t)
  <2>1. worker' = [worker EXCEPT ![t] = [stage |-> "clear", message |-> worker[t].message]]
    BY <1>13, <1>16 DEF WorkerSends
  <2> QED
    BY <1>5, <1>6, <1>7, <1>13, <2>1 DEF WorkerSends, Carries
<1>14. CASE WorkerClears(t)
  <2>1. worker' = [worker EXCEPT ![t] = [stage |-> "loop", message |-> None]]
    <3>1. [NoWorker EXCEPT !.stage = "loop"] = [stage |-> "loop", message |-> None]
      BY DEF NoWorker
    <3> QED
      BY <1>14, <3>1 DEF WorkerClears
  <2> QED
    BY <1>5, <1>6, <1>7, <1>14, <2>1 DEF WorkerClears, Carries
<1>15. CASE SendFails(t)
  <2>1. worker' = [worker EXCEPT ![t] = [stage |-> "retry", message |-> worker[t].message]]
    BY <1>15, <1>16 DEF SendFails
  <2> QED
    BY <1>5, <1>6, <1>7, <1>15, <2>1 DEF SendFails, Carries
<1> QED
  BY <1>8, <1>9, <1>10, <1>11, <1>12, <1>13, <1>14, <1>15 DEF WorkerSteps

\* Once no notice is on its way, the operator's last notice says what the
\* watchdog believes it said, through any rejection, failed send, stop and start
\* but the two that the property names.
THEOREM DeliveryIsFaithful == AlertsSpec => []NoticesAreDelivered
<1>1. AlertsInit => DeliveryInv
  <2>1. AlertsInit => AlertsInv
    BY AlertsBegin
  <2>2. AlertsInit => DecisionsAgree /\ LastNoticeAgrees
    BY AlertsAssumption DEF AlertsInit, DecisionsAgree, LastNoticeAgrees, LastNotice, Carries,
       NoPoller, NoWorker, Fresh
  <2> QED
    BY <2>1, <2>2 DEF DeliveryInv
<1>2. DeliveryInv /\ [AlertsNext]_alertVars => DeliveryInv'
  <2> SUFFICES ASSUME DeliveryInv, [AlertsNext]_alertVars PROVE DeliveryInv'
    OBVIOUS
  <2>0. AlertsInv'
    BY AlertsStep DEF DeliveryInv
  <2>1. CASE MainSteps
    BY <2>1, MainDelivers
  <2>2. CASE RuntimeChanges \/ UNCHANGED alertVars
    BY <2>0, <2>2 DEF RuntimeChanges, alertVars, DeliveryInv, DecisionsAgree,
       LastNoticeAgrees, LastNotice, Carries
  <2>3. CASE TimePasses
    <3>1. /\ state'.notified = state.notified
          /\ UNCHANGED <<queue, worker, dispatcher, told, interrupted, deduplicated>>
      BY <2>3 DEF TimePasses, DeliveryInv, AlertsInv, AlertsTypeOK, States
    <3>2. LastNotice' = LastNotice
      BY <3>1 DEF LastNotice, Carries
    <3>3. DecisionsAgree'
      BY <2>3, ClockKeepsDecisions DEF DeliveryInv, DecisionsAgree
    <3> QED
      BY <2>0, <3>1, <3>2, <3>3, DeliveryKept
  <2>4. ASSUME NEW t \in Threads, PollerSteps(t) \/ WorkerSteps(t) \/ SendFails(t)
        PROVE  DeliveryInv'
    BY <2>4, PollerDelivers, WorkerDelivers
  <2> QED
    BY <2>1, <2>2, <2>3, <2>4 DEF AlertsNext
<1>3. DeliveryInv => NoticesAreDelivered
  BY DEF DeliveryInv, LastNoticeAgrees, LastNotice, Carries, NoticesAreDelivered, Quiet
<1> QED
  BY <1>1, <1>2, <1>3, PTL DEF AlertsSpec
=============================================================================
