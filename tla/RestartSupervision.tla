------------------------- MODULE RestartSupervision -------------------------
(***************************************************************************)
(* Who ends a runtime that does not work, and how often.  Inside the       *)
(* process the LivenessWatchdog requests a restart when the heartbeat file *)
(* shows that data or readiness has been missing too long.  Outside, the   *)
(* container's entrypoint kills a process whose heartbeat is frozen, or    *)
(* never came.  Both keep a history on disk that limits them, and disk     *)
(* and process identities outlive the process: what one boot leaves there  *)
(* must not be held against the next.                                      *)
(*                                                                         *)
(* A timestamp is its age in clock units, up to Oldest.  Two restarts      *)
(* never fall into one unit (FreshBootIsSpared), so a history is a set of  *)
(* ages.                                                                   *)
(***************************************************************************)
EXTENDS Integers, FiniteSets

CONSTANTS
    HeartbeatMaxAge,     \* liveness.heartbeat_max_age_sec
    StartupGrace,        \* health.startup_grace_sec
    CriticalDown,        \* restart_gate.critical_down_sec
    MaxRestarts,         \* restart_gate.max_restarts_in_window
    RestartWindow,       \* restart_gate.restart_circuit_breaker_window_sec
    BootGrace,           \* _HEARTBEAT_STARTUP_GRACE_SEC of the entrypoint
    KillAge,             \* _HEARTBEAT_KILL_AGE_SEC
    MaxKills,            \* _HEARTBEAT_MAX_KILLS_PER_WINDOW
    KillWindow,          \* _HEARTBEAT_KILL_WINDOW_SEC
    FailingWrites,       \* the best-effort writes of a start that may fail
    Oldest               \* bound on the ages, beyond every threshold

ASSUME SupervisionAssumption ==
    /\ HeartbeatMaxAge \in Nat /\ StartupGrace \in Nat /\ CriticalDown \in Nat
    /\ BootGrace \in Nat /\ KillAge \in Nat /\ Oldest \in Nat
    /\ \A age \in {HeartbeatMaxAge, StartupGrace, CriticalDown, BootGrace, KillAge} :
          age < Oldest
    /\ MaxRestarts \in Nat \ {0} /\ RestartWindow \in Nat
    /\ MaxKills \in Nat \ {0} /\ KillWindow \in Nat
    /\ FailingWrites \subseteq {"marker", "heartbeat"}

VARIABLES
    app,        \* the process: its stage, its age, and whether it is wedged
    watchdog,   \* _restart_requested and _fleet_never_ready_started_at
    feed,       \* does market data arrive
    heartbeat,  \* runtime_heartbeat.json
    marker,     \* runtime_startup.json
    restarts,   \* runtime_restart_history.json
    kills,      \* .entrypoint_kill_history
    counted     \* the restarts and kills since a history was last lost

vars == <<app, watchdog, feed, heartbeat, marker, restarts, kills, counted>>

Absent == -1

Ages == 0..Oldest

NextAge(age) == IF age \in {Absent, Oldest} THEN age ELSE age + 1

Aged(ages, window) == {age + 1 : age \in {a \in ages : a < window}}

\* "spawned" is before the startup marker, "preparing" before the first heartbeat.
Stages == {"down", "spawned", "preparing", "running", "stopping"}

\* The heartbeat is of this boot, or of an earlier one, whose pid this boot may
\* have got again: pids start over with the container.
Owners == {"current", "earlier", "earlierSamePid"}

\* The conditions' details: none waits, all that wait are in their replay grace,
\* or one is stalled outside of it.
Details == {"none", "graced", "stalled"}

Heartbeats == [age    : Ages \union {Absent},   \* updated_at, and the file's mtime
               owner  : Owners,                 \* pid and boot_id
               data   : Ages \union {Absent},   \* last_data_at
               miss   : Ages \union {Absent},   \* the oldest miss that counts
               detail : Details]

NoProcess == [stage |-> "down", age |-> 0, wedged |-> FALSE]

IdleWatchdog == [requested |-> FALSE, fleet |-> Absent]

Init ==
    /\ app = NoProcess
    /\ watchdog = IdleWatchdog
    /\ feed \in {"flowing", "silent"}
    /\ heartbeat = [age |-> Absent, owner |-> "earlier", data |-> Absent,
                    miss |-> Absent, detail |-> "none"]
    /\ marker = Absent
    /\ restarts = {} /\ kills = {}
    /\ counted = [restarts |-> {}, kills |-> {}]
-----------------------------------------------------------------------------
\* The life of a process.

Ended ==
    /\ app' = NoProcess
    /\ watchdog' = IdleWatchdog

\* _run_nautilus_app: a new boot_id, so that no heartbeat on disk has it.
Spawn ==
    /\ app.stage = "down"
    /\ app' = [NoProcess EXCEPT !.stage = "spawned"]
    /\ \E owner \in {"earlier", "earlierSamePid"} :
          heartbeat' = [heartbeat EXCEPT !.owner = owner]
    /\ UNCHANGED <<watchdog, feed, marker, restarts, kills, counted>>

\* Whether a write of the start, which ignores OSError, succeeds.
Outcomes(file) == IF file \in FailingWrites THEN BOOLEAN ELSE {TRUE}

WriteMarker ==
    /\ app.stage = "spawned" /\ ~app.wedged
    /\ app' = [app EXCEPT !.stage = "preparing"]
    /\ \E written \in Outcomes("marker") : marker' = IF written THEN 0 ELSE marker
    /\ UNCHANGED <<watchdog, feed, heartbeat, restarts, kills, counted>>

\* Fault: the data clock of the boot before goes on.
StartingKeepsData ==
    [heartbeat EXCEPT !.age = 0, !.owner = "current", !.miss = Absent, !.detail = "none"]

\* write_runtime_heartbeat in the phase "starting" drops all evidence.
StartingHeartbeat ==
    [age |-> 0, owner |-> "current", data |-> Absent, miss |-> Absent, detail |-> "none"]

\* The first heartbeat; then the watchdog is started and the node runs.
WriteStarting ==
    /\ app.stage = "preparing" /\ ~app.wedged
    /\ app' = [app EXCEPT !.stage = "running"]
    /\ \E written \in Outcomes("heartbeat") :
          heartbeat' = IF written THEN StartingHeartbeat ELSE heartbeat
    /\ UNCHANGED <<watchdog, feed, marker, restarts, kills, counted>>

\* Every other heartbeat carries over what the file says.  A write of readiness
\* brings its condition's detail and the data clock forward, starts the clock of a
\* miss that counts, unless it runs, and ends that of one that does not: then a
\* younger miss of another condition may be the oldest.
WriteHeartbeat ==
    /\ app.stage \in {"running", "stopping"} /\ ~app.wedged
    /\ \E detail \in Details, brings \in BOOLEAN,
          oldest \in {Absent, 0} \union 0..heartbeat.miss :
          /\ brings => feed = "flowing"
          /\ heartbeat' =
                [age    |-> 0,
                 owner  |-> "current",
                 data   |-> IF brings THEN 0 ELSE heartbeat.data,
                 miss   |-> oldest,
                 detail |-> detail]
    /\ UNCHANGED <<app, watchdog, feed, marker, restarts, kills, counted>>

\* The native loop takes the interpreter and does not give it back.
Wedge ==
    /\ app.stage # "down" /\ ~app.wedged
    /\ app' = [app EXCEPT !.wedged = TRUE]
    /\ UNCHANGED <<watchdog, feed, heartbeat, marker, restarts, kills, counted>>

\* A crash, or a stop of the container.
Crash ==
    /\ app.stage # "down"
    /\ Ended
    /\ UNCHANGED <<feed, heartbeat, marker, restarts, kills, counted>>

\* The stop requested by request_process_stop: the node's owner consumes the
\* signal, or the escalator's SIGKILL comes; both need the interpreter.
StopCompletes ==
    /\ app.stage = "stopping" /\ ~app.wedged
    /\ Ended
    /\ UNCHANGED <<feed, heartbeat, marker, restarts, kills, counted>>
-----------------------------------------------------------------------------
\* evaluate_liveness, as the restart gate calls it.

\* Outside the grace, a missing or old startup marker gives none.
InStartupGrace == StartupGrace > 0 /\ marker # Absent /\ marker <= StartupGrace

\* A heartbeat with this process's pid, whichever process wrote it.
Own == heartbeat.age # Absent /\ heartbeat.owner \in {"current", "earlierSamePid"}

Stale == heartbeat.age > HeartbeatMaxAge

\* The data clock starts with the process when no data ever came.
DataAge == IF heartbeat.data = Absent THEN marker ELSE heartbeat.data

Starved == Own /\ ~InStartupGrace /\ CriticalDown > 0 /\ DataAge > CriticalDown

Misses == Own /\ ~InStartupGrace /\ CriticalDown > 0 /\ ~Stale
              /\ heartbeat.miss > CriticalDown

\* _fleet_never_ready, whose clock only a fleet with no stalled condition stops.
FleetStalled == Own /\ heartbeat.detail = "stalled"

FleetClock ==
    IF ~FleetStalled THEN Absent
    ELSE IF watchdog.fleet = Absent THEN 0 ELSE watchdog.fleet

FleetNeverReady == FleetStalled /\ watchdog.fleet > CriticalDown

\* Fault: an off-by-one.
BreakerOpensLate == Cardinality(restarts) > MaxRestarts

BreakerOpen == Cardinality(restarts) >= MaxRestarts

Gate == app.stage = "running" /\ ~app.wedged /\ ~watchdog.requested

\* Fault: a suppressed restart is recorded, so that the window never cools.
RecordedWhenSuppressed == restarts \union {0}

HistoryWhenSuppressed == restarts

\* A poll without a restart.
Poll ==
    /\ Gate
    /\ Starved \/ Misses \/ FleetNeverReady => BreakerOpen
    /\ watchdog' = IF Starved \/ Misses THEN watchdog
                   ELSE [watchdog EXCEPT !.fleet = FleetClock]
    /\ restarts' = IF Starved \/ Misses \/ FleetNeverReady
                   THEN HistoryWhenSuppressed ELSE restarts
    /\ UNCHANGED <<app, feed, heartbeat, marker, kills, counted>>

RestartDue == Gate /\ (Starved \/ Misses \/ FleetNeverReady) /\ ~BreakerOpen

Requested ==
    /\ app' = [app EXCEPT !.stage = "stopping"]
    /\ watchdog' = [watchdog EXCEPT !.requested = TRUE]

RequestRestart ==
    /\ RestartDue
    /\ restarts' = restarts \union {0}
    /\ counted' = [counted EXCEPT !.restarts = @ \union {0}]
    /\ Requested
    /\ UNCHANGED <<feed, heartbeat, marker, kills>>

\* The history cannot be written, or only truncated: the restart goes on.
RequestUnrecorded ==
    /\ RestartDue
    /\ restarts' \in {restarts, {}}
    /\ counted' = [counted EXCEPT !.restarts = {}]
    /\ Requested
    /\ UNCHANGED <<feed, heartbeat, marker, kills>>

\* The process ends while it writes the history, which is not written atomically.
DieRecording ==
    /\ RestartDue
    /\ restarts' = {}
    /\ counted' = [counted EXCEPT !.restarts = {}]
    /\ Ended
    /\ UNCHANGED <<feed, heartbeat, marker, kills>>
-----------------------------------------------------------------------------
\* The entrypoint's supervisor.

\* A heartbeat of this pid and this boot_id that does not move.
Frozen == heartbeat.owner = "current" /\ heartbeat.age > KillAge

\* Fault: the file of an earlier boot passes for the first heartbeat.
NeverCameAtAll == heartbeat.age = Absent /\ BootGrace > 0 /\ app.age > BootGrace

\* No heartbeat of this boot in the time a boot has for it.
NeverCame == heartbeat.owner # "current" /\ BootGrace > 0 /\ app.age > BootGrace

\* _heartbeat_kill_allowed: recorded, or let through when it cannot be.
Kill ==
    /\ app.stage # "down"
    /\ Frozen \/ NeverCame
    /\ Cardinality(kills) < MaxKills
    /\ \/ /\ kills' = kills \union {0}
          /\ counted' = [counted EXCEPT !.kills = @ \union {0}]
       \/ /\ kills' \in {kills, {}}
          /\ counted' = [counted EXCEPT !.kills = {}]
    /\ Ended
    /\ UNCHANGED <<feed, heartbeat, marker, restarts>>
-----------------------------------------------------------------------------
FeedChanges ==
    /\ feed' \in {"flowing", "silent"} \ {feed}
    /\ UNCHANGED <<app, watchdog, heartbeat, marker, restarts, kills, counted>>

\* A replay grace may end with the time.
ClockAdvances ==
    /\ app' = IF app.stage = "down" THEN app ELSE [app EXCEPT !.age = NextAge(@)]
    /\ watchdog' = [watchdog EXCEPT !.fleet = NextAge(@)]
    /\ \E detail \in {heartbeat.detail}
                     \union (IF heartbeat.detail = "graced" THEN {"stalled"} ELSE {}) :
          heartbeat' = [heartbeat EXCEPT !.age = NextAge(@), !.data = NextAge(@),
                                         !.miss = NextAge(@), !.detail = detail]
    /\ marker' = NextAge(marker)
    /\ restarts' = Aged(restarts, RestartWindow)
    /\ kills' = Aged(kills, KillWindow)
    /\ counted' = [restarts |-> Aged(counted.restarts, RestartWindow),
                   kills    |-> Aged(counted.kills, KillWindow)]
    /\ UNCHANGED feed

Restart == RequestRestart \/ RequestUnrecorded \/ DieRecording

Next ==
    \/ Spawn
    \/ WriteMarker
    \/ WriteStarting
    \/ WriteHeartbeat
    \/ Wedge
    \/ Crash
    \/ StopCompletes
    \/ Poll
    \/ Restart
    \/ Kill
    \/ FeedChanges
    \/ ClockAdvances

Spec == Init /\ [][Next]_vars

(***************************************************************************)
(* The threads of a process that is not wedged are scheduled, so is the    *)
(* entrypoint, and time passes.  That a start gets on, that heartbeats are *)
(* written and that data comes is not assumed.                             *)
(***************************************************************************)
Fairness ==
    /\ WF_vars(Poll \/ Restart) /\ WF_vars(StopCompletes)
    /\ WF_vars(Kill) /\ SF_vars(ClockAdvances)

FairSpec == Spec /\ Fairness
-----------------------------------------------------------------------------
\* Safety.

\* The state has its types, and nothing of a process is left when it has ended.
TypeOK ==
    /\ app \in [stage : Stages, age : Ages, wedged : BOOLEAN]
    /\ watchdog \in [requested : BOOLEAN, fleet : Ages \union {Absent}]
    /\ feed \in {"flowing", "silent"}
    /\ heartbeat \in Heartbeats
    /\ marker \in Ages \union {Absent}
    /\ restarts \subseteq 0..RestartWindow
    /\ kills \subseteq 0..KillWindow
    /\ counted.restarts \subseteq 0..RestartWindow
    /\ counted.kills \subseteq 0..KillWindow
    /\ app.stage = "down" => app = NoProcess /\ watchdog = IdleWatchdog

\* Whatever keeps failing, the watchdog restarts the runtime at most MaxRestarts
\* times in its window and the entrypoint kills it at most MaxKills times in its
\* own, as long as the history is not lost: no cause leads to a restart loop.
RestartsAreBounded ==
    /\ Cardinality(counted.restarts) <= MaxRestarts
    /\ Cardinality(counted.kills) <= MaxKills

\* A boot is restarted or killed only after it had the time itself: the files of
\* an earlier boot, or its pid, are "never treated as evidence against this boot".
FreshBootIsSpared ==
    [][/\ Restart => app.age > CriticalDown
       /\ Kill => app.age > BootGrace \/ app.age > KillAge]_vars
-----------------------------------------------------------------------------
\* Liveness, under FairSpec.

\* A runtime that gets no data is ended, however often it was restarted before:
\* the breaker delays the restart and does not prevent it.
StarvedIsEnded ==
    (app.stage = "running" /\ feed = "silent")
        ~> (feed = "flowing" \/ app.stage = "down")

\* A process that is wedged, or does not get to its first heartbeat, is ended.
StuckIsEnded ==
    (app.wedged \/ app.stage \in {"spawned", "preparing"})
        ~> (app.stage = "down" \/ (app.stage = "running" /\ ~app.wedged))
=============================================================================
