--------------------------- MODULE MonitoringSwitch ---------------------------
(***************************************************************************)
(* The monitoring service, on and off: the state the whole console shares   *)
(* (client/src/hooks/useMonitoringStatus.ts), the two buttons of            *)
(* monitoring-management-section.tsx, and the loops the server runs         *)
(* (Start, Stop and monitorLoop of monitoring_service.go).                  *)
(*                                                                          *)
(* A loop reads the field stopChan each time it waits, not once: a loop     *)
(* that is in its round when the service is stopped and started again goes  *)
(* on with the new channel, beside the loop that was started.               *)
(***************************************************************************)
EXTENDS Naturals, FiniteSets

CONSTANTS
    MaxStarts,     \* bound: starts of the service, so of its loops
    MaxLost        \* bound: requests of the section that fail

ASSUME SwitchAssumption == MaxStarts \in Nat \ {0} /\ MaxLost \in Nat

VARIABLES
    running,     \* MonitoringService.running
    chan,        \* number of the channel in stopChan
    loop,        \* where each monitorLoop is
    waits,       \* the channel it waits for
    once,        \* the server's side of run-once
    known,       \* the shared state: known, running and loading
    shown, loading,
    inFlight,    \* the shared refresh under way
    pending,     \* monitoringPending, and where its handler is
    overlaps,    \* history: starts while an old loop was not waiting
    misses       \* requests failed

serviceVars == <<running, chan, loop, waits, once>>
statusVars == <<known, shown, loading, inFlight>>
switchVars == <<serviceVars, statusVars, pending, overlaps, misses>>

Loop == 1..MaxStarts

\* Types; once the status is known nothing is "loading".
SwitchTypeOK ==
    /\ running \in BOOLEAN /\ chan \in 0..MaxStarts
    /\ loop \in [Loop -> {"none", "new", "first", "ready", "waiting", "locking", "round"}]
    /\ waits \in [Loop -> 0..MaxStarts]
    /\ once \in {"none", "locking", "round", "answered"}
    /\ known \in BOOLEAN /\ shown \in BOOLEAN /\ loading \in BOOLEAN
    /\ inFlight \in {"none", "asked", "on", "off", "failed"}
    /\ pending \in {"none", "start", "stop", "refresh", "await", "runOnce", "load"}
    /\ overlaps \in Nat /\ misses \in 0..MaxLost
    /\ loading => ~known

SwitchInit ==
    /\ running = FALSE /\ chan = 0 /\ once = "none"
    /\ loop = [l \in Loop |-> "none"] /\ waits = [l \in Loop |-> 0]
    /\ known = FALSE /\ shown = FALSE /\ loading = FALSE /\ inFlight = "none"
    /\ pending = "none" /\ overlaps = 0 /\ misses = 0

----------------------------------------------------------------------------
(* The server *)

Closed(c) == c < chan \/ ~running
Waiting(l) == loop[l] \in {"first", "waiting"}
Locked == once = "round" \/ \E l \in Loop : loop[l] = "round"
Into(l, s) == loop' = [loop EXCEPT ![l] = s]
ClientKeeps == UNCHANGED <<statusVars, pending, misses>>

\* (mutant) Start does not look whether the service runs
StartServiceAgain ==
    /\ running' = TRUE /\ chan' = chan + 1
    /\ Into(chan + 1, "new")
    /\ UNCHANGED <<waits, once, overlaps>>

\* Start makes a channel and a loop, unless the service runs.
StartService ==
    IF running THEN UNCHANGED <<serviceVars, overlaps>>
    ELSE /\ running' = TRUE /\ chan' = chan + 1
         /\ Into(chan + 1, "new")
         /\ overlaps' = overlaps + Cardinality({l \in Loop : loop[l] \notin {"none", "waiting"}})
         /\ UNCHANGED <<waits, once>>

StopService ==
    /\ running' = FALSE
    /\ UNCHANGED <<chan, loop, waits, once, overlaps>>

\* Starts that the bound still allows, the one the section has asked for taken off.
StartsLeft == MaxStarts - chan - (IF pending = "start" THEN 1 ELSE 0)

\* Another console starts or stops it.
OtherToggles ==
    /\ running \/ StartsLeft > 0
    /\ IF running THEN StopService ELSE StartService
    /\ ClientKeeps

\* select evaluates s.stopChan when it is entered.
Enters(l) ==
    /\ \/ loop[l] = "new" /\ Into(l, "first")
       \/ loop[l] = "ready" /\ Into(l, "waiting")
    /\ waits' = [waits EXCEPT ![l] = chan]
    /\ UNCHANGED <<running, chan, once, overlaps>> /\ ClientKeeps

\* The timer fires.  The first is due at once, and may win over a closed channel;
\* a later one has an interval to go, in which closing the channel wakes the loop.
TimerFires(l) ==
    /\ Waiting(l) /\ (loop[l] = "waiting" => ~Closed(waits[l]))
    /\ Into(l, "locking")
    /\ UNCHANGED <<running, chan, waits, once, overlaps>> /\ ClientKeeps

Returns(l) ==
    /\ Waiting(l) /\ Closed(waits[l])
    /\ Into(l, "none")
    /\ UNCHANGED <<running, chan, waits, once, overlaps>> /\ ClientKeeps

\* A round holds monitorMu from its beginning to its end.
LoopRound(l) ==
    /\ \/ loop[l] = "locking" /\ ~Locked /\ Into(l, "round")
       \/ loop[l] = "round" /\ Into(l, "ready")
    /\ UNCHANGED <<running, chan, waits, once, overlaps>> /\ ClientKeeps

\* MonitorOnce, for the request of the section.
OnceRound ==
    /\ \/ once = "locking" /\ ~Locked /\ once' = "round"
       \/ once = "round" /\ once' = "answered"
    /\ UNCHANGED <<running, chan, loop, waits, overlaps>> /\ ClientKeeps

----------------------------------------------------------------------------
(* useMonitoringStatus: one refresh at a time, shared by whoever asks *)

\* refreshInternal up to its request; loading is shown only before the first
\* answer or after a failure.
Begin == inFlight' = "asked" /\ loading' = ~known /\ UNCHANGED <<known, shown>>

\* The interval, the focus or the visibility of the window.
StatusPoll ==
    /\ inFlight = "none" /\ Begin
    /\ UNCHANGED <<serviceVars, pending, overlaps, misses>>

StatusAnswered ==
    /\ inFlight = "asked"
    /\ \/ inFlight' = (IF running THEN "on" ELSE "off") /\ UNCHANGED misses
       \/ misses < MaxLost /\ misses' = misses + 1 /\ inFlight' = "failed"
    /\ UNCHANGED <<serviceVars, known, shown, loading, pending, overlaps>>

\* (mutant) a refresh that fails stays in flight
StatusShownOnce ==
    /\ inFlight \notin {"none", "asked"}
    /\ known' = (inFlight # "failed") /\ shown' = (inFlight = "on") /\ loading' = FALSE
    /\ inFlight' = (IF inFlight = "failed" THEN inFlight ELSE "none")
    /\ pending' = (IF pending = "await" THEN "none" ELSE pending)
    /\ UNCHANGED <<serviceVars, overlaps, misses>>

\* The answer is emitted to all; a failure makes the status unknown.  A handler
\* that awaits the refresh, its own or the one it shares, ends.
StatusShown ==
    /\ inFlight \notin {"none", "asked"}
    /\ known' = (inFlight # "failed") /\ shown' = (inFlight = "on") /\ loading' = FALSE
    /\ inFlight' = "none"
    /\ pending' = (IF pending = "await" THEN "none" ELSE pending)
    /\ UNCHANGED <<serviceVars, overlaps, misses>>

----------------------------------------------------------------------------
(* The buttons of the section *)

\* toggleMonitoring: asks for the opposite of what is shown.  The button is
\* disabled while the status is not known, so its branch for that is never taken.
ClickToggle ==
    /\ pending = "none" /\ known /\ ~loading
    /\ shown \/ StartsLeft > 0
    /\ pending' = (IF shown THEN "stop" ELSE "start")
    /\ UNCHANGED <<serviceVars, statusVars, overlaps, misses>>

\* The server serves it; then the status is refreshed.
ToggleServed ==
    /\ \/ pending = "start" /\ StartService
       \/ pending = "stop" /\ StopService
    /\ pending' = "refresh"
    /\ UNCHANGED <<statusVars, misses>>

\* The request fails, or its answer is lost: no refresh, the poll will tell.
ToggleFails ==
    /\ misses < MaxLost /\ misses' = misses + 1
    /\ \/ pending \in {"start", "stop"} /\ UNCHANGED <<serviceVars, overlaps>>
       \/ pending = "start" /\ StartService
       \/ pending = "stop" /\ StopService
    /\ pending' = "none"
    /\ UNCHANGED statusVars

\* refresh() begins a refresh or shares the one under way.
ToggleRefreshes ==
    /\ pending = "refresh" /\ pending' = "await"
    /\ IF inFlight = "none" THEN Begin ELSE UNCHANGED statusVars
    /\ UNCHANGED <<serviceVars, overlaps, misses>>

ClickRunOnce ==
    /\ pending = "none" /\ pending' = "runOnce"
    /\ once' = "locking"
    /\ UNCHANGED <<running, chan, loop, waits, statusVars, overlaps, misses>>

\* The round is over and its answer comes, or is lost; then the devices are loaded.
RunOnceEnds ==
    /\ pending = "runOnce" /\ once = "answered" /\ once' = "none"
    /\ \/ pending' = "load" /\ UNCHANGED misses
       \/ misses < MaxLost /\ misses' = misses + 1 /\ pending' = "none"
    /\ UNCHANGED <<running, chan, loop, waits, statusVars, overlaps>>

\* load catches its own failure.
RunOnceLoaded ==
    /\ pending = "load" /\ pending' = "none"
    /\ UNCHANGED <<serviceVars, statusVars, overlaps, misses>>

----------------------------------------------------------------------------
ToggleStep == ToggleServed \/ ToggleFails \/ ToggleRefreshes
OnceStep == RunOnceEnds \/ RunOnceLoaded
StatusStep == StatusAnswered \/ StatusShown
LoopStep(l) == Enters(l) \/ TimerFires(l) \/ Returns(l) \/ LoopRound(l)

SwitchNext ==
    \/ OtherToggles \/ StatusPoll \/ ClickToggle \/ ClickRunOnce
    \/ ToggleStep \/ OnceRound \/ OnceStep \/ StatusStep
    \/ \E l \in Loop : LoopStep(l)

----------------------------------------------------------------------------
(* Properties *)

\* A loop that goes on: it is not about to return.
Serving(l) == loop[l] # "none" /\ ~(loop[l] = "waiting" /\ Closed(waits[l]))

\* While the service says it runs, a loop of it goes on, whatever stops and
\* starts came before; and there is one loop, unless a start came while the loop
\* of an earlier one had not gone back to waiting.
OneLoopServes ==
    LET n == Cardinality({l \in Loop : Serving(l)}) IN
    running => n >= 1 /\ n <= 1 + overlaps

\* A service that stays stopped has no loop in the end.
StoppedLoopsEnd == []<>(running \/ \A l \in Loop : loop[l] = "none")

\* The section's buttons come back, however the requests end.
SwitchComesBack == []<>(pending = "none")

\* What the switch should end up showing, however toggles of this console and of
\* others, shared refreshes and failures fall together.
SwitchIsTrue == known /\ shown = running
=============================================================================
