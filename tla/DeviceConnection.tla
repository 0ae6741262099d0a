-------------------------- MODULE DeviceConnection --------------------------
(***************************************************************************)
(* The adb connection of one device: the Connect and Disconnect buttons of  *)
(* client/src/app/devices/page.tsx, Connect and Reconnect of the control    *)
(* page of its room, the automatic reconnection set in the monitoring       *)
(* section, and what the server does meanwhile (device_service.go and the   *)
(* round of monitoring_service.go).                                         *)
(*                                                                          *)
(* A page offers the button that fits the status it shows, which is the     *)
(* status of its last load.  The server holds one record of the device in   *)
(* memory; requests and the round change it in place while their adb        *)
(* commands, which take seconds, run beside each other.  It is saved at     *)
(* every change, "connecting" too.                                          *)
(***************************************************************************)
EXTENDS Naturals

CONSTANTS
    Limits,        \* what reconnect_max_retries of the preferences is set to
    MaxDrops,      \* bound: times the link comes or goes by itself
    MaxRestarts    \* bound: restarts of the server

ASSUME ConnectionAssumption == Limits \subseteq Nat /\ Limits # {} /\ MaxDrops \in Nat /\ MaxRestarts \in Nat

VARIABLES
    adb,         \* adb lists the device as online
    status,      \* device.status
    auto,        \* device.auto_reconnect_enabled
    retries,     \* device.auto_reconnect_retry_count
    reason,      \* device.auto_reconnect_disabled_reason: "", "manual", "gave_up"
    running,     \* the monitoring service runs
    round,       \* where performMonitoring is with the device
    shown,       \* device.status as each page shows it, as far as its buttons tell
    job,         \* deviceActionPending of each page, and where its handler is
    asked,       \* history: what the operator has asked for last
    cut,         \* history: a restart has cut a connection attempt short
    drops, restarts

device == <<status, auto, retries, reason>>
bounds == <<drops, restarts>>
connectionVars == <<adb, device, running, round, shown, job, asked, cut, bounds>>

Status == {"online", "offline", "error", "connecting", "disconnected"}
Shown(s) == IF s \in {"online", "connecting"} THEN s ELSE "down"
Page == {"devices", "control"}

\* A request is sent ("connect", "disconnect"), the server is at its adb command
\* ("connecting", "disconnecting"), or the page loads the devices again.
Stage == {"idle", "connect", "connecting", "disconnect", "disconnecting", "load"}

\* Types: a device in one of the five statuses; retries up to the largest limit.
ConnectionTypeOK ==
    /\ adb \in BOOLEAN /\ running \in BOOLEAN /\ cut \in BOOLEAN
    /\ status \in Status /\ auto \in BOOLEAN /\ retries \in Nat /\ (\E max \in Limits : retries <= max)
    /\ reason \in {"", "manual", "gave_up"}
    /\ round \in {"idle", "listed", "missing", "trying"}
    /\ shown \in [Page -> {"online", "connecting", "down"}] /\ job \in [Page -> Stage]
    /\ asked \in {"connect", "disconnect", "unclear"}
    /\ drops \in 0..MaxDrops /\ restarts \in 0..MaxRestarts

ConnectionInit ==
    /\ adb = FALSE /\ status = "offline" /\ auto \in BOOLEAN /\ retries = 0 /\ reason = ""
    /\ running = FALSE /\ round = "idle"
    /\ shown = [p \in Page |-> Shown(status)] /\ job = [p \in Page |-> "idle"]
    /\ asked = "unclear" /\ cut = FALSE /\ drops = 0 /\ restarts = 0

----------------------------------------------------------------------------
(* The record of the device *)

Become(s) == status' = s
Forget == retries' = 0 /\ reason' = ""     \* clear the state of reconnection
KeepRetries == UNCHANGED <<retries, reason>>

Quiet == \A p \in Page : job[p] = "idle"
Alone(p) == \A q \in Page \ {p} : job[q] = "idle"
Go(p, stage) == job' = [job EXCEPT ![p] = stage]

----------------------------------------------------------------------------
(* The buttons.  None is enabled while a handler of the page is under way *)

\* handleConnect of both pages.
ClickConnect(p) ==
    /\ job[p] = "idle" /\ shown[p] = "down"
    /\ Go(p, "connect")
    /\ asked' = (IF Alone(p) THEN "connect" ELSE "unclear")
    /\ UNCHANGED <<adb, device, running, round, shown, cut, bounds>>

\* handleDisconnect of the devices page: also of a device that is connecting.
ClickDisconnect ==
    /\ job["devices"] = "idle" /\ shown["devices"] # "down"
    /\ Go("devices", "disconnect")
    /\ asked' = "unclear"
    /\ UNCHANGED <<adb, device, running, round, shown, cut, bounds>>

\* handleReconnect of the control page: a device shown online is disconnected first.
ClickReconnect ==
    /\ job["control"] = "idle"
    /\ Go("control", IF shown["control"] = "online" THEN "disconnect" ELSE "connect")
    /\ asked' = (IF Alone("control") THEN "connect" ELSE "unclear")
    /\ UNCHANGED <<adb, device, running, round, shown, cut, bounds>>

\* The load at the end of a handler, and the polls of both pages.
Load(p) ==
    /\ shown' = [shown EXCEPT ![p] = Shown(status)]
    /\ job' = [job EXCEPT ![p] = IF @ = "load" THEN "idle" ELSE @]
    /\ UNCHANGED <<adb, device, running, round, asked, cut, bounds>>

----------------------------------------------------------------------------
(* ConnectDevice and DisconnectDevice *)

ConnectBegins(p) ==
    /\ job[p] = "connect"
    /\ Go(p, "connecting")
    /\ Become("connecting") /\ Forget
    /\ UNCHANGED <<adb, auto, running, round, shown, asked, cut, bounds>>

\* The device answers or not; a handler whose request fails only alerts.
ConnectEnds(p) ==
    /\ job[p] = "connecting"
    /\ \/ adb' = TRUE /\ Become("online") /\ Go(p, "load")
       \/ UNCHANGED adb /\ Become("error") /\ Go(p, "idle")
    /\ cut' = FALSE
    /\ KeepRetries
    /\ UNCHANGED <<auto, running, round, shown, asked, bounds>>

\* The command of adb succeeds, or fails, as it does when adb knows no such device.
DisconnectBegins(p) ==
    /\ job[p] = "disconnect"
    /\ \/ adb /\ adb' = FALSE /\ Go(p, "disconnecting") /\ UNCHANGED asked
       \/ Go(p, "idle") /\ asked' = "unclear" /\ UNCHANGED adb
    /\ UNCHANGED <<device, running, round, shown, cut, bounds>>

\* handleReconnect goes on with its second request.  The operator has what he
\* asked for when nothing else connects the device at this moment.
DisconnectEnds(p) ==
    /\ job[p] = "disconnecting"
    /\ Become("disconnected") /\ retries' = 0 /\ reason' = "manual"
    /\ cut' = FALSE
    /\ IF p = "control"
       THEN Go(p, "connect") /\ UNCHANGED asked
       ELSE /\ Go(p, "load")
            /\ asked' = (IF Alone(p) /\ round # "trying" THEN "disconnect" ELSE "unclear")
    /\ UNCHANGED <<adb, auto, running, round, shown, bounds>>

\* A request is lost before the server has it.
RequestLost(p) ==
    /\ job[p] \in {"connect", "disconnect"}
    /\ Go(p, "idle") /\ asked' = "unclear"
    /\ UNCHANGED <<adb, device, running, round, shown, cut, bounds>>

----------------------------------------------------------------------------
(* The settings of the monitoring section, of a row or of all rows filtered *)

SetAutoReconnect(enabled) ==
    /\ auto' = enabled
    /\ UNCHANGED <<adb, status, retries, reason, running, round, shown, job, asked,
                   cut, bounds>>

ResetAutoReconnect ==
    /\ status # "disconnected"
    /\ Forget /\ Become(IF status = "error" THEN "offline" ELSE status)
    /\ UNCHANGED <<adb, auto, running, round, shown, job, asked, cut, bounds>>

\* Start and Stop of the service; a round under way goes on.
Toggle ==
    /\ running' = ~running
    /\ UNCHANGED <<adb, device, round, shown, job, asked, cut, bounds>>

----------------------------------------------------------------------------
(* performMonitoring, of the loop or of runOnce, one at a time (monitorMu).   *)
(* Devices of other rows are judged, and tried, between the choice of this    *)
(* one and its turn                                                           *)

RoundBegins ==
    /\ round = "idle" /\ status \notin {"connecting", "disconnected"}
    /\ round' = IF adb THEN "listed" ELSE "missing"
    /\ UNCHANGED <<adb, device, running, shown, job, asked, cut, bounds>>

\* (mutant) the status is not looked at again
DuePassed == round \in {"listed", "missing"}
Due == round \in {"listed", "missing"} /\ status # "disconnected"

JudgedOnline ==
    /\ Due /\ round = "listed"
    /\ Become("online") /\ Forget /\ round' = "idle"
    /\ UNCHANGED <<adb, auto, running, shown, job, asked, cut, bounds>>

Lost == IF status \in {"offline", "error"} THEN status ELSE "offline"

\* Each round reads the limit anew; 0 switches the reconnection off.
MayRetry(max) == auto /\ reason = "" /\ max > 0

\* Not to be reconnected, or not yet: the cooldown runs.
JudgedOffline ==
    /\ Due /\ round = "missing"
    /\ \E max \in Limits : ~MayRetry(max) \/ retries \in 1..(max - 1)
    /\ Become(Lost) /\ KeepRetries /\ round' = "idle"
    /\ UNCHANGED <<adb, auto, running, shown, job, asked, cut, bounds>>

GivesUp ==
    /\ Due /\ round = "missing"
    /\ \E max \in Limits : MayRetry(max) /\ retries >= max
    /\ Become("error") /\ reason' = "gave_up" /\ round' = "idle"
    /\ UNCHANGED <<adb, auto, retries, running, shown, job, asked, cut, bounds>>

Skipped ==
    /\ round \in {"listed", "missing"} /\ ~Due
    /\ round' = "idle"
    /\ UNCHANGED <<adb, device, running, shown, job, asked, cut, bounds>>

\* tryReconnectDevice.
Tries ==
    /\ Due /\ round = "missing"
    /\ \E max \in Limits : MayRetry(max) /\ retries < max
    /\ Become("connecting") /\ KeepRetries /\ round' = "trying"
    /\ UNCHANGED <<adb, auto, running, shown, job, asked, cut, bounds>>

TrySucceeds ==
    /\ round = "trying"
    /\ adb' = TRUE /\ Become("online") /\ Forget /\ round' = "idle"
    /\ UNCHANGED <<auto, running, shown, job, asked, cut, bounds>>

\* (mutant) a failed attempt leaves the status as it is
TryFailsSilently ==
    /\ round = "trying"
    /\ retries' = retries + 1
    /\ UNCHANGED <<status, reason>> /\ round' = "idle"
    /\ UNCHANGED <<adb, auto, running, shown, job, asked, cut, bounds>>

\* A failure counts, and the last one (or one for want of an adb) is final.
TryFails ==
    /\ round = "trying"
    /\ retries' = retries + 1
    /\ \/ Become("error") /\ reason' = "gave_up"
       \/ (\E max \in Limits : retries + 1 < max) /\ Become("offline") /\ UNCHANGED reason
    /\ round' = "idle"
    /\ UNCHANGED <<adb, auto, running, shown, job, asked, cut, bounds>>

----------------------------------------------------------------------------

\* The device leaves or comes back, unasked.
LinkChanges ==
    /\ drops < MaxDrops /\ drops' = drops + 1
    /\ adb' = ~adb
    /\ UNCHANGED <<device, running, round, shown, job, asked, cut, restarts>>

\* A restart of the server: every request under way fails, and nothing starts
\* the service again.
Restart ==
    /\ restarts < MaxRestarts /\ restarts' = restarts + 1
    /\ running' = FALSE /\ round' = "idle"
    /\ job' = [p \in Page |-> "idle"]
    /\ asked' = "unclear"
    /\ cut' = (status = "connecting")
    /\ UNCHANGED <<adb, device, shown, drops>>

Round == JudgedOnline \/ JudgedOffline \/ GivesUp \/ Skipped \/ Tries \/ TrySucceeds \/ TryFails
Served(p) ==
    ConnectBegins(p) \/ ConnectEnds(p) \/ DisconnectBegins(p) \/ DisconnectEnds(p)

ConnectionNext ==
    \/ \E p \in Page : ClickConnect(p) \/ Load(p) \/ Served(p) \/ RequestLost(p)
    \/ ClickDisconnect \/ ClickReconnect
    \/ \E enabled \in BOOLEAN : SetAutoReconnect(enabled)
    \/ ResetAutoReconnect \/ Toggle \/ LinkChanges \/ Restart
    \/ RoundBegins \/ Round

\* Requests are answered, a round comes to its end, and the service begins the
\* next one while it runs.
Fairness ==
    /\ \A p \in Page : WF_connectionVars(Served(p)) /\ WF_connectionVars(Load(p))
    /\ WF_connectionVars(Round) /\ WF_connectionVars(running /\ RoundBegins)

ConnectionSpec == ConnectionInit /\ [][ConnectionNext]_connectionVars /\ Fairness

----------------------------------------------------------------------------
(* Properties *)

\* A device that was disconnected by the operator stays so, whatever rounds,
\* resets and switches of the automatic reconnection follow, until he asks for a
\* connection; unless one was being tried at that moment.
DisconnectIsKept ==
    asked = "disconnect" => status = "disconnected" /\ reason = "manual" /\ retries = 0

\* An operator who asks for a connection, or for a reconnection, never finds the
\* device disconnected by hand in the end: what a reconnection has taken down is
\* tried again by monitoring when the second half fails.
ReconnectLeavesNoDisconnect ==
    Quiet /\ asked = "connect" => status # "disconnected" /\ reason # "manual"

\* The operator has the last word about a connection, over the rounds of the
\* monitoring and over half of a reconnection.
OperatorDecides == ConnectionTypeOK /\ DisconnectIsKept /\ ReconnectLeavesNoDisconnect

\* While the service runs and nobody interferes, the status comes to agree with
\* adb and no attempt lasts for ever, unless a restart has cut one short: the
\* saved "connecting" keeps the rounds away.
StatusAgreesInTheEnd ==
    <>[](Quiet /\ running /\ ~cut) =>
        <>[](status # "disconnected" => (status = "online" <=> adb) \/ round = "trying")
=============================================================================
