# A TLA+ model of vrcontrol

vrcontrol runs multi-player VR sessions: headsets connect to a Go server over
websockets, an operator assigns them to rooms, starts and ends activities, and
watches the headsets' screens in a browser. This directory holds TLA+ modules
that model the parts of the server where several goroutines share state and the
parts of the console in the browser where callbacks, polls and handlers do, the
TLC configurations that check them on small instances, and theorems that TLAPS
proves for instances of every size.

Paths are relative to the repository root of vrcontrol (`src/` in
`PROJECT.json`). `PROJECT.json` maps every definition to the lines it models.

To run a check: `tlc -config hub_safety.cfg RoomPlayers` (section 3 names the
module of each). To check the proofs: `tlapm RoomPlayersProofs.tla`.

1. [Inventory](#1-inventory)
2. [Modules](#2-modules-and-how-they-correspond-to-the-code)
3. [Runs](#3-runs)
4. [Fairness](#4-fairness)
5. [Proofs](#5-proofs)
6. [Conditions](#6-conditions-under-which-properties-are-stated)
7. [Not modelled](#7-not-modelled)
8. [Plan](#8-plan)

## 1. Inventory

### How the parts interact

```
 headset --ws--> reader -+                     +--> InChannel --> writer --ws--> headset
                         |  unbuffered channels|
 HTTP handlers ----------+---> Room.Run -------+--> ControllerHub (GetRoomUpdate)
   (rooms, activity)     |      | ^                        ^
 StandbyDisconnect ------+      v |                        | ws
   consumer                  UpdateInfo (ticker)     control and monitoring page
                         |
                         +--> ActivityService --> activities.json + detail.json

 MonitoringService (ticker) --> DeviceService --> ADB ;  DeviceRepository
 RoomService --> RoomRepository + DeviceRepository --> JSON files

 viewer --ws/WebRTC--> StreamController --> ScrcpyStreamService --> scrcpy session --> device

 console in the browser:
   pages (5 s polls, handlers, ws) --> services/api.ts --> HTTP handlers
   live views --> LiveStreamPlayer --ws/WebRTC--> StreamController
   useMonitoringStatus (one store for all pages of a tab) --> MonitoringService
```

### Components

| Component | State it keeps | Operations | What makes it hard | What makes it correct |
|---|---|---|---|---|
| Player hub (`sockets/room.go`, `player.go`, `controller/control_socket.go`) | player map, updater flag, nine unbuffered channels and one of 1024 slots, an InChannel per player | connect, register, unregister, detach, kick, broadcast, tick | every sender of a channel blocks until `Run` comes round; `Run` and `UpdateInfo` are each other's senders | the update loop runs exactly while there are players; whoever leaves is removed; `Run` comes back to its select |
| Shared live-view source (`service/scrcpy_stream_service.go`) | source per device, subscribers, a queue per subscriber, grace timers | subscribe, close, fan out, drop when slow, stop when idle | decisions made under the lock and acted on after it; several timers for one source | one scrcpy session per device; decoding starts at a key frame; an unwatched source ends, a watched one does not |
| Activity lifecycle (`service/activity_service.go`, `controller/activity_controller.go`, `repository/activity_repo.go`, the activity part of `sockets/room.go`) | index of activities, a detail file each, the room's runtime copy | create, start, end, cancel, record event, attach artifact | read-modify-write over two files without a lock; two copies of the truth; restart in between | an activity is started once and one at a time; the room and the store agree; every event is counted and archived |
| Room session messages (`sockets/room.go`, `controller/room_runtime_manager.go`) | the activity and parameters of the room, the participants counted, what each player was sent last | join, leave, start and end of an activity, change of parameters | three goroutines build messages and queue them later | every player that is in the room ends with the config of the running activity, or with none |
| Stage coordination (`sockets/move.go`, `sequence.go`, `statuschk.go`, `player.go`) | stage, flags and sequence of each player, assigned sequences | ready, wait, force move, snapshot, assign sequence | the players are read without a lock while readers write them | nobody moves before all are ready; sequences are unique |
| QA aggregation (`sockets/qa.go`, `UpdateInfo`) | answers, dirty flag, locked questions | answer, lock, flush, broadcast | flag read and cleared while answers arrive | the last broadcast shows every answer |
| Control socket (`sockets/control.go`) | a controller's channel and its update loop | connect, room update, disconnect | a writer that stops while the updater sends | the updater ends with its controller |
| Room runtime manager, standby, isolation (`controller/room_runtime_manager.go`, `control_room.go`, `isolation.go`) | map of runtimes, standby map, assigned rooms | create on demand, assign, detach, delete, isolate | check-then-create; an old connection's report after a reconnect | one runtime per room; a connected player is in its assigned room or in standby |
| Room membership (`service/room_service.go`, `repository/room_repo.go`) | device list of each room, room id of each device | add, remove, patch, delete, reconcile | two repositories updated one after the other | a device is in at most one room; both sides agree |
| Device status and monitoring (`service/device_service.go`, `monitoring_service.go`) | status, retry count, last attempt | connect, disconnect, monitor, reconnect | manual requests during a monitoring round | a device the operator disconnected stays so; retries are bounded |
| Action execution (`service/action_service.go`) | results of a batch | run on devices, five at a time | worker limit, failing devices | one result per device |
| WebRTC signalling (`controller/webrtc_stream_controller.go`) | peer connection, subscription, forwarder of one viewer | offer, candidate, close | callbacks of an old connection after a new offer | every subscription is closed |
| scrcpy session start (`scrcpy/stream_manager.go`) | process, tunnel, socket | start, stop | failure of one of several steps | a failed start leaves nothing behind |
| H264 access units (`h264stream/parser.go`) | pending NAL units, parameter sets | read, group, emit | boundaries between pictures | no unit mixes pictures; key frames carry parameter sets |
| JSON repositories (`repository/json_repository.go`) | a file each | load, save | crash during a save | the file is the old or the new one |
| ADB (`adb/`) | none | external program | | |
| HTTP routes, preferences, models (`routes`, `model`, `consts`) | none | wiring, data | | |
| Live-view player (`client/src/components/console/live-stream-player.tsx`) | status, socket, peer connection, queued candidates, stall timer of the present attempt | mount, retry, unmount, some twenty callbacks | callbacks of a former attempt read refs that belong to the next; offers are made across two awaits | attempts do not mix; "live" means a picture; the wait for one ends |
| Live-view windows and monitoring page (`lib/utils/live-stream-windows.ts`, `live-stream-window.tsx`, `app/monitoring/rooms/[id]/page.tsx`) | windows with place and order, drag under way; room shown, its socket and badge | open, focus, close, batch, drag, resize; load, switch of room | two ways of opening, a limit, several pointers; loads and sockets of a former room | at most one window per device and four in all, the last on top, in view; the page is about its room |
| Room control page (`app/rooms/[id]/control/page.tsx`) | activity shown, device rows, marks of requests under way, panel, modal | start, end, move, renumber, commands, batches, reconnect | unordered polls, socket messages and answers; a switch of room under a request; a start is two requests | a start is all or nothing; the page settles on what runs; marks tell the requests there are |
| Devices pages (`app/devices/page.tsx`, `app/rooms/[id]/devices/page.tsx`) | rows, drafts of the panel, pending marks | assign, move, add, remove, connect, disconnect | a move is two requests decided from a stale row | a device ends where it was put |
| Monitoring section (`components/console/monitoring-management-section.tsx`, `hooks/useMonitoringStatus.ts`) | shared status, refresh under way, table | start, stop, run once, enable, disable, reset, batches | one refresh shared by all, a table that is never polled | the switch and the table show what the server has |
| Settings page (`app/settings/page.tsx`) | three forms, what is unsaved | load, edit, save | editing during a save; answers that differ in kind | an unmarked form shows what is stored |
| Room form (`components/console/room-form.tsx`, `app/rooms/[id]/page.tsx`) | fields, actions | load, choose, submit | the room and the list of actions come in any order; migration of old rooms | saving changes no action the operator has not chosen |
| Rooms and actions pages (`app/rooms/page.tsx`, `app/actions/page.tsx`, `device-selection-modal.tsx`) | list, marks, selection of the modal | poll, delete, select, run on several devices | answers out of order; a modal closed under its batch | the list becomes true; a batch touches its own modal only |
| Room minimap (`lib/room-minimap/`, `room-minimap.tsx`) | markers | projection, heading, silence | markers are made at messages, not by a clock | a marker is where its player is, and says when he is silent |
| App frame (`components/console/app-layout.tsx`) | width of the side bar, drag | press, move, lift, collapse | listeners are closures of one render | no listener is left on the window |
| API client (`services/api.ts`) | none | a call per route | four ways to treat a refusal | a handler is told what happened |
| Other client components | view state | rendering, forms of one request | | |

The hazards, each at its line and with the properties that would notice it, are
listed in `PROJECT.json`.

## 2. Modules and how they correspond to the code

The server: RoomHub, StageBarrier and QABoard with their composition
RoomPlayers, StreamHub, ActivityLifecycle, ActivityFlow, RoomSession and
SequenceNumbers with the composition RoomActivities, RoomMembership, and the
server's halves of DeviceConnection and MonitoringSwitch. The console: the modules from LivePlayer on. In the server an
action is what runs between two points where another goroutine can come in; in
the console, where JavaScript runs one callback at a time, it is a callback or a
handler up to its next `await`.

### RoomHub

One hub with its goroutines. A send on an unbuffered channel is a *sender that
waits* (a value of `reader`, `join`, `loop`, `consumer`, or membership of
`kicks`, `detaches`) and an *action of the receiver*. `Run` is in its select
(`run = "select"`), waits to hand the stop signal to `UpdateInfo`
(`"stopping"`), or waits to send on the channel only it receives from
(`"self"`).

| Variable | Code |
|---|---|
| `members`, `inRoom` | `Room.Players`, `Player.Room` |
| `standby` | `StandbyPlayerMap` |
| `updater`, `loop`, `target` | `Run`'s local `updater`; the `UpdateInfo` goroutine, named after the registration that started it; the player it tries to unregister |
| `full` | whether the 32768 slots of `InChannel` are used up |
| `queued` | length of `PlayerBroadcast` |
| `reader`, `join` | the `read` goroutine; the websocket handler |
| `kicks`, `detaches`, `consumer` | HTTP goroutines and the `StandbyDisconnect` consumer, blocked on a send |

Each case of the select is one action (`RunRegister`, `RunUnregister...` by
sender, `RunDetach`, `RunControl`, `RunBroadcast`, `RunHttpControl`), with every
non-blocking send of the case in it (`FanOut`). `RunStop` is the rendezvous on
`updaterChannel`. Messages have no content here; only whom they go to and
whether the recipient's channel is full.

Simplifications: the detach handler parks the player in standby in the step in
which `Run` answers it; the consumer of `StandbyDisconnect` looks at a player in
one step; a player is assigned to the room by one handler at a time; concurrent
iteration and write of a Go map, which the runtime may abort on, is not
modelled. `BroadcastConfig` and `BroadcastPlayCommand` from HTTP handlers change
hub state only by unregistering a full player, which is `Kick`.

### StreamHub

One device. A critical section is one action, what happens between two critical
sections is two: `FindSource`/`StartSource` then `Subscribe`; `MarkClosed` then
`Leave`; `TimerFires` then `Cancel`; `Broadcast` (the snapshot of subscribers)
then one `PassOver`, `Deliver` or `DropClosed` for each of them.

| Variable | Code |
|---|---|
| `current` | `ScrcpyStreamService.sources[device]` |
| `phase`, `cancelled` | the goroutine of `deviceStreamSource.run`: running, subscribers closed, `done` closed, removed from the map; its context |
| `subs`, `unit`, `to` | `subscribers`; the access unit being handed out and the part of the snapshot not yet served |
| `viewer`, `src` | a `SubscribeStream` call, its subscription and its `Close` |
| `awaiting`, `queue` | `awaitingKeyframe`, `ch` |
| `first` | history: the first unit the forwarder took |
| `timer` | the goroutines of `stopAfterIdleGrace` |

An access unit is a key frame or a delta frame. Simplifications:
`closeSubscribers` marks and closes in one action; the request for a key frame
is only an assumption about the encoder (section 4); a scrcpy server that cannot
be started changes nothing here.

### ActivityLifecycle and ActivityFlow

`ActivityLifecycle` is the abstract specification: what the users of one room
see of its activities. `ActivityFlow` is the code: each call of
`ActivityService` is `ReadIndex` (with its status check), `LoadDetail`,
`EnsureNoneRuns` for a start, `WriteIndex`, `WriteDetail`; between them any
other goroutine may run, because `ActivityRepository` locks single accesses
only. Requests and events are chains of such calls and of steps of the room's
runtime:

| Request | Steps |
|---|---|
| start | [`update` call,] `CheckRoom`, `start` call, `EnterRoom`, and a `cancel` call if another activity got there first |
| end | `LeaveRoom`, `end` call, one `attach` call for each artifact in the snapshot |
| cancel | `LeaveRoom`, `cancel` call |
| event | `RecordEvent` (memory), `AppendEventStats` call, for a lantern then the append to `LanternData` |

`PlayerConnects` is a connection that makes the runtime, which then restores a
running activity from the store. `Crash` keeps the two files and loses the rest.
`DetailFails` is an error of the detail write after the index was written.

Simplifications: the counts per event type are one sum; runtime operations under
the room's locks are one action; an index file that cannot be written while the
map has changed is not modelled; `DELETE` of an activity has no route.

The refinement is `Lifecycle == INSTANCE ActivityLifecycle WITH status <- index`:
only `WriteIndex` changes `index`, so an abstract step is the index write of a
call and everything else stutters.

### RoomMembership

Which device is in which room is stored twice, in `rooms.json` and in
`devices.json`. A repository call with its save is one action; an HTTP request
is a chain of them, and the lists a request reads outside the repository's lock
are read in a step of their own where it matters (`ComposeList`). `MCRoomMembership`
adds the symmetry, `MCStreamHub` that of StreamHub.

| Variable | Code |
|---|---|
| `rooms`, `unused`, `list` | stored rooms, rooms to come, `Room.DeviceIDs`; the list of a deleted room stays, because requests may still hold the pointer |
| `newer` | the order of `Room.UpdatedAt` of the stored rooms |
| `devices`, `roomOf` | stored devices, `Device.RoomID` |
| `request` | stage and locals of each HTTP request |
| `boot`, `assigned` | progress of `ReconcileDeviceAssignmentsByRoomUpdate` and the map it computed |
| `clash` | history: two requests overlapped that are about one device, add to one room, or of which one deletes |

| Request | Steps |
|---|---|
| add | `StartAdd` (checks), `LeaveOther` for each other room, `Insert`, `Assign` |
| remove | `StartRemove`, `Check`, `Clear` |
| delete room | `StartDeleteRoom`, `Release` for each device, `DropRoom` |
| delete device | `StartDeleteDevice`, for each room `Skip`, `ForgetSequence`, or `ComposeList` and `WriteList`, then `DropDevice` |
| create, patch, sequence number | `CreateRoom`, `CreateDevice`, `ChangeRoom` |

`Restart` may come at any step, in the middle of startup too. Simplifications:
a room id is not used again; a new room or device comes without the other, as
the client sends it; a request sees a list before or after a concurrent
assignment, never half of it; a disk that fails a save is left out. The map
`DeviceRoomMap` is recomputed from the store at each connection and is therefore
no state. `SyncSocketStatusAtStartup` has nothing to do, as nothing sets
`SocketRunning`.

### StageBarrier

How the headsets of one room go from stage to stage together. The reader of a
connection that gets `ready_to_move` or `wait_to_sync` goes through all players
without a lock (`TakesReady`, `TakesWait`, then `Passes` for each and `Posts`, or
`GivesUp`, or `FindsNobody`) while the other readers and `Run` write them.

| Variable | Code |
|---|---|
| `present`, `gone` | `Room.Players`; connections that have left |
| `stage`, `ready` | `Player.Stage`, `Player.ReadyToMove` |
| `checker` | `MovementCheck` or `SyncCheck` in the reader of a connection: the stage, the players still to be looked at, whether it is blocked on `MoveControl` or `SyncControl` |
| `hidden` | a write of `Stage` and `ReadyToMove` the other goroutines do not see yet |
| `giving` | the case of `Run` that sends the command to one player after the other |
| `spot`, `wish`, `said`, `told` | the headset (external): where it is, what it waits for, its message and its command under way |
| `unsure`, `odd` | history: the conditions of section 6 |

`Player.Stage` and `ReadyToMove` are plain fields that two goroutines read and
write. What a build can make of such a race on one word is a read of the old
value: a store stays in the processor's buffer while the same goroutine goes on
to load (`hidden`, `StageSeen`, `ReadySeen`), and is out at the latest when the
reader blocks (`Published`). That two readers each see the other's old value and
both give up is therefore a behaviour of the model, and `unsure` names it.

Headsets are modelled from what the server expects of them: they announce once
that they are ready or wait, and an unforced command never leads them back. A
heartbeat is the stage it reports. `WaitToSync` is written and never read.
Forced destinations begin at 1, and the two lists of chapters in `move.go` are
empty.

### QABoard

The answers of a room: `ComposeQAResult` in three steps (`Stores`, `Marks`,
`SetsCurrent`), the part of `UpdateInfo` that tells them (`Composes`, `Tells` for
each player, `TakesMarkOff`), and `flushQAData` in two (`Emptied`, `FlushEnds`),
called by `Run` and by the handlers that start and end an activity. Beside it the
snapshots: `AsksSnapshot`, then `SeesAll` or `MissesOne`, `ResetsFlag` for each,
`SnapshotTaken` in `Run`, which empties the board.

| Variable | Code |
|---|---|
| `seated`, `playing` | `Room.Players`, `HasRunningActivity` |
| `answers`, `current`, `dirty` | `Room.Answers`, `currentQID`, `isDirty` |
| `answerer`, `snapper` | a reader in `ComposeQAResult` or `CheckSnapShot` |
| `teller`, `emptying` | `UpdateInfo` between message and mark; the callers of `flushQAData` under way |
| `waitSnap` | `Player.WaitSnapShot` |
| `heard`, `asked` | what a participant was told last; who asked for a snapshot since the last |
| `newcomer`, `mixed`, `crossed` | history: the conditions of section 6 |

`SeesAll` looks at all flags in one step: only a second check, which `crossed`
notices, could change one meanwhile. Left out: two goroutines in one Go map at the same
instant, on which the runtime stops the process, which includes a write to the
inner map of a question (`qa.go:33`) just emptied; `QuestionLocked`, which
nothing sets.

### RoomSession

What players are told of the activity and the parameters. Three goroutines send:
`Run` to the player it registers (`registrar`), the handler that starts or ends an
activity (`handler`), the one that brings parameters (`syncer`). A config is built
first and queued then, by any of them (`...Builds`, `...Sends`); the handler goes
through the players three times in a start and twice in an end
(`HandlerGoesOn`, `After`).

| Variable | Code |
|---|---|
| `inside`, `activity`, `parameters`, `counted` | `Room.Players`, `CurrentActivity` and its `Participants`, `Parameters` |
| `config`, `play` | the last message of each kind in the player's queue |
| `late`, `miscounted` | history: the conditions of section 6 |

Starts and ends come one after the other, as in ActivityFlow, and so do changes of
parameters. Full InChannels are RoomHub's matter, and `PlayCommander` has no
sender in the code.

### SequenceNumbers

`PlayerSequenceUpdate` at each registration: `Numbering` gives the assigned numbers
and, in the order of the device ids, what is free (`Free`, `Place`; checked by
`NumbersDiffer` rather than restated). `AssignSequence` is three steps (`Assigns`,
`TakesSignal`, `StoresAssignment`) and `SyncRoomFromStore` two (`ReadsStore`,
`Replaces`), one of each at a time. A device that reconnects has two connections
for a while; the code's map by name then keeps one of them, and the name counts
twice in the order (`Chosen`, `Place`).

### RoomPlayers and RoomActivities

Modules that say which part moves (`part`): RoomHub, StageBarrier or QABoard;
ActivityFlow, RoomSession or SequenceNumbers. Each part has in it what it needs of
the others as events that may come at any time (players that come and go,
activities that start and end), which is more than the others would let happen.
The parts of one composition share no variable.

### LivePlayer

One player. An *attempt* is one run of its effect: a signalling socket, a peer
connection, the 15 s timer and the promises both leave pending. `Mount`, `Retry`
and `Unmount` are the operator's; every other action is one callback.

| Variable | Code |
|---|---|
| `status`, `hasTrack`, `hasRendered`, `faulted`, `timer` | the state and refs of the same names; `faulted` is `terminalErrorSourceRef`, `timer` the stall timer |
| `socketRef`, `sock`, `peer` | whose socket `socketRef` holds; what is open of each attempt |
| `conn`, `ice`, `remote`, `queued` | the present peer connection and `pendingRemoteCandidates` |
| `task`, `unmute` | what a former attempt still awaits, and events queued for it |
| `framed`, `offers`, `returned` | history: a picture was shown; who sent an offer for which peer; a peer event put the attempt back to "connecting" |

The actions follow the file: `Opened`, `SendOffer`, `OfferFails` (the socket's
`onopen` and its two awaits); `Answered`, `DescriptionSet`, `DescriptionFails`,
`Flush`, `FlushDone`, `Candidate`, `CandidateDone` (messages); `SignalError`,
`SocketDown`, `IceChange`, `ConnChange`; `Frame`, `TrackEnds`, `Packets`,
`Unmuted`, `Stall`. Server and browser do what they like.

What the model shows beyond its properties: on a disconnect the two state
handlers set "stalled" and then "connecting", with no timer and no Retry button
(lines 498 and 521), and so does "connected" after a stall (494);
`ConnectingEnds` excepts this (`returned`). `onunmute` (351) looks at no guard
and is no `Callback` of `StaleIsSilent`. Left out: local ICE candidates,
statistics, browsers without WebRTC, a constructor that throws.

### RoomControl

Which activity the control page shows, and its Start / End button. Three sources
that nothing orders: polls (`Poll`, `PollAnswered`, `PollApplied`; several under
way), socket messages (`Update`), answers to its own requests. `Switch` is a
link to another room's page: React keeps the component with its state. Of the
server only the statuses of activities are kept; `OtherStarts` and `OtherEnds`
are other operators.

| Variable | Code |
|---|---|
| `home`, `status` | the activities of the server |
| `shown`, `meta` | `roomId`, `currentActivityMeta` |
| `polls` | calls of `loadControlData` under way, with their answers |
| `job` | `activityPending` and where its handler is |
| `made`, `confirmed`, `lost` | history: activities this page has created, was told are running, lost track of |

`handleStartConfiguredActivity` is `ClickStart`, `Create`, `Created`, `Start`,
`Started`, with `Refused` / `Failed` and `Cancel` as its rollback, and the load
at its end; `handleEndActivity` is `ClickEnd`, `End`, `Ended`. After a `Switch`
the button still acts on the activity shown, which may be the former room's.

### DeviceAssignment

One device, put into rooms from three places of two pages, each open in a tab of
its own: the select of the devices page (`AssignRoom`), its panel for a headset
that reports from a new address (`DraftMade`, `EditDraft`,
`UpdateFromIsolation`, `Patched`), and the room's page (`AddDevice`,
`RemoveDevice`). A move is `Remove`, then `Add` (or `AddFree` of a device in no
room), then `Load`; any may fail (`RequestFails`). A request is one step of the
server here, RoomMembership shows what it is made of.

| Variable | Code |
|---|---|
| `owner` | the room that has the device, on the server |
| `row`, `listed`, `roomRow` | what the devices page and the room page loaded |
| `draft`, `edited` | `isolationDrafts` and whether the operator has chosen |
| `loads` | polls on their way |
| `job` | the three handlers |
| `wish` | history: where the operator has put it, or that nobody can say |

Left out: creation of a device from the isolation list, USB devices, deletion.

### DeviceConnection

The adb connection of one device, seen from both sides: the buttons of two pages
(`ClickConnect`, `ClickDisconnect`, `ClickReconnect`, `Load`),
`ConnectDevice` and `DisconnectDevice` of the server in two steps each, because
adb takes seconds, and the round of the monitoring (`RoundBegins`, `JudgedOnline`,
`JudgedOffline`, `GivesUp`, `Skipped`, `Tries`, `TrySucceeds`, `TryFails`).
`LinkChanges` is the headset leaving or coming, `Restart` the server: `status` is
saved at every change, "connecting" too.

`asked` is the history of what the operator wants and `cut` that a restart cut
an attempt short. Two things the code does are excepted by them: an attempt of
the monitoring that is under way overwrites a disconnection by hand when it ends
(the comment at `monitoring_service.go:199` says that it must not), and a saved
"connecting" is passed over by every later round; only Reconnect on the control
page takes it up. Left out: ping, battery and temperature, the correction of
statuses at startup. The cooldown is a choice.

### LiveViews

Three parts of the console that hold live views, one at a time (`part`).

*control*: the windows of the control page. `OpenLiveStream`, `OpenPanel` and
`CloseLiveStream` of single devices, `OpenModal`, `Pick`, `ConfirmBatch` for
several, `ClosePanel` and `CloseAll`, over the list that `live-stream-windows.ts` keeps.

*floating*: `Press`, `Drag`, `Release`, `ToggleMinimized`, `ResizeBrowser` of
`live-stream-window.tsx`, with the clamping of `live-stream-windows.ts`. No page
mounts this component at present. One axis of its geometry is modelled, the
other has the same formulas. Any pointer's release ends a drag.

*monitor*: the page of a room with its load and its socket. `Switch` runs the
cleanups and the effects; loads and sockets of the room before are still to come
(`Loaded`, `SocketOpens`, `SocketDelivers`, `SocketCloses`). The late close of a
former socket sets the badge of the present one (`late`), and the players of the
former room stay until the first message.

### ConsolePages

Nine parts that share nothing but the server, each a module with its own
variables; `page` says which is open, and one run goes through all. What the
calls of `services/api.ts` make of a refusal is `ApiClient`: thrown, an empty
list, nothing, or not looked at. Of the last kind are `execute`,
`executeBatch`, `connectBatch`, `pingBatch`, `getStatusBatch`, `assignSeq`,
`forceMove` and `forceAllMove`: a page reports success when the server has
refused.

| Module | State and actions | What the model shows beyond its properties |
|---|---|---|
| `MonitoringSwitch` | the shared status (`known`, `shown`, `inFlight`), the two buttons, and the server's loops: `StartService`, `StopService`, `Enters`, `TimerFires`, `Returns`, `LoopRound`, `OnceRound` | a loop reads the field `stopChan` each time it waits; stopped and started during its round it goes on beside the new loop. `OneLoopServes` allows one for each such overlap. The `!known` branch of the toggle is never reached |
| `AutoReconnectTable` | rows, batches and bare loads (`Handler`), each request, load, answer | an older answer applied last is shown until the next handler (`crossed`) |
| `SettingsPage` | three forms: `LoadSettings`, `Edit`, `Save`, `SaveServed`, `Saved`, `SaveFailed` | the interval is always shown as its default 10; an edit of the scrcpy form during its save loses its mark and cannot be saved; one of the preferences is overwritten by the answer; a scrcpy load that fails hides the preferences |
| `RoomForm` | `RoomLoaded`, `ActionsLoaded` in any order, `Pick`, `Submit`; `Resolved` is what the control page makes of the saved room | "unset" cannot turn an action off, for the control page takes the first there is; a form submitted before the actions have come loses the choice of an old room; of two old actions of a kind the form may keep the other |
| `CatalogPage` | polls and deletions of the two lists | |
| `BatchModal` | selection modal on the two pages that use it, and its batch | on the actions page the answer to a first batch closes the modal of a second and forgets its selection; a selected device that goes offline cannot be unticked |
| `ControlCommands` | panel, targets, marks and requests of the control page | the 2 s timer of a notice wipes an option chosen meanwhile; another device selected behind the open panel keeps the chapter typed for the first |
| `RoomMinimap` | `Position`, `Heading`, `Marker` as operators; messages, seconds, loads | on the monitoring page the last player to fall silent is never shown so, since markers are made at messages; the clocks of browser and server are taken to agree |
| `AppFrame` | press, move, lift, collapse; the listeners of each render | the first press leaves the page unselectable, with no listener, until a second press |

In these modules a request is answered, refused or lost; an answer comes at any
later time.

## 3. Runs

| Run (module) | Instance | Shows |
|---|---|---|
| `hub_safety` (RoomPlayers) | 2 connections, both may be slow, broadcast queue of 1; 2 guests with 2 stages or with 1 stage and a forced movement; 2 participants, 2 questions with 2 choices, and 2 answers, or 1 answer and 3 requests for a snapshot, or 1 answer and a start and an end of an activity | the update loop is started and stopped in step with the player map (`HubIsSound`) and a dead player can only come from a late registration; where all wait for each other the command to go on is given (`BarrierIsSound`) and nobody is moved early (`MovedOnlyWhenReady`); all answers are told (`BoardIsSound`), a snapshot is what all have asked for (`SnapshotNeedsAll`) |
| `hub_progress` (RoomHub) | 2 connections, none slow | every reader that leaves ends, registrations are taken, `Run` comes back |
| `stream_safety` (MCStreamHub) | 2 viewers, 2 scrcpy sessions, queues of 1 | one session at a time, the one that runs is found, and slow viewers stay (`StreamIsSound`); decoding starts at a key frame; a closed subscription gets nothing |
| `stream_progress` (StreamHub) | 2 viewers, 1 session | an unwatched source ends, a subscriber of a running source is served |
| `activity_serial` (RoomActivities) | 2 activities, one goroutine, 2 events each, 1 restart, 1 failed write; 2 visitors, 2 activities, 1 change of parameters; 4 connections of 3 devices, 2 assignable numbers, 2 requests | `KeepsLifecycle` (the refinement), one activity runs (`ActivityIsSound`), the room agrees with the store, and without a fault nothing is lost from the archive; the players know the activity and the parameters in the end (`SessionIsSound`); their numbers differ and what is assigned is stored (`SequencesAreSound`) |
| `membership` (MCRoomMembership) | 2 rooms of one place each, 2 devices, 2 requests, 2 restarts | requests that do not concern each other may overlap and be cut off anywhere (`MembershipIsSound`); startup repairs what the others leave (`StartupHeals`) and moves no device (`StartupKeepsOwners`) |
| `player` (LivePlayer) | 2 attempts, 2 candidates each | attempts do not mix (`PlayerIsSound`), callbacks of a former one are silent (`StaleIsSilent`), the wait for a picture ends (`ConnectingEnds`) |
| `control` (RoomControl) | 2 rooms, 2 activities, 2 polls under way, 1 switch, 1 lost request | a start leaves nothing behind (`ControlIsSound`); the button comes back and the page settles (`PageSettles`) |
| `assignment` (DeviceAssignment) | 1 device, 2 rooms, 2 handlers at a time, 1 failure | the device ends where it was put (`AssignmentIsSound`); the pages settle (`PagesSettle`) |
| `connection` (DeviceConnection) | 1 device, limits of 1 and 2 retries, 1 loss of the link, 1 restart | the operator has the last word (`OperatorDecides`); status and adb agree in the end (`StatusAgreesInTheEnd`) |
| `views` (LiveViews) | 3 devices, 2 streams, 2 pointers, 2 browser widths, 2 rooms | the windows (`WindowsAreSound`), the monitoring page (`PageIsOfItsRoom`), its load ends (`LoadingEnds`) |
| `console` (ConsolePages) | below | the nine parts: `PagesAreSound`, `OneLoopServes`, `FormsAreTrue`, `ModalIsClosedByItsOwn`, and `PagesSettle` in the end |

A name such as `PlayerIsSound` or `HubIsSound` is the conjunction of the module's
named invariants, its type invariant among them; each conjunct has its own comment
in the module. `hub_safety` reaches 1.7 million states (in 2 to 3 minutes with two
workers), `activity_serial` 2.9 million, `membership` 1.1 million.

Bounds and why they are enough. The safety properties are proved for any instance
(section 5), so that for them the bounds only have to let the cases happen; for the
liveness properties they are all there is.

- *Two connections.* The hub's hazards need one who leaves and one who is there
  or comes: last to leave against first to join, a slow player met by another
  one's message. With two, the player map is empty, has one or has all; an old
  update loop and a new one can coexist if they ever do.
- *Two guests and stages* in StageBarrier: one that is ready first and one that is
  last, or both at once; a headset that is a stage ahead of the other. A check may
  meet any write of the other reader and of `Run`. Forced movements are looked at
  where headsets wait for one stage, since they make every later wait `unsure`.
  `BarrierSound` and `MovesWhenReady` hold for any number of guests, stages and forced
  movements.
- *Two participants, questions and choices* in QABoard: an answer overwritten, a
  question left for another, a participant that answers while the other is told.
  Three requests are the two of a snapshot and one that comes too early for the
  next. Answers, snapshots and activities meet in the flush alone, so three instances
  keep apart the counts that make the state space large.
- *Two visitors, two activities, one change of parameters* in RoomSession: one
  player there and one that comes, a second start while news of the end of the
  first is still under way.
- *Four connections of three devices* in SequenceNumbers: one device that is
  connected twice, one before and one after it in the order; two requests are an
  assignment and whatever overlaps it. The assignable numbers, 0 and 1, lie where
  the others would be numbered.
- *Queue capacities of 1* (1024 in `PlayerBroadcast`, 60 in a subscription).
  Empty and full are the cases the code distinguishes, and they are next to each
  other. The theorems hold for any capacity.
- *Two sessions* in `stream_safety`: the end of one overlapping the start of the
  next. One is enough for the leave/rejoin properties, which speak about a
  session. No bound on the steps of a session.
- *Two timers per viewer*, not a bound: `removeSubscriber` runs at most twice
  for a subscription.
- *Two activities*: one that runs and one that wants to. `MaxEvents = 2` allows
  an event before and one after a restart, and both kinds of artifact in one
  activity. `MaxCrashes = MaxFailures = 1`: a fault at any step; the theorems
  hold for any number.
- *Two rooms, devices and requests* in `membership`: a device moves from one room
  to the other while a second request takes the place it leaves. `MaxDevices = 1`
  makes both rooms fill up. `MaxRestarts = 2` cuts off a request and then the
  startup that repairs it.
- *One goroutine in `activity_serial`*: the requests are not safe against each
  other (section 6). The run states what is true of the handlers one after the
  other, and is the precondition the theorems name.
- *Two attempts* of a player: a former one and the present one; all code tells
  apart is whether an attempt is the present one. A candidate before and one
  after the answer.
- *`control`*: two polls, since one alone cannot be overtaken; a switch, since
  the way back is another switch of the same kind; a failure at any step, also in
  the rollback of a step refused by the server, which is no failure. `assignment`
  has two handlers at a time for the same reason. `StartIsAllOrNothing` and
  `EndsInItsPlace` hold for any number.
- *Limits of 1 and 2 retries*: a first failure that is the last, and one that is
  not; each round reads the limit anew, so both occur in one behaviour.
- *`views`*: three devices for two streams, so that the limit is reached and a
  device is left over. Widths of 3 and 5 with windows of 1 to 3 and a padding of
  1: a window that fits, one that just fits and one that does not.
  `MaxZ = 4` lets two windows pass each other twice.
- *`console`*: two of each that meet (loops, devices, handlers, loads, items,
  openings, players), one failure in each part, three actions of which two are
  of one kind, and a plan that reaches two metres each way, with one position
  inside and one outside; silence is told after one second, so three ages
  suffice.

`CHECK_DEADLOCK FALSE` in the hub and stream runs, `player`, `views` and
`console`: every connection has ended, every subscription is closed, the player
is unmounted with its attempts used up, the monitoring page has lost its socket,
the room form is saved. `hub_safety` can also really stop (section 6),
`hub_progress` shows when it does not; in its other parts all guests have left and
the answers are used up. `SYMMETRY` is used in `hub_safety`, `stream_safety` and
`membership` only, which check no liveness property.

Every property has a mutant in `PROJECT.json`: a plausible bug in one definition
(a dropped check, a missing reset, a list replaced instead of extended) that
makes the run fail.

## 4. Fairness

`RoomHub!Fairness`. Strong fairness for `RunRegister`, the two
unregistrations and `TakeReport`, weak fairness for `RunStop`: Go schedules every
runnable goroutine, a `select` picks among its ready cases at random, and the
senders blocked on one channel are queued first come, first served. A send that
its receiver can take again and again is therefore taken, although `Run` also has
other things to do in between. Nothing is assumed of headsets, HTTP clients or
of slow writers; `hub_progress` has no slow connections because with them the
properties are false (section 6).

`StreamHub`. `Scheduling` is weak fairness of goroutines that run: a call that
began goes on, a timer fires, a broadcast goes through its snapshot. `Reads`
assumes a device that keeps sending, since `StreamAccessUnits` looks at its
context between two reads (without it `UnwatchedSourceEnds` is false). `Keyframes`
assumes that an encoder yields key frames again and again. No viewer is assumed
to read its queue, to come or to leave.

`LivePlayer`. Only the timer: `WF(Stall)`, which the browser's `setTimeout`
gives. The network may say nothing at all.

`RoomControl`, `DeviceAssignment`, `DeviceConnection`, `LiveViews`,
`ConsolePages`. A request is answered or fails (`fetch` settles, the service has
its timeouts for adb), a handler goes on after its `await`, and the polls of a
page that is shown are sent every five seconds: weak fairness of the
steps `Served`, `Patched`, `Load`, `Poll...`, `Handler`, `Loaded`, `SaveStep`,
`DeleteStep`, `Proceed`. In `DeviceConnection` a service that runs begins
rounds and ends them. In `MonitoringSwitch` `OnceRound` and `LoopRound` are
strongly fair, because the mutex they wait for is handed on in turn (Go's is,
when a goroutine has waited for a millisecond). No operator is assumed to click,
no socket to deliver.

`ActivityFlow`, `RoomMembership`, `StageBarrier`, `QABoard`, `RoomSession` and
`SequenceNumbers` state no liveness; what the last four promise for the end is
stated of the states in which nothing is under way.

## 5. Proofs

For any set of connections, viewers, sources, activities, goroutines, rooms and
devices, any capacities and bounds:

**RoomPlayersProofs.** Of RoomHub `HubSound` (`HubIsSound`), from `TypeCorrect`,
`UpdaterSafe` and `MembersSafe`; `GhostsAreLateRegistrations`. Of StageBarrier
`BarrierSound` (`BarrierIsSound`) and `MovesWhenReady`, of QABoard `BoardSound`
(`BoardIsSound`) and `SnapshotsNeedAll`.

- `UpdaterFollowsMembers` is the conjunction of `OneUpdater`,
  `UpdaterServesMembers` and `StopFindsUpdater`. None is inductive alone, all
  three are: that a registration starts no second loop needs "no flag, no loop"
  at the select, which holds because the stop has found its loop, which needs the
  loop to exist while the stop waits. `UpdaterFrame` disposes of the steps that
  touch none of it and `RemoveKeepsUpdater` of all unregistrations.
- `MemberInv` adds to `MembersAreInRoom` that a player in standby or about to be
  registered is not yet a member and has, in the second case, its room set, and
  that a connection nobody opened is nowhere. From it `MembersAreInRoom` is
  preserved by a detach, which clears the room, and the action property
  `GhostOnlyByLateRegistration` follows step by step: a member's reader cannot
  skip its unregistration.

- `MoveInv`, for `MovedOnlyWhenReady`: whoever is marked ready, has been passed by
  a check, has yet to be given the movement a reader posted, or has been told one,
  said that it is ready for that stage or is beyond it, unless it is one of the
  excepted guests. The readers look one after the other and see each other's
  writes late, so the invariant speaks of a player from the moment a check has
  passed it until its headset moves; `BarrierTypes` carries the types. `CheckerPosts`,
  `CheckerUnread` and `PublishedTypes` are the steps of a reader.
- `AskInv`, for `SnapshotNeedsAll`: who has its flag set has asked since the last
  snapshot; while no two checks have crossed at most one reader is past its first
  step, and from then on until `Run` has answered all who are seated have asked.
- `OpenInv`, for `BarrierIsSound`: as long as nothing of what `unsure` records has
  happened, every player that waits is served (`Served`) - a movement or a sync is on
  its way to it, or somebody (`Holds`) will come to its stage, or has come and its
  reader has not yet looked at the others. When that one looks and finds somebody not
  ready, the obligation passes to whom it found; the step is `OpenTakes`, where
  `Flagged` is needed: the flag of a waiting player is set, or its own reader is about to
  set it. `OwnWords`, which nothing upsets, and `ForcedOn` and `GivenToAll`, which say
  that a command goes to all of the room, close it. `OpenFrame` and `RestOf` serve the
  steps of others.
- `BoardInv`, for `BoardIsSound`: the answers to a question are about to be told,
  being told, or told (`WillBeShown`). It needs that an answer under way is alone with
  the board (`AnsweredAlone`), which fails exactly when the question becomes `mixed`,
  and that what is told is the sheet as it is now (`ToldAsAnswered`).

**DeviceProofs**, of StreamHub: `StreamSound` (`StreamIsSound`), from `TypeCorrect`,
`OneLive` and `SlowViewersStay`; `OneLive` (`LiveSourceIsFound`, which is
inductive and implies that one session lives: a new source is started only when
`current` is not reusable, and then no source lives); `SlowViewersStay` (with
`Placed`: an open subscription is one of a source that exists);
`ClosedGetNothing`; `FirstUnits` (with `KeyFirst`: a viewer that has taken nothing
has an empty queue while it waits for its key frame, and a queue that begins with
one afterwards; the lemma `EnqueuedHead` says that an overflow keeps it so). Of
DeviceConnection: `OperatorHasTheLastWord` (`OperatorDecides`). `NothingUndoes`:
while a disconnection stands no request that would undo it is under way, nor an
attempt of the monitoring; `SomeoneConnects`: while a wish for a connection stands, a
device disconnected by hand has a handler that goes on to connect it; `RetryLeft`
keeps the count within the limits while they change.

**ActivityFlowProofs.** `TypeCorrect`; under the assumption `OneAtATime` (one
goroutine) `Implements` (the code implements `ActivityLifecycle`), `OneRuns` and
with it `ActivitySound` (`ActivityIsSound`), `RoomAgrees` and `ArchiveIsComplete`. Of
RoomSession `SessionSound` (`SessionIsSound`), of SequenceNumbers `SequencesSound`
(`SequencesAreSound`).

- `Fresh` says that what the goroutine has read is still so when it writes:
  between `ReadIndex` and `WriteIndex` the status is the one the call admits, and
  past `EnsureNoneRuns` nothing else runs. It needs no bound on restarts or
  failures: a restart throws away exactly the unwritten calls. `OneRuns` follows
  from the abstract step (`LifecycleStep`, `LifecycleOneRunning`).
- `RoomInv` strengthens the agreement of the room with the store to the middle of
  a request: a start has found the room empty until it enters it, an end or a
  cancel has made the room leave first.
- `ArchiveInv` gives the account of an activity while it is being archived:
  what has happened is what the detail file has plus what the goroutine still
  holds (`Pending`, `InHand`, `Archived`). It is void after a restart or a failed
  write, as `ArchivedUnlessFault` is.
- `SessionInv`: each player in the room knows the present parameters, or is excepted, or
  is one of those a goroutine has still to tell them (`ConfigComes`); the same of the
  commands to play and to stop (`StartComes`, `StopsBeforeEnd`), and of the count of
  players (`CountsAll`). `Admitted` says that `Run` registers one player at a time.
- `NumbersInv`: with the properties themselves, that since the last registration who has
  an assigned number has that one (`AsNumbered`), and what a request of the operator
  has written so far and a copy has read (`AsStored`). That a registration gives
  different numbers (`NumberingDiffers`) is counting: the j-th free number exists
  among the first ones (`FreeExists`, by the least number with j free ones below it), it
  is free (`FreeIsFree`), and the places of the names are ordered (`PlaceOrder`).

**RoomMembershipProofs.** `TypeCorrect`; `StartupIsRepeatable`
(`StartupKeepsOwners`); `StartupRepairs` (`StartupHeals`); `Undisturbed`
(`UndisturbedUnlessClash`) and with it `MembershipSound` (`MembershipIsSound`).

- `Ordered`: the update times of the stored rooms are a strict total order, which
  `TouchOrders` shows of every update. It makes the owner of a device unique.
- `StartupInv`: while startup runs, the map it computed still is what it would
  compute now, and once it comes to the devices no list is left to correct. This
  is not obvious, as a correction makes its room the newest: `FixKeepsOwner` shows
  that the corrected room then lists only devices it owned before, so for no
  device the newest room that lists it changes. The case of a device nobody owns
  needs the order to be transitive.
- `CorrectedAgrees` derives the agreement of both files from `StartupInv` when
  nothing is left to correct. Neither theorem has a hypothesis about what
  requests did before, nor about the number of restarts.
- `Calm` is what holds as long as no two requests have clashed: they do not
  concern each other (`Apart`), the lists are disjoint and within the capacity
  (`ListsOK`), each request has established what its stage says (`Holds`: an add
  past its check keeps its place, what it has to clear is in the rooms it still
  visits, a list composed outside the lock is still the list), and a device nobody
  moves names the room that lists it (`Settled`). `HoldsFrame` gives what one
  request may change under another that it does not concern; the steps of each
  request are a lemma each (`AddCalm`, `RemoveCalm`, `DeleteRoomCalm`,
  `DeleteDeviceCalm`, `StartupCalm`).

**LivePlayerProofs.** Of LivePlayer `AttemptsDoNotMix` (`PlayerIsSound`) and
`FormerAttemptsAreSilent` (`StaleIsSilent`); of LiveViews `LiveWindowsSound`
(`WindowsAreSound`) and `PageOfItsRoom` (`PageIsOfItsRoom`). The invariant adds that what is open
is held by the refs of the present attempt, where the cleanup finds it
(`OpenIsHeld`), and that a frame marked as rendered is its own. The three lemmas
are about the effect (`EffectKeeps`), the callbacks of any attempt
(`CallbackKeeps`) and the media events (`MediaKeeps`). That a former attempt is
silent follows from the guards of its callbacks, one by one, and needs no
invariant.

- `WindowsInv`: a device has one window and there are no more than streams (`OneEach`);
  the window brought to the front has the greatest z of all (`FrontAbove`), which is
  kept because a new z is one more than the greatest; a window placed in a browser wide
  enough for it is within it (`AllPlaced`), by the arithmetic of the clamping; who is
  dragged is there, and only where windows float.
- `PageInv`: of the loads and sockets under way only those of the room shown are active
  (`LoadsOfRoom`, `SocketsOfRoom`); what is shown is of the room and the badge is that of
  its socket, unless the close of a former one came late (`ShowsRoom`, `BadgeOfSocket`).

**RoomControlProofs.** `StartIsAllOrNothing` (`ControlIsSound`). `HandlerInv`: the
stage of the handler tells what it has in hand; an activity of this page that is
draft or running, not confirmed and not lost, is the one in hand at a stage that
confirms or cancels it.

**DeviceAssignmentProofs.** `EndsInItsPlace` (`AssignmentIsSound`). `ClearInv`:
while it is clear where the device should be, at most one handler is under way
and what it has left to do leads there.

**ConsolePagesProofs.** `PagesSound` (`PagesAreSound`), `LoopServes`
(`OneLoopServes`), `FormsTrue` (`FormsAreTrue`) and `ClosesItsOwn`
(`ModalIsClosedByItsOwn`). Each page has an invariant of its own with a lemma for its
start and one for its steps; `StepOfOnePage` shows that a step of the console is a
step of one page and none of the others, so that the conjunction `PagesInv` is kept
(`PagesStep`) without looking at a page twice.

- `SwitchInv`: the loop of the present channel exists while the service runs, later
  ones have not begun (`LoopsGoOn`), and of the loops that serve at most one is not
  counted by `overlaps`. A start adds the new loop and, when it finds others in their
  round, counts them; a loop that comes to wait, waits on the channel there is then.
- `TableInv`: as long as no answers have crossed and none was lost, an answer on its way
  is what the server has, and a table that is behind has a handler that goes on to load.
- `SettingsInv`: what a form has sent stays marked as changed until it is stored, and
  what comes back as saved is what the server keeps (`SavedIsMarked`, `SavedIsStored`).
- `FormInv`: a kind the operator has not touched has the action `Expected` of the room as
  it was, and so has what was sent once the list had come. That the control page
  resolves it to the same action (`ActionsKept`) needs that the first of a list
  in a set of at most one is the same in every order of the list (`FirstIs`).
- `ModalInv`: on the control page the modal that is open is the one the batch under way
  was confirmed in. `CommandInv`: the marks are those of the requests, of which one at
  a time starts or stops an app. `MapInv`: a marker differs from what it would be now
  only in a silence not yet shown; `ClampedStep` is the arithmetic of the arrows.

The only assumptions are the named ones on the constants, which TLC evaluates in
each run, and `OneAtATime`, which is a hypothesis of its theorems. Those on the
constants ask for numbers, for values that differ from "none", and, where something is
counted, for finite sets: of connections and assignable numbers (SequenceNumbers),
of devices and browser widths (LiveViews), of actions (RoomForm).

Every safety invariant and action property of the runs is stated by a theorem. Only
model-checked are the liveness properties (`LeaverEnds`, `RegistrationTaken`,
`RunReturns`, `UnwatchedSourceEnds`, `ServedWhileRunning`, `ConnectingEnds`,
`PageSettles`, `PagesSettle`, `StatusAgreesInTheEnd`, `LoadingEnds`), since TLAPS does
not handle `ENABLED`. Induction schemas are not available to its provers either; where
a sequence of numbers is searched, the proofs take the least element of a set
(`LeastOf`, from the well-foundedness of the naturals).

The theorems are about the specification of each part (`Spec`, `BarrierSpec`,
`BoardSpec`, `SessionSpec`, `NumbersSpec`, `ViewsSpec`, `ConnectionSpec`); a composition
chooses among parts that share no variable. Of ConsolePages, whose pages have no
specification of their own, the theorems are about the composition.

## 6. Conditions under which properties are stated

The conditions in the properties mark what the code does not promise. Each is
needed: TLC finds a counterexample when it is dropped.

The hub:

- *No InChannel is full* (`Slow = {}` in `hub_progress`). When one is, `Run` sends
  on `PlayerUnregister` while it handles a case (`room.go:500`), and only `Run`
  receives from that channel: it waits for itself (`run = "self"`). Or `Run` waits
  for `UpdateInfo` to take the stop signal while `UpdateInfo` waits for `Run` to
  take the unregistration of a full player.
- `GhostOnlyByLateRegistration`: a connection that ends before its registration
  is taken does stay a player of the room.

Stages, answers, numbers and messages:

- `unsure` in `BarrierIsSound`: nobody looks at a barrier again after a player has
  left or a waiting one has been registered; a reader gives up for good on a player
  whose arrival is still on its way or whose write it does not see yet; a movement
  clears the flag of a headset that got there before and is ready again; a forced
  movement leaves the flags as they are. In all these cases the players wait until
  one of them says again that it is ready.
- `odd` in `MovedOnlyWhenReady`: a guest that joins while a movement is being
  checked or waits for `Run` is moved with the others; so are guests after a
  movement the operator forced.
- `mixed` and `newcomer` in `BoardIsSound`: `UpdateInfo` takes the mark off for an
  answer that came while it told the former ones (`room.go:864`), only one question
  is current, and a participant that joins is told nothing until the next answer.
- `crossed` in `SnapshotNeedsAll`: two readers pass `CheckSnapShot` together and
  take two snapshots, or one resets the flags of an answer to the next question of
  the other; a player joins between the check and the answer.
- `late` in `SessionIsSound`: a config built before a change and queued after the
  one that tells it, and a command to play that `Run` sends to a new player after
  the command to stop, stay the last the player hears. `miscounted`: `StartActivity`
  counts a player that has left while it counts.
- `touched` and `passedOver` in `SequencesAreSound`: an assigned number another
  player has is not taken from it before the next registration; the connection that
  the map by name leaves out keeps its old number. One number may be assigned to two
  devices. `diverged`: a copy from the store that overlaps an assignment takes it
  out of the room, and a device taken out of the stored room keeps its number in the
  running one.

The live-view source:

- *A source that runs* (`ServedWhileRunning`). A viewer that found the source just
  before it ended subscribes after `closeSubscribers`: it gets nothing and is not
  closed (`scrcpy_stream_service.go:55`).
- No property says how long an unwatched source lives. After leave, join, leave
  the first timer still fires and cuts the grace of the second leave short (291),
  and a viewer that subscribes between `TimerFires` and `Cancel` loses its source.
- `Reads`: a silent device keeps its unwatched source for ever.

Activities:

- *One goroutine.* With two, both of two start requests pass all checks and both
  activities run (`activity_service.go:224`); the statistics of an event write
  "running" back over "ended" (329); a lantern whose statistics are still being
  written when the activity ends is missing from the archive (`room.go:616`).
- `ArchivedUnlessFault`: what happened before a restart is missing from the
  archive.
- `RoomAgreesUnlessRestarted`: a player that connects after a restart while the
  activity is being ended makes the room announce it for good.

Membership:

- `~clash` in `MembershipIsSound`: two adds of one device put it into two rooms, two
  adds to one room
  exceed its capacity (`room_service.go:155`), a device that is deleted takes one
  with it that was added to its room at that moment (`WriteList`), an add that
  overlaps a deletion leaves a device or a room that is gone. What of it is a
  disagreement of the two files is repaired at the next start; the capacity is
  not.

The console (section 2 has the lines):

- `returned` in `ConnectingEnds`, `lost` in `NothingIsLeftOver`: a wait nothing
  ends, an activity the page could not cancel.
- `wish = Unclear` in `EndsWhereAsked`: overlapping handlers, a failure between
  the two requests of a move, a row so old that the removal asked for is one from
  another room, or a draft nobody had chosen.
- `asked` and `cut` in DeviceConnection: an attempt of the monitoring under way,
  and a restart during an attempt.
- `overlaps` in `OneLoopServes`, `crossed` in `TableIsTrue`, `meanwhile` in
  `UnmarkedFormIsStored`, `late` in `BadgeIsTrue`, the conditions of
  `SavingKeepsTheActions` and `ModalIsClosedByItsOwn`, and `viewer = "control"` in
  `SilentIsShown`.

## 7. Not modelled

Of the modelled parts: payloads of messages, the wording of logs and errors, JSON
encoding, layout, and times other than "the timer may fire".

Of the components, and why:

- *Control socket, room runtime manager with standby and isolation, action
  execution, WebRTC signalling, scrcpy session start, H264 access units.* They have
  behaviour worth a model and are in the plan. Their hazards, known from reading:
  two runtimes of one room (`room_runtime_manager.go:65`), the disconnect of an old
  connection after a reconnect and a player registered before it leaves standby
  (`control_room.go:97`, 217), a deleted room whose `Run` goes on
  (`room_controller.go:160`), a writer that stops under its updater
  (`control.go:139`), callbacks of a former peer connection
  (`webrtc_stream_controller.go:121`, 157), a start that fails half-way
  (`stream_manager.go:154`), a picture split between two units (`parser.go:195`).
- *Of the room:* positions and lantern events, which are passed on; the panic of a
  check in a reader whose player is detached at that moment (`move.go:11`); the
  chapters without a barrier.
- *JSON repositories.* A file is written beside the old one and renamed; a save is
  one step in the modules that use it. A disk that fails is left out.
- *ADB, the scrcpy server, the headsets, the browser* are external: what they may
  do is a choice in the modules.
- *HTTP routes, preferences, models, constants* have no behaviour of their own;
  what of them is used is in the modules.
- *Other client components* render, or send one request whose state ends with it.

## 8. Plan

In order of importance.

1. **RoomHub, StreamHub, ActivityLifecycle and ActivityFlow, RoomMembership.**
   *Done*, with proofs of all their safety properties.
2. **The console**: LivePlayer, RoomControl, DeviceAssignment, DeviceConnection
   (with the server's monitoring), LiveViews, ConsolePages. *Done*, with proofs of all
   their safety properties.
3. **The room's messages**: StageBarrier, QABoard, RoomSession, SequenceNumbers.
   *Done*, with proofs of all their safety properties.
4. **RoomRuntime** - creation of runtimes, standby, late disconnect reports after
   a reconnect, double assignment, deletion, isolation. 1 device with 2
   connections, 2 rooms.
5. **StreamSignal, ScrcpyStart** - cleanup on every path. StreamSignal composes
   StreamHub (the subscription) with LivePlayer (the other end).
6. **AccessUnits** - NAL units to access units as a recursive function, against
   a reference definition on all inputs up to a length.
7. **ControlSocket, ActionBatch.**
8. Further theorems: of the modules of 4 to 7; that the readers of a room, its updater
   and its barriers, composed over shared players instead of side by side, keep the
   invariants of the parts.
