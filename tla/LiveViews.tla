----------------------------- MODULE LiveViews -----------------------------
(***************************************************************************)
(* Where the console puts the live pictures of devices, one part at a time  *)
(* ("part", for a browser window shows one of them):                        *)
(*                                                                          *)
(*   control   the live views of client/src/app/rooms/[id]/control/page.tsx *)
(*             and the panel of the device selected there                   *)
(*   floating  client/src/components/console/live-stream-window.tsx, the    *)
(*             window that is dragged and resized with a pointer            *)
(*   monitor   client/src/app/monitoring/rooms/[id]/page.tsx, which shows   *)
(*             all devices of a room                                        *)
(*                                                                          *)
(* The list of windows is kept by lib/utils/live-stream-windows.ts.  Of its *)
(* geometry one axis is modelled; the other has the same formulas.          *)
(***************************************************************************)
EXTENDS Integers, SequencesExt

CONSTANTS
    Device, Room, None,
    MaxStreams,    \* LIVE_VIEW_MAX_STREAMS
    Padding, Offset, DefaultSize, MinSize,   \* the LIVE_VIEW_WINDOW_ constants of one axis
    Viewports,     \* window.innerWidth, as the operator may change it
    Pointer,       \* pointers of the screen: a mouse, fingers
    MaxZ,          \* bound: zIndex
    MaxSwitches,   \* bound: changes of the room shown
    MaxCloses      \* bound: times the server closes the WebSocket

ASSUME ViewsAssumption ==
    /\ None \notin Device \cup Room /\ IsFiniteSet(Device)
    /\ MaxStreams \in Nat \ {0} /\ MaxZ \in Nat /\ MaxSwitches \in Nat /\ MaxCloses \in Nat
    /\ Padding \in Nat /\ Offset \in Nat \ {0} /\ MinSize \in Nat \ {0}
    /\ DefaultSize \in Nat /\ DefaultSize >= MinSize
    /\ Viewports \subseteq Nat /\ IsFiniteSet(Viewports) /\ Viewports # {} /\ Room # {}

VARIABLES
    part,
    \* control
    online,      \* devices online in deviceMap
    listed,      \* displayDeviceIds
    windows,     \* liveWindows
    modal,       \* batchMonitoringModalOpen
    picked,      \* batchMonitoringSelectedIds
    panel,       \* selectedDeviceId while the panel of actions is open, or None
    front,       \* history: the window last opened or focused alone
    \* floating
    viewport,
    held,        \* the drag or resize under way, or None
    down,        \* pointers pressed
    \* monitor
    room,        \* roomId
    content,     \* the room whose devices are shown, or None
    loading,
    loads,       \* loads under way: their room, and whether they are active
    sockets,     \* WebSockets that are not closed: "new", "open", "closing"
    badge,       \* connectionStatus
    players,     \* the room the players shown are of, or None
    heard,       \* history: the present socket has delivered
    late,        \* history: a former socket closed after the present one was made
    switches, closes

controlVars == <<online, listed, modal, picked, panel, front>>
floatVars == <<viewport, held, down>>
monitorVars == <<room, content, loading, loads, sockets, badge, players, heard, late,
                 switches, closes>>
viewsVars == <<part, controlVars, windows, floatVars, monitorVars>>

Window == [device : Device, z : Nat, pos : Int, size : Nat, minimized : BOOLEAN,
           seen : Viewports \cup {None}]   \* seen: the viewport it was placed in

Devices(s) == {s[i].device : i \in DOMAIN s}
WindowOf(d) == windows[CHOOSE i \in DOMAIN windows : windows[i].device = d]

\* Types: no more windows than streams; sockets and loads of rooms.
ViewsTypeOK ==
    /\ part \in {"control", "floating", "monitor"}
    /\ online \subseteq Device /\ listed \subseteq Device
    /\ windows \in Seq(Window)
    /\ modal \in BOOLEAN /\ picked \subseteq Device
    /\ panel \in Device \cup {None} /\ front \in Device \cup {None}
    /\ viewport \in Viewports /\ down \subseteq Pointer
    /\ held \in {None} \cup [device : Device, how : {"drag", "resize"}, pointer : Pointer,
                             grip : Int]
    /\ room \in Room /\ content \in Room \cup {None} /\ loading \in BOOLEAN
    /\ loads \subseteq [room : Room, active : BOOLEAN]
    /\ sockets \subseteq [room : Room, state : {"new", "open", "closing"}]
    /\ badge \in {"connecting", "connected", "disconnected"}
    /\ players \in Room \cup {None}

Present == [room |-> room, state |-> "new"]

ViewsInit ==
    /\ part \in {"control", "floating", "monitor"}
    /\ online = (IF part = "floating" THEN Device ELSE {}) /\ listed = Device
    /\ windows = <<>> /\ modal = FALSE /\ picked = {} /\ panel = None /\ front = None
    /\ viewport \in (IF part = "floating" THEN Viewports ELSE {Max(Viewports)})
    /\ held = None /\ down = {}
    /\ room \in (IF part = "monitor" THEN Room ELSE {CHOOSE r \in Room : TRUE})
    /\ content = None /\ loading = (part = "monitor")
    /\ loads = (IF part = "monitor" THEN {[room |-> room, active |-> TRUE]} ELSE {})
    /\ sockets = (IF part = "monitor" THEN {Present} ELSE {})
    /\ badge = "connecting" /\ players = None /\ heard = FALSE /\ late = FALSE
    /\ switches = 0 /\ closes = 0

----------------------------------------------------------------------------
(* live-stream-windows.ts *)

\* getTopZIndex
Top(s) == Max({0} \cup {s[i].z : i \in DOMAIN s})

\* clampWindowPosition and clampWindowSize of one axis.
Larger(a, b) == IF a > b THEN a ELSE b
Smaller(a, b) == IF a < b THEN a ELSE b
ClampPosition(pos, size) ==
    Smaller(Larger(Padding, viewport - size - Padding), Larger(Padding, pos))
ClampSize(size) == Smaller(Larger(MinSize, viewport - 2 * Padding), Larger(MinSize, size))

\* createWindowState: windows cascade, and begin anew at the edge.
NewWindow(s, d) ==
    LET room_ == Larger(Padding, viewport - DefaultSize - Padding)
        raw == Padding + ((Len(s) * Offset) % Larger(Offset, room_))
    IN [device |-> d, z |-> Top(s) + 1, pos |-> ClampPosition(raw, DefaultSize),
        size |-> DefaultSize, minimized |-> FALSE, seen |-> viewport]

Changed(s, d, Change(_)) ==
    [i \in DOMAIN s |-> IF s[i].device = d THEN Change(s[i]) ELSE s[i]]

BringToFront(s, d) == Changed(s, d, LAMBDA w : [w EXCEPT !.z = Top(s) + 1])

Moved(s, d, pos) ==
    Changed(s, d, LAMBDA w : [w EXCEPT !.pos = ClampPosition(pos, w.size), !.seen = viewport])

Resized(s, d, size) ==
    Changed(s, d, LAMBDA w : [w EXCEPT !.size = ClampSize(size),
                                       !.pos = ClampPosition(w.pos, ClampSize(size)),
                                       !.seen = viewport])

Toggled(s, d) ==
    Changed(s, d, LAMBDA w : [w EXCEPT !.minimized = ~@, !.z = Top(s) + 1])

\* closeLiveStreamWindow: a device has one window.
Without(s, d) == RemoveAt(s, CHOOSE i \in DOMAIN s : s[i].device = d)

\* openOrFocusLiveStreamWindow
OpenOrFocus(s, d) ==
    IF d \in Devices(s) THEN BringToFront(s, d)
    ELSE IF Len(s) >= MaxStreams THEN s
    ELSE Append(s, NewWindow(s, d))

----------------------------------------------------------------------------
(* control *)

\* A poll or an update of the room changes what is known of a device; the effect
\* closes the panel of one that is no longer listed.
Flip(S, d) == IF d \in S THEN S \ {d} ELSE S \cup {d}
Refresh(d) ==
    /\ part = "control"
    /\ \/ online' = Flip(online, d) /\ UNCHANGED listed
       \/ listed' = Flip(listed, d) /\ UNCHANGED online
    /\ panel' = (IF panel \in listed' THEN panel ELSE None)
    /\ UNCHANGED <<part, windows, modal, picked, front, floatVars, monitorVars>>

\* handleOpenDeviceActions
OpenPanel(d) ==
    /\ part = "control" /\ d \in listed /\ panel' = d
    /\ UNCHANGED <<part, online, listed, windows, modal, picked, front, floatVars, monitorVars>>

ClosePanel ==
    /\ panel # None /\ panel' = None
    /\ UNCHANGED <<part, online, listed, windows, modal, picked, front, floatVars, monitorVars>>

\* handleOpenLiveStream: of a device that is shown online.
OpenLiveStream(d) ==
    /\ part \in {"control", "floating"} /\ d \in online /\ (part = "control" => panel = d)
    /\ Top(windows) < MaxZ
    /\ windows' = OpenOrFocus(windows, d)
    /\ front' = (IF d \in Devices(windows') THEN d ELSE front)
    /\ UNCHANGED <<part, online, listed, modal, picked, panel, floatVars, monitorVars>>

\* handleCloseLiveStream.  A window that goes takes its listeners along.
CloseLiveStream(d) ==
    /\ d \in Devices(windows)
    /\ windows' = Without(windows, d)
    /\ front' = (IF front = d THEN None ELSE front)
    /\ held' = (IF held # None /\ held.device = d THEN None ELSE held)
    /\ UNCHANGED <<part, online, listed, modal, picked, panel, viewport, down, monitorVars>>

\* All windows are put away.
CloseAll ==
    /\ part = "control" /\ windows # <<>>
    /\ windows' = <<>> /\ front' = None
    /\ UNCHANGED <<part, online, listed, modal, picked, panel, floatVars, monitorVars>>

\* handleOpenBatchMonitoringModal, and the choice in the modal.
OpenModal ==
    /\ part = "control" /\ ~modal /\ listed \cap online # {}
    /\ modal' = TRUE /\ picked' = listed \cap online
    /\ UNCHANGED <<part, online, listed, windows, panel, front, floatVars, monitorVars>>

Pick(d) ==
    /\ modal
    /\ picked' = Flip(picked, d)
    /\ UNCHANGED <<part, online, listed, modal, windows, panel, front, floatVars, monitorVars>>

CloseModal ==
    /\ modal /\ modal' = FALSE /\ picked' = {}
    /\ UNCHANGED <<part, online, listed, windows, panel, front, floatVars, monitorVars>>

\* The windows of a batch: stacked by number, not by zIndex, and not placed.
BatchWindow(d, z) ==
    [device |-> d, z |-> z, pos |-> 0, size |-> 0, minimized |-> FALSE, seen |-> None]
Batch(ds) == [i \in DOMAIN ds |-> BatchWindow(ds[i], Len(windows) + i)]
Orders(S) == {f \in [1..Cardinality(S) -> S] : \A i, j \in DOMAIN f : f[i] = f[j] => i = j}

\* (mutant) the windows already there are not counted
ConfirmBatchAlone ==
    /\ modal /\ picked # {}
    /\ \E ds \in Orders(picked \ Devices(windows)) :
           windows' = windows \o SubSeq(Batch(ds), 1, Smaller(Len(ds), MaxStreams))
    /\ front' = (IF picked \subseteq Devices(windows) THEN front ELSE None)
    /\ modal' = FALSE /\ picked' = {}
    /\ UNCHANGED <<part, online, listed, panel, floatVars, monitorVars>>

\* handleConfirmBatchMonitoring: devices that went offline since are added too;
\* of too many the first ones.
ConfirmBatch ==
    /\ modal /\ picked # {}
    /\ \E ds \in Orders(picked \ Devices(windows)) :
           windows' = windows \o SubSeq(Batch(ds), 1, Smaller(Len(ds), MaxStreams - Len(windows)))
    /\ front' = (IF picked \subseteq Devices(windows) THEN front ELSE None)
    /\ modal' = FALSE /\ picked' = {}
    /\ UNCHANGED <<part, online, listed, panel, floatVars, monitorVars>>

----------------------------------------------------------------------------
(* floating *)

\* Any press on a window focuses it; one on its header begins a drag, one on its
\* handle a resize, which a minimized window has not.
Press(p, d, at, how) ==
    /\ part = "floating" /\ p \notin down /\ d \in Devices(windows)
    /\ Top(windows) < MaxZ
    /\ how = "resize" => ~WindowOf(d).minimized
    /\ down' = down \cup {p}
    /\ windows' = BringToFront(windows, d) /\ front' = d
    /\ held' = [device |-> d, how |-> how, pointer |-> p,
                grip |-> IF how = "drag" THEN at - WindowOf(d).pos ELSE at - WindowOf(d).size]
    /\ UNCHANGED <<part, online, listed, modal, picked, panel, viewport, monitorVars>>

\* handlePointerMove: only of the pointer that began.
Drag(p, at) ==
    /\ p \in down /\ held # None /\ held.pointer = p
    /\ windows' = (IF held.how = "drag" THEN Moved(windows, held.device, at - held.grip)
                   ELSE Resized(windows, held.device, Larger(0, at - held.grip)))
    /\ windows' # windows
    /\ UNCHANGED <<part, controlVars, floatVars, monitorVars>>

\* handlePointerUp, of any pointer: the drag ends.
Release(p) ==
    /\ p \in down /\ down' = down \ {p}
    /\ held' = None
    /\ UNCHANGED <<part, controlVars, windows, viewport, monitorVars>>

ToggleMinimized(d) ==
    /\ part = "floating" /\ d \in Devices(windows) /\ Top(windows) < MaxZ
    /\ windows' = Toggled(windows, d) /\ front' = d
    /\ UNCHANGED <<part, online, listed, modal, picked, panel, floatVars, monitorVars>>

\* The browser is resized; windows stay where they are.
ResizeBrowser(v) ==
    /\ part = "floating" /\ v # viewport /\ down = {} /\ viewport' = v
    /\ UNCHANGED <<part, controlVars, windows, held, down, monitorVars>>

----------------------------------------------------------------------------
(* monitor *)

\* Another room: the cleanups of both effects, then the effects.
Switch(r) ==
    /\ part = "monitor" /\ r # room /\ switches < MaxSwitches
    /\ room' = r /\ switches' = switches + 1
    /\ loading' = TRUE
    /\ loads' = {[l EXCEPT !.active = FALSE] : l \in loads} \cup {[room |-> r, active |-> TRUE]}
    /\ sockets' = {[s EXCEPT !.state = "closing"] : s \in sockets}
                      \cup {[room |-> r, state |-> "new"]}
    /\ badge' = "connecting" /\ heard' = FALSE /\ late' = FALSE
    /\ UNCHANGED <<part, controlVars, windows, floatVars, content, players, closes>>

\* (mutant) the effect has no cleanup
LoadedAnyway(l) ==
    /\ l \in loads /\ loads' = loads \ {l}
    /\ loading' = FALSE
    /\ content' \in {l.room, None}
    /\ UNCHANGED <<part, controlVars, windows, floatVars, room, sockets, badge, players, heard,
                   late, switches, closes>>

\* (mutant) a load that fails leaves the page loading
LoadedWell(l) ==
    /\ l \in loads /\ loads' = loads \ {l}
    /\ \/ l.active /\ loading' = FALSE /\ content' = l.room
       \/ UNCHANGED <<loading, content>>
    /\ UNCHANGED <<part, controlVars, windows, floatVars, room, sockets, badge, players, heard,
                   late, switches, closes>>

\* A load is answered, or fails and shows an error instead of the room.
Loaded(l) ==
    /\ l \in loads /\ loads' = loads \ {l}
    /\ IF l.active THEN loading' = FALSE /\ content' \in {l.room, None}
       ELSE UNCHANGED <<loading, content>>
    /\ UNCHANGED <<part, controlVars, windows, floatVars, room, sockets, badge, players, heard,
                   late, switches, closes>>

SocketOpens(s) ==
    /\ s \in sockets /\ s.state = "new"
    /\ sockets' = (sockets \ {s}) \cup {[s EXCEPT !.state = "open"]}
    /\ badge' = "connected"
    /\ UNCHANGED <<part, controlVars, windows, floatVars, room, content, loading, loads, players,
                   heard, late, switches, closes>>

\* A message sets the players; the page forgets none when the room changes.
SocketDelivers(s) ==
    /\ s \in sockets /\ s.state = "open"
    /\ players' = s.room /\ heard' = TRUE
    /\ UNCHANGED <<part, controlVars, windows, floatVars, room, content, loading, loads, sockets,
                   badge, late, switches, closes>>

\* onclose and onerror: of a socket the cleanup closed, too, whenever that is done.
SocketCloses(s) ==
    /\ s \in sockets
    /\ IF s.state = "closing" THEN UNCHANGED closes
       ELSE closes < MaxCloses /\ closes' = closes + 1
    /\ sockets' = sockets \ {s}
    /\ badge' = "disconnected"
    /\ late' = (late \/ s.state = "closing")
    /\ UNCHANGED <<part, controlVars, windows, floatVars, room, content, loading, loads, players,
                   heard, switches>>

----------------------------------------------------------------------------

ViewsNext ==
    \/ \E d \in Device : Refresh(d) \/ OpenPanel(d) \/ OpenLiveStream(d) \/ CloseLiveStream(d) \/ Pick(d)
                         \/ ToggleMinimized(d)
    \/ ClosePanel \/ CloseAll \/ OpenModal \/ CloseModal \/ ConfirmBatch
    \/ \E p \in Pointer, d \in Device, at \in 0..viewport, how \in {"drag", "resize"} :
           Press(p, d, at, how)
    \/ \E p \in Pointer, at \in 0..viewport : Drag(p, at)
    \/ \E p \in Pointer : Release(p)
    \/ \E v \in Viewports : ResizeBrowser(v)
    \/ \E r \in Room : Switch(r)
    \/ \E l \in loads : Loaded(l)
    \/ \E s \in sockets : SocketOpens(s) \/ SocketDelivers(s) \/ SocketCloses(s)

\* Requests are answered.
ViewsSpec == ViewsInit /\ [][ViewsNext]_viewsVars /\ WF_viewsVars(\E l \in loads : Loaded(l))

----------------------------------------------------------------------------
(* Properties *)

\* A device has one window, and there are no more windows than streams, whether
\* they were opened one by one, by a batch, or by both.
WindowsAreFew ==
    /\ Len(windows) <= MaxStreams
    /\ Cardinality(Devices(windows)) = Len(windows)

\* The window opened, focused or toggled last is above all others, whatever was
\* closed or added by a batch before.
FrontIsOnTop ==
    front # None => \A i \in DOMAIN windows :
        windows[i].device # front => windows[i].z < WindowOf(front).z

\* However it is dragged and resized, a floating window keeps within the browser
\* it was last placed in, with the padding at both ends, if it fits.
InView ==
    \A i \in DOMAIN windows :
        LET w == windows[i]
        IN w.seen # None /\ w.size + 2 * Padding <= w.seen =>
               w.pos >= Padding /\ w.pos + w.size <= w.seen - Padding

\* A drag does not outlive its pointer, nor its window.
DragIsHeld == held # None => held.pointer \in down /\ held.device \in Devices(windows)

\* Once it has loaded, the page shows the room of its address, though the load of
\* another may have been answered later.
ShowsItsRoom == part = "monitor" /\ ~loading /\ content # None => content = room

\* The badge tells of the present socket, and the players shown are of the room
\* from its first message on, unless a former socket closed late.
BadgeIsTrue ==
    part = "monitor" =>
        /\ badge = "connected" => [room |-> room, state |-> "open"] \in sockets
        /\ [room |-> room, state |-> "open"] \in sockets => badge = "connected" \/ late
        /\ heard => players = room

\* A load ends, whatever room the operator goes to.
LoadingEnds == loading ~> ~loading

\* The windows of the live views, whichever of their operations come together.
WindowsAreSound == ViewsTypeOK /\ WindowsAreFew /\ FrontIsOnTop /\ InView /\ DragIsHeld

\* The monitoring page of a room is about that room, whatever came late from the
\* one shown before.
PageIsOfItsRoom == ShowsItsRoom /\ BadgeIsTrue
=============================================================================
