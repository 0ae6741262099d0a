-------------------------- MODULE DeviceAssignment --------------------------
(***************************************************************************)
(* How the pages of the console put one device into a room: the group       *)
(* select and the "new device" panel of client/src/app/devices/page.tsx,    *)
(* and client/src/app/rooms/[id]/devices/page.tsx of one room, each open in *)
(* a tab of its own.                                                        *)
(*                                                                          *)
(* A page shows what its last load brought.  A move is two requests (take   *)
(* the device out of the room the page shows, put it into the other) and a  *)
(* load; the pages, and the two ways of the devices page, do not know of    *)
(* each other.  A request is one step of the server here: RoomMembership    *)
(* shows what it is made of.                                                *)
(***************************************************************************)
EXTENDS Naturals, FiniteSets

CONSTANTS
    Room,
    ThisRoom,      \* the room whose devices page is open
    NoRoom,        \* not assigned; the "" of the pages
    Unclear,       \* nobody can say where the device should be
    NoDraft,       \* isolationDrafts has no entry for the device
    MaxBusy,       \* bound: handlers under way at a time
    MaxFailures    \* bound: requests that fail

ASSUME AssignmentAssumption ==
    /\ ThisRoom \in Room /\ NoRoom \notin Room
    /\ Unclear \notin Room \cup {NoRoom} /\ NoDraft \notin Room \cup {NoRoom}
    /\ MaxBusy \in Nat \ {0} /\ MaxFailures \in Nat

Place == Room \cup {NoRoom}

VARIABLES
    owner,     \* the room that has the device, on the server
    row,       \* device.room_id as the devices page shows it
    draft,     \* isolationDrafts: the room in the panel
    edited,    \* the operator has chosen the draft's room
    loads,     \* answers to loadDevices of the poll on their way to the page
    listed,    \* the room page lists the device (room.device_ids)
    roomRow,   \* device.room_id as the room page shows it
    job,       \* the handlers under way: select, panel, room
    wish,      \* history: where the operator has put the device
    failures

pageVars == <<row, draft, edited, listed, roomRow>>
vars == <<owner, row, draft, edited, loads, listed, roomRow, job, wish, failures>>

Handler == {"select", "panel", "room"}

\* The requests of a handler, in order, and the load at its end.  "from" is the
\* room it takes the device out of, "to" the one it puts it into.
Stage == {"idle", "patch", "remove", "add", "load"}
Job(stage, from, to) == [stage |-> stage, from |-> from, to |-> to]
Idle == Job("idle", NoRoom, NoRoom)
Loading == Job("load", NoRoom, NoRoom)
Adding(to) == Job("add", NoRoom, to)
Moving(from, to) == IF from # NoRoom THEN Job("remove", from, to) ELSE Adding(to)

\* Types: rooms as the pages and the server know them, no more failures than the bound.
TypeOK ==
    /\ owner \in Place /\ row \in Place /\ roomRow \in Place
    /\ draft \in Place \cup {NoDraft} /\ edited \in BOOLEAN
    /\ listed \in BOOLEAN
    /\ loads \subseteq Place
    /\ job \in [Handler -> [stage : Stage, from : Place, to : Place]]
    /\ wish \in Place \cup {Unclear}
    /\ failures \in 0..MaxFailures

Init ==
    /\ owner \in Place
    /\ row = owner /\ draft = NoDraft /\ edited = FALSE /\ loads = {}
    /\ listed = (owner = ThisRoom) /\ roomRow = owner
    /\ job = [h \in Handler |-> Idle]
    /\ wish = owner /\ failures = 0

----------------------------------------------------------------------------
(* The operator *)

Busy(h) == job[h].stage # "idle"
Quiet == \A h \in Handler : ~Busy(h)
Free(h) == ~Busy(h) /\ Cardinality({g \in Handler : Busy(g)}) < MaxBusy

\* What was asked cannot be told from the requests: the device is not in the
\* room shown, and is only taken out of that room, or left alone because it
\* seems to be in place.
Misled(from, to) == from # owner /\ to \in {NoRoom, from}

\* Where the device should be once a handler has done what it was asked: not
\* clear while another handler is under way.
WishOf(from, to) == IF Quiet /\ ~Misled(from, to) THEN to ELSE Unclear

\* syncDeviceRoomAssignment: no request for the same room, none to take the
\* device out of no room, none to put it into no room.
Begin(h, from, to) ==
    job' = [job EXCEPT ![h] = IF from = to THEN Loading ELSE Moving(from, to)]

\* handleAssignRoom: the select is disabled while its handler is under way.
\* Choosing the room shown does nothing.
AssignRoom(to) ==
    /\ Free("select") /\ to # row
    /\ Begin("select", row, to)
    /\ wish' = WishOf(row, to)
    /\ UNCHANGED <<owner, pageVars, loads, failures>>

\* The headset reports in from another address: a load finds it in the list of
\* isolated devices and makes a draft with the room of that moment, which later
\* loads keep.
DraftMade ==
    /\ draft = NoDraft
    /\ draft' = row
    /\ UNCHANGED <<owner, row, edited, loads, listed, roomRow, job, wish, failures>>

\* handleIsolationDraftChange.
EditDraft(to) ==
    /\ draft # NoDraft
    /\ draft' = to /\ edited' = TRUE
    /\ UNCHANGED <<owner, row, loads, listed, roomRow, job, wish, failures>>

\* handleUpdateFromIsolation: the new address is patched first.  Its room is an
\* afterthought: when the operator has not chosen it, the device should stay
\* where it is.
UpdateFromIsolation ==
    /\ draft # NoDraft /\ Free("panel")
    /\ job' = [job EXCEPT !["panel"] = Job("patch", NoRoom, draft)]
    /\ wish' = (IF ~Quiet THEN Unclear ELSE IF edited THEN draft ELSE wish)
    /\ UNCHANGED <<owner, pageVars, loads, failures>>

\* The patch is answered: the device is found in devicesRef.current, with the
\* room the page shows by now, and goes to the room the draft had at the click.
Patched ==
    /\ job["panel"].stage = "patch"
    /\ Begin("panel", row, job["panel"].to)
    /\ wish' = (IF job["panel"].to = wish /\ ~Misled(row, wish) THEN wish ELSE Unclear)
    /\ UNCHANGED <<owner, pageVars, loads, failures>>

\* handleAddDevice of the room page, for a device it does not list; it takes the
\* device out of the room shown first, even out of this one.
AddDevice ==
    /\ Free("room") /\ ~listed
    /\ job' = [job EXCEPT !["room"] = Moving(roomRow, ThisRoom)]
    /\ wish' = WishOf(roomRow, ThisRoom)
    /\ UNCHANGED <<owner, pageVars, loads, failures>>

\* handleRemoveDevice of the room page, for a device it lists.
RemoveDevice ==
    /\ Free("room") /\ listed
    /\ job' = [job EXCEPT !["room"] = Moving(ThisRoom, NoRoom)]
    /\ wish' = WishOf(ThisRoom, NoRoom)
    /\ UNCHANGED <<owner, pageVars, loads, failures>>

----------------------------------------------------------------------------
(* The requests of a handler *)

\* DELETE of the device in a room: nothing changes when it is in another.
RemoveFrom(r) == IF owner = r THEN NoRoom ELSE owner

Remove(h) ==
    /\ job[h].stage = "remove"
    /\ owner' = RemoveFrom(job[h].from)
    /\ job' = [job EXCEPT ![h] = IF @.to = NoRoom THEN Loading ELSE Adding(@.to)]
    /\ UNCHANGED <<pageVars, loads, wish, failures>>

\* (mutant) the server keeps a device that has a room
AddFree(h) ==
    /\ job[h].stage = "add"
    /\ owner' = (IF owner = NoRoom THEN job[h].to ELSE owner)
    /\ job' = [job EXCEPT ![h] = Loading]
    /\ UNCHANGED <<pageVars, loads, wish, failures>>

\* POST of the device to a room: the server takes it out of every other.
Add(h) ==
    /\ job[h].stage = "add"
    /\ owner' = job[h].to
    /\ job' = [job EXCEPT ![h] = Loading]
    /\ UNCHANGED <<pageVars, loads, wish, failures>>

\* (mutant) the select and the buttons stay disabled
RequestFailsStays(h) ==
    /\ job[h].stage \in {"patch", "remove", "add"}
    /\ failures < MaxFailures /\ failures' = failures + 1
    /\ job' = [job EXCEPT ![h].stage = "failed"]
    /\ wish' = Unclear
    /\ UNCHANGED <<owner, pageVars, loads>>

\* A request fails (the room is full or gone), or only its answer is lost: the
\* handler ends with an alert.  Nothing is loaded, and what it has done stays.
RequestFails(h) ==
    /\ job[h].stage \in {"patch", "remove", "add"}
    /\ failures < MaxFailures /\ failures' = failures + 1
    /\ job' = [job EXCEPT ![h] = Idle]
    /\ owner' \in {owner} \cup (CASE job[h].stage = "remove" -> {RemoveFrom(job[h].from)}
                                [] job[h].stage = "add" -> {job[h].to}
                                [] OTHER -> {})
    /\ wish' = Unclear
    /\ UNCHANGED <<pageVars, loads>>

\* The load at the end of a handler is shown by its page, and the handler ends.
\* (How a late answer is shown, the poll shows.)  The room page asks for its room
\* and for the devices at once, and may have either from before a change.
Load(h) ==
    /\ job[h].stage = "load"
    /\ job' = [job EXCEPT ![h] = Idle]
    /\ IF h = "room"
       THEN /\ roomRow' \in {roomRow, owner}
            /\ listed' \in {listed, owner = ThisRoom}
            /\ UNCHANGED row
       ELSE row' = owner /\ UNCHANGED <<listed, roomRow>>
    /\ UNCHANGED <<owner, draft, edited, loads, wish, failures>>

----------------------------------------------------------------------------
(* The poll of the devices page; the room page has none *)

\* The server answers a load; the answer may be shown after that of a handler's
\* load that was asked for later.
Poll ==
    /\ loads = {}
    /\ loads' = {owner}
    /\ UNCHANGED <<owner, pageVars, job, wish, failures>>

\* setDevices: whatever was shown or done since the server answered.
PollShown(r) ==
    /\ r \in loads
    /\ loads' = loads \ {r}
    /\ row' = r
    /\ UNCHANGED <<owner, draft, edited, listed, roomRow, job, wish, failures>>

----------------------------------------------------------------------------

Next ==
    \/ \E to \in Place : AssignRoom(to) \/ EditDraft(to) \/ PollShown(to)
    \/ DraftMade \/ UpdateFromIsolation \/ Patched \/ AddDevice \/ RemoveDevice
    \/ \E h \in Handler : Remove(h) \/ Add(h) \/ Load(h) \/ RequestFails(h)
    \/ Poll

Served(h) == Remove(h) \/ Add(h) \/ Load(h)

\* Requests are answered, and the devices page polls while it is visible.
Fairness ==
    /\ \A h \in Handler : WF_vars(Served(h))
    /\ WF_vars(Patched)
    /\ WF_vars(Poll)
    /\ WF_vars(\E r \in Place : PollShown(r))

Spec == Init /\ [][Next]_vars /\ Fairness

----------------------------------------------------------------------------
(* Properties *)

\* When nothing is under way the device is where the operator has put it,
\* however stale the page was he did it on, unless a request has failed, two
\* handlers overlapped, a device that had moved was taken out of the room shown,
\* or the panel moved it to the room of a draft nobody had chosen.
EndsWhereAsked == Quiet /\ wish # Unclear => owner = wish

\* Every handler ends, also when a request fails between two others: the select
\* and the buttons are enabled again.
ControlsComeBack == \A h \in Handler : Busy(h) ~> ~Busy(h)

\* When nobody moves the device any more the devices page ends up showing its
\* room, whichever answers come late.
ShowsTheRoomInTheEnd == <>[]Quiet => <>[](row = owner)

\* The server's side: the types hold and the device is where it was put.
AssignmentIsSound == TypeOK /\ EndsWhereAsked

\* The pages' side: every control is enabled again and every row is true.
PagesSettle == ControlsComeBack /\ ShowsTheRoomInTheEnd
=============================================================================
