--------------------------- MODULE RoomMembership ---------------------------
(***************************************************************************)
(* Which device is in which room.                                          *)
(*                                                                         *)
(* The answer is stored twice: a room lists its devices (rooms.json) and a *)
(* device names its room (devices.json).  RoomService changes the two one  *)
(* after the other, without a lock across them, from any number of HTTP    *)
(* requests.  At startup the lists are taken for the truth: a device stays *)
(* in the most recently updated room that lists it.                        *)
(*                                                                         *)
(* A repository call is one step, its save included.  GetByID and GetAll   *)
(* hand out pointers to the stored rooms, so a request that holds one sees *)
(* later changes, those made after the room was deleted too.               *)
(***************************************************************************)
EXTENDS Naturals, FiniteSets

CONSTANTS
    Room,         \* rooms that may be created; the id of a room is not reused
    Device,
    Request,      \* goroutines that serve HTTP requests
    MaxDevices,   \* capacity of a room
    MaxRestarts,  \* bound on restarts of the server
    NoRoom,       \* Device.RoomID = ""
    NoDevice      \* no device

ASSUME MembershipAssumption ==
    /\ NoRoom \notin Room
    /\ NoDevice \notin Device
    /\ MaxDevices \in Nat
    /\ MaxRestarts \in Nat

VARIABLES
    rooms,     \* the stored rooms
    unused,    \* rooms not created yet
    list,      \* Room.DeviceIDs
    newer,     \* <<r, s>>: room r was updated after room s
    devices,   \* the stored devices
    roomOf,    \* Device.RoomID
    request,   \* what each request does
    boot,      \* "up", or the part of startup under way
    assigned,  \* the map computed at startup
    clash,     \* history: two requests that concern each other overlapped
    restarts   \* number of restarts

roomVars == <<rooms, unused, list, newer>>
storeVars == <<roomVars, devices, roomOf>>
bootVars == <<boot, assigned, restarts>>
vars == <<storeVars, request, bootVars, clash>>

-----------------------------------------------------------------------------
(* Rooms *)

\* Room r has been updated: it is the newest of the stored rooms.
Touch(r) ==
    newer' = {p \in newer : r \notin {p[1], p[2]}} \cup {<<r, s>> : s \in rooms \ {r}}

\* r is the newest stored room that lists d.
Owns(r, d) ==
    /\ r \in rooms
    /\ d \in list[r]
    /\ \A s \in rooms : d \in list[s] => <<s, r>> \notin newer

Owner(d) == IF \E r \in rooms : Owns(r, d)
            THEN CHOOSE r \in rooms : Owns(r, d)
            ELSE NoRoom

-----------------------------------------------------------------------------
(* Requests *)

Stages == {"idle", "move", "insert", "assign", "check", "clear", "release",
           "purge", "write"}

RequestState ==
    [stage : Stages, room : Room \cup {NoRoom}, dev : Device \cup {NoDevice},
     rooms : SUBSET Room,      \* rooms still to be visited
     devs : SUBSET Device]     \* devices still to be released, or the new list

Idle == [stage |-> "idle", room |-> NoRoom, dev |-> NoDevice, rooms |-> {}, devs |-> {}]

Become(q, state) == request' = [request EXCEPT ![q] = state]
Return(q) == Become(q, Idle)

Adds(s) == s.stage \in {"move", "insert", "assign"}
Deletes(s) == s.stage \in {"release", "purge", "write"}

\* Two requests concern each other: they are about one device, both add to one
\* room, or one of them deletes something.
Concern(s, t) ==
    \/ s.dev = t.dev
    \/ Adds(s) /\ Adds(t) /\ s.room = t.room
    \/ Deletes(s) \/ Deletes(t)

\* A request begins in the given state.
Arrive(q, state) ==
    /\ boot = "up"
    /\ request[q].stage = "idle"
    /\ Become(q, state)
    /\ clash' = (clash \/ \E p \in Request :
                             request[p].stage # "idle" /\ Concern(request[p], state))
    /\ UNCHANGED bootVars

At(q, stage) == request[q].stage = stage /\ UNCHANGED <<bootVars, clash>>

\* AddDeviceToRoom: the room is found and has a place, the device is found.
\* The other rooms are those of GetAll.
StartAdd(q, r, d) ==
    /\ r \in rooms
    /\ d \in list[r] \/ Cardinality(list[r]) < MaxDevices
    /\ d \in devices
    /\ Arrive(q, [stage |-> "move", room |-> r, dev |-> d, rooms |-> rooms \ {r}, devs |-> {}])
    /\ UNCHANGED storeVars

\* removeDeviceFromOtherRooms, one room; it gives up at a room that was deleted.
LeaveOther(q, r) ==
    LET s == request[q] IN
    /\ At(q, "move")
    /\ r \in s.rooms
    /\ \/ /\ s.dev \notin list[r]
          /\ Become(q, [s EXCEPT !.rooms = @ \ {r}])
          /\ UNCHANGED roomVars
       \/ /\ s.dev \in list[r] /\ r \in rooms
          /\ list' = [list EXCEPT ![r] = @ \ {s.dev}]
          /\ Touch(r)
          /\ Become(q, [s EXCEPT !.rooms = @ \ {r}])
          /\ UNCHANGED <<rooms, unused>>
       \/ /\ s.dev \in list[r] /\ r \notin rooms
          /\ Return(q)
          /\ UNCHANGED roomVars
    /\ UNCHANGED <<devices, roomOf>>

OthersLeft(q) ==
    /\ At(q, "move")
    /\ request[q].rooms = {}
    /\ Become(q, [request[q] EXCEPT !.stage = "insert"])
    /\ UNCHANGED storeVars

Insert(q) ==
    LET s == request[q] IN
    /\ At(q, "insert")
    /\ \/ /\ s.dev \in list[s.room]
          /\ Become(q, [s EXCEPT !.stage = "assign"])
          /\ UNCHANGED roomVars
       \/ /\ s.dev \notin list[s.room] /\ s.room \in rooms
          /\ list' = [list EXCEPT ![s.room] = @ \cup {s.dev}]
          /\ Touch(s.room)
          /\ Become(q, [s EXCEPT !.stage = "assign"])
          /\ UNCHANGED <<rooms, unused>>
       \/ /\ s.dev \notin list[s.room] /\ s.room \notin rooms
          /\ Return(q)
          /\ UNCHANGED roomVars
    /\ UNCHANGED <<devices, roomOf>>

\* The room id of a device, unless the device was deleted.
SetRoom(d, r) == roomOf' = IF d \in devices THEN [roomOf EXCEPT ![d] = r] ELSE roomOf

Assign(q) ==
    /\ At(q, "assign")
    /\ SetRoom(request[q].dev, request[q].room)
    /\ Return(q)
    /\ UNCHANGED <<roomVars, devices>>

\* RemoveDeviceFromRoom.
StartRemove(q, r, d) ==
    /\ r \in rooms
    /\ list' = [list EXCEPT ![r] = @ \ {d}]
    /\ Touch(r)
    /\ Arrive(q, [stage |-> "check", room |-> r, dev |-> d, rooms |-> {}, devs |-> {}])
    /\ UNCHANGED <<rooms, unused, devices, roomOf>>

\* Mutant of Check: the device's room is cleared even if it is another one.
CheckExists(q) ==
    /\ At(q, "check")
    /\ IF request[q].dev \in devices
       THEN Become(q, [request[q] EXCEPT !.stage = "clear"])
       ELSE Return(q)
    /\ UNCHANGED storeVars

Check(q) ==
    LET s == request[q] IN
    /\ At(q, "check")
    /\ IF s.dev \in devices /\ roomOf[s.dev] = s.room
       THEN Become(q, [s EXCEPT !.stage = "clear"])
       ELSE Return(q)
    /\ UNCHANGED storeVars

Clear(q) ==
    /\ At(q, "clear")
    /\ SetRoom(request[q].dev, NoRoom)
    /\ Return(q)
    /\ UNCHANGED <<roomVars, devices>>

\* DeleteRoom: the devices of the list as it is now lose their room, whatever
\* room that is by then, before the room goes.
StartDeleteRoom(q, r) ==
    /\ r \in rooms
    /\ Arrive(q, [stage |-> "release", room |-> r, dev |-> NoDevice, rooms |-> {}, devs |-> list[r]])
    /\ UNCHANGED storeVars

Release(q, d) ==
    /\ At(q, "release")
    /\ d \in request[q].devs
    /\ SetRoom(d, NoRoom)
    /\ Become(q, [request[q] EXCEPT !.devs = @ \ {d}])
    /\ UNCHANGED <<roomVars, devices>>

\* RoomRepository.Delete; nothing is deleted twice.
DropRoom(q) ==
    LET r == request[q].room IN
    /\ At(q, "release")
    /\ request[q].devs = {}
    /\ rooms' = rooms \ {r}
    /\ newer' = {p \in newer : r \notin {p[1], p[2]}}
    /\ Return(q)
    /\ UNCHANGED <<unused, list, devices, roomOf>>

\* The HTTP handler of DeleteDevice: RemoveDeviceFromAllRooms, whether or not
\* the device exists, then DeviceRepository.Delete.
StartDeleteDevice(q, d) ==
    /\ Arrive(q, [stage |-> "purge", room |-> NoRoom, dev |-> d, rooms |-> rooms, devs |-> {}])
    /\ UNCHANGED storeVars

\* A room that does not list the device and has no sequence number for it.
Skip(q, r) ==
    LET s == request[q] IN
    /\ At(q, "purge")
    /\ r \in s.rooms
    /\ s.dev \notin list[r]
    /\ Become(q, [s EXCEPT !.rooms = @ \ {r}])
    /\ UNCHANGED storeVars

\* The list without the device is composed outside the repository's lock ...
ComposeList(q, r) ==
    LET s == request[q] IN
    /\ At(q, "purge")
    /\ r \in s.rooms
    /\ s.dev \in list[r]
    /\ Become(q, [s EXCEPT !.stage = "write", !.room = r, !.devs = list[r] \ {s.dev}])
    /\ UNCHANGED storeVars

\* RoomRepository.Update, which refuses a deleted room.
UpdateRoom(q, r) ==
    /\ \/ /\ r \in rooms
          /\ Touch(r)
          /\ Become(q, [request[q] EXCEPT !.stage = "purge", !.rooms = @ \ {r},
                                          !.room = NoRoom, !.devs = {}])
       \/ /\ r \notin rooms
          /\ Return(q)
          /\ UNCHANGED newer
    /\ UNCHANGED <<rooms, unused, devices, roomOf>>

\* ... and written over whatever the list has become.
WriteList(q) ==
    LET s == request[q] IN
    /\ At(q, "write")
    /\ list' = [list EXCEPT ![s.room] = s.devs]
    /\ UpdateRoom(q, s.room)

\* A room that only has a sequence number for the device.
ForgetSequence(q, r) ==
    LET s == request[q] IN
    /\ At(q, "purge")
    /\ r \in s.rooms
    /\ s.dev \notin list[r]
    /\ UpdateRoom(q, r)
    /\ UNCHANGED list

DropDevice(q) ==
    /\ At(q, "purge")
    /\ request[q].rooms = {}
    /\ devices' = devices \ {request[q].dev}
    /\ Return(q)
    /\ UNCHANGED <<roomVars, roomOf>>

\* Requests of one repository call.
CreateRoom(r) ==
    /\ boot = "up"
    /\ r \in unused
    /\ unused' = unused \ {r}
    /\ rooms' = rooms \cup {r}
    /\ Touch(r)
    /\ UNCHANGED <<list, devices, roomOf, request, bootVars, clash>>

CreateDevice(d) ==
    /\ boot = "up"
    /\ d \notin devices
    /\ devices' = devices \cup {d}
    /\ roomOf' = [roomOf EXCEPT ![d] = NoRoom]
    /\ UNCHANGED <<roomVars, request, bootVars, clash>>

\* PatchRoom, and updateAssignedSequence of the room's hub.
ChangeRoom(r) ==
    /\ boot = "up"
    /\ r \in rooms
    /\ Touch(r)
    /\ UNCHANGED <<rooms, unused, list, devices, roomOf, request, bootVars, clash>>

-----------------------------------------------------------------------------
(* Restart and startup *)

\* Mutant of Plan: the device's own room is trusted where it lists the device.
PlanByDevice == [d \in Device |-> IF roomOf[d] \in rooms /\ d \in list[roomOf[d]]
                                  THEN roomOf[d] ELSE Owner(d)]

Plan == [d \in Device |-> Owner(d)]

\* The server stops and starts again: requests are gone, the files stay, and
\* ReconcileDeviceAssignmentsByRoomUpdate computes which room keeps a device.
Restart ==
    /\ restarts < MaxRestarts
    /\ restarts' = restarts + 1
    /\ boot' = "rooms"
    /\ assigned' = Plan
    /\ request' = [q \in Request |-> Idle]
    /\ UNCHANGED <<storeVars, clash>>

Kept(r) == {d \in list[r] : assigned[d] = r}
ToFix == {r \in rooms : Kept(r) # list[r]}

\* Lists that change are saved one by one, the newest room first.
FixRoom(r) ==
    /\ boot = "rooms"
    /\ r \in ToFix
    /\ \A s \in ToFix : <<s, r>> \notin newer
    /\ list' = [list EXCEPT ![r] = Kept(r)]
    /\ Touch(r)
    /\ UNCHANGED <<rooms, unused, devices, roomOf, request, bootVars, clash>>

RoomsFixed ==
    /\ boot = "rooms"
    /\ ToFix = {}
    /\ boot' = "devices"
    /\ UNCHANGED <<storeVars, request, assigned, restarts, clash>>

\* Mutant of Misplaced: a device without a room is left as it is.
MisplacedAssigned == {d \in devices : assigned[d] # NoRoom /\ roomOf[d] # assigned[d]}

Misplaced == {d \in devices : roomOf[d] # assigned[d]}

FixDevice(d) ==
    /\ boot = "devices"
    /\ d \in Misplaced
    /\ roomOf' = [roomOf EXCEPT ![d] = assigned[d]]
    /\ UNCHANGED <<roomVars, devices, request, bootVars, clash>>

Serve ==
    /\ boot = "devices"
    /\ Misplaced = {}
    /\ boot' = "up"
    /\ assigned' = [d \in Device |-> NoRoom]
    /\ UNCHANGED <<storeVars, request, restarts, clash>>

-----------------------------------------------------------------------------
Init ==
    /\ rooms = {}
    /\ unused = Room
    /\ list = [r \in Room |-> {}]
    /\ newer = {}
    /\ devices = {}
    /\ roomOf = [d \in Device |-> NoRoom]
    /\ request = [q \in Request |-> Idle]
    /\ boot = "up"
    /\ assigned = [d \in Device |-> NoRoom]
    /\ clash = FALSE
    /\ restarts = 0

Add(q) == \/ \E r \in Room, d \in Device : StartAdd(q, r, d)
          \/ \E r \in Room : LeaveOther(q, r)
          \/ OthersLeft(q) \/ Insert(q) \/ Assign(q)

Remove(q) == \/ \E r \in Room, d \in Device : StartRemove(q, r, d)
             \/ Check(q) \/ Clear(q)

DeleteRoom(q) == \/ \E r \in Room : StartDeleteRoom(q, r)
                 \/ \E d \in Device : Release(q, d)
                 \/ DropRoom(q)

DeleteDevice(q) ==
    \/ \E d \in Device : StartDeleteDevice(q, d)
    \/ \E r \in Room : Skip(q, r) \/ ComposeList(q, r) \/ ForgetSequence(q, r)
    \/ WriteList(q) \/ DropDevice(q)

Startup == \/ \E r \in Room : FixRoom(r)
           \/ RoomsFixed
           \/ \E d \in Device : FixDevice(d)
           \/ Serve

Next ==
    \/ \E q \in Request : Add(q) \/ Remove(q) \/ DeleteRoom(q) \/ DeleteDevice(q)
    \/ \E r \in Room : CreateRoom(r) \/ ChangeRoom(r)
    \/ \E d \in Device : CreateDevice(d)
    \/ Restart
    \/ Startup

Spec == Init /\ [][Next]_vars

-----------------------------------------------------------------------------
(* Properties *)

\* Rooms are ordered by their updates only while they are stored, devices and
\* requests name rooms that were created, and startup runs without requests.
TypeOK ==
    /\ rooms \subseteq Room
    /\ unused \subseteq Room \ rooms
    /\ list \in [Room -> SUBSET Device]
    /\ newer \subseteq rooms \X rooms
    /\ devices \subseteq Device
    /\ roomOf \in [Device -> Room \cup {NoRoom}]
    /\ request \in [Request -> RequestState]
    /\ \A q \in Request : request[q].stage \notin {"idle", "release"} => request[q].dev \in Device
    /\ boot \in {"up", "rooms", "devices"}
    /\ boot # "up" => request = [q \in Request |-> Idle]
    /\ assigned \in [Device -> Room \cup {NoRoom}]
    /\ clash \in BOOLEAN
    /\ restarts \in 0..MaxRestarts

\* Both sides agree: the rooms are disjoint, and a device names the room that
\* lists it.
Agreed ==
    /\ \A r, s \in rooms : r # s => list[r] \cap list[s] = {}
    /\ \A d \in devices : \A r \in rooms : roomOf[d] = r <=> d \in list[r]
    /\ \A d \in devices : roomOf[d] \in rooms \cup {NoRoom}

\* Whatever overlapping requests and crashes have left in the two files, when
\* the server begins to serve both sides agree (room_service.go:290).
StartupHeals == [][boot # "up" /\ boot' = "up" => Agreed']_vars

\* Startup moves no device: the newest room that lists it stays so through
\* every correction, so a crash in the middle of them and a second startup
\* come to the same result (the corrections change the update times).
StartupKeepsOwners ==
    [][boot # "up" \/ boot' # "up" => \A d \in Device : Owner(d)' = Owner(d)]_vars

Busy(d) == \E q \in Request : request[q].stage # "idle" /\ request[q].dev = d
RoomGoes == \E q \in Request : request[q].stage = "release"

\* Requests that do not concern each other may overlap, and the server may stop
\* in the middle of any of them: no device is ever in two rooms, no room holds
\* more than it may or a device that is gone, and a device nobody is moving
\* names the room that lists it.
UndisturbedUnlessClash ==
    ~clash /\ boot = "up" =>
        /\ \A r, s \in rooms : r # s => list[r] \cap list[s] = {}
        /\ \A r \in rooms : Cardinality(list[r]) <= MaxDevices
        /\ \A r \in rooms : list[r] \subseteq devices
        /\ \A d \in devices : ~Busy(d) /\ ~RoomGoes =>
              \A r \in rooms : roomOf[d] = r <=> d \in list[r]

\* What the two files say at every moment.
MembershipIsSound == TypeOK /\ UndisturbedUnlessClash
=============================================================================
