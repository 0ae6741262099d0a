------------------------ MODULE RoomMembershipProofs ------------------------
(***************************************************************************)
(* Proofs about RoomMembership for every set of rooms, devices and          *)
(* requests, every capacity and any number of restarts.                     *)
(***************************************************************************)
EXTENDS RoomMembership, FiniteSetTheorems, TLAPS

\* The update order of the stored rooms is strict and total.
Ordered ==
    /\ \A r, s \in rooms : r = s \/ <<r, s>> \in newer \/ <<s, r>> \in newer
    /\ \A r, s \in rooms : <<r, s>> \in newer => <<s, r>> \notin newer
    /\ \A r, s, t \in rooms : <<r, s>> \in newer /\ <<s, t>> \in newer => <<r, t>> \in newer

\* An update of a room keeps the order total (RoomRepository.Update, Create).
LEMMA TouchOrders ==
    ASSUME TypeOK, Ordered, NEW r \in Room, Touch(r), rooms' = rooms \cup {r}
    PROVE  newer' \subseteq rooms' \X rooms' /\ Ordered'
<1>0. newer \subseteq rooms \X rooms
  BY DEF TypeOK
<1>1. newer' \subseteq rooms' \X rooms'
  BY <1>0 DEF Touch
<1>2. \A a, b \in rooms' : <<a, b>> \in newer' <=>
         \/ a # r /\ b # r /\ <<a, b>> \in newer
         \/ a = r /\ b # r
  BY DEF Touch
<1>3. Ordered'
  BY <1>2 DEF Ordered
<1>4. QED
  BY <1>1, <1>3

\* The stored rooms and their order, and the devices.
RoomsOK ==
    /\ rooms \subseteq Room
    /\ unused \subseteq Room \ rooms
    /\ list \in [Room -> SUBSET Device]
    /\ newer \subseteq rooms \X rooms
    /\ Ordered

DevicesOK ==
    /\ devices \subseteq Device
    /\ roomOf \in [Device -> Room \cup {NoRoom}]

\* A state that a request can be in.
WellFormed(s) ==
    /\ s \in RequestState
    /\ s.stage \notin {"idle", "release"} => s.dev \in Device

\* Advancing a request or its list of rooms keeps its device.
LEMMA Advance ==
    ASSUME NEW s \in RequestState, NEW g \in Stages, NEW R \in SUBSET Room, NEW D \in SUBSET Device
    PROVE  /\ [s EXCEPT !.stage = g] \in RequestState
           /\ [s EXCEPT !.stage = g].dev = s.dev
           /\ [s EXCEPT !.rooms = R] \in RequestState
           /\ [s EXCEPT !.rooms = R].dev = s.dev
           /\ [s EXCEPT !.devs = D] \in RequestState
           /\ [s EXCEPT !.devs = D].stage = s.stage
BY DEF RequestState

\* A request that has returned is well-formed.
LEMMA IdleWellFormed == WellFormed(Idle)
BY DEF WellFormed, Idle, RequestState, Stages

\* A request that is not idle is well-formed, and the server is up.
LEMMA OpenRequest ==
    ASSUME TypeOK, NEW q \in Request, request[q].stage # "idle"
    PROVE  boot = "up" /\ WellFormed(request[q])
BY DEF TypeOK, Idle, WellFormed

\* A step of a request keeps all types if the part of the store it touches does.
LEMMA RequestStep ==
    ASSUME TypeOK, NEW q \in Request, NEW s, WellFormed(s), Become(q, s),
           boot = "up", UNCHANGED bootVars, clash' \in BOOLEAN,
           RoomsOK', DevicesOK'
    PROVE  TypeOK' /\ Ordered'
BY DEF TypeOK, WellFormed, Become, bootVars, RoomsOK, DevicesOK

\* What does not touch the rooms, or updates one and changes its list.
LEMMA RoomsFrame == RoomsOK /\ UNCHANGED roomVars => RoomsOK'
BY DEF RoomsOK, roomVars, Ordered

\* The update of one stored room keeps the rooms well-formed.
LEMMA RoomsUpdate ==
    ASSUME TypeOK, Ordered, NEW r \in rooms, Touch(r), UNCHANGED <<rooms, unused>>,
           list' \in [Room -> SUBSET Device]
    PROVE  RoomsOK'
<1>1. newer' \subseteq rooms' \X rooms' /\ Ordered'
  BY TouchOrders DEF TypeOK
<1>2. QED
  BY <1>1 DEF RoomsOK, TypeOK

\* The room id of one device.
LEMMA DevicesUpdate ==
    ASSUME DevicesOK, NEW d, NEW r \in Room \cup {NoRoom}, SetRoom(d, r), UNCHANGED devices
    PROVE  DevicesOK'
BY DEF DevicesOK, SetRoom

\* The type invariant covers rooms and devices.
LEMMA TypeParts == TypeOK /\ Ordered => RoomsOK /\ DevicesOK
BY DEF TypeOK, RoomsOK, DevicesOK

\* Each step of a request keeps the types and the order of the rooms.
LEMMA AddStep ==
    ASSUME TypeOK, Ordered, NEW q \in Request, Add(q)
    PROVE  TypeOK' /\ Ordered'
<1> USE DEF At, Return
<1>p. RoomsOK /\ DevicesOK
  BY TypeParts
<1>1. ASSUME NEW r \in Room, NEW d \in Device, StartAdd(q, r, d) PROVE TypeOK' /\ Ordered'
  <2> DEFINE s == [stage |-> "move", room |-> r, dev |-> d, rooms |-> rooms \ {r}, devs |-> {}]
  <2>1. WellFormed(s)
    BY DEF WellFormed, RequestState, Stages, TypeOK
  <2>2. Become(q, s) /\ boot = "up" /\ UNCHANGED bootVars /\ clash' \in BOOLEAN
    BY <1>1 DEF StartAdd, Arrive, TypeOK
  <2>3. RoomsOK' /\ DevicesOK'
    BY <1>1, <1>p, RoomsFrame DEF StartAdd, storeVars, DevicesOK
  <2> HIDE DEF s
  <2>4. QED
    BY <2>1, <2>2, <2>3, RequestStep
<1>2. ASSUME NEW r \in Room, LeaveOther(q, r) PROVE TypeOK' /\ Ordered'
  <2>0. boot = "up" /\ WellFormed(request[q]) /\ request[q].dev \in Device
    BY <1>2, OpenRequest DEF LeaveOther, WellFormed
  <2> DEFINE s == [request[q] EXCEPT !.rooms = @ \ {r}]
  <2>1. WellFormed(s)
    BY <2>0, Advance DEF WellFormed, RequestState
  <2>2. /\ Become(q, s) \/ Become(q, Idle)
        /\ \/ UNCHANGED roomVars
           \/ /\ r \in rooms /\ Touch(r) /\ UNCHANGED <<rooms, unused>>
              /\ list' = [list EXCEPT ![r] = @ \ {request[q].dev}]
        /\ UNCHANGED <<devices, roomOf, bootVars, clash>>
    BY <1>2 DEF LeaveOther
  <2> HIDE DEF s
  <2>3. RoomsOK'
    BY <2>2, <1>p, RoomsFrame, RoomsUpdate DEF RoomsOK
  <2>4. DevicesOK' /\ clash' \in BOOLEAN /\ UNCHANGED bootVars
    BY <2>2, <1>p DEF DevicesOK, TypeOK
  <2>5. QED
    BY <2>0, <2>1, <2>2, <2>3, <2>4, IdleWellFormed, RequestStep
<1>3. CASE OthersLeft(q)
  <2>0. boot = "up" /\ WellFormed(request[q]) /\ request[q].dev \in Device
    BY <1>3, OpenRequest DEF OthersLeft, WellFormed
  <2> DEFINE s == [request[q] EXCEPT !.stage = "insert"]
  <2>1. WellFormed(s)
    BY <2>0, Advance DEF WellFormed, Stages
  <2>2. Become(q, s) /\ UNCHANGED <<storeVars, bootVars, clash>>
    BY <1>3 DEF OthersLeft
  <2> HIDE DEF s
  <2>3. RoomsOK' /\ DevicesOK' /\ clash' \in BOOLEAN
    BY <2>2, <1>p, RoomsFrame DEF storeVars, DevicesOK, TypeOK
  <2>4. QED
    BY <2>0, <2>1, <2>2, <2>3, RequestStep
<1>4. CASE Insert(q)
  <2>0. boot = "up" /\ WellFormed(request[q]) /\ request[q].dev \in Device
    BY <1>4, OpenRequest DEF Insert, WellFormed
  <2> DEFINE s == [request[q] EXCEPT !.stage = "assign"]
             r == request[q].room
  <2>1. WellFormed(s)
    BY <2>0, Advance DEF WellFormed, Stages
  <2>2. /\ Become(q, s) \/ Become(q, Idle)
        /\ \/ UNCHANGED roomVars
           \/ /\ r \in rooms /\ Touch(r) /\ UNCHANGED <<rooms, unused>>
              /\ list' = [list EXCEPT ![r] = @ \cup {request[q].dev}]
        /\ UNCHANGED <<devices, roomOf, bootVars, clash>>
    BY <1>4 DEF Insert
  <2> HIDE DEF s, r
  <2>3. RoomsOK'
    BY <2>0, <2>2, <1>p, RoomsFrame, RoomsUpdate DEF RoomsOK
  <2>4. DevicesOK' /\ clash' \in BOOLEAN /\ UNCHANGED bootVars
    BY <2>2, <1>p DEF DevicesOK, TypeOK
  <2>5. QED
    BY <2>0, <2>1, <2>2, <2>3, <2>4, IdleWellFormed, RequestStep
<1>5. CASE Assign(q)
  <2>0. boot = "up" /\ request[q].room \in Room \cup {NoRoom}
    BY <1>5, OpenRequest DEF Assign, WellFormed, RequestState
  <2>1. RoomsOK' /\ DevicesOK' /\ clash' \in BOOLEAN
    BY <1>5, <2>0, <1>p, RoomsFrame, DevicesUpdate DEF Assign, TypeOK
  <2>2. QED
    BY <1>5, <2>0, <2>1, IdleWellFormed, RequestStep DEF Assign
<1>6. QED
  BY <1>1, <1>2, <1>3, <1>4, <1>5 DEF Add

\* The same of RemoveDeviceFromRoom.
LEMMA RemoveStep ==
    ASSUME TypeOK, Ordered, NEW q \in Request, Remove(q)
    PROVE  TypeOK' /\ Ordered'
<1> USE DEF At, Return
<1>p. RoomsOK /\ DevicesOK
  BY TypeParts
<1>1. ASSUME NEW r \in Room, NEW d \in Device, StartRemove(q, r, d) PROVE TypeOK' /\ Ordered'
  <2> DEFINE s == [stage |-> "check", room |-> r, dev |-> d, rooms |-> {}, devs |-> {}]
  <2>1. WellFormed(s)
    BY DEF WellFormed, RequestState, Stages
  <2>2. Become(q, s) /\ boot = "up" /\ UNCHANGED bootVars /\ clash' \in BOOLEAN
    BY <1>1 DEF StartRemove, Arrive, TypeOK
  <2>3. RoomsOK'
    BY <1>1, <1>p, RoomsUpdate DEF StartRemove, RoomsOK
  <2>4. DevicesOK'
    BY <1>1, <1>p DEF StartRemove, DevicesOK
  <2> HIDE DEF s
  <2>5. QED
    BY <2>1, <2>2, <2>3, <2>4, RequestStep
<1>2. CASE Check(q)
  <2>0. boot = "up" /\ WellFormed(request[q]) /\ request[q].dev \in Device
    BY <1>2, OpenRequest DEF Check, WellFormed
  <2> DEFINE s == [request[q] EXCEPT !.stage = "clear"]
  <2>1. WellFormed(s)
    BY <2>0, Advance DEF WellFormed, Stages
  <2>2. (Become(q, s) \/ Become(q, Idle)) /\ UNCHANGED <<storeVars, bootVars, clash>>
    BY <1>2 DEF Check
  <2> HIDE DEF s
  <2>3. RoomsOK' /\ DevicesOK' /\ clash' \in BOOLEAN
    BY <2>2, <1>p, RoomsFrame DEF storeVars, DevicesOK, TypeOK
  <2>4. QED
    BY <2>0, <2>1, <2>2, <2>3, IdleWellFormed, RequestStep
<1>3. CASE Clear(q)
  <2>0. boot = "up"
    BY <1>3, OpenRequest DEF Clear
  <2>1. RoomsOK' /\ DevicesOK' /\ clash' \in BOOLEAN
    BY <1>3, <1>p, RoomsFrame, DevicesUpdate DEF Clear, TypeOK
  <2>2. QED
    BY <1>3, <2>0, <2>1, IdleWellFormed, RequestStep DEF Clear
<1>4. QED
  BY <1>1, <1>2, <1>3 DEF Remove

\* The same of DeleteRoom.
LEMMA DeleteRoomStep ==
    ASSUME TypeOK, Ordered, NEW q \in Request, DeleteRoom(q)
    PROVE  TypeOK' /\ Ordered'
<1> USE DEF At, Return
<1>p. RoomsOK /\ DevicesOK
  BY TypeParts
<1>1. ASSUME NEW r \in Room, StartDeleteRoom(q, r) PROVE TypeOK' /\ Ordered'
  <2> DEFINE s == [stage |-> "release", room |-> r, dev |-> NoDevice, rooms |-> {}, devs |-> list[r]]
  <2>1. WellFormed(s)
    BY DEF WellFormed, RequestState, Stages, TypeOK
  <2>2. Become(q, s) /\ boot = "up" /\ UNCHANGED bootVars /\ clash' \in BOOLEAN
    BY <1>1 DEF StartDeleteRoom, Arrive, TypeOK
  <2>3. RoomsOK' /\ DevicesOK'
    BY <1>1, <1>p, RoomsFrame DEF StartDeleteRoom, storeVars, DevicesOK
  <2> HIDE DEF s
  <2>4. QED
    BY <2>1, <2>2, <2>3, RequestStep
<1>2. ASSUME NEW d \in Device, Release(q, d) PROVE TypeOK' /\ Ordered'
  <2>0. boot = "up" /\ WellFormed(request[q]) /\ request[q].stage = "release"
    BY <1>2, OpenRequest DEF Release
  <2> DEFINE s == [request[q] EXCEPT !.devs = @ \ {d}]
  <2>1. WellFormed(s)
    BY <2>0, Advance DEF WellFormed, RequestState
  <2>2. Become(q, s) /\ SetRoom(d, NoRoom) /\ UNCHANGED <<roomVars, devices, bootVars, clash>>
    BY <1>2 DEF Release
  <2> HIDE DEF s
  <2>3. RoomsOK' /\ DevicesOK' /\ clash' \in BOOLEAN
    BY <2>2, <1>p, RoomsFrame, DevicesUpdate DEF TypeOK
  <2>4. QED
    BY <2>0, <2>1, <2>2, <2>3, RequestStep
<1>3. CASE DropRoom(q)
  <2>0. boot = "up"
    BY <1>3, OpenRequest DEF DropRoom
  <2>1. \A a, b \in rooms' : <<a, b>> \in newer' <=> <<a, b>> \in newer
    BY <1>3 DEF DropRoom
  <2>2. Ordered'
    BY <1>3, <2>1 DEF DropRoom, Ordered
  <2>3. newer' \subseteq rooms' \X rooms'
    BY <1>3 DEF DropRoom, TypeOK
  <2>4. RoomsOK' /\ DevicesOK' /\ clash' \in BOOLEAN
    BY <1>3, <1>p, <2>2, <2>3 DEF DropRoom, RoomsOK, DevicesOK, TypeOK
  <2>5. QED
    BY <1>3, <2>0, <2>4, IdleWellFormed, RequestStep DEF DropRoom
<1>4. QED
  BY <1>1, <1>2, <1>3 DEF DeleteRoom

\* The same of DeleteDevice.
LEMMA DeleteDeviceStep ==
    ASSUME TypeOK, Ordered, NEW q \in Request, DeleteDevice(q)
    PROVE  TypeOK' /\ Ordered'
<1> USE DEF At, Return
<1>p. RoomsOK /\ DevicesOK
  BY TypeParts
<1>u. ASSUME NEW r, UpdateRoom(q, r), list' \in [Room -> SUBSET Device],
             request[q].stage \in {"purge", "write"}, UNCHANGED <<bootVars, clash>>
      PROVE  TypeOK' /\ Ordered'
  <2>0. boot = "up" /\ WellFormed(request[q]) /\ request[q].dev \in Device
    BY <1>u, OpenRequest DEF WellFormed
  <2> DEFINE s == [request[q] EXCEPT !.stage = "purge", !.rooms = @ \ {r},
                                     !.room = NoRoom, !.devs = {}]
  <2>1. WellFormed(s)
    <3>1. request[q].rooms \ {r} \in SUBSET Room /\ "purge" \in Stages /\ request[q] \in RequestState
      BY <2>0 DEF WellFormed, RequestState, Stages
    <3>2. s \in RequestState /\ s.dev = request[q].dev
      BY <3>1 DEF RequestState
    <3>3. QED
      BY <2>0, <3>2 DEF WellFormed
  <2>2. /\ Become(q, s) \/ Become(q, Idle)
        /\ (r \in rooms /\ Touch(r)) \/ UNCHANGED newer
        /\ UNCHANGED <<rooms, unused, devices, roomOf>>
    BY <1>u DEF UpdateRoom
  <2> HIDE DEF s
  <2>3. RoomsOK'
    <3>1. CASE r \in rooms /\ Touch(r)
      BY <1>u, <2>2, <3>1, RoomsUpdate
    <3>2. CASE UNCHANGED newer
      BY <1>u, <2>2, <3>2, <1>p DEF RoomsOK, Ordered
    <3>3. QED
      BY <2>2, <3>1, <3>2
  <2>4. DevicesOK' /\ clash' \in BOOLEAN /\ UNCHANGED bootVars
    BY <1>u, <2>2, <1>p DEF DevicesOK, TypeOK
  <2>5. QED
    BY <2>0, <2>1, <2>2, <2>3, <2>4, IdleWellFormed, RequestStep
<1>1. ASSUME NEW d \in Device, StartDeleteDevice(q, d) PROVE TypeOK' /\ Ordered'
  <2> DEFINE s == [stage |-> "purge", room |-> NoRoom, dev |-> d, rooms |-> rooms, devs |-> {}]
  <2>1. WellFormed(s)
    BY DEF WellFormed, RequestState, Stages, TypeOK
  <2>2. Become(q, s) /\ boot = "up" /\ UNCHANGED bootVars /\ clash' \in BOOLEAN
    BY <1>1 DEF StartDeleteDevice, Arrive, TypeOK
  <2>3. RoomsOK' /\ DevicesOK'
    BY <1>1, <1>p, RoomsFrame DEF StartDeleteDevice, storeVars, DevicesOK
  <2> HIDE DEF s
  <2>4. QED
    BY <2>1, <2>2, <2>3, RequestStep
<1>2. ASSUME NEW r \in Room, Skip(q, r) PROVE TypeOK' /\ Ordered'
  <2>0. boot = "up" /\ WellFormed(request[q]) /\ request[q].dev \in Device
    BY <1>2, OpenRequest DEF Skip, WellFormed
  <2> DEFINE s == [request[q] EXCEPT !.rooms = @ \ {r}]
  <2>1. WellFormed(s)
    BY <2>0, Advance DEF WellFormed, RequestState
  <2>2. Become(q, s) /\ UNCHANGED <<storeVars, bootVars, clash>>
    BY <1>2 DEF Skip
  <2> HIDE DEF s
  <2>3. RoomsOK' /\ DevicesOK' /\ clash' \in BOOLEAN
    BY <2>2, <1>p, RoomsFrame DEF storeVars, DevicesOK, TypeOK
  <2>4. QED
    BY <2>0, <2>1, <2>2, <2>3, RequestStep
<1>3. ASSUME NEW r \in Room, ComposeList(q, r) PROVE TypeOK' /\ Ordered'
  <2>0. boot = "up" /\ WellFormed(request[q]) /\ request[q].dev \in Device
    BY <1>3, OpenRequest DEF ComposeList, WellFormed
  <2> DEFINE s == [request[q] EXCEPT !.stage = "write", !.room = r, !.devs = list[r] \ {request[q].dev}]
  <2>1. WellFormed(s)
    <3>1. list[r] \ {request[q].dev} \in SUBSET Device /\ "write" \in Stages /\ request[q] \in RequestState
      BY <2>0 DEF WellFormed, Stages, TypeOK
    <3>2. s \in RequestState /\ s.dev = request[q].dev
      BY <3>1 DEF RequestState
    <3>3. QED
      BY <2>0, <3>2 DEF WellFormed
  <2>2. Become(q, s) /\ UNCHANGED <<storeVars, bootVars, clash>>
    BY <1>3 DEF ComposeList
  <2> HIDE DEF s
  <2>3. RoomsOK' /\ DevicesOK' /\ clash' \in BOOLEAN
    BY <2>2, <1>p, RoomsFrame DEF storeVars, DevicesOK, TypeOK
  <2>4. QED
    BY <2>0, <2>1, <2>2, <2>3, RequestStep
<1>4. ASSUME NEW r \in Room, ForgetSequence(q, r) PROVE TypeOK' /\ Ordered'
  BY <1>4, <1>u, <1>p DEF ForgetSequence, RoomsOK
<1>5. CASE WriteList(q)
  <2>1. request[q].devs \in SUBSET Device
    BY <1>5, OpenRequest DEF WriteList, WellFormed, RequestState
  <2>2. list' \in [Room -> SUBSET Device]
    BY <1>5, <2>1 DEF WriteList, TypeOK
  <2>3. QED
    BY <1>5, <1>u, <2>2 DEF WriteList
<1>6. CASE DropDevice(q)
  <2>0. boot = "up"
    BY <1>6, OpenRequest DEF DropDevice
  <2>1. RoomsOK' /\ DevicesOK' /\ clash' \in BOOLEAN
    BY <1>6, <1>p, RoomsFrame DEF DropDevice, DevicesOK, TypeOK
  <2>2. QED
    BY <1>6, <2>0, <2>1, IdleWellFormed, RequestStep DEF DropDevice
<1>7. QED
  BY <1>1, <1>2, <1>3, <1>4, <1>5, <1>6 DEF DeleteDevice

\* The corrections at startup keep the types and the order too.
LEMMA StartupStep ==
    ASSUME TypeOK, Ordered, Startup
    PROVE  TypeOK' /\ Ordered'
<1>p. RoomsOK /\ DevicesOK
  BY TypeParts
<1>1. ASSUME NEW r \in Room, FixRoom(r) PROVE TypeOK' /\ Ordered'
  <2>1. list' \in [Room -> SUBSET Device] /\ r \in rooms
    BY <1>1 DEF FixRoom, Kept, ToFix, TypeOK
  <2>2. RoomsOK'
    BY <1>1, <2>1, RoomsUpdate DEF FixRoom
  <2>3. QED
    BY <1>1, <2>2 DEF FixRoom, RoomsOK, bootVars, TypeOK
<1>2. CASE RoomsFixed
  BY <1>2 DEF RoomsFixed, storeVars, roomVars, TypeOK, Ordered
<1>3. ASSUME NEW d \in Device, FixDevice(d) PROVE TypeOK' /\ Ordered'
  BY <1>3 DEF FixDevice, roomVars, bootVars, TypeOK, Ordered
<1>4. CASE Serve
  BY <1>4 DEF Serve, storeVars, roomVars, TypeOK, Ordered
<1>5. QED
  BY <1>1, <1>2, <1>3, <1>4 DEF Startup

\* Every step keeps the types and the order of the rooms.
LEMMA TypeStep == TypeOK /\ Ordered /\ [Next]_vars => TypeOK' /\ Ordered'
<1> SUFFICES ASSUME TypeOK, Ordered, [Next]_vars PROVE TypeOK' /\ Ordered'
  OBVIOUS
<1>1. ASSUME NEW q \in Request, Add(q) \/ Remove(q) \/ DeleteRoom(q) \/ DeleteDevice(q)
      PROVE  TypeOK' /\ Ordered'
  BY <1>1, AddStep, RemoveStep, DeleteRoomStep, DeleteDeviceStep
<1>2. ASSUME NEW r \in Room, CreateRoom(r) PROVE TypeOK' /\ Ordered'
  <2>1. newer' \subseteq rooms' \X rooms' /\ Ordered'
    BY <1>2, TouchOrders DEF CreateRoom
  <2>2. QED
    BY <1>2, <2>1 DEF CreateRoom, bootVars, TypeOK
<1>3. ASSUME NEW r \in Room, ChangeRoom(r) PROVE TypeOK' /\ Ordered'
  <2>1. newer' \subseteq rooms' \X rooms' /\ Ordered'
    BY <1>3, TouchOrders DEF ChangeRoom
  <2>2. QED
    BY <1>3, <2>1 DEF ChangeRoom, bootVars, TypeOK
<1>4. ASSUME NEW d \in Device, CreateDevice(d) PROVE TypeOK' /\ Ordered'
  BY <1>4 DEF CreateDevice, roomVars, bootVars, TypeOK, Ordered
<1>5. CASE Restart
  <2>1. \A d \in Device : Owner(d) \in Room \cup {NoRoom}
    <3>1. SUFFICES ASSUME NEW d \in Device PROVE Owner(d) \in rooms \cup {NoRoom}
      BY DEF TypeOK
    <3>2. QED
      BY DEF Owner, Owns
  <2>2. assigned' \in [Device -> Room \cup {NoRoom}]
    BY <1>5, <2>1 DEF Restart, Plan
  <2>3. restarts' \in 0..MaxRestarts
    BY <1>5, MembershipAssumption DEF Restart, TypeOK
  <2>4. /\ request' = [q \in Request |-> Idle]
        /\ request' \in [Request -> RequestState]
        /\ \A q \in Request : request'[q].stage = "idle"
    BY <1>5, IdleWellFormed DEF Restart, WellFormed, Idle
  <2>5. QED
    BY <1>5, <2>2, <2>3, <2>4 DEF Restart, storeVars, roomVars, TypeOK, Ordered
<1>6. CASE UNCHANGED vars
  BY <1>6 DEF vars, storeVars, roomVars, bootVars, TypeOK, Ordered
<1>7. QED
  BY <1>1, <1>2, <1>3, <1>4, <1>5, <1>6, StartupStep DEF Next

\* An empty store is well-typed and ordered.
LEMMA TypeInit == Init => TypeOK /\ Ordered
<1> SUFFICES ASSUME Init PROVE TypeOK /\ Ordered
  OBVIOUS
<1>1. /\ request = [q \in Request |-> Idle]
      /\ request \in [Request -> RequestState]
      /\ \A q \in Request : request[q].stage = "idle"
  BY IdleWellFormed DEF Init, WellFormed, Idle
<1>2. RoomsOK /\ DevicesOK
  BY DEF Init, RoomsOK, DevicesOK, Ordered
<1>3. restarts \in 0..MaxRestarts
  BY MembershipAssumption DEF Init
<1>4. assigned \in [Device -> Room \cup {NoRoom}] /\ clash \in BOOLEAN
  BY DEF Init
<1>5. QED
  BY <1>1, <1>2, <1>3, <1>4 DEF Init, TypeOK, RoomsOK, DevicesOK

\* Types and order hold in every reachable state.
LEMMA TypeInvariant == Spec => [](TypeOK /\ Ordered)
BY TypeInit, TypeStep, PTL DEF Spec

\* Every variable keeps its type; in particular no request is served while
\* startup corrects the files.
THEOREM TypeCorrect == Spec => []TypeOK
BY TypeInvariant, PTL

-----------------------------------------------------------------------------
(* Startup *)

\* Of the stored rooms that list a device only one is the newest.
LEMMA OwnerIs ==
    ASSUME Ordered, NEW d \in Device, NEW r \in Room, Owns(r, d)
    PROVE  Owner(d) = r
<1>1. \A s \in rooms : Owns(s, d) => s = r
  BY DEF Owns, Ordered
<1>2. \E s \in rooms : Owns(s, d)
  BY DEF Owns
<1>3. QED
  BY <1>1, <1>2 DEF Owner

\* The same after a step.
LEMMA OwnerIsNext ==
    ASSUME Ordered', NEW d \in Device, NEW r \in Room, Owns(r, d)'
    PROVE  Owner(d)' = r
<1>1. \A s \in rooms' : Owns(s, d)' => s = r
  BY DEF Owns, Ordered
<1>2. \E s \in rooms' : Owns(s, d)'
  BY DEF Owns
<1>3. QED
  BY <1>1, <1>2 DEF Owner

\* The owner of a device, if it has one, is a stored room that lists it.
LEMMA OwnerOwns ==
    ASSUME NEW d \in Device
    PROVE  Owner(d) = NoRoom \/ (Owner(d) \in rooms /\ Owns(Owner(d), d))
BY DEF Owner

\* The correction of one room takes it from devices it does not own and makes
\* it the newest, which changes no owner.
LEMMA FixKeepsOwner ==
    ASSUME TypeOK, Ordered, NEW r \in Room, FixRoom(r),
           \A d \in Device : assigned[d] = Owner(d),
           NEW d \in Device
    PROVE  Owner(d)' = Owner(d)
<1>1. /\ r \in rooms /\ Touch(r) /\ rooms' = rooms
      /\ \A s \in Room : list'[s] = IF s = r THEN Kept(r) ELSE list[s]
  BY DEF FixRoom, ToFix, TypeOK
<1>2. \A a, b \in rooms : <<a, b>> \in newer' <=>
         \/ a # r /\ b # r /\ <<a, b>> \in newer
         \/ a = r /\ b # r
  BY <1>1 DEF Touch
<1>3. Ordered'
  BY TypeStep DEF Next, Startup
<1>4. d \in list'[r] <=> d \in list[r] /\ Owner(d) = r
  BY <1>1 DEF Kept
<1>5. CASE Owner(d) = r
  <2>1. Owns(r, d)
    BY <1>1, <1>5, OwnerOwns, MembershipAssumption
  <2>2. Owns(r, d)'
    BY <1>1, <1>2, <1>4, <1>5, <2>1 DEF Owns
  <2>3. QED
    BY <1>3, <1>5, <2>2, OwnerIsNext
<1>6. CASE Owner(d) # r /\ Owner(d) # NoRoom
  <2>1. PICK o \in rooms : o = Owner(d) /\ o \in Room /\ Owns(o, d) /\ o # r
    BY <1>6, OwnerOwns DEF TypeOK
  <2>2. \A s \in rooms : d \in list'[s] => s # r /\ d \in list[s]
    BY <1>1, <1>4, <1>6 DEF TypeOK
  <2>3. d \in list'[o] /\ o \in rooms'
    BY <1>1, <2>1 DEF Owns
  <2>4. Owns(o, d)'
    BY <1>1, <1>2, <2>1, <2>2, <2>3 DEF Owns
  <2>5. QED
    BY <1>3, <2>1, <2>4, OwnerIsNext
<1>7. CASE Owner(d) = NoRoom
  <2>1. NoRoom \notin rooms /\ rooms \subseteq Room
    BY MembershipAssumption DEF TypeOK
  <2>2. \A s \in rooms : ~Owns(s, d)
    BY <1>7, <2>1, OwnerIs, MembershipAssumption
  <2>3. \A s \in rooms : ~Owns(s, d)'
    <3>1. SUFFICES ASSUME NEW s \in rooms, Owns(s, d)' PROVE FALSE
      OBVIOUS
    <3>2. s # r /\ d \in list[s]
      BY <1>1, <1>4, <1>7, <2>1, <3>1 DEF Owns
    <3>3. PICK t \in rooms : d \in list[t] /\ <<t, s>> \in newer
      BY <2>2, <3>2 DEF Owns
    <3>4. PICK u \in rooms : u # r /\ d \in list[u] /\ <<u, s>> \in newer
      <4>1. CASE t # r
        BY <3>3, <4>1
      <4>2. CASE t = r
        <5>1. PICK u \in rooms : d \in list[u] /\ <<u, r>> \in newer
          BY <1>1, <2>2, <3>3, <4>2 DEF Owns
        <5>2. QED
          BY <1>1, <3>3, <4>2, <5>1 DEF Ordered
      <4>3. QED
        BY <4>1, <4>2
    <3>5. d \in list'[u] /\ <<u, s>> \in newer'
      BY <1>1, <1>2, <2>1, <3>2, <3>4
    <3>6. QED
      BY <1>1, <3>1, <3>4, <3>5 DEF Owns
  <2>4. QED
    BY <1>1, <1>7, <2>3 DEF Owner
<1>8. QED
  BY <1>5, <1>6, <1>7

\* A step that leaves the rooms alone changes no owner.
LEMMA OwnerFrame ==
    ASSUME UNCHANGED roomVars, NEW d \in Device
    PROVE  Owner(d)' = Owner(d)
BY DEF Owner, Owns, roomVars

\* While startup corrects the files, the map it computed says who owns what,
\* and when it comes to the devices every room lists its own devices only.
StartupInv ==
    boot # "up" =>
        /\ \A d \in Device : assigned[d] = Owner(d)
        /\ boot = "devices" => ToFix = {}

\* While requests are served no step ends outside of "up" but a restart, and
\* no request runs during startup.
LEMMA ServingStep ==
    ASSUME TypeOK, Next, ~Restart, ~Startup
    PROVE  boot = "up" /\ boot' = "up"
<1>1. ASSUME NEW q \in Request, Add(q) \/ Remove(q) \/ DeleteRoom(q) \/ DeleteDevice(q)
      PROVE  boot = "up" /\ UNCHANGED bootVars
  <2>1. CASE Add(q)
    BY <2>1, OpenRequest DEF Add, StartAdd, LeaveOther, OthersLeft, Insert, Assign, Arrive, At
  <2>2. CASE Remove(q)
    BY <2>2, OpenRequest DEF Remove, StartRemove, Check, Clear, Arrive, At
  <2>3. CASE DeleteRoom(q)
    BY <2>3, OpenRequest DEF DeleteRoom, StartDeleteRoom, Release, DropRoom, Arrive, At
  <2>4. CASE DeleteDevice(q)
    BY <2>4, OpenRequest DEF DeleteDevice, StartDeleteDevice, Skip, ComposeList,
       ForgetSequence, WriteList, DropDevice, Arrive, At
  <2>5. QED
    BY <1>1, <2>1, <2>2, <2>3, <2>4
<1>2. QED
  BY <1>1 DEF Next, CreateRoom, ChangeRoom, CreateDevice, bootVars

\* From its first to its last step, startup changes no owner.
LEMMA OwnersKept ==
    ASSUME TypeOK, Ordered, StartupInv, [Next]_vars, boot # "up" \/ boot' # "up",
           NEW d \in Device
    PROVE  Owner(d)' = Owner(d)
<1>1. CASE Restart
  BY <1>1, OwnerFrame DEF Restart, storeVars
<1>2. ASSUME NEW r \in Room, FixRoom(r) PROVE Owner(d)' = Owner(d)
  BY <1>2, FixKeepsOwner DEF StartupInv, FixRoom
<1>3. CASE RoomsFixed \/ Serve \/ (\E e \in Device : FixDevice(e)) \/ UNCHANGED vars
  BY <1>3, OwnerFrame DEF RoomsFixed, Serve, FixDevice, vars, storeVars
<1>4. QED
  BY <1>1, <1>2, <1>3, ServingStep DEF Startup

\* StartupInv is preserved: a restart establishes it, a correction keeps it.
LEMMA StartupStepInv ==
    ASSUME TypeOK, Ordered, StartupInv, [Next]_vars
    PROVE  StartupInv'
<1>1. CASE Restart
  <2>1. \A d \in Device : assigned'[d] = Owner(d) /\ boot' = "rooms"
    BY <1>1 DEF Restart, Plan
  <2>2. \A d \in Device : Owner(d)' = Owner(d)
    BY <1>1, OwnerFrame DEF Restart, storeVars
  <2>3. boot' = "rooms"
    BY <1>1 DEF Restart
  <2>4. QED
    BY <2>1, <2>2, <2>3 DEF StartupInv
<1>2. ASSUME NEW r \in Room, FixRoom(r) PROVE StartupInv'
  <2>1. boot = "rooms" /\ boot' = boot /\ assigned' = assigned
    BY <1>2 DEF FixRoom, bootVars
  <2>2. \A d \in Device : Owner(d)' = Owner(d)
    BY <2>1, OwnersKept
  <2>3. QED
    BY <2>1, <2>2 DEF StartupInv
<1>3. CASE RoomsFixed
  <2>1. boot = "rooms" /\ ToFix = {} /\ UNCHANGED <<roomVars, assigned>>
    BY <1>3 DEF RoomsFixed, storeVars
  <2>2. \A d \in Device : Owner(d)' = Owner(d)
    BY <2>1, OwnerFrame
  <2>3. ToFix' = {}
    BY <2>1 DEF ToFix, Kept, roomVars
  <2>4. QED
    BY <2>1, <2>2, <2>3 DEF StartupInv
<1>4. CASE (\E e \in Device : FixDevice(e)) \/ UNCHANGED vars
  <2>1. UNCHANGED <<roomVars, boot, assigned>>
    BY <1>4 DEF FixDevice, vars, storeVars, bootVars
  <2>2. \A d \in Device : Owner(d)' = Owner(d)
    BY <2>1, OwnerFrame
  <2>3. ToFix' = ToFix
    BY <2>1 DEF ToFix, Kept, roomVars
  <2>4. QED
    BY <2>1, <2>2, <2>3 DEF StartupInv
<1>5. CASE Serve
  BY <1>5 DEF Serve, StartupInv
<1>6. QED
  BY <1>1, <1>2, <1>3, <1>4, <1>5, ServingStep DEF Startup, StartupInv

\* The map computed at startup stays true until startup is over.
LEMMA StartupInvariant == Spec => []StartupInv
<1>1. Init => StartupInv
  BY DEF Init, StartupInv
<1>2. TypeOK /\ Ordered /\ StartupInv /\ [Next]_vars => StartupInv'
  BY StartupStepInv
<1>3. QED
  BY <1>1, <1>2, TypeInvariant, PTL DEF Spec

\* Startup moves no device, wherever it is interrupted: corrections change the
\* update times the next startup decides by, but not what it decides.
THEOREM StartupIsRepeatable == Spec => StartupKeepsOwners
<1>1. TypeOK /\ Ordered /\ StartupInv /\ [Next]_vars =>
        [boot # "up" \/ boot' # "up" => \A d \in Device : Owner(d)' = Owner(d)]_vars
  BY OwnersKept
<1>2. QED
  BY <1>1, TypeInvariant, StartupInvariant, PTL DEF Spec, StartupKeepsOwners

\* When every list and every device has been corrected, the two files agree.
LEMMA CorrectedAgrees ==
    ASSUME TypeOK, StartupInv, boot = "devices", Misplaced = {}
    PROVE  Agreed
<1>1. \A r \in rooms : \A d \in list[r] : Owner(d) = r
  BY DEF StartupInv, ToFix, Kept, TypeOK
<1>2. \A d \in devices : roomOf[d] = Owner(d)
  BY DEF StartupInv, Misplaced, TypeOK
<1>3. \A d \in Device : Owner(d) \in rooms => d \in list[Owner(d)]
  BY OwnerOwns, MembershipAssumption DEF Owns, TypeOK
<1>4. \A d \in Device : Owner(d) \in rooms \cup {NoRoom}
  BY OwnerOwns
<1>5. QED
  BY <1>1, <1>2, <1>3, <1>4 DEF Agreed, TypeOK

\* Whatever overlapping requests, failed requests and interrupted startups left
\* behind, the server begins to serve with both files in agreement.
THEOREM StartupRepairs == Spec => StartupHeals
<1>1. TypeOK /\ Ordered /\ StartupInv /\ [Next]_vars =>
        [boot # "up" /\ boot' = "up" => Agreed']_vars
  <2> SUFFICES ASSUME TypeOK, Ordered, StartupInv, [Next]_vars, boot # "up", boot' = "up"
               PROVE  Agreed'
    OBVIOUS
  <2>1. Serve
    BY ServingStep DEF Startup, FixRoom, RoomsFixed, FixDevice, Restart, bootVars, vars
  <2>2. Agreed
    BY <2>1, CorrectedAgrees DEF Serve
  <2>3. QED
    BY <2>1, <2>2 DEF Serve, storeVars, roomVars, Agreed
<1>2. QED
  BY <1>1, TypeInvariant, StartupInvariant, PTL DEF Spec, StartupHeals
-----------------------------------------------------------------------------
(* Requests that do not concern each other *)

\* No two requests under way concern each other; one that deletes is then alone.
Apart ==
    \A p, q \in Request : p # q /\ request[p].stage # "idle" /\ request[q].stage # "idle" =>
        ~Concern(request[p], request[q])

\* The lists: disjoint, within the capacity and of known devices; a room that has
\* not been created is named by nobody.
ListsOK ==
    /\ \A r, s \in rooms : r # s => list[r] \cap list[s] = {}
    /\ \A r \in rooms : IsFiniteSet(list[r]) /\ Cardinality(list[r]) <= MaxDevices
    /\ \A r \in rooms : list[r] \subseteq devices
    /\ \A r \in unused : list[r] = {} /\ \A d \in devices : roomOf[d] # r

\* Both sides agree about d in room r.
Agree(d, r) == roomOf[d] = r <=> d \in list[r]

\* What a request has established so far.  An add that has passed its check keeps its
\* place, as nobody else adds to its room; what it has to clear is in the rooms it
\* still has to visit.
AddHolds(s) ==
    /\ s.room \in rooms /\ s.dev \in devices /\ s.rooms \subseteq rooms \ {s.room}
    /\ s.stage = "assign" => s.dev \in list[s.room]
    /\ s.stage # "assign" =>
          /\ s.dev \in list[s.room] \/ Cardinality(list[s.room]) < MaxDevices
          /\ \A r \in rooms : s.dev \in list[r] => r = s.room \/ r \in s.rooms
    /\ s.stage # "move" => s.rooms = {}

CheckHolds(s) ==
    /\ s.room \in Room /\ s.dev \notin list[s.room]
    /\ s.dev \in devices => \A r \in rooms : r # s.room => Agree(s.dev, r)

ClearHolds(s) == \A r \in rooms : s.dev \notin list[r]

ReleaseHolds(s) ==
    /\ s.room \in rooms /\ s.devs \subseteq list[s.room]
    /\ \A d \in devices, r \in rooms : r # s.room => Agree(d, r)

PurgeHolds(s) ==
    /\ s.rooms \subseteq rooms
    /\ \A r \in rooms : s.dev \in list[r] => r \in s.rooms
    /\ s.stage = "write" => s.room \in s.rooms /\ s.devs = list[s.room] \ {s.dev}

Holds(s) ==
    /\ Adds(s) => AddHolds(s)
    /\ s.stage = "check" => CheckHolds(s)
    /\ s.stage = "clear" => ClearHolds(s)
    /\ s.stage = "release" => ReleaseHolds(s)
    /\ s.stage \in {"purge", "write"} => PurgeHolds(s)

\* A device nobody is moving names the room that lists it.
Settled(d) == ~Busy(d) /\ ~RoomGoes => \A r \in rooms : Agree(d, r)

\* Between requests that do not clash.
Calm ==
    /\ Apart
    /\ ListsOK
    /\ \A q \in Request : Holds(request[q])
    /\ boot = "up" => \A d \in devices : Settled(d)

\* Nothing is claimed of a request that has returned.
LEMMA IdleHolds == Holds(Idle) /\ Holds(Idle)'
BY DEF Holds, Idle, Adds

\* To concern each other is mutual.
LEMMA ConcernIsMutual == \A s, t : Concern(s, t) => Concern(t, s)
BY DEF Concern

\* Next to a request that deletes, all others are idle.
LEMMA DeletesAlone ==
    ASSUME Apart, NEW q \in Request, Deletes(request[q]), NEW p \in Request, p # q
    PROVE  request[p].stage = "idle"
BY DEF Apart, Concern, Deletes

\* A request that begins without a clash concerns none under way.
LEMMA ArriveApart ==
    ASSUME TypeOK, Apart, NEW q \in Request, NEW s \in RequestState, Arrive(q, s), ~clash'
    PROVE  /\ Apart' /\ request[q].stage = "idle" /\ ~clash
           /\ \A p \in Request : p # q => request'[p] = request[p]
           /\ request'[q] = s
           /\ \A p \in Request : request[p].stage # "idle" => ~Concern(request[p], s)
<1>1. /\ request[q].stage = "idle" /\ ~clash
      /\ request' = [request EXCEPT ![q] = s]
      /\ \A p \in Request : request[p].stage # "idle" => ~Concern(request[p], s)
  BY DEF Arrive, Become
<1>2. request \in [Request -> RequestState]
  BY DEF TypeOK
<1>3. /\ \A p \in Request : p # q => request'[p] = request[p]
      /\ request'[q] = s
  BY <1>1, <1>2
<1>4. Apart'
  <2>1. SUFFICES ASSUME NEW a \in Request, NEW b \in Request, a # b,
                        request'[a].stage # "idle", request'[b].stage # "idle"
                 PROVE  ~Concern(request'[a], request'[b])
    BY DEF Apart
  <2>2. CASE a = q
    BY <1>1, <1>3, <2>1, <2>2, ConcernIsMutual
  <2>3. CASE b = q
    BY <1>1, <1>3, <2>1, <2>3
  <2>4. CASE a # q /\ b # q
    BY <1>3, <2>1, <2>4 DEF Apart
  <2>5. QED
    BY <2>2, <2>3, <2>4
<1>5. QED
  BY <1>1, <1>3, <1>4

\* t goes on with what s does.
GoesOn(s, t) ==
    \/ t = Idle
    \/ /\ t.dev = s.dev
       /\ Adds(t) => Adds(s) /\ t.room = s.room
       /\ Deletes(t) => Deletes(s)

\* A step of a request that goes on makes it concern nobody else.
LEMMA StaysApart ==
    ASSUME TypeOK, Apart, NEW q \in Request, request[q].stage # "idle",
           NEW t, GoesOn(request[q], t), Become(q, t)
    PROVE  /\ Apart'
           /\ \A p \in Request : p # q => request'[p] = request[p]
           /\ request'[q] = t
<1>1. /\ \A p \in Request : p # q => request'[p] = request[p]
      /\ request'[q] = t
  BY DEF Become, TypeOK
<1>2. \A p \in Request : p # q /\ request[p].stage # "idle" /\ t.stage # "idle" =>
          ~Concern(request[p], t)
  BY DEF Apart, GoesOn, Concern, Idle
<1>3. SUFFICES ASSUME NEW a \in Request, NEW b \in Request, a # b,
                      request'[a].stage # "idle", request'[b].stage # "idle"
               PROVE  ~Concern(request'[a], request'[b])
  BY <1>1 DEF Apart
<1>4. CASE a = q
  BY <1>1, <1>2, <1>3, <1>4, ConcernIsMutual
<1>5. CASE b = q
  BY <1>1, <1>2, <1>3, <1>5
<1>6. CASE a # q /\ b # q
  BY <1>1, <1>3, <1>6 DEF Apart
<1>7. QED
  BY <1>4, <1>5, <1>6

\* What a step about another device leaves of a request: no device of its own moves,
\* and its room gets nothing new.
LEMMA HoldsFrame ==
    ASSUME TypeOK, ListsOK, NEW s \in RequestState, Holds(s), ~Deletes(s),
           s.stage # "idle" => s.dev \in Device,
           rooms' = rooms,
           s.dev \in devices <=> s.dev \in devices',
           roomOf'[s.dev] = roomOf[s.dev],
           \A r \in Room : s.dev \in list'[r] <=> s.dev \in list[r],
           Adds(s) => list'[s.room] \subseteq list[s.room]
    PROVE  Holds(s)'
<1>1. s.stage \in Stages /\ s.room \in Room \cup {NoRoom} /\ rooms \subseteq Room
  BY DEF RequestState, TypeOK
<1>2. ASSUME Adds(s) PROVE AddHolds(s)'
  <2>1. AddHolds(s) /\ s.room \in rooms
    BY <1>2 DEF Holds, AddHolds
  <2>2. IsFiniteSet(list[s.room])
    BY <2>1 DEF ListsOK
  <2>3. /\ Cardinality(list[s.room]) \in Nat /\ Cardinality(list'[s.room]) \in Nat
        /\ Cardinality(list'[s.room]) <= Cardinality(list[s.room])
    BY <1>2, <2>2, FS_Subset, FS_CardinalityType
  <2>4. Cardinality(list[s.room]) < MaxDevices => Cardinality(list'[s.room]) < MaxDevices
    BY <2>3, MembershipAssumption
  <2>5. QED
    BY <1>1, <2>1, <2>4 DEF AddHolds
<1>3. ASSUME s.stage = "check" PROVE CheckHolds(s)'
  BY <1>1, <1>3 DEF Holds, CheckHolds, Agree
<1>4. ASSUME s.stage = "clear" PROVE ClearHolds(s)'
  BY <1>1, <1>4 DEF Holds, ClearHolds
<1>5. QED
  BY <1>2, <1>3, <1>4 DEF Holds, Deletes

\* To hold of the state a request is in next.
LEMMA HoldsNext ==
    ASSUME NEW p \in Request, NEW s, s = request'[p], Holds(s)'
    PROVE  Holds(request[p])'
BY DEF Holds, Adds, AddHolds, CheckHolds, ClearHolds, ReleaseHolds, PurgeHolds, Agree

\* A step of a request that deletes nothing, about its own device and its own room,
\* leaves everybody else's device where it is.
LEMMA OthersKeep ==
    ASSUME TypeOK, Calm, NEW q \in Request, request[q].stage # "idle", ~Deletes(request[q]),
           NEW t, GoesOn(request[q], t), Become(q, t),
           UNCHANGED <<rooms, devices>>,
           \A d \in Device : d # request[q].dev =>
               /\ roomOf'[d] = roomOf[d]
               /\ \A r \in Room : d \in list'[r] <=> d \in list[r],
           \A r \in Room : (Adds(request[q]) /\ r = request[q].room) \/ list'[r] \subseteq list[r]
    PROVE  /\ Apart'
           /\ \A p \in Request : p # q => Holds(request[p])'
           /\ request'[q] = t
           /\ \A d \in devices : d # request[q].dev => Settled(d)'
<1>1. /\ Apart' /\ request'[q] = t
      /\ \A p \in Request : p # q => request'[p] = request[p]
  BY StaysApart DEF Calm
<1>2. ASSUME NEW p \in Request, p # q PROVE Holds(request[p])'
  <2> DEFINE s == request[p]
  <2>1. PICK u : u = request'[p]
    OBVIOUS
  <2>2. u = request[p]
    BY <1>1, <1>2, <2>1
  <2>3. CASE u.stage = "idle"
    BY <2>1, <2>3, HoldsNext DEF Holds, Adds
  <2>4. CASE u.stage # "idle"
    <3>1. ~Concern(request[q], u)
      BY <1>2, <2>2, <2>4 DEF Calm, Apart
    <3>2. u \in RequestState /\ Holds(u) /\ ~Deletes(u) /\ u.dev # request[q].dev
      BY <2>2, <3>1 DEF TypeOK, Calm, Concern
    <3>3. u.dev \in Device
      BY <2>2, <2>4, <3>2 DEF TypeOK, Deletes
    <3>4. Adds(u) => u.room \in Room /\ list'[u.room] \subseteq list[u.room]
      BY <3>1, <3>2 DEF Concern, Holds, AddHolds, TypeOK
    <3>5. Holds(u)'
      BY <3>2, <3>3, <3>4, HoldsFrame DEF Calm
    <3>6. QED
      BY <2>1, <3>5, HoldsNext
  <2>5. QED
    BY <2>3, <2>4
<1>3. ASSUME NEW d \in devices, d # request[q].dev PROVE Settled(d)'
  <2>1. boot = "up" /\ d \in Device
    BY OpenRequest DEF TypeOK
  <2>2. Busy(d) => Busy(d)'
    BY <1>1, <1>3 DEF Busy
  <2>3. RoomGoes => RoomGoes'
    <3>1. \A p \in Request : request[p].stage # "release"
      BY DEF Calm, Apart, Concern, Deletes
    <3>2. QED
      BY <3>1 DEF RoomGoes
  <2>4. \A r \in rooms : Agree(d, r) => Agree(d, r)'
    BY <1>3, <2>1 DEF Agree, TypeOK
  <2>5. QED
    BY <2>1, <2>2, <2>3, <2>4 DEF Calm, Settled
<1>4. QED
  BY <1>1, <1>2, <1>3

\* Lists that only shrink stay well; a device may get the room id of a stored room,
\* or none.
LEMMA ListsShrink ==
    ASSUME TypeOK, ListsOK, UNCHANGED <<rooms, unused, devices>>,
           \A r \in Room : list'[r] \subseteq list[r],
           \A d \in devices : roomOf'[d] = roomOf[d] \/ roomOf'[d] \in rooms \cup {NoRoom}
    PROVE  ListsOK'
<1>1. rooms \subseteq Room /\ unused \subseteq Room \ rooms /\ NoRoom \notin Room
  BY MembershipAssumption DEF TypeOK
<1>2. ASSUME NEW r \in rooms PROVE IsFiniteSet(list'[r]) /\ Cardinality(list'[r]) <= MaxDevices
  <2>1. IsFiniteSet(list[r]) /\ Cardinality(list[r]) <= MaxDevices /\ list'[r] \subseteq list[r]
    BY <1>1, <1>2 DEF ListsOK
  <2>2. /\ Cardinality(list'[r]) <= Cardinality(list[r]) /\ IsFiniteSet(list'[r])
        /\ Cardinality(list[r]) \in Nat /\ Cardinality(list'[r]) \in Nat
    BY <2>1, FS_Subset, FS_CardinalityType
  <2>3. QED
    BY <2>1, <2>2, MembershipAssumption
<1>3. /\ \A r, s \in rooms : r # s => list'[r] \cap list'[s] = {}
      /\ \A r \in rooms : list'[r] \subseteq devices
      /\ \A r \in unused : list'[r] = {} /\ \A d \in devices : roomOf'[d] # r
  BY <1>1 DEF ListsOK
<1>4. QED
  BY <1>2, <1>3 DEF ListsOK

\* A request that deletes nothing makes a step: what is left to show is that the lists
\* stay well, that what it has established holds, and, when it returns, that its device
\* has been settled.
LEMMA MovesOn ==
    ASSUME TypeOK, Calm, NEW q \in Request, NEW s, s = request[q],
           s.stage # "idle", ~Deletes(s), NEW t, GoesOn(s, t), Become(q, t),
           UNCHANGED <<rooms, devices>>,
           \A d \in Device : d # s.dev =>
               /\ roomOf'[d] = roomOf[d]
               /\ \A r \in Room : d \in list'[r] <=> d \in list[r],
           \A r \in Room : (Adds(s) /\ r = s.room) \/ list'[r] \subseteq list[r],
           ListsOK', Holds(t)',
           t = Idle /\ s.dev \in devices => \A r \in rooms : Agree(s.dev, r)',
           t = Idle \/ t.stage # "idle"
    PROVE  Calm'
<1>1. /\ Apart'
      /\ \A p \in Request : p # q => Holds(request[p])'
      /\ request'[q] = t
      /\ \A d \in devices : d # s.dev => Settled(d)'
  BY OthersKeep
<1>2. \A p \in Request : Holds(request[p])'
  BY <1>1, HoldsNext
<1>3. s.dev \in devices => Settled(s.dev)'
  <2>1. CASE t = Idle
    BY <2>1 DEF Settled
  <2>2. CASE t # Idle
    <3>1. Busy(s.dev)'
      BY <1>1, <2>2 DEF Busy, GoesOn
    <3>2. QED
      BY <3>1 DEF Settled
  <2>3. QED
    BY <2>1, <2>2
<1>4. \A d \in devices' : Settled(d)'
  BY <1>1, <1>3
<1>5. QED
  BY <1>1, <1>2, <1>4 DEF Calm

\* A request begins without a clash; it may take its own device off a list.
LEMMA Begins ==
    ASSUME TypeOK, Calm, NEW q \in Request, NEW s \in RequestState, Arrive(q, s), ~clash',
           s.stage # "idle",
           UNCHANGED <<rooms, devices, roomOf>>,
           \A r \in Room : list'[r] \subseteq list[r]
              /\ \A d \in Device : d # s.dev => (d \in list'[r] <=> d \in list[r]),
           ListsOK', Holds(s)'
    PROVE  Calm'
<1>1. /\ Apart' /\ request[q].stage = "idle" /\ boot = "up"
      /\ \A p \in Request : p # q => request'[p] = request[p]
      /\ request'[q] = s
      /\ \A p \in Request : request[p].stage # "idle" => ~Concern(request[p], s)
  BY ArriveApart DEF Calm, Arrive
<1>2. ASSUME NEW p \in Request, p # q PROVE Holds(request[p])'
  <2>1. PICK u : u = request'[p]
    OBVIOUS
  <2>2. u = request[p]
    BY <1>1, <1>2, <2>1
  <2>3. CASE u.stage = "idle"
    BY <2>1, <2>3, HoldsNext DEF Holds, Adds
  <2>4. CASE u.stage # "idle"
    <3>1. u \in RequestState /\ Holds(u) /\ ~Deletes(u) /\ u.dev # s.dev
      BY <1>1, <2>2, <2>4 DEF TypeOK, Calm, Concern
    <3>2. u.dev \in Device
      BY <2>2, <2>4, <3>1 DEF TypeOK, Deletes
    <3>3. Adds(u) => list'[u.room] \subseteq list[u.room]
      BY <3>1 DEF Holds, AddHolds, TypeOK
    <3>4. Holds(u)'
      BY <3>1, <3>2, <3>3, HoldsFrame DEF Calm
    <3>5. QED
      BY <2>1, <3>4, HoldsNext
  <2>5. QED
    BY <2>3, <2>4
<1>3. Holds(request[q])'
  BY <1>1, HoldsNext
<1>4. ASSUME NEW d \in devices PROVE Settled(d)'
  <2>0. d \in Device
    BY DEF TypeOK
  <2>1. CASE d = s.dev
    <3>1. Busy(d)'
      BY <1>1, <2>1 DEF Busy
    <3>2. QED
      BY <3>1 DEF Settled
  <2>2. CASE d # s.dev
    <3>1. (Busy(d) => Busy(d)') /\ (RoomGoes => RoomGoes')
      BY <1>1 DEF Busy, RoomGoes
    <3>2. \A r \in rooms : Agree(d, r) => Agree(d, r)'
      BY <2>0, <2>2 DEF Agree, TypeOK
    <3>3. QED
      BY <1>1, <3>1, <3>2 DEF Calm, Settled
  <2>3. QED
    BY <2>1, <2>2
<1>5. QED
  BY <1>1, <1>2, <1>3, <1>4 DEF Calm

\* A request that deletes is alone, before and after its step.
LEMMA DeleterMoves ==
    ASSUME TypeOK, Calm, NEW q \in Request, Deletes(request[q]), NEW t, Become(q, t),
           ListsOK', Holds(t)',
           boot' = "up" => \A d \in devices' :
               (t.stage = "idle" \/ t.dev # d) /\ t.stage # "release" => \A r \in rooms' : Agree(d, r)'
    PROVE  Calm'
<1>1. /\ request'[q] = t
      /\ \A p \in Request : p # q => request'[p].stage = "idle"
  BY DeletesAlone DEF Calm, Become, TypeOK
<1>2. Apart'
  BY <1>1 DEF Apart
<1>3. \A p \in Request : Holds(request[p])'
  <2>1. ASSUME NEW p \in Request, p # q PROVE Holds(request[p])'
    BY <1>1, <2>1 DEF Holds, Adds
  <2>2. QED
    BY <1>1, <2>1, HoldsNext
<1>4. ASSUME boot' = "up", NEW d \in devices' PROVE Settled(d)'
  <2>1. ~Busy(d)' /\ ~RoomGoes' => (t.stage = "idle" \/ t.dev # d) /\ t.stage # "release"
    BY <1>1 DEF Busy, RoomGoes
  <2>2. QED
    BY <1>4, <2>1 DEF Settled
<1>5. QED
  BY <1>2, <1>3, <1>4 DEF Calm

\* Each step of AddDeviceToRoom.
LEMMA AddCalm ==
    ASSUME TypeOK, TypeOK', Calm, NEW q \in Request, Add(q), ~clash'
    PROVE  Calm'
<1>a. rooms \subseteq Room /\ unused \subseteq Room \ rooms /\ devices \subseteq Device
  BY DEF TypeOK
<1>1. ASSUME NEW r \in Room, NEW d \in Device, StartAdd(q, r, d) PROVE Calm'
  <2> DEFINE s == [stage |-> "move", room |-> r, dev |-> d, rooms |-> rooms \ {r}, devs |-> {}]
  <2>1. s \in RequestState /\ s.stage = "move" /\ s.room = r /\ s.dev = d /\ s.rooms = rooms \ {r}
    BY <1>a DEF RequestState, Stages
  <2>2. PICK t : t = s
    OBVIOUS
  <2>3. Arrive(q, t) /\ UNCHANGED <<rooms, unused, devices, roomOf, list>>
    BY <1>1, <2>2 DEF StartAdd, storeVars, roomVars
  <2>4. t \in RequestState /\ t.stage = "move" /\ t.room = r /\ t.dev = d /\ t.rooms = rooms \ {r}
    BY <2>1, <2>2
  <2>5. r \in rooms /\ d \in devices /\ (d \in list[r] \/ Cardinality(list[r]) < MaxDevices)
    BY <1>1 DEF StartAdd
  <2> HIDE DEF s
  <2>6. AddHolds(t)'
    BY <2>3, <2>4, <2>5 DEF AddHolds
  <2>7. Holds(t)'
    BY <2>4, <2>6 DEF Holds
  <2>8. ListsOK'
    BY <2>3 DEF Calm, ListsOK
  <2>9. QED
    BY <2>3, <2>4, <2>7, <2>8, Begins
<1>2. ASSUME NEW r \in Room, LeaveOther(q, r) PROVE Calm'
  <2>1. PICK s : s = request[q]
    OBVIOUS
  <2>2. PICK t : t = [s EXCEPT !.rooms = @ \ {r}]
    OBVIOUS
  <2>3. s.stage = "move" /\ r \in s.rooms /\ Holds(s) /\ s \in RequestState
    BY <1>2, <2>1 DEF LeaveOther, At, Calm, TypeOK
  <2>4. AddHolds(s) /\ Adds(s) /\ ~Deletes(s)
    BY <2>3 DEF Holds, Adds, Deletes
  <2>5. t.stage = s.stage /\ t.room = s.room /\ t.dev = s.dev /\ t.rooms = s.rooms \ {r}
    BY <2>2, <2>3 DEF RequestState
  <2>6. r \in rooms /\ r # s.room /\ s.room \in Room /\ s.dev \in Device
    BY <1>a, <2>3, <2>4 DEF AddHolds
  <2>7. /\ Become(q, t) /\ UNCHANGED <<rooms, unused, devices, roomOf>>
        /\ (list' = list /\ s.dev \notin list[r]) \/ list' = [list EXCEPT ![r] = @ \ {s.dev}]
    BY <1>2, <2>1, <2>2, <2>6 DEF LeaveOther, roomVars
  <2>8. \A x \in Room : list'[x] = IF x = r THEN list[x] \ {s.dev} ELSE list[x]
    BY <2>7 DEF TypeOK
  <2>9. ListsOK'
    BY <2>7, <2>8, ListsShrink DEF Calm
  <2>10. AddHolds(t)'
    BY <1>a, <2>3, <2>4, <2>5, <2>6, <2>7, <2>8 DEF AddHolds
  <2>11. Holds(t)' /\ GoesOn(s, t) /\ t.stage # "idle" /\ t # Idle
    BY <2>3, <2>4, <2>5, <2>10 DEF Holds, GoesOn, Adds, Deletes, Idle
  <2>12. /\ \A d \in Device : d # s.dev =>
               roomOf'[d] = roomOf[d] /\ \A x \in Room : d \in list'[x] <=> d \in list[x]
         /\ \A x \in Room : list'[x] \subseteq list[x]
    BY <2>7, <2>8
  <2>13. s.stage # "idle" /\ Become(q, t) /\ UNCHANGED <<rooms, devices>>
    BY <2>3, <2>7
  <2>14. QED
    BY <2>1, <2>4, <2>9, <2>11, <2>12, <2>13, MovesOn
<1>3. CASE OthersLeft(q)
  <2>1. PICK s : s = request[q]
    OBVIOUS
  <2>2. PICK t : t = [s EXCEPT !.stage = "insert"]
    OBVIOUS
  <2>3. s.stage = "move" /\ s.rooms = {} /\ Holds(s) /\ s \in RequestState
    BY <1>3, <2>1 DEF OthersLeft, At, Calm, TypeOK
  <2>4. AddHolds(s) /\ Adds(s) /\ ~Deletes(s)
    BY <2>3 DEF Holds, Adds, Deletes
  <2>5. t.stage = "insert" /\ t.room = s.room /\ t.dev = s.dev /\ t.rooms = s.rooms
    BY <2>2, <2>3 DEF RequestState
  <2>6. Become(q, t) /\ UNCHANGED <<rooms, unused, devices, roomOf, list>>
    BY <1>3, <2>1, <2>2 DEF OthersLeft, storeVars, roomVars
  <2>7. ListsOK'
    BY <2>6 DEF Calm, ListsOK
  <2>8. AddHolds(t)'
    BY <2>3, <2>4, <2>5, <2>6 DEF AddHolds
  <2>9. Holds(t)' /\ GoesOn(s, t) /\ t.stage # "idle" /\ t # Idle
    BY <2>3, <2>4, <2>5, <2>8 DEF Holds, GoesOn, Adds, Deletes, Idle
  <2>10. QED
    BY <2>1, <2>3, <2>4, <2>6, <2>7, <2>9, MovesOn
<1>4. CASE Insert(q)
  <2>1. PICK s : s = request[q]
    OBVIOUS
  <2>2. PICK t : t = [s EXCEPT !.stage = "assign"]
    OBVIOUS
  <2>3. s.stage = "insert" /\ Holds(s) /\ s \in RequestState
    BY <1>4, <2>1 DEF Insert, At, Calm, TypeOK
  <2>4. AddHolds(s) /\ Adds(s) /\ ~Deletes(s)
    BY <2>3 DEF Holds, Adds, Deletes
  <2>5. t.stage = "assign" /\ t.room = s.room /\ t.dev = s.dev /\ t.rooms = s.rooms
    BY <2>2, <2>3 DEF RequestState
  <2>6. s.room \in rooms /\ s.room \in Room /\ s.dev \in Device /\ s.dev \in devices
    BY <1>a, <2>4 DEF AddHolds
  <2>7. /\ Become(q, t) /\ UNCHANGED <<rooms, unused, devices, roomOf>>
        /\ (list' = list /\ s.dev \in list[s.room]) \/ list' = [list EXCEPT ![s.room] = @ \cup {s.dev}]
    BY <1>4, <2>1, <2>2, <2>6 DEF Insert, roomVars
  <2>8. \A x \in Room : list'[x] = IF x = s.room THEN list[x] \cup {s.dev} ELSE list[x]
    BY <2>6, <2>7 DEF TypeOK
  <2>9. ListsOK'
    <3>1. ListsOK /\ \A x \in rooms : s.dev \in list[x] => x = s.room
      BY <2>3, <2>4 DEF Calm, AddHolds
    <3>0. \A x \in Room : list'[x] \subseteq list[x] \cup {s.dev} /\ (x # s.room => list'[x] = list[x])
      BY <2>8
    <3>2. \A x, y \in rooms : x # y => list'[x] \cap list'[y] = {}
      <4>1. SUFFICES ASSUME NEW x \in rooms, NEW y \in rooms, x # y,
                            NEW d, d \in list'[x], d \in list'[y]
                     PROVE  FALSE
        OBVIOUS
      <4>2. list[x] \cap list[y] = {}
        BY <3>1, <4>1 DEF ListsOK
      <4>3. x \in Room /\ y \in Room
        BY <1>a
      <4>4. d = s.dev
        BY <3>0, <4>1, <4>2, <4>3
      <4>5. QED
        BY <3>0, <3>1, <4>1, <4>2, <4>3, <4>4
    <3>3. IsFiniteSet(list'[s.room]) /\ Cardinality(list'[s.room]) <= MaxDevices
      <4>1. IsFiniteSet(list[s.room]) /\ Cardinality(list[s.room]) <= MaxDevices
        BY <2>6, <3>1 DEF ListsOK
      <4>2. CASE s.dev \in list[s.room]
        <5>1. list'[s.room] = list[s.room]
          BY <2>6, <2>8, <4>2
        <5>2. QED
          BY <4>1, <5>1
      <4>3. CASE s.dev \notin list[s.room]
        <5>1. /\ IsFiniteSet(list[s.room] \cup {s.dev})
              /\ Cardinality(list[s.room] \cup {s.dev}) = Cardinality(list[s.room]) + 1
          BY <4>1, <4>3, FS_AddElement
        <5>2. Cardinality(list[s.room]) < MaxDevices /\ Cardinality(list[s.room]) \in Nat
          BY <2>3, <2>4, <4>1, <4>3, FS_CardinalityType DEF AddHolds
        <5>3. list'[s.room] = list[s.room] \cup {s.dev}
          BY <2>6, <2>8
        <5>4. QED
          BY <5>1, <5>2, <5>3, MembershipAssumption
      <4>4. QED
        BY <4>2, <4>3
    <3>4. \A x \in rooms : list'[x] \subseteq devices
      <4>1. SUFFICES ASSUME NEW x \in rooms PROVE list'[x] \subseteq devices
        OBVIOUS
      <4>2. list[x] \subseteq devices /\ x \in Room
        BY <1>a, <3>1 DEF ListsOK
      <4>3. QED
        BY <2>6, <3>0, <4>2
    <3>5. \A x \in unused : list'[x] = {}
      <4>1. SUFFICES ASSUME NEW x \in unused PROVE list'[x] = {}
        OBVIOUS
      <4>2. list[x] = {} /\ x \in Room /\ x # s.room
        BY <1>a, <2>6, <3>1 DEF ListsOK
      <4>3. QED
        BY <3>0, <4>2
    <3>6. \A x \in rooms : x # s.room => list'[x] = list[x]
      BY <1>a, <2>8
    <3>7. \A x \in rooms : IsFiniteSet(list'[x]) /\ Cardinality(list'[x]) <= MaxDevices
      BY <3>1, <3>3, <3>6 DEF ListsOK
    <3>8. QED
      BY <2>7, <3>1, <3>2, <3>4, <3>5, <3>7 DEF ListsOK
  <2>10. AddHolds(t)'
    BY <2>3, <2>4, <2>5, <2>6, <2>7, <2>8 DEF AddHolds
  <2>11. Holds(t)' /\ GoesOn(s, t) /\ t.stage # "idle" /\ t # Idle
    BY <2>3, <2>4, <2>5, <2>10 DEF Holds, GoesOn, Adds, Deletes, Idle
  <2>12. /\ \A d \in Device : d # s.dev =>
               roomOf'[d] = roomOf[d] /\ \A x \in Room : d \in list'[x] <=> d \in list[x]
         /\ \A x \in Room : x = s.room \/ list'[x] \subseteq list[x]
    BY <2>7, <2>8
  <2>13. s.stage # "idle" /\ Become(q, t) /\ UNCHANGED <<rooms, devices>>
    BY <2>3, <2>7
  <2>14. QED
    BY <2>1, <2>4, <2>9, <2>11, <2>12, <2>13, MovesOn
<1>5. CASE Assign(q)
  <2>1. PICK s : s = request[q]
    OBVIOUS
  <2>2. s.stage = "assign" /\ Holds(s) /\ s \in RequestState
    BY <1>5, <2>1 DEF Assign, At, Calm, TypeOK
  <2>3. AddHolds(s) /\ Adds(s) /\ ~Deletes(s)
    BY <2>2 DEF Holds, Adds, Deletes
  <2>4. /\ Become(q, Idle) /\ UNCHANGED <<rooms, unused, devices, list>>
        /\ roomOf' = [roomOf EXCEPT ![s.dev] = s.room]
    BY <1>5, <2>1, <2>2, <2>3 DEF Assign, Return, SetRoom, roomVars, AddHolds
  <2>5. \A d \in Device : roomOf'[d] = IF d = s.dev THEN s.room ELSE roomOf[d]
    BY <2>4 DEF TypeOK
  <2>6. ListsOK'
    BY <1>a, <2>3, <2>4, <2>5, ListsShrink DEF Calm, AddHolds
  <2>7. \A r \in rooms : s.dev \in list[r] <=> r = s.room
    BY <2>2, <2>3 DEF Calm, ListsOK, AddHolds
  <2>8. \A r \in rooms : Agree(s.dev, r)'
    BY <1>a, <2>3, <2>4, <2>5, <2>7 DEF Agree, AddHolds
  <2>9. GoesOn(s, Idle)
    BY DEF GoesOn
  <2>10. QED
    BY <2>1, <2>2, <2>3, <2>4, <2>5, <2>6, <2>8, <2>9, IdleHolds, MovesOn
<1>6. QED
  BY <1>1, <1>2, <1>3, <1>4, <1>5 DEF Add

\* Each step of RemoveDeviceFromRoom.
LEMMA RemoveCalm ==
    ASSUME TypeOK, TypeOK', Calm, NEW q \in Request, Remove(q), ~clash'
    PROVE  Calm'
<1>a. rooms \subseteq Room /\ unused \subseteq Room \ rooms /\ devices \subseteq Device /\ NoRoom \notin Room
  BY MembershipAssumption DEF TypeOK
<1>1. ASSUME NEW r \in Room, NEW d \in Device, StartRemove(q, r, d) PROVE Calm'
  <2>1. PICK t : t = [stage |-> "check", room |-> r, dev |-> d, rooms |-> {}, devs |-> {}]
    OBVIOUS
  <2>2. t \in RequestState /\ t.stage = "check" /\ t.room = r /\ t.dev = d
    BY <2>1 DEF RequestState, Stages
  <2>3. r \in rooms /\ Arrive(q, t) /\ UNCHANGED <<rooms, unused, devices, roomOf>>
    BY <1>1, <2>1 DEF StartRemove
  <2>4. \A x \in Room : list'[x] = IF x = r THEN list[x] \ {d} ELSE list[x]
    BY <1>1 DEF StartRemove, TypeOK
  <2>5. ListsOK'
    BY <2>3, <2>4, ListsShrink DEF Calm
  <2>6. d \in devices => \A x \in rooms : Agree(d, x)
    <3>1. \A p \in Request : request[p].stage # "idle" => ~Concern(request[p], t)
      BY <2>2, <2>3, ArriveApart DEF Calm
    <3>2. ~Busy(d) /\ ~RoomGoes
      BY <2>2, <3>1 DEF Busy, RoomGoes, Concern, Deletes
    <3>3. boot = "up"
      BY <2>3 DEF Arrive
    <3>4. QED
      BY <3>2, <3>3 DEF Calm, Settled
  <2>7. CheckHolds(t)'
    BY <1>a, <2>2, <2>3, <2>4, <2>6 DEF CheckHolds, Agree
  <2>8. Holds(t)'
    BY <2>2, <2>7 DEF Holds, Adds
  <2>9. QED
    BY <2>2, <2>3, <2>4, <2>5, <2>8, Begins
<1>2. CASE Check(q)
  <2>1. PICK s : s = request[q]
    OBVIOUS
  <2>2. s.stage = "check" /\ Holds(s) /\ s \in RequestState
    BY <1>2, <2>1 DEF Check, At, Calm, TypeOK
  <2>3. CheckHolds(s) /\ ~Adds(s) /\ ~Deletes(s)
    BY <2>2 DEF Holds, Adds, Deletes
  <2>4. UNCHANGED <<rooms, unused, devices, roomOf, list>>
    BY <1>2 DEF Check, storeVars, roomVars
  <2>5. ListsOK'
    BY <2>4 DEF Calm, ListsOK
  <2>6. CASE s.dev \in devices /\ roomOf[s.dev] = s.room
    <3>1. PICK t : t = [s EXCEPT !.stage = "clear"]
      OBVIOUS
    <3>2. t.stage = "clear" /\ t.dev = s.dev
      BY <2>2, <3>1 DEF RequestState
    <3>3. Become(q, t)
      BY <1>2, <2>1, <2>6, <3>1 DEF Check
    <3>4. \A x \in rooms : s.dev \notin list[x]
      BY <2>3, <2>6 DEF CheckHolds, Agree
    <3>5. Holds(t)' /\ GoesOn(s, t) /\ t # Idle
      BY <2>4, <3>2, <3>4 DEF Holds, ClearHolds, GoesOn, Adds, Deletes, Idle
    <3>6. QED
      BY <2>1, <2>2, <2>3, <2>4, <2>5, <3>2, <3>3, <3>5, MovesOn
  <2>7. CASE ~(s.dev \in devices /\ roomOf[s.dev] = s.room)
    <3>1. Become(q, Idle) /\ GoesOn(s, Idle)
      BY <1>2, <2>1, <2>7 DEF Check, Return, GoesOn
    <3>2. s.dev \in devices => \A x \in rooms : Agree(s.dev, x)'
      BY <2>3, <2>4, <2>7 DEF CheckHolds, Agree
    <3>3. QED
      BY <2>1, <2>2, <2>3, <2>4, <2>5, <3>1, <3>2, IdleHolds, MovesOn
  <2>8. QED
    BY <2>6, <2>7
<1>3. CASE Clear(q)
  <2>1. PICK s : s = request[q]
    OBVIOUS
  <2>2. s.stage = "clear" /\ Holds(s) /\ s \in RequestState
    BY <1>3, <2>1 DEF Clear, At, Calm, TypeOK
  <2>3. ClearHolds(s) /\ ~Adds(s) /\ ~Deletes(s)
    BY <2>2 DEF Holds, Adds, Deletes
  <2>4. /\ Become(q, Idle) /\ GoesOn(s, Idle) /\ SetRoom(s.dev, NoRoom)
        /\ UNCHANGED <<rooms, unused, devices, list>>
    BY <1>3, <2>1 DEF Clear, Return, roomVars, GoesOn
  <2>5. /\ \A d \in Device : d # s.dev => roomOf'[d] = roomOf[d]
        /\ s.dev \in devices => roomOf'[s.dev] = NoRoom
    BY <1>a, <2>4 DEF SetRoom, TypeOK
  <2>6. ListsOK'
    BY <1>a, <2>4, <2>5, ListsShrink DEF Calm
  <2>7. s.dev \in devices => \A x \in rooms : Agree(s.dev, x)'
    BY <1>a, <2>3, <2>4, <2>5 DEF Agree, ClearHolds
  <2>8. QED
    BY <2>1, <2>2, <2>3, <2>4, <2>5, <2>6, <2>7, IdleHolds, MovesOn
<1>4. QED
  BY <1>1, <1>2, <1>3 DEF Remove

\* Each step of DeleteRoom: the devices lose their room one by one, then the room goes.
LEMMA DeleteRoomCalm ==
    ASSUME TypeOK, TypeOK', Calm, NEW q \in Request, DeleteRoom(q), ~clash'
    PROVE  Calm'
<1>a. rooms \subseteq Room /\ unused \subseteq Room \ rooms /\ devices \subseteq Device /\ NoRoom \notin Room
  BY MembershipAssumption DEF TypeOK
<1>1. ASSUME NEW r \in Room, StartDeleteRoom(q, r) PROVE Calm'
  <2>1. PICK t : t = [stage |-> "release", room |-> r, dev |-> NoDevice, rooms |-> {}, devs |-> list[r]]
    OBVIOUS
  <2>2. t \in RequestState /\ t.stage = "release" /\ t.room = r /\ t.devs = list[r]
    BY <2>1 DEF RequestState, Stages, TypeOK
  <2>3. r \in rooms /\ Arrive(q, t) /\ UNCHANGED <<rooms, unused, devices, roomOf, list>>
    BY <1>1, <2>1 DEF StartDeleteRoom, storeVars, roomVars
  <2>4. ListsOK'
    BY <2>3 DEF Calm, ListsOK
  <2>5. \A d \in devices, x \in rooms : Agree(d, x)
    <3>1. \A p \in Request : request[p].stage = "idle"
      BY <2>2, <2>3, ArriveApart DEF Calm, Concern, Deletes
    <3>2. \A d \in devices : ~Busy(d) /\ ~RoomGoes
      BY <3>1 DEF Busy, RoomGoes
    <3>3. boot = "up"
      BY <2>3 DEF Arrive
    <3>4. QED
      BY <3>2, <3>3 DEF Calm, Settled
  <2>6. ReleaseHolds(t)'
    BY <2>2, <2>3, <2>5 DEF ReleaseHolds, Agree
  <2>7. Holds(t)' /\ t.stage # "idle"
    BY <2>2, <2>6 DEF Holds, Adds
  <2>8. QED
    BY <2>2, <2>3, <2>4, <2>7, Begins
<1>2. ASSUME NEW d \in Device, Release(q, d) PROVE Calm'
  <2>1. PICK s : s = request[q]
    OBVIOUS
  <2>2. PICK t : t = [s EXCEPT !.devs = @ \ {d}]
    OBVIOUS
  <2>3. s.stage = "release" /\ Holds(s) /\ s \in RequestState /\ d \in s.devs /\ Deletes(request[q])
    BY <1>2, <2>1 DEF Release, At, Calm, TypeOK, Deletes
  <2>4. ReleaseHolds(s)
    BY <2>3 DEF Holds
  <2>5. t.stage = "release" /\ t.room = s.room /\ t.devs = s.devs \ {d}
    BY <2>2, <2>3 DEF RequestState
  <2>6. Become(q, t) /\ SetRoom(d, NoRoom) /\ UNCHANGED <<rooms, unused, devices, list>>
    BY <1>2, <2>1, <2>2 DEF Release, roomVars
  <2>7. \A e \in devices : roomOf'[e] = roomOf[e] \/ (e = d /\ roomOf'[e] = NoRoom)
    <3>1. roomOf' = roomOf \/ roomOf' = [roomOf EXCEPT ![d] = NoRoom]
      BY <2>6 DEF SetRoom
    <3>2. roomOf \in [Device -> Room \cup {NoRoom}]
      BY DEF TypeOK
    <3>3. QED
      BY <1>a, <3>1, <3>2
  <2>8. ListsOK'
    BY <1>a, <2>6, <2>7, ListsShrink DEF Calm
  <2>9. \A x \in rooms : x # s.room => d \notin list[x]
    BY <2>3, <2>4 DEF Calm, ListsOK, ReleaseHolds
  <2>10. ReleaseHolds(t)'
    BY <1>a, <2>4, <2>5, <2>6, <2>7, <2>9 DEF ReleaseHolds, Agree
  <2>11. Holds(t)'
    BY <2>5, <2>10 DEF Holds, Adds
  <2>12. QED
    BY <2>3, <2>5, <2>6, <2>8, <2>11, DeleterMoves
<1>3. CASE DropRoom(q)
  <2>1. PICK s : s = request[q]
    OBVIOUS
  <2>2. s.stage = "release" /\ Holds(s) /\ Deletes(request[q])
    BY <1>3, <2>1 DEF DropRoom, At, Calm, Deletes
  <2>3. ReleaseHolds(s)
    BY <2>2 DEF Holds
  <2>4. Become(q, Idle) /\ rooms' = rooms \ {s.room} /\ UNCHANGED <<unused, list, devices, roomOf>>
    BY <1>3, <2>1 DEF DropRoom, Return
  <2>5. ListsOK'
    BY <2>4 DEF Calm, ListsOK
  <2>6. \A d \in devices', x \in rooms' : Agree(d, x)'
    BY <2>3, <2>4 DEF ReleaseHolds, Agree
  <2>7. QED
    BY <2>2, <2>4, <2>5, <2>6, IdleHolds, DeleterMoves
<1>4. QED
  BY <1>1, <1>2, <1>3 DEF DeleteRoom

\* Each step of DeleteDevice: while it is alone, the list it composed is still the
\* room's when it is written.
LEMMA DeleteDeviceCalm ==
    ASSUME TypeOK, TypeOK', Calm, NEW q \in Request, DeleteDevice(q), ~clash'
    PROVE  Calm'
<1>a. rooms \subseteq Room /\ unused \subseteq Room \ rooms /\ devices \subseteq Device /\ NoRoom \notin Room
  BY MembershipAssumption DEF TypeOK
<1>s. ASSUME request[q].stage \in {"purge", "write"}, NEW d \in devices, d # request[q].dev,
             NEW x \in rooms
      PROVE  Agree(d, x)
  <2>1. \A p \in Request : p # q => request[p].stage = "idle"
    BY <1>s, DeletesAlone DEF Calm, Deletes
  <2>2. ~Busy(d) /\ ~RoomGoes
    BY <1>s, <2>1 DEF Busy, RoomGoes
  <2>3. boot = "up"
    BY <1>s, OpenRequest
  <2>4. QED
    BY <2>2, <2>3 DEF Calm, Settled
<1>u. ASSUME NEW s, s = request[q], s.stage \in {"purge", "write"}, NEW r, UpdateRoom(q, r),
             r \in s.rooms, \A x \in Room : list'[x] = IF x = r THEN list[x] \ {s.dev} ELSE list[x]
      PROVE  Calm'
  <2>1. PICK t : t = [s EXCEPT !.stage = "purge", !.rooms = @ \ {r}, !.room = NoRoom, !.devs = {}]
    OBVIOUS
  <2>2. Holds(s) /\ s \in RequestState /\ Deletes(request[q])
    BY <1>u DEF Calm, TypeOK, Deletes
  <2>3. PurgeHolds(s)
    BY <1>u, <2>2 DEF Holds
  <2>4. t.stage = "purge" /\ t.dev = s.dev /\ t.rooms = s.rooms \ {r}
    BY <2>1, <2>2 DEF RequestState
  <2>5. r \in rooms
    BY <1>u, <2>3 DEF PurgeHolds
  <2>6. Become(q, t) /\ UNCHANGED <<rooms, unused, devices, roomOf>>
    BY <1>u, <2>1, <2>5 DEF UpdateRoom
  <2>7. ListsOK'
    BY <1>u, <2>6, ListsShrink DEF Calm
  <2>8. PurgeHolds(t)'
    BY <1>a, <1>u, <2>3, <2>4, <2>5, <2>6 DEF PurgeHolds
  <2>9. Holds(t)'
    BY <2>4, <2>8 DEF Holds, Adds
  <2>10. ASSUME NEW d \in devices, d # s.dev, NEW x \in rooms PROVE Agree(d, x)'
    BY <1>a, <1>s, <1>u, <2>6, <2>10 DEF Agree
  <2>11. QED
    BY <2>2, <2>4, <2>6, <2>7, <2>9, <2>10, DeleterMoves
<1>1. ASSUME NEW d \in Device, StartDeleteDevice(q, d) PROVE Calm'
  <2>1. PICK t : t = [stage |-> "purge", room |-> NoRoom, dev |-> d, rooms |-> rooms, devs |-> {}]
    OBVIOUS
  <2>2. t \in RequestState /\ t.stage = "purge" /\ t.dev = d /\ t.rooms = rooms
    BY <1>a, <2>1 DEF RequestState, Stages
  <2>3. Arrive(q, t) /\ UNCHANGED <<rooms, unused, devices, roomOf, list>>
    BY <1>1, <2>1 DEF StartDeleteDevice, storeVars, roomVars
  <2>4. ListsOK'
    BY <2>3 DEF Calm, ListsOK
  <2>5. PurgeHolds(t)'
    BY <2>2, <2>3 DEF PurgeHolds
  <2>6. Holds(t)' /\ t.stage # "idle"
    BY <2>2, <2>5 DEF Holds, Adds
  <2>7. QED
    BY <2>2, <2>3, <2>4, <2>6, Begins
<1>2. ASSUME NEW r \in Room, Skip(q, r) PROVE Calm'
  <2>1. PICK s : s = request[q]
    OBVIOUS
  <2>2. PICK t : t = [s EXCEPT !.rooms = @ \ {r}]
    OBVIOUS
  <2>3. s.stage = "purge" /\ Holds(s) /\ s \in RequestState /\ s.dev \notin list[r] /\ Deletes(request[q])
    BY <1>2, <2>1 DEF Skip, At, Calm, TypeOK, Deletes
  <2>4. PurgeHolds(s)
    BY <2>3 DEF Holds
  <2>5. t.stage = "purge" /\ t.dev = s.dev /\ t.rooms = s.rooms \ {r}
    BY <2>2, <2>3 DEF RequestState
  <2>6. Become(q, t) /\ UNCHANGED <<rooms, unused, devices, roomOf, list>>
    BY <1>2, <2>1, <2>2 DEF Skip, storeVars, roomVars
  <2>7. ListsOK'
    BY <2>6 DEF Calm, ListsOK
  <2>8. PurgeHolds(t)'
    BY <2>3, <2>4, <2>5, <2>6 DEF PurgeHolds
  <2>9. Holds(t)'
    BY <2>5, <2>8 DEF Holds, Adds
  <2>10. ASSUME NEW d \in devices, d # s.dev, NEW x \in rooms PROVE Agree(d, x)'
    BY <1>s, <2>1, <2>3, <2>6, <2>10 DEF Agree
  <2>11. QED
    BY <2>3, <2>5, <2>6, <2>7, <2>9, <2>10, DeleterMoves
<1>3. ASSUME NEW r \in Room, ComposeList(q, r) PROVE Calm'
  <2>1. PICK s : s = request[q]
    OBVIOUS
  <2>2. PICK t : t = [s EXCEPT !.stage = "write", !.room = r, !.devs = list[r] \ {s.dev}]
    OBVIOUS
  <2>3. s.stage = "purge" /\ Holds(s) /\ s \in RequestState /\ r \in s.rooms /\ Deletes(request[q])
    BY <1>3, <2>1 DEF ComposeList, At, Calm, TypeOK, Deletes
  <2>4. PurgeHolds(s)
    BY <2>3 DEF Holds
  <2>5. /\ t.stage = "write" /\ t.dev = s.dev /\ t.rooms = s.rooms
        /\ t.room = r /\ t.devs = list[r] \ {s.dev}
    BY <2>2, <2>3 DEF RequestState
  <2>6. Become(q, t) /\ UNCHANGED <<rooms, unused, devices, roomOf, list>>
    BY <1>3, <2>1, <2>2 DEF ComposeList, storeVars, roomVars
  <2>7. ListsOK'
    BY <2>6 DEF Calm, ListsOK
  <2>8. PurgeHolds(t)'
    BY <2>3, <2>4, <2>5, <2>6 DEF PurgeHolds
  <2>9. Holds(t)'
    BY <2>5, <2>8 DEF Holds, Adds
  <2>10. ASSUME NEW d \in devices, d # s.dev, NEW x \in rooms PROVE Agree(d, x)'
    BY <1>s, <2>1, <2>3, <2>6, <2>10 DEF Agree
  <2>11. QED
    BY <2>3, <2>5, <2>6, <2>7, <2>9, <2>10, DeleterMoves
<1>4. ASSUME NEW r \in Room, ForgetSequence(q, r) PROVE Calm'
  <2>1. PICK s : s = request[q]
    OBVIOUS
  <2>2. s.stage = "purge" /\ r \in s.rooms /\ s.dev \notin list[r] /\ UpdateRoom(q, r) /\ list' = list
    BY <1>4, <2>1 DEF ForgetSequence, At
  <2>3. \A x \in Room : list'[x] = IF x = r THEN list[x] \ {s.dev} ELSE list[x]
    BY <2>2
  <2>4. QED
    BY <1>u, <2>1, <2>2, <2>3
<1>5. CASE WriteList(q)
  <2>1. PICK s : s = request[q]
    OBVIOUS
  <2>2. s.stage = "write" /\ Holds(s) /\ UpdateRoom(q, s.room) /\ list' = [list EXCEPT ![s.room] = s.devs]
    BY <1>5, <2>1 DEF WriteList, At, Calm
  <2>3. PurgeHolds(s)
    BY <2>2 DEF Holds
  <2>4. s.room \in s.rooms /\ \A x \in Room : list'[x] = IF x = s.room THEN list[x] \ {s.dev} ELSE list[x]
    BY <2>2, <2>3 DEF PurgeHolds, TypeOK
  <2>5. QED
    BY <1>u, <2>1, <2>2, <2>4
<1>6. CASE DropDevice(q)
  <2>1. PICK s : s = request[q]
    OBVIOUS
  <2>2. s.stage = "purge" /\ s.rooms = {} /\ Holds(s) /\ Deletes(request[q])
    BY <1>6, <2>1 DEF DropDevice, At, Calm, Deletes
  <2>3. PurgeHolds(s)
    BY <2>2 DEF Holds
  <2>4. Become(q, Idle) /\ devices' = devices \ {s.dev} /\ UNCHANGED <<rooms, unused, list, roomOf>>
    BY <1>6, <2>1 DEF DropDevice, Return, roomVars
  <2>5. ListsOK'
    BY <2>2, <2>3, <2>4 DEF Calm, ListsOK, PurgeHolds
  <2>6. ASSUME NEW d \in devices', NEW x \in rooms' PROVE Agree(d, x)'
    BY <1>s, <2>1, <2>2, <2>4, <2>6 DEF Agree
  <2>7. QED
    BY <2>2, <2>4, <2>5, <2>6, IdleHolds, DeleterMoves
<1>7. QED
  BY <1>1, <1>2, <1>3, <1>4, <1>5, <1>6 DEF DeleteDevice

\* A new room is empty and named by nobody, a new device is in no room.
LEMMA CreateCalm ==
    ASSUME TypeOK, TypeOK', Calm, (\E r \in Room : CreateRoom(r)) \/ (\E d \in Device : CreateDevice(d))
    PROVE  Calm'
<1>a. rooms \subseteq Room /\ unused \subseteq Room \ rooms /\ devices \subseteq Device /\ NoRoom \notin Room
  BY MembershipAssumption DEF TypeOK
<1>0. boot = "up" /\ request' = request /\ list' = list
  BY DEF CreateRoom, CreateDevice, roomVars
<1>1. Apart'
  BY <1>0 DEF Calm, Apart
<1>2. ASSUME NEW r \in Room, CreateRoom(r)
      PROVE  /\ ListsOK' /\ \A s \in RequestState : Holds(s) => Holds(s)'
             /\ \A d \in devices' : Settled(d)'
  <2>1. /\ r \in unused /\ r \notin rooms /\ unused' = unused \ {r} /\ rooms' = rooms \cup {r}
        /\ UNCHANGED <<list, devices, roomOf, request>>
    BY <1>2, <1>a DEF CreateRoom
  <2>2. list[r] = {} /\ \A d \in devices : roomOf[d] # r
    BY <2>1 DEF Calm, ListsOK
  <2>3. ListsOK'
    <3>1. IsFiniteSet(list[r]) /\ Cardinality(list[r]) <= MaxDevices
      BY <2>2, FS_EmptySet, MembershipAssumption
    <3>2. QED
      BY <2>1, <2>2, <3>1 DEF Calm, ListsOK
  <2>4. \A d \in devices : Agree(d, r)'
    BY <2>1, <2>2 DEF Agree
  <2>5. \A d \in devices, x \in rooms : Agree(d, x)' <=> Agree(d, x)
    BY <2>1 DEF Agree
  <2>6. ASSUME NEW s \in RequestState, Holds(s) PROVE Holds(s)'
    <3>1. Adds(s) /\ AddHolds(s) => AddHolds(s)'
      BY <2>1, <2>2 DEF AddHolds
    <3>2. CheckHolds(s) => CheckHolds(s)'
      BY <2>1, <2>4, <2>5 DEF CheckHolds
    <3>3. ClearHolds(s) => ClearHolds(s)'
      BY <2>1, <2>2 DEF ClearHolds
    <3>4. ReleaseHolds(s) => ReleaseHolds(s)'
      BY <2>1, <2>4, <2>5 DEF ReleaseHolds
    <3>5. PurgeHolds(s) => PurgeHolds(s)'
      BY <2>1, <2>2 DEF PurgeHolds
    <3>6. QED
      BY <2>6, <3>1, <3>2, <3>3, <3>4, <3>5 DEF Holds
  <2>7. \A d \in devices' : Settled(d)'
    BY <1>0, <2>1, <2>4, <2>5 DEF Calm, Settled, Busy, RoomGoes
  <2>8. QED
    BY <2>3, <2>6, <2>7
<1>3. ASSUME NEW e \in Device, CreateDevice(e)
      PROVE  /\ ListsOK' /\ \A s \in RequestState : Holds(s) => Holds(s)'
             /\ \A d \in devices' : Settled(d)'
  <2>1. /\ e \notin devices /\ devices' = devices \cup {e}
        /\ roomOf' = [roomOf EXCEPT ![e] = NoRoom]
        /\ UNCHANGED <<rooms, unused, list, request>>
    BY <1>3 DEF CreateDevice, roomVars
  <2>2. roomOf'[e] = NoRoom /\ \A d \in devices : roomOf'[d] = roomOf[d]
    BY <1>a, <2>1 DEF TypeOK
  <2>3. ListsOK'
    BY <1>a, <2>1, <2>2 DEF Calm, ListsOK
  <2>4. \A x \in rooms : Agree(e, x)'
    BY <1>a, <2>1, <2>2 DEF Agree, Calm, ListsOK
  <2>5. \A d \in devices, x \in rooms : Agree(d, x)' <=> Agree(d, x)
    BY <2>1, <2>2 DEF Agree
  <2>6. ASSUME NEW s \in RequestState, Holds(s) PROVE Holds(s)'
    <3>1. AddHolds(s) => AddHolds(s)'
      BY <2>1 DEF AddHolds
    <3>2. CheckHolds(s) => CheckHolds(s)'
      BY <2>1, <2>4, <2>5 DEF CheckHolds
    <3>3. ClearHolds(s) => ClearHolds(s)'
      BY <2>1 DEF ClearHolds
    <3>4. ReleaseHolds(s) => ReleaseHolds(s)'
      BY <2>1, <2>4, <2>5 DEF ReleaseHolds
    <3>5. PurgeHolds(s) => PurgeHolds(s)'
      BY <2>1 DEF PurgeHolds
    <3>6. QED
      BY <2>6, <3>1, <3>2, <3>3, <3>4, <3>5 DEF Holds
  <2>7. \A d \in devices' : Settled(d)'
    BY <1>0, <2>1, <2>4, <2>5 DEF Calm, Settled, Busy, RoomGoes
  <2>8. QED
    BY <2>3, <2>6, <2>7
<1>4. ASSUME NEW q \in Request PROVE Holds(request[q])'
  <2>1. PICK s : s = request[q]
    OBVIOUS
  <2>2. s \in RequestState /\ Holds(s) /\ s = request'[q]
    BY <1>0, <2>1 DEF Calm, TypeOK
  <2>3. Holds(s)'
    BY <1>2, <1>3, <2>2
  <2>4. QED
    BY <2>2, <2>3, HoldsNext
<1>5. QED
  BY <1>1, <1>2, <1>3, <1>4 DEF Calm

\* A restart drops the requests; the corrections only take devices off lists.
LEMMA StartupCalm ==
    ASSUME TypeOK, TypeOK', Ordered, StartupInv, Calm, Restart \/ Startup
    PROVE  Calm'
<1>a. rooms \subseteq Room /\ unused \subseteq Room \ rooms /\ devices \subseteq Device /\ NoRoom \notin Room
  BY MembershipAssumption DEF TypeOK
<1>1. \A q \in Request : request'[q] = Idle
  BY DEF Restart, Startup, FixRoom, RoomsFixed, FixDevice, Serve, TypeOK
<1>2. Apart'
  BY <1>1 DEF Apart, Idle
<1>3. \A q \in Request : Holds(request[q])'
  BY <1>1, IdleHolds, HoldsNext
<1>4. ListsOK'
  <2>1. ASSUME NEW r \in Room, FixRoom(r) PROVE ListsOK'
    <3>1. \A x \in Room : list'[x] \subseteq list[x]
      BY <2>1 DEF FixRoom, Kept, TypeOK
    <3>2. QED
      BY <2>1, <3>1, ListsShrink DEF FixRoom, Calm
  <2>2. ASSUME NEW d \in Device, FixDevice(d) PROVE ListsOK'
    <3>1. assigned[d] \in rooms \cup {NoRoom}
      BY <2>2, OwnerOwns DEF FixDevice, StartupInv
    <3>2. \A e \in devices : roomOf'[e] = roomOf[e] \/ roomOf'[e] \in rooms \cup {NoRoom}
      BY <1>a, <2>2, <3>1 DEF FixDevice, TypeOK
    <3>3. QED
      BY <2>2, <3>2, ListsShrink DEF FixDevice, roomVars, Calm
  <2>3. CASE Restart \/ RoomsFixed \/ Serve
    BY <2>3 DEF Restart, RoomsFixed, Serve, storeVars, roomVars, Calm, ListsOK
  <2>4. QED
    BY <2>1, <2>2, <2>3 DEF Startup
<1>5. boot' = "up" => \A d \in devices' : Settled(d)'
  <2>1. CASE Serve
    <3>1. Agreed
      BY <2>1, CorrectedAgrees DEF Serve
    <3>2. \A d \in devices', r \in rooms' : Agree(d, r)'
      BY <2>1, <3>1 DEF Serve, storeVars, roomVars, Agreed, Agree
    <3>3. QED
      BY <3>2 DEF Settled
  <2>2. CASE ~Serve
    BY <2>2 DEF Restart, Startup, FixRoom, RoomsFixed, FixDevice, bootVars
  <2>3. QED
    BY <2>1, <2>2
<1>6. QED
  BY <1>2, <1>3, <1>4, <1>5 DEF Calm

\* Once two requests have clashed the history says so for good.
LEMMA ClashStays == TypeOK /\ [Next]_vars /\ ~clash' => ~clash
<1> SUFFICES ASSUME TypeOK, [Next]_vars, ~clash' PROVE ~clash
  OBVIOUS
<1>1. ASSUME NEW q \in Request, Add(q) \/ Remove(q) \/ DeleteRoom(q) \/ DeleteDevice(q) PROVE ~clash
  <2>1. CASE Add(q)
    BY <2>1 DEF Add, StartAdd, LeaveOther, OthersLeft, Insert, Assign, Arrive, At
  <2>2. CASE Remove(q)
    BY <2>2 DEF Remove, StartRemove, Check, Clear, Arrive, At
  <2>3. CASE DeleteRoom(q)
    BY <2>3 DEF DeleteRoom, StartDeleteRoom, Release, DropRoom, Arrive, At
  <2>4. CASE DeleteDevice(q)
    BY <2>4 DEF DeleteDevice, StartDeleteDevice, Skip, ComposeList, ForgetSequence, WriteList,
       DropDevice, Arrive, At
  <2>5. QED
    BY <1>1, <2>1, <2>2, <2>3, <2>4
<1>2. QED
  BY <1>1 DEF Next, CreateRoom, ChangeRoom, CreateDevice, Restart, Startup, FixRoom, RoomsFixed,
     FixDevice, Serve, vars

\* Until two requests clash, every step keeps what the requests rely on.
LEMMA CalmStep ==
    ASSUME TypeOK, TypeOK', Ordered, StartupInv, ~clash => Calm, [Next]_vars, ~clash'
    PROVE  Calm'
<1>1. Calm
  BY ClashStays
<1>2. ASSUME NEW q \in Request, Add(q) \/ Remove(q) \/ DeleteRoom(q) \/ DeleteDevice(q) PROVE Calm'
  BY <1>1, <1>2, AddCalm, RemoveCalm, DeleteRoomCalm, DeleteDeviceCalm
<1>3. CASE (\E r \in Room : ChangeRoom(r)) \/ UNCHANGED vars
  <2>1. UNCHANGED <<rooms, unused, list, devices, roomOf, request, boot>>
    BY <1>3 DEF ChangeRoom, vars, storeVars, roomVars, bootVars
  <2>2. Apart' /\ ListsOK'
    BY <1>1, <2>1 DEF Calm, Apart, ListsOK
  <2>3. \A q \in Request : Holds(request[q])'
    BY <1>1, <2>1 DEF Calm, Holds, AddHolds, CheckHolds, ClearHolds, ReleaseHolds, PurgeHolds, Agree
  <2>4. boot' = "up" => \A d \in devices' : Settled(d)'
    BY <1>1, <2>1 DEF Calm, Settled, Agree, Busy, RoomGoes
  <2>5. QED
    BY <2>2, <2>3, <2>4 DEF Calm
<1>4. QED
  BY <1>1, <1>2, <1>3, CreateCalm, StartupCalm DEF Next

\* Requests that do not concern each other may overlap in any number, and be cut off by
\* any number of restarts: no device gets into two rooms, no room gets more devices than
\* it may have or one that is gone, and a device nobody is moving names its room.
THEOREM Undisturbed == Spec => []UndisturbedUnlessClash
<1>1. Init => Calm
  <2> SUFFICES ASSUME Init PROVE Calm
    OBVIOUS
  <2>1. \A q \in Request : request[q] = Idle
    BY DEF Init
  <2>2. Apart /\ \A q \in Request : Holds(request[q])
    BY <2>1 DEF Apart, Idle, Holds, Adds
  <2>3. ListsOK /\ devices = {}
    BY DEF Init, ListsOK
  <2>4. QED
    BY <2>2, <2>3 DEF Calm
<1>2. TypeOK /\ TypeOK' /\ Ordered /\ StartupInv /\ (~clash => Calm) /\ [Next]_vars => (~clash => Calm)'
  BY CalmStep
<1>3. (~clash => Calm) => UndisturbedUnlessClash
  BY DEF Calm, ListsOK, Settled, Agree, UndisturbedUnlessClash
<1>4. QED
  BY <1>1, <1>2, <1>3, TypeInvariant, StartupInvariant, PTL DEF Spec

\* So at every moment the types hold and the two files agree on what no request has
\* in hand.
THEOREM MembershipSound == Spec => []MembershipIsSound
BY TypeCorrect, Undisturbed, PTL DEF MembershipIsSound
=============================================================================
