------------------------------ MODULE RoomHub ------------------------------
(***************************************************************************)
(* The goroutines of one player hub (server/sockets/room.go, player.go) and *)
(* the unbuffered channels between them:                                    *)
(*   - Run, the select loop that owns the player map;                       *)
(*   - UpdateInfo, the ticker loop Run starts with the first player and     *)
(*     stops, through a rendezvous, with the last one;                      *)
(*   - a reader per connection, which leaves through PlayerUnregister and   *)
(*     then reports to the consumer of StandbyDisconnect;                   *)
(*   - the HTTP handlers that register, detach and kick players.            *)
(*                                                                          *)
(* A send on an unbuffered channel is a sender that waits and an action of  *)
(* the receiver that serves it.  The 32768 slots of a player's InChannel    *)
(* are abstracted to "full or not": the players of Slow are those whose     *)
(* writer may fall so far behind that the next non-blocking send fails.     *)
(***************************************************************************)
EXTENDS Naturals, FiniteSets

CONSTANTS
    Player,        \* the connections: one *Player each, never reused
    Slow,          \* the connections whose InChannel may fill up
    BroadcastCap,  \* slots of PlayerBroadcast (1024 in the code)
    None           \* no player

ASSUME HubAssumption ==
    /\ Slow \subseteq Player
    /\ BroadcastCap \in Nat \ {0}
    /\ None \notin Player

VARIABLES
    members,    \* Room.Players
    inRoom,     \* whether Player.Room points to this room
    standby,    \* the players StandbyPlayerMap holds
    reader,     \* where the read goroutine of a connection stands
    join,       \* where the HTTP handler that admits the connection stands
    full,       \* whether InChannel has no free slot
    queued,     \* messages buffered in PlayerBroadcast
    kicks,      \* players an HTTP goroutine is waiting to unregister
    detaches,   \* players an HTTP goroutine is waiting to detach
    consumer,   \* player the StandbyDisconnect goroutine is waiting to unregister
    run,        \* where Run stands
    updater,    \* Run's local flag "an UpdateInfo goroutine is running"
    loop,       \* the UpdateInfo goroutine started by a player's registration
    target      \* player that UpdateInfo goroutine is waiting to unregister

connVars == <<inRoom, standby, reader, join>>
httpVars == <<kicks, detaches, consumer>>
loopVars == <<loop, target>>
vars == <<members, inRoom, standby, reader, join, full, queued, kicks, detaches,
          consumer, run, updater, loop, target>>

ReaderState == {"off", "reading", "control", "broadcast", "unregister", "report", "done"}

\* Types: no more messages than PlayerBroadcast has slots, and Run, the readers
\* and UpdateInfo each in a place of their code.
TypeOK ==
    /\ members \subseteq Player
    /\ inRoom \in [Player -> BOOLEAN]
    /\ standby \subseteq Player
    /\ reader \in [Player -> ReaderState]
    /\ join \in [Player -> {"none", "connecting", "register"}]
    /\ full \in [Player -> BOOLEAN]
    /\ queued \in 0..BroadcastCap
    /\ kicks \subseteq Player
    /\ detaches \subseteq Player
    /\ consumer \in Player \cup {None}
    /\ run \in {"select", "stopping", "self"}
    /\ updater \in BOOLEAN
    /\ loop \in [Player -> {"off", "ticking", "unregister"}]
    /\ target \in [Player -> Player \cup {None}]

Init ==
    /\ members = {}
    /\ inRoom = [p \in Player |-> FALSE]
    /\ standby = {}
    /\ reader = [p \in Player |-> "off"]
    /\ join = [p \in Player |-> "none"]
    /\ full = [p \in Player |-> FALSE]
    /\ queued = 0
    /\ kicks = {}
    /\ detaches = {}
    /\ consumer = None
    /\ run = "select"
    /\ updater = FALSE
    /\ loop = [p \in Player |-> "off"]
    /\ target = [p \in Player |-> None]

-----------------------------------------------------------------------------
(* What the handlers of Run share. *)

\* Run offers a message to every player of S.  If one has no free slot Run
\* sends that player on PlayerUnregister, a channel only Run receives from.
FanOut(S) ==
    run' = IF \E q \in S : full[q] THEN "self" ELSE "select"

\* A registration starts UpdateInfo unless the flag says that one runs.
StartUpdater(p) ==
    loop' = IF updater THEN loop ELSE [loop EXCEPT ![p] = "ticking"]

\* Run takes p out of the player map; with the last player it clears its flag
\* and goes on to hand the stop signal to UpdateInfo.
RemoveNothing(p) == UNCHANGED <<members, updater, run>>

RemoveUnchecked(p) ==
    /\ members' = members \ {p}
    /\ IF members \subseteq {p}
       THEN updater' = FALSE /\ run' = "stopping"
       ELSE UNCHANGED <<updater, run>>

Remove(p) ==
    IF p \in members
    THEN /\ members' = members \ {p}
         /\ IF members = {p}
            THEN updater' = FALSE /\ run' = "stopping"
            ELSE UNCHANGED <<updater, run>>
    ELSE UNCHANGED <<members, updater, run>>

-----------------------------------------------------------------------------
(* HTTP handlers and the environment. *)

\* The websocket is upgraded and HandlePlayerConnect starts the goroutines.
Connect(p) ==
    /\ reader[p] = "off"
    /\ reader' = [reader EXCEPT ![p] = "reading"]
    /\ join' = [join EXCEPT ![p] = "connecting"]
    /\ UNCHANGED <<members, inRoom, standby, full, queued, run, updater>>
    /\ UNCHANGED <<httpVars, loopVars>>

\* The handler parks a connection without a room in the standby map ...
ParkInStandby(p) ==
    /\ join[p] = "connecting"
    /\ join' = [join EXCEPT ![p] = "none"]
    /\ standby' = standby \cup {p}
    /\ UNCHANGED <<members, inRoom, reader, full, queued, run, updater>>
    /\ UNCHANGED <<httpVars, loopVars>>

\* ... and points the others, or a parked one that is assigned later, to the
\* room before it waits for Run to take the registration.
EnterRoom(p) ==
    /\ join[p] = "connecting" \/ (join[p] = "none" /\ p \in standby)
    /\ join' = [join EXCEPT ![p] = "register"]
    /\ inRoom' = [inRoom EXCEPT ![p] = TRUE]
    /\ UNCHANGED <<members, standby, reader, full, queued, run, updater>>
    /\ UNCHANGED <<httpVars, loopVars>>

\* DisconnectWSByDeviceID, or BroadcastConfig / BroadcastPlayCommand on a full
\* InChannel: an HTTP goroutine waits to unregister a member.
Kick(p) ==
    /\ p \in members \ kicks
    /\ kicks' = kicks \cup {p}
    /\ UNCHANGED <<members, full, queued, detaches, consumer, run, updater>>
    /\ UNCHANGED <<connVars, loopVars>>

\* DetachConnectedPlayerFromRoom waits to detach a member.
Detach(p) ==
    /\ p \in members \ detaches
    /\ detaches' = detaches \cup {p}
    /\ UNCHANGED <<members, full, queued, kicks, consumer, run, updater>>
    /\ UNCHANGED <<connVars, loopVars>>

\* The writer of a slow connection falls behind, or catches up.
Fill(p) ==
    /\ p \in Slow /\ reader[p] # "off" /\ ~full[p]
    /\ full' = [full EXCEPT ![p] = TRUE]
    /\ UNCHANGED <<members, queued, run, updater>>
    /\ UNCHANGED <<connVars, httpVars, loopVars>>

Drain(p) ==
    /\ full[p]
    /\ full' = [full EXCEPT ![p] = FALSE]
    /\ UNCHANGED <<members, queued, run, updater>>
    /\ UNCHANGED <<connVars, httpVars, loopVars>>

-----------------------------------------------------------------------------
(* The reader of a connection. *)

\* A message for MoveControl, SyncControl, SnapShotControl or PlayerBroadcast;
\* without a room the reader drops it.
Post(p) ==
    /\ reader[p] = "reading" /\ inRoom[p]
    /\ \E c \in {"control", "broadcast"} : reader' = [reader EXCEPT ![p] = c]
    /\ UNCHANGED <<members, inRoom, standby, join, full, queued, run, updater>>
    /\ UNCHANGED <<httpVars, loopVars>>

\* A free slot of PlayerBroadcast takes the message and frees the reader.
Enqueue(p) ==
    /\ reader[p] = "broadcast"
    /\ queued < BroadcastCap
    /\ queued' = queued + 1
    /\ reader' = [reader EXCEPT ![p] = "reading"]
    /\ UNCHANGED <<members, inRoom, standby, join, full, run, updater>>
    /\ UNCHANGED <<httpVars, loopVars>>

\* ReadMessage fails: the deferred function unregisters the player if it has a
\* room, then reports the connection.
Disconnect(p) ==
    /\ reader[p] = "reading"
    /\ reader' = [reader EXCEPT ![p] = IF inRoom[p] THEN "unregister" ELSE "report"]
    /\ UNCHANGED <<members, inRoom, standby, join, full, queued, run, updater>>
    /\ UNCHANGED <<httpVars, loopVars>>

\* The init goroutine of control_room.go takes the report; a player it still
\* finds in standby with a room set it unregisters first.
TakeReport(p) ==
    /\ reader[p] = "report" /\ consumer = None
    /\ reader' = [reader EXCEPT ![p] = "done"]
    /\ standby' = standby \ {p}
    /\ consumer' = IF p \in standby /\ inRoom[p] THEN p ELSE None
    /\ UNCHANGED <<members, inRoom, join, full, queued, kicks, detaches, run, updater>>
    /\ UNCHANGED loopVars

-----------------------------------------------------------------------------
(* UpdateInfo. *)

\* A tick finds a member's InChannel full and waits on PlayerUnregister.
LoopOverflow(i, p) ==
    /\ loop[i] = "ticking"
    /\ p \in members /\ full[p]
    /\ loop' = [loop EXCEPT ![i] = "unregister"]
    /\ target' = [target EXCEPT ![i] = p]
    /\ UNCHANGED <<members, full, queued, run, updater>>
    /\ UNCHANGED <<connVars, httpVars>>

-----------------------------------------------------------------------------
(* Run.  Every case of its select is an action that needs run = "select". *)

\* A registration: the first one starts UpdateInfo; the new player and those
\* whose sequence changes (S) are sent assign_sequence, the new one its state.
RunRegister(p) ==
    /\ run = "select" /\ join[p] = "register"
    /\ join' = [join EXCEPT ![p] = "none"]
    /\ standby' = standby \ {p}
    /\ members' = members \cup {p}
    /\ updater' = TRUE
    /\ StartUpdater(p)
    /\ \E S \in SUBSET members : FanOut(S \cup {p})
    /\ UNCHANGED <<inRoom, reader, full, queued, target>>
    /\ UNCHANGED httpVars

\* PlayerUnregister, by who was waiting to send p on it.
RunUnregisterReader(p) ==
    /\ run = "select" /\ reader[p] = "unregister"
    /\ reader' = [reader EXCEPT ![p] = "report"]
    /\ Remove(p)
    /\ UNCHANGED <<inRoom, standby, join, full, queued>>
    /\ UNCHANGED <<httpVars, loopVars>>

RunUnregisterKick(p) ==
    /\ run = "select" /\ p \in kicks
    /\ kicks' = kicks \ {p}
    /\ Remove(p)
    /\ UNCHANGED <<full, queued, detaches, consumer>>
    /\ UNCHANGED <<connVars, loopVars>>

RunUnregisterConsumer(p) ==
    /\ run = "select" /\ consumer = p
    /\ consumer' = None
    /\ Remove(p)
    /\ UNCHANGED <<full, queued, kicks, detaches>>
    /\ UNCHANGED <<connVars, loopVars>>

RunUnregisterLoop(i, p) ==
    /\ run = "select" /\ loop[i] = "unregister" /\ target[i] = p
    /\ loop' = [loop EXCEPT ![i] = "ticking"]
    /\ target' = [target EXCEPT ![i] = None]
    /\ Remove(p)
    /\ UNCHANGED <<full, queued>>
    /\ UNCHANGED <<connVars, httpVars>>

\* PlayerDetach: a member also loses its room.  The HTTP goroutine then parks
\* the player in standby, whether Run knew it or not.
RunDetach(p) ==
    /\ run = "select" /\ p \in detaches
    /\ detaches' = detaches \ {p}
    /\ inRoom' = [inRoom EXCEPT ![p] = @ /\ p \notin members]
    /\ standby' = standby \cup {p}
    /\ Remove(p)
    /\ UNCHANGED <<reader, join, full, queued, kicks, consumer>>
    /\ UNCHANGED loopVars

\* The updaterChannel rendezvous, taken only by an UpdateInfo at its select.
RunStop(i) ==
    /\ run = "stopping" /\ loop[i] = "ticking"
    /\ loop' = [loop EXCEPT ![i] = "off"]
    /\ run' = "select"
    /\ UNCHANGED <<members, full, queued, updater, target>>
    /\ UNCHANGED <<connVars, httpVars>>

\* A move, sync or snapshot from a reader: sent to all players, or to none.
RunControl(p) ==
    /\ run = "select" /\ reader[p] = "control"
    /\ reader' = [reader EXCEPT ![p] = "reading"]
    /\ \E S \in {members, {}} : FanOut(S)
    /\ UNCHANGED <<members, inRoom, standby, join, full, queued, updater>>
    /\ UNCHANGED <<httpVars, loopVars>>

\* A buffered shot or lantern: sent to all players but the one it names.
RunBroadcast ==
    /\ run = "select" /\ queued > 0
    /\ queued' = queued - 1
    /\ \E s \in Player \cup {None} : FanOut(members \ {s})
    /\ UNCHANGED <<members, full, updater>>
    /\ UNCHANGED <<connVars, httpVars, loopVars>>

\* A force move or a sequence signal from an HTTP handler to member p: no state
\* changes unless p has no free slot.
RunHttpControl(p) ==
    /\ run = "select" /\ p \in members /\ full[p]
    /\ FanOut({p})
    /\ UNCHANGED <<members, full, queued, updater>>
    /\ UNCHANGED <<connVars, httpVars, loopVars>>

-----------------------------------------------------------------------------
RunStep(p) ==
    \/ RunRegister(p)
    \/ RunUnregisterReader(p) \/ RunUnregisterKick(p) \/ RunUnregisterConsumer(p)
    \/ RunDetach(p) \/ RunStop(p) \/ RunControl(p)

\* What comes of an InChannel that is full.
OverflowStep(p) ==
    \/ Fill(p) \/ Drain(p) \/ RunHttpControl(p)
    \/ \E i \in Player : LoopOverflow(i, p) \/ RunUnregisterLoop(i, p)

Next ==
    \/ \E p \in Player :
          \/ Connect(p) \/ ParkInStandby(p) \/ EnterRoom(p)
          \/ Kick(p) \/ Detach(p)
          \/ Post(p) \/ Enqueue(p) \/ Disconnect(p) \/ TakeReport(p)
          \/ RunStep(p)
    \/ \E p \in Slow : OverflowStep(p)
    \/ RunBroadcast

Spec == Init /\ [][Next]_vars

\* Go schedules every runnable goroutine, a select picks at random among its
\* ready cases and the senders blocked on a channel are served in their order:
\* a send that its receiver can take again and again is taken.
Fairness ==
    /\ \A p \in Player : /\ SF_vars(RunRegister(p))
                         /\ SF_vars(RunUnregisterReader(p))
                         /\ SF_vars(TakeReport(p))
    /\ SF_vars(\E p \in Player : RunUnregisterConsumer(p))
    /\ WF_vars(\E i \in Player : RunStop(i))

FairSpec == Spec /\ Fairness

-----------------------------------------------------------------------------
(* What the hub promises. *)

Alive(i) == loop[i] # "off"

\* At most one UpdateInfo goroutine broadcasts for a room, however players
\* leave and come back while an old one has not yet received its stop signal
\* (the updater flag and the rendezvous of Room.Run).
OneUpdater ==
    \A i, j \in Player : Alive(i) /\ Alive(j) => i = j

\* Whenever Run is back at its select, an UpdateInfo goroutine runs exactly
\* when the room has players: none is left behind by the last player, and no
\* player is left without updates.
UpdaterServesMembers ==
    run = "select" => /\ updater <=> members # {}
                      /\ updater <=> \E i \in Player : Alive(i)

\* The stop signal Run waits to hand over always has an UpdateInfo goroutine
\* to take it, and the room is empty then (Room.Run would hang otherwise).
StopFindsUpdater ==
    run = "stopping" => /\ members = {} /\ ~updater
                        /\ \E i \in Player : Alive(i)

\* The update loop follows the player map: one goroutine while the room has
\* players, none otherwise, and no stop signal that nobody takes.
UpdaterFollowsMembers == OneUpdater /\ UpdaterServesMembers /\ StopFindsUpdater

\* A registered player always points back to the room, so its reader will
\* unregister it (Player.read checks p.Room first).
MembersAreInRoom == \A p \in members : inRoom[p]

\* What the hub is like at every moment.
HubIsSound == TypeOK /\ UpdaterFollowsMembers /\ MembersAreInRoom

\* A player whose connection is already gone.
Ghost(p) == p \in members /\ reader[p] \in {"report", "done"}

\* The end of a connection never leaves its player behind in the room: the
\* only way to a ghost is a registration that Run takes after the reader left.
GhostOnlyByLateRegistration ==
    [][\A p \in Player : ~Ghost(p) /\ Ghost(p)'
          => join[p] = "register" /\ join'[p] = "none"]_vars

\* Every reader that leaves gets through Run and the StandbyDisconnect
\* goroutine and ends.
LeaverEnds == \A p \in Player : reader[p] = "unregister" ~> reader[p] = "done"

\* Every registration is taken by Run, so no HTTP handler waits for ever.
RegistrationTaken == \A p \in Player : join[p] = "register" ~> join[p] = "none"

\* Run always returns to its select: the stop of UpdateInfo, the only place where
\* it waits as long as no InChannel is full, comes to an end.
RunReturns == run # "select" ~> run = "select"
=============================================================================
