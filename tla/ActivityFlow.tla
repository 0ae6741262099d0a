---------------------------- MODULE ActivityFlow ----------------------------
(***************************************************************************)
(* The activities of one room: the handlers of                              *)
(* server/controller/activity_controller.go, the read-modify-write calls of *)
(* server/service/activity_service.go they are made of, the index and the   *)
(* detail file these calls share without a lock of their own, and the       *)
(* runtime copy in the room (server/sockets/room.go).                       *)
(*                                                                          *)
(* A service call reads the index, reads the detail file, writes the index  *)
(* and writes the detail file, each an action: only the index map has a     *)
(* lock, held for one access.  What the room does in memory is one action.  *)
(* Operators are HTTP requests; recorders are the goroutines that report    *)
(* game events (Run for lanterns, a reader for QA answers).                 *)
(***************************************************************************)
EXTENDS Naturals

CONSTANTS
    Activity,     \* the drafts created for the room
    Operator,     \* goroutines that start, end and cancel
    Recorder,     \* goroutines that report events
    MaxEvents,    \* bound: events per activity
    MaxCrashes,   \* bound: restarts of the server
    MaxFailures,  \* bound: failed writes of a detail file
    None,         \* the room runs no activity
    NoRoom        \* the room has no runtime yet

ASSUME ActivityAssumption ==
    /\ MaxEvents \in Nat /\ MaxCrashes \in Nat /\ MaxFailures \in Nat
    /\ None \notin Activity /\ NoRoom \notin Activity /\ None # NoRoom

Proc == Operator \cup Recorder

VARIABLES
    index,     \* status of an activity in activities.json and its map
    detail,    \* its detail.json: event count and attached artifacts
    room,      \* Room.CurrentActivity
    counts,    \* its EventCounts
    data,      \* the artifacts Answers and LanternData have something for
    pc, op, act,   \* where a goroutine stands: step, call and activity
    seen, got,     \* the status and the detail its call has read
    summary,       \* the count EndActivity will write
    snap,          \* the artifacts EndActivity has yet to attach
    happened,  \* history: the events of an activity
    crashes, failures

storeVars == <<index, detail>>
roomVars == <<room, counts, data>>
copyVars == <<seen, got>>
endVars == <<summary, snap>>
boundVars == <<happened, crashes, failures>>
vars == <<index, detail, room, counts, data, pc, op, act, seen, got, summary,
          snap, happened, crashes, failures>>

Status == {"draft", "running", "ended", "cancelled"}
Artifact == {"qa", "lantern"}      \* also the events kept in them
Event == Artifact \cup {"shot"}
Content == [count : Nat, arts : SUBSET Artifact]
Empty == [count |-> 0, arts |-> {}]
Call == {"update", "start", "end", "cancel", "attach"} \cup Event

\* Types: each goroutine in a step of its call, what it read and what is stored
\* always a status and a detail (activities.json, detail.json).
TypeOK ==
    /\ index \in [Activity -> Status]
    /\ detail \in [Activity -> Content]
    /\ room \in Activity \cup {None, NoRoom}
    /\ counts \in Nat
    /\ data \in SUBSET Artifact
    /\ pc \in [Proc -> {"idle", "room", "read", "load", "ensure", "index", "detail", "enter"}]
    /\ op \in [Proc -> Call]
    /\ act \in [Proc -> Activity]
    /\ seen \in [Proc -> Status]
    /\ got \in [Proc -> Content]
    /\ summary \in [Proc -> Nat]
    /\ snap \in [Proc -> SUBSET Artifact]
    /\ happened \in [Activity -> Content]
    /\ crashes \in 0..MaxCrashes
    /\ failures \in 0..MaxFailures

Init ==
    /\ index = [a \in Activity |-> "draft"]
    /\ detail = [a \in Activity |-> Empty]
    /\ room = NoRoom /\ counts = 0 /\ data = {}
    /\ pc = [p \in Proc |-> "idle"]
    /\ op = [p \in Proc |-> "start"]
    /\ act \in {[p \in Proc |-> a] : a \in Activity}
    /\ seen = [p \in Proc |-> "draft"]
    /\ got = [p \in Proc |-> Empty]
    /\ summary = [p \in Proc |-> 0]
    /\ snap = [p \in Proc |-> {}]
    /\ happened = [a \in Activity |-> Empty]
    /\ crashes = 0 /\ failures = 0

Goto(p, step) == pc' = [pc EXCEPT ![p] = step]
Calls(p, call) == op' = [op EXCEPT ![p] = call]

-----------------------------------------------------------------------------
(* Requests and events. *)

\* A start request may first replace the draft's name or context.
RequestStart(p, a) ==
    /\ p \in Operator /\ pc[p] = "idle"
    /\ act' = [act EXCEPT ![p] = a]
    /\ \/ Goto(p, "read") /\ Calls(p, "update")
       \/ Goto(p, "room") /\ Calls(p, "start")
    /\ UNCHANGED <<storeVars, roomVars, copyVars, endVars, boundVars>>

Request(p, a, call) ==
    /\ p \in Operator /\ pc[p] = "idle"
    /\ act' = [act EXCEPT ![p] = a]
    /\ Goto(p, "room") /\ Calls(p, call)
    /\ UNCHANGED <<storeVars, roomVars, copyVars, endVars, boundVars>>

\* recordActivityEvent counts an event of the running activity and goes on to
\* AppendEventStats.  An answer is kept at once, a lantern only afterwards; of
\* a shot nothing but its count.
RecordEvent(p, e) ==
    /\ p \in Recorder /\ pc[p] = "idle"
    /\ room \in Activity /\ happened[room].count < MaxEvents
    /\ counts' = counts + 1
    /\ data' = IF e = "qa" THEN data \cup {e} ELSE data
    /\ happened' = [happened EXCEPT ![room] =
          [count |-> @.count + 1, arts |-> @.arts \cup ({e} \cap Artifact)]]
    /\ act' = [act EXCEPT ![p] = room]
    /\ Goto(p, "read") /\ Calls(p, e)
    /\ UNCHANGED <<storeVars, room, copyVars, endVars, crashes, failures>>

-----------------------------------------------------------------------------
(* The room runtime. *)

\* GetOrCreateRoom: a new runtime restores a running activity from the store.
Restored ==
    LET running == {a \in Activity : index[a] = "running"}
    IN  IF room # NoRoom THEN {room} ELSE IF running = {} THEN {None} ELSE running

\* A player that connects creates the runtime ...
PlayerConnects ==
    /\ room = NoRoom
    /\ room' \in Restored
    /\ UNCHANGED <<storeVars, counts, data, pc, op, act, copyVars, endVars, boundVars>>

\* ... and so does a start request, which gives up if an activity runs there.
CheckRoom(p) ==
    /\ pc[p] = "room" /\ op[p] = "start"
    /\ room' \in Restored
    /\ Goto(p, IF room' \in Activity THEN "idle" ELSE "read")
    /\ UNCHANGED <<storeVars, counts, data, op, act, copyVars, endVars, boundVars>>

\* Room.EndActivity for an end or a cancel request, if the room runs its
\* activity; otherwise the summary is built from the stored one.
RoomLeftByEnd(call) == IF call = "end" THEN None ELSE room

RoomLeft(call) == None

LeaveRoom(p) ==
    /\ pc[p] = "room" /\ op[p] \in {"end", "cancel"}
    /\ IF room = act[p]
       THEN /\ summary' = [summary EXCEPT ![p] = counts]
            /\ snap' = [snap EXCEPT ![p] = IF op[p] = "end" THEN data ELSE {}]
            /\ room' = RoomLeft(op[p]) /\ counts' = 0 /\ data' = {}
       ELSE /\ summary' = [summary EXCEPT ![p] = detail[act[p]].count]
            /\ snap' = [snap EXCEPT ![p] = {}]
            /\ UNCHANGED roomVars
    /\ Goto(p, "read")
    /\ UNCHANGED <<storeVars, op, act, copyVars, boundVars>>

\* Room.StartActivity for the activity just persisted; if another one got there
\* first the new one is cancelled again.
EnterRoom(p) ==
    /\ pc[p] = "enter"
    /\ IF room \in Activity
       THEN Goto(p, "read") /\ Calls(p, "cancel") /\ UNCHANGED roomVars
       ELSE Goto(p, "idle") /\ room' = act[p] /\ counts' = 0 /\ data' = {} /\ UNCHANGED op
    /\ UNCHANGED <<storeVars, act, copyVars, endVars, boundVars>>

-----------------------------------------------------------------------------
(* The steps of a service call. *)

\* The statuses a call accepts.
AdmitsAll(call) == Status

Admits(call) ==
    CASE call \in {"update", "start"} -> {"draft"}
      [] call = "end" -> {"running"}
      [] call = "cancel" -> {"draft", "running"}
      [] OTHER -> Status

ReadIndex(p) ==
    /\ pc[p] = "read"
    /\ IF index[act[p]] \in Admits(op[p])
       THEN seen' = [seen EXCEPT ![p] = index[act[p]]] /\ Goto(p, "load")
       ELSE Goto(p, "idle") /\ UNCHANGED seen
    /\ UNCHANGED <<storeVars, roomVars, op, act, got, endVars, boundVars>>

LoadDetail(p) ==
    /\ pc[p] = "load"
    /\ got' = [got EXCEPT ![p] = detail[act[p]]]
    /\ Goto(p, IF op[p] = "start" THEN "ensure" ELSE "index")
    /\ UNCHANGED <<storeVars, roomVars, op, act, seen, endVars, boundVars>>

\* ensureRoomHasNoRunningActivity.
NoneChecked(p) == TRUE

NoOtherRuns(p) == \A b \in Activity \ {act[p]} : index[b] # "running"

EnsureNoneRuns(p) ==
    /\ pc[p] = "ensure"
    /\ Goto(p, IF NoOtherRuns(p) THEN "index" ELSE "idle")
    /\ UNCHANGED <<storeVars, roomVars, op, act, copyVars, endVars, boundVars>>

\* persistActivity: the index first, with the status of the activity as read
\* unless the call changes it ...
StatusAfter(p) ==
    CASE op[p] = "start" -> "running"
      [] op[p] = "end" -> "ended"
      [] op[p] = "cancel" -> "cancelled"
      [] OTHER -> seen[p]

WriteIndex(p) ==
    /\ pc[p] = "index"
    /\ index' = [index EXCEPT ![act[p]] = StatusAfter(p)]
    /\ Goto(p, "detail")
    /\ UNCHANGED <<detail, roomVars, op, act, copyVars, endVars, boundVars>>

\* ... then the whole detail file.
NextArtifact(p) == IF "qa" \in snap[p] THEN "qa" ELSE "lantern"

DetailAfterReplacingRefs(p) ==
    CASE op[p] = "end" -> [got[p] EXCEPT !.count = summary[p]]
      [] op[p] \in Event -> [got[p] EXCEPT !.count = @ + 1]
      [] op[p] = "attach" -> [got[p] EXCEPT !.arts = {NextArtifact(p)}]
      [] OTHER -> got[p]

DetailAfter(p) ==
    CASE op[p] = "end" -> [got[p] EXCEPT !.count = summary[p]]
      [] op[p] \in Event -> [got[p] EXCEPT !.count = @ + 1]
      [] op[p] = "attach" -> [got[p] EXCEPT !.arts = @ \cup {NextArtifact(p)}]
      [] OTHER -> got[p]

WriteDetail(p) ==
    /\ pc[p] = "detail"
    /\ detail' = [detail EXCEPT ![act[p]] = DetailAfter(p)]
    /\ snap' = IF op[p] = "attach" THEN [snap EXCEPT ![p] = @ \ {NextArtifact(p)}] ELSE snap
    /\ data' = IF op[p] = "lantern" /\ room \in Activity THEN data \cup {"lantern"} ELSE data
    /\ CASE op[p] = "update" -> Goto(p, "room") /\ Calls(p, "start")
         [] op[p] = "start" -> Goto(p, "enter") /\ UNCHANGED op
         [] op[p] \in {"end", "attach"} ->
               IF snap'[p] = {} THEN Goto(p, "idle") /\ UNCHANGED op
                                ELSE Goto(p, "read") /\ Calls(p, "attach")
         [] OTHER -> Goto(p, "idle") /\ UNCHANGED op
    /\ UNCHANGED <<index, room, counts, act, copyVars, summary, boundVars>>

\* The detail file cannot be written: the handler gives up with the index as it is.
DetailFails(p) ==
    /\ pc[p] = "detail" /\ failures < MaxFailures
    /\ failures' = failures + 1
    /\ Goto(p, "idle")
    /\ data' = IF op[p] = "lantern" /\ room \in Activity THEN data \cup {"lantern"} ELSE data
    /\ UNCHANGED <<storeVars, room, counts, op, act, copyVars, endVars, happened, crashes>>

\* The server restarts: the files stay, the goroutines and the runtime are gone.
Crash ==
    /\ crashes < MaxCrashes
    /\ crashes' = crashes + 1
    /\ pc' = [p \in Proc |-> "idle"]
    /\ room' = NoRoom /\ counts' = 0 /\ data' = {}
    /\ UNCHANGED <<storeVars, op, act, copyVars, endVars, happened, failures>>

-----------------------------------------------------------------------------
ServiceStep(p) ==
    \/ ReadIndex(p) \/ LoadDetail(p) \/ EnsureNoneRuns(p)
    \/ WriteIndex(p) \/ WriteDetail(p) \/ DetailFails(p)

Step(p) ==
    \/ \E a \in Activity :
          RequestStart(p, a) \/ Request(p, a, "end") \/ Request(p, a, "cancel")
    \/ \E e \in Event : RecordEvent(p, e)
    \/ CheckRoom(p) \/ LeaveRoom(p) \/ EnterRoom(p) \/ ServiceStep(p)

Next == (\E p \in Proc : Step(p)) \/ PlayerConnects \/ Crash

Spec == Init /\ [][Next]_vars

-----------------------------------------------------------------------------
(* What users see and are promised. *)

Lifecycle == INSTANCE ActivityLifecycle WITH status <- index

\* Seen through the index, one request at a time keeps to the lifecycle, also
\* when the server restarts or a detail file cannot be written between two
\* steps of the request.
KeepsLifecycle == Lifecycle!Spec

Idle == \A p \in Proc : pc[p] = "idle"

\* The same room never runs two activities (docs/ARCHITECTURE.md, Activity
\* Runtime).
OneRunning ==
    \A a, b \in Activity : index[a] = "running" /\ index[b] = "running" => a = b

\* Types, and a room that never runs two activities.
ActivityIsSound == TypeOK /\ OneRunning

\* When nobody is at work the room runs only what the store says is running:
\* what is over is no longer announced to the players (docs/API.md, the config
\* without activity_id at the end of an activity).
RoomAgreesWithStore == Idle /\ room \in Activity => index[room] = "running"

\* Only after a restart can a player that connects restore what a request is
\* about to end.
RoomAgreesUnlessRestarted == crashes = 0 => RoomAgreesWithStore

\* When an activity is over and nobody works on it, its results count every
\* event that happened while it ran (the event_counts of docs/API.md).
EventsCounted ==
    \A a \in Activity :
        Idle /\ index[a] = "ended" => detail[a].count = happened[a].count

\* ... and for each kind of event that happened an artifact was archived
\* (docs/API.md, "lantern artifact").
ArtifactsKept ==
    \A a \in Activity : Idle /\ index[a] = "ended" => detail[a].arts = happened[a].arts

\* One request at a time, the archive is complete whenever neither a restart
\* nor a failed write came in between.
ArchivedUnlessFault == crashes = 0 /\ failures = 0 => EventsCounted /\ ArtifactsKept
=============================================================================
