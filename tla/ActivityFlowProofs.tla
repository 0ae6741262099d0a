-------------------------- MODULE ActivityFlowProofs --------------------------
(***************************************************************************)
(* What is proved of ActivityFlow: its types, for any goroutines; and, for  *)
(* a room whose requests and events come one at a time, that it runs at     *)
(* most one activity and keeps to the lifecycle of ActivityLifecycle, with  *)
(* any number of restarts and of failed writes; and, as long as no fault     *)
(* comes in between, that the room agrees with its store and the archive is *)
(* complete.  Two goroutines break each of these (README, section 6).       *)
(* At the end, what is proved of the two modules beside it: the players are *)
(* told what the room knows (RoomSession) and their sequence numbers stay   *)
(* apart (SequenceNumbers).                                                 *)
(***************************************************************************)
EXTENDS ActivityFlow, RoomSession, SequenceNumbers, WellFoundedInduction, FiniteSetTheorems, TLAPS

\* The requests and events of the room come from one goroutine.
OneAtATime == \A p, q \in Proc : p = q

\* A call that has read the index still knows the status its activity has, and
\* a start about to be written has found no other activity running.
ReadIsFresh(p) ==
    /\ pc[p] \in {"load", "ensure", "index"} =>
          /\ seen[p] = index[act[p]]
          /\ seen[p] \in Admits(op[p])
    /\ pc[p] = "index" /\ op[p] = "start" => NoOtherRuns(p)

Fresh == \A p \in Proc : ReadIsFresh(p)

-----------------------------------------------------------------------------
(* Types. *)

\* What a call writes to the detail file is a detail (AppendEventStats,
\* AttachArtifact, EndActivity).
LEMMA ContentAfter ==
    ASSUME TypeOK, NEW p \in Proc
    PROVE  DetailAfter(p) \in Content
<1>1. got[p] \in Content /\ summary[p] \in Nat
  BY DEF TypeOK
<1>2. got[p].count + 1 \in Nat /\ got[p].arts \cup {NextArtifact(p)} \in SUBSET Artifact
  BY <1>1 DEF Content, NextArtifact, Artifact
<1>3. \A n \in Nat : [got[p] EXCEPT !.count = n] \in Content
  BY <1>1 DEF Content
<1>4. \A as \in SUBSET Artifact : [got[p] EXCEPT !.arts = as] \in Content
  BY <1>1 DEF Content
<1> QED
  BY <1>1, <1>2, <1>3, <1>4 DEF DetailAfter

\* What a call writes to the index is a status (persistActivity).
LEMMA StatusTyped ==
    ASSUME TypeOK, NEW p \in Proc
    PROVE  StatusAfter(p) \in Status
BY DEF TypeOK, StatusAfter, Status

\* Every request and every event is the name of a call.
LEMMA CallNames ==
    Event \subseteq Call /\ {"update", "start", "end", "cancel", "attach"} \subseteq Call
BY DEF Call

\* A runtime is created with an activity of the room or with none.
LEMMA RestoredType ==
    ASSUME TypeOK
    PROVE  Restored \subseteq Activity \cup {None, NoRoom}
BY DEF TypeOK, Restored

\* The types hold initially ...
LEMMA TypeInit == Init => TypeOK
<1> SUFFICES ASSUME Init PROVE TypeOK
  OBVIOUS
<1>1. Empty \in Content /\ "start" \in Call /\ "draft" \in Status
  BY CallNames DEF Empty, Content, Status
<1>2. /\ index \in [Activity -> Status]
      /\ seen \in [Proc -> Status]
      /\ op \in [Proc -> Call]
  BY <1>1 DEF Init
<1>3. /\ detail \in [Activity -> Content]
      /\ got \in [Proc -> Content]
      /\ happened \in [Activity -> Content]
  BY <1>1 DEF Init
<1>4. act \in [Proc -> Activity]
  BY DEF Init
<1> QED
  BY <1>2, <1>3, <1>4, ActivityAssumption DEF Init, TypeOK, ActivityAssumption

\* ... the steps of a service call keep them ...
LEMMA TypeService ==
    ASSUME TypeOK, NEW p \in Proc, ServiceStep(p)
    PROVE  TypeOK'
<1>1. CASE ReadIndex(p)
  BY <1>1 DEF TypeOK, ReadIndex, Goto, storeVars, roomVars, endVars, boundVars
<1>2. CASE LoadDetail(p)
  BY <1>2 DEF TypeOK, LoadDetail, Goto, storeVars, roomVars, endVars, boundVars
<1>3. CASE EnsureNoneRuns(p)
  BY <1>3 DEF TypeOK, EnsureNoneRuns, Goto, storeVars, roomVars, copyVars, endVars, boundVars
<1>4. CASE WriteIndex(p)
  BY <1>4, StatusTyped DEF TypeOK, WriteIndex, Goto, roomVars, copyVars, endVars, boundVars
<1>5. CASE WriteDetail(p)
  <2>1. detail' \in [Activity -> Content]
    BY <1>5, ContentAfter DEF TypeOK, WriteDetail
  <2>2. snap' \in [Proc -> SUBSET Artifact] /\ data' \in SUBSET Artifact
    BY <1>5 DEF TypeOK, WriteDetail, Artifact
  <2>3. pc' \in [Proc -> {"idle", "room", "read", "load", "ensure", "index", "detail", "enter"}]
    BY <1>5 DEF TypeOK, WriteDetail, Goto
  <2>4. op' \in [Proc -> Call]
    BY <1>5, CallNames DEF TypeOK, WriteDetail, Calls
  <2> QED
    BY <1>5, <2>1, <2>2, <2>3, <2>4 DEF TypeOK, WriteDetail, copyVars, boundVars
<1>6. CASE DetailFails(p)
  BY <1>6, ActivityAssumption
     DEF TypeOK, DetailFails, Goto, storeVars, copyVars, endVars, Artifact, ActivityAssumption
<1> QED
  BY <1>1, <1>2, <1>3, <1>4, <1>5, <1>6 DEF ServiceStep

\* ... so do those of the room runtime ...
LEMMA TypeRoom ==
    ASSUME TypeOK, NEW p \in Proc, CheckRoom(p) \/ LeaveRoom(p) \/ EnterRoom(p)
    PROVE  TypeOK'
<1>1. CASE CheckRoom(p)
  BY <1>1, RestoredType
     DEF TypeOK, CheckRoom, Goto, storeVars, copyVars, endVars, boundVars
<1>2. CASE LeaveRoom(p)
  <2>1. detail[act[p]].count \in Nat
    BY DEF TypeOK, Content
  <2>2. CASE room = act[p]
    BY <1>2, <2>2 DEF TypeOK, LeaveRoom, RoomLeft, Goto, storeVars, copyVars, boundVars
  <2>3. CASE room # act[p]
    BY <1>2, <2>1, <2>3 DEF TypeOK, LeaveRoom, Goto, storeVars, roomVars, copyVars, boundVars
  <2> QED BY <2>2, <2>3
<1>3. CASE EnterRoom(p)
  <2>1. op' \in [Proc -> Call]
    BY <1>3, CallNames DEF TypeOK, EnterRoom, Calls
  <2>2. room' \in Activity \cup {None, NoRoom} /\ counts' \in Nat /\ data' \in SUBSET Artifact
    BY <1>3 DEF TypeOK, EnterRoom, roomVars
  <2>3. pc' = [pc EXCEPT ![p] = "read"] \/ pc' = [pc EXCEPT ![p] = "idle"]
    BY <1>3 DEF EnterRoom, Goto
  <2> QED
    BY <1>3, <2>1, <2>2, <2>3 DEF TypeOK, EnterRoom, storeVars, copyVars, endVars, boundVars
<1> QED
  BY <1>1, <1>2, <1>3

\* ... and so does every step.
LEMMA TypeStep == TypeOK /\ [Next]_vars => TypeOK'
<1> SUFFICES ASSUME TypeOK, [Next]_vars PROVE TypeOK'
  OBVIOUS
<1>1. ASSUME NEW p \in Proc, NEW a \in Activity, RequestStart(p, a)
      PROVE  TypeOK'
  BY <1>1, CallNames DEF TypeOK, RequestStart, Goto, Calls, storeVars, roomVars,
              copyVars, endVars, boundVars
<1>2. ASSUME NEW p \in Proc, NEW a \in Activity, NEW call \in {"end", "cancel"},
             Request(p, a, call)
      PROVE  TypeOK'
  BY <1>2, CallNames DEF TypeOK, Request, Goto, Calls, storeVars, roomVars,
              copyVars, endVars, boundVars
<1>3. ASSUME NEW p \in Proc, NEW e \in Event, RecordEvent(p, e)
      PROVE  TypeOK'
  <2>1. happened' \in [Activity -> Content]
    BY <1>3 DEF TypeOK, RecordEvent, Content
  <2>2. op' \in [Proc -> Call] /\ data' \in SUBSET Artifact
    BY <1>3, CallNames DEF TypeOK, RecordEvent, Calls, Artifact
  <2>3. /\ pc' = [pc EXCEPT ![p] = "read"]
        /\ act' \in [Proc -> Activity]
        /\ counts' \in Nat
    BY <1>3 DEF TypeOK, RecordEvent, Goto
  <2>4. UNCHANGED <<index, detail, room, seen, got, summary, snap, crashes, failures>>
    BY <1>3 DEF RecordEvent, storeVars, copyVars, endVars
  <2> QED
    BY <2>1, <2>2, <2>3, <2>4 DEF TypeOK
<1>4. CASE PlayerConnects
  BY <1>4, RestoredType DEF TypeOK, PlayerConnects, storeVars, copyVars, endVars, boundVars
<1>5. CASE Crash
  BY <1>5, ActivityAssumption
     DEF TypeOK, Crash, storeVars, copyVars, endVars, ActivityAssumption
<1>6. CASE UNCHANGED vars
  BY <1>6 DEF TypeOK, vars
<1> QED
  BY <1>1, <1>2, <1>3, <1>4, <1>5, <1>6, TypeService, TypeRoom DEF Next, Step

\* The types hold for any number of goroutines, restarts and failed writes.
THEOREM TypeCorrect == Spec => []TypeOK
BY TypeInit, TypeStep, PTL DEF Spec

-----------------------------------------------------------------------------
(* One goroutine at a time. *)

\* Only WriteIndex touches the index.
LEMMA IndexKept ==
    ASSUME [Next]_vars, \A p \in Proc : ~WriteIndex(p)
    PROVE  index' = index
<1>1. ASSUME NEW p \in Proc, ServiceStep(p) PROVE index' = index
  BY <1>1 DEF ServiceStep, ReadIndex, LoadDetail, EnsureNoneRuns, WriteDetail, DetailFails,
              storeVars
<1>2. ASSUME NEW p \in Proc, Step(p) PROVE index' = index
  BY <1>1, <1>2 DEF Step, RequestStart, Request, RecordEvent, CheckRoom, LeaveRoom,
                    EnterRoom, storeVars
<1> QED
  BY <1>2 DEF Next, PlayerConnects, Crash, vars, storeVars

\* Initially nobody has read anything.
LEMMA FreshInit == Init => Fresh
BY DEF Init, Fresh, ReadIsFresh

\* What the one goroutine read stays true until it writes the index itself: its
\* checks still hold at the write.
LEMMA FreshStep ==
    ASSUME OneAtATime, TypeOK, Fresh, [Next]_vars
    PROVE  Fresh'
<1>1. CASE UNCHANGED vars
  BY <1>1 DEF Fresh, ReadIsFresh, Admits, NoOtherRuns, vars
<1>2. CASE PlayerConnects
  BY <1>2 DEF Fresh, ReadIsFresh, Admits, NoOtherRuns, PlayerConnects, storeVars, copyVars
<1>3. CASE Crash
  BY <1>3 DEF Fresh, ReadIsFresh, Crash
<1>4. ASSUME NEW p \in Proc, Step(p) PROVE Fresh'
  <2> SUFFICES ReadIsFresh(p)'
    BY DEF Fresh, OneAtATime
  <2> USE <1>4 DEF TypeOK, Goto
  <2>1. ReadIsFresh(p)
    BY DEF Fresh
  <2>2. ASSUME pc'[p] \notin {"load", "ensure", "index"} PROVE ReadIsFresh(p)'
    BY <2>2 DEF ReadIsFresh
  <2>3. CASE ReadIndex(p)
    BY <2>3 DEF ReadIndex, ReadIsFresh, Admits, storeVars
  <2>4. CASE LoadDetail(p)
    BY <2>1, <2>4 DEF LoadDetail, ReadIsFresh, Admits, storeVars
  <2>5. CASE EnsureNoneRuns(p)
    BY <2>1, <2>5 DEF EnsureNoneRuns, ReadIsFresh, Admits, NoOtherRuns, storeVars, copyVars
  <2>6. CASE WriteIndex(p) \/ WriteDetail(p) \/ DetailFails(p)
    BY <2>2, <2>6 DEF WriteIndex, WriteDetail, DetailFails
  <2>7. ASSUME NEW a \in Activity,
               RequestStart(p, a) \/ Request(p, a, "end") \/ Request(p, a, "cancel")
        PROVE  ReadIsFresh(p)'
    BY <2>2, <2>7 DEF RequestStart, Request
  <2>8. ASSUME NEW e \in Event, RecordEvent(p, e) PROVE ReadIsFresh(p)'
    BY <2>2, <2>8 DEF RecordEvent
  <2>9. CASE CheckRoom(p) \/ LeaveRoom(p) \/ EnterRoom(p)
    BY <2>2, <2>9 DEF CheckRoom, LeaveRoom, EnterRoom
  <2> QED
    BY <2>3, <2>4, <2>5, <2>6, <2>7, <2>8, <2>9 DEF Step, ServiceStep
<1> QED
  BY <1>1, <1>2, <1>3, <1>4 DEF Next

\* A write of the index is a step of the lifecycle, or changes nothing.
LEMMA WriteIsLifecycleStep ==
    ASSUME TypeOK, Fresh, NEW p \in Proc, WriteIndex(p)
    PROVE  Lifecycle!Next \/ index' = index
<1> DEFINE a == act[p]
<1>1. /\ a \in Activity
      /\ index \in [Activity -> Status]
      /\ index' = [index EXCEPT ![a] = StatusAfter(p)]
      /\ op[p] \in Call
  BY DEF TypeOK, WriteIndex
<1>2. /\ index[a] \in Admits(op[p])
      /\ op[p] = "start" => NoOtherRuns(p)
      /\ seen[p] = index[a]
  BY DEF Fresh, ReadIsFresh, WriteIndex
<1>3. CASE op[p] = "start"
  <2>1. index[a] = "draft" /\ StatusAfter(p) = "running"
    BY <1>2, <1>3 DEF Admits, StatusAfter
  <2>2. \A b \in Activity : index[b] # "running"
    BY <1>2, <1>3, <2>1 DEF NoOtherRuns
  <2> QED
    BY <1>1, <2>1, <2>2 DEF Lifecycle!Next, Lifecycle!Start
<1>4. CASE op[p] = "end"
  <2>1. index[a] = "running" /\ StatusAfter(p) = "ended"
    BY <1>2, <1>4 DEF Admits, StatusAfter
  <2> QED
    BY <1>1, <2>1 DEF Lifecycle!Next, Lifecycle!End
<1>5. CASE op[p] = "cancel"
  <2>1. index[a] \in {"draft", "running"} /\ StatusAfter(p) = "cancelled"
    BY <1>2, <1>5 DEF Admits, StatusAfter
  <2> QED
    BY <1>1, <2>1 DEF Lifecycle!Next, Lifecycle!Cancel
<1>6. CASE op[p] \notin {"start", "end", "cancel"}
  <2>1. StatusAfter(p) = index[a]
    BY <1>2, <1>6 DEF StatusAfter
  <2> QED
    BY <1>1, <2>1
<1> QED
  BY <1>3, <1>4, <1>5, <1>6

\* Hence every step, since the others leave the index alone.
LEMMA LifecycleStep ==
    ASSUME TypeOK, Fresh, [Next]_vars
    PROVE  [Lifecycle!Next]_index
BY IndexKept, WriteIsLifecycleStep

\* One request or event at a time, the index of a room is a lifecycle: every
\* step of every handler is a step of ActivityLifecycle or changes no status.
THEOREM Implements == ASSUME OneAtATime PROVE Spec => KeepsLifecycle
<1>1. Init => Lifecycle!Init
  BY DEF Init, Lifecycle!Init
<1>2. Fresh /\ TypeOK /\ [Next]_vars => Fresh'
  BY FreshStep
<1>3. Fresh /\ TypeOK /\ [Next]_vars => [Lifecycle!Next]_index
  BY LifecycleStep
<1> QED
  BY <1>1, <1>2, <1>3, FreshInit, TypeCorrect, PTL DEF Spec, KeepsLifecycle, Lifecycle!Spec

\* The lifecycle alone keeps a second activity from running.
LEMMA LifecycleOneRunning ==
    ASSUME TypeOK, OneRunning, [Lifecycle!Next]_index
    PROVE  OneRunning'
BY DEF TypeOK, OneRunning, Lifecycle!Next, Lifecycle!Start, Lifecycle!End, Lifecycle!Cancel

\* One request or event at a time, the room never has two running activities in
\* its store, whatever restarts and failed writes come in between.
THEOREM OneRuns == ASSUME OneAtATime PROVE Spec => []OneRunning
<1>1. Init => OneRunning
  BY DEF Init, OneRunning
<1>2. Fresh /\ TypeOK /\ [Next]_vars => Fresh'
  BY FreshStep
<1>3. OneRunning /\ Fresh /\ TypeOK /\ [Next]_vars => OneRunning'
  BY LifecycleStep, LifecycleOneRunning
<1> QED
  BY <1>1, <1>2, <1>3, FreshInit, TypeCorrect, PTL DEF Spec

\* So at every moment the types hold and the room has at most one running activity.
THEOREM ActivitySound == ASSUME OneAtATime PROVE Spec => []ActivityIsSound
BY TypeCorrect, OneRuns, PTL DEF ActivityIsSound

-----------------------------------------------------------------------------
(* The room and its store, before any restart. *)

\* What a start has found of the room stays so until it enters it, and an end or a
\* cancel has made the room leave its activity.
RoomInHand(p) ==
    /\ pc[p] \in {"ensure", "enter"} => op[p] = "start"
    /\ op[p] = "start" /\ pc[p] \notin {"idle", "room"} => room = None
    /\ op[p] = "start" /\ pc[p] \in {"detail", "enter"} => index[act[p]] = "running"
    /\ crashes = 0 /\ op[p] \in {"end", "cancel"} /\ pc[p] \in {"read", "load", "index"} =>
          room # act[p]

\* Before a restart there is nothing to restore, and the room runs what the store says
\* is running, also in the middle of a request.
RoomIsStored ==
    crashes = 0 =>
        /\ room = NoRoom => \A a \in Activity : index[a] # "running"
        /\ room \in Activity => index[room] = "running"

RoomInv == RoomIsStored /\ \A p \in Proc : RoomInHand(p)

\* Every step keeps the room's activity and the stored one in agreement.
LEMMA RoomStep ==
    ASSUME OneAtATime, TypeOK, Fresh, RoomInv, [Next]_vars
    PROVE  RoomInv'
<1> USE ActivityAssumption DEF RoomInv, RoomIsStored
<1>1. CASE UNCHANGED vars
  BY <1>1 DEF vars, RoomInHand
<1>2. CASE PlayerConnects
  <2>1. room = NoRoom /\ (crashes = 0 => room' = None) /\ (room' \in Activity => index[room'] = "running")
    BY <1>2 DEF PlayerConnects, Restored
  <2>2. room' # NoRoom
    BY <1>2, <2>1 DEF PlayerConnects, Restored, TypeOK
  <2>3. ASSUME NEW p \in Proc PROVE RoomInHand(p)'
    BY <1>2, <2>1, RoomInHand(p) DEF PlayerConnects, RoomInHand, storeVars, boundVars, TypeOK
  <2>4. QED
    BY <1>2, <2>1, <2>2, <2>3 DEF PlayerConnects, storeVars, boundVars
<1>3. CASE Crash
  <2>1. crashes' # 0
    BY <1>3 DEF Crash, TypeOK
  <2>2. QED
    BY <1>3, <2>1 DEF Crash, RoomInHand
<1>4. ASSUME NEW p \in Proc, Step(p) PROVE RoomInv'
  <2> SUFFICES RoomIsStored' /\ RoomInHand(p)'
    BY DEF OneAtATime
  <2> USE DEF Goto, Calls, storeVars, roomVars, copyVars, endVars, boundVars, TypeOK
  <2>0. RoomInHand(p) /\ ReadIsFresh(p) /\ act[p] \in Activity
    BY DEF Fresh
  <2>1. ASSUME NEW a \in Activity,
               RequestStart(p, a) \/ Request(p, a, "end") \/ Request(p, a, "cancel")
        PROVE  RoomIsStored' /\ RoomInHand(p)'
    BY <2>1 DEF RequestStart, Request, RoomInHand
  <2>2. ASSUME NEW e \in Event, RecordEvent(p, e) PROVE RoomIsStored' /\ RoomInHand(p)'
    BY <2>2 DEF RecordEvent, RoomInHand, Event, Artifact
  <2>3. CASE CheckRoom(p)
    <3>1. /\ room' # NoRoom
          /\ crashes = 0 /\ room' \in Activity => index[room'] = "running"
      BY <2>3 DEF CheckRoom, Restored
    <3>2. room' \in Activity \cup {None, NoRoom}
      BY <2>3, RestoredType DEF CheckRoom
    <3>3. op' = op /\ pc' = [pc EXCEPT ![p] = IF room' \in Activity THEN "idle" ELSE "read"] /\ op[p] = "start"
      BY <2>3 DEF CheckRoom
    <3>4. RoomInHand(p)'
      BY <3>1, <3>2, <3>3 DEF RoomInHand
    <3>5. QED
      BY <2>3, <3>1, <3>4 DEF CheckRoom
  <2>4. CASE LeaveRoom(p)
    BY <2>0, <2>4 DEF LeaveRoom, RoomLeft, RoomInHand
  <2>5. CASE EnterRoom(p)
    <3>1. room = None /\ index[act[p]] = "running"
      BY <2>0, <2>5 DEF EnterRoom, RoomInHand
    <3>2. room' = act[p] /\ pc'[p] = "idle" /\ UNCHANGED <<index, crashes>>
      BY <2>5, <3>1 DEF EnterRoom
    <3>3. QED
      BY <2>0, <3>1, <3>2 DEF RoomInHand
  <2>6. CASE ReadIndex(p) \/ LoadDetail(p) \/ EnsureNoneRuns(p)
    BY <2>0, <2>6 DEF ReadIndex, LoadDetail, EnsureNoneRuns, RoomInHand
  <2>7. CASE WriteIndex(p)
    <3>1. /\ index' = [index EXCEPT ![act[p]] = StatusAfter(p)]
          /\ seen[p] = index[act[p]] /\ seen[p] \in Admits(op[p])
      BY <2>0, <2>7 DEF WriteIndex, ReadIsFresh
    <3>2. CASE op[p] = "start"
      BY <2>0, <2>7, <3>1, <3>2 DEF WriteIndex, StatusAfter, RoomInHand
    <3>3. CASE op[p] \in {"end", "cancel"}
      BY <2>0, <2>7, <3>1, <3>3 DEF WriteIndex, StatusAfter, RoomInHand
    <3>4. CASE op[p] \notin {"start", "end", "cancel"}
      <4>1. index' = index
        BY <3>1, <3>4 DEF StatusAfter
      <4>2. QED
        BY <2>7, <3>4, <4>1 DEF WriteIndex, RoomInHand
    <3>5. QED
      BY <3>2, <3>3, <3>4
  <2>8. CASE WriteDetail(p)
    <3>1. UNCHANGED <<index, room, act, crashes>>
      BY <2>8 DEF WriteDetail
    <3>2. RoomInHand(p)'
      BY <2>0, <2>8, <3>1 DEF WriteDetail, RoomInHand
    <3>3. QED
      BY <3>1, <3>2
  <2>9. CASE DetailFails(p)
    BY <2>9 DEF DetailFails, RoomInHand
  <2>10. QED
    BY <1>4, <2>1, <2>2, <2>3, <2>4, <2>5, <2>6, <2>7, <2>8, <2>9 DEF Step, ServiceStep
<1>5. QED
  BY <1>1, <1>2, <1>3, <1>4 DEF Next

\* One request or event at a time, and until the server restarts, whatever write fails:
\* a room at rest runs only what its store says is running.
THEOREM RoomAgrees == ASSUME OneAtATime PROVE Spec => []RoomAgreesUnlessRestarted
<1>1. Init => RoomInv
  BY ActivityAssumption DEF Init, RoomInv, RoomIsStored, RoomInHand
<1>2. Fresh /\ TypeOK /\ [Next]_vars => Fresh'
  BY FreshStep
<1>3. RoomInv /\ Fresh /\ TypeOK /\ [Next]_vars => RoomInv'
  BY RoomStep
<1>4. RoomInv => RoomAgreesUnlessRestarted
  BY DEF RoomInv, RoomIsStored, RoomAgreesUnlessRestarted, RoomAgreesWithStore
<1>5. QED
  BY <1>1, <1>2, <1>3, <1>4, FreshInit, TypeCorrect, PTL DEF Spec
-----------------------------------------------------------------------------
(* The archive, before any fault. *)

Ending(p) == op[p] = "end" /\ pc[p] = "detail"
Attaching(p) == op[p] = "attach" /\ pc[p] # "idle"
Archiving(p) == Ending(p) \/ Attaching(p)

\* What the archive of an activity says is what happened.
Complete(a) == detail[a].count = happened[a].count /\ detail[a].arts = happened[a].arts

\* What a goroutine still has to write: an event it has counted in the room but not
\* kept, the summary and the artifacts of an activity that has left the room.
Pending(p) ==
    /\ pc[p] \in {"ensure", "index", "detail"} => got[p] = detail[act[p]]
    /\ op[p] \in Event /\ pc[p] # "idle" => act[p] = room
    /\ op[p] = "end" /\ pc[p] \in {"read", "load", "index"} /\ index[act[p]] = "running" =>
          summary[p] = happened[act[p]].count /\ snap[p] = happened[act[p]].arts
    /\ Ending(p) =>
          /\ index[act[p]] = "ended" /\ detail[act[p]].arts = {}
          /\ summary[p] = happened[act[p]].count /\ snap[p] = happened[act[p]].arts
    /\ Attaching(p) =>
          /\ index[act[p]] = "ended" /\ snap[p] # {}
          /\ detail[act[p]].count = happened[act[p]].count
          /\ detail[act[p]].arts \cup snap[p] = happened[act[p]].arts
    /\ op[p] = "start" /\ pc[p] \in {"detail", "enter"} => happened[act[p]] = Empty
    /\ room \in Activity =>
          IF op[p] = "lantern" /\ pc[p] # "idle"
          THEN happened[room].arts = data \cup {"lantern"}
          ELSE happened[room].arts = data

\* What runs in the store and not in the room is being started, or ended.
InHand(p) ==
    \A a \in Activity : index[a] = "running" /\ room # a =>
        /\ a = act[p]
        /\ \/ op[p] = "start" /\ pc[p] \in {"detail", "enter"}
           \/ op[p] \in {"end", "cancel"} /\ pc[p] \in {"read", "load", "index"}

\* What has ended is complete unless somebody is still archiving it.
Archived ==
    /\ \A a \in Activity :
          /\ index[a] = "draft" => happened[a] = Empty
          /\ index[a] \in {"draft", "running"} => detail[a].arts = {}
          /\ index[a] = "ended" /\ (\A p \in Proc : ~(act[p] = a /\ Archiving(p))) => Complete(a)
    /\ room \in Activity => counts = happened[room].count

ArchiveInv ==
    crashes = 0 /\ failures = 0 =>
        Archived /\ (\A p \in Proc : Pending(p) /\ InHand(p))

\* No detail is written by a step of a request before its service call.
LEMMA ArchiveRoomStep ==
    ASSUME OneAtATime, TypeOK, Fresh, RoomInv, RoomInv', ArchiveInv, crashes = 0, failures = 0,
           NEW p \in Proc, CheckRoom(p) \/ LeaveRoom(p) \/ EnterRoom(p)
    PROVE  Archived' /\ Pending(p)' /\ InHand(p)'
<1>0. Archived /\ Pending(p) /\ InHand(p) /\ RoomInHand(p) /\ RoomIsStored /\ act[p] \in Activity
  BY DEF ArchiveInv, RoomInv, TypeOK
<1> USE ActivityAssumption
    DEF Goto, Calls, storeVars, roomVars, copyVars, endVars, boundVars, TypeOK, Archiving, Ending, Attaching
<1>1. CASE CheckRoom(p)
  <2>1. room' = room \/ room' = None
    BY <1>0, <1>1 DEF CheckRoom, Restored, RoomIsStored
  <2>2. room' # room => room = NoRoom
    BY <1>1 DEF CheckRoom, Restored
  <2>3. /\ UNCHANGED <<index, detail, happened, act, op, counts, data, summary, snap, got>>
        /\ pc' = [pc EXCEPT ![p] = IF room' \in Activity THEN "idle" ELSE "read"]
        /\ pc[p] = "room" /\ op[p] = "start"
    BY <1>1 DEF CheckRoom
  <2>4. Archived'
    BY <1>0, <2>1, <2>3 DEF Archived, Complete, OneAtATime
  <2>5. Pending(p)'
    BY <1>0, <2>1, <2>3 DEF Pending, Event, Artifact
  <2>6. InHand(p)'
    BY <1>0, <2>1, <2>2, <2>3 DEF InHand
  <2>7. QED
    BY <2>4, <2>5, <2>6
<1>2. CASE LeaveRoom(p)
  <2>1. /\ UNCHANGED <<index, detail, happened, act, op, got>> /\ pc' = [pc EXCEPT ![p] = "read"]
        /\ pc[p] = "room" /\ op[p] \in {"end", "cancel"}
    BY <1>2 DEF LeaveRoom
  <2>2. room # act[p] => UNCHANGED roomVars /\ index[act[p]] # "running"
    BY <1>0, <1>2 DEF LeaveRoom, InHand
  <2>3. room = act[p] =>
          /\ room' = None /\ summary'[p] = counts
          /\ op[p] = "end" => snap'[p] = data
    BY <1>2 DEF LeaveRoom, RoomLeft
  <2>4. room = act[p] => counts = happened[room].count /\ data = happened[room].arts
    BY <1>0, <2>1 DEF Archived, Pending
  <2>5. Archived'
    BY <1>0, <2>1, <2>2, <2>3 DEF Archived, Complete, OneAtATime
  <2>6. Pending(p)'
    BY <1>0, <2>1, <2>2, <2>3, <2>4 DEF Pending, Event, Artifact
  <2>7. InHand(p)'
    BY <1>0, <2>1, <2>2, <2>3 DEF InHand
  <2>8. QED
    BY <2>5, <2>6, <2>7
<1>3. CASE EnterRoom(p)
  <2>1. room = None /\ op[p] = "start" /\ pc[p] = "enter" /\ index[act[p]] = "running"
    BY <1>0, <1>3 DEF EnterRoom, RoomInHand
  <2>2. /\ room' = act[p] /\ counts' = 0 /\ data' = {} /\ pc' = [pc EXCEPT ![p] = "idle"]
        /\ UNCHANGED <<index, detail, happened, act, op, summary, snap, got>>
    BY <1>3, <2>1 DEF EnterRoom
  <2>3. happened[act[p]].count = 0 /\ happened[act[p]].arts = {}
    BY <1>0, <2>1 DEF Pending, Empty
  <2>4. Archived'
    BY <1>0, <2>1, <2>2, <2>3 DEF Archived, Complete, OneAtATime
  <2>5. Pending(p)'
    BY <1>0, <2>1, <2>2, <2>3 DEF Pending
  <2>6. InHand(p)'
    BY <1>0, <2>1, <2>2 DEF InHand
  <2>7. QED
    BY <2>4, <2>5, <2>6
<1>4. QED
  BY <1>1, <1>2, <1>3

\* A call that reads, and one that writes the index: an end takes its activity out of
\* the running ones with the summary in hand.
LEMMA ArchiveIndexStep ==
    ASSUME OneAtATime, TypeOK, Fresh, RoomInv, ArchiveInv, crashes = 0, failures = 0,
           NEW p \in Proc,
           ReadIndex(p) \/ LoadDetail(p) \/ EnsureNoneRuns(p) \/ WriteIndex(p)
    PROVE  Archived' /\ Pending(p)' /\ InHand(p)'
<1>0. /\ Archived /\ Pending(p) /\ InHand(p) /\ RoomInHand(p) /\ RoomIsStored /\ act[p] \in Activity
      /\ ReadIsFresh(p)
  BY DEF ArchiveInv, RoomInv, TypeOK, Fresh
<1>a. UNCHANGED <<detail, happened, act, op, room, counts, data, summary, snap>>
  BY DEF ReadIndex, LoadDetail, EnsureNoneRuns, WriteIndex, storeVars, roomVars, copyVars, endVars,
         boundVars
<1> USE DEF Goto, storeVars, roomVars, copyVars, endVars, boundVars, TypeOK, Archiving, Ending, Attaching
<1>1. CASE ReadIndex(p)
  <2>1. /\ UNCHANGED <<index, got>> /\ pc[p] = "read"
        /\ pc' = [pc EXCEPT ![p] = IF index[act[p]] \in Admits(op[p]) THEN "load" ELSE "idle"]
    BY <1>1 DEF ReadIndex
  <2>2. /\ op[p] \in {"end", "cancel"} /\ index[act[p]] = "running" => index[act[p]] \in Admits(op[p])
        /\ op[p] \in Event \cup {"attach"} => index[act[p]] \in Admits(op[p])
    BY DEF Admits, Event, Artifact
  <2>3. Archived'
    BY <1>0, <1>a, <2>1, <2>2 DEF Archived, Complete, OneAtATime
  <2>4. Pending(p)'
    BY <1>0, <1>a, <2>1, <2>2 DEF Pending, Event, Artifact
  <2>5. InHand(p)'
    BY <1>0, <1>a, <2>1, <2>2 DEF InHand
  <2>6. QED
    BY <2>3, <2>4, <2>5
<1>2. CASE LoadDetail(p)
  <2>1. /\ index' = index /\ pc[p] = "load" /\ got'[p] = detail[act[p]]
        /\ pc' = [pc EXCEPT ![p] = IF op[p] = "start" THEN "ensure" ELSE "index"]
    BY <1>2 DEF LoadDetail
  <2>2. Archived'
    BY <1>0, <1>a, <2>1 DEF Archived, Complete, OneAtATime
  <2>3. Pending(p)'
    BY <1>0, <1>a, <2>1 DEF Pending
  <2>4. InHand(p)'
    BY <1>0, <1>a, <2>1 DEF InHand
  <2>5. QED
    BY <2>2, <2>3, <2>4
<1>3. CASE EnsureNoneRuns(p)
  <2>1. /\ UNCHANGED <<index, got>> /\ pc[p] = "ensure" /\ op[p] = "start"
        /\ pc' = [pc EXCEPT ![p] = IF NoOtherRuns(p) THEN "index" ELSE "idle"]
    BY <1>0, <1>3 DEF EnsureNoneRuns, RoomInHand
  <2>2. Archived'
    BY <1>0, <1>a, <2>1 DEF Archived, Complete, OneAtATime
  <2>3. Pending(p)'
    BY <1>0, <1>a, <2>1 DEF Pending, Event, Artifact
  <2>4. InHand(p)'
    BY <1>0, <1>a, <2>1 DEF InHand
  <2>5. QED
    BY <2>2, <2>3, <2>4
<1>4. CASE WriteIndex(p)
  <2>1. /\ got' = got /\ pc[p] = "index" /\ pc' = [pc EXCEPT ![p] = "detail"]
        /\ index' = [index EXCEPT ![act[p]] = StatusAfter(p)]
        /\ seen[p] = index[act[p]] /\ index[act[p]] \in Admits(op[p])
    BY <1>0, <1>4 DEF WriteIndex, ReadIsFresh
  <2>2. CASE op[p] = "start"
    <3>1. index[act[p]] = "draft" /\ index' = [index EXCEPT ![act[p]] = "running"] /\ room = None
      BY <1>0, <2>1, <2>2 DEF Admits, StatusAfter, RoomInHand
    <3>2. Archived'
      BY <1>0, <1>a, <2>1, <2>2, <3>1, ActivityAssumption DEF Archived, Complete, OneAtATime
    <3>3. Pending(p)'
      BY <1>0, <1>a, <2>1, <2>2, <3>1, ActivityAssumption DEF Pending, Archived, Event, Artifact
    <3>4. InHand(p)'
      BY <1>0, <1>a, <2>1, <2>2, <3>1 DEF InHand
    <3>5. QED
      BY <3>2, <3>3, <3>4
  <2>3. CASE op[p] = "end"
    <3>1. index[act[p]] = "running" /\ index' = [index EXCEPT ![act[p]] = "ended"]
      BY <2>1, <2>3 DEF Admits, StatusAfter
    <3>2. Archived'
      BY <1>0, <1>a, <2>1, <2>3, <3>1 DEF Archived, Complete, OneAtATime
    <3>3. Pending(p)'
      BY <1>0, <1>a, <2>1, <2>3, <3>1 DEF Pending, Archived, Event, Artifact
    <3>4. InHand(p)'
      BY <1>0, <1>a, <2>1, <2>3, <3>1 DEF InHand
    <3>5. QED
      BY <3>2, <3>3, <3>4
  <2>4. CASE op[p] = "cancel"
    <3>1. index' = [index EXCEPT ![act[p]] = "cancelled"]
      BY <2>1, <2>4 DEF StatusAfter
    <3>2. Archived'
      BY <1>0, <1>a, <2>1, <2>4, <3>1 DEF Archived, Complete, OneAtATime
    <3>3. Pending(p)'
      BY <1>0, <1>a, <2>1, <2>4, <3>1 DEF Pending, Event, Artifact
    <3>4. InHand(p)'
      BY <1>0, <1>a, <2>1, <2>4, <3>1 DEF InHand
    <3>5. QED
      BY <3>2, <3>3, <3>4
  <2>5. CASE op[p] \notin {"start", "end", "cancel"}
    <3>1. index' = index
      BY <2>1, <2>5 DEF StatusAfter
    <3>2. Archived'
      BY <1>0, <1>a, <2>1, <2>5, <3>1 DEF Archived, Complete, OneAtATime
    <3>3. Pending(p)'
      BY <1>0, <1>a, <2>1, <2>5, <3>1 DEF Pending
    <3>4. InHand(p)'
      BY <1>0, <1>a, <2>1, <2>5, <3>1 DEF InHand
    <3>5. QED
      BY <3>2, <3>3, <3>4
  <2>6. QED
    BY <2>2, <2>3, <2>4, <2>5
<1>5. QED
  BY <1>1, <1>2, <1>3, <1>4
\* A call that writes the detail file: the event it counted, the summary of an end, one
\* more artifact.
LEMMA ArchiveDetailStep ==
    ASSUME OneAtATime, TypeOK, Fresh, RoomInv, ArchiveInv, crashes = 0, failures = 0,
           NEW p \in Proc, WriteDetail(p)
    PROVE  Archived' /\ Pending(p)' /\ InHand(p)'
<1>0. /\ Archived /\ Pending(p) /\ InHand(p) /\ RoomInHand(p) /\ RoomIsStored /\ act[p] \in Activity
      /\ got[p] = detail[act[p]] /\ pc[p] = "detail"
  BY DEF ArchiveInv, RoomInv, TypeOK, WriteDetail, Pending
<1>a. /\ UNCHANGED <<index, room, counts, act, happened, summary, got>>
      /\ detail' = [detail EXCEPT ![act[p]] = DetailAfter(p)]
  BY DEF WriteDetail, copyVars, boundVars
<1>b. detail[act[p]] \in Content /\ snap[p] \in SUBSET Artifact
  BY DEF TypeOK
<1>c. op[p] # "lantern" => data' = data
  BY DEF WriteDetail
<1>d. op[p] # "attach" => snap' = snap
  BY DEF WriteDetail
<1> USE DEF Goto, Calls, TypeOK, Archiving, Ending, Attaching
<1>1. CASE op[p] = "end"
  <2>1. detail'[act[p]].count = happened[act[p]].count /\ detail'[act[p]].arts = {} /\ index[act[p]] = "ended"
    <3>1. DetailAfter(p) = [got[p] EXCEPT !.count = summary[p]]
      BY <1>1 DEF DetailAfter, Event, Artifact
    <3>2. DetailAfter(p).count = summary[p] /\ DetailAfter(p).arts = got[p].arts
      BY <1>0, <1>b, <3>1 DEF Content
    <3>3. detail'[act[p]] = DetailAfter(p)
      BY <1>0, <1>a
    <3>4. QED
      BY <1>0, <1>1, <3>2, <3>3 DEF Pending
  <2>2. \A a \in Activity \ {act[p]} : detail'[a] = detail[a]
    BY <1>0, <1>a
  <2>3. CASE snap[p] = {}
    <3>1. pc' = [pc EXCEPT ![p] = "idle"] /\ op' = op
      BY <1>1, <1>d, <2>3 DEF WriteDetail
    <3>2. detail'[act[p]].arts = happened[act[p]].arts
      BY <1>0, <1>1, <2>1, <2>3 DEF Pending
    <3>3. Archived'
      BY <1>0, <1>1, <1>a, <2>1, <2>2, <3>1, <3>2 DEF Archived, Complete, OneAtATime
    <3>4. Pending(p)'
      BY <1>0, <1>1, <1>a, <1>c, <3>1 DEF Pending
    <3>5. InHand(p)'
      BY <1>0, <1>1, <1>a, <3>1 DEF InHand
    <3>6. QED
      BY <3>3, <3>4, <3>5
  <2>4. CASE snap[p] # {}
    <3>1. /\ pc' = [pc EXCEPT ![p] = "read"] /\ op' = [op EXCEPT ![p] = "attach"] /\ snap' = snap
      BY <1>1, <1>d, <2>4 DEF WriteDetail
    <3>2. detail'[act[p]].arts \cup snap[p] = happened[act[p]].arts
      BY <1>0, <1>1, <2>1 DEF Pending
    <3>3. Archived'
      BY <1>0, <1>1, <1>a, <2>1, <2>2, <3>1 DEF Archived, Complete, OneAtATime
    <3>4. Pending(p)'
      BY <1>0, <1>1, <1>a, <1>c, <2>1, <2>4, <3>1, <3>2 DEF Pending, Event, Artifact
    <3>5. InHand(p)'
      BY <1>0, <1>1, <1>a, <3>1 DEF InHand
    <3>6. QED
      BY <3>3, <3>4, <3>5
  <2>5. QED
    BY <2>3, <2>4
<1>2. CASE op[p] = "attach"
  <2> DEFINE x == NextArtifact(p)
  <2>0. Attaching(p) /\ index[act[p]] = "ended" /\ snap[p] # {}
    BY <1>0, <1>2 DEF Pending
  <2>1. x \in snap[p]
    BY <1>b, <2>0 DEF NextArtifact, Artifact
  <2>2. /\ detail'[act[p]].count = happened[act[p]].count
        /\ detail'[act[p]].arts = detail[act[p]].arts \cup {x}
    <3>1. DetailAfter(p) = [got[p] EXCEPT !.arts = @ \cup {x}]
      BY <1>2 DEF DetailAfter, Event, Artifact
    <3>2. DetailAfter(p).count = got[p].count /\ DetailAfter(p).arts = got[p].arts \cup {x}
      BY <1>0, <1>b, <3>1 DEF Content
    <3>3. detail'[act[p]] = DetailAfter(p)
      BY <1>0, <1>a
    <3>4. QED
      BY <1>0, <2>0, <3>2, <3>3 DEF Pending
  <2>3. snap' = [snap EXCEPT ![p] = snap[p] \ {x}]
    BY <1>2 DEF WriteDetail
  <2> HIDE DEF x
  <2>4. detail'[act[p]].arts \cup snap'[p] = happened[act[p]].arts
    BY <1>0, <2>0, <2>1, <2>2, <2>3 DEF Pending
  <2>5. \A a \in Activity \ {act[p]} : detail'[a] = detail[a]
    BY <1>0, <1>a
  <2>6. CASE snap'[p] = {}
    <3>1. pc' = [pc EXCEPT ![p] = "idle"] /\ op' = op
      BY <1>2, <2>6 DEF WriteDetail
    <3>2. Archived'
      BY <1>0, <1>a, <2>0, <2>2, <2>4, <2>5, <2>6, <3>1 DEF Archived, Complete, OneAtATime
    <3>3. Pending(p)'
      BY <1>0, <1>2, <1>a, <1>c, <3>1 DEF Pending
    <3>4. InHand(p)'
      BY <1>0, <1>2, <1>a, <3>1 DEF InHand
    <3>5. QED
      BY <3>2, <3>3, <3>4
  <2>7. CASE snap'[p] # {}
    <3>1. pc' = [pc EXCEPT ![p] = "read"] /\ op' = op
      BY <1>2, <2>7 DEF WriteDetail
    <3>2. Archived'
      BY <1>0, <1>2, <1>a, <2>0, <2>2, <2>5, <3>1 DEF Archived, Complete, OneAtATime
    <3>3. Pending(p)'
      BY <1>0, <1>2, <1>a, <1>c, <2>0, <2>2, <2>4, <2>7, <3>1 DEF Pending, Event, Artifact
    <3>4. InHand(p)'
      BY <1>0, <1>2, <1>a, <3>1 DEF InHand
    <3>5. QED
      BY <3>2, <3>3, <3>4
  <2>8. QED
    BY <2>6, <2>7
<1>3. CASE op[p] \in Event
  <2>1. /\ pc' = [pc EXCEPT ![p] = "idle"] /\ op' = op /\ snap' = snap
        /\ data' = IF op[p] = "lantern" /\ room \in Activity THEN data \cup {"lantern"} ELSE data
    BY <1>3, <1>d DEF WriteDetail, Event, Artifact
  <2>2. act[p] = room /\ index[act[p]] = "running"
    BY <1>0, <1>3 DEF Pending, RoomIsStored
  <2>3. detail'[act[p]].arts = detail[act[p]].arts
    <3>1. DetailAfter(p) = [got[p] EXCEPT !.count = @ + 1]
      BY <1>3 DEF DetailAfter, Event, Artifact
    <3>2. DetailAfter(p).arts = got[p].arts
      BY <1>0, <1>b, <3>1 DEF Content
    <3>3. QED
      BY <1>0, <1>a, <3>2
  <2>4. \A a \in Activity \ {act[p]} : detail'[a] = detail[a]
    BY <1>0, <1>a
  <2>5. Archived'
    BY <1>0, <1>3, <1>a, <2>1, <2>2, <2>3, <2>4 DEF Archived, Complete, OneAtATime, Event, Artifact
  <2>6. Pending(p)'
    BY <1>0, <1>a, <2>1, <2>2 DEF Pending
  <2>7. InHand(p)'
    BY <1>0, <1>a, <2>1, <2>2 DEF InHand
  <2>8. QED
    BY <2>5, <2>6, <2>7
<1>4. CASE op[p] \in {"update", "start", "cancel"}
  <2>1. detail' = detail
    BY <1>0, <1>4, <1>a, <1>b DEF DetailAfter, Event, Artifact
  <2>2. data' = data /\ snap' = snap
    BY <1>4, <1>c, <1>d
  <2>3. CASE op[p] = "update"
    <3>1. pc' = [pc EXCEPT ![p] = "room"] /\ op' = [op EXCEPT ![p] = "start"]
      BY <2>3 DEF WriteDetail
    <3>2. Archived'
      BY <1>0, <1>a, <2>1, <2>2, <2>3, <3>1 DEF Archived, Complete, OneAtATime
    <3>3. Pending(p)'
      BY <1>0, <1>a, <2>1, <2>2, <2>3, <3>1 DEF Pending, Event, Artifact
    <3>4. InHand(p)'
      BY <1>0, <1>a, <2>3, <3>1 DEF InHand
    <3>5. QED
      BY <3>2, <3>3, <3>4
  <2>4. CASE op[p] = "start"
    <3>1. pc' = [pc EXCEPT ![p] = "enter"] /\ op' = op
      BY <2>4 DEF WriteDetail
    <3>2. Archived'
      BY <1>0, <1>a, <2>1, <2>2, <2>4, <3>1 DEF Archived, Complete, OneAtATime
    <3>3. Pending(p)'
      BY <1>0, <1>a, <2>1, <2>2, <2>4, <3>1 DEF Pending, Event, Artifact
    <3>4. InHand(p)'
      BY <1>0, <1>a, <2>4, <3>1 DEF InHand
    <3>5. QED
      BY <3>2, <3>3, <3>4
  <2>5. CASE op[p] = "cancel"
    <3>1. pc' = [pc EXCEPT ![p] = "idle"] /\ op' = op
      BY <2>5 DEF WriteDetail
    <3>2. Archived'
      BY <1>0, <1>a, <2>1, <2>2, <2>5, <3>1 DEF Archived, Complete, OneAtATime
    <3>3. Pending(p)'
      BY <1>0, <1>a, <2>1, <2>2, <2>5, <3>1 DEF Pending
    <3>4. InHand(p)'
      BY <1>0, <1>a, <2>5, <3>1 DEF InHand
    <3>5. QED
      BY <3>2, <3>3, <3>4
  <2>6. QED
    BY <1>4, <2>3, <2>4, <2>5
<1>5. QED
  BY <1>1, <1>2, <1>3, <1>4 DEF Call

\* A request that comes in, and an event of the activity the room runs.
LEMMA ArchiveRequestStep ==
    ASSUME OneAtATime, TypeOK, RoomInv, ArchiveInv, crashes = 0, failures = 0,
           NEW p \in Proc, pc[p] = "idle",
           \/ \E a \in Activity :
                 RequestStart(p, a) \/ Request(p, a, "end") \/ Request(p, a, "cancel")
           \/ \E e \in Event : RecordEvent(p, e)
    PROVE  Archived' /\ Pending(p)' /\ InHand(p)'
<1>0. Archived /\ Pending(p) /\ InHand(p) /\ RoomIsStored
  BY DEF ArchiveInv, RoomInv
<1> USE DEF Goto, Calls, storeVars, roomVars, copyVars, endVars, boundVars, TypeOK, Archiving, Ending, Attaching
<1>1. ASSUME NEW a \in Activity,
             RequestStart(p, a) \/ Request(p, a, "end") \/ Request(p, a, "cancel")
      PROVE  Archived' /\ Pending(p)' /\ InHand(p)'
  <2>1. /\ UNCHANGED <<index, detail, happened, room, counts, data>>
        /\ \/ pc' = [pc EXCEPT ![p] = "read"] /\ op' = [op EXCEPT ![p] = "update"]
           \/ pc' = [pc EXCEPT ![p] = "room"] /\ \E c \in {"start", "end", "cancel"} : op' = [op EXCEPT ![p] = c]
    BY <1>1 DEF RequestStart, Request
  <2>2. Archived'
    BY <1>0, <2>1 DEF Archived, Complete, OneAtATime
  <2>3. Pending(p)'
    BY <1>0, <2>1 DEF Pending, Event, Artifact
  <2>4. InHand(p)'
    BY <1>0, <2>1 DEF InHand
  <2>5. QED
    BY <2>2, <2>3, <2>4
<1>2. ASSUME NEW e \in Event, RecordEvent(p, e)
      PROVE  Archived' /\ Pending(p)' /\ InHand(p)'
  <2>1. /\ UNCHANGED <<index, detail, room>> /\ room \in Activity /\ index[room] = "running"
        /\ pc' = [pc EXCEPT ![p] = "read"] /\ op' = [op EXCEPT ![p] = e]
        /\ act' = [act EXCEPT ![p] = room] /\ counts' = counts + 1
        /\ data' = IF e = "qa" THEN data \cup {e} ELSE data
    BY <1>0, <1>2 DEF RecordEvent, RoomIsStored
  <2>2. /\ \A a \in Activity \ {room} : happened'[a] = happened[a]
        /\ happened'[room].count = happened[room].count + 1
        /\ happened'[room].arts = happened[room].arts \cup ({e} \cap Artifact)
    <3>1. happened' = [happened EXCEPT ![room] =
             [count |-> @.count + 1, arts |-> @.arts \cup ({e} \cap Artifact)]]
      BY <1>2 DEF RecordEvent
    <3>2. QED
      BY <2>1, <3>1
  <2>3. happened[room].arts = data /\ counts = happened[room].count
    BY <1>0, <2>1 DEF Pending, Archived
  <2>4. Archived'
    BY <1>0, <2>1, <2>2, <2>3 DEF Archived, Complete, OneAtATime, Event, Artifact
  <2>5. Pending(p)'
    <3>1. IF e = "lantern" THEN happened'[room].arts = data' \cup {"lantern"} ELSE happened'[room].arts = data'
      BY <2>1, <2>2, <2>3 DEF Event, Artifact
    <3>2. act'[p] = room' /\ room' = room
      BY <2>1
    <3>3. pc'[p] = "read" /\ op'[p] = e /\ e \notin {"start", "end", "attach"}
      BY <2>1 DEF Event, Artifact
    <3>4. QED
      BY <3>1, <3>2, <3>3 DEF Pending
  <2>6. InHand(p)'
    BY <1>0, <2>1 DEF InHand
  <2>7. QED
    BY <2>4, <2>5, <2>6
<1>3. QED
  BY <1>1, <1>2

\* Every step keeps what is still to be archived with the goroutine that archives it.
LEMMA ArchiveStep ==
    ASSUME OneAtATime, TypeOK, Fresh, RoomInv, RoomInv', ArchiveInv, [Next]_vars
    PROVE  ArchiveInv'
<1> SUFFICES ASSUME crashes' = 0, failures' = 0
             PROVE  Archived' /\ (\A p \in Proc : Pending(p)' /\ InHand(p)')
  BY DEF ArchiveInv
<1>0. crashes = 0 /\ failures = 0
  <2>1. crashes \in Nat /\ failures \in Nat
    BY DEF TypeOK
  <2>2. crashes' \in {crashes, crashes + 1} /\ failures' \in {failures, failures + 1}
    <3>1. ASSUME NEW p \in Proc, ServiceStep(p) PROVE crashes' = crashes /\ failures' \in {failures, failures + 1}
      BY <3>1 DEF ServiceStep, ReadIndex, LoadDetail, EnsureNoneRuns, WriteIndex, WriteDetail,
                  DetailFails, boundVars
    <3>2. ASSUME NEW p \in Proc, Step(p) PROVE crashes' = crashes /\ failures' \in {failures, failures + 1}
      BY <3>1, <3>2 DEF Step, RequestStart, Request, RecordEvent, CheckRoom, LeaveRoom, EnterRoom,
                        boundVars
    <3>3. QED
      BY <3>2 DEF Next, PlayerConnects, Crash, vars, boundVars
  <2>3. QED
    BY <2>1, <2>2
<1>1. CASE UNCHANGED vars
  BY <1>0, <1>1 DEF vars, ArchiveInv, Archived, Complete, Archiving, Ending, Attaching, Pending, InHand
<1>2. CASE PlayerConnects
  <2>1. room = NoRoom /\ room' = None
    BY <1>0, <1>2 DEF PlayerConnects, Restored, RoomInv, RoomIsStored
  <2>2. UNCHANGED <<index, detail, happened, counts, data, pc, op, act, got, summary, snap>>
    BY <1>2 DEF PlayerConnects, storeVars, copyVars, endVars, boundVars
  <2>3. Archived'
    BY <1>0, <2>1, <2>2, ActivityAssumption DEF ArchiveInv, Archived, Complete, Archiving, Ending, Attaching
  <2>4. ASSUME NEW p \in Proc PROVE Pending(p)' /\ InHand(p)'
    BY <1>0, <2>1, <2>2, ActivityAssumption, act[p] \in Activity
       DEF ArchiveInv, Pending, InHand, Ending, Attaching, TypeOK
  <2>5. QED
    BY <2>3, <2>4
<1>3. CASE Crash
  BY <1>0, <1>3 DEF Crash
<1>4. ASSUME NEW p \in Proc, Step(p)
      PROVE  Archived' /\ (\A q \in Proc : Pending(q)' /\ InHand(q)')
  <2>1. ~DetailFails(p)
    BY <1>0 DEF DetailFails
  <2>2. Archived' /\ Pending(p)' /\ InHand(p)'
    BY <1>0, <1>4, <2>1, ArchiveRoomStep, ArchiveIndexStep, ArchiveDetailStep, ArchiveRequestStep
       DEF Step, ServiceStep, RequestStart, Request, RecordEvent
  <2>3. QED
    BY <2>2 DEF OneAtATime
<1>5. QED
  BY <1>1, <1>2, <1>3, <1>4 DEF Next

\* One request or event at a time, with neither a restart nor a failed write: at rest,
\* the archive of every ended activity counts all that happened while it ran and has
\* each of its artifacts.
THEOREM ArchiveIsComplete == ASSUME OneAtATime PROVE Spec => []ArchivedUnlessFault
<1>1. Init => RoomInv
  BY ActivityAssumption DEF Init, RoomInv, RoomIsStored, RoomInHand
<1>2. Init => ArchiveInv
  BY ActivityAssumption
     DEF Init, ArchiveInv, Archived, Complete, Archiving, Ending, Attaching, Pending, InHand, Empty, Event, Artifact
<1>3. Fresh /\ TypeOK /\ [Next]_vars => Fresh'
  BY FreshStep
<1>4. RoomInv /\ Fresh /\ TypeOK /\ [Next]_vars => RoomInv'
  BY RoomStep
<1>5. ArchiveInv /\ RoomInv /\ RoomInv' /\ Fresh /\ TypeOK /\ [Next]_vars => ArchiveInv'
  BY ArchiveStep
<1>6. ArchiveInv => ArchivedUnlessFault
  BY DEF ArchiveInv, Archived, Complete, Archiving, Ending, Attaching, ArchivedUnlessFault, EventsCounted,
         ArtifactsKept, Idle
<1>7. QED
  BY <1>1, <1>2, <1>3, <1>4, <1>5, <1>6, FreshInit, TypeCorrect, PTL DEF Spec

-----------------------------------------------------------------------------
(* What the players are told. *)

\* v is one of those the goroutine g has still to turn to, or the one it turns to now.
Has(g, v) == v \in g.todo \/ g.held = v

\* The types, and what they rest on: Run sends a command to the player it registers.
SessionTypes ==
    /\ SessionTypeOK
    /\ registrar.step \in {"running", "play"} => registrar.held \in Visitor
    /\ activity <= started

\* When the handler that starts and ends activities finds one.
HandlerPhase ==
    /\ handler.step \in {"count", "start config", "start", "stop", "clear"} => activity # 0
    /\ handler.step = "end config" => activity = 0

\* A config will still be sent to v ...
ConfigComes(v) ==
    \/ registrar.step = "config" /\ Has(registrar, v)
    \/ handler.step = "count"
    \/ handler.step \in {"start config", "end config"} /\ Has(handler, v)
    \/ syncer.step = "config" /\ Has(syncer, v)

KnowsConfig(v) == config[v] = Now \/ <<v, "config">> \in late \/ ConfigComes(v)

\* ... and a command to play, or the activity is being ended.
StartComes(v) ==
    \/ registrar.step # "none" /\ Has(registrar, v)
    \/ handler.step \in {"count", "start config", "stop", "clear"}
    \/ handler.step = "start" /\ v \in handler.todo

PlaysInActivity(v) == activity # 0 => play[v] = "start" \/ <<v, "play">> \in late \/ StartComes(v)

\* Who has been told to stop does not play any more.
StopsBeforeEnd(v) ==
    activity = 0 \/ handler.step = "clear" \/ (handler.step = "stop" /\ v \notin handler.todo) =>
        play[v] # "start" \/ <<v, "play">> \in late

\* Run registers one player, who does not leave meanwhile, and who is not in the room plays nothing.
Admitted ==
    /\ registrar.todo \subseteq inside
    /\ registrar.held \in Visitor => registrar.held \in inside /\ registrar.todo = {}
    /\ \A v, w \in registrar.todo : v = w
    /\ \A v \in Visitor \ inside : play[v] = "none"

\* Who is not counted yet will be.
CountsAll ==
    activity # 0 /\ ~miscounted =>
        /\ counted \subseteq inside
        /\ \A v \in inside \ counted : handler.step = "count" /\ Has(handler, v)

SessionInv ==
    /\ HandlerPhase /\ Admitted /\ CountsAll
    /\ \A v \in inside : KnowsConfig(v) /\ PlaysInActivity(v) /\ StopsBeforeEnd(v)

\* A goroutine that begins.
LEMMA RestingTyped ==
    ASSUME NEW S, NEW step \in S, NEW T \in SUBSET Visitor
    PROVE  /\ [Resting EXCEPT !.step = step, !.todo = T] \in Goroutine(S)
           /\ [Resting EXCEPT !.step = step, !.todo = T].step = step
           /\ [Resting EXCEPT !.step = step, !.todo = T].todo = T
           /\ [Resting EXCEPT !.step = step, !.todo = T].held = NoVisitor
BY DEF Resting, Goroutine

\* What a player has been sent.
LEMMA SentTyped ==
    ASSUME SessionTypes, NEW v \in Visitor, NEW b \in Config \cup {NoConfig}, SentConfig(v, b)
    PROVE  /\ config' \in [Visitor -> Config \cup {NoConfig}] /\ play' = play
           /\ late' \subseteq Visitor \X {"config", "play"}
<1> USE DEF SessionTypes, SessionTypeOK
<1>1. config' = [config EXCEPT ![v] = b] /\ play' = play
  BY DEF SentConfig
<1>2. late' \subseteq late \cup {<<v, "config">>}
  BY DEF SentConfig
<1>3. <<v, "config">> \in Visitor \X {"config", "play"}
  OBVIOUS
<1>4. QED
  BY <1>1, <1>2, <1>3

\* Before anybody has entered nobody has to be told anything.
LEMMA SessionStart == SessionInit => SessionTypes /\ SessionInv
<1> SUFFICES ASSUME SessionInit PROVE SessionTypes /\ SessionInv
  OBVIOUS
<1> USE SessionAssumption DEF SessionInit, SessionClosed
<1>1. \A S : "none" \in S => Resting \in Goroutine(S)
  BY DEF Resting, Goroutine
<1>2. Resting.step = "none"
  BY DEF Resting
<1>3. SessionTypeOK
  <2>1. /\ registrar \in Goroutine({"none", "config", "running", "play"})
        /\ handler \in Goroutine({"none", "count", "start config", "start", "stop", "clear",
                                  "end config"})
        /\ syncer \in Goroutine({"none", "config"})
    BY <1>1
  <2>2. 0 \in 0..MaxActivities /\ 0 \in 0..MaxParameters
    OBVIOUS
  <2>3. QED
    BY <2>1, <2>2 DEF SessionTypeOK
<1>4. QED
  BY <1>2, <1>3 DEF SessionTypes, SessionInv, HandlerPhase, Admitted, CountsAll, Resting

\* Every step keeps the types.
LEMMA SessionTypesStep == SessionTypes /\ [SessionNext]_sessionVars => SessionTypes'
<1> SUFFICES ASSUME SessionTypes, [SessionNext]_sessionVars PROVE SessionTypes'
  OBVIOUS
<1>a. /\ 0 \in 0..MaxActivities
      /\ started < MaxActivities /\ started \in 0..MaxActivities => started + 1 \in 0..MaxActivities
      /\ parameters < MaxParameters /\ parameters \in 0..MaxParameters =>
            parameters + 1 \in 0..MaxParameters
      /\ started \in 0..MaxActivities => 0 <= started /\ started + 1 <= started + 1
  BY SessionAssumption
<1> USE SessionAssumption DEF SessionTypes, SessionTypeOK, sayVars
<1>0. Now \in Config /\ NoConfig \in Config \cup {NoConfig}
  BY DEF Now, Config
<1>1. \A S : "none" \in S => Resting \in Goroutine(S)
  BY DEF Resting, Goroutine
<1>2. Resting.step = "none" /\ Resting.held = NoVisitor
  BY DEF Resting
<1>3. ASSUME NEW v \in Visitor, Enters(v) PROVE SessionTypes'
  <2>1. /\ inside' = inside \cup {v} /\ Recounts(inside \cup {v})
        /\ registrar' = [Resting EXCEPT !.step = "config", !.todo = {v}]
        /\ UNCHANGED <<activity, parameters, syncer, sayVars, started>>
    BY <1>3 DEF Enters
  <2>2. registrar' \in Goroutine({"none", "config", "running", "play"}) /\ registrar'.step = "config"
    <3>1. "config" \in {"none", "config", "running", "play"} /\ {v} \in SUBSET Visitor
      OBVIOUS
    <3>2. QED
      BY <2>1, <3>1, RestingTyped
  <2>3. handler' \in Goroutine({"none", "count", "start config", "start", "stop", "clear",
                                "end config"})
    <3>1. PICK missed \in SUBSET {v} : handler' = IF handler.step \in {"none", "clear"} THEN handler
                                                ELSE [handler EXCEPT !.todo = @ \cup missed]
      BY <1>3 DEF Enters
    <3>2. QED
      BY <3>1 DEF Goroutine
  <2>4. counted' \subseteq Visitor /\ miscounted' \in BOOLEAN
    BY <2>1 DEF Recounts
  <2>5. QED
    BY <2>1, <2>2, <2>3, <2>4
<1>4. ASSUME NEW v \in Visitor, RegistrarBuilds(v) PROVE SessionTypes'
  <2>1. registrar' \in Goroutine({"none", "config", "running", "play"}) /\ registrar'.step = "config"
    <3>1. registrar.step = "config" /\ registrar' = Built(registrar, v)
      BY <1>4 DEF RegistrarBuilds
    <3>2. /\ Built(registrar, v) \in Goroutine({"none", "config", "running", "play"})
          /\ Built(registrar, v).step = registrar.step
      BY <1>0 DEF Built, Goroutine
    <3>3. QED
      BY <3>1, <3>2
  <2>2. QED
    BY <1>4, <2>1 DEF RegistrarBuilds
<1>5. ASSUME NEW v \in Visitor, Exits(v) PROVE SessionTypes'
  BY <1>5 DEF Exits, Recounts
<1>6. ASSUME NEW v \in Visitor, CountReads(v) PROVE SessionTypes'
  BY <1>6 DEF CountReads, Goroutine
<1>7. ASSUME NEW v \in Visitor, HandlerPlays(v) PROVE SessionTypes'
  BY <1>7 DEF HandlerPlays, Goroutine, SentPlay
<1>8. ASSUME NEW v \in Visitor, HandlerBuilds(v) PROVE SessionTypes'
  BY <1>0, <1>8 DEF HandlerBuilds, Built, Goroutine
<1>9. ASSUME NEW v \in Visitor, SyncerBuilds(v) PROVE SessionTypes'
  BY <1>0, <1>9 DEF SyncerBuilds, Built, Goroutine
<1>10. CASE RegistrarSends
  <2>1. /\ registrar.held \in Visitor /\ registrar.built \in Config \cup {NoConfig}
        /\ registrar' = [registrar EXCEPT !.step = "running", !.built = NoConfig]
    BY <1>10 DEF RegistrarSends, Goroutine
  <2>2. /\ registrar' \in Goroutine({"none", "config", "running", "play"})
        /\ registrar'.held = registrar.held
    BY <2>1 DEF Goroutine
  <2>3. QED
    BY <1>10, <2>1, <2>2, SentTyped DEF RegistrarSends
<1>11. CASE RegistrarChecks
  <2>1. registrar' \in Goroutine({"none", "config", "running", "play"})
    BY <1>1, <1>11 DEF RegistrarChecks, Goroutine
  <2>2. registrar'.step \in {"running", "play"} => registrar'.held \in Visitor
    BY <1>2, <1>11 DEF RegistrarChecks, Goroutine
  <2>3. QED
    BY <1>11, <2>1, <2>2 DEF RegistrarChecks
<1>12. CASE RegistrarPlays
  <2>1. registrar.held \in Visitor
    BY <1>12 DEF RegistrarPlays
  <2>2. play' \in [Visitor -> {"none", "start", "stop"}] /\ late' \subseteq Visitor \X {"config", "play"}
    <3>1. play' = [play EXCEPT ![registrar.held] = "start"]
          /\ late' \subseteq late \cup {<<registrar.held, "play">>}
      BY <1>12 DEF RegistrarPlays
    <3>2. <<registrar.held, "play">> \in Visitor \X {"config", "play"}
      BY <2>1
    <3>3. QED
      BY <2>1, <3>1, <3>2
  <2>3. QED
    BY <1>1, <1>2, <1>12, <2>2 DEF RegistrarPlays
<1>13. CASE Starts
  <2>1. handler' \in Goroutine({"none", "count", "start config", "start", "stop", "clear",
                                "end config"})
    <3>1. handler' = [Resting EXCEPT !.step = "count", !.todo = inside]
      BY <1>13 DEF Starts
    <3>2. QED
      BY <3>1, RestingTyped
  <2>2. started' \in 0..MaxActivities /\ activity' = started' /\ activity' <= started'
    BY <1>a, <1>13 DEF Starts
  <2>3. QED
    BY <1>13, <2>1, <2>2 DEF Starts
<1>14. CASE Counts
  BY <1>14 DEF Counts, Freed, Goroutine
<1>15. CASE Ends
  BY <1>15, RestingTyped DEF Ends
<1>16. CASE Clears
  <2>1. handler' \in Goroutine({"none", "count", "start config", "start", "stop", "clear",
                                "end config"})
    BY <1>16, RestingTyped DEF Clears
  <2>2. QED
    BY <1>a, <1>16, <2>1 DEF Clears
<1>17. CASE HandlerSends
  <2>1. handler.held \in Visitor /\ handler.built \in Config \cup {NoConfig}
    BY <1>17 DEF HandlerSends, Goroutine
  <2>2. handler' \in Goroutine({"none", "count", "start config", "start", "stop", "clear",
                                "end config"})
    BY <1>17 DEF HandlerSends, Freed, Goroutine
  <2>3. SentConfig(handler.held, handler.built) \/ UNCHANGED sayVars
    BY <1>17 DEF HandlerSends
  <2>4. QED
    BY <1>17, <2>1, <2>2, <2>3, SentTyped DEF HandlerSends
<1>18. CASE HandlerGoesOn
  BY <1>18 DEF HandlerGoesOn, After, Resting, Goroutine
<1>19. CASE BringsParameters
  <2>1. syncer' \in Goroutine({"none", "config"})
    BY <1>19, RestingTyped DEF BringsParameters
  <2>2. parameters + 1 \in 0..MaxParameters
    BY <1>a, <1>19 DEF BringsParameters
  <2>3. QED
    BY <1>19, <2>1, <2>2 DEF BringsParameters
<1>20. CASE SyncerSends
  <2>1. syncer.held \in Visitor /\ syncer.built \in Config \cup {NoConfig}
    BY <1>20 DEF SyncerSends, Goroutine
  <2>2. syncer' \in Goroutine({"none", "config"})
    BY <1>20 DEF SyncerSends, Freed, Goroutine
  <2>3. SentConfig(syncer.held, syncer.built) \/ UNCHANGED sayVars
    BY <1>20 DEF SyncerSends
  <2>4. QED
    BY <1>20, <2>1, <2>2, <2>3, SentTyped DEF SyncerSends
<1>21. CASE SyncerEnds
  BY <1>1, <1>21 DEF SyncerEnds
<1>22. CASE UNCHANGED sessionVars
  BY <1>22 DEF sessionVars
<1>23. QED
  BY <1>3, <1>4, <1>5, <1>6, <1>7, <1>8, <1>9, <1>10, <1>11, <1>12, <1>13, <1>14, <1>15, <1>16,
     <1>17, <1>18, <1>19, <1>20, <1>21, <1>22 DEF SessionNext

\* Only the room, what was sent and what is coming decide what is known.
LEMMA SessionStep == SessionTypes /\ SessionInv /\ [SessionNext]_sessionVars => SessionInv'
<1> SUFFICES ASSUME SessionTypes, SessionInv, [SessionNext]_sessionVars PROVE SessionInv'
  OBVIOUS
<1>a. NoVisitor \notin Visitor /\ started \in Nat /\ activity \in Nat /\ inside \subseteq Visitor
  <2>1. /\ started \in 0..MaxActivities /\ activity \in 0..MaxActivities /\ inside \subseteq Visitor
    BY DEF SessionTypes, SessionTypeOK
  <2>2. QED
    BY <2>1, SessionAssumption
<1>b. /\ registrar \in Goroutine({"none", "config", "running", "play"})
      /\ handler \in Goroutine({"none", "count", "start config", "start", "stop", "clear",
                                "end config"})
      /\ syncer \in Goroutine({"none", "config"})
      /\ config \in [Visitor -> Config \cup {NoConfig}]
      /\ play \in [Visitor -> {"none", "start", "stop"}]
  BY DEF SessionTypes, SessionTypeOK
<1>c. Resting.step = "none" /\ Resting.todo = {} /\ Resting.held = NoVisitor
  BY DEF Resting
<1>d. registrar.step \in {"running", "play"} => registrar.held \in Visitor
  BY DEF SessionTypes
<1>e. ASSUME NEW v \in Visitor, NEW b, SentConfig(v, b)
      PROVE  /\ config'[v] = b /\ play' = play
             /\ <<v, "config">> \in late' \/ config'[v] = Now
             /\ \A x \in Visitor : x # v => config'[x] = config[x]
             /\ \A x \in Visitor : x # v => (<<x, "config">> \in late' <=> <<x, "config">> \in late)
             /\ \A x \in Visitor : <<x, "play">> \in late' <=> <<x, "play">> \in late
  <2>1. /\ config' = [config EXCEPT ![v] = b] /\ play' = play
        /\ late' = IF b = Now THEN late \ {<<v, "config">>} ELSE late \cup {<<v, "config">>}
    BY <1>e DEF SentConfig
  <2>2. config'[v] = b /\ \A x \in Visitor : x # v => config'[x] = config[x]
    BY <1>b, <2>1
  <2>3. <<v, "config">> \in late' \/ b = Now
    BY <2>1
  <2>4. /\ \A x \in Visitor : x # v => (<<x, "config">> \in late' <=> <<x, "config">> \in late)
        /\ \A x \in Visitor : <<x, "play">> \in late' <=> <<x, "play">> \in late
    BY <2>1
  <2>5. QED
    BY <2>1, <2>2, <2>3, <2>4
<1>f. started + 1 # 0
  BY <1>a
<1> USE DEF sayVars, SessionInv, HandlerPhase, Admitted, CountsAll, KnowsConfig, PlaysInActivity,
            StopsBeforeEnd, ConfigComes, StartComes, Has
<1>1. ASSUME NEW v \in Visitor, Enters(v) PROVE SessionInv'
  <2>1. /\ inside' = inside \cup {v} /\ v \notin inside /\ Recounts(inside \cup {v})
        /\ registrar = Resting /\ registrar' = [Resting EXCEPT !.step = "config", !.todo = {v}]
        /\ UNCHANGED <<activity, parameters, syncer, sayVars, started>>
    BY <1>1 DEF Enters
  <2>2. registrar'.step = "config" /\ registrar'.todo = {v} /\ registrar'.held = NoVisitor
    BY <2>1 DEF Resting
  <2>3. /\ handler'.step = handler.step /\ handler'.held = handler.held
        /\ handler.todo \subseteq handler'.todo /\ handler'.todo \subseteq handler.todo \cup {v}
    <3>1. PICK missed \in SUBSET {v} : handler' = IF handler.step \in {"none", "clear"} THEN handler
                                                ELSE [handler EXCEPT !.todo = @ \cup missed]
      BY <1>1 DEF Enters
    <3>2. QED
      BY <1>b, <3>1 DEF Goroutine
  <2>4. Now' = Now
    BY <2>1 DEF Now
  <2>5. CountsAll'
    BY <2>1 DEF Recounts
  <2>6. HandlerPhase' /\ Admitted'
    BY <1>a, <2>1, <2>2, <2>3
  <2>7. ASSUME NEW x \in inside, x # v
        PROVE  KnowsConfig(x)' /\ PlaysInActivity(x)' /\ StopsBeforeEnd(x)'
    <3>1. ~(registrar.step = "config") /\ registrar.step = "none"
      BY <1>c, <2>1
    <3>2. KnowsConfig(x)'
      BY <2>1, <2>3, <2>4, <2>7, <3>1
    <3>3. PlaysInActivity(x)'
      BY <2>1, <2>3, <2>7, <3>1
    <3>4. StopsBeforeEnd(x)'
      BY <2>1, <2>3, <2>7
    <3>5. QED
      BY <3>2, <3>3, <3>4
  <2>8. KnowsConfig(v)' /\ PlaysInActivity(v)'
    BY <2>2
  <2>9. StopsBeforeEnd(v)'
    BY <2>1
  <2>10. QED
    BY <2>1, <2>5, <2>6, <2>7, <2>8, <2>9
<1>2. ASSUME NEW v \in Visitor, RegistrarBuilds(v) PROVE SessionInv'
  <2>1. /\ registrar.step = "config" /\ registrar.held = NoVisitor /\ v \in registrar.todo \cap inside
        /\ registrar' = Built(registrar, v)
        /\ UNCHANGED <<inside, activity, parameters, counted, handler, syncer, sayVars, miscounted>>
    BY <1>2 DEF RegistrarBuilds, Builds
  <2>2. registrar'.step = "config" /\ registrar'.todo = registrar.todo \ {v} /\ registrar'.held = v
    BY <1>b, <2>1 DEF Built, Goroutine
  <2>3. Now' = Now
    BY <2>1 DEF Now
  <2>4. \A x \in inside : Has(registrar, x) => Has(registrar, x)'
    BY <1>a, <2>1, <2>2
  <2>5. QED
    BY <2>1, <2>2, <2>3, <2>4
<1>3. ASSUME NEW v \in Visitor, Exits(v) PROVE SessionInv'
  <2>1. /\ registrar = Resting /\ v \in inside /\ inside' = inside \ {v} /\ Recounts(inside \ {v})
        /\ config' = [config EXCEPT ![v] = NoConfig] /\ play' = [play EXCEPT ![v] = "none"]
        /\ late' = late \ {<<v, "config">>, <<v, "play">>}
        /\ UNCHANGED <<activity, parameters, registrar, handler, syncer, started>>
    BY <1>3 DEF Exits
  <2>2. \A x \in Visitor : x # v => /\ config'[x] = config[x] /\ play'[x] = play[x]
                                    /\ \A k : <<x, k>> \in late' <=> <<x, k>> \in late
    BY <1>b, <2>1
  <2>3. play'[v] = "none" /\ Now' = Now
    BY <1>b, <2>1 DEF Now
  <2>4. CountsAll'
    BY <2>1 DEF Recounts
  <2>5. HandlerPhase' /\ Admitted'
    BY <1>a, <1>c, <2>1, <2>2, <2>3
  <2>6. \A x \in inside' : KnowsConfig(x)' /\ PlaysInActivity(x)' /\ StopsBeforeEnd(x)'
    BY <1>a, <2>1, <2>2, <2>3
  <2>7. QED
    BY <2>4, <2>5, <2>6
<1>4. ASSUME NEW v \in Visitor, CountReads(v) PROVE SessionInv'
  <2>1. /\ handler.step = "count" /\ handler.held = NoVisitor /\ v \in handler.todo \cap inside
        /\ handler' = [handler EXCEPT !.todo = @ \ {v}, !.held = v]
        /\ UNCHANGED <<inside, activity, parameters, counted, registrar, syncer, sayVars, miscounted>>
    BY <1>4 DEF CountReads, Builds
  <2>2. handler'.step = "count" /\ handler'.todo = handler.todo \ {v} /\ handler'.held = v
    BY <1>b, <2>1 DEF Goroutine
  <2>3. Now' = Now
    BY <2>1 DEF Now
  <2>4. QED
    BY <1>a, <2>1, <2>2, <2>3
<1>5. ASSUME NEW v \in Visitor, HandlerPlays(v) PROVE SessionInv'
  <2>1. /\ handler.step \in {"start", "stop"} /\ v \in handler.todo \cap inside
        /\ handler' = [handler EXCEPT !.todo = @ \ {v}] /\ config' = config
        /\ play' = [play EXCEPT ![v] = handler.step] /\ late' = late \ {<<v, "play">>}
        /\ UNCHANGED <<inside, activity, parameters, counted, registrar, syncer, miscounted>>
    BY <1>5 DEF HandlerPlays, Builds, SentPlay
  <2>2. /\ handler'.step = handler.step /\ handler'.todo = handler.todo \ {v}
        /\ handler'.held = handler.held
    BY <1>b, <2>1 DEF Goroutine
  <2>3. /\ play'[v] = handler.step
        /\ \A x \in Visitor : x # v => /\ play'[x] = play[x]
                                       /\ <<x, "play">> \in late' <=> <<x, "play">> \in late
        /\ \A x \in Visitor : <<x, "config">> \in late' <=> <<x, "config">> \in late
    BY <1>b, <2>1
  <2>4. Now' = Now
    BY <2>1 DEF Now
  <2>5. HandlerPhase' /\ Admitted' /\ CountsAll'
    BY <1>a, <2>1, <2>2, <2>3
  <2>6. ASSUME NEW x \in inside PROVE KnowsConfig(x)' /\ PlaysInActivity(x)' /\ StopsBeforeEnd(x)'
    <3>1. KnowsConfig(x)'
      BY <1>a, <2>1, <2>2, <2>3, <2>4, <2>6
    <3>2. CASE x = v
      BY <2>1, <2>2, <2>3, <3>1, <3>2
    <3>3. CASE x # v
      BY <1>a, <2>1, <2>2, <2>3, <2>6, <3>1, <3>3
    <3>4. QED
      BY <3>2, <3>3
  <2>7. QED
    BY <2>1, <2>5, <2>6
<1>6. ASSUME NEW v \in Visitor, HandlerBuilds(v) PROVE SessionInv'
  <2>1. /\ handler.step \in {"start config", "end config"}
        /\ handler.held = NoVisitor /\ v \in handler.todo \cap inside
        /\ handler' = Built(handler, v)
        /\ UNCHANGED <<inside, activity, parameters, counted, registrar, syncer, sayVars, miscounted>>
    BY <1>6 DEF HandlerBuilds, Builds
  <2>2. handler'.step = handler.step /\ handler'.todo = handler.todo \ {v} /\ handler'.held = v
    BY <1>b, <2>1 DEF Built, Goroutine
  <2>3. Now' = Now
    BY <2>1 DEF Now
  <2>4. \A x \in inside : Has(handler, x) => Has(handler, x)'
    BY <1>a, <2>1, <2>2
  <2>5. QED
    BY <1>a, <2>1, <2>2, <2>3, <2>4
<1>7. ASSUME NEW v \in Visitor, SyncerBuilds(v) PROVE SessionInv'
  <2>1. /\ syncer.step = "config" /\ syncer.held = NoVisitor /\ v \in syncer.todo \cap inside
        /\ syncer' = Built(syncer, v)
        /\ UNCHANGED <<inside, activity, parameters, counted, registrar, handler, sayVars, miscounted>>
    BY <1>7 DEF SyncerBuilds, Builds
  <2>2. syncer'.step = "config" /\ syncer'.todo = syncer.todo \ {v} /\ syncer'.held = v
    BY <1>b, <2>1 DEF Built, Goroutine
  <2>3. Now' = Now
    BY <2>1 DEF Now
  <2>4. \A x \in inside : Has(syncer, x) => Has(syncer, x)'
    BY <1>a, <2>1, <2>2
  <2>5. QED
    BY <1>a, <2>1, <2>2, <2>3, <2>4
<1>8. CASE RegistrarSends
  <2> DEFINE v == registrar.held
  <2>1. /\ registrar.step = "config" /\ v # NoVisitor /\ SentConfig(v, registrar.built)
        /\ registrar' = [registrar EXCEPT !.step = "running", !.built = NoConfig]
        /\ UNCHANGED <<inside, activity, parameters, counted, handler, syncer, miscounted>>
    BY <1>8 DEF RegistrarSends
  <2>2. /\ registrar'.step = "running" /\ registrar'.todo = registrar.todo /\ registrar'.held = v
        /\ v \in Visitor
    BY <1>b, <2>1 DEF Goroutine
  <2>3. /\ config'[v] = registrar.built /\ play' = play
        /\ <<v, "config">> \in late' \/ config'[v] = Now
        /\ \A x \in Visitor : x # v => /\ config'[x] = config[x]
                                       /\ <<x, "config">> \in late' <=> <<x, "config">> \in late
        /\ \A x \in Visitor : <<x, "play">> \in late' <=> <<x, "play">> \in late
    BY <1>b, <2>1, <2>2 DEF SentConfig
  <2>4. Now' = Now
    BY <2>1 DEF Now
  <2>5. HandlerPhase' /\ CountsAll'
    BY <2>1
  <2>6. Admitted'
    <3>1. /\ registrar'.todo \subseteq inside'
          /\ \A x, y \in registrar'.todo : x = y
          /\ \A x \in Visitor \ inside' : play'[x] = "none"
      BY <2>1, <2>2, <2>3
    <3>2. registrar'.held \in inside' /\ registrar'.todo = {}
      <4>1. registrar.held \in Visitor => registrar.held \in inside /\ registrar.todo = {}
        OBVIOUS
      <4>2. registrar.held \in Visitor /\ inside' = inside
        BY <2>1, <2>2
      <4>3. registrar'.held = registrar.held /\ registrar'.todo = registrar.todo
        BY <2>2
      <4>4. QED
        BY <4>1, <4>2, <4>3
    <3>3. QED
      BY <3>1, <3>2
  <2>7. ASSUME NEW x \in inside PROVE KnowsConfig(x)' /\ PlaysInActivity(x)' /\ StopsBeforeEnd(x)'
    <3>1. KnowsConfig(x)'
      BY <1>a, <2>1, <2>2, <2>3, <2>4, <2>7
    <3>2. PlaysInActivity(x)' /\ StopsBeforeEnd(x)'
      BY <1>a, <2>1, <2>2, <2>3, <2>7
    <3>3. QED
      BY <3>1, <3>2
  <2>8. QED
    BY <2>1, <2>5, <2>6, <2>7
<1>9. CASE RegistrarChecks
  <2>1. /\ registrar.step = "running"
        /\ registrar' = IF activity # 0 THEN [registrar EXCEPT !.step = "play"] ELSE Resting
        /\ UNCHANGED <<inside, activity, parameters, counted, handler, syncer, sayVars, miscounted>>
    BY <1>9 DEF RegistrarChecks
  <2>2. /\ activity # 0 => /\ registrar'.step = "play" /\ registrar'.todo = registrar.todo
                           /\ registrar'.held = registrar.held
        /\ activity = 0 => registrar' = Resting
    BY <1>b, <2>1 DEF Goroutine
  <2>3. Now' = Now
    BY <2>1 DEF Now
  <2>4. Admitted'
    <3>1. CASE activity = 0
      BY <1>a, <1>c, <2>1, <2>2, <3>1
    <3>2. CASE activity # 0
      <4>1. registrar'.todo = registrar.todo /\ registrar'.held = registrar.held
        BY <2>2, <3>2
      <4>2. inside' = inside /\ play' = play
        BY <2>1
      <4>3. QED
        BY <4>1, <4>2
    <3>3. QED
      BY <3>1, <3>2
  <2>5. HandlerPhase' /\ CountsAll'
    BY <2>1
  <2>6. \A x \in inside : KnowsConfig(x)' /\ PlaysInActivity(x)' /\ StopsBeforeEnd(x)'
    BY <2>1, <2>2, <2>3
  <2>7. QED
    BY <2>1, <2>4, <2>5, <2>6
<1>10. CASE RegistrarPlays
  <2> DEFINE v == registrar.held
  <2>1. /\ registrar.step = "play" /\ play' = [play EXCEPT ![v] = "start"]
        /\ late' = IF activity = 0 \/ handler.step \in {"stop", "clear"}
                   THEN late \cup {<<v, "play">>} ELSE late
        /\ registrar' = Resting
        /\ UNCHANGED <<inside, activity, parameters, counted, handler, syncer, config, miscounted>>
    BY <1>10 DEF RegistrarPlays
  <2>2. v \in Visitor /\ v \in inside
    BY <1>d, <2>1
  <2>3. /\ play'[v] = "start" /\ \A x \in Visitor : x # v => play'[x] = play[x]
        /\ \A x \in Visitor : <<x, "config">> \in late' <=> <<x, "config">> \in late
        /\ \A x \in Visitor : <<x, "play">> \in late => <<x, "play">> \in late'
        /\ activity = 0 \/ handler.step \in {"stop", "clear"} => <<v, "play">> \in late'
    BY <1>b, <2>1, <2>2
  <2>4. Now' = Now
    BY <2>1 DEF Now
  <2>5. HandlerPhase' /\ Admitted' /\ CountsAll'
    BY <1>a, <1>c, <2>1, <2>2, <2>3
  <2>6. ASSUME NEW x \in inside PROVE KnowsConfig(x)' /\ PlaysInActivity(x)' /\ StopsBeforeEnd(x)'
    <3>1. KnowsConfig(x)'
      BY <1>a, <2>1, <2>3, <2>4, <2>6
    <3>2. PlaysInActivity(x)'
      <4>1. CASE x = v
        BY <2>3, <4>1
      <4>2. CASE x # v
        BY <1>a, <2>1, <2>2, <2>3, <2>6, <4>2
      <4>3. QED
        BY <4>1, <4>2
    <3>3. StopsBeforeEnd(x)'
      BY <1>a, <2>1, <2>3, <2>6
    <3>4. QED
      BY <3>1, <3>2, <3>3
  <2>7. QED
    BY <2>1, <2>5, <2>6
<1>11. CASE Starts
  <2>1. /\ activity = 0 /\ activity' = started + 1 /\ counted' = {} /\ miscounted' = FALSE
        /\ handler' = [Resting EXCEPT !.step = "count", !.todo = inside]
        /\ UNCHANGED <<inside, parameters, registrar, syncer, sayVars>>
    BY <1>11 DEF Starts
  <2>2. handler'.step = "count" /\ handler'.todo = inside
    BY <2>1 DEF Resting
  <2>3. activity' # 0
    BY <1>f, <2>1
  <2>4. QED
    BY <2>1, <2>2, <2>3
<1>12. CASE Counts
  <2>1. /\ handler.step = "count" /\ handler.held # NoVisitor /\ counted' = counted \cup {handler.held}
        /\ miscounted' = (miscounted \/ handler.held \notin inside) /\ handler' = Freed(handler)
        /\ UNCHANGED <<inside, activity, parameters, registrar, syncer, sayVars>>
    BY <1>12 DEF Counts
  <2>2. handler'.step = "count" /\ handler'.todo = handler.todo
    BY <1>b, <2>1 DEF Freed, Goroutine
  <2>3. Now' = Now
    BY <2>1 DEF Now
  <2>4. QED
    BY <2>1, <2>2, <2>3
<1>13. CASE Ends
  <2>1. /\ handler = Resting /\ activity # 0
        /\ handler' = [Resting EXCEPT !.step = "stop", !.todo = inside]
        /\ UNCHANGED <<inside, activity, parameters, counted, registrar, syncer, sayVars, miscounted>>
    BY <1>13 DEF Ends
  <2>2. handler'.step = "stop" /\ handler'.todo = inside
    BY <2>1 DEF Resting
  <2>3. Now' = Now
    BY <2>1 DEF Now
  <2>4. QED
    BY <1>c, <2>1, <2>2, <2>3
<1>14. CASE Clears
  <2>1. /\ handler.step = "clear" /\ activity' = 0 /\ counted' = {} /\ miscounted' = FALSE
        /\ handler' = [Resting EXCEPT !.step = "end config", !.todo = inside]
        /\ UNCHANGED <<inside, parameters, registrar, syncer, sayVars>>
    BY <1>14 DEF Clears
  <2>2. handler'.step = "end config" /\ handler'.todo = inside
    BY <2>1 DEF Resting
  <2>3. QED
    BY <2>1, <2>2
<1>15. CASE HandlerSends
  <2> DEFINE v == handler.held
  <2>1. /\ handler.step \in {"start config", "end config"} /\ v # NoVisitor
        /\ IF v \in inside THEN SentConfig(v, handler.built) ELSE UNCHANGED sayVars
        /\ handler' = Freed(handler)
        /\ UNCHANGED <<inside, activity, parameters, counted, registrar, syncer, miscounted>>
    BY <1>15 DEF HandlerSends
  <2>2. handler'.step = handler.step /\ handler'.todo = handler.todo
    BY <1>b, <2>1 DEF Freed, Goroutine
  <2>3. /\ play' = play /\ \A x \in Visitor : <<x, "play">> \in late' <=> <<x, "play">> \in late
        /\ \A x \in inside : x # v => /\ config'[x] = config[x]
                                      /\ <<x, "config">> \in late' <=> <<x, "config">> \in late
        /\ v \in inside => <<v, "config">> \in late' \/ config'[v] = Now
    <3>1. CASE v \in inside
      <4>1. v \in Visitor /\ SentConfig(v, handler.built)
        BY <1>a, <2>1, <3>1
      <4>2. QED
        BY <1>a, <1>e, <4>1
    <3>2. CASE v \notin inside
      BY <2>1, <3>2
    <3>3. QED
      BY <3>1, <3>2
  <2>4. Now' = Now
    BY <2>1 DEF Now
  <2>5. HandlerPhase' /\ Admitted' /\ CountsAll'
    BY <2>1, <2>2, <2>3
  <2>6. ASSUME NEW x \in inside PROVE KnowsConfig(x)' /\ PlaysInActivity(x)' /\ StopsBeforeEnd(x)'
    <3>1. KnowsConfig(x)'
      BY <1>a, <2>1, <2>2, <2>3, <2>4, <2>6
    <3>2. PlaysInActivity(x)' /\ StopsBeforeEnd(x)'
      BY <1>a, <2>1, <2>2, <2>3, <2>6
    <3>3. QED
      BY <3>1, <3>2
  <2>7. QED
    BY <2>1, <2>5, <2>6
<1>16. CASE HandlerGoesOn
  <2>1. /\ handler.step \notin {"none", "clear"} /\ handler.held = NoVisitor
        /\ handler.todo \cap inside = {}
        /\ UNCHANGED <<inside, activity, parameters, counted, registrar, syncer, sayVars, miscounted>>
    BY <1>16 DEF HandlerGoesOn, Over
  <2>2. /\ handler'.step = After(handler.step)
        /\ handler'.step \notin {"none", "clear"} => handler'.todo = inside
    BY <1>16 DEF HandlerGoesOn, Resting
  <2>3. /\ handler.step = "count" => After(handler.step) = "start config"
        /\ handler.step = "start config" => After(handler.step) = "start"
        /\ handler.step = "stop" => After(handler.step) = "clear"
        /\ handler.step \in {"start", "end config"} => After(handler.step) = "none"
    BY DEF After
  <2>4. handler.step \in {"count", "start config", "start", "stop", "end config"}
    BY <1>b, <2>1 DEF Goroutine
  <2>5. Now' = Now
    BY <2>1 DEF Now
  <2>6. HandlerPhase' /\ Admitted' /\ CountsAll'
    BY <1>a, <2>1, <2>2, <2>3, <2>4
  <2>7. ASSUME NEW x \in inside PROVE KnowsConfig(x)' /\ PlaysInActivity(x)' /\ StopsBeforeEnd(x)'
    <3>1. KnowsConfig(x)'
      BY <1>a, <2>1, <2>2, <2>3, <2>4, <2>5, <2>7
    <3>2. PlaysInActivity(x)' /\ StopsBeforeEnd(x)'
      BY <1>a, <2>1, <2>2, <2>3, <2>4, <2>7
    <3>3. QED
      BY <3>1, <3>2
  <2>8. QED
    BY <2>1, <2>6, <2>7
<1>17. CASE BringsParameters
  <2>1. /\ syncer' = [Resting EXCEPT !.step = "config", !.todo = inside]
        /\ UNCHANGED <<inside, activity, counted, registrar, handler, sayVars, miscounted>>
    BY <1>17 DEF BringsParameters
  <2>2. syncer'.step = "config" /\ syncer'.todo = inside
    BY <2>1 DEF Resting
  <2>3. QED
    BY <2>1, <2>2
<1>18. CASE SyncerSends
  <2> DEFINE v == syncer.held
  <2>1. /\ syncer.step = "config" /\ v # NoVisitor
        /\ IF v \in inside THEN SentConfig(v, syncer.built) ELSE UNCHANGED sayVars
        /\ syncer' = Freed(syncer)
        /\ UNCHANGED <<inside, activity, parameters, counted, registrar, handler, miscounted>>
    BY <1>18 DEF SyncerSends
  <2>2. syncer'.step = syncer.step /\ syncer'.todo = syncer.todo
    BY <1>b, <2>1 DEF Freed, Goroutine
  <2>3. /\ play' = play /\ \A x \in Visitor : <<x, "play">> \in late' <=> <<x, "play">> \in late
        /\ \A x \in inside : x # v => /\ config'[x] = config[x]
                                      /\ <<x, "config">> \in late' <=> <<x, "config">> \in late
        /\ v \in inside => <<v, "config">> \in late' \/ config'[v] = Now
    <3>1. CASE v \in inside
      <4>1. v \in Visitor /\ SentConfig(v, syncer.built)
        BY <1>a, <2>1, <3>1
      <4>2. QED
        BY <1>a, <1>e, <4>1
    <3>2. CASE v \notin inside
      BY <2>1, <3>2
    <3>3. QED
      BY <3>1, <3>2
  <2>4. Now' = Now
    BY <2>1 DEF Now
  <2>5. HandlerPhase' /\ Admitted' /\ CountsAll'
    BY <2>1, <2>2, <2>3
  <2>6. ASSUME NEW x \in inside PROVE KnowsConfig(x)' /\ PlaysInActivity(x)' /\ StopsBeforeEnd(x)'
    <3>1. KnowsConfig(x)'
      BY <1>a, <2>1, <2>2, <2>3, <2>4, <2>6
    <3>2. PlaysInActivity(x)' /\ StopsBeforeEnd(x)'
      BY <1>a, <2>1, <2>2, <2>3, <2>6
    <3>3. QED
      BY <3>1, <3>2
  <2>7. QED
    BY <2>1, <2>5, <2>6
<1>19. CASE SyncerEnds
  <2>1. /\ syncer.held = NoVisitor /\ syncer.todo \cap inside = {} /\ syncer' = Resting
        /\ UNCHANGED <<inside, activity, parameters, counted, registrar, handler, sayVars, miscounted>>
    BY <1>19 DEF SyncerEnds, Over
  <2>2. Now' = Now
    BY <2>1 DEF Now
  <2>3. QED
    BY <1>a, <2>1, <2>2
<1>20. CASE UNCHANGED sessionVars
  BY <1>20 DEF sessionVars, Now
<1>21. QED
  BY <1>1, <1>2, <1>3, <1>4, <1>5, <1>6, <1>7, <1>8, <1>9, <1>10, <1>11, <1>12, <1>13, <1>14,
     <1>15, <1>16, <1>17, <1>18, <1>19, <1>20 DEF SessionNext

\* When no message is under way all players know the activity and the parameters of now,
\* play if there is an activity and are counted, whatever the order in which Run and the two
\* handlers build and send, except for the three accidents SessionAgrees names.
THEOREM SessionSound == SessionSpec => []SessionIsSound
<1>1. SessionTypes /\ SessionInv => SessionIsSound
  <2> SUFFICES ASSUME SessionTypes, SessionInv, registrar = Resting, handler = Resting,
                      syncer = Resting
               PROVE  /\ \A v \in inside :
                            /\ config[v] = Now \/ <<v, "config">> \in late
                            /\ (play[v] = "start" <=> activity # 0) \/ <<v, "play">> \in late
                      /\ activity # 0 => counted = inside \/ miscounted
    BY DEF SessionIsSound, SessionTypes, SessionAgrees
  <2>1. Resting.step = "none" /\ Resting.todo = {}
    BY DEF Resting
  <2>2. ASSUME NEW v \in inside
        PROVE  /\ config[v] = Now \/ <<v, "config">> \in late
               /\ (play[v] = "start" <=> activity # 0) \/ <<v, "play">> \in late
    BY <2>1 DEF SessionInv, KnowsConfig, ConfigComes, PlaysInActivity, StartComes, StopsBeforeEnd
  <2>3. activity # 0 => counted = inside \/ miscounted
    BY <2>1 DEF SessionInv, CountsAll
  <2>4. QED
    BY <2>2, <2>3
<1>2. QED
  BY <1>1, SessionStart, SessionTypesStep, SessionStep, PTL DEF SessionSpec

-----------------------------------------------------------------------------
(* The sequence numbers. *)

\* Since the last registration, whose device has an assigned number has that number.
AsNumbered == ~touched => \A l \in linked : Holds(l) => number[l] = assigned[deviceOf[l]]

\* What a request of the operator has written so far, and what a copy has read.
AsStored ==
    /\ assigner # NoRequest => assigner.link \in Link
    /\ ~diverged =>
          /\ assigner = NoRequest => assigned = stored
          /\ assigner # NoRequest =>
                /\ copier = NoCopy
                /\ assigned = [stored EXCEPT ![deviceOf[assigner.link]] = assigner.seq]
          /\ copier # NoCopy => copier.read = stored

NumbersInv == NumbersTypeOK /\ NumbersDiffer /\ AsNumbered /\ AsStored

\* A set of naturals that is not empty has a least element.
LEMMA LeastOf ==
    ASSUME NEW T \in SUBSET Nat, T # {}
    PROVE  \E x \in T : \A y \in T : x <= y
<1>1. IsWellFoundedOn({p \in Nat \X Nat : p[1] < p[2]}, Nat)
  BY NatLessThanWellFounded DEF OpToRel
<1>2. PICK x \in T : \A y \in T : <<y, x>> \notin {p \in Nat \X Nat : p[1] < p[2]}
  BY <1>1, WFMin
<1>3. ASSUME NEW y \in T PROVE x <= y
  <2>1. ~(y < x)
    BY <1>2
  <2>2. QED
    BY <2>1
<1>4. QED
  BY <1>3

\* Of the numbers up to n, how many are not in U: one number more adds one or none.
LEMMA CountStep ==
    ASSUME NEW U, NEW n \in Nat
    PROVE  /\ Cardinality((0..n) \ U) \in Nat
           /\ n + 1 \notin U => Cardinality((0..(n + 1)) \ U) = Cardinality((0..n) \ U) + 1
           /\ n + 1 \in U => Cardinality((0..(n + 1)) \ U) = Cardinality((0..n) \ U)
<1>1. IsFiniteSet((0..n) \ U)
  <2>1. IsFiniteSet(0..n)
    <3>1. 0 \in Int /\ n \in Int
      OBVIOUS
    <3>2. QED
      BY <3>1, FS_Interval
  <2>2. QED
    BY <2>1, FS_Difference
<1>2. CASE n + 1 \notin U
  <2>1. (0..(n + 1)) \ U = ((0..n) \ U) \cup {n + 1} /\ n + 1 \notin (0..n) \ U
    BY <1>2
  <2>2. QED
    BY <1>1, <1>2, <2>1, FS_AddElement, FS_CardinalityType
<1>3. CASE n + 1 \in U
  <2>1. (0..(n + 1)) \ U = (0..n) \ U
    BY <1>3
  <2>2. QED
    BY <1>1, <1>3, <2>1, FS_CardinalityType
<1>4. QED
  BY <1>2, <1>3

\* The j-th number that is not in U exists up to any m with j numbers outside U.
LEMMA FreeExists ==
    ASSUME NEW U, NEW m \in Nat, NEW j \in Nat, 0 < j, j <= Cardinality((0..m) \ U)
    PROVE  \E n \in 0..m : n \notin U /\ Cardinality((0..n) \ U) = j
<1> DEFINE Count(n) == Cardinality((0..n) \ U)
           Enough == {n \in 0..m : j <= Count(n)}
<1>1. PICK n \in Enough : \A k \in Enough : n <= k
  <2>1. Enough \in SUBSET Nat /\ m \in Enough
    OBVIOUS
  <2>2. QED
    BY <2>1, LeastOf
<1>2. n \in 0..m /\ j <= Count(n)
  BY <1>1
<1>3. CASE n = 0
  <2>1. (0..0) = {0} /\ (0..0) \ U \subseteq {0}
    OBVIOUS
  <2>2. CASE 0 \in U
    <3>1. (0..0) \ U = {}
      BY <2>1, <2>2
    <3>2. Count(0) = 0
      BY <3>1, FS_EmptySet
    <3>3. QED
      BY <1>2, <1>3, <3>2
  <2>3. CASE 0 \notin U
    <3>1. (0..0) \ U = {0}
      BY <2>1, <2>3
    <3>2. Count(0) = 1
      BY <3>1, FS_Singleton
    <3>3. QED
      BY <1>2, <1>3, <2>3, <3>2
  <2>4. QED
    BY <2>2, <2>3
<1>4. CASE n # 0
  <2>1. n - 1 \in Nat /\ n - 1 \in 0..m /\ (n - 1) + 1 = n
    BY <1>2, <1>4
  <2>2. n - 1 \notin Enough
    BY <1>1, <1>2, <2>1
  <2>3. ~(j <= Count(n - 1))
    BY <2>1, <2>2
  <2>4. /\ Count(n - 1) \in Nat
        /\ n \notin U => Count(n) = Count(n - 1) + 1
        /\ n \in U => Count(n) = Count(n - 1)
    BY <2>1, CountStep
  <2> HIDE DEF Count
  <2>5. n \notin U
    BY <1>2, <2>3, <2>4
  <2>6. Count(n) = j
    BY <1>2, <2>3, <2>4, <2>5
  <2>7. QED
    BY <1>2, <2>5, <2>6 DEF Count
<1>5. QED
  BY <1>3, <1>4

\* The operator's numbers and as many more as there are connections are enough: Free finds
\* what it looks for.
LEMMA FreeIsFree ==
    ASSUME NumbersTypeOK, NEW S \in SUBSET Link, NEW j \in 1..Cardinality(Link)
    PROVE  /\ Free(S, j) \in Numbers
           /\ Free(S, j) \notin Used(S)
           /\ Cardinality((0..Free(S, j)) \ Used(S)) = j
<1> DEFINE U == Used(S)
           m == Cardinality(Link) + Cardinality(Assignable)
<1>1. /\ IsFiniteSet(Assignable) /\ Cardinality(Assignable) \in Nat
      /\ Cardinality(Link) \in Nat /\ m \in Nat /\ j \in Nat /\ 0 < j
  <2>1. Cardinality(Assignable) \in Nat /\ Cardinality(Link) \in Nat
    BY NumbersAssumption, FS_CardinalityType
  <2>2. QED
    BY <2>1, NumbersAssumption
<1>2. U \subseteq Assignable
  <2>1. deviceOf \in [Link -> Device] /\ assigned \in [Device -> Assignable \cup {NoNumber}]
    BY NumbersAssumption DEF NumbersTypeOK, Assignment
  <2>2. QED
    BY <2>1 DEF Used, Holds
<1>3. j <= Cardinality((0..m) \ U)
  <2>1. IsFiniteSet(0..m) /\ Cardinality(0..m) = m + 1
    <3>1. 0 \in Int /\ m \in Int /\ ~(0 > m) /\ m - 0 + 1 = m + 1
      BY <1>1
    <3> HIDE DEF m
    <3>2. QED
      BY <3>1, FS_Interval
  <2>2. IsFiniteSet(U) /\ Cardinality(U) <= Cardinality(Assignable) /\ Cardinality(U) \in Nat
    BY <1>1, <1>2, FS_Subset, FS_CardinalityType
  <2>3. /\ Cardinality((0..m) \cap U) <= Cardinality(U)
        /\ Cardinality((0..m) \cap U) \in Nat
    BY <2>1, <2>2, FS_Intersection, FS_CardinalityType
  <2>4. Cardinality((0..m) \ U) = Cardinality(0..m) - Cardinality((0..m) \cap U)
    BY <2>1, FS_Difference
  <2> DEFINE both == Cardinality((0..m) \cap U)
             left == Cardinality((0..m) \ U)
             all == Cardinality(Link)
             more == Cardinality(Assignable)
  <2>5. both <= more
    <3>1. Cardinality(U) \in Nat
      BY <2>2
    <3>2. QED
      BY <1>1, <2>2, <2>3, <3>1
  <2>6. left = (all + more + 1) - both /\ both \in Nat /\ all \in Nat /\ more \in Nat /\ j <= all
    BY <1>1, <2>1, <2>3, <2>4
  <2> HIDE DEF both, left, all, more
  <2>7. j <= left
    BY <1>1, <2>5, <2>6
  <2>8. QED
    BY <2>7 DEF left
<1>4. \E n \in 0..m : n \notin U /\ Cardinality((0..n) \ U) = j
  <2> HIDE DEF U, m
  <2>1. QED
    BY <1>1, <1>3, FreeExists
<1>5. \E n \in Numbers : n \notin Used(S) /\ Cardinality((0..n) \ Used(S)) = j
  BY <1>4 DEF Numbers
<1>6. QED
  BY <1>5 DEF Free

\* A connection without an assigned number has a place in the list of names, and that of
\* an earlier name is before that of a later one.
LEMMA PlaceOrder ==
    ASSUME NEW S \in SUBSET Link, NEW l \in S, ~Holds(l)
    PROVE  /\ Place(S, deviceOf[l]) \in 1..Cardinality(Link)
           /\ \A m \in S : ~Holds(m) /\ deviceOf[l] < deviceOf[m] =>
                  Place(S, deviceOf[l]) # Place(S, deviceOf[m])
<1> DEFINE Before(d) == {k \in S : ~Holds(k) /\ deviceOf[k] <= d}
<1>1. \A k \in S : deviceOf[k] \in Int
  BY NumbersAssumption
<1>2. IsFiniteSet(S) /\ Cardinality(S) <= Cardinality(Link) /\ Cardinality(Link) \in Nat
  BY NumbersAssumption, FS_Subset, FS_CardinalityType
<1>3. \A d : /\ IsFiniteSet(Before(d)) /\ Cardinality(Before(d)) <= Cardinality(S)
             /\ Cardinality(Before(d)) \in Nat
  <2>1. \A d : Before(d) \in SUBSET S
    OBVIOUS
  <2> HIDE DEF Before
  <2>2. QED
    BY <1>2, <2>1, FS_Subset, FS_CardinalityType
<1>4. Cardinality(S) \in Nat
  BY <1>2, FS_CardinalityType
<1>5. \A d : Place(S, d) = Cardinality(Before(d))
  BY DEF Place
<1>6. l \in Before(deviceOf[l])
  BY <1>1
<1>7. Place(S, deviceOf[l]) \in 1..Cardinality(Link)
  <2>1. Before(deviceOf[l]) # {}
    BY <1>6
  <2> HIDE DEF Before
  <2>2. Cardinality(Before(deviceOf[l])) # 0
    BY <1>3, <2>1, FS_EmptySet
  <2>3. QED
    BY <1>2, <1>3, <1>4, <1>5, <2>2
<1>8. ASSUME NEW m \in S, ~Holds(m), deviceOf[l] < deviceOf[m]
      PROVE  Place(S, deviceOf[l]) # Place(S, deviceOf[m])
  <2>1. Before(deviceOf[l]) \subseteq Before(deviceOf[m])
    BY <1>1, <1>8
  <2>2. m \in Before(deviceOf[m]) /\ m \notin Before(deviceOf[l])
    BY <1>1, <1>8
  <2> HIDE DEF Before
  <2>3. Cardinality(Before(deviceOf[l])) # Cardinality(Before(deviceOf[m]))
    BY <1>3, <2>1, <2>2, FS_Subset
  <2>4. QED
    BY <1>5, <2>3
<1>9. QED
  BY <1>7, <1>8

\* The connections that the sorted list names have no assigned number.
LEMMA ChosenUnassigned ==
    ASSUME NEW S \in SUBSET Link, NEW C \in Chosen(S)
    PROVE  C \subseteq S /\ \A l \in C : ~Holds(l)
BY DEF Chosen

\* A numbering gives every connection a number; it gives whose device has an assigned number
\* that one, and no two others of different devices the same one, nor one that is assigned.
LEMMA NumberingDiffers ==
    ASSUME NumbersTypeOK, NEW S \in SUBSET Link, NEW C \in Chosen(S)
    PROVE  /\ Numbering(S, C) \in [Link -> Numbers]
           /\ \A l \in S : Holds(l) => Numbering(S, C)[l] = assigned[deviceOf[l]]
           /\ \A l, m \in {k \in S : Holds(k) \/ k \in C} :
                 deviceOf[l] # deviceOf[m] =>
                    Numbering(S, C)[l] # Numbering(S, C)[m] \/ (Holds(l) /\ Holds(m))
<1> DEFINE given == Numbering(S, C)
           free(l) == Free(S, Place(S, deviceOf[l]))
<1>1. C \subseteq S /\ \A l \in C : ~Holds(l)
  BY ChosenUnassigned
<1>2. \A l \in Link : deviceOf[l] \in Device /\ deviceOf[l] \in Int
  BY NumbersAssumption
<1>3. \A l \in Link : Holds(l) => assigned[deviceOf[l]] \in Assignable
  BY <1>2 DEF NumbersTypeOK, Assignment, Holds
<1>4. \A l \in C : /\ free(l) \in Numbers
                   /\ free(l) \notin Used(S)
                   /\ Cardinality((0..free(l)) \ Used(S)) = Place(S, deviceOf[l])
  BY <1>1, PlaceOrder, FreeIsFree
<1>5. \A l \in Link : given[l] = IF l \in S /\ Holds(l) THEN assigned[deviceOf[l]]
                                 ELSE IF l \in C THEN free(l) ELSE number[l]
  BY DEF Numbering
<1>6. given \in [Link -> Numbers]
  <2>1. \A l \in Link : number[l] \in Numbers
    BY DEF NumbersTypeOK
  <2>2. given = [l \in Link |-> given[l]]
    BY DEF Numbering
  <2> HIDE DEF given, free
  <2>3. \A l \in Link : given[l] \in Numbers
    <3>1. SUFFICES ASSUME NEW l \in Link PROVE given[l] \in Numbers
      OBVIOUS
    <3>2. CASE l \in S /\ Holds(l)
      BY <1>3, <1>5, <3>2 DEF Numbers
    <3>3. CASE ~(l \in S /\ Holds(l)) /\ l \in C
      BY <1>4, <1>5, <3>3
    <3>4. CASE ~(l \in S /\ Holds(l)) /\ l \notin C
      BY <1>5, <2>1, <3>4
    <3>5. QED
      BY <3>2, <3>3, <3>4
  <2>4. QED
    BY <2>2, <2>3
<1>7. \A l \in S : Holds(l) => given[l] = assigned[deviceOf[l]] /\ given[l] \in Used(S)
  BY <1>5 DEF Used
<1>8. \A l \in C : given[l] = free(l)
  BY <1>1, <1>5
<1>9. ASSUME NEW l \in S, NEW m \in S, Holds(l) \/ l \in C, Holds(m) \/ m \in C,
             deviceOf[l] # deviceOf[m]
      PROVE  given[l] # given[m] \/ (Holds(l) /\ Holds(m))
  <2> HIDE DEF given, free
  <2>1. CASE Holds(l) /\ ~Holds(m)
    BY <1>4, <1>7, <1>8, <1>9, <2>1
  <2>2. CASE ~Holds(l) /\ Holds(m)
    BY <1>4, <1>7, <1>8, <1>9, <2>2
  <2>3. CASE ~Holds(l) /\ ~Holds(m)
    <3>1. Place(S, deviceOf[l]) # Place(S, deviceOf[m])
      <4>1. deviceOf[l] < deviceOf[m] \/ deviceOf[m] < deviceOf[l]
        BY <1>2, <1>9
      <4>2. QED
        BY <1>9, <2>3, <4>1, PlaceOrder
    <3>2. l \in C /\ m \in C
      BY <1>9, <2>3
    <3>3. given[l] # given[m]
      BY <1>4, <1>8, <3>1, <3>2
    <3>4. QED
      BY <3>3
  <2>4. QED
    BY <2>1, <2>2, <2>3
<1>10. QED
  BY <1>6, <1>7, <1>9

\* Before anybody has entered there are no numbers to confuse.
LEMMA NumbersStart == NumbersInit => NumbersInv
<1> SUFFICES ASSUME NumbersInit PROVE NumbersInv
  OBVIOUS
<1>1. Unassigned \in Assignment
  BY DEF Unassigned, Assignment
<1>2. 0 \in Numbers /\ 0 \in 0..MaxRequests
  <2>1. Cardinality(Link) \in Nat /\ Cardinality(Assignable) \in Nat
    BY NumbersAssumption, FS_CardinalityType
  <2>2. 0 \in 0..(Cardinality(Link) + Cardinality(Assignable))
    BY <2>1
  <2>3. 0 \in 0..MaxRequests
    BY NumbersAssumption
  <2>4. QED
    BY <2>2, <2>3 DEF Numbers
<1>3. NumbersTypeOK
  BY <1>1, <1>2 DEF NumbersInit, NumbersTypeOK, NoRequest, NoCopy
<1>4. QED
  BY <1>3 DEF NumbersInit, NumbersInv, NumbersDiffer, AsNumbered, AsStored

\* Every step keeps the types.
LEMMA NumbersTypesStep == NumbersTypeOK /\ [NumbersNext]_numberVars => NumbersTypeOK'
<1> SUFFICES ASSUME NumbersTypeOK, [NumbersNext]_numberVars PROVE NumbersTypeOK'
  OBVIOUS
<1> USE DEF NumbersTypeOK
<1>a. \A n \in 0..MaxRequests : n < MaxRequests => n + 1 \in 0..MaxRequests
  BY NumbersAssumption
<1>b. /\ Unassigned \in Assignment
      /\ \A l \in Link : deviceOf[l] \in Device
  BY NumbersAssumption DEF Unassigned, Assignment
<1>c. 0 \in Numbers
  <2>1. Cardinality(Link) \in Nat /\ Cardinality(Assignable) \in Nat
    BY NumbersAssumption, FS_CardinalityType
  <2>2. QED
    BY <2>1 DEF Numbers
<1>1. ASSUME NEW l \in Link, Registers(l) PROVE NumbersTypeOK'
  <2>1. PICK C \in Chosen(linked \cup {l}) :
              /\ number' = Numbering(linked \cup {l}, C)
              /\ passedOver' = {m \in linked \cup {l} : ~Holds(m)} \ C
    BY <1>1 DEF Registers
  <2>2. linked \cup {l} \in SUBSET Link
    OBVIOUS
  <2>3. number' \in [Link -> Numbers]
    BY <2>1, <2>2, NumberingDiffers
  <2>4. QED
    BY <1>1, <2>1, <2>3 DEF Registers
<1>2. ASSUME NEW l \in Link, Unlinks(l) PROVE NumbersTypeOK'
  BY <1>c, <1>2 DEF Unlinks
<1>3. ASSUME NEW l \in Link, NEW n \in Assignable, Assigns(l, n) PROVE NumbersTypeOK'
  <2>1. assigned' \in Assignment
    BY <1>3 DEF Assigns, Assignment
  <2>2. requests' \in 0..MaxRequests
    BY <1>a, <1>3 DEF Assigns
  <2>3. QED
    BY <1>3, <2>1, <2>2 DEF Assigns
<1>4. CASE TakesSignal
  <2>1. number' \in [Link -> Numbers]
    <3>1. assigned[deviceOf[assigner.link]] \in Numbers \/ ~Holds(assigner.link) \/ assigner.link \notin linked
      BY <1>b DEF Holds, Numbers, Assignment
    <3>2. QED
      BY <1>4, <3>1 DEF TakesSignal
  <2>2. QED
    BY <1>4, <2>1 DEF TakesSignal
<1>5. CASE StoresAssignment
  <2>1. stored' \in Assignment
    BY <1>5 DEF StoresAssignment, Assignment
  <2>2. QED
    BY <1>5, <2>1 DEF StoresAssignment, NoRequest
<1>6. CASE ReadsStore
  <2>1. requests' \in 0..MaxRequests
    BY <1>a, <1>6 DEF ReadsStore
  <2>2. QED
    BY <1>6, <2>1 DEF ReadsStore
<1>7. CASE Replaces
  BY <1>b, <1>7 DEF Replaces, NoCopy
<1>8. ASSUME NEW d \in Device, Forgets(d) PROVE NumbersTypeOK'
  <2>1. stored' \in Assignment
    BY <1>8 DEF Forgets, Assignment
  <2>2. requests' \in 0..MaxRequests
    BY <1>a, <1>8 DEF Forgets
  <2>3. QED
    BY <1>8, <2>1, <2>2 DEF Forgets
<1>9. CASE UNCHANGED numberVars
  BY <1>9 DEF numberVars
<1>10. QED
  BY <1>1, <1>2, <1>3, <1>4, <1>5, <1>6, <1>7, <1>8, <1>9 DEF NumbersNext

\* A registration sets the numbers right; whoever changes an assignment afterwards says so.
LEMMA NumbersStep == NumbersInv /\ [NumbersNext]_numberVars => NumbersInv'
<1> SUFFICES ASSUME NumbersInv, [NumbersNext]_numberVars PROVE NumbersInv'
  OBVIOUS
<1>a. NumbersTypeOK /\ NumbersTypeOK'
  BY NumbersTypesStep DEF NumbersInv
<1>b. linked \subseteq Link /\ \A l \in Link : deviceOf[l] \in Device
  BY <1>a, NumbersAssumption DEF NumbersTypeOK
<1>c. NumbersDiffer /\ AsNumbered /\ AsStored
  BY DEF NumbersInv
<1>d. NoLink \notin Link
  BY NumbersAssumption
<1>1. ASSUME NEW l \in Link, Registers(l) PROVE NumbersInv'
  <2> DEFINE S == linked \cup {l}
  <2>1. PICK C \in Chosen(S) :
              /\ number' = Numbering(S, C)
              /\ passedOver' = {m \in S : ~Holds(m)} \ C
    BY <1>1 DEF Registers
  <2>2. S \in SUBSET Link /\ linked' = S /\ assigned' = assigned /\ touched' = FALSE
    BY <1>1, <1>b DEF Registers
  <2>3. \A m \in S : Holds(m)' <=> Holds(m)
    BY <2>2 DEF Holds
  <2>4. /\ \A m \in S : Holds(m) => number'[m] = assigned[deviceOf[m]]
        /\ \A m, k \in {x \in S : Holds(x) \/ x \in C} :
              deviceOf[m] # deviceOf[k] => number'[m] # number'[k] \/ (Holds(m) /\ Holds(k))
    <3> HIDE DEF S
    <3>1. /\ \A m \in S : Holds(m) => Numbering(S, C)[m] = assigned[deviceOf[m]]
          /\ \A m, k \in {x \in S : Holds(x) \/ x \in C} :
                deviceOf[m] # deviceOf[k] =>
                   Numbering(S, C)[m] # Numbering(S, C)[k] \/ (Holds(m) /\ Holds(k))
      BY <1>a, <2>2, NumberingDiffers
    <3>2. QED
      BY <2>1, <3>1
  <2>5. linked' \ passedOver' \subseteq {x \in S : Holds(x) \/ x \in C}
    BY <2>1, <2>2
  <2> HIDE DEF S
  <2>6. NumbersDiffer'
    BY <2>2, <2>3, <2>4, <2>5 DEF NumbersDiffer
  <2>7. AsNumbered'
    BY <2>2, <2>3, <2>4 DEF AsNumbered
  <2>8. AsStored'
    BY <1>1, <1>c DEF Registers, AsStored
  <2>9. QED
    BY <1>a, <2>6, <2>7, <2>8 DEF NumbersInv
<1>2. ASSUME NEW l \in Link, Unlinks(l) PROVE NumbersInv'
  <2>1. /\ linked' = linked \ {l} /\ passedOver' = passedOver \ {l}
        /\ assigned' = assigned /\ touched' = touched
        /\ number' = [number EXCEPT ![l] = 0]
    BY <1>2 DEF Unlinks
  <2>2. \A m \in linked' : number'[m] = number[m] /\ m \in linked /\ (Holds(m)' <=> Holds(m))
    BY <1>a, <1>b, <2>1 DEF NumbersTypeOK, Holds
  <2>3. linked' \ passedOver' \subseteq linked \ passedOver
    BY <2>1
  <2>4. NumbersDiffer' /\ AsNumbered'
    BY <1>c, <2>1, <2>2, <2>3 DEF NumbersDiffer, AsNumbered
  <2>5. AsStored'
    BY <1>2, <1>c DEF Unlinks, AsStored
  <2>6. QED
    BY <1>a, <2>4, <2>5 DEF NumbersInv
<1>3. ASSUME NEW l \in Link, NEW n \in Assignable, Assigns(l, n) PROVE NumbersInv'
  <2>1. /\ touched' = TRUE /\ assigner = NoRequest /\ assigner' = [step |-> "signal", link |-> l, seq |-> n]
        /\ assigned' = [assigned EXCEPT ![deviceOf[l]] = n]
        /\ diverged' = (diverged \/ copier # NoCopy) /\ UNCHANGED <<stored, copier>>
    BY <1>3 DEF Assigns
  <2>2. assigner'.link = l /\ assigner'.seq = n /\ assigner' # NoRequest
    BY <1>d, <2>1 DEF NoRequest
  <2>3. AsStored'
    BY <1>c, <2>1, <2>2 DEF AsStored
  <2>4. QED
    BY <1>a, <2>1, <2>3 DEF NumbersInv, NumbersDiffer, AsNumbered
<1>4. CASE TakesSignal
  <2>1. /\ assigner.step = "signal" /\ assigner' = [assigner EXCEPT !.step = "store"]
        /\ number' = IF Holds(assigner.link) /\ assigner.link \in linked
                     THEN [number EXCEPT ![assigner.link] = assigned[deviceOf[assigner.link]]]
                     ELSE number
        /\ UNCHANGED <<linked, assigned, stored, copier, passedOver, touched, diverged>>
    BY <1>4 DEF TakesSignal
  <2>2. /\ assigner' # NoRequest /\ assigner # NoRequest
        /\ assigner'.link = assigner.link /\ assigner'.seq = assigner.seq
    BY <1>a, <2>1 DEF NumbersTypeOK, NoRequest
  <2>3. ~touched => number' = number
    BY <1>a, <1>c, <2>1 DEF NumbersTypeOK, AsNumbered
  <2>4. AsStored'
    BY <1>c, <2>1, <2>2 DEF AsStored
  <2>5. NumbersDiffer' /\ AsNumbered'
    BY <1>c, <2>1, <2>3 DEF NumbersDiffer, AsNumbered, Holds
  <2>6. QED
    BY <1>a, <2>4, <2>5 DEF NumbersInv
<1>5. CASE StoresAssignment
  <2>1. /\ assigner.step = "store" /\ assigner' = NoRequest
        /\ stored' = [stored EXCEPT ![deviceOf[assigner.link]] = assigner.seq]
        /\ UNCHANGED <<linked, number, assigned, copier, passedOver, touched, diverged>>
    BY <1>5 DEF StoresAssignment
  <2>2. assigner # NoRequest
    BY <2>1 DEF NoRequest
  <2>3. AsStored'
    BY <1>c, <2>1, <2>2 DEF AsStored
  <2>4. NumbersDiffer' /\ AsNumbered'
    BY <1>c, <2>1 DEF NumbersDiffer, AsNumbered, Holds
  <2>5. QED
    BY <1>a, <2>3, <2>4 DEF NumbersInv
<1>6. CASE ReadsStore
  <2>1. /\ copier = NoCopy /\ copier' = [step |-> "read", read |-> stored]
        /\ diverged' = (diverged \/ assigner # NoRequest)
        /\ UNCHANGED <<linked, number, assigned, stored, assigner, passedOver, touched>>
    BY <1>6 DEF ReadsStore
  <2>2. AsStored'
    BY <1>c, <2>1 DEF AsStored
  <2>3. NumbersDiffer' /\ AsNumbered'
    BY <1>c, <2>1 DEF NumbersDiffer, AsNumbered, Holds
  <2>4. QED
    BY <1>a, <2>2, <2>3 DEF NumbersInv
<1>7. CASE Replaces
  <2>1. /\ copier # NoCopy /\ assigned' = copier.read /\ copier' = NoCopy
        /\ touched' = (touched \/ assigned' # assigned)
        /\ UNCHANGED <<linked, number, stored, assigner, passedOver, diverged>>
    BY <1>7 DEF Replaces
  <2>2. AsStored'
    BY <1>c, <2>1 DEF AsStored
  <2>3. NumbersDiffer' /\ AsNumbered'
    <3>1. ~touched' => ~touched /\ assigned' = assigned
      BY <1>a, <2>1 DEF NumbersTypeOK
    <3>2. QED
      BY <1>c, <2>1, <3>1 DEF NumbersDiffer, AsNumbered, Holds
  <2>4. QED
    BY <1>a, <2>2, <2>3 DEF NumbersInv
<1>8. ASSUME NEW d \in Device, Forgets(d) PROVE NumbersInv'
  <2>1. /\ diverged' = TRUE
        /\ UNCHANGED <<linked, number, assigned, assigner, copier, passedOver, touched>>
    BY <1>8 DEF Forgets
  <2>2. AsStored'
    BY <1>c, <2>1 DEF AsStored
  <2>3. NumbersDiffer' /\ AsNumbered'
    BY <1>c, <2>1 DEF NumbersDiffer, AsNumbered, Holds
  <2>4. QED
    BY <1>a, <2>2, <2>3 DEF NumbersInv
<1>9. CASE UNCHANGED numberVars
  BY <1>a, <1>c, <1>9 DEF numberVars, NumbersInv, NumbersDiffer, AsNumbered, AsStored, Holds
<1>10. QED
  BY <1>1, <1>2, <1>3, <1>4, <1>5, <1>6, <1>7, <1>8, <1>9 DEF NumbersNext

\* For any number of players and devices: players of different devices have different numbers
\* after every registration, and the room at rest has the assignments of the store, except for
\* the accidents the two properties name.
THEOREM SequencesSound == NumbersSpec => []SequencesAreSound
<1>1. NumbersInv => SequencesAreSound
  BY DEF NumbersInv, AsStored, SequencesAreSound, AssignmentsAreStored
<1>2. QED
  BY <1>1, NumbersStart, NumbersStep, PTL DEF NumbersSpec
=============================================================================
