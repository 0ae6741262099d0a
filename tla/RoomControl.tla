---------------------------- MODULE RoomControl ----------------------------
(***************************************************************************)
(* The control page of a room, client/src/app/rooms/[id]/control/page.tsx:  *)
(* which activity it shows, and what its Start / End button does.           *)
(*                                                                          *)
(* The page learns of the running activity in three ways that nothing       *)
(* orders: a poll every 5 s (loadControlData, several can be under way), a  *)
(* WebSocket the server pushes to, and the answers to its own requests.     *)
(* The sidebar leads from the control page of one room to that of another   *)
(* and the component stays: its state, the polls under way and a request    *)
(* under way survive, the WebSocket is replaced.                            *)
(*                                                                          *)
(* Of the server only the statuses of activities are kept, changed as       *)
(* activity_service.go does (ActivityFlow shows how); other operators start *)
(* and end activities too.  Requests and answers may be lost.               *)
(***************************************************************************)
EXTENDS Naturals, FiniteSets

CONSTANTS
    Room, Activity,
    None,          \* no activity
    MaxPolls,      \* bound: loadControlData calls of the poll under way
    MaxSwitches,   \* bound: changes of the room
    MaxFailures    \* bound: requests and answers that are lost

ASSUME ControlAssumption ==
    /\ None \notin Activity /\ None \notin Room /\ Room # {}
    /\ MaxPolls \in Nat \ {0} /\ MaxSwitches \in Nat /\ MaxFailures \in Nat

VARIABLES
    home,        \* the room an activity was created for
    status,      \* its status on the server, "none" before it is created
    shown,       \* roomId of the page
    meta,        \* currentActivityMeta: the running activity shown, or None
    polls,       \* loadControlData calls under way: room asked for, and answer
    job,         \* activityPending and the handler that set it
    switches,
    made,        \* history: activities this page has created
    confirmed,   \* history: ... whose start was answered
    lost,        \* history: ... it lost track of, an answer or a cancel failing
    failures

serverVars == <<home, status>>
historyVars == <<made, confirmed, lost>>
vars == <<home, status, shown, meta, polls, job, switches, made, confirmed, lost,
          failures>>

Maybe == Activity \cup {None}

\* A load is asked for a room, and carries the server's answer once it has one.
Load == [room : Room, answered : BOOLEAN, got : Maybe]
Asked(r) == [room |-> r, answered |-> FALSE, got |-> None]
Answer(r, a) == [room |-> r, answered |-> TRUE, got |-> a]

\* Where the handler of the button stands: a request sent (create, start, end,
\* cancel), its answer on the way back (created, started, ended, failed), or
\* the loadControlData it ends with.
Stage == {"idle", "create", "created", "start", "started", "failed", "cancel",
          "end", "ended", "reload", "reloaded"}
Job == [stage : Stage, room : Room \cup {None}, act : Maybe, got : Maybe]
Idle == [stage |-> "idle", room |-> None, act |-> None, got |-> None]

\* Types: what the page shows and asks is about rooms and activities; no more
\* polls than the bound.
TypeOK ==
    /\ home \in [Activity -> Room \cup {None}]
    /\ status \in [Activity -> {"none", "draft", "running", "ended", "cancelled"}]
    /\ shown \in Room /\ meta \in Maybe
    /\ polls \subseteq Load /\ Cardinality(polls) <= MaxPolls
    /\ job \in Job
    /\ made \subseteq Activity /\ confirmed \subseteq made /\ lost \subseteq made
    /\ switches \in 0..MaxSwitches /\ failures \in 0..MaxFailures
    /\ \A a \in Activity : status[a] = "none" <=> home[a] = None

First == CHOOSE r \in Room : TRUE   \* the page is opened on any room

Init ==
    /\ home = [a \in Activity |-> None]
    /\ status = [a \in Activity |-> "none"]
    /\ shown = First /\ meta = None
    /\ polls = {} /\ job = Idle
    /\ made = {} /\ confirmed = {} /\ lost = {} /\ switches = 0 /\ failures = 0

----------------------------------------------------------------------------
(* The server *)

Running(r) == {a \in Activity : home[a] = r /\ status[a] = "running"}

\* GET current-activity, and the activity in a room update.
Current(r) == IF Running(r) = {} THEN None ELSE CHOOSE a \in Running(r) : TRUE

SetStatus(a, s) == status' = [status EXCEPT ![a] = s]
CanStart(a) == status[a] = "draft" /\ Running(home[a]) = {}

\* (mutant) only a draft can be cancelled
CanCancelDraft(a) == status[a] = "draft"
CanCancel(a) == status[a] \in {"draft", "running"}

Fail == failures < MaxFailures /\ failures' = failures + 1

\* An operator at another page starts or ends an activity.
OtherStarts(r, a) ==
    /\ status[a] = "none" /\ Running(r) = {}
    /\ home' = [home EXCEPT ![a] = r] /\ SetStatus(a, "running")
    /\ UNCHANGED <<shown, meta, polls, job, switches, historyVars, failures>>

OtherEnds(a) ==
    /\ status[a] = "running" /\ SetStatus(a, "ended")
    /\ UNCHANGED <<home, shown, meta, polls, job, switches, historyVars, failures>>

----------------------------------------------------------------------------
(* Polls *)

\* (mutant) the callback keeps the roomId of the first render
PollFirst ==
    /\ Cardinality(polls) < MaxPolls
    /\ Asked(First) \notin polls
    /\ polls' = polls \cup {Asked(First)}
    /\ UNCHANGED <<serverVars, shown, meta, job, switches, historyVars, failures>>

\* The interval while the page is visible, or the effect at the first render of a
\* room.  The load asks
\* for the room of the closure it was made in.
Poll ==
    /\ Cardinality(polls) < MaxPolls
    /\ Asked(shown) \notin polls
    /\ polls' = polls \cup {Asked(shown)}
    /\ UNCHANGED <<serverVars, shown, meta, job, switches, historyVars, failures>>

\* The server answers; a failed fetch of the activity is caught as "none".
PollAnswered(r) ==
    /\ Asked(r) \in polls
    /\ \/ polls' = (polls \ {Asked(r)}) \cup {Answer(r, Current(r))} /\ UNCHANGED failures
       \/ Fail /\ polls' = (polls \ {Asked(r)}) \cup {Answer(r, None)}
    /\ UNCHANGED <<serverVars, shown, meta, job, switches, historyVars>>

\* The rest of the load, after the batches of device statuses: the answer is
\* shown, whatever the page has learned, or whichever room it has gone to,
\* since.  A load that fails as a whole changes nothing.
PollApplied(r, a) ==
    /\ Answer(r, a) \in polls
    /\ polls' = polls \ {Answer(r, a)}
    /\ \/ meta' = a /\ UNCHANGED failures
       \/ Fail /\ UNCHANGED meta
    /\ UNCHANGED <<serverVars, shown, job, switches, historyVars>>

----------------------------------------------------------------------------
(* Another room, and the updates of the WebSocket *)

\* A link of the sidebar changes roomId; currentActivityMeta is not reset.
Switch(r) ==
    /\ r # shown /\ switches < MaxSwitches
    /\ shown' = r /\ switches' = switches + 1
    /\ UNCHANGED <<serverVars, meta, polls, job, historyVars, failures>>

\* onmessage: a room update, of the room shown; the socket of the room before
\* delivers nothing once it is closed.  (LiveViews models the socket.)
Update ==
    /\ meta' = Current(shown)
    /\ UNCHANGED <<serverVars, shown, polls, job, switches, historyVars, failures>>

----------------------------------------------------------------------------
(* The button: handleStartConfiguredActivity and handleEndActivity.  It is   *)
(* disabled while activityPending is set, that is, while job is not Idle     *)

At(stage) == job.stage = stage
Go(stage) == job' = [job EXCEPT !.stage = stage]
Reload == job' = [job EXCEPT !.stage = "reload", !.act = None]
Catch == IF At("end") THEN job' = Idle ELSE Go("failed")   \* a failed end is only told
Page == UNCHANGED <<shown, polls, switches>>

ClickStart ==
    /\ At("idle") /\ meta = None
    /\ job' = [Idle EXCEPT !.stage = "create", !.room = shown]
    /\ Page /\ UNCHANGED <<serverVars, meta, historyVars, failures>>

ClickEnd ==
    /\ At("idle") /\ meta # None
    /\ job' = [Idle EXCEPT !.stage = "end", !.room = shown, !.act = meta]
    /\ Page /\ UNCHANGED <<serverVars, meta, historyVars, failures>>

\* The server makes a draft.  When the answer is lost the page never knows it.
Create(a) ==
    /\ At("create") /\ status[a] = "none"
    /\ home' = [home EXCEPT ![a] = job.room] /\ SetStatus(a, "draft")
    /\ made' = made \cup {a} /\ UNCHANGED confirmed
    /\ \/ job' = [job EXCEPT !.stage = "created", !.act = a]
          /\ UNCHANGED <<lost, failures>>
       \/ Fail /\ Go("failed") /\ lost' = lost \cup {a}
    /\ Page /\ UNCHANGED meta

\* createDraft is answered: createdActivityId is set, start is requested.
Created ==
    /\ At("created") /\ Go("start")
    /\ Page /\ UNCHANGED <<serverVars, meta, historyVars, failures>>

\* The server starts the draft; the answer comes or is lost.
Start ==
    /\ At("start") /\ CanStart(job.act) /\ SetStatus(job.act, "running")
    /\ \/ Go("started") /\ UNCHANGED failures
       \/ Go("failed") /\ Fail
    /\ Page /\ UNCHANGED <<home, meta, historyVars>>

\* The server refuses (of a start: another activity runs in the room), or the
\* request is lost.
Refused ==
    /\ At("create") \/ At("start") \/ At("end")
    /\ \/ At("create") /\ UNCHANGED failures
       \/ At("start") /\ ~CanStart(job.act) /\ UNCHANGED failures
       \/ At("end") /\ status[job.act] # "running" /\ UNCHANGED failures
       \/ Fail
    /\ Catch
    /\ Page /\ UNCHANGED <<serverVars, meta, historyVars>>

Started ==
    /\ At("started")
    /\ meta' = job.act /\ confirmed' = confirmed \cup {job.act}
    /\ Reload
    /\ Page /\ UNCHANGED <<serverVars, made, lost, failures>>

\* catch of the start: what createDraft has made, createdActivityId, is cancelled.
RollsBack == job.act # None

Failed ==
    /\ At("failed")
    /\ IF RollsBack THEN Go("cancel") ELSE job' = Idle
    /\ Page /\ UNCHANGED <<serverVars, meta, historyVars, failures>>

\* cancel, and the end of the handler.  Its failure is only logged.
Cancel ==
    /\ At("cancel")
    /\ job' = Idle
    /\ \/ CanCancel(job.act) /\ SetStatus(job.act, "cancelled") /\ UNCHANGED <<lost, failures>>
       \/ ~CanCancel(job.act) /\ UNCHANGED <<status, lost, failures>>
       \/ Fail /\ lost' = lost \cup {job.act} /\ UNCHANGED status
    /\ Page /\ UNCHANGED <<home, meta, made, confirmed>>

End ==
    /\ At("end") /\ status[job.act] = "running" /\ SetStatus(job.act, "ended")
    /\ \/ Go("ended") /\ UNCHANGED failures
       \/ Catch /\ Fail
    /\ Page /\ UNCHANGED <<home, meta, historyVars>>

Ended ==
    /\ At("ended")
    /\ meta' = None /\ Reload
    /\ Page /\ UNCHANGED <<serverVars, historyVars, failures>>

\* The handler's own loadControlData, for the room of its closure.
ReloadAnswered ==
    /\ At("reload")
    /\ \/ job' = [job EXCEPT !.stage = "reloaded", !.got = Current(job.room)] /\ UNCHANGED failures
       \/ Fail /\ job' = [job EXCEPT !.stage = "reloaded"]
    /\ Page /\ UNCHANGED <<serverVars, meta, historyVars>>

ReloadApplied ==
    /\ At("reloaded")
    /\ job' = Idle
    /\ \/ meta' = job.got /\ UNCHANGED failures
       \/ Fail /\ UNCHANGED meta
    /\ Page /\ UNCHANGED <<serverVars, historyVars>>

Handler ==
    \/ \E a \in Activity : Create(a)
    \/ Created \/ Start \/ Refused \/ Started \/ Failed \/ Cancel
    \/ End \/ Ended \/ ReloadAnswered \/ ReloadApplied

Next ==
    \/ \E r \in Room, a \in Activity : OtherStarts(r, a)
    \/ \E a \in Activity : OtherEnds(a)
    \/ Poll \/ Update
    \/ \E r \in Room : PollAnswered(r) \/ Switch(r)
    \/ \E r \in Room, a \in Maybe : PollApplied(r, a)
    \/ ClickStart \/ ClickEnd \/ Handler

\* The page stays visible in the end, so the interval polls; a request is
\* answered or fails.
Fairness ==
    /\ WF_vars(Poll) /\ WF_vars(Handler)
    /\ \A r \in Room : WF_vars(PollAnswered(r))
    /\ \A r \in Room, a \in Maybe : WF_vars(PollApplied(r, a))

Spec == Init /\ [][Next]_vars /\ Fairness

----------------------------------------------------------------------------
(* Properties *)

\* A start that does not succeed leaves nothing in the room, also when the
\* server has started the activity and only the answer was lost: what the page
\* creates and was not told is running is cancelled, unless the answer to its
\* creation or the cancel itself fails.
NothingIsLeftOver ==
    \A a \in made \ (confirmed \cup lost) :
        status[a] \in {"draft", "running"} => job.act = a /\ ~At("idle")

\* The button comes back: no path through the handlers leaves activityPending
\* set.
ButtonComesBack == ~At("idle") ~> At("idle")

\* Whatever order answers come in, and whatever was lost, the page ends up showing
\* the activity that runs in its room.  It may show another one on the way.
ShowsTheRoomInTheEnd == <>[](meta = Current(shown))

\* What the page does to the server is complete: the types hold, and a start is
\* all or nothing, whatever is lost on the way.
ControlIsSound == TypeOK /\ NothingIsLeftOver

\* What the page shows settles: its button comes back and the activity is right.
PageSettles == ButtonComesBack /\ ShowsTheRoomInTheEnd
=============================================================================
