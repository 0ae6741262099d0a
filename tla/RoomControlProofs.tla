------------------------ MODULE RoomControlProofs ------------------------
(***************************************************************************)
(* Proofs about RoomControl for any rooms, activities and bounds.           *)
(***************************************************************************)
EXTENDS RoomControl, FiniteSetTheorems, TLAPS

\* The stages of a start between the answer to its first request and its end.
Starting == {"created", "start", "started", "failed", "cancel"}

\* Created by this page, not known to run, and not lost sight of.
Open == made \ (confirmed \cup lost)

\* Where the handler stands tells what it has in hand: a start has an activity of
\* this page that is still open, and no other one is.
HandlerInv ==
    /\ IsFiniteSet(polls)
    /\ job.stage \in {"idle", "create", "failed"} \cup Starting =>
          job.act = None \/ job.act \in Open
    /\ job.stage \in {"created", "start", "started", "cancel", "end"} => job.act # None
    /\ job.stage \in {"idle", "create"} => job.act = None
    /\ job.stage # "idle" => job.room \in Room
    /\ \A a \in made : status[a] # "none"
    /\ \A a \in Open :
          status[a] \in {"draft", "running"} => job.act = a /\ job.stage \in Starting

IInv == TypeOK /\ HandlerInv

\* What the server answers is an activity, or none.
LEMMA CurrentType ==
    ASSUME NEW r PROVE Current(r) \in Maybe /\ (Current(r) # None => status[Current(r)] = "running")
BY DEF Current, Running, Maybe

\* Polls stay few: one is begun below the bound, and an answer takes the place of
\* its request.
LEMMA PollsAreFew ==
    ASSUME IInv,
           \/ Poll
           \/ \E r \in Room : PollAnswered(r)
           \/ \E r \in Room, a \in Maybe : PollApplied(r, a)
    PROVE  polls' \subseteq Load /\ IsFiniteSet(polls') /\ Cardinality(polls') <= MaxPolls
<1>0. /\ polls \subseteq Load /\ IsFiniteSet(polls) /\ Cardinality(polls) <= MaxPolls
      /\ Cardinality(polls) \in Nat /\ MaxPolls \in Nat
      /\ shown \in Room
  BY FS_CardinalityType, ControlAssumption DEF IInv, TypeOK, HandlerInv
<1>1. CASE Poll
  <2>1. Asked(shown) \in Load
    BY <1>0 DEF Asked, Load, Maybe
  <2>2. /\ polls' = polls \cup {Asked(shown)}
        /\ Asked(shown) \notin polls /\ Cardinality(polls) < MaxPolls
    BY <1>1 DEF Poll
  <2>3. /\ IsFiniteSet(polls \cup {Asked(shown)})
        /\ Cardinality(polls \cup {Asked(shown)}) = Cardinality(polls) + 1
    BY <1>0, <2>2, FS_AddElement, Zenon
  <2>4. QED
    BY <1>0, <2>1, <2>2, <2>3
<1>2. ASSUME NEW r \in Room, PollAnswered(r)
      PROVE  polls' \subseteq Load /\ IsFiniteSet(polls') /\ Cardinality(polls') <= MaxPolls
  <2> DEFINE rest == polls \ {Asked(r)}
  <2>1. PICK b \in Maybe : polls' = rest \cup {Answer(r, b)}
    BY <1>2, CurrentType DEF PollAnswered, Maybe
  <2>2. Answer(r, b) \in Load
    BY DEF Answer, Load
  <2>3. IsFiniteSet(rest) /\ Cardinality(rest) = Cardinality(polls) - 1
    <3>1. Asked(r) \in polls
      BY <1>2 DEF PollAnswered
    <3>2. QED
      BY <1>0, <3>1, FS_RemoveElement, Zenon
  <2>4. rest \subseteq Load
    BY <1>0
  <2> HIDE DEF rest
  <2>5. /\ IsFiniteSet(rest \cup {Answer(r, b)})
        /\ Cardinality(rest \cup {Answer(r, b)}) \in {Cardinality(rest), Cardinality(rest) + 1}
    <3>1. IsFiniteSet(rest \cup {Answer(r, b)})
      BY <2>3, FS_AddElement, Zenon
    <3>2. Cardinality(rest \cup {Answer(r, b)})
             = IF Answer(r, b) \in rest THEN Cardinality(rest) ELSE Cardinality(rest) + 1
      BY <2>3, FS_AddElement, Zenon
    <3>3. QED
      BY <3>1, <3>2
  <2>6. QED
    BY <1>0, <2>1, <2>2, <2>3, <2>4, <2>5
<1>3. ASSUME NEW r \in Room, NEW a \in Maybe, PollApplied(r, a)
      PROVE  polls' \subseteq Load /\ IsFiniteSet(polls') /\ Cardinality(polls') <= MaxPolls
  <2>1. polls' = polls \ {Answer(r, a)} /\ Answer(r, a) \in polls
    BY <1>3 DEF PollApplied
  <2>2. /\ IsFiniteSet(polls \ {Answer(r, a)})
        /\ Cardinality(polls \ {Answer(r, a)}) = Cardinality(polls) - 1
    BY <1>0, <2>1, FS_RemoveElement, Zenon
  <2>3. QED
    BY <1>0, <2>1, <2>2
<1>4. QED
  BY <1>1, <1>2, <1>3

\* A page that has just been opened, with no handler under way, satisfies the invariant.
LEMMA InitInv == Init => IInv
<1> SUFFICES ASSUME Init PROVE IInv
  OBVIOUS
<1>1. shown \in Room
  BY ControlAssumption DEF Init, First
<1>2. IsFiniteSet(polls) /\ Cardinality(polls) <= MaxPolls
  BY FS_EmptySet, ControlAssumption DEF Init
<1>3. TypeOK
  BY <1>1, <1>2, ControlAssumption DEF Init, TypeOK, Maybe, Load, Job, Idle, Stage
<1>4. HandlerInv
  BY <1>2 DEF Init, HandlerInv, Idle, Open, Starting
<1>5. QED
  BY <1>3, <1>4 DEF IInv

\* What the page is told changes only what it shows.
LEMMA ShowingKeeps ==
    ASSUME IInv,
           \/ Poll
           \/ Update
           \/ \E r \in Room : PollAnswered(r) \/ Switch(r)
           \/ \E r \in Room, a \in Maybe : PollApplied(r, a)
    PROVE  IInv'
<1> USE DEF IInv
<1>1. /\ UNCHANGED <<serverVars, job, historyVars>>
      /\ meta' \in Maybe /\ shown' \in Room
      /\ switches' \in 0..MaxSwitches /\ failures' \in 0..MaxFailures
  BY CurrentType, ControlAssumption
     DEF Poll, Update, PollAnswered, Switch, PollApplied, TypeOK, serverVars, historyVars, Fail
<1>2. polls' \subseteq Load /\ IsFiniteSet(polls') /\ Cardinality(polls') <= MaxPolls
  <2>1. CASE polls' = polls
    BY <2>1 DEF TypeOK, HandlerInv
  <2>2. QED
    BY <2>1, PollsAreFew DEF Update, Switch
<1>3. TypeOK'
  BY <1>1, <1>2 DEF TypeOK, serverVars, historyVars
<1>4. HandlerInv'
  BY <1>1, <1>2 DEF HandlerInv, Open, serverVars, historyVars
<1>5. QED
  BY <1>3, <1>4

\* Other operators only run activities this page has not made, and end running ones.
LEMMA OthersKeep ==
    ASSUME IInv, NEW a \in Activity, OtherEnds(a) \/ \E r \in Room : OtherStarts(r, a)
    PROVE  IInv'
<1> USE DEF IInv, SetStatus, historyVars
<1>1. TypeOK'
  <2>1. CASE OtherEnds(a)
    BY <2>1, ControlAssumption DEF OtherEnds, TypeOK
  <2>2. ASSUME NEW r \in Room, OtherStarts(r, a) PROVE TypeOK'
    BY <2>2, ControlAssumption DEF OtherStarts, TypeOK
  <2>3. QED
    BY <2>1, <2>2
<1>2. HandlerInv'
  BY DEF OtherEnds, OtherStarts, TypeOK, HandlerInv, Open
<1>3. QED
  BY <1>1, <1>2

\* Each step of the button's handlers.
LEMMA HandlerKeeps ==
    ASSUME IInv, ClickStart \/ ClickEnd \/ Handler
    PROVE  IInv'
<1> USE DEF IInv, Page, At, Go, SetStatus, serverVars, historyVars, Fail
<1>0. polls' = polls /\ shown' = shown /\ switches' = switches
  BY DEF ClickStart, ClickEnd, Handler, Create, Created, Start, Refused, Started, Failed, Cancel,
         End, Ended, ReloadAnswered, ReloadApplied
<1> DEFINE Types ==
        /\ home' \in [Activity -> Room \cup {None}]
        /\ status' \in [Activity -> {"none", "draft", "running", "ended", "cancelled"}]
        /\ meta' \in Maybe /\ job' \in Job
        /\ made' \subseteq Activity /\ confirmed' \subseteq made' /\ lost' \subseteq made'
        /\ failures' \in 0..MaxFailures
        /\ \A a \in Activity : status'[a] = "none" <=> home'[a] = None
<1>a. ASSUME Types, HandlerInv' PROVE IInv'
  BY <1>0, <1>a DEF TypeOK
<1> HIDE DEF Types
<1> USE DEF TypeOK, Job, Idle, Stage
<1>1. CASE ClickStart
  <2>1. Types
    BY <1>1, ControlAssumption DEF ClickStart, Types, Maybe
  <2>2. HandlerInv'
    BY <1>1 DEF ClickStart, HandlerInv, Open, Starting
  <2>3. QED
    BY <1>a, <2>1, <2>2
<1>2. CASE ClickEnd
  <2>1. Types
    BY <1>2 DEF ClickEnd, Types, Maybe
  <2>2. HandlerInv'
    BY <1>2 DEF ClickEnd, HandlerInv, Open, Starting
  <2>3. QED
    BY <1>a, <2>1, <2>2
<1>3. ASSUME NEW a \in Activity, Create(a) PROVE IInv'
  <2> USE DEF Create
  <2>0. job.room \in Room /\ job.act = None /\ a \notin made /\ a # None
    BY <1>3, ControlAssumption DEF HandlerInv
  <2>1. Types
    <3>1. home' \in [Activity -> Room \cup {None}] /\ status' \in [Activity -> {"none", "draft", "running", "ended", "cancelled"}]
      BY <1>3, <2>0
    <3>2. \A c \in Activity : status'[c] = "none" <=> home'[c] = None
      BY <1>3, <2>0, ControlAssumption
    <3>3. job' \in Job
      BY <1>3 DEF Maybe
    <3>4. failures' \in 0..MaxFailures
      BY <1>3, ControlAssumption
    <3>5. QED
      BY <1>3, <3>1, <3>2, <3>3, <3>4 DEF Types
  <2>2. HandlerInv'
    <3>0. \A c \in made' : status'[c] # "none"
      BY <1>3 DEF HandlerInv
    <3>1. /\ IsFiniteSet(polls') /\ job'.room \in Room
          /\ \A c \in made' : status'[c] # "none"
      BY <1>3, <2>0, <3>0 DEF HandlerInv
    <3>2. \A c \in Open : status'[c] \notin {"draft", "running"}
      BY <1>3, <2>0, ControlAssumption DEF HandlerInv, Open
    <3>3. CASE job' = [job EXCEPT !.stage = "created", !.act = a] /\ lost' = lost
      <4>1. Open' = Open \cup {a}
        BY <1>3, <2>0, <3>3 DEF Open
      <4>2. QED
        BY <1>3, <2>0, <3>1, <3>2, <3>3, <4>1 DEF HandlerInv, Starting
    <3>4. CASE job' = [job EXCEPT !.stage = "failed"] /\ lost' = lost \cup {a}
      <4>1. Open' = Open
        BY <1>3, <2>0, <3>4 DEF Open
      <4>2. QED
        BY <1>3, <2>0, <3>1, <3>2, <3>4, <4>1 DEF HandlerInv, Starting
    <3>5. QED
      BY <1>3, <3>3, <3>4
  <2>3. QED
    BY <1>a, <2>1, <2>2
<1>4. CASE Created
  <2>1. Types
    BY <1>4 DEF Created, Types
  <2>2. HandlerInv'
    BY <1>4 DEF Created, HandlerInv, Open, Starting
  <2>3. QED
    BY <1>a, <2>1, <2>2
<1>5. CASE Start
  <2>1. Types
    BY <1>5, ControlAssumption DEF Start, CanStart, Types, Maybe, HandlerInv
  <2>2. HandlerInv'
    BY <1>5 DEF Start, CanStart, HandlerInv, Open, Starting
  <2>3. QED
    BY <1>a, <2>1, <2>2
<1>6. CASE Refused
  <2>1. Types
    BY <1>6, ControlAssumption DEF Refused, Catch, Types, Maybe
  <2>2. HandlerInv'
    BY <1>6 DEF Refused, Catch, HandlerInv, Open, Starting
  <2>3. QED
    BY <1>a, <2>1, <2>2
<1>7. CASE Started
  <2>1. Types
    BY <1>7 DEF Started, Reload, Types, Maybe, HandlerInv, Open, Starting
  <2>2. HandlerInv'
    BY <1>7 DEF Started, Reload, HandlerInv, Open, Starting
  <2>3. QED
    BY <1>a, <2>1, <2>2
<1>8. CASE Failed
  <2>1. Types
    BY <1>8, ControlAssumption DEF Failed, RollsBack, Types, Maybe
  <2>2. HandlerInv'
    BY <1>8, ControlAssumption DEF Failed, RollsBack, HandlerInv, Open, Starting
  <2>3. QED
    BY <1>a, <2>1, <2>2
<1>9. CASE Cancel
  <2>1. Types
    BY <1>9, ControlAssumption DEF Cancel, CanCancel, Types, Maybe, HandlerInv, Open, Starting
  <2>2. HandlerInv'
    BY <1>9 DEF Cancel, CanCancel, HandlerInv, Open, Starting
  <2>3. QED
    BY <1>a, <2>1, <2>2
<1>10. CASE End
  <2>1. Types
    BY <1>10, ControlAssumption DEF End, Catch, Types, Maybe, HandlerInv
  <2>2. HandlerInv'
    BY <1>10 DEF End, Catch, HandlerInv, Open, Starting
  <2>3. QED
    BY <1>a, <2>1, <2>2
<1>11. CASE Ended
  <2>1. Types
    BY <1>11 DEF Ended, Reload, Types, Maybe
  <2>2. HandlerInv'
    BY <1>11 DEF Ended, Reload, HandlerInv, Open, Starting
  <2>3. QED
    BY <1>a, <2>1, <2>2
<1>12. CASE ReloadAnswered
  <2>0. PICK got \in Maybe : job' = [job EXCEPT !.stage = "reloaded", !.got = got]
    <3>1. Current(job.room) \in Maybe /\ job.got \in Maybe
      BY CurrentType
    <3>2. [job EXCEPT !.stage = "reloaded"] = [job EXCEPT !.stage = "reloaded", !.got = job.got]
      OBVIOUS
    <3>3. \/ job' = [job EXCEPT !.stage = "reloaded", !.got = Current(job.room)]
          \/ job' = [job EXCEPT !.stage = "reloaded"]
      BY <1>12 DEF ReloadAnswered
    <3>4. QED
      BY <3>1, <3>2, <3>3, Zenon
  <2>1. Types
    <3>1. failures' \in 0..MaxFailures
      BY <1>12, ControlAssumption DEF ReloadAnswered
    <3>2. QED
      BY <1>12, <2>0, <3>1 DEF ReloadAnswered, Types
  <2>2. HandlerInv'
    BY <1>12, <2>0 DEF ReloadAnswered, HandlerInv, Open, Starting
  <2>3. QED
    BY <1>a, <2>1, <2>2
<1>13. CASE ReloadApplied
  <2>1. Types
    BY <1>13, ControlAssumption DEF ReloadApplied, Types, Maybe
  <2>2. HandlerInv'
    BY <1>13 DEF ReloadApplied, HandlerInv, Open, Starting
  <2>3. QED
    BY <1>a, <2>1, <2>2
<1>14. QED
  BY <1>1, <1>2, <1>3, <1>4, <1>5, <1>6, <1>7, <1>8, <1>9, <1>10, <1>11, <1>12, <1>13 DEF Handler

\* A start is all or nothing: whatever requests and answers are lost, and whatever
\* room the page has gone to meanwhile, the handlers of the button leave no activity
\* behind that the page made and was not told is running, unless the answer to its
\* creation or to its cancel was lost.
THEOREM StartIsAllOrNothing == Spec => []ControlIsSound
<1>1. IInv /\ [Next]_vars => IInv'
  <2> SUFFICES ASSUME IInv, [Next]_vars PROVE IInv'
    OBVIOUS
  <2>1. CASE Next
    BY <2>1, ShowingKeeps, OthersKeep, HandlerKeeps DEF Next
  <2>2. CASE UNCHANGED vars
    BY <2>2 DEF vars, IInv, TypeOK, HandlerInv, Open
  <2>3. QED
    BY <2>1, <2>2
<1>2. IInv => ControlIsSound
  BY DEF IInv, HandlerInv, ControlIsSound, NothingIsLeftOver, Open, Starting, At
<1>3. QED
  BY InitInv, <1>1, <1>2, PTL DEF Spec
=============================================================================
