--------------------------- MODULE RoomPlayersProofs ---------------------------
(***************************************************************************)
(* Proofs about the players of a room: RoomHub for every set of             *)
(* connections, every choice of slow ones and every capacity of             *)
(* PlayerBroadcast, the movements and the barriers of StageBarrier for      *)
(* every set of guests and every number of stages, and the snapshots and    *)
(* the answers of QABoard for every set of participants, questions and      *)
(* answers.                                                                 *)
(***************************************************************************)
EXTENDS RoomHub, StageBarrier, QABoard, TLAPS

\* Every variable keeps its type.
THEOREM TypeCorrect == Spec => []TypeOK
<1> USE DEF TypeOK
<1>1. Init => TypeOK
  <2> SUFFICES ASSUME Init PROVE TypeOK
    OBVIOUS
  <2> USE DEF Init
  <2>1. queued \in 0..BroadcastCap
    BY HubAssumption
  <2>2. inRoom \in [Player -> BOOLEAN] /\ full \in [Player -> BOOLEAN]
    OBVIOUS
  <2>3. reader \in [Player -> ReaderState]
    BY DEF ReaderState
  <2>4. /\ join \in [Player -> {"none", "connecting", "register"}]
        /\ loop \in [Player -> {"off", "ticking", "unregister"}]
        /\ target \in [Player -> Player \cup {None}]
    OBVIOUS
  <2>5. QED
    BY <2>1, <2>2, <2>3, <2>4
<1>2. TypeOK /\ [Next]_vars => TypeOK'
  <2> SUFFICES ASSUME TypeOK, [Next]_vars PROVE TypeOK'
    OBVIOUS
  <2> USE DEF ReaderState, connVars, httpVars, loopVars
  <2>1. ASSUME NEW p \in Player, Connect(p) PROVE TypeOK'
    BY <2>1 DEF Connect
  <2>2. ASSUME NEW p \in Player, ParkInStandby(p) PROVE TypeOK'
    BY <2>2 DEF ParkInStandby
  <2>3. ASSUME NEW p \in Player, EnterRoom(p) PROVE TypeOK'
    BY <2>3 DEF EnterRoom
  <2>4. ASSUME NEW p \in Player, Kick(p) PROVE TypeOK'
    BY <2>4 DEF Kick
  <2>5. ASSUME NEW p \in Player, Detach(p) PROVE TypeOK'
    BY <2>5 DEF Detach
  <2>6. ASSUME NEW p \in Player, Fill(p) PROVE TypeOK'
    BY <2>6 DEF Fill
  <2>7. ASSUME NEW p \in Player, Drain(p) PROVE TypeOK'
    BY <2>7 DEF Drain
  <2>8. ASSUME NEW p \in Player, Post(p) PROVE TypeOK'
    BY <2>8 DEF Post
  <2>9. ASSUME NEW p \in Player, Enqueue(p) PROVE TypeOK'
    BY <2>9, HubAssumption DEF Enqueue
  <2>10. ASSUME NEW p \in Player, Disconnect(p) PROVE TypeOK'
    BY <2>10 DEF Disconnect
  <2>11. ASSUME NEW p \in Player, TakeReport(p) PROVE TypeOK'
    BY <2>11 DEF TakeReport
  <2>12. ASSUME NEW i \in Player, NEW p \in Player, LoopOverflow(i, p) PROVE TypeOK'
    BY <2>12 DEF LoopOverflow
  <2>13. ASSUME NEW p \in Player, RunRegister(p) PROVE TypeOK'
    BY <2>13 DEF RunRegister, StartUpdater, FanOut
  <2>14. ASSUME NEW p \in Player, RunUnregisterReader(p) PROVE TypeOK'
    BY <2>14 DEF RunUnregisterReader, Remove
  <2>15. ASSUME NEW p \in Player, RunUnregisterKick(p) PROVE TypeOK'
    BY <2>15 DEF RunUnregisterKick, Remove
  <2>16. ASSUME NEW p \in Player, RunUnregisterConsumer(p) PROVE TypeOK'
    BY <2>16, HubAssumption DEF RunUnregisterConsumer, Remove
  <2>17. ASSUME NEW i \in Player, NEW p \in Player, RunUnregisterLoop(i, p) PROVE TypeOK'
    BY <2>17 DEF RunUnregisterLoop, Remove
  <2>18. ASSUME NEW p \in Player, RunDetach(p) PROVE TypeOK'
    BY <2>18 DEF RunDetach, Remove
  <2>19. ASSUME NEW p \in Player, RunStop(p) PROVE TypeOK'
    BY <2>19 DEF RunStop
  <2>20. ASSUME NEW p \in Player, RunControl(p) PROVE TypeOK'
    BY <2>20 DEF RunControl, FanOut
  <2>21. ASSUME NEW p \in Player, RunHttpControl(p) PROVE TypeOK'
    BY <2>21 DEF RunHttpControl, FanOut
  <2>22. ASSUME RunBroadcast PROVE TypeOK'
    BY <2>22, HubAssumption DEF RunBroadcast, FanOut
  <2>23. CASE UNCHANGED vars
    BY <2>23 DEF vars
  <2>24. QED
    BY <2>1, <2>2, <2>3, <2>4, <2>5, <2>6, <2>7, <2>8, <2>9, <2>10, <2>11, <2>12,
       <2>13, <2>14, <2>15, <2>16, <2>17, <2>18, <2>19, <2>20, <2>21, <2>22, <2>23,
       HubAssumption
       DEF Next, RunStep, OverflowStep
<1>3. QED
  BY <1>1, <1>2, PTL DEF Spec

-----------------------------------------------------------------------------
(* UpdateInfo follows the player map. *)

\* UpdaterFollowsMembers is inductive: the rendezvous of RunStop is the only
\* step that ends an UpdateInfo, and Run starts no other before it because it
\* is not at its select.

\* Only Run's own steps, and UpdateInfo turning to PlayerUnregister, touch what
\* UpdaterFollowsMembers speaks of.
LEMMA UpdaterFrame ==
    ASSUME UpdaterFollowsMembers, members' = members, run' = run, updater' = updater,
           \A i \in Player : Alive(i)' <=> Alive(i)
    PROVE  UpdaterFollowsMembers'
BY DEF UpdaterFollowsMembers, OneUpdater, UpdaterServesMembers, StopFindsUpdater

\* Taking a player out of the room keeps UpdaterFollowsMembers.
LEMMA RemoveKeepsUpdater ==
    ASSUME UpdaterFollowsMembers, run = "select", NEW p, Remove(p),
           \A i \in Player : Alive(i)' <=> Alive(i)
    PROVE  UpdaterFollowsMembers'
<1>1. CASE p \in members /\ members = {p}
  BY <1>1 DEF Remove, UpdaterFollowsMembers, OneUpdater, UpdaterServesMembers, StopFindsUpdater
<1>2. CASE p \in members /\ members # {p}
  <2>1. members' # {} /\ members # {}
    BY <1>2 DEF Remove
  <2>2. QED
    BY <1>2, <2>1 DEF Remove, UpdaterFollowsMembers, OneUpdater, UpdaterServesMembers, StopFindsUpdater
<1>3. CASE p \notin members
  BY <1>3, UpdaterFrame DEF Remove
<1>4. QED
  BY <1>1, <1>2, <1>3

\* Run back at its select finds the room with players exactly when one
\* UpdateInfo goroutine runs, and a stop signal is always taken by one.
THEOREM UpdaterSafe == Spec => []UpdaterFollowsMembers
<1>1. Init => UpdaterFollowsMembers
  BY DEF Init, UpdaterFollowsMembers, OneUpdater, UpdaterServesMembers, StopFindsUpdater, Alive
<1>2. TypeOK /\ UpdaterFollowsMembers /\ [Next]_vars => UpdaterFollowsMembers'
  <2> SUFFICES ASSUME TypeOK, UpdaterFollowsMembers, [Next]_vars PROVE UpdaterFollowsMembers'
    OBVIOUS
  <2> USE DEF connVars, httpVars, loopVars
  <2>1. ASSUME NEW p \in Player, Connect(p) PROVE UpdaterFollowsMembers'
    BY <2>1, UpdaterFrame DEF Connect, Alive
  <2>2. ASSUME NEW p \in Player, ParkInStandby(p) PROVE UpdaterFollowsMembers'
    BY <2>2, UpdaterFrame DEF ParkInStandby, Alive
  <2>3. ASSUME NEW p \in Player, EnterRoom(p) PROVE UpdaterFollowsMembers'
    BY <2>3, UpdaterFrame DEF EnterRoom, Alive
  <2>4. ASSUME NEW p \in Player, Kick(p) PROVE UpdaterFollowsMembers'
    BY <2>4, UpdaterFrame DEF Kick, Alive
  <2>5. ASSUME NEW p \in Player, Detach(p) PROVE UpdaterFollowsMembers'
    BY <2>5, UpdaterFrame DEF Detach, Alive
  <2>6. ASSUME NEW p \in Player, Fill(p) PROVE UpdaterFollowsMembers'
    BY <2>6, UpdaterFrame DEF Fill, Alive
  <2>7. ASSUME NEW p \in Player, Drain(p) PROVE UpdaterFollowsMembers'
    BY <2>7, UpdaterFrame DEF Drain, Alive
  <2>8. ASSUME NEW p \in Player, Post(p) PROVE UpdaterFollowsMembers'
    BY <2>8, UpdaterFrame DEF Post, Alive
  <2>9. ASSUME NEW p \in Player, Enqueue(p) PROVE UpdaterFollowsMembers'
    BY <2>9, UpdaterFrame DEF Enqueue, Alive
  <2>10. ASSUME NEW p \in Player, Disconnect(p) PROVE UpdaterFollowsMembers'
    BY <2>10, UpdaterFrame DEF Disconnect, Alive
  <2>11. ASSUME NEW p \in Player, TakeReport(p) PROVE UpdaterFollowsMembers'
    BY <2>11, UpdaterFrame DEF TakeReport, Alive
  <2>12. ASSUME NEW i \in Player, NEW p \in Player, LoopOverflow(i, p) PROVE UpdaterFollowsMembers'
    BY <2>12, UpdaterFrame DEF LoopOverflow, Alive, TypeOK
  <2>13. ASSUME NEW p \in Player, RunRegister(p) PROVE UpdaterFollowsMembers'
    <3>1. /\ run = "select" /\ run' \in {"select", "self"}
          /\ updater' /\ members' # {}
      BY <2>13 DEF RunRegister, FanOut
    <3>2. CASE updater
      BY <2>13, <3>1, <3>2 DEF RunRegister, StartUpdater, Alive, UpdaterFollowsMembers,
         OneUpdater, UpdaterServesMembers, StopFindsUpdater
    <3>3. CASE ~updater
      <4>1. \A i \in Player : ~Alive(i)
        BY <3>1, <3>3 DEF UpdaterFollowsMembers, UpdaterServesMembers
      <4>2. \A i \in Player : Alive(i)' <=> i = p
        BY <2>13, <3>3, <4>1 DEF RunRegister, StartUpdater, Alive, TypeOK
      <4>3. QED
        BY <3>1, <4>2 DEF UpdaterFollowsMembers, OneUpdater, UpdaterServesMembers, StopFindsUpdater
    <3>4. QED
      BY <3>2, <3>3
  <2>14. ASSUME NEW p \in Player, RunUnregisterReader(p) PROVE UpdaterFollowsMembers'
    BY <2>14, RemoveKeepsUpdater DEF RunUnregisterReader, Alive
  <2>15. ASSUME NEW p \in Player, RunUnregisterKick(p) PROVE UpdaterFollowsMembers'
    BY <2>15, RemoveKeepsUpdater DEF RunUnregisterKick, Alive
  <2>16. ASSUME NEW p \in Player, RunUnregisterConsumer(p) PROVE UpdaterFollowsMembers'
    BY <2>16, RemoveKeepsUpdater DEF RunUnregisterConsumer, Alive
  <2>17. ASSUME NEW i \in Player, NEW p \in Player, RunUnregisterLoop(i, p) PROVE UpdaterFollowsMembers'
    BY <2>17, RemoveKeepsUpdater DEF RunUnregisterLoop, Alive, TypeOK
  <2>18. ASSUME NEW p \in Player, RunDetach(p) PROVE UpdaterFollowsMembers'
    BY <2>18, RemoveKeepsUpdater DEF RunDetach, Alive
  <2>19. ASSUME NEW p \in Player, RunStop(p) PROVE UpdaterFollowsMembers'
    <3>1. /\ Alive(p) /\ members' = {} /\ ~updater' /\ run' = "select"
      BY <2>19 DEF RunStop, Alive, UpdaterFollowsMembers, StopFindsUpdater
    <3>2. \A i \in Player : ~Alive(i)'
      BY <2>19, <3>1 DEF RunStop, Alive, UpdaterFollowsMembers, OneUpdater, TypeOK
    <3>3. QED
      BY <3>1, <3>2 DEF UpdaterFollowsMembers, OneUpdater, UpdaterServesMembers, StopFindsUpdater
  <2>20. ASSUME NEW p \in Player, RunControl(p) PROVE UpdaterFollowsMembers'
    BY <2>20 DEF RunControl, FanOut, Alive, UpdaterFollowsMembers,
       OneUpdater, UpdaterServesMembers, StopFindsUpdater
  <2>21. ASSUME NEW p \in Player, RunHttpControl(p) PROVE UpdaterFollowsMembers'
    BY <2>21 DEF RunHttpControl, FanOut, Alive, UpdaterFollowsMembers,
       OneUpdater, UpdaterServesMembers, StopFindsUpdater
  <2>22. ASSUME RunBroadcast PROVE UpdaterFollowsMembers'
    BY <2>22 DEF RunBroadcast, FanOut, Alive, UpdaterFollowsMembers,
       OneUpdater, UpdaterServesMembers, StopFindsUpdater
  <2>23. CASE UNCHANGED vars
    BY <2>23, UpdaterFrame DEF vars, Alive
  <2>24. QED
    BY <2>1, <2>2, <2>3, <2>4, <2>5, <2>6, <2>7, <2>8, <2>9, <2>10, <2>11, <2>12,
       <2>13, <2>14, <2>15, <2>16, <2>17, <2>18, <2>19, <2>20, <2>21, <2>22, <2>23,
       HubAssumption
       DEF Next, RunStep, OverflowStep
<1>3. QED
  BY <1>1, <1>2, TypeCorrect, PTL DEF Spec

-----------------------------------------------------------------------------
(* Registered players and their connections. *)

\* A player is registered once, by the handler that pointed it to the room: a
\* parked or admitted player is not yet a member, and a connection nobody
\* opened is nowhere.
MemberInv ==
    /\ MembersAreInRoom
    /\ standby \cap members = {}
    /\ \A p \in Player : join[p] # "none" => p \notin members
    /\ \A p \in Player : join[p] = "register" => inRoom[p]
    /\ \A p \in Player : reader[p] = "off" =>
          join[p] = "none" /\ p \notin members \cup standby \cup detaches

\* Steps that leave the members and the admission of connections alone.
LEMMA MemberFrame ==
    ASSUME MemberInv, members' = members, inRoom' = inRoom, join' = join,
           standby' = standby, detaches' \subseteq detaches,
           \A p \in Player : reader[p]' = "off" => reader[p] = "off"
    PROVE  MemberInv'
BY DEF MemberInv, MembersAreInRoom

\* Taking a player out of the room keeps MemberInv.
LEMMA RemoveKeepsMember ==
    ASSUME MemberInv, NEW q, Remove(q), inRoom' = inRoom, join' = join,
           standby' = standby, detaches' \subseteq detaches,
           \A p \in Player : reader[p]' = "off" => reader[p] = "off"
    PROVE  MemberInv'
<1>1. members' \subseteq members
  BY DEF Remove
<1>2. QED
  BY <1>1 DEF MemberInv, MembersAreInRoom

\* Taking a player out of the room leaves it no member.
LEMMA RemoveRemoves ==
    ASSUME NEW q, Remove(q)
    PROVE  q \notin members' /\ members' \subseteq members
BY DEF Remove

\* MemberInv holds always.
LEMMA MemberInvariant == Spec => []MemberInv
<1>1. Init => MemberInv
  BY DEF Init, MemberInv, MembersAreInRoom
<1>2. TypeOK /\ MemberInv /\ [Next]_vars => MemberInv'
  <2> SUFFICES ASSUME TypeOK, MemberInv, [Next]_vars PROVE MemberInv'
    OBVIOUS
  <2> USE DEF connVars, httpVars, loopVars
  <2>1. ASSUME NEW p \in Player, Connect(p) PROVE MemberInv'
    BY <2>1 DEF Connect, TypeOK, MemberInv, MembersAreInRoom
  <2>2. ASSUME NEW p \in Player, ParkInStandby(p) PROVE MemberInv'
    BY <2>2 DEF ParkInStandby, TypeOK, MemberInv, MembersAreInRoom
  <2>3. ASSUME NEW p \in Player, EnterRoom(p) PROVE MemberInv'
    BY <2>3 DEF EnterRoom, TypeOK, MemberInv, MembersAreInRoom
  <2>4. ASSUME NEW p \in Player, Kick(p) PROVE MemberInv'
    BY <2>4, MemberFrame DEF Kick
  <2>5. ASSUME NEW p \in Player, Detach(p) PROVE MemberInv'
    BY <2>5 DEF Detach, TypeOK, MemberInv, MembersAreInRoom
  <2>6. ASSUME NEW p \in Player, Fill(p) PROVE MemberInv'
    BY <2>6, MemberFrame DEF Fill
  <2>7. ASSUME NEW p \in Player, Drain(p) PROVE MemberInv'
    BY <2>7, MemberFrame DEF Drain
  <2>8. ASSUME NEW p \in Player, Post(p) PROVE MemberInv'
    BY <2>8, MemberFrame DEF Post, TypeOK
  <2>9. ASSUME NEW p \in Player, Enqueue(p) PROVE MemberInv'
    BY <2>9, MemberFrame DEF Enqueue, TypeOK
  <2>10. ASSUME NEW p \in Player, Disconnect(p) PROVE MemberInv'
    BY <2>10, MemberFrame DEF Disconnect, TypeOK
  <2>11. ASSUME NEW p \in Player, TakeReport(p) PROVE MemberInv'
    BY <2>11 DEF TakeReport, TypeOK, MemberInv, MembersAreInRoom
  <2>12. ASSUME NEW p \in Player, NEW i \in Player, LoopOverflow(i, p) PROVE MemberInv'
    BY <2>12, MemberFrame DEF LoopOverflow
  <2>13. ASSUME NEW p \in Player, RunRegister(p) PROVE MemberInv'
    BY <2>13 DEF RunRegister, TypeOK, MemberInv, MembersAreInRoom
  <2>14. ASSUME NEW p \in Player, RunUnregisterReader(p) PROVE MemberInv'
    BY <2>14, RemoveKeepsMember DEF RunUnregisterReader, TypeOK
  <2>15. ASSUME NEW p \in Player, RunUnregisterKick(p) PROVE MemberInv'
    BY <2>15, RemoveKeepsMember DEF RunUnregisterKick
  <2>16. ASSUME NEW p \in Player, RunUnregisterConsumer(p) PROVE MemberInv'
    BY <2>16, RemoveKeepsMember DEF RunUnregisterConsumer
  <2>17. ASSUME NEW i \in Player, NEW p \in Player, RunUnregisterLoop(i, p) PROVE MemberInv'
    BY <2>17, RemoveKeepsMember DEF RunUnregisterLoop
  <2>18. ASSUME NEW p \in Player, RunDetach(p) PROVE MemberInv'
    BY <2>18, RemoveRemoves DEF RunDetach, TypeOK, MemberInv, MembersAreInRoom
  <2>19. ASSUME NEW p \in Player, RunStop(p) PROVE MemberInv'
    BY <2>19, MemberFrame DEF RunStop
  <2>20. ASSUME NEW p \in Player, RunControl(p) PROVE MemberInv'
    BY <2>20, MemberFrame DEF RunControl, TypeOK
  <2>21. ASSUME NEW p \in Player, RunHttpControl(p) PROVE MemberInv'
    BY <2>21, MemberFrame DEF RunHttpControl
  <2>22. ASSUME RunBroadcast PROVE MemberInv'
    BY <2>22, MemberFrame DEF RunBroadcast
  <2>23. CASE UNCHANGED vars
    BY <2>23, MemberFrame DEF vars
  <2>24. QED
    BY <2>1, <2>2, <2>3, <2>4, <2>5, <2>6, <2>7, <2>8, <2>9, <2>10, <2>11, <2>12,
       <2>13, <2>14, <2>15, <2>16, <2>17, <2>18, <2>19, <2>20, <2>21, <2>22, <2>23,
       HubAssumption
       DEF Next, RunStep, OverflowStep
<1>3. QED
  BY <1>1, <1>2, TypeCorrect, PTL DEF Spec

\* A registered player always points back to the room.
THEOREM MembersSafe == Spec => []MembersAreInRoom
<1>1. MemberInv => MembersAreInRoom
  BY DEF MemberInv
<1>2. QED
  BY <1>1, MemberInvariant, PTL

\* So at every moment the types hold, one update loop follows the players, and
\* each of them points back to the room.
THEOREM HubSound == Spec => []HubIsSound
BY TypeCorrect, UpdaterSafe, MembersSafe, PTL DEF HubIsSound

\* The end of a connection leaves no ghost: only a registration taken after the
\* reader left makes one.
THEOREM GhostsAreLateRegistrations == Spec => GhostOnlyByLateRegistration
<1> DEFINE Late(p) == ~Ghost(p) /\ Ghost(p)' => join[p] = "register" /\ join'[p] = "none"
<1>1. TypeOK /\ MemberInv /\ [Next]_vars => [\A p \in Player : Late(p)]_vars
  <2> SUFFICES ASSUME TypeOK, MemberInv, Next, NEW p \in Player, ~Ghost(p), Ghost(p)'
               PROVE  join[p] = "register" /\ join'[p] = "none"
    OBVIOUS
  <2> USE DEF Ghost, connVars, httpVars, loopVars
  <2>1. CASE p \notin members
    <3>1. PICK q \in Player : RunRegister(q) /\ q = p
      BY <2>1, HubAssumption, RemoveRemoves DEF Next, RunStep, OverflowStep, Connect, ParkInStandby, EnterRoom,
         Kick, Detach, Fill, Drain, Post, Enqueue, Disconnect, TakeReport, LoopOverflow,
         RunRegister, RunUnregisterReader, RunUnregisterKick, RunUnregisterConsumer,
         RunUnregisterLoop, RunDetach, RunStop, RunControl, RunHttpControl, RunBroadcast
    <3>2. QED
      BY <3>1 DEF RunRegister, TypeOK
  <2>2. CASE p \in members
    <3>1. /\ reader[p] \notin {"report", "done"}
          /\ reader'[p] \in {"report", "done"} /\ p \in members' /\ inRoom[p]
      BY <2>2 DEF MemberInv, MembersAreInRoom
    <3>2. ASSUME NEW q \in Player, Disconnect(q) PROVE FALSE
      BY <3>1, <3>2 DEF Disconnect, TypeOK
    <3>3. ASSUME NEW q \in Player, RunUnregisterReader(q) PROVE FALSE
      BY <3>1, <3>3, RemoveRemoves DEF RunUnregisterReader, TypeOK
    <3>4. ASSUME NEW q \in Player, TakeReport(q) PROVE FALSE
      BY <3>1, <3>4 DEF TakeReport, TypeOK
    <3>5. ASSUME NEW q \in Player, Connect(q) \/ Post(q) \/ Enqueue(q) \/ RunControl(q)
          PROVE  FALSE
      BY <3>1, <3>5 DEF Connect, Post, Enqueue, RunControl, TypeOK
    <3>6. QED
      BY <3>1, <3>2, <3>3, <3>4, <3>5, HubAssumption DEF Next, RunStep, OverflowStep, ParkInStandby, EnterRoom,
         Kick, Detach, Fill, Drain, LoopOverflow, RunRegister, RunUnregisterKick,
         RunUnregisterConsumer, RunUnregisterLoop, RunDetach, RunStop,
         RunHttpControl, RunBroadcast
  <2>3. QED
    BY <2>1, <2>2
<1>2. QED
  BY <1>1, TypeCorrect, MemberInvariant, PTL DEF Spec, GhostOnlyByLateRegistration

-----------------------------------------------------------------------------
(* Snapshots. *)

AskTypes ==
    /\ seated \subseteq Participant /\ asked \subseteq Participant
    /\ waitSnap \in [Participant -> BOOLEAN] /\ crossed \in BOOLEAN
    /\ snapper \in [Participant -> [step : {"none", "reads", "resets", "posts"},
                                    todo : SUBSET Participant]]

\* The reader in CheckSnapShot is alone, and knows of all who are there ...
OnlyReader(p) ==
    /\ \A r \in Participant : snapper[r].step # "none" => r = p
    /\ snapper[p].step = "reads" => seated \subseteq snapper[p].todo

\* ... and once it has seen all flags all have asked, and the flags still set are
\* those it has yet to reset.
AllAsked(p) ==
    /\ snapper[p].step \in {"resets", "posts"} => seated \subseteq asked
    /\ snapper[p].step = "resets" =>
          \A r \in Participant : waitSnap[r] => r \in snapper[p].todo
    /\ snapper[p].step = "posts" => \A r \in Participant : ~waitSnap[r]

\* As long as no two checks cross, a flag is that of a participant that asked.
AskInv ==
    ~crossed =>
        /\ \A r \in Participant : waitSnap[r] => r \in asked \cap seated
        /\ \A p \in Participant : snapper[p].step # "none" => OnlyReader(p) /\ AllAsked(p)

LEMMA AskInit == BoardInit => AskTypes /\ AskInv
<1> SUFFICES ASSUME EmptyBoard, seated \in SUBSET Participant PROVE AskTypes /\ AskInv
  BY DEF BoardInit
<1>1. \A p \in Participant : ~waitSnap[p] /\ snapper[p].step = "none"
  BY DEF EmptyBoard, NoCheck
<1>2. AskInv
  BY <1>1 DEF AskInv
<1>3. AskTypes
  BY DEF EmptyBoard, NoCheck, AskTypes
<1>4. QED
  BY <1>2, <1>3

\* Every step of a reader keeps it, and so do joins, leaves and Run's answer.
LEMMA AskStep == AskTypes /\ AskInv /\ [BoardNext]_boardVars => AskTypes' /\ AskInv'
<1> SUFFICES ASSUME AskTypes, AskInv, [BoardNext]_boardVars PROVE AskTypes' /\ AskInv'
  OBVIOUS
<1> USE DEF AskTypes, AskInv, OnlyReader, AllAsked
<1>1. ASSUME UNCHANGED <<seated, waitSnap, snapper, asked, crossed>> PROVE AskTypes' /\ AskInv'
  BY <1>1
<1>2. ASSUME NEW p \in Participant, AsksSnapshot(p) PROVE AskTypes' /\ AskInv'
  <2>1. AskTypes'
    BY <1>2 DEF AsksSnapshot
  <2>2. CASE \E r \in Participant : snapper[r].step # "none"
    BY <1>2, <2>1, <2>2 DEF AsksSnapshot
  <2>3. CASE \A r \in Participant : snapper[r].step = "none"
    <3>1. \A r \in Participant : /\ snapper'[r].step # "none" => r = p
                                 /\ waitSnap'[r] => waitSnap[r] \/ r = p
      BY <1>2, <2>3 DEF AsksSnapshot
    <3>2. snapper'[p].step = "reads" /\ snapper'[p].todo = seated /\ seated' = seated
      BY <1>2 DEF AsksSnapshot
    <3>3. crossed' = crossed /\ asked' = asked \cup {p} /\ p \in seated
      BY <1>2, <2>3 DEF AsksSnapshot
    <3>4. QED
      BY <2>1, <3>1, <3>2, <3>3
  <2>4. QED
    BY <2>2, <2>3
<1>3. ASSUME NEW p \in Participant, SeesAll(p) PROVE AskTypes' /\ AskInv'
  BY <1>3 DEF SeesAll
<1>4. ASSUME NEW p \in Participant, MissesOne(p) PROVE AskTypes' /\ AskInv'
  BY <1>4 DEF MissesOne, NoCheck
<1>5. ASSUME NEW p \in Participant, NEW r \in Participant, ResetsFlag(p, r)
      PROVE AskTypes' /\ AskInv'
  <2>1. /\ snapper[p].step = "resets" /\ UNCHANGED <<seated, asked, crossed>>
        /\ waitSnap' = [waitSnap EXCEPT ![r] = FALSE]
    BY <1>5 DEF ResetsFlag
  <2>2. CASE snapper[p].todo = {r}
    <3>1. snapper' = [snapper EXCEPT ![p] = [step |-> "posts", todo |-> {}]]
      BY <1>5, <2>2 DEF ResetsFlag
    <3>2. AskTypes'
      BY <2>1, <3>1
    <3>3. \A q \in Participant \ {r} : ~crossed => ~waitSnap[q]
      BY <2>1, <2>2
    <3>4. \A q \in Participant : snapper'[q].step # "none" => snapper[q].step # "none"
      BY <2>1, <3>1
    <3>5. \A q \in Participant : ~crossed => ~waitSnap'[q]
      BY <2>1, <3>3
    <3>6. snapper'[p].step = "posts" /\ \A q \in Participant \ {p} : snapper'[q] = snapper[q]
      BY <3>1
    <3>7. QED
      BY <2>1, <3>2, <3>4, <3>5, <3>6
  <2>3. CASE snapper[p].todo # {r}
    <3>1. snapper' = [snapper EXCEPT ![p] = [step |-> "resets", todo |-> snapper[p].todo \ {r}]]
      BY <1>5, <2>3 DEF ResetsFlag
    <3>2. AskTypes'
      BY <2>1, <3>1
    <3>3. /\ snapper'[p].step = "resets" /\ snapper'[p].todo = snapper[p].todo \ {r}
          /\ \A q \in Participant \ {p} : snapper'[q] = snapper[q]
      BY <3>1
    <3>4. \A q \in Participant : waitSnap'[q] => waitSnap[q] /\ q # r
      BY <2>1
    <3>5. QED
      BY <2>1, <3>2, <3>3, <3>4
  <2>4. QED
    BY <2>2, <2>3
<1>6. ASSUME NEW p \in Participant, SnapshotTaken(p) PROVE AskTypes' /\ AskInv'
  BY <1>6 DEF SnapshotTaken, NoCheck
<1>7. ASSUME NEW p \in Participant, Sits(p) PROVE AskTypes' /\ AskInv'
  BY <1>7 DEF Sits
<1>8. ASSUME NEW p \in Participant, LeavesSeat(p) PROVE AskTypes' /\ AskInv'
  BY <1>8 DEF LeavesSeat
<1>9. CASE UNCHANGED boardVars
  BY <1>1, <1>9 DEF boardVars, askVars
<1>10. CASE BoardNext
  <2>1. CASE \E p \in Participant :
                \/ \E q \in Question, c \in Choice : Stores(p, q, c)
                \/ Marks(p) \/ SetsCurrent(p) \/ Tells(p)
    BY <1>1, <2>1 DEF Stores, Marks, SetsCurrent, Tells, askVars
  <2>2. CASE \/ Composes \/ TakesMarkOff \/ ActivityStarts \/ ActivityEnds
             \/ \E caller \in Caller : FlushEnds(caller)
    BY <1>1, <2>2 DEF Composes, TakesMarkOff, FlushEnds, ActivityStarts, ActivityEnds, askVars
  <2>3. QED
    BY <1>2, <1>3, <1>4, <1>5, <1>6, <1>7, <1>8, <1>10, <2>1, <2>2 DEF BoardNext
<1>11. QED
  BY <1>9, <1>10

\* A snapshot is taken only when all participants of the room have asked for one since
\* the last, or two readers were checking at the same time.
THEOREM SnapshotsNeedAll == BoardSpec => SnapshotNeedsAll
<1> DEFINE Taken(p) == snapper[p].step = "posts" /\ snapper'[p].step = "none"
                          => seated \subseteq asked \/ crossed
<1>1. AskTypes /\ AskInv /\ [BoardNext]_boardVars => [\A p \in Participant : Taken(p)]_boardVars
  BY DEF AskTypes, AskInv, OnlyReader, AllAsked
<1>2. QED
  BY <1>1, AskInit, AskStep, PTL DEF BoardSpec, SnapshotNeedsAll

-----------------------------------------------------------------------------
(* The answers on the board. *)

IsOn(p, q) == Answering(p) /\ answerer[p].question = q

\* The types, and what they rest on: an answer is to a question.
BoardTypes == BoardTypeOK /\ \A p \in Participant : Answering(p) => answerer[p].question \in Question

\* While an answer to a question that is not mixed is under way, the board is neither told
\* nor emptied, nothing else is answered, and a mark that was set is still there.
AnsweredAlone ==
    \A p \in Participant : Answering(p) /\ answerer[p].question \notin mixed =>
        /\ ~Telling /\ emptying = {}
        /\ \A r \in Participant : Answering(r) => answerer[r].question = answerer[p].question
        /\ answerer[p].step = "marked" => dirty

\* What is on a board that is being emptied was answered meanwhile.
EmptiedFirst == emptying # {} => \A q \in Question \ mixed : answers[q] = NoAnswers

ToldAsAnswered ==
    Telling /\ teller.question \notin mixed =>
        answers[teller.question] \in {NoAnswers, teller.sheet}

Shown(p, q) ==
    \/ <<p, q>> \in newcomer \/ heard[p][q] = answers[q]
    \/ teller.question = q /\ p \in teller.todo

\* The answers to a question are about to be told, being told or told.
WillBeShown(q) ==
    answers[q] # NoAnswers =>
        \/ \E p \in Participant : IsOn(p, q)
        \/ dirty /\ current = q /\ ~Telling
        \/ \A p \in seated : Shown(p, q)

BoardInv ==
    /\ AnsweredAlone /\ EmptiedFirst /\ ToldAsAnswered
    /\ \A q \in Question \ mixed : WillBeShown(q)

\* An empty board shows all there is.
LEMMA BoardStart == BoardInit => BoardTypes /\ BoardInv
<1> SUFFICES ASSUME BoardInit PROVE BoardTypes /\ BoardInv
  OBVIOUS
<1> USE BoardAssumption DEF BoardInit, EmptyBoard, Answering, Telling
<1>1. NoAnswers \in Sheet
  BY DEF NoAnswers, Sheet
<1>2. \A p \in Participant : answerer[p].step = "none"
  BY DEF NoReader
<1>3. teller.question = NoQuestion
  BY DEF Silent
<1>4. BoardTypeOK
  <2>1. /\ NoReader \in [step : {"none", "stored", "marked"}, question : Question \cup {NoQuestion}]
        /\ NoCheck \in [step : {"none", "reads", "resets", "posts"}, todo : SUBSET Participant]
        /\ Silent \in [question : Question \cup {NoQuestion}, sheet : Sheet,
                       todo : SUBSET Participant]
    BY <1>1 DEF NoReader, NoCheck, Silent
  <2>2. left \in [answers : 0..MaxAnswers, snaps : 0..MaxSnapshots, changes : 0..MaxChanges]
    OBVIOUS
  <2>3. QED
    BY <1>1, <2>1, <2>2 DEF BoardTypeOK
<1>5. BoardInv
  BY <1>2, <1>3 DEF BoardInv, AnsweredAlone, EmptiedFirst, ToldAsAnswered, WillBeShown
<1>6. QED
  BY <1>2, <1>4, <1>5 DEF BoardTypes

\* What is left of a bound.
LEMMA LeftStep ==
    ASSUME left \in [answers : 0..MaxAnswers, snaps : 0..MaxSnapshots, changes : 0..MaxChanges]
    PROVE  LET Left == [answers : 0..MaxAnswers, snaps : 0..MaxSnapshots, changes : 0..MaxChanges]
           IN  /\ left.answers > 0 => [left EXCEPT !.answers = @ - 1] \in Left
               /\ left.snaps > 0 => [left EXCEPT !.snaps = @ - 1] \in Left
               /\ left.changes > 0 => [left EXCEPT !.changes = @ - 1] \in Left
<1> USE BoardAssumption
<1>1. left.answers > 0 => left.answers - 1 \in 0..MaxAnswers
  OBVIOUS
<1>2. left.snaps > 0 => left.snaps - 1 \in 0..MaxSnapshots
  OBVIOUS
<1>3. left.changes > 0 => left.changes - 1 \in 0..MaxChanges
  OBVIOUS
<1>4. QED
  BY <1>1, <1>2, <1>3

\* Every step of the board keeps the types.
LEMMA BoardTypesStep == BoardTypes /\ [BoardNext]_boardVars => BoardTypes'
<1> SUFFICES ASSUME BoardTypes, [BoardNext]_boardVars PROVE BoardTypes'
  OBVIOUS
<1> USE BoardAssumption
<1> USE DEF BoardTypes, BoardTypeOK, Answering, Telling, askVars, qaVars
<1>0. NoAnswers \in Sheet
  BY DEF NoAnswers, Sheet
<1>1. ASSUME NEW p \in Participant, NEW q \in Question, NEW c \in Choice, Stores(p, q, c)
      PROVE BoardTypes'
  <2>1. Mixes(q) \subseteq Question
    BY DEF Mixes
  <2>2. [answers[q] EXCEPT ![p] = c] \in Sheet
    BY DEF Sheet
  <2>3. answers' \in [Question -> Sheet] /\ mixed' \subseteq Question
    BY <1>1, <2>1, <2>2 DEF Stores
  <2>4. /\ answerer' = [answerer EXCEPT ![p] = [step |-> "stored", question |-> q]]
        /\ UNCHANGED <<seated, playing, newcomer, current, dirty, teller, emptying, heard, askVars>>
    BY <1>1 DEF Stores
  <2>5. left' \in [answers : 0..MaxAnswers, snaps : 0..MaxSnapshots, changes : 0..MaxChanges]
    BY <1>1, LeftStep DEF Stores
  <2>6. QED
    BY <2>3, <2>4, <2>5
<1>2. ASSUME NEW p \in Participant, Marks(p) PROVE BoardTypes'
  BY <1>2 DEF Marks
<1>3. ASSUME NEW p \in Participant, SetsCurrent(p) PROVE BoardTypes'
  BY <1>3 DEF SetsCurrent, NoReader
<1>4. ASSUME NEW p \in Participant, Tells(p) PROVE BoardTypes'
  BY <1>4 DEF Tells
<1>5. ASSUME NEW p \in Participant, Sits(p) PROVE BoardTypes'
  BY <1>5 DEF Sits
<1>6. ASSUME NEW p \in Participant, LeavesSeat(p) PROVE BoardTypes'
  BY <1>0, <1>6 DEF LeavesSeat, Emptied, Midway, Caller
<1>7. ASSUME NEW p \in Participant, AsksSnapshot(p) PROVE BoardTypes'
  BY <1>7, LeftStep DEF AsksSnapshot
<1>8. ASSUME NEW p \in Participant, SeesAll(p) PROVE BoardTypes'
  BY <1>8 DEF SeesAll
<1>9. ASSUME NEW p \in Participant, MissesOne(p) PROVE BoardTypes'
  BY <1>9 DEF MissesOne, NoCheck
<1>10. ASSUME NEW p \in Participant, SnapshotTaken(p) PROVE BoardTypes'
  BY <1>0, <1>10 DEF SnapshotTaken, Emptied, Midway, Caller, NoCheck
<1>11. ASSUME NEW p \in Participant, NEW r \in Participant, ResetsFlag(p, r) PROVE BoardTypes'
  BY <1>11 DEF ResetsFlag
<1>12. CASE Composes
  BY <1>12 DEF Composes
<1>13. CASE TakesMarkOff
  BY <1>0, <1>13 DEF TakesMarkOff, Silent
<1>14. CASE ActivityStarts
  BY <1>0, <1>14, LeftStep DEF ActivityStarts, Emptied, Midway, Caller
<1>15. CASE ActivityEnds
  <2>1. /\ left' = [left EXCEPT !.changes = @ - 1] /\ left.changes > 0 /\ playing' = FALSE
        /\ Emptied("end") /\ UNCHANGED <<seated, newcomer, askVars>>
    BY <1>15 DEF ActivityEnds
  <2>2. left' \in [answers : 0..MaxAnswers, snaps : 0..MaxSnapshots, changes : 0..MaxChanges]
    BY <2>1, LeftStep
  <2>3. QED
    <3>1. /\ answers' \in [Question -> Sheet] /\ mixed' \subseteq Question
          /\ emptying' \subseteq Caller /\ UNCHANGED <<current, dirty, answerer, teller, heard>>
      BY <1>0, <2>1 DEF Emptied, Midway, Caller
    <3>2. QED
      BY <2>1, <2>2, <3>1
<1>16. ASSUME NEW caller \in Caller, FlushEnds(caller) PROVE BoardTypes'
  <2>1. mixed' \subseteq Question
    BY <1>16 DEF FlushEnds, Midway
  <2>2. playing' \in BOOLEAN
    BY <1>16 DEF FlushEnds
  <2>3. QED
    BY <1>16, <2>1, <2>2 DEF FlushEnds
<1>17. CASE UNCHANGED boardVars
  BY <1>17 DEF boardVars
<1>18. QED
  BY <1>1, <1>2, <1>3, <1>4, <1>5, <1>6, <1>7, <1>8, <1>9, <1>10, <1>11, <1>12, <1>13,
     <1>14, <1>15, <1>16, <1>17 DEF BoardNext

\* Every step of the board keeps what is known of the answers.
LEMMA BoardStep == BoardTypes /\ BoardTypes' /\ BoardInv /\ [BoardNext]_boardVars => BoardInv'
<1> SUFFICES ASSUME BoardTypes, BoardTypes', BoardInv, [BoardNext]_boardVars PROVE BoardInv'
  OBVIOUS
<1> USE BoardAssumption
<1> USE DEF BoardTypes, BoardTypeOK, Answering, Telling, askVars, qaVars, BoardInv, AnsweredAlone,
            EmptiedFirst, ToldAsAnswered, Shown, WillBeShown, IsOn
<1>1. ASSUME NEW p \in Participant, NEW q \in Question, NEW c \in Choice, Stores(p, q, c)
      PROVE BoardInv'
  <2>1. /\ ~Answering(p) /\ answers' = [answers EXCEPT ![q][p] = c]
        /\ answerer' = [answerer EXCEPT ![p] = [step |-> "stored", question |-> q]]
        /\ mixed' = mixed \cup Mixes(q)
        /\ UNCHANGED <<seated, playing, newcomer, current, dirty, teller, emptying, heard, askVars>>
    BY <1>1 DEF Stores
  <2>2. \A r \in Participant : Answering(r) /\ answerer[r].question # q =>
            q \in mixed' /\ answerer[r].question \in mixed'
    <3>1. SUFFICES ASSUME NEW r \in Participant, Answering(r), answerer[r].question # q
                   PROVE  q \in Mixes(q) /\ answerer[r].question \in Mixes(q)
      BY <2>1
    <3>2. answerer[r].question \in
            {answerer[x].question : x \in {y \in Participant : Answering(y)}} \ {q}
      BY <3>1
    <3>3. QED
      BY <3>2 DEF Mixes
  <2>3. Telling \/ emptying # {} => q \in mixed'
    BY <2>1 DEF Mixes
  <2>4. /\ \A r \in Participant : r # p => answerer'[r] = answerer[r]
        /\ answerer'[p].step = "stored" /\ answerer'[p].question = q
    BY <2>1
  <2>5. \A x \in Question : x # q => answers'[x] = answers[x]
    BY <2>1
  <2>6. AnsweredAlone'
    BY <2>1, <2>2, <2>3, <2>4
  <2>7. EmptiedFirst' /\ ToldAsAnswered'
    BY <2>1, <2>3, <2>5
  <2>8. ASSUME NEW x \in Question \ mixed' PROVE WillBeShown(x)'
    <3>1. CASE x = q
      BY <2>4, <3>1
    <3>2. CASE x # q
      BY <2>1, <2>4, <2>5, <3>2
    <3>3. QED
      BY <3>1, <3>2
  <2>9. QED
    BY <2>6, <2>7, <2>8
<1>2. ASSUME NEW p \in Participant, Marks(p) PROVE BoardInv'
  <2>1. /\ Answering(p) /\ dirty' = TRUE
        /\ answerer' = [answerer EXCEPT ![p].step = "marked"]
        /\ UNCHANGED <<seated, playing, newcomer, answers, current, teller, emptying, heard, mixed>>
    BY <1>2 DEF Marks
  <2>2. \A r \in Participant : /\ answerer'[r].question = answerer[r].question
                               /\ Answering(r)' <=> Answering(r)
    BY <2>1
  <2>3. AnsweredAlone'
    BY <2>1, <2>2
  <2>4. \A x \in Question \ mixed : WillBeShown(x)'
    BY <2>1, <2>2
  <2>5. QED
    BY <2>1, <2>3, <2>4
<1>3. ASSUME NEW p \in Participant, SetsCurrent(p) PROVE BoardInv'
  <2>1. /\ answerer[p].step = "marked" /\ current' = answerer[p].question
        /\ mixed \subseteq mixed'
        /\ current # NoQuestion /\ current # current' => current \in mixed'
        /\ UNCHANGED <<seated, playing, newcomer, answers, dirty, teller, emptying, heard>>
    BY <1>3 DEF SetsCurrent
  <2>2. /\ \A r \in Participant : r # p => answerer'[r] = answerer[r]
        /\ answerer'[p].step = "none"
    BY <1>3 DEF SetsCurrent, NoReader
  <2>3. \A r \in Participant : Answering(r)' => Answering(r) /\ answerer'[r] = answerer[r]
    BY <2>2
  <2>4. AnsweredAlone'
    BY <2>1, <2>3
  <2>5. EmptiedFirst' /\ ToldAsAnswered'
    BY <2>1
  <2>6. ASSUME NEW x \in Question \ mixed' PROVE WillBeShown(x)'
    <3>1. CASE IsOn(p, x)
      BY <2>1, <3>1
    <3>2. CASE ~IsOn(p, x)
      <4>1. \A r \in Participant : IsOn(r, x) => IsOn(r, x)'
        BY <2>2, <3>2
      <4>2. dirty /\ current = x /\ ~Telling => current' = x
        BY <2>1
      <4>3. QED
        BY <2>1, <4>1, <4>2
    <3>3. QED
      BY <3>1, <3>2
  <2>7. QED
    BY <2>4, <2>5, <2>6
<1>4. ASSUME NEW p \in Participant, Tells(p) PROVE BoardInv'
  <2>1. /\ Telling /\ teller' = [teller EXCEPT !.todo = @ \ {p}]
        /\ heard' = [heard EXCEPT ![p][teller.question] = teller.sheet]
        /\ UNCHANGED <<seated, playing, newcomer, answers, current, dirty, answerer, emptying, mixed>>
    BY <1>4 DEF Tells
  <2>2. /\ teller'.question = teller.question /\ teller'.sheet = teller.sheet
        /\ teller'.todo = teller.todo \ {p} /\ teller.question \in Question
    BY <2>1
  <2>3. AnsweredAlone' /\ EmptiedFirst' /\ ToldAsAnswered'
    BY <2>1, <2>2
  <2>4. ASSUME NEW x \in Question \ mixed, answers[x] # NoAnswers, NEW r \in seated, Shown(r, x)
        PROVE  Shown(r, x)'
    <3>1. heard'[p][teller.question] = teller.sheet
      BY <2>1, <2>2
    <3>2. ~(r = p /\ x = teller.question) => heard'[r][x] = heard[r][x]
      BY <2>1, <2>2
    <3>3. QED
      BY <2>1, <2>2, <2>4, <3>1, <3>2
  <2>5. ASSUME NEW x \in Question \ mixed' PROVE WillBeShown(x)'
    <3>1. CASE \E r \in Participant : IsOn(r, x)
      BY <2>1, <3>1
    <3>2. CASE ~\E r \in Participant : IsOn(r, x)
      BY <2>1, <2>4, <3>2
    <3>3. QED
      BY <3>1, <3>2
  <2>6. QED
    BY <2>3, <2>5
<1>5. ASSUME NEW p \in Participant, Sits(p) PROVE BoardInv'
  BY <1>5 DEF Sits
<1>6. ASSUME NEW p \in Participant, LeavesSeat(p) PROVE BoardInv'
  BY <1>6 DEF LeavesSeat, Emptied, Midway, Caller
<1>10. ASSUME NEW p \in Participant, SnapshotTaken(p) PROVE BoardInv'
  <2>1. CASE playing
    <3>1. UNCHANGED <<seated, newcomer, qaVars>>
      BY <1>10, <2>1 DEF SnapshotTaken
    <3>2. QED
      BY <3>1
  <2>2. CASE ~playing
    BY <1>10, <2>2 DEF SnapshotTaken, Emptied, Midway
  <2>3. QED
    BY <2>1, <2>2
<1>12. CASE Composes
  <2>1. /\ ~Telling /\ current # NoQuestion
        /\ teller' = [question |-> current, sheet |-> answers[current], todo |-> seated]
        /\ newcomer' = newcomer \ (seated \X {current})
        /\ mixed \ {current} \subseteq mixed'
        /\ emptying # {} => current \in mixed'
        /\ \A r \in Participant : Answering(r) => answerer[r].question \in mixed'
        /\ UNCHANGED <<seated, playing, answers, current, dirty, answerer, emptying, heard>>
    BY <1>12 DEF Composes
  <2>2. current \in Question /\ teller'.question = current /\ teller'.todo = seated
        /\ teller'.sheet = answers[current]
    BY <2>1
  <2>3. AnsweredAlone' /\ EmptiedFirst' /\ ToldAsAnswered'
    BY <2>1, <2>2
  <2>4. ASSUME NEW x \in Question \ mixed' PROVE WillBeShown(x)'
    <3>1. CASE x = current
      BY <2>1, <2>2, <3>1
    <3>2. CASE x # current
      <4>1. x \notin mixed /\ \A r \in seated : <<r, x>> \in newcomer => <<r, x>> \in newcomer'
        BY <2>1, <3>2
      <4>2. \A r \in seated : Shown(r, x) => Shown(r, x)'
        BY <2>1, <4>1
      <4>3. QED
        BY <2>1, <3>2, <4>1, <4>2
    <3>3. QED
      BY <3>1, <3>2
  <2>5. QED
    BY <2>3, <2>4
<1>13. CASE TakesMarkOff
  BY <1>13 DEF TakesMarkOff, Silent
<1>14. CASE ActivityStarts \/ ActivityEnds
  BY <1>14 DEF ActivityStarts, ActivityEnds, Emptied, Midway, Caller
<1>16. ASSUME NEW caller \in Caller, FlushEnds(caller) PROVE BoardInv'
  BY <1>16 DEF FlushEnds, Midway
<1>17. CASE UNCHANGED <<seated, newcomer, qaVars>>
  BY <1>17
<1>18. QED
  BY <1>1, <1>2, <1>3, <1>4, <1>5, <1>6, <1>10, <1>12, <1>13, <1>14, <1>16, <1>17
     DEF BoardNext, AsksSnapshot, SeesAll, MissesOne, ResetsFlag, boardVars

\* All players that were there have been told all answers when the mark is off and nothing
\* is under way, whatever the order of the readers, of UpdateInfo and of the calls that
\* empty the board, except to questions that are mixed.
THEOREM BoardSound == BoardSpec => []BoardIsSound
<1>1. BoardTypes /\ BoardInv => BoardIsSound
  <2> SUFFICES ASSUME BoardTypes, BoardInv, ~dirty, ~Telling, emptying = {},
                      \A p \in Participant : ~Answering(p),
                      NEW q \in Question \ mixed, answers[q] # NoAnswers, NEW p \in seated
               PROVE  <<p, q>> \in newcomer \/ heard[p][q] = answers[q]
    BY DEF BoardIsSound, BoardTypes, AnswersAreShown
  <2> QED
    BY BoardAssumption DEF BoardInv, WillBeShown, Shown, IsOn, Telling
<1>2. QED
  BY <1>1, BoardStart, BoardTypesStep, BoardStep, PTL DEF BoardSpec

-----------------------------------------------------------------------------
(* Movements. *)

\* The types, and what they rest on: nobody speaks or checks beyond the last stage.
BarrierTypes ==
    /\ BarrierTypeOK
    /\ \A g \in Guest :
          /\ said[g].stage <= TopStage /\ checker[g].from <= TopStage /\ spot[g] >= 1
          /\ checker[g].posts => g \notin hidden
          /\ told[g].force => told[g].dest >= 1
    /\ giving.force => giving.dest >= 1

\* q has said that it is ready to leave stage s, and its reader has told everybody ...
IsReady(q, s) == spot[q] = s /\ wish[q] = "move" /\ said[q] = Nothing
Declared(q, s) == IsReady(q, s) /\ q \notin hidden

\* ... or it is beyond.
MayLeave(q, s) == spot[q] > s \/ Declared(q, s)

\* What is known of a player whose messages, flags and movements are its own: that it
\* is ready where its flag says so, and may leave from wherever it is sent away.
FlagIsTrue(q) ==
    /\ stage[q] <= spot[q]
    /\ ready[q] => Declared(q, stage[q])
    /\ said[q].kind = "move" => spot[q] = said[q].stage /\ wish[q] = "move"
    /\ q \in hidden => IsReady(q, checker[q].from)
    /\ checker[q].kind = "move" => spot[q] > checker[q].from \/ IsReady(q, checker[q].from)

SentWhenReady(q) ==
    /\ ~told[q].force
    /\ told[q].dest > spot[q] => ~ready[q] /\ Declared(q, told[q].dest - 1)
    /\ giving.kind = "move" /\ q \in giving.todo =>
          ~giving.force /\ MayLeave(q, giving.dest - 1)

\* What a check has found of it.
SeenReady(q, c) ==
    checker[c].kind = "move" /\ q \in present =>
        /\ checker[c].posts => q \notin checker[c].unread
        /\ q # c /\ q \notin checker[c].unread => MayLeave(q, checker[c].from)

MoveInv ==
    \A q \in Guest \ (odd \cup gone) :
        FlagIsTrue(q) /\ SentWhenReady(q) /\ \A c \in Guest : SeenReady(q, c)

LEMMA BarrierTypesInit == BarrierInit => BarrierTypes
<1> SUFFICES ASSUME BarrierInit PROVE BarrierTypes
  OBVIOUS
<1> USE BarrierAssumption DEF BarrierInit, StillBarrier, BarrierTypes, BarrierTypeOK, Spot, Kind
<1>1. present \subseteq Guest /\ gone \subseteq Guest /\ odd \subseteq Guest /\ unsure \in BOOLEAN
  OBVIOUS
<1>2. /\ stage \in [Guest -> Spot] /\ ready \in [Guest -> BOOLEAN] /\ spot \in [Guest -> Spot]
      /\ wish \in [Guest -> Kind \cup {"none"}]
  OBVIOUS
<1>3. /\ Idle \in [kind : Kind \cup {"none"}, from : Spot, posts : BOOLEAN, unread : SUBSET Guest]
      /\ Nothing \in [kind : Kind \cup {"none"}, stage : Spot]
      /\ NoMove \in [dest : Spot, force : BOOLEAN]
      /\ NoCommand \in [kind : Kind \cup {"none"}, dest : Spot, force : BOOLEAN, todo : SUBSET Guest]
  BY DEF Idle, Nothing, NoMove, NoCommand
<1>4. bound \in [top : {1, TopStage}, forced : 0..MaxForced]
  OBVIOUS
<1>5. \A g \in Guest : /\ said[g].stage <= TopStage /\ checker[g].from <= TopStage
                       /\ spot[g] >= 1 /\ ~checker[g].posts /\ ~told[g].force
  BY DEF Idle, Nothing, NoMove
<1>6. ~giving.force
  BY DEF NoCommand
<1>7. QED
  BY <1>1, <1>2, <1>3, <1>4, <1>5, <1>6

\* What a reader has written becomes visible.
LEMMA PublishedTypes ==
    ASSUME BarrierTypes, NEW g \in Guest, Published(g)
    PROVE  stage' \in [Guest -> Spot] /\ ready' \in [Guest -> BOOLEAN] /\ hidden' = hidden \ {g}
<1> USE DEF BarrierTypes, BarrierTypeOK
<1>1. CASE g \in hidden
  <2>1. checker[g].from \in Spot /\ (checker[g].from > 0) \in BOOLEAN
    BY DEF Spot
  <2>2. /\ stage' = [stage EXCEPT ![g] = checker[g].from] /\ hidden' = hidden \ {g}
        /\ ready' = [ready EXCEPT ![g] = checker[g].from > 0]
    BY <1>1 DEF Published
  <2>3. PICK b \in BOOLEAN : ready' = [ready EXCEPT ![g] = b]
    BY <2>1, <2>2, Zenon
  <2>4. QED
    BY <2>1, <2>2, <2>3
<1>2. CASE g \notin hidden
  BY <1>2 DEF Published
<1>3. QED
  BY <1>1, <1>2

LEMMA ThenTypes ==
    ASSUME NEW old \in [dest : Spot, force : BOOLEAN], NEW d \in Spot, NEW force \in BOOLEAN,
           TopStage \in Nat, old.force => old.dest >= 1, force => d >= 1
    PROVE  /\ Then(old, d, force) \in [dest : Spot, force : BOOLEAN]
           /\ Then(old, d, force).force => Then(old, d, force).dest >= 1
BY DEF Then, Spot

\* Where a reader stands, and how it goes on.
Checker == [kind : Kind \cup {"none"}, from : Spot, posts : BOOLEAN, unread : SUBSET Guest]

LEMMA CheckerPosts ==
    ASSUME NEW r \in Checker, NEW b
    PROVE  [r EXCEPT !.posts = b] =
              [kind |-> r.kind, from |-> r.from, posts |-> b, unread |-> r.unread]
BY DEF Checker

LEMMA CheckerUnread ==
    ASSUME NEW r \in Checker, NEW U
    PROVE  [r EXCEPT !.unread = U] =
              [kind |-> r.kind, from |-> r.from, posts |-> r.posts, unread |-> U]
BY DEF Checker

LEMMA BoundStep ==
    ASSUME bound \in [top : {1, TopStage}, forced : 0..MaxForced], bound.forced > 0,
           MaxForced \in Nat
    PROVE  [bound EXCEPT !.forced = @ - 1] \in [top : {1, TopStage}, forced : 0..MaxForced]
<1>1. bound.forced - 1 \in 0..MaxForced
  OBVIOUS
<1>2. [bound EXCEPT !.forced = @ - 1] = [top |-> bound.top, forced |-> bound.forced - 1]
  OBVIOUS
<1>3. QED
  BY <1>1, <1>2

\* Every step keeps the types.
LEMMA BarrierTypesStep == BarrierTypes /\ [BarrierNext]_barrierVars => BarrierTypes'
<1> SUFFICES ASSUME BarrierTypes, [BarrierNext]_barrierVars PROVE BarrierTypes'
  OBVIOUS
<1> USE BarrierAssumption
<1> USE DEF BarrierTypes, BarrierTypeOK, Spot, Kind, guestVars, playerVars, headsetVars, Busy,
            Selects
<1>1. ASSUME NEW g \in Guest, NEW k \in Kind, Says(g, k) PROVE BarrierTypes'
  BY <1>1 DEF Says
<1>2. ASSUME NEW g \in Guest, Moves(g) PROVE BarrierTypes'
  <2>1. told[g].dest \in Spot /\ spot[g] \in Nat /\ told[g].dest \in Nat
    OBVIOUS
  <2>2. /\ told' = [told EXCEPT ![g] = NoMove]
        /\ UNCHANGED <<guestVars, playerVars, giving, said, unsure, bound>>
    BY <1>2 DEF Moves
  <2>3. NoMove \in [dest : Spot, force : BOOLEAN] /\ ~NoMove.force
    BY DEF NoMove
  <2>4. CASE told[g].force \/ told[g].dest > spot[g]
    <3>1. spot' = [spot EXCEPT ![g] = told[g].dest] /\ wish' = [wish EXCEPT ![g] = "none"]
      BY <1>2, <2>4 DEF Moves
    <3>2. told[g].dest >= 1
      BY <2>1, <2>4
    <3>3. QED
      BY <2>1, <2>2, <2>3, <3>1, <3>2
  <2>5. CASE ~(told[g].force \/ told[g].dest > spot[g])
    <3>1. UNCHANGED <<spot, wish>>
      BY <1>2, <2>5 DEF Moves
    <3>2. QED
      BY <2>2, <2>3, <3>1
  <2>6. QED
    BY <2>4, <2>5
<1>3. ASSUME NEW g \in Guest, Heartbeat(g) PROVE BarrierTypes'
  BY <1>3 DEF Heartbeat
<1>4. ASSUME NEW g \in Guest, TakesReady(g) PROVE BarrierTypes'
  BY <1>4 DEF TakesReady, Begins, Nothing
<1>5. ASSUME NEW g \in Guest, TakesWait(g) PROVE BarrierTypes'
  BY <1>5 DEF TakesWait, Begins, Nothing
<1>6. ASSUME NEW g \in Guest, Publish(g) PROVE BarrierTypes'
  BY <1>6, PublishedTypes DEF Publish
<1>7. ASSUME NEW g \in Guest, FindsNobody(g) PROVE BarrierTypes'
  BY <1>7, PublishedTypes DEF FindsNobody, Idle
<1>8. ASSUME NEW g \in Guest, Posts(g) PROVE BarrierTypes'
  <2>1. checker' = [checker EXCEPT ![g] = [@ EXCEPT !.posts = TRUE]]
        /\ UNCHANGED <<guestVars, headsetVars, giving, unsure, bound>>
    BY <1>8 DEF Posts
  <2>2. checker[g] \in Checker
    BY DEF Checker
  <2>3. checker' = [checker EXCEPT ![g] = [kind |-> checker[g].kind, from |-> checker[g].from,
                                           posts |-> TRUE, unread |-> checker[g].unread]]
    <3>1. [checker[g] EXCEPT !.posts = TRUE] =
            [kind |-> checker[g].kind, from |-> checker[g].from, posts |-> TRUE,
             unread |-> checker[g].unread]
      BY <2>2, CheckerPosts, Zenon
    <3>2. QED
      BY <2>1, <3>1, Zenon
  <2>4. stage' \in [Guest -> Spot] /\ ready' \in [Guest -> BOOLEAN] /\ hidden' = hidden \ {g}
    BY <1>8, PublishedTypes DEF Posts
  <2>5. PICK b \in BOOLEAN :
          checker' = [checker EXCEPT ![g] = [kind |-> checker[g].kind, from |-> checker[g].from,
                                             posts |-> b, unread |-> checker[g].unread]]
    BY <2>3, Zenon
  <2>6. /\ checker' \in [Guest -> Checker]
        /\ \A c \in Guest : /\ checker'[c].kind = checker[c].kind
                            /\ checker'[c].from = checker[c].from
                            /\ c # g => checker'[c].posts = checker[c].posts
    BY <2>5 DEF Checker
  <2>7. QED
    BY <2>1, <2>4, <2>6 DEF Checker
<1>9. ASSUME NEW g \in Guest, Joins(g) PROVE BarrierTypes'
  <2>1. PICK S \in SUBSET Guest :
          checker' = [c \in Guest |-> IF c \in S THEN [checker[c] EXCEPT !.unread = @ \cup {g}]
                                     ELSE checker[c]]
    BY <1>9 DEF Joins
  <2>2. \A c \in Guest : checker[c] \in Checker
    BY DEF Checker
  <2>3. checker' = [c \in Guest |-> IF c \in S
                      THEN [kind |-> checker[c].kind, from |-> checker[c].from,
                            posts |-> checker[c].posts, unread |-> checker[c].unread \cup {g}]
                      ELSE checker[c]]
    <3>1. \A c \in Guest : [checker[c] EXCEPT !.unread = @ \cup {g}] =
            [kind |-> checker[c].kind, from |-> checker[c].from, posts |-> checker[c].posts,
             unread |-> checker[c].unread \cup {g}]
      BY <2>2, CheckerUnread, Zenon
    <3>2. QED
      BY <2>1, <3>1, Zenon
  <2>4. /\ present' = present \cup {g} /\ odd' \subseteq Guest /\ unsure' \in BOOLEAN
        /\ UNCHANGED <<gone, stage, ready, hidden, headsetVars, giving, bound>>
    BY <1>9 DEF Joins
  <2>5. QED
    BY <2>3, <2>4
<1>10. ASSUME NEW g \in Guest, Leaves(g) PROVE BarrierTypes'
  BY <1>10 DEF Leaves, Nothing, NoMove
<1>11. ASSUME NEW g \in Guest, Takes(g) PROVE BarrierTypes'
  BY <1>11 DEF Takes, Begun, Idle, NoCommand
<1>12. ASSUME NEW g \in Guest, GivesMove(g) PROVE BarrierTypes'
  <2>1. told' = [told EXCEPT ![g] = Then(@, giving.dest, giving.force)] /\ giving' = Rest(g)
    BY <1>12 DEF GivesMove
  <2>2. giving' \in [kind : Kind \cup {"none"}, dest : Spot, force : BOOLEAN, todo : SUBSET Guest]
        /\ (giving'.force => giving'.dest >= 1)
    <3>1. CASE giving.todo = {g}
      BY <2>1, <3>1 DEF Rest, NoCommand
    <3>2. CASE giving.todo # {g}
      <4>1. giving' = [giving EXCEPT !.todo = giving.todo \ {g}]
        BY <2>1, <3>2 DEF Rest
      <4>2. QED
        BY <4>1
    <3>3. QED
      BY <3>1, <3>2
  <2>3. Then(told[g], giving.dest, giving.force) \in [dest : Spot, force : BOOLEAN]
    BY ThenTypes
  <2>4. Then(told[g], giving.dest, giving.force).force =>
          Then(told[g], giving.dest, giving.force).dest >= 1
    BY ThenTypes
  <2>5. told' \in [Guest -> [dest : Spot, force : BOOLEAN]]
        /\ \A q \in Guest : told'[q].force => told'[q].dest >= 1
    BY <2>1, <2>3, <2>4
  <2>6. ready' \in [Guest -> BOOLEAN] /\ unsure' \in BOOLEAN
        /\ UNCHANGED <<guestVars, stage, checker, hidden, spot, wish, said, bound>>
    BY <1>12 DEF GivesMove
  <2>7. QED
    BY <2>2, <2>5, <2>6
<1>13. ASSUME NEW g \in Guest, GivesSync(g) PROVE BarrierTypes'
  BY <1>13 DEF GivesSync, Rest, NoCommand
<1>14. ASSUME NEW g \in Guest, NEW q \in Guest, Passes(g, q) PROVE BarrierTypes'
  BY <1>14 DEF Passes, Unread
<1>15. ASSUME NEW g \in Guest, NEW q \in Guest, GivesUp(g, q) PROVE BarrierTypes'
  BY <1>15, PublishedTypes DEF GivesUp, Idle
<1>16. ASSUME NEW q \in Guest, NEW d \in 1..(bound.top + 1), ForceOne(q, d) PROVE BarrierTypes'
  <2>1. d \in Spot /\ d >= 1 /\ d \in Nat
    OBVIOUS
  <2>2. Then(told[q], d, TRUE) \in [dest : Spot, force : BOOLEAN] 
        /\ (Then(told[q], d, TRUE).force => Then(told[q], d, TRUE).dest >= 1)
    BY <2>1, ThenTypes
  <2>3. /\ told' = [told EXCEPT ![q] = Then(@, d, TRUE)] /\ odd' = odd \cup {q} /\ unsure' = TRUE
        /\ bound' = [bound EXCEPT !.forced = @ - 1] /\ bound.forced > 0
        /\ UNCHANGED <<present, gone, playerVars, spot, wish, said, giving>>
    BY <1>16 DEF ForceOne
  <2>4. bound' \in [top : {1, TopStage}, forced : 0..MaxForced]
    BY <2>3, BoundStep
  <2>5. told' \in [Guest -> [dest : Spot, force : BOOLEAN]]
        /\ \A r \in Guest : told'[r].force => told'[r].dest >= 1
    BY <2>2, <2>3
  <2>6. QED
    BY <2>3, <2>4, <2>5
<1>17. ASSUME NEW d \in 1..(bound.top + 1), ForceAll(d) PROVE BarrierTypes'
  <2>1. d \in Spot /\ d >= 1
    OBVIOUS
  <2>2. /\ odd' = Guest /\ unsure' = TRUE /\ bound' = [bound EXCEPT !.forced = @ - 1]
        /\ bound.forced > 0 /\ UNCHANGED <<present, gone, playerVars, headsetVars>>
        /\ giving' = Begun([kind |-> "move", dest |-> d, force |-> TRUE, todo |-> present])
    BY <1>17 DEF ForceAll
  <2>3. bound' \in [top : {1, TopStage}, forced : 0..MaxForced]
    BY <2>2, BoundStep
  <2>4. giving' \in [kind : Kind \cup {"none"}, dest : Spot, force : BOOLEAN, todo : SUBSET Guest]
        /\ (giving'.force => giving'.dest >= 1)
    BY <2>1, <2>2 DEF Begun, NoCommand
  <2>5. QED
    BY <2>2, <2>3, <2>4
<1>18. CASE UNCHANGED barrierVars
  BY <1>18 DEF barrierVars
<1>19. QED
  BY <1>1, <1>2, <1>3, <1>4, <1>5, <1>6, <1>7, <1>8, <1>9, <1>10, <1>11, <1>12, <1>13,
     <1>14, <1>15, <1>16, <1>17, <1>18 DEF BarrierNext

Known(q) == FlagIsTrue(q) /\ SentWhenReady(q) /\ \A c \in Guest : SeenReady(q, c)

LEMMA MoveInit == BarrierInit => MoveInv
<1> SUFFICES ASSUME BarrierInit, NEW q \in Guest PROVE Known(q)
  BY DEF MoveInv, Known
<1> USE DEF BarrierInit, StillBarrier
<1>1. FlagIsTrue(q)
  BY DEF FlagIsTrue, Nothing, Idle
<1>2. SentWhenReady(q)
  BY DEF SentWhenReady, NoMove, NoCommand
<1>3. \A c \in Guest : SeenReady(q, c)
  BY DEF SeenReady, Idle
<1>4. QED
  BY <1>1, <1>2, <1>3 DEF Known

\* Every step keeps what is known of a player.
LEMMA MoveStep ==
    BarrierTypes /\ BarrierTypes' /\ MoveInv /\ [BarrierNext]_barrierVars => MoveInv'
<1> SUFFICES ASSUME BarrierTypes, BarrierTypes', MoveInv, [BarrierNext]_barrierVars,
                    NEW q \in Guest, q \notin odd', q \notin gone'
             PROVE  Known(q)'
  BY DEF MoveInv, Known
<1> USE DEF BarrierTypes, BarrierTypeOK, Spot, Kind, guestVars, playerVars, headsetVars, Busy,
            Selects, Known, FlagIsTrue, SentWhenReady, SeenReady, MayLeave, Declared, IsReady
<1>0. q \notin odd /\ q \notin gone => Known(q)
  BY DEF MoveInv
<1>1. ASSUME NEW g \in Guest, NEW k \in Kind, Says(g, k) PROVE Known(q)'
  BY <1>0, <1>1 DEF Says
<1>2. ASSUME NEW g \in Guest, Moves(g) PROVE Known(q)'
  <2>1. /\ told' = [told EXCEPT ![g] = NoMove]
        /\ UNCHANGED <<guestVars, playerVars, giving, said, unsure, bound>>
    BY <1>2 DEF Moves
  <2>2. CASE g # q
    <3>1. UNCHANGED <<spot[q], wish[q], told[q]>>
      BY <1>2, <2>2 DEF Moves
    <3>2. QED
      BY <1>0, <2>1, <3>1
  <2>3. CASE g = q
    <3>1. told'[q].dest = 0 /\ ~told'[q].force
      BY <2>1, <2>3 DEF NoMove
    <3>2. CASE told[q].dest > spot[q]
      <4>1. spot'[q] = told[q].dest
        BY <1>2, <2>3, <3>2 DEF Moves
      <4>2. told[q].dest = spot[q] + 1 /\ ~ready[q] /\ q \notin hidden /\ said[q] = Nothing
        BY <1>0, <2>1, <3>2
      <4>3. said'[q].kind # "move"
        BY <2>1, <4>2 DEF Nothing
      <4>4. /\ spot'[q] = spot[q] + 1 /\ spot[q] \in Nat /\ stage[q] \in Nat
            /\ giving.dest \in Nat /\ \A c \in Guest : checker[c].from \in Nat
        BY <4>1, <4>2
      <4>5. FlagIsTrue(q)'
        BY <1>0, <2>1, <4>2, <4>3, <4>4
      <4>6. SentWhenReady(q)'
        BY <1>0, <2>1, <3>1, <4>4
      <4>7. ASSUME NEW c \in Guest PROVE SeenReady(q, c)'
        <5>1. SeenReady(q, c) /\ UNCHANGED <<checker, present>>
          BY <1>0, <2>1
        <5>2. MayLeave(q, checker[c].from) => spot'[q] > checker[c].from
          BY <4>4
        <5>3. QED
          BY <5>1, <5>2
      <4>8. QED
        BY <4>5, <4>6, <4>7
    <3>3. CASE ~(told[q].dest > spot[q])
      <4>1. ~told[q].force
        BY <1>0, <2>1
      <4>2. UNCHANGED <<spot, wish>>
        BY <1>2, <2>3, <3>3, <4>1 DEF Moves
      <4>3. QED
        BY <1>0, <2>1, <3>1, <4>2
    <3>4. QED
      BY <3>2, <3>3
  <2>4. QED
    BY <2>2, <2>3
<1>3. ASSUME NEW g \in Guest, Heartbeat(g) PROVE Known(q)'
  BY <1>0, <1>3 DEF Heartbeat
<1>4. ASSUME NEW g \in Guest, TakesReady(g) PROVE Known(q)'
  BY <1>0, <1>4 DEF TakesReady, Begins, Nothing
<1>5. ASSUME NEW g \in Guest, TakesWait(g) PROVE Known(q)'
  BY <1>0, <1>5 DEF TakesWait, Begins, Nothing
<1>6. ASSUME NEW g \in Guest, Publish(g) PROVE Known(q)'
  BY <1>0, <1>6 DEF Publish, Published
<1>7. ASSUME NEW g \in Guest, FindsNobody(g) PROVE Known(q)'
  BY <1>0, <1>7 DEF FindsNobody, Published, Idle
<1>8. ASSUME NEW g \in Guest, Posts(g) PROVE Known(q)'
  BY <1>0, <1>8 DEF Posts, Published, Unread
<1>9. ASSUME NEW g \in Guest, Joins(g) PROVE Known(q)'
  BY <1>0, <1>9 DEF Joins
<1>10. ASSUME NEW g \in Guest, Leaves(g) PROVE Known(q)'
  BY <1>0, <1>10 DEF Leaves
<1>11. ASSUME NEW g \in Guest, Takes(g) PROVE Known(q)'
  BY <1>0, <1>11 DEF Takes, Begun, Idle, NoCommand
<1>12. ASSUME NEW g \in Guest, GivesMove(g) PROVE Known(q)'
  BY <1>0, <1>12 DEF GivesMove, Then, Rest, NoCommand
<1>13. ASSUME NEW g \in Guest, GivesSync(g) PROVE Known(q)'
  BY <1>0, <1>13 DEF GivesSync, Rest, NoCommand
<1>14. ASSUME NEW g \in Guest, NEW r \in Guest, Passes(g, r) PROVE Known(q)'
  BY <1>0, <1>14 DEF Passes, Unread, There, StageSeen, ReadySeen
<1>15. ASSUME NEW g \in Guest, NEW r \in Guest, GivesUp(g, r) PROVE Known(q)'
  BY <1>0, <1>15 DEF GivesUp, Published, Idle
<1>16. ASSUME NEW r \in Guest, NEW d \in 1..(bound.top + 1), ForceOne(r, d) PROVE Known(q)'
  <2>1. /\ told' = [told EXCEPT ![r] = Then(@, d, TRUE)] /\ odd' = odd \cup {r}
        /\ UNCHANGED <<present, gone, playerVars, spot, wish, said, giving>>
    BY <1>16 DEF ForceOne
  <2>2. q # r
    BY <2>1
  <2>3. told'[q] = told[q]
    BY <2>1, <2>2
  <2>4. QED
    BY <1>0, <2>1, <2>2, <2>3
<1>17. ASSUME NEW d \in 1..(bound.top + 1), ForceAll(d) PROVE Known(q)'
  BY <1>17 DEF ForceAll
<1>18. CASE UNCHANGED barrierVars
  BY <1>0, <1>18 DEF barrierVars
<1>19. QED
  BY <1>1, <1>2, <1>3, <1>4, <1>5, <1>6, <1>7, <1>8, <1>9, <1>10, <1>11, <1>12, <1>13,
     <1>14, <1>15, <1>16, <1>17, <1>18 DEF BarrierNext

\* A player is only taken from a stage that it said it was ready to leave, whatever the
\* order in which the readers look at each other, headsets move and Run gives out commands.
THEOREM MovesWhenReady == BarrierSpec => MovedOnlyWhenReady
<1> DEFINE Taken(g) == spot'[g] > spot[g] /\ ~told[g].force => wish[g] = "move" \/ g \in odd
<1>1. BarrierTypes /\ MoveInv /\ [BarrierNext]_barrierVars => [\A g \in Guest : Taken(g)]_barrierVars
  <2> SUFFICES ASSUME BarrierTypes, MoveInv, BarrierNext, NEW g \in Guest,
                      spot'[g] > spot[g], ~told[g].force, g \notin odd
               PROVE  wish[g] = "move"
    BY DEF barrierVars
  <2> USE DEF BarrierTypes, BarrierTypeOK, Spot
  <2>1. spot \in [Guest -> Nat] /\ \A q \in Guest : spot[q] >= 1
    OBVIOUS
  <2>2. ASSUME UNCHANGED spot PROVE FALSE
    BY <2>1, <2>2
  <2>3. ASSUME NEW q \in Guest, Leaves(q) PROVE FALSE
    BY <2>1, <2>3 DEF Leaves
  <2>4. ASSUME NEW q \in Guest, Moves(q) PROVE wish[g] = "move"
    <3>1. spot'[g] = told[q].dest /\ q = g /\ g \notin gone
      BY <2>1, <2>4 DEF Moves
    <3>2. told[g].dest > spot[g]
      BY <3>1
    <3>3. QED
      BY <3>1, <3>2 DEF MoveInv, SentWhenReady, Declared, IsReady
  <2>5. ASSUME NEW q \in Guest,
               \/ \E k \in Kind : Says(q, k)
               \/ Heartbeat(q) \/ TakesReady(q) \/ TakesWait(q) \/ Publish(q)
               \/ FindsNobody(q) \/ Posts(q) \/ Joins(q) \/ Takes(q) \/ GivesMove(q)
               \/ GivesSync(q) \/ \E r \in Guest : Passes(q, r) \/ GivesUp(q, r)
               \/ \E d \in 1..(bound.top + 1) : ForceOne(q, d)
        PROVE  UNCHANGED spot
    BY <2>5 DEF Says, Heartbeat, TakesReady, TakesWait, Begins, Publish, FindsNobody, Posts,
                Joins, Takes, GivesMove, GivesSync, Passes, GivesUp, ForceOne, headsetVars
  <2>6. ASSUME NEW d \in 1..(bound.top + 1), ForceAll(d) PROVE UNCHANGED spot
    BY <2>6 DEF ForceAll, headsetVars
  <2>7. QED
    BY <2>2, <2>3, <2>4, <2>5, <2>6 DEF BarrierNext
<1>2. QED
  BY <1>1, BarrierTypesInit, BarrierTypesStep, MoveInit, MoveStep, PTL
     DEF BarrierSpec, MovedOnlyWhenReady

-----------------------------------------------------------------------------
(* The commands of the barriers. *)

\* A movement onwards is on its way to x.
Sent(x) ==
    \/ told[x].dest > spot[x]
    \/ giving.kind = "move" /\ x \in giving.todo /\ giving.dest > spot[x]

SyncSent(x) == giving.kind = "sync" /\ x \in giving.todo /\ wish[x] = "sync"

\* What no event upsets: a message speaks of what its headset waits for, and only players
\* are given commands.
OwnWords ==
    /\ \A g \in Guest : wish[g] # "none" /\ said[g] # Nothing =>
                          said[g].kind = wish[g] /\ said[g].stage = spot[g]
    /\ \A g \in Guest \ present : ~told[g].force
    /\ giving.todo \subseteq present /\ (giving.force => unsure)

\* A command is for everybody, and nobody will be led back.
ForcedOn == \A x \in present : told[x].force => Sent(x)
GivenToAll ==
    giving.kind = "move" =>
        \A x \in present \ giving.todo : told[x].dest >= giving.dest \/ spot[x] >= giving.dest

\* The flag of a player that waits to move is set, or its reader is about to set it.
Flagged(x) ==
    wish[x] = "move" /\ said[x] = Nothing /\ ~Sent(x) =>
        IF x \in hidden THEN checker[x].from = spot[x]
        ELSE ready[x] /\ stage[x] = spot[x]

\* q will be at stage s or below, and if it waits there for k, its reader has not yet
\* looked at the others.
Holds(q, s, k) ==
    /\ told[q].dest <= s /\ spot[q] <= s
    /\ spot[q] = s /\ wish[q] = k =>
          said[q] # Nothing \/ (checker[q].kind = k /\ checker[q].from = s)

\* Who waits is sent on, or waits for somebody.
Served(g) == Sent(g) \/ SyncSent(g) \/ \E q \in present : Holds(q, spot[g], wish[g])

OpenInv ==
    /\ OwnWords
    /\ ~unsure => /\ ForcedOn /\ GivenToAll
                  /\ \A g \in present : Flagged(g) /\ (wish[g] # "none" => Served(g))

\* Before anybody has joined nobody waits.
LEMMA OpenStart == BarrierInit => OpenInv
<1> SUFFICES ASSUME BarrierInit PROVE OpenInv
  OBVIOUS
<1> QED
  BY DEF BarrierInit, StillBarrier, NoMove, NoCommand, OpenInv, OwnWords, ForcedOn, GivenToAll

\* What of its state a step leaves alone decides what it can upset.
LEMMA OpenFrame ==
    ASSUME OpenInv, UNCHANGED <<present, spot, wish, said, told, giving, unsure>>,
           \A x \in Guest : checker'[x].kind = checker[x].kind /\ checker'[x].from = checker[x].from,
           present \subseteq Guest,
           ~unsure => \A x \in present : Flagged(x)'
    PROVE  OpenInv'
<1>1. OwnWords'
  BY DEF OpenInv, OwnWords
<1>2. \A x : (Sent(x)' <=> Sent(x)) /\ (SyncSent(x)' <=> SyncSent(x))
  BY DEF Sent, SyncSent
<1>3. ~unsure => ForcedOn' /\ GivenToAll'
  BY <1>2 DEF OpenInv, ForcedOn, GivenToAll
<1>4. ASSUME ~unsure, NEW g \in present, wish[g] # "none" PROVE Served(g)'
  <2>1. Served(g)
    BY <1>4 DEF OpenInv
  <2>2. \A q \in present : Holds(q, spot[g], wish[g]) => Holds(q, spot[g], wish[g])'
    BY DEF Holds
  <2>3. QED
    BY <1>2, <2>1, <2>2 DEF Served
<1>5. QED
  BY <1>1, <1>3, <1>4 DEF OpenInv

\* The flag of a player is set when its reader makes its write visible.
LEMMA PublishedFlagged ==
    ASSUME BarrierTypes, NEW g \in Guest, Published(g), NEW x \in Guest, Flagged(x),
           UNCHANGED <<spot, wish, said, told, giving>>,
           x \in hidden => UNCHANGED checker[x] \/ x = g
    PROVE  Flagged(x)'
<1> USE DEF BarrierTypes, BarrierTypeOK, Flagged
<1>1. Sent(x)' <=> Sent(x)
  BY DEF Sent
<1>2. spot[x] \in Nat /\ spot[x] > 0
  BY DEF Spot
<1>3. CASE g \in hidden
  <2>1. /\ stage' = [stage EXCEPT ![g] = checker[g].from] /\ hidden' = hidden \ {g}
        /\ ready' = [ready EXCEPT ![g] = checker[g].from > 0]
    BY <1>3 DEF Published
  <2>2. CASE x = g
    <3>1. stage'[g] = checker[g].from /\ ready'[g] = (checker[g].from > 0)
      BY <2>1
    <3>2. QED
      BY <1>1, <1>2, <1>3, <2>1, <2>2, <3>1
  <2>3. CASE x # g
    <3>1. stage'[x] = stage[x] /\ ready'[x] = ready[x]
      BY <2>1, <2>3
    <3>2. QED
      BY <1>1, <2>1, <2>3, <3>1
  <2>4. QED
    BY <2>2, <2>3
<1>4. CASE g \notin hidden
  BY <1>1, <1>4 DEF Published
<1>5. QED
  BY <1>3, <1>4

\* A headset speaks.
LEMMA OpenSays ==
    ASSUME BarrierTypes, OpenInv, NEW g \in Guest, NEW k \in Kind, Says(g, k)
    PROVE  OpenInv'
<1> USE DEF BarrierTypes, BarrierTypeOK, guestVars, playerVars
<1>1. /\ wish' = [wish EXCEPT ![g] = k] /\ wish[g] = "none"
      /\ said' = [said EXCEPT ![g] = [kind |-> k, stage |-> spot[g]]]
      /\ UNCHANGED <<present, stage, ready, checker, hidden, giving, spot, told, unsure>>
  BY DEF Says
<1>2. /\ wish'[g] = k /\ said'[g] = [kind |-> k, stage |-> spot[g]]
      /\ \A x \in Guest : x # g => wish'[x] = wish[x] /\ said'[x] = said[x]
  BY <1>1
<1>3. said'[g] # Nothing
  BY <1>2 DEF Nothing, Kind
<1>4. \A x : Sent(x)' <=> Sent(x)
  BY <1>1 DEF Sent
<1>5. OwnWords'
  BY <1>1, <1>2 DEF OpenInv, OwnWords
<1>6. ~unsure => ForcedOn' /\ GivenToAll'
  BY <1>1, <1>4 DEF OpenInv, ForcedOn, GivenToAll
<1>7. ASSUME ~unsure, NEW x \in present PROVE Flagged(x)'
  BY <1>1, <1>2, <1>3, <1>4, <1>7 DEF OpenInv, Flagged
<1>8. ASSUME ~unsure, NEW x \in present, wish'[x] # "none" PROVE Served(x)'
  <2>1. CASE x = g
    <3>1. CASE told[g].dest <= spot[g]
      <4>1. spot[g] <= spot[g]
        BY DEF Spot
      <4>2. Holds(g, spot[g], k)'
        BY <1>1, <1>3, <3>1, <4>1 DEF Holds
      <4>3. QED
        BY <1>1, <1>2, <1>8, <2>1, <4>2 DEF Served
    <3>2. CASE ~(told[g].dest <= spot[g])
      <4>1. told[g].dest > spot[g]
        BY <3>2 DEF Spot
      <4>2. QED
        BY <1>4, <2>1, <4>1 DEF Served, Sent
    <3>3. QED
      BY <3>1, <3>2
  <2>2. CASE x # g
    <3>1. Served(x) /\ wish'[x] = wish[x]
      BY <1>2, <1>8, <2>2 DEF OpenInv
    <3>2. \A q \in present : Holds(q, spot[x], wish[x]) => Holds(q, spot[x], wish[x])'
      <4>1. ASSUME NEW q \in present, Holds(q, spot[x], wish[x])
            PROVE  Holds(q, spot[x], wish[x])'
        <5>1. told'[q] = told[q] /\ spot' = spot /\ checker' = checker /\ wish'[x] = wish[x]
          BY <1>1, <3>1
        <5>2. CASE q = g
          BY <1>3, <4>1, <5>1, <5>2 DEF Holds
        <5>3. CASE q # g
          <6>1. wish'[q] = wish[q] /\ said'[q] = said[q]
            BY <1>2, <5>3
          <6>2. QED
            BY <4>1, <5>1, <6>1 DEF Holds
        <5>4. QED
          BY <5>2, <5>3
      <4>2. QED
        BY <4>1
    <3>3. SyncSent(x)' <=> SyncSent(x)
      BY <1>1, <3>1 DEF SyncSent
    <3>4. QED
      BY <1>1, <1>4, <3>1, <3>2, <3>3 DEF Served
  <2>3. QED
    BY <2>1, <2>2
<1>9. QED
  BY <1>1, <1>5, <1>6, <1>7, <1>8 DEF OpenInv

\* A headset moves, or ignores the movement.
LEMMA OpenMoves ==
    ASSUME BarrierTypes, OpenInv, NEW g \in Guest, Moves(g)
    PROVE  OpenInv'
<1> USE DEF BarrierTypes, BarrierTypeOK, guestVars, playerVars
<1> DEFINE goes == told[g].force \/ told[g].dest > spot[g]
<1>1. /\ told' = [told EXCEPT ![g] = NoMove]
      /\ UNCHANGED <<present, stage, ready, checker, hidden, giving, said, unsure>>
  BY DEF Moves
<1>2. /\ goes => spot' = [spot EXCEPT ![g] = told[g].dest] /\ wish' = [wish EXCEPT ![g] = "none"]
      /\ ~goes => UNCHANGED <<spot, wish>>
  BY DEF Moves
<1>3. \A x \in Guest : spot[x] \in Nat /\ told[x].dest \in Nat /\ spot'[x] \in Nat
  BY <1>2 DEF Spot
<1>4. \A x \in Guest : x # g => spot'[x] = spot[x] /\ wish'[x] = wish[x] /\ told'[x] = told[x]
  BY <1>1, <1>2
<1>5. /\ told'[g].dest = 0 /\ ~told'[g].force
      /\ goes => spot'[g] = told[g].dest /\ wish'[g] = "none"
      /\ ~goes => spot'[g] = spot[g] /\ wish'[g] = wish[g]
  BY <1>1, <1>2 DEF NoMove
<1>6. OwnWords'
  BY <1>1, <1>2, <1>4, <1>5 DEF OpenInv, OwnWords
<1>7. \A x \in Guest : x # g => (Sent(x)' <=> Sent(x))
  BY <1>1, <1>4 DEF Sent
<1>8. ~goes => (Sent(g)' <=> Sent(g))
  BY <1>1, <1>3, <1>5 DEF Sent
<1>9. ~unsure => ForcedOn'
  BY <1>1, <1>4, <1>5, <1>7 DEF OpenInv, ForcedOn
<1>10. ~unsure => GivenToAll'
  <2> SUFFICES ASSUME ~unsure, giving.kind = "move", NEW x \in present \ giving.todo,
                      told[x].dest >= giving.dest \/ spot[x] >= giving.dest
               PROVE  told'[x].dest >= giving.dest \/ spot'[x] >= giving.dest
    BY <1>1 DEF OpenInv, GivenToAll
  <2>1. CASE x # g
    BY <1>4, <2>1
  <2>2. CASE x = g
    <3>1. goes => told[g].dest > spot[g]
      BY <2>2 DEF OpenInv, ForcedOn, Sent
    <3>2. giving.dest \in Nat
      BY DEF Spot
    <3>3. QED
      BY <1>3, <1>5, <2>2, <3>1, <3>2
  <2>3. QED
    BY <2>1, <2>2
<1>11. ASSUME ~unsure, NEW x \in present PROVE Flagged(x)'
  <2>1. Flagged(x)
    BY <1>11 DEF OpenInv
  <2>2. CASE x = g /\ goes
    BY <1>5, <2>2 DEF Flagged
  <2>3. CASE ~(x = g /\ goes)
    <3>1. spot'[x] = spot[x] /\ wish'[x] = wish[x] /\ (Sent(x)' <=> Sent(x))
      BY <1>4, <1>5, <1>7, <1>8, <2>3
    <3>2. QED
      BY <1>1, <2>1, <3>1 DEF Flagged
  <2>4. QED
    BY <2>2, <2>3
<1>12. ASSUME ~unsure, NEW x \in present, wish'[x] # "none" PROVE Served(x)'
  <2>1. /\ spot'[x] = spot[x] /\ wish'[x] = wish[x] /\ (Sent(x)' <=> Sent(x)) /\ Served(x)
        /\ wish[x] # "none"
    BY <1>4, <1>5, <1>7, <1>8, <1>12 DEF OpenInv
  <2>2. SyncSent(x)' <=> SyncSent(x)
    BY <1>1, <2>1 DEF SyncSent
  <2>3. ASSUME NEW q \in present, Holds(q, spot[x], wish[x])
        PROVE  Holds(q, spot[x], wish[x])'
    <3>1. CASE q # g
      BY <1>1, <1>4, <2>1, <2>3, <3>1 DEF Holds
    <3>2. CASE q = g
      BY <1>1, <1>3, <1>5, <2>1, <2>3, <3>2 DEF Holds
    <3>3. QED
      BY <3>1, <3>2
  <2>4. QED
    BY <1>1, <2>1, <2>2, <2>3 DEF Served
<1>13. QED
  BY <1>1, <1>6, <1>9, <1>10, <1>11, <1>12 DEF OpenInv

\* A reader begins to look at the others.
LEMMA OpenBegins ==
    ASSUME BarrierTypes, OpenInv, NEW g \in Guest, TakesReady(g) \/ TakesWait(g)
    PROVE  OpenInv'
<1> USE DEF BarrierTypes, BarrierTypeOK, guestVars
<1> DEFINE k == said[g].kind
<1>1. /\ ~Busy(g) /\ k \in Kind /\ said' = [said EXCEPT ![g] = Nothing]
      /\ checker' = [checker EXCEPT ![g] = [kind |-> k, from |-> said[g].stage,
                                            posts |-> FALSE, unread |-> present]]
      /\ hidden' = IF k = "move" THEN hidden \cup {g} ELSE hidden
      /\ UNCHANGED <<present, stage, ready, giving, spot, wish, told, unsure>>
  BY DEF TakesReady, TakesWait, Begins, Kind
<1>2. /\ said'[g] = Nothing /\ checker'[g].kind = k /\ checker'[g].from = said[g].stage
      /\ \A x \in Guest : x # g => said'[x] = said[x] /\ checker'[x] = checker[x]
  BY <1>1
<1>3. wish[g] # "none" => wish[g] = k /\ spot[g] = said[g].stage
  BY <1>1 DEF OpenInv, OwnWords, Nothing, Kind
<1>4. \A x : (Sent(x)' <=> Sent(x)) /\ (SyncSent(x)' <=> SyncSent(x))
  BY <1>1 DEF Sent, SyncSent
<1>5. OwnWords'
  BY <1>1, <1>2 DEF OpenInv, OwnWords
<1>6. ~unsure => ForcedOn' /\ GivenToAll'
  BY <1>1, <1>4 DEF OpenInv, ForcedOn, GivenToAll
<1>7. ASSUME ~unsure, NEW x \in present PROVE Flagged(x)'
  <2>1. CASE x # g
    BY <1>1, <1>2, <1>4, <1>7, <2>1 DEF OpenInv, Flagged
  <2>2. CASE x = g
    BY <1>1, <1>2, <1>3, <2>2 DEF Flagged
  <2>3. QED
    BY <2>1, <2>2
<1>8. ASSUME ~unsure, NEW x \in present, wish[x] # "none" PROVE Served(x)'
  <2>1. ASSUME NEW q \in present, Holds(q, spot[x], wish[x])
        PROVE  Holds(q, spot[x], wish[x])'
    <3>1. CASE q # g
      BY <1>1, <1>2, <2>1, <3>1 DEF Holds
    <3>2. CASE q = g
      BY <1>1, <1>2, <1>3, <1>8, <2>1, <3>2 DEF Holds
    <3>3. QED
      BY <3>1, <3>2
  <2>2. QED
    BY <1>1, <1>4, <1>8, <2>1 DEF OpenInv, Served
<1>9. QED
  BY <1>1, <1>5, <1>6, <1>7, <1>8 DEF OpenInv

\* A player registers.
LEMMA OpenJoins ==
    ASSUME BarrierTypes, OpenInv, NEW g \in Guest, Joins(g)
    PROVE  OpenInv'
<1> USE DEF BarrierTypes, BarrierTypeOK, playerVars, headsetVars
<1>1. /\ present' = present \cup {g} /\ g \notin present /\ giving = NoCommand
      /\ unsure' = (unsure \/ (wish[g] # "none" /\ said[g] = Nothing))
      /\ UNCHANGED <<stage, ready, hidden, spot, wish, said, told, giving>>
  BY DEF Joins, Selects
<1>2. \A x \in Guest : checker'[x].kind = checker[x].kind /\ checker'[x].from = checker[x].from
  <2>1. PICK S \in SUBSET Guest :
          checker' = [c \in Guest |-> IF c \in S THEN [checker[c] EXCEPT !.unread = @ \cup {g}]
                                     ELSE checker[c]]
    BY DEF Joins
  <2>2. \A c \in Guest : checker[c] \in Checker
    BY DEF Checker
  <2>3. \A c \in Guest : [checker[c] EXCEPT !.unread = @ \cup {g}] =
            [kind |-> checker[c].kind, from |-> checker[c].from, posts |-> checker[c].posts,
             unread |-> checker[c].unread \cup {g}]
    BY <2>2, CheckerUnread, Zenon
  <2>4. QED
    BY <2>1, <2>3
<1>3. \A x : (Sent(x)' <=> Sent(x)) /\ (SyncSent(x)' <=> SyncSent(x))
  BY <1>1 DEF Sent, SyncSent
<1>4. OwnWords'
  BY <1>1 DEF OpenInv, OwnWords
<1>5. ASSUME ~unsure' PROVE ForcedOn' /\ GivenToAll'
  <2>1. ~told[g].force
    BY <1>1 DEF OpenInv, OwnWords
  <2>2. QED
    BY <1>1, <1>3, <1>5, <2>1 DEF OpenInv, ForcedOn, GivenToAll, NoCommand
<1>6. ASSUME ~unsure', NEW x \in present' PROVE Flagged(x)'
  <2>1. x \in Guest
    BY <1>1
  <2>2. QED
    BY <1>1, <1>2, <1>3, <1>6, <2>1 DEF OpenInv, Flagged
<1>7. ASSUME ~unsure', NEW x \in present', wish[x] # "none" PROVE Served(x)'
  <2>1. \A q \in present : Holds(q, spot[x], wish[x]) => Holds(q, spot[x], wish[x])'
    BY <1>1, <1>2 DEF Holds
  <2>2. CASE x \in present
    BY <1>1, <1>3, <1>7, <2>1, <2>2 DEF OpenInv, Served
  <2>3. CASE x = g
    <3>1. said[g] # Nothing
      BY <1>1, <1>7, <2>3
    <3>2. spot[g] \in Nat /\ told[g].dest \in Nat
      BY DEF Spot
    <3>3. CASE told[g].dest <= spot[g]
      BY <1>1, <2>3, <3>1, <3>2, <3>3 DEF Served, Holds
    <3>4. CASE told[g].dest > spot[g]
      BY <1>1, <1>3, <2>3, <3>4 DEF Served, Sent
    <3>5. QED
      BY <3>2, <3>3, <3>4
  <2>4. QED
    BY <1>1, <2>2, <2>3
<1>8. QED
  BY <1>1, <1>4, <1>5, <1>6, <1>7 DEF OpenInv

\* Steps after which nobody counts on anything.
LEMMA OpenUnsure ==
    ASSUME OwnWords', unsure'
    PROVE  OpenInv'
BY DEF OpenInv

\* Run takes the command of a reader.
LEMMA OpenTakes ==
    ASSUME BarrierTypes, OpenInv, NEW g \in Guest, Takes(g)
    PROVE  OpenInv'
<1> USE DEF BarrierTypes, BarrierTypeOK, guestVars, headsetVars
<1> DEFINE s == checker[g].from
           k == checker[g].kind
           command == [kind |-> k, dest |-> s + 1, force |-> FALSE, todo |-> present]
<1>1. /\ giving = NoCommand /\ giving' = Begun(command)
      /\ checker' = [checker EXCEPT ![g] = Idle]
      /\ unsure' = (unsure /\ ~(k = "move" /\ \A q \in present : spot[q] <= s))
      /\ UNCHANGED <<present, stage, ready, hidden, spot, wish, said, told>>
  BY DEF Takes, Selects
<1>2. checker[g].posts /\ g \notin hidden
  BY DEF Takes
<1>3. \A x \in Guest : x # g => checker'[x] = checker[x]
  BY <1>1
<1>4. s \in Nat /\ \A x \in Guest : spot[x] \in Nat
  BY DEF Spot
<1>5. ~giving'.force
  BY <1>1 DEF Begun, NoCommand
<1>6. OwnWords'
  <2>1. giving'.todo \subseteq present
    BY <1>1 DEF Begun, NoCommand
  <2>2. QED
    BY <1>1, <1>5, <2>1 DEF OpenInv, OwnWords
<1>7. present # {} => giving'.kind = k /\ giving'.todo = present /\ giving'.dest = s + 1
  BY <1>1 DEF Begun
<1>8. \A x : Sent(x) => Sent(x)'
  BY <1>1 DEF Sent, NoCommand
<1>9. CASE k = "move" /\ \A q \in present : spot[q] <= s
  <2>1. \A x \in present : Sent(x)'
    BY <1>1, <1>4, <1>7, <1>9 DEF Sent
  <2>2. ForcedOn' /\ GivenToAll'
    BY <1>1, <1>7, <2>1 DEF ForcedOn, GivenToAll
  <2>3. \A x \in present : Flagged(x)' /\ Served(x)'
    BY <2>1 DEF Flagged, Served
  <2>4. QED
    BY <1>1, <1>6, <2>2, <2>3 DEF OpenInv
<1>10. CASE ~(k = "move" /\ \A q \in present : spot[q] <= s)
  <2>1. unsure' = unsure
    BY <1>1, <1>10
  <2>2. ~unsure => ForcedOn' /\ GivenToAll'
    BY <1>1, <1>7, <1>8 DEF OpenInv, ForcedOn, GivenToAll
  <2>3. ASSUME ~unsure, NEW x \in present PROVE Flagged(x)'
    <3>1. Flagged(x) /\ x \in Guest
      BY <2>3 DEF OpenInv
    <3>2. CASE x = g
      BY <1>1, <1>2, <1>8, <3>1, <3>2 DEF Flagged
    <3>3. CASE x # g
      BY <1>1, <1>3, <1>8, <3>1, <3>3 DEF Flagged
    <3>4. QED
      BY <3>2, <3>3
  <2>4. ASSUME ~unsure, NEW x \in present, wish[x] # "none" PROVE Served(x)'
    <3>1. Served(x) /\ x \in Guest
      BY <2>4 DEF OpenInv
    <3>2. ~SyncSent(x)
      BY <1>1 DEF SyncSent, NoCommand
    <3>3. CASE k = wish[x] /\ s = spot[x]
      <4>1. k \in {"move", "sync"}
        BY <2>4, <3>1, <3>3 DEF Kind
      <4>2. CASE k = "move"
        BY <1>1, <1>4, <1>7, <3>1, <3>3, <4>2 DEF Served, Sent
      <4>3. CASE k = "sync"
        BY <1>1, <1>7, <3>3, <4>3 DEF Served, SyncSent
      <4>4. QED
        BY <4>1, <4>2, <4>3
    <3>4. CASE ~(k = wish[x] /\ s = spot[x])
      <4>1. ASSUME NEW q \in present, Holds(q, spot[x], wish[x])
            PROVE  Holds(q, spot[x], wish[x])'
        BY <1>1, <1>3, <3>4, <4>1 DEF Holds
      <4>2. QED
        BY <1>1, <1>8, <3>1, <3>2, <4>1 DEF Served
    <3>5. QED
      BY <3>3, <3>4
  <2>5. QED
    BY <1>1, <1>6, <2>1, <2>2, <2>3, <2>4 DEF OpenInv
<1>11. QED
  BY <1>9, <1>10

\* Who has been given its part of a command.
LEMMA RestOf ==
    ASSUME BarrierTypes, NEW g \in giving.todo, giving' = Rest(g)
    PROVE  /\ ~giving.force => ~giving'.force
           /\ \A x : x \in giving'.todo <=> x \in giving.todo \ {g}
           /\ giving'.kind \in {"none", giving.kind}
           /\ giving'.todo # {} => giving'.kind = giving.kind /\ giving'.dest = giving.dest
           /\ giving'.kind # "none" => giving'.dest = giving.dest
           /\ giving'.force => giving.force
<1> USE DEF BarrierTypes, BarrierTypeOK
<1>1. CASE giving.todo = {g}
  BY <1>1 DEF Rest, NoCommand
<1>2. CASE giving.todo # {g}
  <2>1. giving' = [giving EXCEPT !.todo = giving.todo \ {g}]
    BY <1>2 DEF Rest
  <2>2. QED
    BY <2>1
<1>3. QED
  BY <1>1, <1>2

\* A player is told to move on.
LEMMA OpenGivesMove ==
    ASSUME BarrierTypes, OpenInv, NEW g \in Guest, GivesMove(g)
    PROVE  OpenInv'
<1> USE DEF BarrierTypes, BarrierTypeOK, guestVars
<1>1. /\ giving.kind = "move" /\ g \in giving.todo /\ giving' = Rest(g)
      /\ ready' = [ready EXCEPT ![g] = FALSE]
      /\ told' = [told EXCEPT ![g] = Then(@, giving.dest, giving.force)]
      /\ unsure' = (unsure \/ (wish[g] = "move" /\ spot[g] >= giving.dest))
      /\ UNCHANGED <<present, stage, checker, hidden, spot, wish, said>>
  BY DEF GivesMove
<1>2. /\ giving.dest \in Nat
      /\ \A x \in Guest : spot[x] \in Nat /\ told[x].dest \in Nat /\ told'[x].dest \in Nat
  <2>1. Then(told[g], giving.dest, giving.force).dest \in Nat
    BY DEF Then, Spot
  <2>2. QED
    BY <1>1, <2>1 DEF Spot
<1>3. /\ told'[g] = Then(told[g], giving.dest, giving.force)
      /\ \A x \in Guest : x # g => told'[x] = told[x] /\ ready'[x] = ready[x]
  BY <1>1
<1>4. ~giving.force => /\ told'[g].dest >= giving.dest /\ told'[g].dest >= told[g].dest
                       /\ told'[g].dest = giving.dest \/ told'[g].dest = told[g].dest
                       /\ told'[g].force = told[g].force
  BY <1>2, <1>3 DEF Then
<1>5. /\ \A x : x \in giving'.todo <=> x \in giving.todo \ {g}
      /\ giving'.kind \in {"none", "move"} /\ (giving'.kind # "none" => giving'.dest = giving.dest)
      /\ giving'.todo # {} => giving'.kind = "move" /\ giving'.dest = giving.dest
      /\ giving'.force => giving.force
  BY <1>1, RestOf
<1>6. OwnWords'
  <2>1. g \in present
    BY <1>1 DEF OpenInv, OwnWords
  <2>2. \A x \in Guest \ present : ~told'[x].force
    BY <1>1, <1>3, <2>1 DEF OpenInv, OwnWords
  <2>3. QED
    BY <1>1, <1>5, <2>2 DEF OpenInv, OwnWords
<1>7. CASE unsure'
  BY <1>6, <1>7, OpenUnsure
<1>8. CASE ~unsure'
  <2>1. ~unsure /\ ~giving.force /\ ~(wish[g] = "move" /\ spot[g] >= giving.dest)
    BY <1>1, <1>8 DEF OpenInv, OwnWords
  <2>2. \A x \in Guest : Sent(x) => Sent(x)'
    <3>1. \A x \in Guest : x # g => (Sent(x) => Sent(x)')
      BY <1>1, <1>3, <1>5 DEF Sent
    <3>2. Sent(g) => Sent(g)'
      BY <1>1, <1>2, <1>4, <2>1 DEF Sent
    <3>3. QED
      BY <3>1, <3>2
  <2>3. ForcedOn'
    BY <1>1, <1>3, <1>4, <2>1, <2>2 DEF OpenInv, ForcedOn
  <2>4. GivenToAll'
    <3> SUFFICES ASSUME giving'.kind = "move", NEW x \in present \ giving'.todo
                 PROVE  told'[x].dest >= giving.dest \/ spot[x] >= giving.dest
      BY <1>1, <1>5 DEF GivenToAll
    <3>1. CASE x = g
      BY <1>4, <2>1, <3>1
    <3>2. CASE x # g
      BY <1>1, <1>3, <1>5, <2>1, <3>2 DEF OpenInv, GivenToAll
    <3>3. QED
      BY <3>1, <3>2
  <2>5. ASSUME NEW x \in present PROVE Flagged(x)'
    <3>1. Flagged(x) /\ x \in Guest
      BY <2>1, <2>5 DEF OpenInv
    <3>2. CASE x # g
      BY <1>1, <1>3, <2>2, <3>1, <3>2 DEF Flagged
    <3>3. CASE x = g
      <4>1. wish[g] = "move" => Sent(g)
        BY <1>1, <1>2, <2>1 DEF Sent
      <4>2. QED
        BY <1>1, <2>2, <3>3, <4>1 DEF Flagged
    <3>4. QED
      BY <3>2, <3>3
  <2>6. ASSUME NEW x \in present, wish[x] # "none" PROVE Served(x)'
    <3>1. Served(x) /\ x \in Guest /\ ~SyncSent(x)
      BY <1>1, <2>1, <2>6 DEF OpenInv, SyncSent
    <3>2. CASE giving.dest > spot[x]
      <4>1. x \in giving.todo => Sent(x)
        BY <1>1, <3>2 DEF Sent
      <4>2. x \notin giving.todo => Sent(x)
        <5>1. x \notin giving.todo => told[x].dest >= giving.dest \/ spot[x] >= giving.dest
          BY <1>1, <2>1, <2>6 DEF OpenInv, GivenToAll
        <5>2. QED
          BY <1>2, <3>1, <3>2, <5>1 DEF Sent
      <4>3. QED
        BY <2>2, <3>1, <4>1, <4>2 DEF Served
    <3>3. CASE giving.dest <= spot[x]
      <4>1. ASSUME NEW q \in present, Holds(q, spot[x], wish[x])
            PROVE  Holds(q, spot[x], wish[x])'
        <5>1. told'[q].dest <= spot[x]
          BY <1>2, <1>3, <1>4, <2>1, <3>3, <4>1 DEF Holds
        <5>2. QED
          BY <1>1, <4>1, <5>1 DEF Holds
      <4>2. QED
        BY <1>1, <2>2, <3>1, <4>1 DEF Served
    <3>4. QED
      BY <1>2, <3>1, <3>2, <3>3
  <2>7. QED
    BY <1>1, <1>6, <2>3, <2>4, <2>5, <2>6 DEF OpenInv
<1>9. QED
  BY <1>7, <1>8

\* A player is told that all are there.
LEMMA OpenGivesSync ==
    ASSUME BarrierTypes, OpenInv, NEW g \in Guest, GivesSync(g)
    PROVE  OpenInv'
<1> USE DEF BarrierTypes, BarrierTypeOK, guestVars, playerVars
<1>1. /\ giving.kind = "sync" /\ g \in giving.todo /\ giving' = Rest(g)
      /\ wish' = [wish EXCEPT ![g] = IF @ = "sync" THEN "none" ELSE @]
      /\ UNCHANGED <<present, stage, ready, checker, hidden, spot, said, told, unsure>>
  BY DEF GivesSync
<1>2. /\ wish'[g] = IF wish[g] = "sync" THEN "none" ELSE wish[g]
      /\ \A x \in Guest : x # g => wish'[x] = wish[x]
  BY <1>1
<1>3. /\ \A x : x \in giving'.todo <=> x \in giving.todo \ {g}
      /\ giving'.kind \in {"none", "sync"} /\ (giving'.force => giving.force)
      /\ giving'.todo # {} => giving'.kind = "sync"
  BY <1>1, RestOf
<1>4. \A x : Sent(x)' <=> Sent(x)
  BY <1>1, <1>3 DEF Sent
<1>5. OwnWords'
  BY <1>1, <1>2, <1>3 DEF OpenInv, OwnWords
<1>6. ~unsure => ForcedOn' /\ GivenToAll'
  BY <1>1, <1>3, <1>4 DEF OpenInv, ForcedOn, GivenToAll
<1>7. ASSUME ~unsure, NEW x \in present PROVE Flagged(x)'
  <2>1. wish'[x] = "move" => wish[x] = "move"
    BY <1>2
  <2>2. QED
    BY <1>1, <1>4, <1>7, <2>1 DEF OpenInv, Flagged
<1>8. ASSUME ~unsure, NEW x \in present, wish'[x] # "none" PROVE Served(x)'
  <2>1. wish'[x] = wish[x] /\ Served(x) /\ (x = g => wish[x] # "sync")
    BY <1>2, <1>8 DEF OpenInv
  <2>2. SyncSent(x) => SyncSent(x)'
    BY <1>3, <2>1 DEF SyncSent
  <2>3. ASSUME NEW q \in present, Holds(q, spot[x], wish[x])
        PROVE  Holds(q, spot[x], wish[x])'
    <3>1. wish'[q] = wish[x] => wish[q] = wish[x]
      BY <1>2, <1>8, <2>1
    <3>2. QED
      BY <1>1, <2>1, <2>3, <3>1 DEF Holds
  <2>4. QED
    BY <1>1, <1>4, <2>1, <2>2, <2>3 DEF Served
<1>9. QED
  BY <1>1, <1>5, <1>6, <1>7, <1>8 DEF OpenInv

\* A reader finds somebody who is not there: that one holds up all who wait with it.
LEMMA OpenGivesUp ==
    ASSUME BarrierTypes, OpenInv, NEW g \in Guest, NEW r \in Guest, GivesUp(g, r)
    PROVE  OpenInv'
<1> USE DEF BarrierTypes, BarrierTypeOK, guestVars, headsetVars
<1> DEFINE s == checker[g].from
           k == checker[g].kind
<1>1. /\ k \in Kind /\ r \in present /\ ~There(g, r) /\ Published(g)
      /\ checker' = [checker EXCEPT ![g] = Idle]
      /\ unsure' = (unsure \/ r \in hidden
                           \/ (stage[r] <= s /\ (spot[r] > stage[r] \/ told[r].dest > stage[r])))
      /\ UNCHANGED <<present, spot, wish, said, told, giving>>
  BY DEF GivesUp, Busy, Unread
<1>2. \A x \in Guest : x # g => checker'[x] = checker[x]
  BY <1>1
<1>3. \A x : (Sent(x)' <=> Sent(x)) /\ (SyncSent(x)' <=> SyncSent(x))
  BY <1>1 DEF Sent, SyncSent
<1>4. OwnWords'
  BY <1>1 DEF OpenInv, OwnWords
<1>5. CASE unsure'
  BY <1>4, <1>5, OpenUnsure
<1>6. CASE ~unsure'
  <2>1. ~unsure /\ r \notin hidden
    BY <1>1, <1>6
  <2>2. stage[r] <= s /\ (k = "move" => ~(ready[r] /\ stage[r] = s)) /\ (k = "sync" => stage[r] < s)
    BY <1>1, <2>1 DEF There, StageSeen, ReadySeen, Kind, Spot
  <2>3. /\ s \in Nat /\ stage[r] \in Nat /\ giving.dest \in Nat
        /\ \A x \in Guest : spot[x] \in Nat /\ told[x].dest \in Nat
    BY DEF Spot
  <2>4. spot[r] <= stage[r] /\ told[r].dest <= stage[r]
    <3>1. ~(spot[r] > stage[r] \/ told[r].dest > stage[r])
      BY <1>1, <1>6, <2>2
    <3>2. QED
      BY <2>3, <3>1
  <2>5. ForcedOn' /\ GivenToAll'
    BY <1>1, <1>3, <2>1 DEF OpenInv, ForcedOn, GivenToAll
  <2>6. ASSUME NEW x \in present PROVE Flagged(x)'
    <3>1. Flagged(x) /\ x \in Guest /\ (UNCHANGED checker[x] \/ x = g)
      BY <1>2, <2>1, <2>6 DEF OpenInv
    <3>2. QED
      BY <1>1, <3>1, PublishedFlagged
  <2>7. ASSUME NEW x \in present, wish[x] # "none" PROVE Served(x)'
    <3>1. Served(x) /\ x \in Guest
      BY <2>1, <2>7 DEF OpenInv
    <3>2. CASE Sent(x) \/ SyncSent(x)
      BY <1>3, <3>2 DEF Served
    <3>3. CASE ~Sent(x) /\ k = wish[x] /\ s = spot[x]
      <4>1. spot[r] = s /\ wish[r] = k => said[r] # Nothing
        <5> SUFFICES ASSUME spot[r] = s, wish[r] = k, said[r] = Nothing PROVE FALSE
          OBVIOUS
        <5>1. stage[r] = s /\ k = "move" /\ ~ready[r]
          <6>1. stage[r] = s
            <7>1. stage[r] <= s /\ spot[r] <= stage[r] /\ spot[r] = s
              BY <2>2, <2>4
            <7>2. stage[r] \in Nat /\ s \in Nat
              BY <2>3
            <7>3. \A a, b \in Nat : a <= b /\ b <= a => a = b
              OBVIOUS
            <7>4. s <= stage[r]
              BY <7>1, Zenon
            <7>5. QED
              BY <7>1, <7>2, <7>3, <7>4, Zenon
          <6>2. k # "sync" /\ k \in {"move", "sync"}
            BY <1>1, <2>2, <2>3, <6>1 DEF Kind
          <6>3. QED
            BY <2>2, <6>1, <6>2
        <5>2. Sent(r)
          BY <1>1, <2>1, <5>1 DEF OpenInv, Flagged
        <5>3. giving.kind = "move" /\ giving.dest > s
          BY <2>3, <2>4, <5>1, <5>2 DEF Sent
        <5>4. x \in giving.todo \/ told[x].dest >= giving.dest \/ spot[x] >= giving.dest
          BY <2>1, <5>3 DEF OpenInv, GivenToAll
        <5>5. QED
          BY <2>3, <3>1, <3>3, <5>3, <5>4 DEF Sent
      <4>2. Holds(r, spot[x], wish[x])'
        BY <1>1, <2>2, <2>3, <2>4, <3>3, <4>1 DEF Holds
      <4>3. QED
        BY <1>1, <4>2 DEF Served
    <3>4. CASE ~(Sent(x) \/ SyncSent(x)) /\ ~(k = wish[x] /\ s = spot[x])
      <4>1. ASSUME NEW q \in present, Holds(q, spot[x], wish[x])
            PROVE  Holds(q, spot[x], wish[x])'
        BY <1>1, <1>2, <3>4, <4>1 DEF Holds
      <4>2. QED
        BY <1>1, <3>1, <3>4, <4>1 DEF Served
    <3>5. QED
      BY <3>2, <3>3, <3>4
  <2>8. QED
    BY <1>1, <1>4, <2>5, <2>6, <2>7 DEF OpenInv
<1>7. QED
  BY <1>5, <1>6

\* Every step keeps what is known of the commands.
LEMMA OpenStep ==
    BarrierTypes /\ OpenInv /\ [BarrierNext]_barrierVars => OpenInv'
<1> SUFFICES ASSUME BarrierTypes, OpenInv, [BarrierNext]_barrierVars PROVE OpenInv'
  OBVIOUS
<1>0. present \subseteq Guest
  BY DEF BarrierTypes, BarrierTypeOK
<1> USE DEF guestVars, playerVars, headsetVars
<1>1. ASSUME NEW g \in Guest, Heartbeat(g) PROVE OpenInv'
  <2>1. /\ stage' = [stage EXCEPT ![g] = spot[g]] /\ stage[g] # spot[g] /\ ~Busy(g)
        /\ UNCHANGED <<guestVars, ready, checker, hidden, headsetVars, giving, unsure, bound>>
    BY <1>1 DEF Heartbeat
  <2>2. ASSUME ~unsure, NEW x \in present PROVE Flagged(x)'
    <3>1. Flagged(x) /\ x \in Guest
      BY <1>0, <2>2 DEF OpenInv
    <3>2. stage'[x] = stage[x] \/ stage'[x] = spot[x]
      BY <2>1, <3>1 DEF BarrierTypes, BarrierTypeOK
    <3>3. QED
      BY <2>1, <3>1, <3>2 DEF Flagged, Sent
  <2>3. QED
    BY <1>0, <2>1, <2>2, OpenFrame
<1>2. ASSUME NEW g \in Guest, Publish(g) \/ Posts(g) \/ \E r \in Guest : Passes(g, r)
      PROVE  OpenInv'
  <2>1. UNCHANGED <<guestVars, headsetVars, giving, unsure>>
    BY <1>2 DEF Publish, Posts, Passes
  <2>2. \A x \in Guest : /\ checker'[x].kind = checker[x].kind
                         /\ checker'[x].from = checker[x].from
    BY <1>2 DEF Publish, Posts, Passes, BarrierTypes, BarrierTypeOK
  <2>3. ASSUME ~unsure, NEW x \in present PROVE Flagged(x)'
    <3>1. Flagged(x) /\ x \in Guest
      BY <1>0, <2>3 DEF OpenInv
    <3>2. CASE \E r \in Guest : Passes(g, r)
      <4>1. UNCHANGED <<stage, ready, hidden>>
        BY <3>2 DEF Passes
      <4>2. QED
        BY <2>1, <2>2, <3>1, <4>1 DEF Flagged, Sent
    <3>3. CASE Publish(g) \/ Posts(g)
      <4>1. Published(g) /\ (UNCHANGED checker[x] \/ x = g)
        BY <3>1, <3>3 DEF Publish, Posts, BarrierTypes, BarrierTypeOK
      <4>2. QED
        BY <2>1, <3>1, <4>1, PublishedFlagged
    <3>4. QED
      BY <1>2, <3>2, <3>3
  <2>4. QED
    BY <1>0, <2>1, <2>2, <2>3, OpenFrame
<1>3. ASSUME NEW g \in Guest, FindsNobody(g) PROVE OpenInv'
  BY <1>3 DEF FindsNobody, OpenInv, OwnWords, ForcedOn, GivenToAll
<1>4. ASSUME NEW g \in Guest, Leaves(g) PROVE OpenInv'
  <2>1. /\ present' = present \ {g} /\ unsure' /\ giving = NoCommand /\ giving' = giving
        /\ wish' = [wish EXCEPT ![g] = "none"] /\ spot' = [spot EXCEPT ![g] = 1]
        /\ said' = [said EXCEPT ![g] = Nothing] /\ told' = [told EXCEPT ![g] = NoMove]
    BY <1>4 DEF Leaves, Selects
  <2>2. OwnWords'
    BY <2>1 DEF OpenInv, OwnWords, NoMove, NoCommand, BarrierTypes, BarrierTypeOK
  <2>3. QED
    BY <2>1, <2>2, OpenUnsure
<1>5. ASSUME NEW q \in Guest, NEW d \in 1..(bound.top + 1), ForceOne(q, d) PROVE OpenInv'
  <2>1. /\ told' = [told EXCEPT ![q] = Then(@, d, TRUE)] /\ q \in present /\ unsure'
        /\ UNCHANGED <<present, wish, said, spot, giving>>
    BY <1>5 DEF ForceOne
  <2>2. \A x \in Guest \ present : told'[x] = told[x]
    BY <2>1 DEF BarrierTypes, BarrierTypeOK
  <2>3. OwnWords'
    BY <2>1, <2>2 DEF OpenInv, OwnWords
  <2>4. QED
    BY <2>1, <2>3, OpenUnsure
<1>6. ASSUME NEW d \in 1..(bound.top + 1), ForceAll(d) PROVE OpenInv'
  <2>1. OwnWords' /\ unsure'
    BY <1>6 DEF ForceAll, Begun, NoCommand, OpenInv, OwnWords
  <2>2. QED
    BY <2>1, OpenUnsure
<1>7. CASE UNCHANGED barrierVars
  BY <1>0, <1>7, OpenFrame DEF barrierVars, OpenInv, Flagged, Sent
<1>8. CASE BarrierNext
  BY <1>1, <1>2, <1>3, <1>4, <1>5, <1>6, <1>8, OpenSays, OpenMoves, OpenBegins, OpenJoins,
     OpenTakes, OpenGivesMove, OpenGivesSync, OpenGivesUp DEF BarrierNext
<1>9. QED
  BY <1>7, <1>8

\* Where all wait for each other the command to go on has been given, whatever the order in
\* which the readers look at each other, headsets move and Run gives out commands.
THEOREM BarrierSound == BarrierSpec => []BarrierIsSound
<1>1. BarrierTypes /\ OpenInv => BarrierIsSound
  <2> SUFFICES ASSUME BarrierTypes, OpenInv, AtRest, ~unsure, NEW g \in present, Complete(g)
               PROVE  FALSE
    BY DEF BarrierIsSound, BarrierTypes, StagesOpen
  <2>1. Served(g) /\ g \in Guest
    BY DEF OpenInv, Complete, BarrierTypes, BarrierTypeOK
  <2>2. \A q \in present : told[q].dest = 0 /\ said[q] = Nothing /\ checker[q].kind = "none"
    BY DEF AtRest, NoMove, Busy, BarrierTypes, BarrierTypeOK
  <2>3. ~Sent(g) /\ ~SyncSent(g)
    BY <2>2 DEF Sent, SyncSent, AtRest, Selects, NoCommand, BarrierTypes, BarrierTypeOK, Spot
  <2>4. PICK q \in present : Holds(q, spot[g], wish[g])
    BY <2>1, <2>3 DEF Served
  <2>5. q \in Guest /\ spot[q] \in Nat /\ spot[g] \in Nat
    BY <2>1 DEF BarrierTypes, BarrierTypeOK, Spot
  <2>6. spot[q] = spot[g] /\ wish[q] = wish[g] /\ wish[g] # "none"
    BY <2>4, <2>5 DEF Holds, Complete
  <2>7. QED
    BY <2>2, <2>4, <2>6 DEF Holds
<1>2. QED
  BY <1>1, BarrierTypesInit, BarrierTypesStep, OpenStart, OpenStep, PTL DEF BarrierSpec
=============================================================================
