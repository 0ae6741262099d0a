---------------------------- MODULE RoomActivities ----------------------------
(***************************************************************************)
(* What an activity means to the store, the room and its players: the       *)
(* requests and files (ActivityFlow), what the players are told of it       *)
(* (RoomSession) and the numbers they play under (SequenceNumbers).  Each   *)
(* module has a state of its own, with what it needs of the others as       *)
(* events that may come at any time; in a behaviour one of them moves, and  *)
(* a run of this module goes through all.                                   *)
(***************************************************************************)
EXTENDS ActivityFlow, RoomSession, SequenceNumbers

VARIABLE part      \* what moves

Part == {"flow", "session", "numbers"}
partVars == <<part, vars, sessionVars, numberVars>>

RoomInit ==
    /\ part \in Part
    /\ Init /\ SessionInit
    /\ part # "flow" => \A p \in Proc : act[p] = CHOOSE a \in Activity : TRUE
    /\ IF part = "numbers" THEN NumbersInit ELSE NumbersClosed

OnlyIn(p) ==
    /\ part = p /\ part' = p
    /\ p # "flow" => UNCHANGED vars
    /\ p # "session" => UNCHANGED sessionVars
    /\ p # "numbers" => UNCHANGED numberVars

RoomNext ==
    \/ OnlyIn("flow") /\ Next
    \/ OnlyIn("session") /\ SessionNext
    \/ OnlyIn("numbers") /\ NumbersNext

RoomSpec == RoomInit /\ [][RoomNext]_partVars

-----------------------------------------------------------------------------
(* The instance that is checked. *)

\* Connections 1 and 2 are of one device.
Devices == {1, 2, 3}
DeviceOf == [l \in 1..4 |-> IF l <= 2 THEN 1 ELSE l - 1]
=============================================================================
