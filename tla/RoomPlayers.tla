----------------------------- MODULE RoomPlayers -----------------------------
(***************************************************************************)
(* What the players of a room do, of which this project looks at one part   *)
(* at a time: how they get into the hub and out of it (RoomHub), how those  *)
(* that are in it go from stage to stage (StageBarrier) and how they answer *)
(* and take snapshots (QABoard).  Each module has players of its own that   *)
(* come and go; in a behaviour one of the three moves and the others stand  *)
(* still, so a run of this module goes through all.                         *)
(***************************************************************************)
EXTENDS RoomHub, StageBarrier, QABoard, TLC

VARIABLE part      \* what moves

Part == {"hub", "stages", "board"}
partVars == <<part, vars, barrierVars, boardVars>>

PlayersInit ==
    /\ part \in Part
    /\ Init
    /\ IF part = "stages" THEN BarrierInit ELSE BarrierClosed
    /\ IF part = "board" THEN BoardInit ELSE BoardClosed

OnlyIn(p) ==
    /\ part = p /\ part' = p
    /\ p # "hub" => UNCHANGED vars
    /\ p # "stages" => UNCHANGED barrierVars
    /\ p # "board" => UNCHANGED boardVars

PlayersNext ==
    \/ OnlyIn("hub") /\ Next
    \/ OnlyIn("stages") /\ BarrierNext
    \/ OnlyIn("board") /\ BoardNext

PlayersSpec == PlayersInit /\ [][PlayersNext]_partVars

\* Players are interchangeable, and so are questions.
Symmetry == Permutations(Guest) \cup Permutations(Question)
=============================================================================
