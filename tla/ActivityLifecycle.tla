------------------------- MODULE ActivityLifecycle -------------------------
(***************************************************************************)
(* What a room promises about its activities (docs/ARCHITECTURE.md,         *)
(* Activity Runtime; the checks of server/service/activity_service.go): a   *)
(* draft is started once, while no other activity of the room runs; a       *)
(* running one is ended; a draft or a running one may be cancelled; what is *)
(* over stays over.                                                         *)
(***************************************************************************)
CONSTANT Activity      \* the activities of one room

VARIABLE status        \* the status the room's users see

Status == {"draft", "running", "ended", "cancelled"}

Init == status = [a \in Activity |-> "draft"]

Start(a) ==
    /\ status[a] = "draft"
    /\ \A b \in Activity : status[b] # "running"
    /\ status' = [status EXCEPT ![a] = "running"]

End(a) ==
    /\ status[a] = "running"
    /\ status' = [status EXCEPT ![a] = "ended"]

Cancel(a) ==
    /\ status[a] \in {"draft", "running"}
    /\ status' = [status EXCEPT ![a] = "cancelled"]

Next == \E a \in Activity : Start(a) \/ End(a) \/ Cancel(a)

Spec == Init /\ [][Next]_status
=============================================================================
