--------------------------- MODULE ControlCommands ---------------------------
(***************************************************************************)
(* The commands of the control page                                         *)
(* (client/src/app/rooms/[id]/control/page.tsx): move all players, move or  *)
(* renumber one, start or stop the app on one, from the panel of the        *)
(* selected device.                                                         *)
(*                                                                          *)
(* Requests of several devices are under way together, and the marks that   *)
(* disable their buttons are kept in sets that each handler changes when it *)
(* starts and when it ends.                                                 *)
(***************************************************************************)
EXTENDS ApiClient

CONSTANTS
    Player,        \* devices of the page
    Chapter,       \* what the selects offer
    Unset          \* no device, no chapter

ASSUME CommandAssumption == Unset \notin Player \cup Chapter

VARIABLES
    present,       \* displayDeviceIds
    chosen,        \* selectedDeviceId
    panel,         \* actionPanelOpen
    target,        \* selectedDeviceMoveTarget
    option,        \* selectedOption
    notice,        \* moveState
    marks,         \* forceMovePendingIds and sequencePendingIds
    allPending,    \* forceMovePending
    command,       \* deviceCommandPending
    requests       \* requests under way

commandVars == <<present, chosen, panel, target, option, notice, marks, allPending, command,
                 requests>>

Kind == {"move", "sequence"}
OneRequest == [kind : Kind \cup {"launch", "stop"}, device : Player]
AllRequest == [kind : {"all"}, device : {Unset}]

CommandTypeOK ==
    /\ present \subseteq Player /\ chosen \in Player \cup {Unset}
    /\ panel \in BOOLEAN /\ target \in Chapter \cup {Unset} /\ option \in Chapter \cup {Unset}
    /\ notice \in {"", "success", "failed"}
    /\ marks \in [Kind -> SUBSET Player] /\ allPending \in BOOLEAN
    /\ command \in {"", "launch", "stop"}
    /\ requests \subseteq OneRequest \cup AllRequest

CommandInit ==
    /\ present = {} /\ chosen = Unset /\ panel = FALSE /\ target = Unset /\ option = Unset
    /\ notice = "" /\ marks = [k \in Kind |-> {}] /\ allPending = FALSE /\ command = ""
    /\ requests = {}

----------------------------------------------------------------------------
\* Another list of devices, and the effect that drops a selection that has left.
Devices(S) ==
    /\ S # present /\ present' = S
    /\ IF chosen \in S \cup {Unset} THEN UNCHANGED <<chosen, panel>>
       ELSE chosen' = Unset /\ panel' = FALSE
    /\ UNCHANGED <<target, option, notice, marks, allPending, command, requests>>

\* A card, a marker or a view is selected, with the keyboard also behind the
\* panel: what was entered in the panel stays.
SelectDevice(d) ==
    /\ d \in present /\ chosen # d /\ chosen' = d
    /\ UNCHANGED <<present, panel, target, option, notice, marks, allPending, command, requests>>

\* handleOpenDeviceActions
OpenActions(d) ==
    /\ d \in present /\ chosen' = d /\ target' = Unset /\ panel' = TRUE
    /\ UNCHANGED <<present, option, notice, marks, allPending, command, requests>>

CloseActions ==
    /\ panel /\ panel' = FALSE
    /\ UNCHANGED <<present, chosen, target, option, notice, marks, allPending, command, requests>>

ChooseTarget(c) ==
    /\ panel /\ target # c /\ target' = c
    /\ UNCHANGED <<present, chosen, panel, option, notice, marks, allPending, command, requests>>

ChooseOption(c) ==
    /\ option # c /\ option' = c
    /\ UNCHANGED <<present, chosen, panel, target, notice, marks, allPending, command, requests>>

\* handleForceMoveSingle and handleChangeSequence of the device in the panel; the
\* button is disabled while the device is marked.
ClickOne(k) ==
    /\ panel /\ chosen \notin marks[k] /\ (k = "move" => target # Unset)
    /\ marks' = [marks EXCEPT ![k] = @ \cup {chosen}]
    /\ requests' = requests \cup {[kind |-> k, device |-> chosen]}
    /\ UNCHANGED <<present, chosen, panel, target, option, notice, allPending, command>>

\* handleForceAllMove
ClickAll ==
    /\ option # Unset /\ ~allPending /\ allPending' = TRUE
    /\ requests' = requests \cup AllRequest
    /\ UNCHANGED <<present, chosen, panel, target, option, notice, marks, command>>

\* handleExecuteSingleAction: one at a time on the whole page.
ClickCommand(k) ==
    /\ panel /\ command = "" /\ command' = k
    /\ requests' = requests \cup {[kind |-> k, device |-> chosen]}
    /\ UNCHANGED <<present, chosen, panel, target, option, notice, marks, allPending>>

\* (mutant) one that ends unmarks all
UnmarkedAll(k, d) == marks' = [marks EXCEPT ![k] = {}]

\* `finally': an update of the set as it is then, not as it was at the click.
Unmarked(k, d) == marks' = [marks EXCEPT ![k] = @ \ {d}]

\* A request is answered, refused or lost; none of these calls looks for a refusal,
\* and only a loss is told.
Ended(r) ==
    /\ r \in requests /\ requests' = requests \ {r}
    /\ \E reply \in Reply :
         IF r.kind # "all" THEN UNCHANGED notice
         ELSE notice' = IF Outcome(simpleApi.forceAllMove, reply) = "thrown"
                        THEN "failed" ELSE "success"
    /\ IF r.kind \in Kind THEN Unmarked(r.kind, r.device) ELSE UNCHANGED marks
    /\ IF r.kind = "all" THEN allPending' = FALSE ELSE UNCHANGED allPending
    /\ IF r.kind \in {"launch", "stop"} THEN command' = "" ELSE UNCHANGED command
    /\ UNCHANGED <<present, chosen, panel, target, option>>

\* The timer of the effect on moveState, 2 s later: the option goes with it, also
\* one chosen meanwhile.
NoticeEnds ==
    /\ notice # "" /\ notice' = "" /\ option' = Unset
    /\ UNCHANGED <<present, chosen, panel, target, marks, allPending, command, requests>>

CommandNext ==
    \/ \E S \in SUBSET Player : Devices(S)
    \/ \E d \in Player : SelectDevice(d) \/ OpenActions(d)
    \/ CloseActions
    \/ \E c \in Chapter \cup {Unset} : ChooseTarget(c) \/ ChooseOption(c)
    \/ \E k \in Kind : ClickOne(k)
    \/ ClickAll
    \/ \E k \in {"launch", "stop"} : ClickCommand(k)
    \/ \E r \in OneRequest \cup AllRequest : Ended(r)
    \/ NoticeEnds

----------------------------------------------------------------------------
(* Properties *)

\* Whatever requests are under way for whatever devices, in whatever order they
\* end: exactly the buttons of those are disabled.
MarksTellRequests ==
    /\ \A k \in Kind, d \in Player : d \in marks[k] <=> [kind |-> k, device |-> d] \in requests
    /\ allPending <=> AllRequest \subseteq requests
    /\ \A k \in {"launch", "stop"} :
         command = k <=> \E d \in Player : [kind |-> k, device |-> d] \in requests
=============================================================================
