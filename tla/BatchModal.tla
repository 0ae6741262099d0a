------------------------------ MODULE BatchModal ------------------------------
(***************************************************************************)
(* Running an action on several devices: the selection modal                *)
(* (device-selection-modal.tsx) as the actions page (app/actions/page.tsx)  *)
(* and the control page (app/rooms/[id]/control/page.tsx) use it.           *)
(*                                                                          *)
(* The modal can be closed while its batch is running on the server.  The   *)
(* control page lets no other be opened until the batch is answered; the    *)
(* actions page does, and the answer to the first batch then closes the     *)
(* modal of the second and forgets what was selected in it.                 *)
(***************************************************************************)
EXTENDS ApiClient

CONSTANTS
    Headset, Task,
    NoTask,
    MaxOpenings    \* bound: openings of the modal

ASSUME ModalAssumption == NoTask \notin Task /\ MaxOpenings \in Nat

VARIABLES
    where,       \* the page
    online,      \* devices shown as online
    open,        \* showExecuteModal, batchModalOpen
    task,        \* selectedAction
    selected,    \* selectedDevices, batchSelectedDeviceIds
    batch,       \* executePending: the batch under way
    opening      \* number of the opening that is shown, or was last

modalVars == <<where, online, open, task, selected, batch, opening>>

Batch == [stage : {"none", "sent", "answered", "failed"}, task : Task \cup {NoTask},
          ids : SUBSET Headset, opening : 0..MaxOpenings]
NoBatch == [stage |-> "none", task |-> NoTask, ids |-> {}, opening |-> 0]

ModalTypeOK ==
    /\ where \in {"actions", "control"} /\ online \subseteq Headset
    /\ open \in BOOLEAN /\ task \in Task \cup {NoTask}
    /\ selected \subseteq Headset /\ batch \in Batch
    /\ opening \in 0..MaxOpenings
    /\ batch.stage # "none" => batch.ids # {} /\ batch.task \in Task

ModalClosed ==
    /\ where = "actions" /\ online = {} /\ open = FALSE /\ task = NoTask /\ selected = {}
    /\ batch = NoBatch /\ opening = 0

ModalInit ==
    /\ where \in {"actions", "control"} /\ online = Headset
    /\ open = FALSE /\ task = NoTask /\ selected = {}
    /\ batch = NoBatch /\ opening = 0

Opens(t, chosen) ==
    /\ ~open /\ opening < MaxOpenings
    /\ open' = TRUE /\ task' = t /\ selected' = chosen /\ opening' = opening + 1
    /\ UNCHANGED <<where, online, batch>>

\* handleExecute of the actions page.
OpenOnActions(t) == where = "actions" /\ Opens(t, selected)

\* (mutant) the buttons are not disabled while a batch is under way
OpenOnControlAnytime(t) == where = "control" /\ online # {} /\ Opens(t, online)

\* handleOpenBatchActionModal of the control page: with all online devices.
OpenOnControl(t) == where = "control" /\ batch.stage = "none" /\ online # {} /\ Opens(t, online)

\* A load of the page brings other statuses; the selection stays.
StatusChanges(d) ==
    /\ online' = (IF d \in online THEN online \ {d} ELSE online \cup {d})
    /\ UNCHANGED <<where, open, task, selected, batch, opening>>

\* The box of a device is disabled while it is shown offline, ticked or not.
Toggle(d) ==
    /\ open /\ d \in online
    /\ selected' = (IF d \in selected THEN selected \ {d} ELSE selected \cup {d})
    /\ UNCHANGED <<where, online, open, task, batch, opening>>

SelectAllOnline ==
    /\ open /\ selected' = online
    /\ UNCHANGED <<where, online, open, task, batch, opening>>

\* onClose; only the actions page forgets the action.
Close ==
    /\ open /\ open' = FALSE /\ selected' = {}
    /\ task' = (IF where = "actions" THEN NoTask ELSE task)
    /\ UNCHANGED <<where, online, batch, opening>>

\* handleConfirmExecute, handleConfirmBatch.
Confirm ==
    /\ open /\ selected # {} /\ batch.stage = "none"
    /\ batch' = [stage |-> "sent", task |-> task, ids |-> selected, opening |-> opening]
    /\ UNCHANGED <<where, online, open, task, selected, opening>>

\* The server runs the batch, or refuses it, which the call does not look at.
BatchServed ==
    /\ batch.stage = "sent"
    /\ \E reply \in Reply :
         batch' = [batch EXCEPT !.stage = IF Outcome(actionApi.executeBatch, reply) = "answer"
                                          THEN "answered" ELSE "failed"]
    /\ UNCHANGED <<where, online, open, task, selected, opening>>

\* The rest of the handler: the modal is closed, whichever is open; a failure is
\* only told.
BatchEnds ==
    /\ batch.stage \in {"answered", "failed"} /\ batch' = NoBatch
    /\ IF batch.stage = "answered"
       THEN /\ open' = FALSE /\ selected' = {}
            /\ task' = (IF where = "actions" THEN NoTask ELSE task)
       ELSE UNCHANGED <<open, selected, task>>
    /\ UNCHANGED <<where, online, opening>>

BatchStep == BatchServed \/ BatchEnds

ModalNext ==
    \/ \E t \in Task : OpenOnActions(t) \/ OpenOnControl(t)
    \/ \E d \in Headset : StatusChanges(d) \/ Toggle(d)
    \/ SelectAllOnline \/ Close \/ Confirm \/ BatchStep

----------------------------------------------------------------------------
(* Properties *)

\* What is selected was selected in the modal that is open: nothing of an earlier
\* one, or of one whose batch has ended meanwhile, comes along into the next.
SelectionIsOfThisModal == ~open => selected = {}

\* On the control page a modal is closed by the operator, or by the end of the
\* batch that was confirmed in it, never by the end of another.
ModalIsClosedByItsOwn ==
    [][where = "control" /\ open /\ ~open' /\ batch.stage = "answered" /\ batch'.stage = "none"
         => batch.opening = opening]_modalVars
=============================================================================
