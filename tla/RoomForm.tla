------------------------------- MODULE RoomForm -------------------------------
(***************************************************************************)
(* The edit form of a room, client/src/components/console/room-form.tsx in  *)
(* app/rooms/[id]/page.tsx, as far as it chooses the actions that start and *)
(* stop the app, and what the control page makes of the saved choice.       *)
(*                                                                          *)
(* Older rooms name their actions in batch_action_ids.  The form moves them *)
(* to the two explicit choices when the actions have been loaded, and saves *)
(* an empty batch.  The server lists the actions in no fixed order.         *)
(***************************************************************************)
EXTENDS ApiClient, SequencesExt

CONSTANTS
    Action,        \* the actions there have been
    Launches       \* those of type launch_app; the others are stop_app

ASSUME RoomFormAssumption == IsFiniteSet(Action) /\ Launches \subseteq Action /\ "" \notin Action

VARIABLES
    existing,    \* the actions the server has
    room,        \* operation_profile of the room on the server
    before,      \* history: what it was when the form was opened
    fields,      \* formData, once the room is loaded
    actions,     \* the list the form has loaded, or << >>
    submit,      \* where the page is
    sent,        \* the profile sent, and whether the list was there
    picked       \* history: kinds the operator has chosen an action for

formVars == <<existing, room, before, fields, actions, submit, sent, picked>>

ActionKind == {"launch", "stop"}
OfKind(k) == IF k = "launch" THEN Launches ELSE Action \ Launches
Choice == [ActionKind -> Action \cup {""}]

\* A profile: the two choices, and the batch in its order.
Batches == {<< >>} \cup {<<a>> : a \in Action} \cup {<<a, b>> : a \in Action, b \in Action}
Unchosen == [k \in ActionKind |-> ""]
NoProfile == [choice |-> Unchosen, batch |-> << >>]
Profile == [choice : Choice, batch : Batches]

FormTypeOK ==
    /\ existing \subseteq Action
    /\ {room, before, fields} \subseteq Profile
    /\ sent \in [choice : Choice, listed : BOOLEAN]
    /\ actions \in {<< >>} \cup SetToSeqs(existing)
    /\ submit \in {"loading", "missing", "edit", "sent", "answered", "failed", "left"}
    /\ picked \subseteq ActionKind

\* Not opened yet.
FormClosed ==
    /\ existing = {} /\ room = NoProfile /\ before = NoProfile /\ fields = NoProfile
    /\ actions = << >> /\ submit = "loading" /\ sent = [choice |-> Unchosen, listed |-> FALSE]
    /\ picked = {}

\* Any room; an action may have been deleted since.
FormInit ==
    /\ existing \in {S \in SUBSET Action : Cardinality(Action \ S) <= 1}
    /\ \E c \in {f \in Choice : \A k \in ActionKind : f[k] \in OfKind(k) \cup {""}}, b \in Batches :
          /\ (Len(b) = 2 => b[1] # b[2])
          /\ room = [choice |-> c, batch |-> b]
    /\ before = room /\ fields = NoProfile
    /\ actions = << >> /\ submit = "loading" /\ sent = [choice |-> Unchosen, listed |-> FALSE]
    /\ picked = {}

----------------------------------------------------------------------------
\* The first of a list that is in S, or none.
FirstOf(s, S) ==
    LET hits == {i \in 1..Len(s) : s[i] \in S} IN
    IF hits = {} THEN "" ELSE s[CHOOSE i \in hits : \A j \in hits : i <= j]

\* A choice that is empty takes the first action of the list, of its kind, that the
\* batch names.
Filled(f, list) ==
    [f EXCEPT !.choice = [k \in ActionKind |->
        IF f.choice[k] # "" THEN f.choice[k]
        ELSE FirstOf(list, ToSet(f.batch) \cap OfKind(k))]]

\* (mutant) the other choice alone stops the migration
MigratedAlone(f, list) ==
    IF (\E k \in ActionKind : f.choice[k] # "") \/ f.batch = << >> THEN f ELSE Filled(f, list)

\* The effect on a list that has come.
Migrated(f, list) ==
    IF (\A k \in ActionKind : f.choice[k] # "") \/ f.batch = << >> THEN f ELSE Filled(f, list)

\* The page loads the room and mounts the form with it; of no room it says so.
RoomLoaded ==
    /\ submit = "loading"
    /\ \/ fields' = room /\ submit' = "edit"
       \/ /\ \E reply \in Reply \ {"done"} :
                submit' = IF Outcome(roomApi.get, reply) = "thrown" THEN "left" ELSE "missing"
          /\ UNCHANGED fields
    /\ UNCHANGED <<existing, room, before, actions, sent, picked>>

\* loadActions, and the effect; a load that fails leaves no actions to choose.
ActionsLoaded(list) ==
    /\ submit \in {"edit", "sent"} /\ actions = << >> /\ list # << >>
    /\ actions' = list
    /\ fields' = Migrated(fields, list)
    /\ UNCHANGED <<existing, room, before, submit, sent, picked>>

\* The select of a kind, there once the actions are.  (Bound: one choice; and
\* what is picked while a submit is under way only matters when that fails.)
Pick(k, a) ==
    /\ submit = "edit" /\ picked = {}
    /\ \E i \in 1..Len(actions) : actions[i] \in OfKind(k)
    /\ a \in (ToSet(actions) \cap OfKind(k)) \cup {""}
    /\ fields' = [fields EXCEPT !.choice[k] = a]
    /\ picked' = picked \cup {k}
    /\ UNCHANGED <<existing, room, before, actions, submit, sent>>

\* handleSubmit: texts that do not parse are told and nothing is sent.
Submit ==
    /\ submit = "edit" /\ submit' = "sent"
    /\ sent' = [choice |-> fields.choice, listed |-> actions # << >>]
    /\ UNCHANGED <<existing, room, before, fields, actions, picked>>

\* PATCH replaces the profile; the batch is sent empty.
SubmitServed ==
    /\ submit = "sent"
    /\ \/ /\ room' = [choice |-> sent.choice, batch |-> << >>]
          /\ \/ submit' = "answered"
             \/ submit' = "failed"
       \/ submit' = "failed" /\ UNCHANGED room
    /\ UNCHANGED <<existing, before, fields, actions, sent, picked>>

\* The page leaves, or the form can be submitted again.
SubmitEnds ==
    /\ \/ submit = "answered" /\ submit' = "left"
       \/ submit = "failed" /\ submit' = "edit"
    /\ UNCHANGED <<existing, room, before, fields, actions, sent, picked>>

FormNext ==
    \/ RoomLoaded \/ Submit \/ SubmitServed \/ SubmitEnds
    \/ \E list \in SetToSeqs(existing) : ActionsLoaded(list)
    \/ \E k \in ActionKind, a \in Action \cup {""} : Pick(k, a)

----------------------------------------------------------------------------
\* resolveRoomAction of the control page: the explicit choice if it exists, else
\* the first of the batch that exists and is of the kind, else the first there is.
Resolved(p, k, list) ==
    LET named == FirstOf(p.batch, ToSet(list) \cap OfKind(k)) IN
    IF p.choice[k] \in ToSet(list) THEN p.choice[k]
    ELSE IF named # "" THEN named ELSE FirstOf(list, OfKind(k))

(* Properties *)

\* Saving the form without choosing an action leaves the buttons of the control
\* page with the action they had: also for a room that named its actions in the
\* batch.  It takes that the form had loaded the actions, that the choice was
\* empty or of an action that still exists, and that the batch did not name two
\* actions of the kind (the form takes the first of the list, the control page
\* the first of the batch).
SavingKeepsTheActions ==
    submit = "answered" =>
        \A k \in ActionKind \ picked :
            /\ sent.listed
            /\ before.choice[k] \in existing \cup {""}
            /\ Cardinality(ToSet(before.batch) \cap OfKind(k)) <= 1
            => \A list \in SetToSeqs(existing) :
                  Resolved(room, k, list) = Resolved(before, k, list)
=============================================================================
