----------------------------- MODULE ConsolePages -----------------------------
(***************************************************************************)
(* The pages of the console that share nothing but the server they ask: one *)
(* of them is open, in a browser of its own, and the others are closed.     *)
(* Each module keeps its own state; a run of this one goes through all.     *)
(***************************************************************************)
EXTENDS MonitoringSwitch, AutoReconnectTable, SettingsPage, RoomForm, CatalogPage,
        BatchModal, ControlCommands, RoomMinimap, AppFrame

VARIABLE page      \* what is open

consoleVars == <<page, switchVars, tableVars, settingsVars, formVars, catalogVars, modalVars,
                 commandVars, mapVars, frameVars>>

Page == {"switch", "table", "settings", "form", "catalog", "modal", "commands", "map", "frame"}

Init ==
    /\ page \in Page
    /\ SwitchInit /\ TableInit /\ SettingsInit /\ CatalogInit /\ CommandInit
    /\ IF page = "form" THEN FormInit ELSE FormClosed
    /\ IF page = "modal" THEN ModalInit ELSE ModalClosed
    /\ IF page = "map" THEN MapInit ELSE MapClosed
    /\ IF page = "frame" THEN FrameInit ELSE FrameClosed

OnlyOn(p) ==
    /\ page = p /\ page' = p
    /\ p # "switch" => UNCHANGED switchVars
    /\ p # "table" => UNCHANGED tableVars
    /\ p # "settings" => UNCHANGED settingsVars
    /\ p # "form" => UNCHANGED formVars
    /\ p # "catalog" => UNCHANGED catalogVars
    /\ p # "modal" => UNCHANGED modalVars
    /\ p # "commands" => UNCHANGED commandVars
    /\ p # "map" => UNCHANGED mapVars
    /\ p # "frame" => UNCHANGED frameVars

Next ==
    \/ OnlyOn("switch") /\ SwitchNext
    \/ OnlyOn("table") /\ TableNext
    \/ OnlyOn("settings") /\ SettingsNext
    \/ OnlyOn("form") /\ FormNext
    \/ OnlyOn("catalog") /\ CatalogNext
    \/ OnlyOn("modal") /\ ModalNext
    \/ OnlyOn("commands") /\ CommandNext
    \/ OnlyOn("map") /\ MapNext
    \/ OnlyOn("frame") /\ FrameNext

TypeOK ==
    /\ page \in Page
    /\ SwitchTypeOK /\ TableTypeOK /\ SettingsTypeOK /\ FormTypeOK /\ CatalogTypeOK
    /\ ModalTypeOK /\ CommandTypeOK /\ MapTypeOK /\ FrameTypeOK

----------------------------------------------------------------------------
(* Fairness *)

\* A handler that has begun goes on; what it waits for is answered or fails.  The
\* mutex of the monitoring service is handed on in turn (Go's is, after 1 ms).

On(p, A) == page = p /\ A

Fairness ==
    /\ WF_switchVars(On("switch", StatusPoll)) /\ WF_switchVars(On("switch", StatusStep))
    /\ WF_switchVars(On("switch", ToggleStep)) /\ WF_switchVars(On("switch", OnceStep))
    /\ SF_switchVars(On("switch", OnceRound))
    /\ \A l \in Loop :
         /\ WF_switchVars(On("switch", Enters(l))) /\ WF_switchVars(On("switch", Returns(l)))
         /\ SF_switchVars(On("switch", LoopRound(l)))
    /\ WF_catalogVars(On("catalog", ListAsked)) /\ WF_catalogVars(On("catalog", ListAnswered))
    /\ \A S \in SUBSET Item : WF_catalogVars(On("catalog", ListApplied(S)))
    /\ \A i \in Item : WF_catalogVars(On("catalog", DeleteStep(i)))
    /\ \A h \in Handler : WF_tableVars(On("table", Proceed(h)))
    /\ \A f \in Form : WF_settingsVars(On("settings", SaveStep(f)))
    /\ WF_mapVars(On("map", Reloaded))

Spec == Init /\ [][Next]_consoleVars /\ Fairness

----------------------------------------------------------------------------
(* What the pages promise in the end *)

\* The switch of the monitoring section ends up showing what the service does,
\* and the lists of rooms and actions what the server has.
ShownInTheEnd ==
    <>[](/\ page = "switch" => SwitchIsTrue
         /\ page = "catalog" => CatalogIsTrue)

\* No button stays disabled: every handler comes to its end, answered or not, and
\* takes its mark away.
ControlsComeBack ==
    /\ SwitchComesBack /\ HandlersEnd /\ SavesEnd /\ DeletesEnd

\* What the pages settle to, once answers, timers and ticks have come.
PagesSettle == StoppedLoopsEnd /\ ShownInTheEnd /\ ControlsComeBack /\ SilentIsShown

----------------------------------------------------------------------------
(* What they promise at every moment *)

\* No page's own state comes apart: selections and marks are those of the modal
\* and the requests there are, the plan is that of the players, and the frame
\* leaves nothing on the window.
PagesAreSound ==
    /\ TypeOK
    /\ SelectionIsOfThisModal /\ MarksTellRequests
    /\ MarkersAreRight /\ ArrowsPointAhead
    /\ NoListenerIsLeft

\* What a form or a table shows is what the server has, and saving it keeps what
\* the operator has not touched, under the conditions each of them names.
FormsAreTrue == TableIsTrue /\ UnmarkedFormIsStored /\ SavingKeepsTheActions

----------------------------------------------------------------------------
(* The instance that is checked. *)

Heads == {[x |-> 0, z |-> 1], [x |-> 2, z |-> -3]}
Gazes == {[x |-> 0, z |-> 1], [x |-> -1, z |-> -1], [x |-> 0, z |-> 0]}
Drawn == {-2, 1}
=============================================================================
