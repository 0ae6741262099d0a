----------------------------- MODULE SettingsPage -----------------------------
(***************************************************************************)
(* The forms of client/src/app/settings/page.tsx: the preferences, the      *)
(* scrcpy configuration and the interval of the monitoring.                 *)
(*                                                                          *)
(* The forms may be edited while a save is under way.  The answer of        *)
(* preferenceApi.update replaces the form by what the server stored; the    *)
(* other two answers say nothing of the stored value.                       *)
(***************************************************************************)
EXTENDS ApiClient

CONSTANT MaxUnsaved   \* bound: requests of the page that are lost

ASSUME SettingsAssumption == MaxUnsaved \in Nat

VARIABLES
    loadStage,     \* where loadSettings is
    stored,      \* what the server has
    form,        \* what is shown: preference, scrcpyConfig, monitoringInterval
    changed,     \* preferenceChanged, scrcpyConfigChanged
    saving,      \* savingPreference, ...: the value sent, and where the handler is
    meanwhile,   \* history: edited since the save was sent
    unsaved,     \* requests lost
    focus        \* the form that is worked on: they share nothing once loaded

settingsVars == <<loadStage, stored, form, changed, saving, meanwhile, unsaved, focus>>

Form == {"prefs", "scrcpy", "interval"}

\* A value the server takes as it is, another one, and one it does not: out of
\* range for a preference, not a bitrate, below 1 for the interval.
Setting == {"set", "other", "wild", "clamped"}
Nothing == "none"     \* not loaded, or no value sent

SettingsTypeOK ==
    /\ loadStage \in {"scrcpy", "prefs", "ready"}
    /\ stored \in [Form -> Setting \ {"wild"}]
    /\ form \in [Form -> Setting \cup {Nothing}]
    /\ changed \in [Form -> BOOLEAN] /\ meanwhile \in [Form -> BOOLEAN]
    /\ saving \in [Form -> [stage : {"idle", "sent", "saved", "failed", "stuck"}, value : Setting \cup {Nothing}]]
    /\ unsaved \in 0..MaxUnsaved /\ focus \in Form \cup {Nothing}
    /\ \A f \in Form : changed[f] => form[f] # Nothing

Unsent == [stage |-> "idle", value |-> Nothing]

\* The interval is not loaded: the page shows its own default.
SettingsInit ==
    /\ loadStage = "scrcpy"
    /\ stored = [f \in Form |-> "set"]
    /\ form = [f \in Form |-> IF f = "interval" THEN "set" ELSE Nothing]
    /\ changed = [f \in Form |-> FALSE] /\ meanwhile = [f \in Form |-> FALSE]
    /\ saving = [f \in Form |-> Unsent] /\ unsaved = 0 /\ focus = Nothing

WorkOn(f) == focus \in {Nothing, f} /\ focus' = f
Lose == unsaved < MaxUnsaved /\ unsaved' = unsaved + 1

----------------------------------------------------------------------------
\* loadSettings: the configuration first, then the preferences; when the first
\* fails the second is not asked for.
LoadSettings ==
    /\ loadStage # "ready"
    /\ \/ /\ form' = [form EXCEPT ![loadStage] = stored[loadStage]]
          /\ loadStage' = (IF loadStage = "scrcpy" THEN "prefs" ELSE "ready")
          /\ UNCHANGED unsaved
       \/ Lose /\ loadStage' = "ready" /\ UNCHANGED form
    /\ UNCHANGED <<stored, changed, saving, meanwhile, focus>>

\* handlePreferenceChange, handleScrcpyConfigChange, the input of the interval.
Edit(f, v) ==
    /\ loadStage = "ready" /\ form[f] # Nothing /\ WorkOn(f)
    /\ form' = [form EXCEPT ![f] = v]
    /\ changed' = [changed EXCEPT ![f] = f # "interval"]
    /\ meanwhile' = [meanwhile EXCEPT ![f] = saving[f].stage # "idle"]
    /\ UNCHANGED <<loadStage, stored, saving, unsaved>>

\* The configuration has a validity, told by the form at each change.
Valid(f) == f = "scrcpy" => form[f] # "wild"

\* The Save buttons: one save at a time, of the form as it is now.
Save(f) ==
    /\ loadStage = "ready" /\ saving[f].stage = "idle" /\ WorkOn(f)
    /\ changed[f] \/ f = "interval"
    /\ form[f] # Nothing /\ Valid(f)
    /\ saving' = [saving EXCEPT ![f] = [stage |-> "sent", value |-> form[f]]]
    /\ meanwhile' = [meanwhile EXCEPT ![f] = FALSE]
    /\ UNCHANGED <<loadStage, stored, form, changed, unsaved>>

\* What the server keeps of a value: a preference is brought into its range.
Kept(f, v) == IF f = "prefs" /\ v = "wild" THEN "clamped" ELSE v
Refuses(f, v) == f # "prefs" /\ v = "wild"

SaveCall(f) ==
    CASE f = "prefs" -> preferenceApi.update
      [] f = "scrcpy" -> scrcpyApi.updateConfig
      [] f = "interval" -> monitoringApi.setInterval
Answers(f, reply) == saving' = [saving EXCEPT ![f].stage =
                                    IF Outcome(SaveCall(f), reply) = "answer" THEN "saved" ELSE "failed"]

\* The server stores the value or refuses it; request or answer may be lost.
SaveServed(f) ==
    /\ saving[f].stage = "sent"
    /\ \/ Refuses(f, saving[f].value) /\ Answers(f, "refused") /\ UNCHANGED <<stored, unsaved>>
       \/ Lose /\ Answers(f, "lost") /\ UNCHANGED stored
       \/ /\ ~Refuses(f, saving[f].value)
          /\ stored' = [stored EXCEPT ![f] = Kept(f, saving[f].value)]
          /\ \/ Answers(f, "done") /\ UNCHANGED unsaved
             \/ Answers(f, "lost") /\ Lose
    /\ UNCHANGED <<loadStage, form, changed, meanwhile, focus>>

\* The answer: the mark goes, and the preferences are shown as they were stored.
Saved(f) ==
    /\ saving[f].stage = "saved"
    /\ changed' = [changed EXCEPT ![f] = FALSE]
    /\ form' = (IF f = "prefs" THEN [form EXCEPT ![f] = Kept(f, saving[f].value)] ELSE form)
    /\ saving' = [saving EXCEPT ![f] = Unsent]
    /\ UNCHANGED <<loadStage, stored, meanwhile, unsaved, focus>>

\* The save failed: the operator is told, the mark stays.
SaveFailed(f) ==
    /\ saving[f].stage = "failed"
    /\ saving' = [saving EXCEPT ![f] = Unsent]
    /\ UNCHANGED <<loadStage, stored, form, changed, meanwhile, unsaved, focus>>

SaveStep(f) == SaveServed(f) \/ Saved(f) \/ SaveFailed(f)

SettingsNext ==
    \/ LoadSettings
    \/ \E f \in Form : Save(f) \/ SaveStep(f)
    \/ \E f \in Form, v \in Setting \ {"clamped"} : Edit(f, v)

----------------------------------------------------------------------------
(* Properties *)

\* A form without the mark of a change shows what the server has: after a load,
\* a save, a failed save, a save of a value the server changed.  The scrcpy
\* form is excepted when it was edited while its save was under way: the mark
\* is taken from the newer edit too, which can then not be saved.
UnmarkedFormIsStored ==
    \A f \in {"prefs", "scrcpy"} :
        /\ form[f] # Nothing /\ ~changed[f] /\ saving[f].stage = "idle"
        /\ f = "scrcpy" => ~meanwhile[f]
        => form[f] = stored[f]

\* A save ends, and its button comes back.
SavesEnd == \A f \in Form : []<>(saving[f].stage = "idle")
=============================================================================
