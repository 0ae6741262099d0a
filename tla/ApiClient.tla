------------------------------ MODULE ApiClient ------------------------------
(***************************************************************************)
(* What the calls of client/src/services/api.ts make of the server's reply. *)
(* The functions differ only in this, and the pages depend on it:           *)
(*   "checked"  a refusal is thrown;                                        *)
(*   "list"     a refusal is the empty list, `data.data || []';             *)
(*   "one"      a refusal is null, `data.data || null' (or undefined);      *)
(*   "raw"      a refusal is not looked at: the call returns as if done.    *)
(* A request or a reply that is lost is thrown by all of them.              *)
(***************************************************************************)
EXTENDS Naturals, FiniteSets

Reply == {"done", "refused", "lost"}

\* What the awaiting handler sees of a refusal ...
OfRefusal(call) ==
    CASE call = "checked" -> "thrown"
      [] call = "list" -> "empty"
      [] call = "one" -> "nothing"
      [] call = "raw" -> "answer"

\* ... and of any reply: the answer, an empty or a missing one, or an exception.
Outcome(call, reply) ==
    CASE reply = "done" -> "answer"
      [] reply = "refused" -> OfRefusal(call)
      [] reply = "lost" -> "thrown"

roomApi ==
    [getAll |-> "list", get |-> "one",
     create |-> "checked", replace |-> "checked", patch |-> "checked", delete |-> "checked",
     addDevice |-> "checked", removeDevice |-> "checked"]

\* The batch calls are split off, as deviceBatchApi: connect, ping and status
\* return the body whatever it says.
deviceApi ==
    [getAll |-> "list", getIsolation |-> "list", getUSBDevices |-> "list", get |-> "one",
     create |-> "checked", replace |-> "checked", patch |-> "checked", delete |-> "checked",
     connect |-> "checked", disconnect |-> "checked", enableUSBTCPIP |-> "checked",
     getStatus |-> "checked", ping |-> "checked"]

deviceBatchApi ==
    [connectBatch |-> "raw", pingBatch |-> "raw", getStatusBatch |-> "raw",
     setAutoReconnectEnabledBatch |-> "checked", resetAutoReconnect |-> "checked",
     resetAutoReconnectBatch |-> "checked"]

activityApi ==
    [createDraft |-> "checked", listByRoom |-> "list", getCurrentByRoom |-> "checked",
     get |-> "one", start |-> "checked", end |-> "checked", cancel |-> "checked",
     getResults |-> "checked", getContext |-> "checked"]

\* The mirrors of /control and /simple do not read the body at all.
controlApi == [assignSeq |-> "raw"]
simpleApi == [forceAllMove |-> "raw", forceMove |-> "raw"]

actionApi ==
    [getAll |-> "list", get |-> "one",
     create |-> "checked", replace |-> "checked", patch |-> "checked", delete |-> "checked",
     execute |-> "raw", executeBatch |-> "raw"]

\* getStatus also throws on a body without a boolean.
monitoringApi ==
    [getStatus |-> "checked", start |-> "checked", stop |-> "checked",
     setInterval |-> "checked", runOnce |-> "checked"]

scrcpyApi == [getConfig |-> "one", updateConfig |-> "checked"]
preferenceApi == [get |-> "one", update |-> "checked"]
=============================================================================
