-------------------------- MODULE AutoReconnectTable --------------------------
(***************************************************************************)
(* The table of devices of monitoring-management-section.tsx: which may be  *)
(* reconnected automatically, one by one and in batches.                    *)
(*                                                                          *)
(* The table is never polled.  Every handler sends its request and then     *)
(* loads all devices; the handlers of the rows, of the batch buttons and of *)
(* the first load run beside each other and their answers come in any order.*)
(* What reconnection itself does is in DeviceConnection.                    *)
(***************************************************************************)
EXTENDS Naturals, FiniteSets

CONSTANTS
    Device,
    MaxWorking,    \* bound: handlers under way together
    MaxMisses      \* bound: requests and loads that fail

ASSUME TableAssumption ==
    /\ Device # {} /\ "batch" \notin Device
    /\ MaxWorking \in Nat \ {0} /\ MaxMisses \in Nat

VARIABLES
    enabled,     \* auto_reconnect_enabled on the server
    table,       \* ... in devices of the section
    row,         \* rowPending, batchPending and a bare load: where each handler is
    crossed,     \* history: a change was served while an older answer was on its way
    missed       \* requests and loads failed

tableVars == <<enabled, table, row, crossed, missed>>

\* The handlers: of a row, and of the batch buttons.
Handler == Device \cup {"batch"}
Flags == [Device -> BOOLEAN]
RowWork == [stage : {"idle", "request", "ask", "asked", "answered", "failed"},
         ids : SUBSET Device, to : BOOLEAN, got : Flags]
None == [d \in Device |-> FALSE]
NoWork == [stage |-> "idle", ids |-> {}, to |-> FALSE, got |-> None]

TableTypeOK ==
    /\ enabled \in Flags /\ table \in Flags
    /\ row \in [Handler -> RowWork]
    /\ crossed \in BOOLEAN /\ missed \in 0..MaxMisses
    /\ \A d \in Device : row[d].ids \subseteq {d}

TableInit ==
    /\ enabled = None /\ table = None
    /\ row = [h \in Handler |-> NoWork]
    /\ crossed = FALSE /\ missed = 0

Idle(h) == row[h].stage = "idle"
Free(h) == Idle(h) /\ Cardinality({k \in Handler : ~Idle(k)}) < MaxWorking
Advance(h, stage) == row' = [row EXCEPT ![h].stage = stage]
Send(h, ids, to) == row' = [row EXCEPT ![h] = [NoWork EXCEPT !.stage = "request", !.ids = ids, !.to = to]]
Miss == missed < MaxMisses /\ missed' = missed + 1

----------------------------------------------------------------------------
\* filteredIds, as the operator has set the filters: the rows that are shown.
FilteredIds(filter) ==
    CASE filter = "all" -> Device
      [] filter = "enabled" -> {d \in Device : table[d]}
      [] filter = "disabled" -> {d \in Device : ~table[d]}
Filter == {"all", "enabled", "disabled"}

\* setAutoReconnectOne: the checkbox asks for the opposite of what it shows.
ClickRow(d) ==
    /\ Free(d)
    /\ Send(d, {d}, ~table[d])
    /\ UNCHANGED <<enabled, table, crossed, missed>>

\* resetOne and resetBatch leave the setting alone and load again.
ClickReset(h) ==
    /\ Free(h)
    /\ Send(h, {}, FALSE)
    /\ UNCHANGED <<enabled, table, crossed, missed>>

\* setAutoReconnectBatch, for the rows shown at the click.
ClickBatch(filter, to) ==
    /\ Free("batch") /\ FilteredIds(filter) # {}
    /\ Send("batch", FilteredIds(filter), to)
    /\ UNCHANGED <<enabled, table, crossed, missed>>

\* handleRefresh, and the load of the first render: no request before the load.
ClickRefresh ==
    /\ Free("batch")
    /\ Advance("batch", "ask")
    /\ UNCHANGED <<enabled, table, crossed, missed>>

\* The server changes the devices asked for, and the handler goes on to load.
Served(h) ==
    /\ row[h].stage = "request"
    /\ enabled' = [d \in Device |-> IF d \in row[h].ids THEN row[h].to ELSE enabled[d]]
    /\ crossed' = (crossed \/ \E k \in Handler : row[k].stage = "answered")
    /\ row' = [row EXCEPT ![h] = [NoWork EXCEPT !.stage = "ask"]]
    /\ UNCHANGED <<table, missed>>

\* The request, or its answer, is lost: the handler only alerts.
RequestLost(h) ==
    /\ row[h].stage = "request" /\ Miss
    /\ \/ UNCHANGED enabled
       \/ enabled' = [d \in Device |-> IF d \in row[h].ids THEN row[h].to ELSE enabled[d]]
    /\ row' = [row EXCEPT ![h] = NoWork]
    /\ UNCHANGED <<table, crossed>>

TableAsked(h) ==
    /\ row[h].stage = "ask" /\ Advance(h, "asked")
    /\ UNCHANGED <<enabled, table, crossed, missed>>

TableAnswered(h) ==
    /\ row[h].stage = "asked"
    /\ row' = [row EXCEPT ![h].stage = "answered", ![h].got = enabled]
    /\ UNCHANGED <<enabled, table, crossed, missed>>

LoadLost(h) ==
    /\ row[h].stage = "asked" /\ Miss
    /\ row' = [row EXCEPT ![h] = NoWork]
    /\ UNCHANGED <<enabled, table, crossed>>

\* setDevices, and the end of the handler.
TableApplied(h) ==
    /\ row[h].stage = "answered"
    /\ table' = row[h].got
    /\ row' = [row EXCEPT ![h] = NoWork]
    /\ UNCHANGED <<enabled, crossed, missed>>

Proceed(h) == Served(h) \/ RequestLost(h) \/ TableAsked(h) \/ TableAnswered(h) \/ LoadLost(h) \/ TableApplied(h)

TableNext ==
    \/ \E d \in Device : ClickRow(d)
    \/ \E f \in Filter, to \in BOOLEAN : ClickBatch(f, to)
    \/ ClickRefresh
    \/ \E h \in Handler : ClickReset(h) \/ Proceed(h)

----------------------------------------------------------------------------
(* Properties *)

\* When no handler is under way the table shows what the server has, although it
\* is never polled, unless something failed or a change was served while an older
\* answer was still on its way: then the older answer may be shown for good.
TableIsTrue ==
    (\A h \in Handler : Idle(h)) /\ ~crossed /\ missed = 0 => table = enabled

\* A handler comes to its end, and its row or buttons with it.
HandlersEnd == \A h \in Handler : []<>Idle(h)
=============================================================================
