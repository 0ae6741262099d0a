----------------------------- MODULE CatalogPage -----------------------------
(***************************************************************************)
(* The lists of rooms (client/src/app/rooms/page.tsx) and of actions        *)
(* (client/src/app/actions/page.tsx): a load every 5 s, nothing keeps two   *)
(* loads from being under way together or from answering out of order, and  *)
(* a Delete button in each row.                                             *)
(*                                                                          *)
(* The two pages have the same handlers.  Another console deletes and       *)
(* creates too.                                                             *)
(***************************************************************************)
EXTENDS ApiClient

CONSTANTS
    Item,
    MaxLoads,      \* bound: loads under way
    MaxMade,       \* bound: items other consoles create
    MaxAstray      \* bound: requests that are lost or refused by a failing server

ASSUME CatalogAssumption == MaxLoads \in Nat \ {0} /\ MaxMade \in Nat /\ MaxAstray \in Nat

VARIABLES
    there,       \* the items the server has
    listed,      \* rooms or actions, as the page has them
    loads,       \* loadData calls under way: not answered, or with an answer
    deleting,    \* roomPending or actionPending, and where the handler is
    made, astray

catalogVars == <<there, listed, loads, deleting, made, astray>>

ListCall == [answered : BOOLEAN, got : SUBSET Item]
Unanswered == [answered |-> FALSE, got |-> {}]
Answer(S) == [answered |-> TRUE, got |-> S]

CatalogTypeOK ==
    /\ there \subseteq Item /\ listed \subseteq Item
    /\ loads \subseteq ListCall /\ Cardinality(loads) <= MaxLoads
    /\ deleting \in [Item -> {"idle", "sent", "load", "loading", "failed"}]
    /\ made \in 0..MaxMade /\ astray \in 0..MaxAstray

CatalogInit ==
    /\ there = Item /\ listed = {} /\ loads = {}
    /\ deleting = [i \in Item |-> "idle"] /\ made = 0 /\ astray = 0

Astray == astray < MaxAstray /\ astray' = astray + 1
Deleting(i, stage) == deleting' = [deleting EXCEPT ![i] = stage]

----------------------------------------------------------------------------
OtherCreates(i) ==
    /\ i \notin there /\ made < MaxMade
    /\ there' = there \cup {i} /\ made' = made + 1
    /\ UNCHANGED <<listed, loads, deleting, astray>>

OtherDeletes(i) ==
    /\ i \in there /\ there' = there \ {i}
    /\ UNCHANGED <<listed, loads, deleting, made, astray>>

\* The effect of the first render and its interval.
ListAsked ==
    /\ Unanswered \notin loads /\ Cardinality(loads) < MaxLoads
    /\ loads' = loads \cup {Unanswered}
    /\ UNCHANGED <<there, listed, deleting, made, astray>>

\* getAll, done, refused or lost: a refusal is an empty list.
ListAnswered ==
    /\ Unanswered \in loads
    /\ \/ loads' = (loads \ {Unanswered}) \cup {Answer(there)} /\ UNCHANGED astray
       \/ /\ Astray /\ Outcome(roomApi.getAll, "refused") = "empty"
          /\ loads' = (loads \ {Unanswered}) \cup {Answer({})}
       \/ Astray /\ loads' = loads \ {Unanswered}
    /\ UNCHANGED <<there, listed, deleting, made>>

\* setRooms, setActions: in the order the answers come.
ListApplied(S) ==
    /\ Answer(S) \in loads
    /\ listed' = S /\ loads' = loads \ {Answer(S)}
    /\ UNCHANGED <<there, deleting, made, astray>>

\* handleDelete, confirmed; the button of the row is disabled while it is under way.
ClickDelete(i) ==
    /\ i \in listed /\ deleting[i] = "idle" /\ Deleting(i, "sent")
    /\ UNCHANGED <<there, listed, loads, made, astray>>

\* The server deletes the item, or refuses as it is gone; the answer may be lost.
DeleteServed(i) ==
    /\ deleting[i] = "sent"
    /\ there' = there \ {i}
    /\ \/ /\ Deleting(i, IF Outcome(roomApi.delete, IF i \in there THEN "done" ELSE "refused") = "answer"
                     THEN "load" ELSE "failed")
          /\ UNCHANGED astray
       \/ Astray /\ Deleting(i, "failed")
    /\ UNCHANGED <<listed, loads, made>>

\* The handler's own load: it waits for it, and ends when it is applied or fails.
OwnLoadAsked(i) ==
    /\ deleting[i] = "load" /\ Deleting(i, "loading")
    /\ UNCHANGED <<there, listed, loads, made, astray>>

OwnLoadEnds(i) ==
    /\ deleting[i] = "loading" /\ Deleting(i, "idle")
    /\ \/ listed' = there /\ UNCHANGED astray
       \/ Astray /\ UNCHANGED listed
    /\ UNCHANGED <<there, loads, made>>

DeleteFailed(i) ==
    /\ deleting[i] = "failed" /\ Deleting(i, "idle")
    /\ UNCHANGED <<there, listed, loads, made, astray>>

DeleteStep(i) == DeleteServed(i) \/ OwnLoadAsked(i) \/ OwnLoadEnds(i) \/ DeleteFailed(i)
Apply == \E S \in SUBSET Item : ListApplied(S)

CatalogNext ==
    \/ ListAsked \/ ListAnswered \/ Apply
    \/ \E i \in Item : OtherCreates(i) \/ OtherDeletes(i) \/ ClickDelete(i) \/ DeleteStep(i)

----------------------------------------------------------------------------
(* Properties *)

\* What the page should end up showing, after answers that came late, a list
\* emptied by a refusal, an item shown again that was deleted.
CatalogIsTrue == listed = there

\* The Delete button of a row comes back, or the row goes.
DeletesEnd == \A i \in Item : []<>(deleting[i] = "idle")
=============================================================================
