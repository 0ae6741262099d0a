--------------------------- MODULE SequenceNumbers ---------------------------
(***************************************************************************)
(* The sequence numbers of the players of a room (sockets/sequence.go, the  *)
(* registration and the signals of Run in room.go, AssignSequence in        *)
(* control_simple.go, SyncRoomFromStore in room_runtime_manager.go).        *)
(*                                                                          *)
(* At every registration Run numbers all players: those whose device has an *)
(* assigned number get that one, the others what is free, in the order of   *)
(* their device ids.  The operator assigns a number in three steps: in the  *)
(* room, through Run to the player and in the store; a change of the room   *)
(* copies the assignments from the store meanwhile.                         *)
(***************************************************************************)
EXTENDS Integers, FiniteSets

CONSTANTS
    Link,           \* connections
    Device,         \* device ids, as numbers in the order of the names
    deviceOf,       \* the device of a connection
    Assignable,     \* bound: the numbers the operator assigns
    NoLink,
    MaxRequests     \* bound: requests of the operator

ASSUME NumbersAssumption ==
    /\ Device \subseteq Int /\ deviceOf \in [Link -> Device]
    /\ Assignable \subseteq Nat /\ NoLink \notin Link /\ MaxRequests \in Nat
    /\ IsFiniteSet(Link) /\ IsFiniteSet(Assignable)

VARIABLES
    linked,       \* Room.Players
    number,       \* Player.Sequence
    assigned,     \* Room.AssignedSequence
    stored,       \* the assignments in the room's record on disk
    assigner,     \* the HTTP handler in AssignSequence
    copier,       \* the HTTP handler in SyncRoomFromStore, with what it has read
    passedOver,   \* connections the last numbering left out
    touched,      \* the assignments have changed since the last numbering
    diverged,     \* a copy overlapped an assignment, or the store forgot a device
    requests      \* bound: requests so far

numberVars == <<linked, number, assigned, stored, assigner, copier, passedOver, touched,
                diverged, requests>>

NoNumber == -1
Numbers == Assignable \cup 0..(Cardinality(Link) + Cardinality(Assignable))
Assignment == [Device -> Assignable \cup {NoNumber}]
Unassigned == [d \in Device |-> NoNumber]
NoRequest == [step |-> "none", link |-> NoLink, seq |-> NoNumber]
NoCopy == [step |-> "none", read |-> Unassigned]

NumbersTypeOK ==
    /\ linked \subseteq Link /\ passedOver \subseteq Link
    /\ number \in [Link -> Numbers]
    /\ assigned \in Assignment /\ stored \in Assignment
    /\ assigner \in [step : {"none", "signal", "store"}, link : Link \cup {NoLink},
                     seq : Assignable \cup {NoNumber}]
    /\ copier \in [step : {"none", "read"}, read : Assignment]
    /\ touched \in BOOLEAN /\ diverged \in BOOLEAN /\ requests \in 0..MaxRequests

NumbersClosed ==
    /\ linked = {} /\ number = [l \in Link |-> 0]
    /\ assigned = Unassigned /\ stored = Unassigned
    /\ assigner = NoRequest /\ copier = NoCopy
    /\ passedOver = {} /\ touched = FALSE /\ diverged = FALSE /\ requests = 0

NumbersInit ==
    /\ linked = {} /\ number = [l \in Link |-> 0]
    /\ stored \in Assignment /\ assigned = stored
    /\ assigner = NoRequest /\ copier = NoCopy
    /\ passedOver = {} /\ touched = FALSE /\ diverged = FALSE /\ requests = 0

-----------------------------------------------------------------------------
(* PlayerSequenceUpdate. *)

Holds(l) == assigned[deviceOf[l]] # NoNumber
Used(S) == {assigned[deviceOf[l]] : l \in {m \in S : Holds(m)}}

\* (mutant) the numbers that are in use are not skipped
CountedFree(S, j) == j - 1

\* The j-th number that no player of S has been assigned.
Free(S, j) ==
    CHOOSE n \in Numbers : /\ n \notin Used(S)
                           /\ Cardinality((0..n) \ Used(S)) = j

\* The place of the last entry of device d in the sorted list of names.
Place(S, d) == Cardinality({l \in S : ~Holds(l) /\ deviceOf[l] <= d})

\* Of the players of one device the map holds one, which gets the number.
Chosen(S) ==
    {C \in SUBSET {l \in S : ~Holds(l)} :
        \A l \in S : ~Holds(l) => Cardinality({m \in C : deviceOf[m] = deviceOf[l]}) = 1}

Numbering(S, C) ==
    [l \in Link |-> IF l \in S /\ Holds(l) THEN assigned[deviceOf[l]]
                    ELSE IF l \in C THEN Free(S, Place(S, deviceOf[l]))
                    ELSE number[l]]

\* Run takes a registration.
Registers(l) ==
    /\ l \notin linked
    /\ linked' = linked \cup {l}
    /\ \E C \in Chosen(linked \cup {l}) :
          /\ number' = Numbering(linked \cup {l}, C)
          /\ passedOver' = {m \in linked \cup {l} : ~Holds(m)} \ C
    /\ touched' = FALSE
    /\ UNCHANGED <<assigned, stored, assigner, copier, diverged, requests>>

\* A player leaves; nobody is numbered anew.
Unlinks(l) ==
    /\ l \in linked
    /\ linked' = linked \ {l} /\ passedOver' = passedOver \ {l}
    /\ number' = [number EXCEPT ![l] = 0]
    /\ UNCHANGED <<assigned, stored, assigner, copier, touched, diverged, requests>>

-----------------------------------------------------------------------------
(* Assignments. *)

Assigns(l, n) ==
    /\ assigner = NoRequest /\ l \in linked /\ requests < MaxRequests
    /\ requests' = requests + 1
    /\ assigned' = [assigned EXCEPT ![deviceOf[l]] = n]
    /\ assigner' = [step |-> "signal", link |-> l, seq |-> n]
    /\ touched' = TRUE
    /\ diverged' = (diverged \/ copier # NoCopy)
    /\ UNCHANGED <<linked, number, stored, copier, passedOver>>

\* Run takes the signal: the player gets what its device is assigned by then.
TakesSignal ==
    /\ assigner.step = "signal"
    /\ number' = IF Holds(assigner.link) /\ assigner.link \in linked
                 THEN [number EXCEPT ![assigner.link] = assigned[deviceOf[assigner.link]]]
                 ELSE number
    /\ assigner' = [assigner EXCEPT !.step = "store"]
    /\ UNCHANGED <<linked, assigned, stored, copier, passedOver, touched, diverged, requests>>

\* updateAssignedSequence.
StoresAssignment ==
    /\ assigner.step = "store"
    /\ stored' = [stored EXCEPT ![deviceOf[assigner.link]] = assigner.seq]
    /\ assigner' = NoRequest
    /\ UNCHANGED <<linked, number, assigned, copier, passedOver, touched, diverged, requests>>

\* SyncRoomFromStore: the assignments are read from the store ...
ReadsStore ==
    /\ copier = NoCopy /\ requests < MaxRequests
    /\ requests' = requests + 1
    /\ copier' = [step |-> "read", read |-> stored]
    /\ diverged' = (diverged \/ assigner # NoRequest)
    /\ UNCHANGED <<linked, number, assigned, stored, assigner, passedOver, touched>>

\* ... and replace those of the room.
Replaces ==
    /\ copier # NoCopy
    /\ assigned' = copier.read /\ copier' = NoCopy
    /\ touched' = (touched \/ assigned' # assigned)
    /\ UNCHANGED <<linked, number, stored, assigner, passedOver, diverged, requests>>

\* A device is taken out of the room's record, but not out of the running room.
Forgets(d) ==
    /\ requests < MaxRequests /\ stored[d] # NoNumber
    /\ requests' = requests + 1
    /\ stored' = [stored EXCEPT ![d] = NoNumber]
    /\ diverged' = TRUE
    /\ UNCHANGED <<linked, number, assigned, assigner, copier, passedOver, touched>>

NumbersNext ==
    \/ \E l \in Link : Registers(l) \/ Unlinks(l) \/ \E n \in Assignable : Assigns(l, n)
    \/ TakesSignal \/ StoresAssignment \/ ReadsStore \/ Replaces
    \/ \E d \in Device : Forgets(d)

NumbersSpec == NumbersInit /\ [][NumbersNext]_numberVars

-----------------------------------------------------------------------------
(* What the players may count on. *)

\* Players of different devices have different numbers from one registration on,
\* however players join and leave around the assigned numbers, unless the operator
\* assigned one number twice, has assigned one since, or a device is connected
\* twice and the numbering has passed over one of its connections.
NumbersDiffer ==
    ~touched => \A l, m \in linked \ passedOver :
        deviceOf[l] # deviceOf[m] => number[l] # number[m] \/ (Holds(l) /\ Holds(m))

\* At rest the running room has the assignments that a restart will read, unless a
\* copy overlapped an assignment or a device was taken out of the record.
AssignmentsAreStored ==
    assigner = NoRequest /\ copier = NoCopy => assigned = stored \/ diverged

\* What the operator and the headsets may count on.
SequencesAreSound == NumbersTypeOK /\ NumbersDiffer /\ AssignmentsAreStored
=============================================================================
