------------------------- MODULE ConsolePagesProofs -------------------------
(***************************************************************************)
(* Proofs about the pages of ConsolePages, each for any set of devices,     *)
(* actions, rooms and values, any plan and any bounds: of every page an     *)
(* invariant that its own steps keep, and of the console their conjunction, *)
(* since a step of the console is a step of one page and none of the others.*)
(***************************************************************************)
EXTENDS ConsolePages, FunctionTheorems, FiniteSetTheorems, WellFoundedInduction, SequenceTheorems,
        TLAPS

-----------------------------------------------------------------------------
(* The monitoring switch. *)

\* The loop of the present channel goes on while the service runs, and with it those that
\* were not waiting when the service was started; later loops have not begun.
LoopsGoOn ==
    /\ \A l \in Loop : l > chan => loop[l] = "none"
    /\ \A l \in Loop : waits[l] <= chan
    /\ running => /\ chan \in Loop /\ loop[chan] # "none"
                  /\ Waiting(chan) => waits[chan] = chan
                  /\ Cardinality({l \in Loop : Serving(l)}) <= 1 + overlaps

\* A start the section has asked for is within the bound.
StartIsLeft == pending = "start" => chan < MaxStarts

SwitchInv == SwitchTypeOK /\ LoopsGoOn /\ StartIsLeft

-----------------------------------------------------------------------------
(* The table of devices. *)

\* As long as nothing was crossed or lost, an answer on its way is what the server has, and
\* a table that is not has a handler that goes on to load.
TableFollows ==
    ~crossed /\ missed = 0 =>
        /\ \A h \in Handler : row[h].stage = "answered" => row[h].got = enabled
        /\ table = enabled \/ \E h \in Handler : row[h].stage \in {"ask", "asked", "answered"}

TableInv == TableTypeOK /\ TableFollows

-----------------------------------------------------------------------------
(* The settings. *)

\* A form that is being saved is marked as changed; what it sent is a value.
SavedIsMarked ==
    \A f \in Form :
        saving[f].stage # "idle" => saving[f].value \in Setting /\ (f # "interval" => changed[f])

\* Only a value the server takes comes back as saved, and the server keeps it; the form of
\* the configuration is still that value when nobody has edited it since.
SavedIsStored ==
    \A f \in {"prefs", "scrcpy"} :
        /\ saving[f].stage = "saved" => stored[f] = Kept(f, saving[f].value)
        /\ f = "scrcpy" /\ saving[f].stage # "idle" /\ ~meanwhile[f] => form[f] = saving[f].value

\* Nothing is edited or saved before all is loaded.
LoadComesFirst ==
    loadStage # "ready" => \A f \in Form : saving[f].stage = "idle" /\ ~changed[f]

SettingsInv ==
    SettingsTypeOK /\ SavedIsMarked /\ SavedIsStored /\ LoadComesFirst /\ UnmarkedFormIsStored

-----------------------------------------------------------------------------
(* The form of a room. *)

\* What the form should have for a kind nobody has chosen an action for.
Expected(k) ==
    IF before.choice[k] # "" THEN before.choice[k]
    ELSE FirstOf(actions, ToSet(before.batch) \cap OfKind(k))

FieldsKept ==
    /\ submit = "loading" => room = before /\ actions = << >>
    /\ submit \in {"edit", "sent", "answered", "failed"} =>
           /\ fields.batch = before.batch
           /\ \A k \in ActionKind \ picked : fields.choice[k] = Expected(k)

SentIsExpected ==
    /\ submit \in {"sent", "answered", "failed"} /\ sent.listed =>
           /\ actions # << >>
           /\ \A k \in ActionKind \ picked : sent.choice[k] = Expected(k)
    /\ submit = "answered" => room = [choice |-> sent.choice, batch |-> << >>]

FormInv == FormTypeOK /\ FieldsKept /\ SentIsExpected

-----------------------------------------------------------------------------
(* The lists, the modal, the commands, the plan and the frame. *)

CatalogInv == CatalogTypeOK /\ IsFiniteSet(loads)

\* On the control page no modal is opened while a batch is under way: the one that is open is
\* the one the batch was confirmed in.
BatchIsOfThisModal == where = "control" /\ open /\ batch.stage # "none" => batch.opening = opening

\* An open modal is of an action.
ModalInv == ModalTypeOK /\ SelectionIsOfThisModal /\ BatchIsOfThisModal /\ (open => task \in Task)

\* The panel is of a device, and one app is started or stopped at a time.
CommandInv ==
    /\ CommandTypeOK /\ MarksTellRequests
    /\ panel => chosen \in Player
    /\ \A r, s \in requests : {r.kind, s.kind} \subseteq {"launch", "stop"} => r = s

\* A marker that shows its player as silent is right.
MapInv == MapTypeOK /\ \A a \in DOMAIN players : markers[a].stale => players[a].age > Threshold

FrameInv == FrameTypeOK /\ NoListenerIsLeft

PagesInv ==
    /\ page \in Page
    /\ SwitchInv /\ TableInv /\ SettingsInv /\ FormInv /\ CatalogInv /\ ModalInv /\ CommandInv
    /\ MapInv /\ FrameInv

-----------------------------------------------------------------------------
(* The least of a set. *)

\* A set of naturals that is not empty has a least element.
LEMMA LeastOf ==
    ASSUME NEW T \in SUBSET Nat, T # {}
    PROVE  \E x \in T : \A y \in T : x <= y
<1>1. IsWellFoundedOn({p \in Nat \X Nat : p[1] < p[2]}, Nat)
  BY NatLessThanWellFounded DEF OpToRel
<1>2. PICK x \in T : \A y \in T : <<y, x>> \notin {p \in Nat \X Nat : p[1] < p[2]}
  BY <1>1, WFMin
<1>3. ASSUME NEW y \in T PROVE x <= y
  <2>1. ~(y < x)
    BY <1>2
  <2>2. QED
    BY <2>1
<1>4. QED
  BY <1>3

-----------------------------------------------------------------------------
(* The monitoring switch keeps a loop. *)

\* Loops are finitely many.
LEMMA LoopsFinite == IsFiniteSet(Loop) /\ \A S \in SUBSET Loop : IsFiniteSet(S) /\ Cardinality(S) \in Nat
<1>1. MaxStarts \in Nat
  BY SwitchAssumption
<1>2. IsFiniteSet(Loop)
  BY <1>1, FS_Interval DEF Loop
<1>3. \A S \in SUBSET Loop : IsFiniteSet(S) /\ Cardinality(S) \in Nat
  BY <1>2, FS_Subset, FS_CardinalityType
<1>4. QED
  BY <1>2, <1>3

\* Fewer loops are counted as fewer.
LEMMA FewerLoops ==
    ASSUME NEW T \in SUBSET Loop, NEW S \in SUBSET T
    PROVE  Cardinality(S) <= Cardinality(T)
BY LoopsFinite, FS_Subset

\* Before the service is started there is no loop.
LEMMA SwitchStart == SwitchInit => SwitchInv
<1> SUFFICES ASSUME SwitchInit PROVE SwitchInv
  OBVIOUS
<1>1. MaxStarts \in Nat \ {0} /\ MaxLost \in Nat
  BY SwitchAssumption
<1>2. SwitchTypeOK
  <2>1. 0 \in 0..MaxStarts /\ 0 \in 0..MaxLost /\ 0 \in Nat
    BY <1>1
  <2>2. /\ loop \in [Loop -> {"none", "new", "first", "ready", "waiting", "locking", "round"}]
        /\ waits \in [Loop -> 0..MaxStarts]
    BY <2>1 DEF SwitchInit
  <2>3. QED
    BY <2>1, <2>2 DEF SwitchInit, SwitchTypeOK
<1>3. LoopsGoOn
  BY <1>1 DEF SwitchInit, LoopsGoOn
<1>4. StartIsLeft
  BY DEF SwitchInit, StartIsLeft
<1>5. QED
  BY <1>2, <1>3, <1>4 DEF SwitchInv

\* The types of the server's part.
ServiceTyped ==
    /\ running \in BOOLEAN /\ chan \in 0..MaxStarts
    /\ loop \in [Loop -> {"none", "new", "first", "ready", "waiting", "locking", "round"}]
    /\ waits \in [Loop -> 0..MaxStarts] /\ overlaps \in Nat

\* A start makes the loop of the new channel, beside those that were not waiting.
LEMMA StartServiceKeeps ==
    ASSUME ServiceTyped, LoopsGoOn, StartService, running \/ chan < MaxStarts
    PROVE  ServiceTyped' /\ LoopsGoOn'
<1>1. CASE running
  <2>1. UNCHANGED <<running, chan, loop, waits, overlaps>>
    BY <1>1 DEF StartService, serviceVars
  <2>2. QED
    BY <2>1 DEF ServiceTyped, LoopsGoOn, Waiting, Serving, Closed
<1>2. CASE ~running
  <2> DEFINE n == chan + 1
             old == {l \in Loop : loop[l] \notin {"none", "waiting"}}
  <2>1. /\ running' = TRUE /\ chan' = n /\ loop' = [loop EXCEPT ![n] = "new"]
        /\ overlaps' = overlaps + Cardinality(old) /\ waits' = waits
    BY <1>2 DEF StartService, Into
  <2>2. /\ chan \in Nat /\ n \in Nat /\ n > chan /\ n \in Loop /\ n \in 0..MaxStarts
    BY <1>2, SwitchAssumption DEF ServiceTyped, Loop
  <2>3. Cardinality(old) \in Nat /\ IsFiniteSet(old) /\ overlaps \in Nat
    BY LoopsFinite DEF ServiceTyped
  <2>4. /\ loop' \in [Loop -> {"none", "new", "first", "ready", "waiting", "locking", "round"}]
        /\ loop'[n] = "new" /\ \A l \in Loop \ {n} : loop'[l] = loop[l]
    BY <2>1, <2>2 DEF ServiceTyped
  <2> HIDE DEF n
  <2>5. ServiceTyped'
    <3>1. overlaps + Cardinality(old) \in Nat
      BY <2>3
    <3>2. QED
      BY <2>1, <2>2, <2>4, <3>1 DEF ServiceTyped
  <2>6. \A l \in Loop : l > n => loop'[l] = "none"
    <3>1. ASSUME NEW l \in Loop, l > n PROVE l > chan /\ l # n
      BY <2>2, <3>1 DEF Loop
    <3>2. QED
      BY <2>4, <3>1 DEF LoopsGoOn
  <2>7. \A l \in Loop : waits'[l] <= n /\ waits[l] < n
    <3>1. \A l \in Loop : waits[l] \in Nat /\ waits[l] <= chan
      BY DEF ServiceTyped, LoopsGoOn
    <3>2. \A a \in Nat : a <= chan => a <= n /\ a < n
      BY <2>2
    <3>3. QED
      BY <2>1, <3>1, <3>2
  <2>8. {l \in Loop : Serving(l)'} \subseteq old \cup {n}
    <3>1. ASSUME NEW l \in Loop \ {n}, Serving(l)' PROVE l \in old
      <4>1. loop[l] # "none" /\ ~(loop[l] = "waiting" /\ waits[l] < n)
        BY <2>1, <2>4, <3>1 DEF Serving, Closed
      <4>2. QED
        BY <2>7, <4>1
    <3>2. QED
      BY <3>1
  <2>9. Cardinality({l \in Loop : Serving(l)'}) <= 1 + overlaps'
    <3>1. Cardinality(old \cup {n}) <= Cardinality(old) + 1 /\ Cardinality(old \cup {n}) \in Nat
      <4>1. /\ IsFiniteSet(old \cup {n})
           /\ Cardinality(old \cup {n}) =
                  IF n \in old THEN Cardinality(old) ELSE Cardinality(old) + 1
        BY <2>3, FS_AddElement
      <4>2. QED
        BY <2>3, <4>1
    <3>2. old \cup {n} \in SUBSET Loop
      BY <2>2
    <3>3. Cardinality({l \in Loop : Serving(l)'}) <= Cardinality(old \cup {n})
      BY <2>8, <3>2, FewerLoops
    <3>4. Cardinality({l \in Loop : Serving(l)'}) \in Nat
      BY LoopsFinite
    <3>5. \A a, b, c, d \in Nat : a <= b /\ b <= c + 1 => a <= 1 + (d + c)
      OBVIOUS
    <3>6. QED
      BY <2>1, <2>3, <3>1, <3>3, <3>4, <3>5
  <2>10. LoopsGoOn'
    BY <2>1, <2>2, <2>4, <2>6, <2>7, <2>9 DEF LoopsGoOn, Waiting
  <2>11. QED
    BY <2>5, <2>10
<1>3. QED
  BY <1>1, <1>2 DEF ServiceTyped

\* A stop leaves the loops where they are.
LEMMA StopServiceKeeps ==
    ASSUME ServiceTyped, LoopsGoOn, StopService
    PROVE  ServiceTyped' /\ LoopsGoOn'
BY DEF StopService, ServiceTyped, LoopsGoOn

\* A loop goes from one of its places to the next.
LEMMA LoopKeeps ==
    ASSUME ServiceTyped, LoopsGoOn, NEW l \in Loop, LoopStep(l)
    PROVE  ServiceTyped' /\ LoopsGoOn'
<1>1. UNCHANGED <<running, chan, overlaps>>
  BY DEF LoopStep, Enters, TimerFires, Returns, LoopRound
<1>2. PICK s \in {"none", "first", "ready", "waiting", "locking", "round"} :
          /\ loop' = [loop EXCEPT ![l] = s]
          /\ loop[l] # "none"
          /\ s \in {"first", "waiting"} => waits' = [waits EXCEPT ![l] = chan]
          /\ s \notin {"first", "waiting"} => waits' = waits
          /\ s = "none" => loop[l] \in {"first", "waiting"} /\ Closed(waits[l])
          /\ loop[l] = "waiting" /\ s # "none" => ~Closed(waits[l])
  <2>1. CASE Enters(l)
    BY <2>1 DEF Enters, Into
  <2>2. CASE TimerFires(l)
    BY <2>2 DEF TimerFires, Into, Waiting
  <2>3. CASE Returns(l)
    BY <2>3 DEF Returns, Into, Waiting
  <2>4. CASE LoopRound(l)
    BY <2>4 DEF LoopRound, Into
  <2>5. QED
    BY <2>1, <2>2, <2>3, <2>4 DEF LoopStep
<1>3. chan \in Nat /\ chan \in 0..MaxStarts /\ \A k \in Loop : k \in Nat /\ waits[k] \in Nat
  BY SwitchAssumption DEF ServiceTyped, Loop
<1>4. ServiceTyped'
  BY <1>1, <1>2, <1>3 DEF ServiceTyped
<1>5. \A k \in Loop : /\ k # l => loop'[k] = loop[k] /\ waits'[k] = waits[k]
                      /\ k = l => loop'[k] = s /\ waits'[k] \in {waits[k], chan}
  BY <1>2 DEF ServiceTyped
<1>6. \A k \in Loop : k > chan => loop'[k] = "none"
  BY <1>2, <1>5 DEF LoopsGoOn
<1>7. \A k \in Loop : waits'[k] <= chan
  <2>1. chan <= chan
    BY <1>3
  <2>2. QED
    BY <1>5, <2>1 DEF LoopsGoOn
<1>8. ASSUME running
      PROVE  /\ chan \in Loop /\ loop'[chan] # "none"
             /\ loop'[chan] \in {"first", "waiting"} => waits'[chan] = chan
             /\ Cardinality({k \in Loop : Serving(k)'}) <= 1 + overlaps
  <2>1. /\ chan \in Loop /\ loop[chan] # "none" /\ (Waiting(chan) => waits[chan] = chan)
        /\ Cardinality({k \in Loop : Serving(k)}) <= 1 + overlaps
    BY <1>8 DEF LoopsGoOn
  <2>2. ~Closed(chan)
    BY <1>3, <1>8 DEF Closed
  <2>3. loop'[chan] # "none"
    BY <1>2, <1>5, <2>1, <2>2 DEF Waiting
  <2>4. loop'[chan] \in {"first", "waiting"} => waits'[chan] = chan
    <3>1. CASE l # chan
      BY <1>5, <2>1, <3>1 DEF Waiting
    <3>2. CASE l = chan
      BY <1>2, <1>5, <2>1, <3>2 DEF ServiceTyped
    <3>3. QED
      BY <3>1, <3>2
  <2>5. \A k \in Loop : Serving(k)' => Serving(k)
    <3>1. ASSUME NEW k \in Loop, Serving(k)', k # l PROVE Serving(k)
      BY <1>1, <1>5, <3>1 DEF Serving, Closed
    <3>2. ASSUME Serving(l)' PROVE Serving(l)
      BY <1>2, <1>5, <3>2 DEF Serving
    <3>3. QED
      BY <3>1, <3>2
  <2>6. Cardinality({k \in Loop : Serving(k)'}) <= Cardinality({k \in Loop : Serving(k)})
    BY <2>5, FewerLoops
  <2>7. /\ Cardinality({k \in Loop : Serving(k)'}) \in Nat /\ Cardinality({k \in Loop : Serving(k)}) \in Nat
        /\ overlaps \in Nat
    BY LoopsFinite DEF ServiceTyped
  <2>8. \A a, b, c \in Nat : a <= b /\ b <= 1 + c => a <= 1 + c
    OBVIOUS
  <2>9. QED
    BY <2>1, <2>3, <2>4, <2>6, <2>7, <2>8
<1>9. QED
  BY <1>1, <1>4, <1>6, <1>7, <1>8 DEF LoopsGoOn, Waiting

\* The types of the section's part.
StatusTyped ==
    /\ once \in {"none", "locking", "round", "answered"}
    /\ known \in BOOLEAN /\ shown \in BOOLEAN /\ loading \in BOOLEAN
    /\ inFlight \in {"none", "asked", "on", "off", "failed"}
    /\ pending \in {"none", "start", "stop", "refresh", "await", "runOnce", "load"}
    /\ misses \in 0..MaxLost
    /\ loading => ~known

\* The switch's invariant is that of its two parts.
LEMMA SwitchParts ==
    /\ SwitchInv <=> ServiceTyped /\ StatusTyped /\ LoopsGoOn /\ StartIsLeft
    /\ SwitchInv' <=> ServiceTyped' /\ StatusTyped' /\ LoopsGoOn' /\ StartIsLeft'
BY DEF SwitchInv, SwitchTypeOK, ServiceTyped, StatusTyped

\* Every step of the section, of another console and of the loops keeps it.
LEMMA SwitchStep == SwitchInv /\ [SwitchNext]_switchVars => SwitchInv'
<1> SUFFICES ASSUME SwitchInv, [SwitchNext]_switchVars
             PROVE  ServiceTyped' /\ StatusTyped' /\ LoopsGoOn' /\ StartIsLeft'
  BY SwitchParts
<1>a. ServiceTyped /\ StatusTyped /\ LoopsGoOn /\ StartIsLeft
  BY SwitchParts
<1>b. /\ MaxStarts \in Nat /\ MaxLost \in Nat /\ chan \in Nat /\ chan <= MaxStarts
      /\ misses \in Nat /\ (misses < MaxLost => misses + 1 \in 0..MaxLost)
  BY <1>a, SwitchAssumption DEF ServiceTyped, StatusTyped
<1>c. ASSUME StartsLeft > 0 PROVE chan < MaxStarts /\ (pending = "start" => chan + 1 < MaxStarts)
  BY <1>b, <1>c DEF StartsLeft
<1>d. StartService => chan' = chan \/ chan' = chan + 1
  BY DEF StartService, serviceVars
<1>1. ASSUME ServiceTyped', LoopsGoOn', ClientKeeps, once' \in {"none", "locking", "round", "answered"},
             chan' = chan
      PROVE  StatusTyped' /\ StartIsLeft'
  BY <1>a, <1>1 DEF StatusTyped, StartIsLeft, ClientKeeps, statusVars
<1>2. ASSUME UNCHANGED <<running, chan, loop, waits, overlaps>>
      PROVE  ServiceTyped' /\ LoopsGoOn'
  BY <1>a, <1>2 DEF ServiceTyped, LoopsGoOn, Waiting, Serving, Closed
<1>3. CASE OtherToggles
  <2>1. UNCHANGED <<once, statusVars, pending, misses>>
    BY <1>3 DEF OtherToggles, ClientKeeps, StartService, StopService, serviceVars
  <2>2. StatusTyped'
    BY <1>a, <2>1 DEF StatusTyped, statusVars
  <2>3. CASE running
    <3>1. StopService
      BY <1>3, <2>3 DEF OtherToggles
    <3>2. chan' = chan
      BY <3>1 DEF StopService
    <3>3. QED
      BY <1>a, <2>1, <2>2, <3>1, <3>2, StopServiceKeeps DEF StartIsLeft
  <2>4. CASE ~running
    <3>1. StartService /\ StartsLeft > 0
      BY <1>3, <2>4 DEF OtherToggles
    <3>2. chan < MaxStarts /\ (pending = "start" => chan + 1 < MaxStarts)
      BY <1>c, <3>1
    <3>3. ServiceTyped' /\ LoopsGoOn'
      BY <1>a, <3>1, <3>2, StartServiceKeeps
    <3>4. StartIsLeft'
      BY <1>d, <2>1, <3>1, <3>2 DEF StartIsLeft
    <3>5. QED
      BY <2>2, <3>3, <3>4
  <2>5. QED
    BY <1>a, <2>3, <2>4 DEF ServiceTyped
<1>4. CASE StatusPoll \/ StatusAnswered \/ StatusShown \/ ToggleRefreshes
  <2>1. UNCHANGED <<running, chan, loop, waits, once, overlaps>>
    BY <1>4 DEF StatusPoll, StatusAnswered, StatusShown, ToggleRefreshes, serviceVars
  <2>2. StatusTyped' /\ (pending' = "start" => pending = "start")
    <3>1. CASE StatusPoll
      BY <1>a, <3>1 DEF StatusPoll, Begin, StatusTyped, serviceVars
    <3>2. CASE StatusAnswered
      BY <1>a, <1>b, <3>2 DEF StatusAnswered, StatusTyped, serviceVars
    <3>3. CASE StatusShown
      BY <1>a, <3>3 DEF StatusShown, StatusTyped, serviceVars
    <3>4. CASE ToggleRefreshes
      BY <1>a, <3>4 DEF ToggleRefreshes, Begin, StatusTyped, serviceVars, statusVars
    <3>5. QED
      BY <1>4, <3>1, <3>2, <3>3, <3>4
  <2>3. QED
    BY <1>a, <1>2, <2>1, <2>2 DEF StartIsLeft
<1>5. CASE ClickToggle
  <2>1. /\ UNCHANGED <<serviceVars, statusVars, overlaps, misses>>
        /\ pending' = (IF shown THEN "stop" ELSE "start")
        /\ shown \/ StartsLeft > 0
    BY <1>5 DEF ClickToggle
  <2>2. StartIsLeft'
    BY <1>c, <2>1 DEF StartIsLeft, serviceVars
  <2>3. StatusTyped'
    BY <1>a, <2>1 DEF StatusTyped, serviceVars, statusVars
  <2>4. QED
    BY <1>2, <2>1, <2>2, <2>3 DEF serviceVars
<1>6. CASE ToggleServed \/ ToggleFails
  <2>1. /\ pending' \in {"refresh", "none"} /\ UNCHANGED statusVars
        /\ misses' \in 0..MaxLost
        /\ \/ UNCHANGED <<serviceVars, overlaps>>
           \/ pending = "start" /\ StartService
           \/ StopService
    BY <1>a, <1>b, <1>6 DEF ToggleServed, ToggleFails, StatusTyped
  <2>2. once' = once
    BY <2>1 DEF StartService, StopService, serviceVars
  <2>3. StatusTyped' /\ StartIsLeft'
    BY <1>a, <2>1, <2>2 DEF StatusTyped, StartIsLeft, statusVars
  <2>4. ServiceTyped' /\ LoopsGoOn'
    <3>1. CASE UNCHANGED <<serviceVars, overlaps>>
      BY <1>2, <3>1 DEF serviceVars
    <3>2. CASE pending = "start" /\ StartService
      BY <1>a, <3>2, StartServiceKeeps DEF StartIsLeft
    <3>3. CASE StopService
      BY <1>a, <3>3, StopServiceKeeps
    <3>4. QED
      BY <2>1, <3>1, <3>2, <3>3
  <2>5. QED
    BY <2>3, <2>4
<1>7. CASE ClickRunOnce \/ RunOnceEnds \/ RunOnceLoaded
  <2>1. UNCHANGED <<running, chan, loop, waits, overlaps, statusVars>>
    BY <1>7 DEF ClickRunOnce, RunOnceEnds, RunOnceLoaded, serviceVars
  <2>2. /\ once' \in {once, "locking", "none"} /\ pending' \in {"runOnce", "load", "none"}
        /\ misses' \in 0..MaxLost
    BY <1>a, <1>b, <1>7 DEF ClickRunOnce, RunOnceEnds, RunOnceLoaded, serviceVars, StatusTyped
  <2>3. StatusTyped' /\ StartIsLeft'
    BY <1>a, <2>1, <2>2 DEF StatusTyped, StartIsLeft, statusVars
  <2>4. QED
    BY <1>2, <2>1, <2>3
<1>8. CASE OnceRound
  <2>1. UNCHANGED <<running, chan, loop, waits, overlaps>> /\ ClientKeeps /\ once' \in {"round", "answered"}
    BY <1>8 DEF OnceRound
  <2>2. QED
    BY <1>1, <1>2, <2>1
<1>9. ASSUME NEW l \in Loop, LoopStep(l) PROVE SwitchInv'
  <2>1. ServiceTyped' /\ LoopsGoOn'
    BY <1>a, <1>9, LoopKeeps
  <2>2. ClientKeeps /\ UNCHANGED <<once, chan>>
    BY <1>9 DEF LoopStep, Enters, TimerFires, Returns, LoopRound
  <2>3. once' \in {"none", "locking", "round", "answered"}
    BY <1>a, <2>2 DEF StatusTyped
  <2>4. QED
    BY <1>1, <2>1, <2>2, <2>3, SwitchParts
<1>10. CASE UNCHANGED switchVars
  <2>1. StatusTyped' /\ StartIsLeft'
    BY <1>a, <1>10 DEF StatusTyped, StartIsLeft, switchVars, serviceVars, statusVars
  <2>2. QED
    BY <1>2, <1>10, <2>1 DEF switchVars, serviceVars
<1>11. QED
  BY <1>3, <1>4, <1>5, <1>6, <1>7, <1>8, <1>9, <1>10, SwitchParts
     DEF SwitchNext, ToggleStep, OnceStep, StatusStep

\* While the service runs there are loops that go on, and no more than were started over it.
LEMMA LoopsServe == SwitchInv => OneLoopServes
<1> SUFFICES ASSUME SwitchInv, running
             PROVE  /\ Cardinality({l \in Loop : Serving(l)}) >= 1
                    /\ Cardinality({l \in Loop : Serving(l)}) <= 1 + overlaps
  BY DEF OneLoopServes
<1> DEFINE serving == {l \in Loop : Serving(l)}
<1>1. /\ chan \in Loop /\ loop[chan] # "none" /\ (Waiting(chan) => waits[chan] = chan)
      /\ Cardinality(serving) <= 1 + overlaps
  BY DEF SwitchInv, LoopsGoOn
<1>2. ~Closed(chan)
  BY <1>1 DEF Closed, Loop
<1>3. chan \in serving
  BY <1>1, <1>2 DEF Serving, Waiting
<1>4. serving \in SUBSET Loop /\ IsFiniteSet(serving) /\ Cardinality(serving) \in Nat
  BY LoopsFinite
<1>5. Cardinality(serving) # 0
  BY <1>3, <1>4, FS_EmptySet
<1>6. QED
  BY <1>1, <1>4, <1>5

-----------------------------------------------------------------------------
(* The table of devices shows what the server has. *)

\* At first nothing has been loaded.
LEMMA TableStart == TableInit => TableInv
<1> SUFFICES ASSUME TableInit PROVE TableInv
  OBVIOUS
<1>1. None \in Flags /\ NoWork \in RowWork
  BY DEF None, NoWork, Flags, RowWork
<1>2. /\ row \in [Handler -> RowWork] /\ \A h \in Handler : row[h] = NoWork
      /\ enabled = None /\ table = None /\ crossed = FALSE /\ missed = 0
  BY <1>1 DEF TableInit
<1>3. NoWork.ids = {} /\ NoWork.stage = "idle"
  BY DEF NoWork
<1>4. missed \in 0..MaxMisses
  BY <1>2, TableAssumption
<1>5. \A d \in Device : row[d].ids \subseteq {d}
  BY <1>2, <1>3 DEF Handler
<1>6. TableTypeOK
  BY <1>1, <1>2, <1>4, <1>5 DEF TableTypeOK
<1>7. TableFollows
  BY <1>2, <1>3 DEF TableFollows
<1>8. QED
  BY <1>6, <1>7 DEF TableInv

\* A handler gets other work; the rest of the rows stay.
LEMMA RowsTyped ==
    ASSUME TableTypeOK, NEW h \in Handler, NEW w \in RowWork, h \in Device => w.ids \subseteq {h},
           row' = [row EXCEPT ![h] = w]
    PROVE  /\ row' \in [Handler -> RowWork] /\ row'[h] = w
           /\ \A k \in Handler \ {h} : row'[k] = row[k]
           /\ \A d \in Device : row'[d].ids \subseteq {d}
<1>1. row \in [Handler -> RowWork] /\ \A d \in Device : row[d].ids \subseteq {d}
  BY DEF TableTypeOK
<1>2. /\ row' \in [Handler -> RowWork] /\ row'[h] = w
      /\ \A k \in Handler \ {h} : row'[k] = row[k]
  BY <1>1
<1>3. \A d \in Device : row'[d].ids \subseteq {d}
  BY <1>1, <1>2 DEF Handler
<1>4. QED
  BY <1>2, <1>3

\* A miss is within the bound, and is one.
LEMMA MissCounts == missed \in 0..MaxMisses /\ Miss => missed' \in 0..MaxMisses /\ missed' # 0
BY TableAssumption DEF Miss

\* Every step of a handler, and every click, keeps the table in touch with the server.
LEMMA TableStep == TableInv /\ [TableNext]_tableVars => TableInv'
<1> SUFFICES ASSUME TableInv, [TableNext]_tableVars PROVE TableInv'
  OBVIOUS
<1>a. /\ TableTypeOK /\ TableFollows
      /\ enabled \in Flags /\ table \in Flags /\ row \in [Handler -> RowWork]
      /\ crossed \in BOOLEAN /\ missed \in 0..MaxMisses
  BY DEF TableInv, TableTypeOK
<1>b. NoWork \in RowWork /\ NoWork.ids = {} /\ NoWork.stage = "idle"
  BY DEF NoWork, RowWork, None, Flags
<1>c. \A h \in Handler : row[h] \in RowWork
  BY <1>a
<1>d. ASSUME NEW w \in RowWork, NEW s \in {"idle", "request", "ask", "asked", "answered", "failed"}
      PROVE  /\ [w EXCEPT !.stage = s] \in RowWork /\ [w EXCEPT !.stage = s].stage = s
             /\ [w EXCEPT !.stage = s].ids = w.ids /\ [w EXCEPT !.stage = s].got = w.got
  BY DEF RowWork
<1>e. \A d \in Device : d \in Handler /\ d # "batch"
  BY TableAssumption DEF Handler
<1>1. ASSUME NEW h \in Handler, NEW ids \in SUBSET Device, NEW to \in BOOLEAN, Idle(h), Send(h, ids, to),
             h \in Device => ids \subseteq {h}, UNCHANGED <<enabled, table, crossed, missed>>
      PROVE  TableInv'
  <2> DEFINE w == [NoWork EXCEPT !.stage = "request", !.ids = ids, !.to = to]
  <2>1. w \in RowWork /\ w.stage = "request" /\ w.ids = ids
    BY <1>b DEF RowWork, NoWork
  <2>2. row' = [row EXCEPT ![h] = w]
    BY <1>1 DEF Send
  <2> HIDE DEF w
  <2>3. /\ row' \in [Handler -> RowWork] /\ row'[h] = w
        /\ \A k \in Handler \ {h} : row'[k] = row[k]
        /\ \A d \in Device : row'[d].ids \subseteq {d}
    BY <1>1, <1>a, <2>1, <2>2, RowsTyped
  <2>4. TableTypeOK'
    BY <1>1, <1>a, <2>3 DEF TableTypeOK
  <2>5. row[h].stage = "idle"
    BY <1>1 DEF Idle
  <2>6. TableFollows'
    BY <1>1, <1>a, <2>1, <2>3, <2>5 DEF TableFollows
  <2>7. QED
    BY <2>4, <2>6 DEF TableInv
<1>2. ASSUME NEW h \in Handler, NEW s \in {"ask", "asked"}, row[h].stage \in {"idle", "ask"},
             Advance(h, s), UNCHANGED <<enabled, table, crossed, missed>>
      PROVE  TableInv'
  <2> DEFINE w == [row[h] EXCEPT !.stage = s]
  <2>1. w \in RowWork /\ w.stage = s /\ w.ids = row[h].ids
    <3>1. row[h] \in RowWork /\ s \in {"idle", "request", "ask", "asked", "answered", "failed"}
      BY <1>c
    <3>2. QED
      BY <1>d, <3>1
  <2>2. row' = [row EXCEPT ![h] = w]
    BY <1>2, <1>a DEF Advance
  <2>3. h \in Device => w.ids \subseteq {h}
    BY <1>a, <2>1 DEF TableTypeOK
  <2> HIDE DEF w
  <2>4. /\ row' \in [Handler -> RowWork] /\ row'[h] = w
        /\ \A k \in Handler \ {h} : row'[k] = row[k]
        /\ \A d \in Device : row'[d].ids \subseteq {d}
    BY <1>a, <2>1, <2>2, <2>3, RowsTyped
  <2>5. TableTypeOK'
    BY <1>2, <1>a, <2>4 DEF TableTypeOK
  <2>6. TableFollows'
    BY <1>2, <1>a, <2>1, <2>4 DEF TableFollows
  <2>7. QED
    BY <2>5, <2>6 DEF TableInv
<1>3. ASSUME NEW h \in Handler, row' = [row EXCEPT ![h] = NoWork], enabled' \in Flags, table' \in Flags,
             crossed' = crossed, missed' \in 0..MaxMisses,
             \/ missed' # 0
             \/ /\ row[h].stage = "answered" /\ table' = row[h].got
                /\ UNCHANGED <<enabled, missed>>
      PROVE  TableInv'
  <2>1. /\ row' \in [Handler -> RowWork] /\ row'[h] = NoWork
        /\ \A k \in Handler \ {h} : row'[k] = row[k]
        /\ \A d \in Device : row'[d].ids \subseteq {d}
    BY <1>3, <1>a, <1>b, RowsTyped
  <2>2. TableTypeOK'
    BY <1>3, <1>a, <2>1 DEF TableTypeOK
  <2>3. TableFollows'
    BY <1>3, <1>a, <1>b, <2>1 DEF TableFollows
  <2>4. QED
    BY <2>2, <2>3 DEF TableInv
<1>4. ASSUME NEW h \in Handler, row[h].stage = "request"
      PROVE  [d \in Device |-> IF d \in row[h].ids THEN row[h].to ELSE enabled[d]] \in Flags
  BY <1>a, <1>c DEF Flags, RowWork
<1>5. ASSUME NEW h \in Handler, Served(h) PROVE TableInv'
  <2> DEFINE w == [NoWork EXCEPT !.stage = "ask"]
  <2>1. w \in RowWork /\ w.stage = "ask" /\ w.ids = {}
    BY <1>b, <1>d
  <2>2. /\ row[h].stage = "request" /\ row' = [row EXCEPT ![h] = w]
        /\ enabled' = [d \in Device |-> IF d \in row[h].ids THEN row[h].to ELSE enabled[d]]
        /\ crossed' = (crossed \/ \E k \in Handler : row[k].stage = "answered")
        /\ UNCHANGED <<table, missed>>
    BY <1>5 DEF Served
  <2> HIDE DEF w
  <2>3. /\ row' \in [Handler -> RowWork] /\ row'[h] = w
        /\ \A k \in Handler \ {h} : row'[k] = row[k]
        /\ \A d \in Device : row'[d].ids \subseteq {d}
    BY <1>a, <2>1, <2>2, RowsTyped
  <2>4. enabled' \in Flags /\ crossed' \in BOOLEAN
    BY <1>4, <1>a, <2>2
  <2>5. TableTypeOK'
    BY <1>a, <2>2, <2>3, <2>4 DEF TableTypeOK
  <2>6. TableFollows'
    BY <1>a, <2>1, <2>2, <2>3 DEF TableFollows
  <2>7. QED
    BY <2>5, <2>6 DEF TableInv
<1>6. ASSUME NEW h \in Handler, TableAnswered(h) PROVE TableInv'
  <2> DEFINE w == [row[h] EXCEPT !.stage = "answered", !.got = enabled]
  <2>1. w \in RowWork /\ w.stage = "answered" /\ w.ids = row[h].ids /\ w.got = enabled
    BY <1>a, <1>c DEF RowWork
  <2>2. /\ row[h].stage = "asked" /\ row' = [row EXCEPT ![h] = w]
        /\ UNCHANGED <<enabled, table, crossed, missed>>
    BY <1>6, <1>a DEF TableAnswered
  <2>3. h \in Device => w.ids \subseteq {h}
    BY <1>a, <2>1 DEF TableTypeOK
  <2> HIDE DEF w
  <2>4. /\ row' \in [Handler -> RowWork] /\ row'[h] = w
        /\ \A k \in Handler \ {h} : row'[k] = row[k]
        /\ \A d \in Device : row'[d].ids \subseteq {d}
    BY <1>a, <2>1, <2>2, <2>3, RowsTyped
  <2>5. TableTypeOK'
    BY <1>a, <2>2, <2>4 DEF TableTypeOK
  <2>6. TableFollows'
    BY <1>a, <2>1, <2>2, <2>4 DEF TableFollows
  <2>7. QED
    BY <2>5, <2>6 DEF TableInv
<1>7. ASSUME NEW h \in Handler, RequestLost(h) \/ LoadLost(h) PROVE TableInv'
  <2>1. Miss /\ row' = [row EXCEPT ![h] = NoWork] /\ UNCHANGED <<table, crossed>>
    BY <1>7 DEF RequestLost, LoadLost
  <2>2. enabled' \in Flags
    BY <1>4, <1>7, <1>a DEF RequestLost, LoadLost
  <2>3. missed' \in 0..MaxMisses /\ missed' # 0
    BY <1>a, <2>1, MissCounts
  <2>4. QED
    BY <1>3, <1>a, <2>1, <2>2, <2>3
<1>8. ASSUME NEW h \in Handler, TableApplied(h) PROVE TableInv'
  <2>1. /\ row[h].stage = "answered" /\ table' = row[h].got /\ row' = [row EXCEPT ![h] = NoWork]
        /\ UNCHANGED <<enabled, crossed, missed>>
    BY <1>8 DEF TableApplied
  <2>2. table' \in Flags
    BY <1>c, <2>1 DEF RowWork
  <2>3. QED
    BY <1>3, <1>a, <2>1, <2>2
<1>9. ASSUME NEW h \in Handler, TableAsked(h) PROVE TableInv'
  BY <1>2, <1>9 DEF TableAsked
<1>10. ASSUME NEW d \in Device, ClickRow(d) PROVE TableInv'
  <2>1. Idle(d) /\ Send(d, {d}, ~table[d]) /\ UNCHANGED <<enabled, table, crossed, missed>>
    BY <1>10 DEF ClickRow, Free
  <2>2. (~table[d]) \in BOOLEAN /\ {d} \in SUBSET Device
    OBVIOUS
  <2>3. QED
    BY <1>1, <1>e, <2>1, <2>2
<1>11. ASSUME NEW h \in Handler, ClickReset(h) PROVE TableInv'
  <2>1. Idle(h) /\ Send(h, {}, FALSE) /\ UNCHANGED <<enabled, table, crossed, missed>>
    BY <1>11 DEF ClickReset, Free
  <2>2. QED
    BY <1>1, <2>1
<1>12. ASSUME NEW f \in Filter, NEW to \in BOOLEAN, ClickBatch(f, to) PROVE TableInv'
  <2>1. /\ Idle("batch") /\ Send("batch", FilteredIds(f), to)
        /\ UNCHANGED <<enabled, table, crossed, missed>>
    BY <1>12 DEF ClickBatch, Free
  <2>2. FilteredIds(f) \in SUBSET Device /\ "batch" \in Handler /\ "batch" \notin Device
    BY TableAssumption DEF FilteredIds, Filter, Handler
  <2>3. QED
    BY <1>1, <2>1, <2>2
<1>13. CASE ClickRefresh
  <2>1. /\ row["batch"].stage = "idle" /\ Advance("batch", "ask") /\ "batch" \in Handler
        /\ UNCHANGED <<enabled, table, crossed, missed>>
    BY <1>13 DEF ClickRefresh, Free, Idle, Handler
  <2>2. QED
    BY <1>2, <2>1
<1>14. CASE UNCHANGED tableVars
  BY <1>a, <1>14 DEF tableVars, TableInv, TableTypeOK, TableFollows
<1>15. QED
  BY <1>5, <1>6, <1>7, <1>8, <1>9, <1>10, <1>11, <1>12, <1>13, <1>14 DEF TableNext, Proceed

\* With no handler under way nothing is about to be loaded: the table is what the server has.
LEMMA TableTrue == TableInv => TableIsTrue
BY DEF TableInv, TableFollows, TableIsTrue, Idle

-----------------------------------------------------------------------------
(* A form of the settings without a mark is what the server has. *)

\* The page as it is first shown.
LEMMA SettingsStart == SettingsInit => SettingsInv
<1> SUFFICES ASSUME SettingsInit PROVE SettingsInv
  OBVIOUS
<1>1. \A f \in Form : /\ saving[f] = Unsent /\ changed[f] = FALSE /\ meanwhile[f] = FALSE
                      /\ f # "interval" => form[f] = Nothing
  BY DEF SettingsInit
<1>2. Unsent.stage = "idle"
  BY DEF Unsent
<1>3. SettingsTypeOK
  <2>1. Unsent \in [stage : {"idle", "sent", "saved", "failed", "stuck"}, value : Setting \cup {Nothing}]
    BY DEF Unsent
  <2>2. 0 \in 0..MaxUnsaved
    BY SettingsAssumption
  <2>3. "set" \in Setting \ {"wild"}
    BY DEF Setting
  <2>4. QED
    BY <2>1, <2>2, <2>3 DEF SettingsInit, SettingsTypeOK
<1>4. "prefs" \in Form /\ "scrcpy" \in Form
  BY DEF Form
<1>5. SavedIsMarked /\ SavedIsStored /\ LoadComesFirst /\ UnmarkedFormIsStored
  BY <1>1, <1>2, <1>4 DEF SavedIsMarked, SavedIsStored, LoadComesFirst, UnmarkedFormIsStored
<1>6. QED
  BY <1>3, <1>5 DEF SettingsInv

\* Where a form may be while it is saved.
Saving == [stage : {"idle", "sent", "saved", "failed", "stuck"}, value : Setting \cup {Nothing}]

\* The invariant of the settings, form by form.
FormOK(f) ==
    /\ saving[f].stage # "idle" => saving[f].value \in Setting /\ (f # "interval" => changed[f])
    /\ f \in {"prefs", "scrcpy"} =>
           /\ saving[f].stage = "saved" => stored[f] = Kept(f, saving[f].value)
           /\ f = "scrcpy" /\ saving[f].stage # "idle" /\ ~meanwhile[f] => form[f] = saving[f].value
           /\ /\ form[f] # Nothing /\ ~changed[f] /\ saving[f].stage = "idle"
              /\ f = "scrcpy" => ~meanwhile[f]
              => form[f] = stored[f]
    /\ loadStage # "ready" => saving[f].stage = "idle" /\ ~changed[f]

\* The invariant of the settings, form by form.
LEMMA SettingsParts ==
    /\ SettingsInv <=> SettingsTypeOK /\ \A f \in Form : FormOK(f)
    /\ SettingsInv' <=> SettingsTypeOK' /\ \A f \in Form : FormOK(f)'
BY DEF SettingsInv, FormOK, SavedIsMarked, SavedIsStored, LoadComesFirst, UnmarkedFormIsStored, Form

\* What the server keeps is a value it takes.
LEMMA KeptIsTaken ==
    ASSUME NEW f \in Form, NEW v \in Setting, ~Refuses(f, v)
    PROVE  Kept(f, v) \in Setting \ {"wild"}
BY DEF Form, Setting, Kept, Refuses

\* A step concerns one form; it is enough to look at that.
LEMMA OtherForms ==
    ASSUME SettingsInv, NEW f \in Form, FormOK(f)', loadStage' = loadStage,
           \A g \in Form \ {f} : /\ saving'[g] = saving[g] /\ changed'[g] = changed[g]
                                 /\ stored'[g] = stored[g] /\ meanwhile'[g] = meanwhile[g]
                                 /\ form'[g] = form[g]
    PROVE  \A g \in Form : FormOK(g)'
<1>1. ASSUME NEW g \in Form \ {f} PROVE FormOK(g)'
  <2>1. FormOK(g)
    BY SettingsParts
  <2>2. QED
    BY <2>1 DEF FormOK
<1>2. QED
  BY <1>1

\* Every edit, load and answer keeps the forms true.
LEMMA SettingsStep == SettingsInv /\ [SettingsNext]_settingsVars => SettingsInv'
<1> SUFFICES ASSUME SettingsInv, [SettingsNext]_settingsVars PROVE SettingsInv'
  OBVIOUS
<1>a. SettingsTypeOK /\ \A f \in Form : FormOK(f)
  BY SettingsParts
<1>b. /\ stored \in [Form -> Setting \ {"wild"}] /\ form \in [Form -> Setting \cup {Nothing}]
      /\ changed \in [Form -> BOOLEAN] /\ meanwhile \in [Form -> BOOLEAN]
      /\ saving \in [Form -> Saving] /\ unsaved \in 0..MaxUnsaved /\ focus \in Form \cup {Nothing}
      /\ loadStage \in {"scrcpy", "prefs", "ready"}
      /\ \A f \in Form : changed[f] => form[f] # Nothing
  BY <1>a DEF SettingsTypeOK, Saving
<1>c. Unsent \in Saving /\ Unsent.stage = "idle" /\ Nothing \notin Setting
  BY DEF Unsent, Saving, Nothing, Setting
<1>d. Lose => unsaved' \in 0..MaxUnsaved
  BY <1>b, SettingsAssumption DEF Lose
<1>1. CASE LoadSettings
  <2>1. /\ loadStage \in {"scrcpy", "prefs"} /\ loadStage' \in {"prefs", "ready"}
        /\ UNCHANGED <<stored, changed, saving, meanwhile, focus>> /\ unsaved' \in 0..MaxUnsaved
        /\ \/ form' = [form EXCEPT ![loadStage] = stored[loadStage]] \/ form' = form
    BY <1>1, <1>b, <1>d DEF LoadSettings
  <2>2. loadStage \in Form
    BY <2>1 DEF Form
  <2>3. /\ form' \in [Form -> Setting \cup {Nothing}]
        /\ \A f \in Form : form'[f] = form[f] \/ form'[f] = stored[f]
    BY <1>b, <2>1, <2>2
  <2>4. \A f \in Form : saving[f].stage = "idle" /\ ~changed[f]
    BY <1>a, <2>1 DEF FormOK
  <2>5. SettingsTypeOK'
    BY <1>b, <2>1, <2>3, <2>4 DEF SettingsTypeOK, Saving
  <2>6. ASSUME NEW f \in Form PROVE FormOK(f)'
    <3>1. FormOK(f)
      BY <1>a
    <3>2. QED
      BY <2>1, <2>3, <2>4, <3>1 DEF FormOK
  <2>7. QED
    BY <2>5, <2>6, SettingsParts
<1>2. ASSUME NEW f \in Form, NEW v \in Setting \ {"clamped"}, Edit(f, v) PROVE SettingsInv'
  <2>1. /\ loadStage = "ready" /\ focus' = f
        /\ form' = [form EXCEPT ![f] = v]
        /\ changed' = [changed EXCEPT ![f] = f # "interval"]
        /\ meanwhile' = [meanwhile EXCEPT ![f] = saving[f].stage # "idle"]
        /\ UNCHANGED <<loadStage, stored, saving, unsaved>>
    BY <1>2 DEF Edit, WorkOn
  <2>2. /\ form' \in [Form -> Setting \cup {Nothing}] /\ form'[f] = v
        /\ changed' \in [Form -> BOOLEAN] /\ changed'[f] = (f # "interval")
        /\ meanwhile' \in [Form -> BOOLEAN] /\ meanwhile'[f] = (saving[f].stage # "idle")
    BY <1>b, <2>1
  <2>3. \A g \in Form \ {f} : form'[g] = form[g] /\ changed'[g] = changed[g] /\ meanwhile'[g] = meanwhile[g]
    BY <1>b, <2>1
  <2>4. SettingsTypeOK'
    <3>1. \A g \in Form : changed'[g] => form'[g] # Nothing
      BY <1>b, <1>c, <2>2, <2>3
    <3>2. QED
      BY <1>b, <2>1, <2>2, <3>1 DEF SettingsTypeOK, Saving
  <2>5. FormOK(f)'
    <3>1. FormOK(f)
      BY <1>a
    <3>2. QED
      BY <2>1, <2>2, <3>1 DEF FormOK
  <2>6. QED
    BY <2>1, <2>3, <2>4, <2>5, OtherForms, SettingsParts
<1>3. ASSUME NEW f \in Form, Save(f) PROVE SettingsInv'
  <2> DEFINE w == [stage |-> "sent", value |-> form[f]]
  <2>1. /\ loadStage = "ready" /\ focus' = f /\ (changed[f] \/ f = "interval")
        /\ form[f] # Nothing
        /\ saving' = [saving EXCEPT ![f] = w]
        /\ meanwhile' = [meanwhile EXCEPT ![f] = FALSE]
        /\ UNCHANGED <<loadStage, stored, form, changed, unsaved>>
    BY <1>3 DEF Save, WorkOn
  <2>2. w \in Saving /\ w.stage = "sent" /\ w.value = form[f] /\ form[f] \in Setting
    BY <1>b, <2>1 DEF Saving
  <2> HIDE DEF w
  <2>3. /\ saving' \in [Form -> Saving] /\ saving'[f] = w
        /\ meanwhile' \in [Form -> BOOLEAN] /\ meanwhile'[f] = FALSE
        /\ \A g \in Form \ {f} : saving'[g] = saving[g] /\ meanwhile'[g] = meanwhile[g]
    BY <1>b, <2>1, <2>2
  <2>4. SettingsTypeOK'
    BY <1>b, <2>1, <2>3 DEF SettingsTypeOK, Saving
  <2>5. FormOK(f)'
    BY <2>1, <2>2, <2>3 DEF FormOK
  <2>6. QED
    BY <2>1, <2>3, <2>4, <2>5, OtherForms, SettingsParts
<1>4. ASSUME NEW f \in Form, SaveServed(f) PROVE SettingsInv'
  <2>1. /\ saving[f].stage = "sent" /\ UNCHANGED <<loadStage, form, changed, meanwhile, focus>>
        /\ unsaved' \in 0..MaxUnsaved
    BY <1>4, <1>b, <1>d DEF SaveServed
  <2>2. PICK s \in {"saved", "failed"} :
            /\ saving' = [saving EXCEPT ![f].stage = s]
            /\ \/ s = "failed" /\ stored' = stored
               \/ /\ ~Refuses(f, saving[f].value)
                  /\ stored' = [stored EXCEPT ![f] = Kept(f, saving[f].value)]
    <3>2. SaveCall(f) = "checked"
      BY DEF SaveCall, preferenceApi, scrcpyApi, monitoringApi, Form
    <3>3. /\ Outcome("checked", "refused") # "answer" /\ Outcome("checked", "lost") # "answer"
          /\ Outcome("checked", "done") = "answer"
      BY DEF Outcome, OfRefusal
    <3>4. QED
      BY <1>4, <3>2, <3>3 DEF SaveServed, Answers
  <2>3. saving[f].value \in Setting /\ saving[f] \in Saving /\ FormOK(f)
    BY <1>a, <1>b, <2>1 DEF FormOK
  <2> DEFINE w == [saving[f] EXCEPT !.stage = s]
  <2>4. w \in Saving /\ w.stage = s /\ w.value = saving[f].value
    BY <2>3 DEF Saving
  <2>5. saving' = [saving EXCEPT ![f] = w]
    BY <1>b, <2>2
  <2> HIDE DEF w
  <2>6. /\ saving' \in [Form -> Saving] /\ saving'[f] = w
        /\ \A g \in Form \ {f} : saving'[g] = saving[g]
    BY <1>b, <2>4, <2>5
  <2>7. /\ stored' \in [Form -> Setting \ {"wild"}] /\ \A g \in Form \ {f} : stored'[g] = stored[g]
        /\ s = "saved" => stored'[f] = Kept(f, saving[f].value)
    <3>1. ~Refuses(f, saving[f].value) => Kept(f, saving[f].value) \in Setting \ {"wild"}
      BY <2>3, KeptIsTaken
    <3>2. QED
      BY <1>b, <2>2, <3>1
  <2>8. SettingsTypeOK'
    BY <1>b, <2>1, <2>6, <2>7 DEF SettingsTypeOK, Saving
  <2>9. FormOK(f)'
    BY <2>1, <2>3, <2>4, <2>6, <2>7 DEF FormOK, Kept
  <2>10. QED
    BY <2>1, <2>6, <2>7, <2>8, <2>9, OtherForms, SettingsParts
<1>5. ASSUME NEW f \in Form, Saved(f) PROVE SettingsInv'
  <2>1. /\ saving[f].stage = "saved" /\ changed' = [changed EXCEPT ![f] = FALSE]
        /\ form' = (IF f = "prefs" THEN [form EXCEPT ![f] = Kept(f, saving[f].value)] ELSE form)
        /\ saving' = [saving EXCEPT ![f] = Unsent]
        /\ UNCHANGED <<loadStage, stored, meanwhile, unsaved, focus>>
    BY <1>5 DEF Saved
  <2>2. saving[f].value \in Setting /\ FormOK(f)
    BY <1>a, <2>1 DEF FormOK
  <2>3. Kept(f, saving[f].value) \in Setting
    BY <2>2 DEF Kept, Setting
  <2>4. /\ saving' \in [Form -> Saving] /\ saving'[f] = Unsent
        /\ changed' \in [Form -> BOOLEAN] /\ changed'[f] = FALSE
        /\ form' \in [Form -> Setting \cup {Nothing}]
        /\ form'[f] = IF f = "prefs" THEN Kept(f, saving[f].value) ELSE form[f]
        /\ \A g \in Form \ {f} : /\ saving'[g] = saving[g] /\ changed'[g] = changed[g]
                                 /\ form'[g] = form[g]
    BY <1>b, <1>c, <2>1, <2>3
  <2>5. SettingsTypeOK'
    <3>1. \A g \in Form : changed'[g] => form'[g] # Nothing
      BY <1>b, <2>4
    <3>2. QED
      BY <1>b, <2>1, <2>4, <3>1 DEF SettingsTypeOK, Saving
  <2>6. FormOK(f)'
    <3>1. loadStage = "ready"
      BY <2>1, <2>2 DEF FormOK
    <3>2. f = "scrcpy" /\ ~meanwhile[f] => form[f] = saving[f].value /\ Kept(f, saving[f].value) = saving[f].value
      BY <2>1, <2>2 DEF FormOK, Kept
    <3>3. f \in {"prefs", "scrcpy"} => stored[f] = Kept(f, saving[f].value)
      BY <2>1, <2>2 DEF FormOK
    <3>4. QED
      BY <1>c, <2>1, <2>4, <3>1, <3>2, <3>3 DEF FormOK
  <2>7. QED
    BY <2>1, <2>4, <2>5, <2>6, OtherForms, SettingsParts
<1>6. ASSUME NEW f \in Form, SaveFailed(f) PROVE SettingsInv'
  <2>1. /\ saving[f].stage = "failed" /\ saving' = [saving EXCEPT ![f] = Unsent]
        /\ UNCHANGED <<loadStage, stored, form, changed, meanwhile, unsaved, focus>>
    BY <1>6 DEF SaveFailed
  <2>2. /\ saving' \in [Form -> Saving] /\ saving'[f] = Unsent
        /\ \A g \in Form \ {f} : saving'[g] = saving[g]
    BY <1>b, <1>c, <2>1
  <2>3. SettingsTypeOK'
    BY <1>b, <2>1, <2>2 DEF SettingsTypeOK, Saving
  <2>4. FormOK(f)'
    <3>1. FormOK(f)
      BY <1>a
    <3>2. QED
      BY <1>c, <2>1, <2>2, <3>1 DEF FormOK
  <2>5. QED
    BY <2>1, <2>2, <2>3, <2>4, OtherForms, SettingsParts
<1>7. CASE UNCHANGED settingsVars
  <2>1. SettingsTypeOK'
    BY <1>a, <1>7 DEF settingsVars, SettingsTypeOK
  <2>2. \A f \in Form : FormOK(f)'
    BY <1>a, <1>7 DEF settingsVars, FormOK
  <2>3. QED
    BY <2>1, <2>2, SettingsParts
<1>8. QED
  BY <1>1, <1>2, <1>3, <1>4, <1>5, <1>6, <1>7 DEF SettingsNext, SaveStep

-----------------------------------------------------------------------------
(* Saving the form of a room keeps its actions. *)

\* The first of a list that is in S is there if any is.
LEMMA FirstIs ==
    ASSUME NEW s, Len(s) \in Nat, DOMAIN s = 1..Len(s), NEW S
    PROVE  /\ (\E a \in ToSet(s) : a \in S) => FirstOf(s, S) \in ToSet(s) \cap S
           /\ (\A a \in ToSet(s) : a \notin S) => FirstOf(s, S) = ""
<1> DEFINE hits == {i \in 1..Len(s) : s[i] \in S}
<1>1. ASSUME NEW a \in ToSet(s), a \in S PROVE FirstOf(s, S) \in ToSet(s) \cap S
  <2>1. hits # {}
    BY <1>1 DEF ToSet
  <2>2. hits \in SUBSET Nat
    OBVIOUS
  <2>3. \E i \in hits : \A j \in hits : i <= j
    BY <2>1, <2>2, LeastOf
  <2>4. (CHOOSE i \in hits : \A j \in hits : i <= j) \in hits
    BY <2>3
  <2>5. FirstOf(s, S) = s[CHOOSE i \in hits : \A j \in hits : i <= j]
    BY <2>1 DEF FirstOf
  <2>6. QED
    BY <2>4, <2>5 DEF ToSet
<1>2. ASSUME \A a \in ToSet(s) : a \notin S PROVE FirstOf(s, S) = ""
  <2>1. hits = {}
    BY <1>2 DEF ToSet
  <2>2. QED
    BY <2>1 DEF FirstOf
<1>3. QED
  BY <1>1, <1>2

\* A function on the numbers to n is a list of n.
LEMMA ListOf ==
    ASSUME NEW T, NEW n \in Nat, NEW s \in [1..n -> T]
    PROVE  Len(s) \in Nat /\ DOMAIN s = 1..Len(s)
<1>1. s \in Seq(T)
  BY SeqDef
<1>2. QED
  BY <1>1, LenProperties

\* The server's list is of what it has, all of it.
LEMMA ListsAll ==
    ASSUME NEW S \in SUBSET Action, NEW list \in SetToSeqs(S)
    PROVE  /\ Len(list) \in Nat /\ DOMAIN list = 1..Len(list)
           /\ ToSet(list) = S
<1> DEFINE n == Cardinality(S)
<1>1. IsFiniteSet(S) /\ n \in Nat
  BY RoomFormAssumption, FS_Subset, FS_CardinalityType
<1>2. list \in [1..n -> S] /\ \A i, j \in 1..n : i # j => list[i] # list[j]
  BY DEF SetToSeqs
<1>3. Len(list) \in Nat /\ DOMAIN list = 1..Len(list)
  BY <1>1, <1>2, ListOf
<1>4. list \in Injection(1..n, S)
  BY <1>2 DEF Injection, IsInjective
<1>5. IsFiniteSet(1..n) /\ Cardinality(1..n) = n
  BY <1>1, FS_Interval
<1>6. list \in Surjection(1..n, S)
  BY <1>1, <1>4, <1>5, FS_Injection
<1>7. \A a \in S : \E i \in 1..n : list[i] = a
  BY <1>6 DEF Surjection
<1>8. ToSet(list) = S
  BY <1>2, <1>7 DEF ToSet
<1>9. QED
  BY <1>3, <1>8

\* A batch is a short list of actions.
LEMMA BatchIsList ==
    ASSUME NEW b \in Batches
    PROVE  /\ Len(b) \in Nat /\ DOMAIN b = 1..Len(b)
           /\ ToSet(b) \in SUBSET Action
           /\ IsFiniteSet(ToSet(b))
<1>1. b \in Seq(Action)
  <2>1. CASE b = << >>
    BY <2>1, EmptySeq
  <2>2. ASSUME NEW a \in Action, b = <<a>> PROVE b \in Seq(Action)
    BY <2>2
  <2>3. ASSUME NEW a \in Action, NEW c \in Action, b = <<a, c>> PROVE b \in Seq(Action)
    BY <2>3
  <2>4. QED
    BY <2>1, <2>2, <2>3 DEF Batches
<1>2. Len(b) \in Nat /\ DOMAIN b = 1..Len(b) /\ \A i \in DOMAIN b : b[i] \in Action
  BY <1>1, LenProperties
<1>3. ToSet(b) \in SUBSET Action
  BY <1>2 DEF ToSet
<1>4. QED
  BY <1>2, <1>3, RoomFormAssumption, FS_Subset

\* An empty list has no first.
LEMMA FirstOfNone == \A S : FirstOf(<< >>, S) = ""
<1>1. Len(<< >>) = 0 /\ DOMAIN << >> = 1..0 /\ ToSet(<< >>) = {}
  <2>1. << >> \in Seq(Action) /\ Len(<< >>) = 0
    BY EmptySeq
  <2>2. DOMAIN << >> = 1..0
    BY <2>1, LenProperties
  <2>3. 1..0 = {}
    OBVIOUS
  <2>4. QED
    BY <2>1, <2>2, <2>3 DEF ToSet
<1>2. ASSUME NEW S PROVE FirstOf(<< >>, S) = ""
  <2> DEFINE hits == {i \in 1..Len(<< >>) : << >>[i] \in S}
  <2>1. hits = {}
    BY <1>1
  <2>2. QED
    BY <2>1 DEF FirstOf
<1>3. QED
  BY <1>2

\* What the list of the form is.
LEMMA ActionsAre ==
    ASSUME FormTypeOK
    PROVE  /\ Len(actions) \in Nat /\ DOMAIN actions = 1..Len(actions)
           /\ ToSet(actions) \in SUBSET existing
           /\ actions # << >> => ToSet(actions) = existing
<1>1. CASE actions = << >>
  <2>1. actions \in Seq(Action) /\ Len(actions) = 0
    BY <1>1, EmptySeq
  <2>2. DOMAIN actions = 1..0
    BY <2>1, LenProperties
  <2>3. 1..0 = {}
    OBVIOUS
  <2>4. QED
    BY <1>1, <2>1, <2>2, <2>3 DEF ToSet
<1>2. CASE actions # << >>
  <2>1. actions \in SetToSeqs(existing) /\ existing \in SUBSET Action
    BY <1>2 DEF FormTypeOK
  <2>2. QED
    BY <1>2, <2>1, ListsAll
<1>3. QED
  BY <1>1, <1>2

\* What is found in a list of actions is an action, or none.
LEMMA FirstTyped ==
    ASSUME NEW s, Len(s) \in Nat, DOMAIN s = 1..Len(s), ToSet(s) \subseteq Action, NEW S
    PROVE  FirstOf(s, S) \in Action \cup {""}
BY FirstIs

\* The form that is filled keeps the choices there are, and looks for the others.
LEMMA MigratedIs ==
    ASSUME NEW f \in Profile, NEW list, Len(list) \in Nat, DOMAIN list = 1..Len(list),
           ToSet(list) \subseteq Action
    PROVE  /\ Migrated(f, list) \in Profile /\ Migrated(f, list).batch = f.batch
           /\ \A k \in ActionKind :
                Migrated(f, list).choice[k] =
                    IF f.choice[k] # "" THEN f.choice[k]
                    ELSE FirstOf(list, ToSet(f.batch) \cap OfKind(k))
<1>1. f.choice \in Choice /\ f.batch \in Batches
  BY DEF Profile
<1>2. CASE (\A k \in ActionKind : f.choice[k] # "") \/ f.batch = << >>
  <2>1. Migrated(f, list) = f
    BY <1>2 DEF Migrated
  <2>2. f.batch = << >> => ToSet(f.batch) = {}
    <3>1. << >> \in Seq(Action) /\ Len(<< >>) = 0
      BY EmptySeq
    <3>2. DOMAIN << >> = 1..0
      BY <3>1, LenProperties
    <3>3. 1..0 = {}
      OBVIOUS
    <3>4. QED
      BY <3>2, <3>3 DEF ToSet
  <2>3. \A k \in ActionKind : f.batch = << >> => FirstOf(list, ToSet(f.batch) \cap OfKind(k)) = ""
    <3>1. ASSUME NEW k \in ActionKind, f.batch = << >>
          PROVE  FirstOf(list, ToSet(f.batch) \cap OfKind(k)) = ""
      <4>1. ToSet(f.batch) \cap OfKind(k) = {}
        BY <2>2, <3>1
      <4>2. FirstOf(list, {}) = ""
        BY FirstIs
      <4>3. QED
        BY <4>1, <4>2
    <3>2. QED
      BY <3>1
  <2>4. QED
    BY <1>2, <2>1, <2>3
<1>3. CASE ~((\A k \in ActionKind : f.choice[k] # "") \/ f.batch = << >>)
  <2> DEFINE c == [k \in ActionKind |-> IF f.choice[k] # "" THEN f.choice[k]
                                        ELSE FirstOf(list, ToSet(f.batch) \cap OfKind(k))]
  <2>1. Migrated(f, list) = [f EXCEPT !.choice = c]
    BY <1>3 DEF Migrated, Filled
  <2>2. c \in Choice
    BY <1>1, FirstTyped DEF Choice
  <2>3. [f EXCEPT !.choice = c] \in Profile /\ [f EXCEPT !.choice = c].batch = f.batch
        /\ [f EXCEPT !.choice = c].choice = c
    <3> HIDE DEF c
    <3>1. QED
      BY <2>2 DEF Profile
  <2>4. QED
    BY <2>1, <2>3
<1>4. QED
  BY <1>2, <1>3

\* No form, and one that is about to be opened.
LEMMA FormStart == FormInit \/ FormClosed => FormInv
<1> SUFFICES ASSUME FormInit \/ FormClosed PROVE FormInv
  OBVIOUS
<1>1. Unchosen \in Choice /\ << >> \in Batches
  BY DEF Unchosen, Choice, Batches
<1>2. NoProfile \in Profile
  BY <1>1 DEF NoProfile, Profile
<1>3. room \in Profile
  <2>1. CASE FormInit
    <3>1. PICK c \in Choice, b \in Batches : room = [choice |-> c, batch |-> b]
      BY <2>1 DEF FormInit
    <3>2. QED
      BY <3>1 DEF Profile
  <2>2. CASE FormClosed
    BY <1>2, <2>2 DEF FormClosed
  <2>3. QED
    BY <2>1, <2>2
<1>4. /\ existing \subseteq Action /\ before = room /\ fields = NoProfile /\ actions = << >>
      /\ submit = "loading" /\ sent = [choice |-> Unchosen, listed |-> FALSE] /\ picked = {}
  BY DEF FormInit, FormClosed
<1>5. sent \in [choice : Choice, listed : BOOLEAN]
  BY <1>1, <1>4
<1>6. FormTypeOK
  BY <1>2, <1>3, <1>4, <1>5 DEF FormTypeOK
<1>7. FieldsKept /\ SentIsExpected
  BY <1>4 DEF FieldsKept, SentIsExpected
<1>8. QED
  BY <1>6, <1>7 DEF FormInv

\* What a kind should have depends on the room opened and the list that has come.
LEMMA FormStep == FormInv /\ [FormNext]_formVars => FormInv'
<1> SUFFICES ASSUME FormInv, [FormNext]_formVars PROVE FormInv'
  OBVIOUS
<1>a. /\ FormTypeOK /\ FieldsKept /\ SentIsExpected
      /\ existing \subseteq Action /\ room \in Profile /\ before \in Profile /\ fields \in Profile
      /\ sent \in [choice : Choice, listed : BOOLEAN] /\ picked \subseteq ActionKind
      /\ actions \in {<< >>} \cup SetToSeqs(existing)
      /\ submit \in {"loading", "missing", "edit", "sent", "answered", "failed", "left"}
  BY DEF FormInv, FormTypeOK
<1>b. UNCHANGED <<before, actions>> => \A k \in ActionKind : Expected(k)' = Expected(k)
  BY DEF Expected
<1>1. CASE RoomLoaded
  <2>1. /\ submit = "loading" /\ UNCHANGED <<existing, room, before, actions, sent, picked>>
        /\ \/ fields' = room /\ submit' = "edit"
           \/ fields' = fields /\ submit' \in {"left", "missing"}
    BY <1>1 DEF RoomLoaded
  <2>2. room = before /\ actions = << >>
    BY <1>a, <2>1 DEF FieldsKept
  <2>3. \A k \in ActionKind : Expected(k) = before.choice[k]
    BY <2>2, FirstOfNone DEF Expected
  <2>4. \A k \in ActionKind : Expected(k)' = before.choice[k]
    BY <1>b, <2>1, <2>3
  <2>5. FormTypeOK'
    BY <1>a, <2>1 DEF FormTypeOK
  <2>6. FieldsKept'
    <3>1. CASE submit' = "edit"
      BY <2>1, <2>2, <2>4, <3>1 DEF FieldsKept
    <3>2. CASE submit' # "edit"
      BY <2>1, <3>2 DEF FieldsKept
    <3>3. QED
      BY <3>1, <3>2
  <2>7. SentIsExpected'
    BY <2>1 DEF SentIsExpected
  <2>8. QED
    BY <2>5, <2>6, <2>7 DEF FormInv
<1>2. ASSUME NEW list \in SetToSeqs(existing), ActionsLoaded(list) PROVE FormInv'
  <2>1. /\ submit \in {"edit", "sent"} /\ actions = << >> /\ actions' = list
        /\ fields' = Migrated(fields, list)
        /\ UNCHANGED <<existing, room, before, submit, sent, picked>>
    BY <1>2 DEF ActionsLoaded
  <2>2. Len(list) \in Nat /\ DOMAIN list = 1..Len(list) /\ ToSet(list) \subseteq Action
    BY <1>a, ListsAll
  <2>3. /\ fields' \in Profile /\ fields'.batch = fields.batch
        /\ \A k \in ActionKind :
             fields'.choice[k] = IF fields.choice[k] # "" THEN fields.choice[k]
                                 ELSE FirstOf(list, ToSet(fields.batch) \cap OfKind(k))
    <3> DEFINE m == Migrated(fields, list)
    <3>1. /\ m \in Profile /\ m.batch = fields.batch
          /\ \A k \in ActionKind :
               m.choice[k] = IF fields.choice[k] # "" THEN fields.choice[k]
                             ELSE FirstOf(list, ToSet(fields.batch) \cap OfKind(k))
      <4>1. fields \in Profile
        BY <1>a
      <4>2. QED
        BY <2>2, <4>1, MigratedIs
    <3>2. fields' = m
      BY <2>1
    <3> HIDE DEF m
    <3>3. QED
      BY <3>1, <3>2
  <2>4. fields.batch = before.batch /\ \A k \in ActionKind \ picked : fields.choice[k] = Expected(k)
    BY <1>a, <2>1 DEF FieldsKept
  <2>5. \A k \in ActionKind : Expected(k) = before.choice[k]
    BY <2>1, FirstOfNone DEF Expected
  <2>6. \A k \in ActionKind : Expected(k)' = IF before.choice[k] # "" THEN before.choice[k]
                                              ELSE FirstOf(list, ToSet(before.batch) \cap OfKind(k))
    BY <2>1 DEF Expected
  <2>7. FormTypeOK'
    BY <1>a, <2>1, <2>3 DEF FormTypeOK
  <2>8. FieldsKept'
    <3>1. ASSUME NEW k \in ActionKind \ picked PROVE fields'.choice[k] = Expected(k)'
      BY <2>3, <2>4, <2>5, <2>6
    <3>2. fields'.batch = before.batch
      BY <2>3, <2>4
    <3>3. submit' # "loading"
      BY <2>1
    <3>4. QED
      BY <2>1, <3>1, <3>2, <3>3 DEF FieldsKept
  <2>9. SentIsExpected'
    <3>1. submit = "sent" => ~sent.listed
      BY <1>a, <2>1 DEF SentIsExpected
    <3>2. QED
      BY <2>1, <3>1 DEF SentIsExpected
  <2>10. QED
    BY <2>7, <2>8, <2>9 DEF FormInv
<1>3. ASSUME NEW k \in ActionKind, NEW a \in Action \cup {""}, Pick(k, a) PROVE FormInv'
  <2>1. /\ submit = "edit" /\ fields' = [fields EXCEPT !.choice[k] = a] /\ picked' = picked \cup {k}
        /\ UNCHANGED <<existing, room, before, actions, submit, sent>>
    BY <1>3 DEF Pick
  <2>2. /\ fields' \in Profile /\ fields'.batch = fields.batch
        /\ \A l \in ActionKind \ {k} : fields'.choice[l] = fields.choice[l]
    <3>1. fields.choice \in [ActionKind -> Action \cup {""}]
      BY <1>a DEF Profile, Choice
    <3>2. [fields.choice EXCEPT ![k] = a] \in Choice
      BY <3>1 DEF Choice
    <3>3. fields' = [fields EXCEPT !.choice = [fields.choice EXCEPT ![k] = a]]
      BY <2>1
    <3>4. fields' \in Profile /\ fields'.batch = fields.batch /\ fields'.choice = [fields.choice EXCEPT ![k] = a]
      <4> DEFINE c == [fields.choice EXCEPT ![k] = a]
      <4>1. c \in Choice /\ fields' = [fields EXCEPT !.choice = c]
        BY <3>2, <3>3
      <4> HIDE DEF c
      <4>2. fields' \in Profile /\ fields'.batch = fields.batch /\ fields'.choice = c
        BY <1>a, <4>1 DEF Profile
      <4>3. QED
        BY <4>2 DEF c
    <3>5. QED
      BY <3>1, <3>4
  <2>3. FormTypeOK'
    BY <1>a, <2>1, <2>2 DEF FormTypeOK
  <2>4. FieldsKept'
    BY <1>a, <1>b, <2>1, <2>2 DEF FieldsKept
  <2>5. SentIsExpected'
    BY <2>1 DEF SentIsExpected
  <2>6. QED
    BY <2>3, <2>4, <2>5 DEF FormInv
<1>4. CASE Submit
  <2>1. /\ submit = "edit" /\ submit' = "sent"
        /\ sent' = [choice |-> fields.choice, listed |-> actions # << >>]
        /\ UNCHANGED <<existing, room, before, fields, actions, picked>>
    BY <1>4 DEF Submit
  <2>2. sent' \in [choice : Choice, listed : BOOLEAN] /\ sent'.choice = fields.choice
        /\ sent'.listed = (actions # << >>)
    <3>1. (actions # << >>) \in BOOLEAN /\ fields.choice \in Choice
      BY <1>a DEF Profile
    <3>2. QED
      BY <2>1, <3>1
  <2>3. FormTypeOK'
    BY <1>a, <2>1, <2>2 DEF FormTypeOK
  <2>4. FieldsKept' /\ SentIsExpected'
    BY <1>a, <1>b, <2>1, <2>2 DEF FieldsKept, SentIsExpected
  <2>5. QED
    BY <2>3, <2>4 DEF FormInv
<1>5. CASE SubmitServed
  <2> DEFINE p == [choice |-> sent.choice, batch |-> << >>]
  <2>1. /\ submit = "sent" /\ submit' \in {"answered", "failed"}
        /\ room' = p \/ (room' = room /\ submit' = "failed")
        /\ UNCHANGED <<existing, before, fields, actions, sent, picked>>
    BY <1>5 DEF SubmitServed
  <2>2. p \in Profile
    <3>1. << >> \in Batches /\ sent.choice \in Choice
      BY <1>a DEF Batches
    <3>2. QED
      BY <3>1 DEF Profile
  <2>3. submit' = "answered" => room' = [choice |-> sent.choice, batch |-> << >>]
    BY <2>1
  <2> HIDE DEF p
  <2>4. FormTypeOK'
    BY <1>a, <2>1, <2>2 DEF FormTypeOK
  <2>5. FieldsKept' /\ SentIsExpected'
    BY <1>a, <1>b, <2>1, <2>3 DEF FieldsKept, SentIsExpected
  <2>6. QED
    BY <2>4, <2>5 DEF FormInv
<1>6. CASE SubmitEnds \/ UNCHANGED formVars
  <2>1. /\ UNCHANGED <<existing, room, before, fields, actions, sent, picked>>
        /\ \/ submit = "answered" /\ submit' = "left"
           \/ submit = "failed" /\ submit' = "edit"
           \/ submit' = submit
    BY <1>6 DEF SubmitEnds, formVars
  <2>2. FormTypeOK'
    BY <1>a, <2>1 DEF FormTypeOK
  <2>3. FieldsKept' /\ SentIsExpected'
    BY <1>a, <1>b, <2>1 DEF FieldsKept, SentIsExpected
  <2>4. QED
    BY <2>2, <2>3 DEF FormInv
<1>7. QED
  BY <1>1, <1>2, <1>3, <1>4, <1>5, <1>6 DEF FormNext

\* At most one is none or one.
LEMMA AtMostOne == \A n \in Nat : n <= 1 => n = 0 \/ n = 1
OBVIOUS

\* The buttons of the control page resolve to what they resolved to before.
LEMMA ActionsKept == FormInv => SavingKeepsTheActions
<1> SUFFICES ASSUME FormInv, submit = "answered", NEW k \in ActionKind \ picked, sent.listed,
                    before.choice[k] \in existing \cup {""},
                    Cardinality(ToSet(before.batch) \cap OfKind(k)) <= 1,
                    NEW list \in SetToSeqs(existing)
             PROVE  Resolved(room, k, list) = Resolved(before, k, list)
  BY DEF SavingKeepsTheActions
<1> DEFINE named == ToSet(before.batch) \cap OfKind(k)
           c == FirstOf(actions, named)
           d == FirstOf(before.batch, existing \cap OfKind(k))
<1>1. /\ FormTypeOK /\ existing \in SUBSET Action /\ before \in Profile
      /\ actions # << >> /\ sent.choice[k] = Expected(k)
      /\ room = [choice |-> sent.choice, batch |-> << >>]
  BY DEF FormInv, FormTypeOK, SentIsExpected
<1>2. ToSet(list) = existing
  BY <1>1, ListsAll
<1>3. Len(actions) \in Nat /\ DOMAIN actions = 1..Len(actions) /\ ToSet(actions) = existing
  BY <1>1, ActionsAre
<1>4. /\ Len(before.batch) \in Nat /\ DOMAIN before.batch = 1..Len(before.batch)
      /\ IsFiniteSet(named) /\ "" \notin existing
  <2>1. before.batch \in Batches
    BY <1>1 DEF Profile
  <2>2. IsFiniteSet(ToSet(before.batch))
    BY <2>1, BatchIsList
  <2>3. IsFiniteSet(named)
    BY <2>2, FS_Subset
  <2>4. QED
    BY <1>1, <2>1, <2>3, BatchIsList, RoomFormAssumption
<1>5. \A a, b \in named : a = b
  <2>1. Cardinality(named) \in Nat /\ Cardinality(named) <= 1
    BY <1>4, FS_CardinalityType
  <2>2. Cardinality(named) = 0 \/ Cardinality(named) = 1
    BY <2>1, AtMostOne
  <2>3. CASE Cardinality(named) = 0
    BY <1>4, <2>3, FS_EmptySet
  <2>4. CASE Cardinality(named) = 1
    <3>1. \E x : named = {x}
      BY <1>4, <2>4, FS_Singleton
    <3>2. QED
      BY <3>1
  <2>5. QED
    BY <2>2, <2>3, <2>4
<1>6. room.choice[k] = sent.choice[k] /\ room.batch = << >>
  BY <1>1
<1>7. CASE before.choice[k] # ""
  <2>1. before.choice[k] \in ToSet(list) /\ room.choice[k] = before.choice[k]
    BY <1>1, <1>2, <1>6, <1>7 DEF Expected
  <2>2. QED
    BY <2>1 DEF Resolved
<1>8. CASE before.choice[k] = ""
  <2>1. room.choice[k] = c
    BY <1>1, <1>6, <1>8 DEF Expected
  <2>2. /\ (\E a \in existing : a \in named) => c \in existing \cap named
        /\ (\A a \in existing : a \notin named) => c = ""
    BY <1>3, FirstIs
  <2>3. /\ (\E a \in ToSet(before.batch) : a \in existing \cap OfKind(k)) =>
               d \in ToSet(before.batch) \cap (existing \cap OfKind(k))
        /\ (\A a \in ToSet(before.batch) : a \notin existing \cap OfKind(k)) => d = ""
    BY <1>4, FirstIs
  <2>4. c = d
    <3>1. CASE \E a \in existing : a \in named
      <4>1. c \in named /\ d \in named
        BY <2>2, <2>3, <3>1
      <4>2. QED
        BY <1>5, <4>1
    <3>2. CASE \A a \in existing : a \notin named
      <4>1. \A a \in ToSet(before.batch) : a \notin existing \cap OfKind(k)
        BY <3>2
      <4>2. QED
        BY <2>2, <2>3, <3>2, <4>1
    <3>3. QED
      BY <3>1, <3>2
  <2>5. Resolved(before, k, list) = IF d # "" THEN d ELSE FirstOf(list, OfKind(k))
    BY <1>2, <1>4, <1>8 DEF Resolved
  <2>6. FirstOf(room.batch, ToSet(list) \cap OfKind(k)) = ""
    BY <1>6, FirstOfNone
  <2>7. Resolved(room, k, list) = IF c \in existing THEN c ELSE FirstOf(list, OfKind(k))
    BY <1>2, <2>1, <2>6 DEF Resolved
  <2>8. c # "" <=> c \in existing
    BY <1>4, <2>2
  <2> HIDE DEF c, d
  <2>9. QED
    BY <2>4, <2>5, <2>7, <2>8
<1>9. QED
  BY <1>7, <1>8

-----------------------------------------------------------------------------
(* The lists, the modal and the frame. *)

\* At first the page has no list.
LEMMA CatalogStart == CatalogInit => CatalogInv
<1> SUFFICES ASSUME CatalogInit PROVE CatalogInv
  OBVIOUS
<1>1. IsFiniteSet(loads) /\ Cardinality(loads) = 0
  BY FS_EmptySet DEF CatalogInit
<1>2. 0 <= MaxLoads /\ 0 \in 0..MaxMade /\ 0 \in 0..MaxAstray
  BY CatalogAssumption
<1>3. QED
  BY <1>1, <1>2 DEF CatalogInit, CatalogInv, CatalogTypeOK

\* Loads are asked for, answered and applied within the bound.
LEMMA CatalogStep == CatalogInv /\ [CatalogNext]_catalogVars => CatalogInv'
<1> SUFFICES ASSUME CatalogInv, [CatalogNext]_catalogVars PROVE CatalogInv'
  OBVIOUS
<1>a. /\ there \subseteq Item /\ listed \subseteq Item /\ loads \subseteq ListCall
      /\ IsFiniteSet(loads) /\ Cardinality(loads) <= MaxLoads
      /\ deleting \in [Item -> {"idle", "sent", "load", "loading", "failed"}]
      /\ made \in 0..MaxMade /\ astray \in 0..MaxAstray
  BY DEF CatalogInv, CatalogTypeOK
<1>b. MaxLoads \in Nat /\ Cardinality(loads) \in Nat
  BY <1>a, CatalogAssumption, FS_CardinalityType
<1>c. Astray => astray' \in 0..MaxAstray
  BY <1>a, CatalogAssumption DEF Astray
<1>d. Unanswered \in ListCall /\ \A S \in SUBSET Item : Answer(S) \in ListCall
  BY DEF Unanswered, Answer, ListCall
<1>e. \A i \in Item, s \in {"idle", "sent", "load", "loading", "failed"} :
          Deleting(i, s) => deleting' \in [Item -> {"idle", "sent", "load", "loading", "failed"}]
  BY <1>a DEF Deleting
<1>f. ASSUME NEW x, x \in loads
      PROVE  /\ IsFiniteSet(loads \ {x}) /\ Cardinality(loads \ {x}) <= MaxLoads
             /\ \A S \in SUBSET Item : /\ IsFiniteSet((loads \ {x}) \cup {Answer(S)})
                                       /\ Cardinality((loads \ {x}) \cup {Answer(S)}) <= MaxLoads
  <2> DEFINE fewer == loads \ {x}
  <2>1. IsFiniteSet(fewer) /\ Cardinality(fewer) = Cardinality(loads) - 1
    BY <1>a, <1>f, FS_RemoveElement
  <2>2. Cardinality(fewer) \in Nat
    BY <2>1, FS_CardinalityType
  <2> HIDE DEF fewer
  <2>3. ASSUME NEW S \in SUBSET Item
        PROVE  IsFiniteSet(fewer \cup {Answer(S)}) /\ Cardinality(fewer \cup {Answer(S)}) <= MaxLoads
    <3>1. /\ IsFiniteSet(fewer \cup {Answer(S)})
          /\ Cardinality(fewer \cup {Answer(S)}) =
                 IF Answer(S) \in fewer THEN Cardinality(fewer) ELSE Cardinality(fewer) + 1
      BY <2>1, FS_AddElement
    <3>2. QED
      BY <1>a, <1>b, <2>1, <2>2, <3>1
  <2>4. Cardinality(fewer) <= MaxLoads
    BY <1>a, <1>b, <2>1, <2>2
  <2>5. QED
    BY <2>1, <2>3, <2>4 DEF fewer
<1>1. CASE ListAsked
  <2>1. /\ loads' = loads \cup {Unanswered} /\ Unanswered \notin loads /\ Cardinality(loads) < MaxLoads
        /\ UNCHANGED <<there, listed, deleting, made, astray>>
    BY <1>1 DEF ListAsked
  <2>2. IsFiniteSet(loads') /\ Cardinality(loads') = Cardinality(loads) + 1
    BY <1>a, <2>1, FS_AddElement
  <2>3. Cardinality(loads') <= MaxLoads
    BY <1>b, <2>1, <2>2
  <2>4. QED
    BY <1>a, <1>d, <2>1, <2>2, <2>3 DEF CatalogInv, CatalogTypeOK
<1>2. CASE ListAnswered
  <2>1. /\ Unanswered \in loads /\ UNCHANGED <<there, listed, deleting, made>>
        /\ astray' \in 0..MaxAstray
        /\ \/ loads' = loads \ {Unanswered}
           \/ \E S \in SUBSET Item : loads' = (loads \ {Unanswered}) \cup {Answer(S)}
    <3>1. there \in SUBSET Item /\ {} \in SUBSET Item
      BY <1>a
    <3>2. QED
      BY <1>2, <1>a, <1>c, <3>1 DEF ListAnswered
  <2>2. IsFiniteSet(loads') /\ Cardinality(loads') <= MaxLoads /\ loads' \subseteq ListCall
    <3>1. CASE loads' = loads \ {Unanswered}
      <4>1. IsFiniteSet(loads') /\ Cardinality(loads') <= MaxLoads
        BY <1>f, <2>1, <3>1
      <4>2. QED
        BY <1>a, <3>1, <4>1
    <3>2. ASSUME NEW S \in SUBSET Item, loads' = (loads \ {Unanswered}) \cup {Answer(S)}
          PROVE  /\ IsFiniteSet(loads') /\ Cardinality(loads') <= MaxLoads
                 /\ loads' \subseteq ListCall
      <4>1. IsFiniteSet(loads') /\ Cardinality(loads') <= MaxLoads
        BY <1>f, <2>1, <3>2
      <4>2. Answer(S) \in ListCall
        BY <1>d
      <4>3. QED
        BY <1>a, <3>2, <4>1, <4>2
    <3>3. QED
      BY <2>1, <3>1, <3>2
  <2>3. QED
    BY <1>a, <2>1, <2>2 DEF CatalogInv, CatalogTypeOK
<1>3. ASSUME NEW S \in SUBSET Item, ListApplied(S) PROVE CatalogInv'
  <2>1. /\ Answer(S) \in loads /\ listed' = S /\ loads' = loads \ {Answer(S)}
        /\ UNCHANGED <<there, deleting, made, astray>>
    BY <1>3 DEF ListApplied
  <2>2. IsFiniteSet(loads') /\ Cardinality(loads') <= MaxLoads
    BY <1>f, <2>1
  <2>3. QED
    BY <1>a, <2>1, <2>2 DEF CatalogInv, CatalogTypeOK
<1>4. ASSUME NEW i \in Item,
             \/ OtherCreates(i) \/ OtherDeletes(i) \/ ClickDelete(i) \/ DeleteServed(i)
             \/ OwnLoadAsked(i) \/ OwnLoadEnds(i) \/ DeleteFailed(i)
      PROVE  CatalogInv'
  <2>1. loads' = loads
    BY <1>4 DEF OtherCreates, OtherDeletes, ClickDelete, DeleteServed, OwnLoadAsked, OwnLoadEnds,
                DeleteFailed
  <2>2. there' \subseteq Item /\ listed' \subseteq Item
    BY <1>4, <1>a DEF OtherCreates, OtherDeletes, ClickDelete, DeleteServed, OwnLoadAsked,
                      OwnLoadEnds, DeleteFailed
  <2>3. made' \in 0..MaxMade
    <3>1. made < MaxMade => made + 1 \in 0..MaxMade
      BY <1>a, CatalogAssumption
    <3>2. QED
      BY <1>4, <1>a, <3>1 DEF OtherCreates, OtherDeletes, ClickDelete, DeleteServed, OwnLoadAsked,
                              OwnLoadEnds, DeleteFailed
  <2>4. astray' \in 0..MaxAstray
    BY <1>4, <1>a, <1>c DEF OtherCreates, OtherDeletes, ClickDelete, DeleteServed, OwnLoadAsked,
                            OwnLoadEnds, DeleteFailed
  <2>5. \/ deleting' = deleting
        \/ \E s \in {"idle", "sent", "load", "loading", "failed"} : Deleting(i, s)
    BY <1>4 DEF OtherCreates, OtherDeletes, ClickDelete, DeleteServed, OwnLoadAsked, OwnLoadEnds,
                DeleteFailed
  <2>6. deleting' \in [Item -> {"idle", "sent", "load", "loading", "failed"}]
    BY <1>a, <1>e, <2>5
  <2>7. QED
    BY <1>a, <2>1, <2>2, <2>3, <2>4, <2>6 DEF CatalogInv, CatalogTypeOK
<1>5. CASE UNCHANGED catalogVars
  BY <1>a, <1>5 DEF catalogVars, CatalogInv, CatalogTypeOK
<1>6. QED
  BY <1>1, <1>2, <1>3, <1>4, <1>5 DEF CatalogNext, Apply, DeleteStep

\* The modal is closed, with nothing selected.
LEMMA ModalStart == ModalInit \/ ModalClosed => ModalInv
<1> SUFFICES ASSUME ModalInit \/ ModalClosed PROVE ModalInv
  OBVIOUS
<1>1. 0 \in 0..MaxOpenings
  BY ModalAssumption
<1>2. NoBatch \in Batch /\ NoBatch.stage = "none"
  BY <1>1 DEF NoBatch, Batch
<1>3. QED
  BY <1>1, <1>2 DEF ModalInit, ModalClosed, ModalInv, ModalTypeOK, SelectionIsOfThisModal, BatchIsOfThisModal

\* However modals and batches overlap, a closed modal has nothing selected.
LEMMA ModalStep == ModalInv /\ [ModalNext]_modalVars => ModalInv'
<1> SUFFICES ASSUME ModalInv, [ModalNext]_modalVars PROVE ModalInv'
  OBVIOUS
<1>a. /\ where \in {"actions", "control"} /\ online \subseteq Headset /\ open \in BOOLEAN
      /\ task \in Task \cup {NoTask} /\ selected \subseteq Headset /\ batch \in Batch
      /\ opening \in 0..MaxOpenings /\ (batch.stage # "none" => batch.ids # {} /\ batch.task \in Task)
      /\ (~open => selected = {}) /\ (open => task \in Task)
      /\ (where = "control" /\ open /\ batch.stage # "none" => batch.opening = opening)
  BY DEF ModalInv, ModalTypeOK, SelectionIsOfThisModal, BatchIsOfThisModal
<1>1. ASSUME NEW t \in Task, OpenOnActions(t) \/ OpenOnControl(t) PROVE ModalInv'
  <2>1. /\ opening < MaxOpenings /\ open' = TRUE /\ task' = t /\ opening' = opening + 1
        /\ selected' \in {selected, online} /\ UNCHANGED <<where, online, batch>>
        /\ (where = "actions" \/ batch.stage = "none")
    BY <1>1 DEF OpenOnActions, OpenOnControl, Opens
  <2>2. opening' \in 0..MaxOpenings
    BY <1>a, <2>1, ModalAssumption
  <2>3. QED
    BY <1>a, <2>1, <2>2 DEF ModalInv, ModalTypeOK, SelectionIsOfThisModal, BatchIsOfThisModal
<1>2. ASSUME NEW d \in Headset, StatusChanges(d) \/ Toggle(d) PROVE ModalInv'
  <2>1. /\ online' \subseteq Headset /\ selected' \subseteq Headset
        /\ (~open => selected' = selected) /\ UNCHANGED <<where, open, task, batch, opening>>
    BY <1>2, <1>a DEF StatusChanges, Toggle
  <2>2. QED
    BY <1>a, <2>1 DEF ModalInv, ModalTypeOK, SelectionIsOfThisModal, BatchIsOfThisModal
<1>3. CASE SelectAllOnline
  BY <1>3, <1>a DEF SelectAllOnline, ModalInv, ModalTypeOK, SelectionIsOfThisModal, BatchIsOfThisModal
<1>4. CASE Close
  BY <1>4, <1>a DEF Close, ModalInv, ModalTypeOK, SelectionIsOfThisModal, BatchIsOfThisModal
<1>5. CASE Confirm
  <2> DEFINE b == [stage |-> "sent", task |-> task, ids |-> selected, opening |-> opening]
  <2>1. /\ open /\ selected # {} /\ batch' = b
        /\ UNCHANGED <<where, online, open, task, selected, opening>>
    BY <1>5 DEF Confirm
  <2>2. b \in Batch /\ b.ids # {} /\ b.task \in Task /\ b.opening = opening
    BY <1>a, <2>1 DEF Batch
  <2> HIDE DEF b
  <2>3. QED
    BY <1>a, <2>1, <2>2 DEF ModalInv, ModalTypeOK, SelectionIsOfThisModal, BatchIsOfThisModal
<1>6. CASE BatchServed
  <2>1. /\ batch.stage = "sent" /\ UNCHANGED <<where, online, open, task, selected, opening>>
        /\ batch' = [batch EXCEPT !.stage = "answered"] \/ batch' = [batch EXCEPT !.stage = "failed"]
    BY <1>6 DEF BatchServed
  <2>2. batch' \in Batch /\ batch'.ids = batch.ids /\ batch'.task = batch.task /\ batch'.opening = batch.opening
    BY <1>a, <2>1 DEF Batch
  <2>3. QED
    BY <1>a, <2>1, <2>2 DEF ModalInv, ModalTypeOK, SelectionIsOfThisModal, BatchIsOfThisModal
<1>7. CASE BatchEnds
  <2>1. NoBatch \in Batch /\ NoBatch.stage = "none"
    BY ModalAssumption DEF NoBatch, Batch
  <2>2. /\ batch' = NoBatch /\ UNCHANGED <<where, online, opening>>
        /\ \/ open' = FALSE /\ selected' = {} /\ task' \in {NoTask, task}
           \/ UNCHANGED <<open, selected, task>>
    BY <1>7 DEF BatchEnds
  <2>3. batch' \in Batch /\ batch'.stage = "none"
    BY <2>1, <2>2
  <2>4. /\ open' \in BOOLEAN /\ selected' \subseteq Headset /\ task' \in Task \cup {NoTask}
        /\ (~open' => selected' = {}) /\ (open' => task' \in Task)
    <3>1. CASE open' = FALSE /\ selected' = {} /\ task' \in {NoTask, task}
      BY <1>a, <3>1
    <3>2. CASE UNCHANGED <<open, selected, task>>
      BY <1>a, <3>2
    <3>3. QED
      BY <2>2, <3>1, <3>2
  <2>5. QED
    BY <1>a, <2>2, <2>3, <2>4 DEF ModalInv, ModalTypeOK, SelectionIsOfThisModal, BatchIsOfThisModal
<1>8. CASE UNCHANGED modalVars
  BY <1>a, <1>8 DEF modalVars, ModalInv, ModalTypeOK, SelectionIsOfThisModal, BatchIsOfThisModal
<1>9. QED
  BY <1>1, <1>2, <1>3, <1>4, <1>5, <1>6, <1>7, <1>8 DEF ModalNext, BatchStep

\* The frame as it is first shown.
LEMMA FrameStart == FrameInit \/ FrameClosed => FrameInv
<1> SUFFICES ASSUME FrameInit \/ FrameClosed PROVE FrameInv
  OBVIOUS
<1>1. 0 \in 0..MaxRenders /\ StartWidth \in MinWidth..MaxWidth
  BY FrameAssumption
<1>2. QED
  BY <1>1 DEF FrameInit, FrameClosed, FrameInv, FrameTypeOK, NoListenerIsLeft

\* A drag begins and ends with its own listener.
LEMMA FrameStep == FrameInv /\ [FrameNext]_frameVars => FrameInv'
<1> SUFFICES ASSUME FrameInv, [FrameNext]_frameVars PROVE FrameInv'
  OBVIOUS
<1>a. /\ collapsed \in BOOLEAN /\ dragging \in BOOLEAN /\ frozen \in BOOLEAN
      /\ barWidth \in MinWidth..MaxWidth /\ startWidth \in MinWidth..MaxWidth
      /\ render \in 0..MaxRenders /\ listeners \subseteq Listener
      /\ (frozen <=> dragging) /\ listeners \subseteq {Own} /\ (listeners # {} => dragging)
  BY DEF FrameInv, FrameTypeOK, NoListenerIsLeft
<1>b. Own \in Listener
  BY <1>a DEF Own, Listener
<1>c. render < MaxRenders => render + 1 \in 0..MaxRenders
  BY <1>a, FrameAssumption
<1>1. CASE PressHandle
  <2>1. /\ frozen' = TRUE /\ startWidth' = barWidth /\ dragging' = TRUE
        /\ UNCHANGED <<collapsed, barWidth>>
        /\ IF dragging THEN render' = render /\ listeners' = listeners \cup {Own}
           ELSE render < MaxRenders /\ render' = render + 1 /\ listeners' = (listeners \cup {Own}) \ {Own}
    BY <1>1, <1>a DEF PressHandle, Drags
  <2>2. CASE dragging
    <3>1. Own' = Own
      BY <2>1, <2>2 DEF Own
    <3>2. listeners' \subseteq {Own'} /\ listeners' \subseteq Listener
      BY <1>a, <1>b, <2>1, <2>2, <3>1
    <3>3. QED
      BY <1>a, <2>1, <2>2, <3>2 DEF FrameInv, FrameTypeOK, NoListenerIsLeft
  <2>3. CASE ~dragging
    <3>1. listeners' = {} /\ render' \in 0..MaxRenders
      BY <1>a, <1>c, <2>1, <2>3
    <3>2. QED
      BY <1>a, <2>1, <3>1 DEF FrameInv, FrameTypeOK, NoListenerIsLeft
  <2>4. QED
    BY <2>2, <2>3
<1>2. ASSUME NEW l \in listeners, LiftPointer(l) PROVE FrameInv'
  <2>1. dragging
    BY <1>a
  <2>2. /\ frozen' = FALSE /\ dragging' = FALSE /\ UNCHANGED <<collapsed, barWidth, startWidth>>
        /\ render < MaxRenders /\ render' = render + 1 /\ listeners' = (listeners \ {l}) \ {Own}
    BY <1>2, <2>1 DEF LiftPointer, Drags
  <2>3. listeners' = {} /\ render' \in 0..MaxRenders
    BY <1>a, <1>c, <2>2
  <2>4. QED
    BY <1>a, <2>2, <2>3 DEF FrameInv, FrameTypeOK, NoListenerIsLeft
<1>3. ASSUME NEW l \in listeners, NEW delta \in Delta, MovePointer(l, delta) PROVE FrameInv'
  <2>1. /\ barWidth' = (IF startWidth + delta > MaxWidth THEN MaxWidth
                        ELSE IF startWidth + delta < MinWidth THEN MinWidth ELSE startWidth + delta)
        /\ UNCHANGED <<collapsed, dragging, startWidth, frozen, render, listeners>>
    BY <1>3 DEF MovePointer
  <2>2. barWidth' \in MinWidth..MaxWidth
    <3>1. /\ MinWidth \in Int /\ MaxWidth \in Int /\ MinWidth <= MaxWidth /\ startWidth \in Int
          /\ delta \in Int
      BY <1>a, FrameAssumption
    <3>2. QED
      BY <2>1, <3>1
  <2>3. Own' = Own
    BY <2>1 DEF Own
  <2>4. QED
    BY <1>a, <2>1, <2>2, <2>3 DEF FrameInv, FrameTypeOK, NoListenerIsLeft
<1>4. CASE ToggleCollapsed \/ UNCHANGED frameVars
  <2>1. /\ collapsed' \in BOOLEAN
        /\ UNCHANGED <<dragging, barWidth, startWidth, frozen, render, listeners>>
    BY <1>4, <1>a DEF ToggleCollapsed, frameVars
  <2>2. Own' = Own
    BY <2>1 DEF Own
  <2>3. QED
    BY <1>a, <2>1, <2>2 DEF FrameInv, FrameTypeOK, NoListenerIsLeft
<1>5. QED
  BY <1>1, <1>2, <1>3, <1>4 DEF FrameNext

-----------------------------------------------------------------------------
(* The commands of the control page. *)

\* A request is of one device or of all; what tells them apart is the kind.
LEMMA RequestKinds ==
    /\ \A k \in Kind \cup {"launch", "stop"}, d \in Player : [kind |-> k, device |-> d] \in OneRequest
    /\ \A r \in OneRequest : /\ r.kind \in {"move", "sequence", "launch", "stop"} /\ r.device \in Player
                             /\ r = [kind |-> r.kind, device |-> r.device]
    /\ AllRequest = {[kind |-> "all", device |-> Unset]}
    /\ \A r \in AllRequest : r.kind = "all"
<1>1. \A r \in AllRequest : r = [kind |-> "all", device |-> Unset]
  BY DEF AllRequest
<1>2. [kind |-> "all", device |-> Unset] \in AllRequest
  BY DEF AllRequest
<1>3. AllRequest = {[kind |-> "all", device |-> Unset]}
  BY <1>1, <1>2
<1>4. \A r \in OneRequest : /\ r.kind \in {"move", "sequence", "launch", "stop"} /\ r.device \in Player
                            /\ r = [kind |-> r.kind, device |-> r.device]
  BY DEF OneRequest, Kind
<1>5. \A k \in Kind \cup {"launch", "stop"}, d \in Player : [kind |-> k, device |-> d] \in OneRequest
  BY DEF OneRequest
<1>6. QED
  BY <1>1, <1>3, <1>4, <1>5

\* The marks of an invariant state, request by request.
LEMMA MarksOfRequests ==
    ASSUME CommandTypeOK
    PROVE  MarksTellRequests <=>
             /\ \A k \in Kind, d \in Player : d \in marks[k] <=> [kind |-> k, device |-> d] \in requests
             /\ allPending <=> [kind |-> "all", device |-> Unset] \in requests
             /\ \A k \in {"launch", "stop"} :
                    command = k <=> \E d \in Player : [kind |-> k, device |-> d] \in requests
<1>1. AllRequest \subseteq requests <=> [kind |-> "all", device |-> Unset] \in requests
  BY RequestKinds
<1>2. QED
  BY <1>1 DEF MarksTellRequests

\* At first nothing is marked and nothing asked for.
LEMMA CommandStart == CommandInit => CommandInv
<1> SUFFICES ASSUME CommandInit PROVE CommandInv
  OBVIOUS
<1>1. \A k \in Kind : marks[k] = {}
  BY DEF CommandInit
<1>2. marks \in [Kind -> SUBSET Player]
  BY DEF CommandInit
<1>3. CommandTypeOK
  BY <1>2 DEF CommandInit, CommandTypeOK
<1>4. requests = {} /\ allPending = FALSE /\ command = "" /\ panel = FALSE
  BY DEF CommandInit
<1>5. MarksTellRequests
  BY <1>1, <1>3, <1>4, MarksOfRequests
<1>6. QED
  BY <1>3, <1>4, <1>5 DEF CommandInv

\* Whatever is clicked and whatever ends, the marks are those of the requests.
LEMMA CommandStep == CommandInv /\ [CommandNext]_commandVars => CommandInv'
<1> SUFFICES ASSUME CommandInv, [CommandNext]_commandVars PROVE CommandInv'
  OBVIOUS
<1> DEFINE All == [kind |-> "all", device |-> Unset]
           Of(k, d) == [kind |-> k, device |-> d]
<1>a. /\ present \subseteq Player /\ chosen \in Player \cup {Unset}
      /\ panel \in BOOLEAN /\ target \in Chapter \cup {Unset} /\ option \in Chapter \cup {Unset}
      /\ notice \in {"", "success", "failed"}
      /\ marks \in [Kind -> SUBSET Player] /\ allPending \in BOOLEAN
      /\ command \in {"", "launch", "stop"} /\ requests \subseteq OneRequest \cup AllRequest
      /\ (panel => chosen \in Player)
      /\ \A r, s \in requests : {r.kind, s.kind} \subseteq {"launch", "stop"} => r = s
  BY DEF CommandInv, CommandTypeOK
<1>b. Unset \notin Player
  BY CommandAssumption
<1>c. /\ \A k \in Kind, d \in Player : d \in marks[k] <=> Of(k, d) \in requests
      /\ allPending <=> All \in requests
      /\ \A k \in {"launch", "stop"} : command = k <=> \E d \in Player : Of(k, d) \in requests
  BY MarksOfRequests DEF CommandInv
<1>d. /\ \A k \in Kind \cup {"launch", "stop"}, d \in Player : Of(k, d) \in OneRequest
      /\ \A r \in OneRequest : /\ r.kind \in {"move", "sequence", "launch", "stop"}
                               /\ r.device \in Player /\ r = Of(r.kind, r.device)
      /\ AllRequest = {All} /\ All.kind = "all"
  BY RequestKinds
<1>e. ASSUME UNCHANGED <<marks, allPending, command, requests>>,
             present' \subseteq Player, chosen' \in Player \cup {Unset}, panel' \in BOOLEAN,
             target' \in Chapter \cup {Unset}, option' \in Chapter \cup {Unset},
             notice' \in {"", "success", "failed"}, panel' => chosen' \in Player
      PROVE  CommandInv'
  BY <1>e DEF CommandInv, CommandTypeOK, MarksTellRequests, OneRequest, AllRequest
<1>f. ASSUME marks' \in [Kind -> SUBSET Player], allPending' \in BOOLEAN,
             command' \in {"", "launch", "stop"}, requests' \subseteq OneRequest \cup AllRequest,
             notice' \in {"", "success", "failed"},
             UNCHANGED <<present, chosen, panel, target, option>>,
             \A k \in Kind, d \in Player : d \in marks'[k] <=> Of(k, d) \in requests',
             allPending' <=> All \in requests',
             \A k \in {"launch", "stop"} : command' = k <=> \E d \in Player : Of(k, d) \in requests',
             \A r, s \in requests' : {r.kind, s.kind} \subseteq {"launch", "stop"} => r = s
      PROVE  CommandInv'
  <2>1. CommandTypeOK'
    BY <1>a, <1>f DEF CommandTypeOK
  <2>2. (AllRequest \subseteq requests)' <=> All \in requests'
    BY <1>d
  <2>3. MarksTellRequests'
    BY <1>f, <2>2 DEF MarksTellRequests
  <2>4. QED
    BY <1>a, <1>f, <2>1, <2>3 DEF CommandInv
<1>1. ASSUME NEW S \in SUBSET Player, Devices(S) PROVE CommandInv'
  <2>1. /\ present' \subseteq Player /\ chosen' \in Player \cup {Unset} /\ panel' \in BOOLEAN
        /\ (panel' => chosen' \in Player)
        /\ UNCHANGED <<target, option, notice, marks, allPending, command, requests>>
    BY <1>1, <1>a DEF Devices
  <2>2. QED
    BY <1>a, <1>e, <2>1
<1>2. ASSUME NEW d \in Player, SelectDevice(d) \/ OpenActions(d) PROVE CommandInv'
  <2>1. /\ chosen' = d /\ panel' \in BOOLEAN /\ target' \in Chapter \cup {Unset}
        /\ UNCHANGED <<present, option, notice, marks, allPending, command, requests>>
    BY <1>2, <1>a DEF SelectDevice, OpenActions
  <2>2. QED
    BY <1>a, <1>e, <2>1
<1>3. CASE CloseActions
  <2>1. /\ panel' = FALSE
        /\ UNCHANGED <<present, chosen, target, option, notice, marks, allPending, command, requests>>
    BY <1>3 DEF CloseActions
  <2>2. QED
    BY <1>a, <1>e, <2>1
<1>4. ASSUME NEW c \in Chapter \cup {Unset}, ChooseTarget(c) \/ ChooseOption(c) PROVE CommandInv'
  <2>1. /\ target' \in Chapter \cup {Unset} /\ option' \in Chapter \cup {Unset}
        /\ UNCHANGED <<present, chosen, panel, notice, marks, allPending, command, requests>>
    BY <1>4, <1>a DEF ChooseTarget, ChooseOption
  <2>2. QED
    BY <1>a, <1>e, <2>1
<1>5. CASE NoticeEnds
  <2>1. /\ notice' = "" /\ option' = Unset
        /\ UNCHANGED <<present, chosen, panel, target, marks, allPending, command, requests>>
    BY <1>5 DEF NoticeEnds
  <2>2. QED
    BY <1>a, <1>e, <2>1
<1>6. ASSUME NEW k \in Kind, ClickOne(k) PROVE CommandInv'
  <2>1. /\ chosen \in Player /\ requests' = requests \cup {Of(k, chosen)}
        /\ marks' = [marks EXCEPT ![k] = @ \cup {chosen}]
        /\ UNCHANGED <<present, chosen, panel, target, option, notice, allPending, command>>
    BY <1>6, <1>a DEF ClickOne
  <2>2. Of(k, chosen) \in OneRequest /\ requests' \subseteq OneRequest \cup AllRequest
    <3>1. Of(k, chosen) \in OneRequest
      BY <1>d, <2>1
    <3> HIDE DEF Of
    <3>2. QED
      BY <1>a, <2>1, <3>1
  <2>3. marks' \in [Kind -> SUBSET Player]
    BY <1>a, <2>1
  <2>4. \A j \in Kind, d \in Player : d \in marks'[j] <=> Of(j, d) \in requests'
    <3>1. ASSUME NEW j \in Kind, NEW d \in Player
          PROVE  d \in marks'[j] <=> Of(j, d) \in requests'
      <4>1. Of(j, d) = Of(k, chosen) <=> j = k /\ d = chosen
        BY <1>d
      <4>2. marks'[j] = IF j = k THEN marks[k] \cup {chosen} ELSE marks[j]
        BY <1>a, <2>1
      <4>3. d \in marks[j] <=> Of(j, d) \in requests
        BY <1>c
      <4> HIDE DEF Of
      <4>4. QED
        BY <2>1, <4>1, <4>2, <4>3
    <3>2. QED
      BY <3>1
  <2>5. All \in requests' <=> All \in requests
    BY <2>1 DEF Kind
  <2>6. \A j \in {"launch", "stop"}, d \in Player : Of(j, d) \in requests' <=> Of(j, d) \in requests
    BY <2>1 DEF Kind
  <2>7. \A r, s \in requests' : {r.kind, s.kind} \subseteq {"launch", "stop"} => r = s
    <3>1. ~(Of(k, chosen).kind \in {"launch", "stop"})
      BY DEF Kind
    <3> HIDE DEF Of
    <3>2. QED
      BY <1>a, <2>1, <3>1
  <2>8. QED
    <3> HIDE DEF Of, All
    <3>1. QED
      BY <1>a, <1>c, <1>f, <2>1, <2>2, <2>3, <2>4, <2>5, <2>6, <2>7
<1>7. CASE ClickAll
  <2>1. /\ requests' = requests \cup {All} /\ allPending' = TRUE
        /\ UNCHANGED <<present, chosen, panel, target, option, notice, marks, command>>
    BY <1>7, <1>d DEF ClickAll
  <2>2. \A k \in Kind \cup {"launch", "stop"}, d \in Player :
            Of(k, d) \in requests' <=> Of(k, d) \in requests
    BY <2>1 DEF Kind
  <2>3. \A r, s \in requests' : {r.kind, s.kind} \subseteq {"launch", "stop"} => r = s
    <3>1. ~(All.kind \in {"launch", "stop"})
      OBVIOUS
    <3> HIDE DEF All
    <3>2. QED
      BY <1>a, <2>1, <3>1
  <2>4. QED
    <3> HIDE DEF Of, All
    <3>1. QED
      BY <1>a, <1>c, <1>d, <1>f, <2>1, <2>2, <2>3
<1>8. ASSUME NEW k \in {"launch", "stop"}, ClickCommand(k) PROVE CommandInv'
  <2>1. /\ chosen \in Player /\ command = "" /\ command' = k
        /\ requests' = requests \cup {Of(k, chosen)}
        /\ UNCHANGED <<present, chosen, panel, target, option, notice, marks, allPending>>
    BY <1>8, <1>a DEF ClickCommand
  <2>2. Of(k, chosen) \in OneRequest /\ requests' \subseteq OneRequest \cup AllRequest
    <3>1. Of(k, chosen) \in OneRequest
      BY <1>d, <2>1
    <3> HIDE DEF Of
    <3>2. QED
      BY <1>a, <2>1, <3>1
  <2>3. \A j \in Kind, d \in Player : Of(j, d) \in requests' <=> Of(j, d) \in requests
    BY <2>1 DEF Kind
  <2>4. All \in requests' <=> All \in requests
    BY <2>1
  <2>5. \A r \in requests : ~(r.kind \in {"launch", "stop"})
    <3>1. ASSUME NEW r \in requests, r.kind \in {"launch", "stop"} PROVE FALSE
      <4>1. r \in OneRequest
        BY <1>a, <1>d, <3>1
      <4>2. r.device \in Player /\ r = Of(r.kind, r.device)
        BY <1>d, <4>1
      <4>3. command = r.kind
        <5> HIDE DEF Of
        <5>1. QED
          BY <1>c, <3>1, <4>2
      <4>4. QED
        BY <2>1, <3>1, <4>3
    <3>2. QED
      BY <3>1
  <2>6. \A r, s \in requests' : {r.kind, s.kind} \subseteq {"launch", "stop"} => r = s
    BY <2>1, <2>5
  <2>7. \A j \in {"launch", "stop"} : command' = j <=> \E d \in Player : Of(j, d) \in requests'
    <3>1. ASSUME NEW j \in {"launch", "stop"}, NEW d \in Player, Of(j, d) \in requests' PROVE j = k
      <4>1. Of(j, d).kind = j
        OBVIOUS
      <4>2. Of(j, d) = Of(k, chosen) => j = k
        OBVIOUS
      <4> HIDE DEF Of
      <4>3. QED
        BY <2>1, <2>5, <3>1, <4>1, <4>2
    <3>2. Of(k, chosen) \in requests'
      BY <2>1
    <3> HIDE DEF Of
    <3>3. QED
      BY <2>1, <3>1, <3>2
  <2>8. QED
    <3> HIDE DEF Of, All
    <3>1. QED
      BY <1>a, <1>c, <1>f, <2>1, <2>2, <2>3, <2>4, <2>6, <2>7
<1>9. ASSUME NEW r \in OneRequest \cup AllRequest, Ended(r) PROVE CommandInv'
  <2>1. /\ r \in requests /\ requests' = requests \ {r}
        /\ notice' \in {"", "success", "failed"}
        /\ UNCHANGED <<present, chosen, panel, target, option>>
        /\ IF r.kind \in Kind THEN marks' = [marks EXCEPT ![r.kind] = @ \ {r.device}]
                              ELSE marks' = marks
        /\ allPending' = (IF r.kind = "all" THEN FALSE ELSE allPending)
        /\ command' = (IF r.kind \in {"launch", "stop"} THEN "" ELSE command)
    BY <1>9, <1>a DEF Ended, Unmarked
  <2>2. /\ requests' \subseteq OneRequest \cup AllRequest
        /\ \A q, s \in requests' : {q.kind, s.kind} \subseteq {"launch", "stop"} => q = s
    BY <1>a, <2>1
  <2>3. allPending' \in BOOLEAN /\ command' \in {"", "launch", "stop"}
    BY <1>a, <2>1
  <2>4. marks' \in [Kind -> SUBSET Player]
    BY <1>a, <2>1
  <2>5. \A k \in Kind, d \in Player : d \in marks'[k] <=> Of(k, d) \in requests'
    <3>1. ASSUME NEW k \in Kind, NEW d \in Player
          PROVE  d \in marks'[k] <=> Of(k, d) \in requests'
      <4>1. d \in marks[k] <=> Of(k, d) \in requests
        BY <1>c
      <4>2. CASE r = Of(k, d)
        <5>1. r.kind = k /\ r.device = d
          BY <4>2
        <5>2. d \notin marks'[k]
          BY <1>a, <2>1, <5>1
        <5> HIDE DEF Of
        <5>3. QED
          BY <2>1, <4>2, <5>2
      <4>3. CASE r # Of(k, d)
        <5>1. r.kind = k => r.device # d
          <6>1. CASE r \in OneRequest
            BY <1>d, <4>3, <6>1
          <6>2. CASE r \in AllRequest
            BY <1>d, <6>2 DEF Kind
          <6>3. QED
            BY <6>1, <6>2
        <5>2. d \in marks'[k] <=> d \in marks[k]
          BY <1>a, <2>1, <5>1
        <5> HIDE DEF Of
        <5>3. QED
          BY <2>1, <4>1, <4>3, <5>2
      <4>4. QED
        BY <4>2, <4>3
    <3>2. QED
      BY <3>1
  <2>6. allPending' <=> All \in requests'
    <3>1. r.kind = "all" <=> r = All
      <4>1. CASE r \in OneRequest
        BY <1>d, <4>1
      <4>2. CASE r \in AllRequest
        BY <1>d, <4>2
      <4>3. QED
        BY <4>1, <4>2
    <3> HIDE DEF All
    <3>2. QED
      BY <1>c, <2>1, <3>1
  <2>7. \A k \in {"launch", "stop"} : command' = k <=> \E d \in Player : Of(k, d) \in requests'
    <3>1. CASE r.kind \in {"launch", "stop"}
      <4>1. \A k \in {"launch", "stop"}, d \in Player : Of(k, d) \notin requests'
        <5>1. ASSUME NEW k \in {"launch", "stop"}, NEW d \in Player, Of(k, d) \in requests'
              PROVE  FALSE
          <6>1. Of(k, d).kind = k
            OBVIOUS
          <6> HIDE DEF Of
          <6>2. Of(k, d) \in requests /\ Of(k, d) # r
            BY <2>1, <5>1
          <6>3. {Of(k, d).kind, r.kind} \subseteq {"launch", "stop"}
            BY <3>1, <6>1
          <6>4. QED
            BY <1>a, <2>1, <6>2, <6>3
        <5>2. QED
          BY <5>1
      <4> HIDE DEF Of
      <4>2. QED
        BY <2>1, <3>1, <4>1
    <3>2. CASE ~(r.kind \in {"launch", "stop"})
      <4>1. \A k \in {"launch", "stop"}, d \in Player : Of(k, d) # r
        BY <3>2
      <4> HIDE DEF Of
      <4>2. QED
        BY <1>c, <2>1, <3>2, <4>1
    <3>3. QED
      BY <3>1, <3>2
  <2>8. QED
    <3> HIDE DEF Of, All
    <3>1. QED
      BY <1>f, <2>1, <2>2, <2>3, <2>4, <2>5, <2>6, <2>7
<1>10. CASE UNCHANGED commandVars
  <2>1. UNCHANGED <<present, chosen, panel, target, option, notice, marks, allPending, command, requests>>
    BY <1>10 DEF commandVars
  <2>2. QED
    BY <1>a, <1>e, <2>1
<1>11. QED
  BY <1>1, <1>2, <1>3, <1>4, <1>5, <1>6, <1>7, <1>8, <1>9, <1>10 DEF CommandNext

-----------------------------------------------------------------------------
(* The plan of the room. *)

\* At first nobody is on the plan.
LEMMA MapStart == MapInit \/ MapClosed => MapInv
<1> SUFFICES ASSUME MapInit \/ MapClosed PROVE MapInv
  OBVIOUS
<1>1. DOMAIN players = {} /\ DOMAIN markers = {} /\ viewer \in {"control", "monitor"}
  BY EmptySeq DEF MapInit, MapClosed
<1>2. QED
  BY <1>1 DEF MapInv, MapTypeOK

\* A marker computed anew differs from what MapTypeOK asks for in nothing.
LEMMA MarkersAnew ==
    ASSUME viewer' \in {"control", "monitor"}, DOMAIN players' \subseteq Avatar,
           \A a \in DOMAIN players' : players'[a] \in PlayerData, markers' = Markers(players')
    PROVE  MapInv'
<1>1. DOMAIN markers' = DOMAIN players' /\ \A a \in DOMAIN players' : markers'[a] = Marker(players'[a])
  BY DEF Markers
<1>2. ASSUME NEW a \in DOMAIN players'
      PROVE  /\ markers'[a] = [Marker(players'[a]) EXCEPT !.stale = markers'[a].stale]
             /\ markers'[a].stale => players'[a].age > Threshold
  <2>1. markers'[a] = Marker(players'[a])
    BY <1>1
  <2>2. Marker(players'[a]).stale = (players'[a].age > Threshold)
    BY DEF Marker
  <2>3. [Marker(players'[a]) EXCEPT !.stale = Marker(players'[a]).stale] = Marker(players'[a])
    BY DEF Marker
  <2>4. QED
    BY <2>1, <2>2, <2>3
<1>3. QED
  BY <1>1, <1>2 DEF MapInv, MapTypeOK

\* A message or a load computes the markers anew; a second leaves them, and only makes
\* players more silent.
LEMMA MapStep == MapInv /\ [MapNext]_mapVars => MapInv'
<1> SUFFICES ASSUME MapInv, [MapNext]_mapVars PROVE MapInv'
  OBVIOUS
<1>a. /\ viewer \in {"control", "monitor"}
      /\ DOMAIN players \subseteq Avatar /\ DOMAIN markers = DOMAIN players
      /\ \A a \in DOMAIN players :
           /\ players[a] \in PlayerData
           /\ markers[a] = [Marker(players[a]) EXCEPT !.stale = markers[a].stale]
           /\ (markers[a].stale => players[a].age > Threshold)
  BY DEF MapInv, MapTypeOK
<1>1. ASSUME NEW a \in Avatar, Gone(a) PROVE MapInv'
  <2>1. /\ DOMAIN players' \subseteq DOMAIN players
        /\ \A b \in DOMAIN players' : players'[b] = players[b]
        /\ markers' = Markers(players') /\ viewer' = viewer
    BY <1>1 DEF Gone
  <2>2. QED
    BY <1>a, <2>1, MarkersAnew
<1>2. ASSUME NEW a \in Avatar, NEW data \in PlayerData, Delivered(a, data) PROVE MapInv'
  <2>1. /\ DOMAIN players' = DOMAIN players \cup {a}
        /\ \A b \in DOMAIN players' : players'[b] = IF b = a THEN data ELSE players[b]
        /\ markers' = Markers(players') /\ viewer' = viewer
    BY <1>2 DEF Delivered
  <2>2. QED
    BY <1>a, <2>1, MarkersAnew
<1>3. CASE Second
  <2>1. /\ DOMAIN players' = DOMAIN players /\ UNCHANGED <<viewer, markers>>
        /\ \A a \in DOMAIN players :
             players'[a] = [players[a] EXCEPT !.age = IF @ < Silent THEN @ + 1 ELSE @]
    BY <1>3 DEF Second
  <2>2. ASSUME NEW a \in DOMAIN players
        PROVE  /\ players'[a] \in PlayerData
               /\ markers[a] = [Marker(players'[a]) EXCEPT !.stale = markers[a].stale]
               /\ (markers[a].stale => players'[a].age > Threshold)
    <3> DEFINE p == players[a]
               older == IF p.age < Silent THEN p.age + 1 ELSE p.age
    <3>1. p \in PlayerData /\ p.age \in 0..Silent
      BY <1>a DEF PlayerData
    <3>2. Threshold \in Nat /\ Silent = Threshold + 1
      BY MapAssumption DEF Silent
    <3>3. older \in 0..Silent /\ (p.age > Threshold => older > Threshold)
      BY <3>1, <3>2
    <3>4. players'[a] = [p EXCEPT !.age = older]
      BY <2>1
    <3>5. /\ players'[a] \in PlayerData /\ players'[a].age = older
          /\ players'[a].head = p.head /\ players'[a].gaze = p.gaze /\ players'[a].ready = p.ready
      <4> HIDE DEF older
      <4>1. QED
        BY <3>1, <3>3, <3>4 DEF PlayerData
    <3>6. [Marker(players'[a]) EXCEPT !.stale = markers[a].stale]
              = [Marker(p) EXCEPT !.stale = markers[a].stale]
      BY <3>5 DEF Marker
    <3> HIDE DEF older
    <3>7. markers[a].stale => players'[a].age > Threshold
      BY <1>a, <3>3, <3>5
    <3>8. QED
      BY <1>a, <3>5, <3>6, <3>7
  <2>3. QED
    BY <1>a, <2>1, <2>2 DEF MapInv, MapTypeOK
<1>4. CASE Reloaded
  <2>1. markers' = Markers(players') /\ UNCHANGED <<viewer, players>>
    BY <1>4 DEF Reloaded
  <2>2. QED
    BY <1>a, <2>1, MarkersAnew
<1>5. CASE UNCHANGED mapVars
  BY <1>a, <1>5 DEF mapVars, MapInv, MapTypeOK
<1>6. QED
  BY <1>1, <1>2, <1>3, <1>4, <1>5 DEF MapNext

\* What is clamped is within the room, and is what it was just when it was within.
LEMMA ClampedIsWithin ==
    ASSUME NEW v \in Int, NEW half \in Nat
    PROVE  /\ Clamped(v, half) \in -half..half
           /\ Clamped(v, half) = v <=> v \in -half..half
  BY DEF Clamped

\* A step of one keeps to the plan: it moves the point by that step, or not at all.
LEMMA ClampedStep ==
    ASSUME NEW v \in Int, NEW half \in Nat \ {0}, NEW d \in {-1, 0, 1}
    PROVE  /\ Clamped(v + d, half) - Clamped(v, half) \in {0, d}
           /\ v \in -half..half /\ v + d \in -half..half => Clamped(v + d, half) - Clamped(v, half) = d
  BY DEF Clamped

\* A head and a gaze of a player are whole metres, and steps.
LEMMA PlayersMeasure ==
    ASSUME NEW data \in PlayerData
    PROVE  /\ data.head.x \in Int /\ data.head.z \in Int
           /\ data.gaze.x \in {-1, 0, 1} /\ data.gaze.z \in {-1, 0, 1}
<1>1. data.head \in [x : Int, z : Int] /\ data.gaze \in [x : {-1, 0, 1}, z : {-1, 0, 1}]
  BY MapAssumption DEF PlayerData
<1>2. QED
  BY <1>1

\* Every player is drawn on the plan, whatever its position, and said to be out of bounds
\* just when it is drawn elsewhere.
LEMMA MapSound == MapInv => MarkersAreRight /\ ArrowsPointAhead
<1> SUFFICES ASSUME MapInv PROVE MarkersAreRight /\ ArrowsPointAhead
  OBVIOUS
<1>a. ASSUME NEW a \in DOMAIN markers
      PROVE  /\ a \in DOMAIN players /\ players[a] \in PlayerData
             /\ markers[a].at = Position(players[a].head)
             /\ markers[a].heading = Heading(players[a].gaze)
             /\ markers[a].stale => players[a].age > Threshold
  <2>1. /\ a \in DOMAIN players /\ players[a] \in PlayerData
        /\ markers[a] = [Marker(players[a]) EXCEPT !.stale = markers[a].stale]
        /\ markers[a].stale => players[a].age > Threshold
    BY DEF MapInv, MapTypeOK
  <2> DEFINE mark == markers[a].stale
  <2>2. markers[a] = [Marker(players[a]) EXCEPT !.stale = mark]
    BY <2>1
  <2> HIDE DEF mark
  <2>3. /\ markers[a].at = Position(players[a].head)
        /\ markers[a].heading = Heading(players[a].gaze)
    BY <2>2 DEF Marker
  <2>4. QED
    BY <2>1, <2>3
<1>b. HalfWidth \in Nat \ {0} /\ HalfDepth \in Nat \ {0}
  BY MapAssumption
<1>1. ASSUME NEW a \in DOMAIN markers
      PROVE  /\ markers[a].at.x \in 0..2 * HalfWidth /\ markers[a].at.y \in 0..2 * HalfDepth
             /\ markers[a].at.out <=> markers[a].at.clamped
             /\ Colour(markers[a]) = "muted" => players[a].age > Threshold
  <2> DEFINE x == players[a].head.x
             z == players[a].head.z
             cx == Clamped(x, HalfWidth)
             cz == Clamped(z, HalfDepth)
  <2>1. x \in Int /\ z \in Int
    BY <1>a, PlayersMeasure
  <2>2. /\ cx \in -HalfWidth..HalfWidth /\ (cx = x <=> x \in -HalfWidth..HalfWidth)
        /\ cz \in -HalfDepth..HalfDepth /\ (cz = z <=> z \in -HalfDepth..HalfDepth)
    BY <1>b, <2>1, ClampedIsWithin
  <2>3. /\ markers[a].at.x = cx + HalfWidth
        /\ markers[a].at.y = 2 * HalfDepth - (cz + HalfDepth)
        /\ markers[a].at.out <=> x \notin -HalfWidth..HalfWidth \/ z \notin -HalfDepth..HalfDepth
        /\ markers[a].at.clamped <=> cx # x \/ cz # z
    <3>1. markers[a].at = Position(players[a].head)
      BY <1>a
    <3>2. Position(players[a].head) =
            [x |-> cx + HalfWidth, y |-> 2 * HalfDepth - (cz + HalfDepth),
             out |-> x \notin -HalfWidth..HalfWidth \/ z \notin -HalfDepth..HalfDepth,
             clamped |-> cx # x \/ cz # z]
      BY DEF Position
    <3> DEFINE out == x \notin -HalfWidth..HalfWidth \/ z \notin -HalfDepth..HalfDepth
               clamped == cx # x \/ cz # z
    <3> HIDE DEF x, z, cx, cz, out, clamped
    <3>3. markers[a].at = [x |-> cx + HalfWidth, y |-> 2 * HalfDepth - (cz + HalfDepth),
                           out |-> out, clamped |-> clamped]
      BY <3>1, <3>2 DEF out, clamped
    <3>4. /\ markers[a].at.x = cx + HalfWidth
          /\ markers[a].at.y = 2 * HalfDepth - (cz + HalfDepth)
          /\ markers[a].at.out = out /\ markers[a].at.clamped = clamped
      BY <3>3
    <3>5. QED
      BY <3>4 DEF out, clamped
  <2>4. Colour(markers[a]) = "muted" => markers[a].stale
    BY DEF Colour
  <2> HIDE DEF x, z, cx, cz
  <2>5. cx + HalfWidth \in 0..2 * HalfWidth /\ 2 * HalfDepth - (cz + HalfDepth) \in 0..2 * HalfDepth
    BY <1>b, <2>2
  <2>6. QED
    BY <1>a, <2>2, <2>3, <2>4, <2>5
<1>2. ASSUME NEW a \in DOMAIN markers
      PROVE  LET p == players[a]
                 m == markers[a]
                 ahead == Position([x |-> p.head.x + p.gaze.x, z |-> p.head.z + p.gaze.z])
             IN  /\ ahead.x - m.at.x \in {0, m.heading.dx}
                 /\ ahead.y - m.at.y \in {0, m.heading.dy}
                 /\ ~ahead.out /\ ~m.at.out =>
                        ahead.x - m.at.x = m.heading.dx /\ ahead.y - m.at.y = m.heading.dy
  <2> DEFINE x == players[a].head.x
             z == players[a].head.z
             dx == players[a].gaze.x
             dz == players[a].gaze.z
             ahead == Position([x |-> x + dx, z |-> z + dz])
             m == markers[a]
             fx == Clamped(x + dx, HalfWidth)
             fz == Clamped(z + dz, HalfDepth)
             cx == Clamped(x, HalfWidth)
             cz == Clamped(z, HalfDepth)
  <2>1. x \in Int /\ z \in Int /\ dx \in {-1, 0, 1} /\ dz \in {-1, 0, 1}
    BY <1>a, PlayersMeasure
  <2>2. /\ ahead.x = fx + HalfWidth /\ ahead.y = 2 * HalfDepth - (fz + HalfDepth)
        /\ ahead.out <=> x + dx \notin -HalfWidth..HalfWidth \/ z + dz \notin -HalfDepth..HalfDepth
    BY DEF Position
  <2>3. /\ m.at.x = cx + HalfWidth /\ m.at.y = 2 * HalfDepth - (cz + HalfDepth)
        /\ m.at.out <=> x \notin -HalfWidth..HalfWidth \/ z \notin -HalfDepth..HalfDepth
    <3>1. m.at = Position(players[a].head)
      BY <1>a
    <3>2. Position(players[a].head) =
            [x |-> cx + HalfWidth, y |-> 2 * HalfDepth - (cz + HalfDepth),
             out |-> x \notin -HalfWidth..HalfWidth \/ z \notin -HalfDepth..HalfDepth,
             clamped |-> cx # x \/ cz # z]
      BY DEF Position
    <3> DEFINE out == x \notin -HalfWidth..HalfWidth \/ z \notin -HalfDepth..HalfDepth
               clamped == cx # x \/ cz # z
    <3> HIDE DEF x, z, cx, cz, m, out, clamped
    <3>3. m.at = [x |-> cx + HalfWidth, y |-> 2 * HalfDepth - (cz + HalfDepth),
                  out |-> out, clamped |-> clamped]
      BY <3>1, <3>2 DEF out, clamped
    <3>4. /\ m.at.x = cx + HalfWidth /\ m.at.y = 2 * HalfDepth - (cz + HalfDepth)
          /\ m.at.out = out
      BY <3>3
    <3>5. QED
      BY <3>4 DEF out
  <2>4. m.heading.dx = dx /\ m.heading.dy = -dz
    <3>1. m.heading = Heading(players[a].gaze)
      BY <1>a
    <3>2. Heading(players[a].gaze) = [dx |-> dx, dy |-> -dz]
      BY DEF Heading
    <3> HIDE DEF dx, dz, m
    <3>3. QED
      BY <3>1, <3>2
  <2>5. /\ cx \in Int /\ cz \in Int /\ fx \in Int /\ fz \in Int
    <3>1. x + dx \in Int /\ z + dz \in Int
      BY <2>1
    <3>2. /\ cx \in -HalfWidth..HalfWidth /\ cz \in -HalfDepth..HalfDepth
          /\ fx \in -HalfWidth..HalfWidth /\ fz \in -HalfDepth..HalfDepth
      BY <1>b, <2>1, <3>1, ClampedIsWithin
    <3>3. QED
      BY <1>b, <3>2
  <2>6. /\ fx - cx \in {0, dx}
        /\ x \in -HalfWidth..HalfWidth /\ x + dx \in -HalfWidth..HalfWidth => fx - cx = dx
    BY <1>b, <2>1, ClampedStep
  <2>7. /\ fz - cz \in {0, dz}
        /\ z \in -HalfDepth..HalfDepth /\ z + dz \in -HalfDepth..HalfDepth => fz - cz = dz
    BY <1>b, <2>1, ClampedStep
  <2> HIDE DEF x, z, dx, dz, fx, fz, cx, cz, ahead, m
  <2>8. ahead.x - m.at.x = fx - cx /\ ahead.y - m.at.y = -(fz - cz)
    BY <1>b, <2>2, <2>3, <2>5
  <2>9. -(fz - cz) \in {0, -dz}
    BY <2>1, <2>5, <2>7
  <2>10. /\ ahead.x - m.at.x \in {0, m.heading.dx}
         /\ ahead.y - m.at.y \in {0, m.heading.dy}
         /\ ~ahead.out /\ ~m.at.out =>
                ahead.x - m.at.x = m.heading.dx /\ ahead.y - m.at.y = m.heading.dy
    BY <2>2, <2>3, <2>4, <2>6, <2>7, <2>8, <2>9
  <2>11. QED
    BY <2>10 DEF x, z, dx, dz, ahead, m
<1>3. MarkersAreRight
  BY <1>1 DEF MarkersAreRight
<1>4. ArrowsPointAhead
  BY <1>2 DEF ArrowsPointAhead
<1>5. QED
  BY <1>3, <1>4

-----------------------------------------------------------------------------
(* All pages. *)

\* A page is as it is when it is opened, or closed.
LEMMA PagesStart == Init => PagesInv
<1> SUFFICES ASSUME Init PROVE PagesInv
  OBVIOUS
<1>1. /\ page \in Page
      /\ SwitchInit /\ TableInit /\ SettingsInit /\ CatalogInit /\ CommandInit
      /\ FormInit \/ FormClosed
      /\ ModalInit \/ ModalClosed
      /\ MapInit \/ MapClosed
      /\ FrameInit \/ FrameClosed
  BY DEF Init
<1>2. SwitchInv /\ TableInv /\ SettingsInv /\ FormInv /\ CatalogInv
  BY <1>1, SwitchStart, TableStart, SettingsStart, FormStart, CatalogStart
<1>3. ModalInv /\ CommandInv /\ MapInv /\ FrameInv
  BY <1>1, ModalStart, CommandStart, MapStart, FrameStart
<1>4. QED
  BY <1>1, <1>2, <1>3 DEF PagesInv

\* A step of the console is of one page; to the others it is none.
LEMMA StepOfOnePage ==
    ASSUME [Next]_consoleVars
    PROVE  /\ page' = page
           /\ [SwitchNext]_switchVars /\ [TableNext]_tableVars /\ [SettingsNext]_settingsVars
           /\ [FormNext]_formVars /\ [CatalogNext]_catalogVars /\ [ModalNext]_modalVars
           /\ [CommandNext]_commandVars /\ [MapNext]_mapVars /\ [FrameNext]_frameVars
<1>1. ASSUME UNCHANGED consoleVars
      PROVE  /\ page' = page
             /\ UNCHANGED <<switchVars, tableVars, settingsVars, formVars, catalogVars, modalVars,
                            commandVars, mapVars, frameVars>>
  BY <1>1 DEF consoleVars
<1>2. CASE OnlyOn("switch") /\ SwitchNext
  BY <1>2 DEF OnlyOn
<1>3. CASE OnlyOn("table") /\ TableNext
  BY <1>3 DEF OnlyOn
<1>4. CASE OnlyOn("settings") /\ SettingsNext
  BY <1>4 DEF OnlyOn
<1>5. CASE OnlyOn("form") /\ FormNext
  BY <1>5 DEF OnlyOn
<1>6. CASE OnlyOn("catalog") /\ CatalogNext
  BY <1>6 DEF OnlyOn
<1>7. CASE OnlyOn("modal") /\ ModalNext
  BY <1>7 DEF OnlyOn
<1>8. CASE OnlyOn("commands") /\ CommandNext
  BY <1>8 DEF OnlyOn
<1>9. CASE OnlyOn("map") /\ MapNext
  BY <1>9 DEF OnlyOn
<1>10. CASE OnlyOn("frame") /\ FrameNext
  BY <1>10 DEF OnlyOn
<1>11. QED
  BY <1>1, <1>2, <1>3, <1>4, <1>5, <1>6, <1>7, <1>8, <1>9, <1>10 DEF Next

\* Each page keeps its own invariant.
LEMMA PagesStep == PagesInv /\ [Next]_consoleVars => PagesInv'
<1> SUFFICES ASSUME PagesInv, [Next]_consoleVars PROVE PagesInv'
  OBVIOUS
<1>1. page' \in Page
  BY StepOfOnePage DEF PagesInv
<1>2. SwitchInv' /\ TableInv' /\ SettingsInv' /\ FormInv' /\ CatalogInv'
  <2>1. SwitchInv /\ TableInv /\ SettingsInv /\ FormInv /\ CatalogInv
    BY DEF PagesInv
  <2>2. /\ [SwitchNext]_switchVars /\ [TableNext]_tableVars /\ [SettingsNext]_settingsVars
        /\ [FormNext]_formVars /\ [CatalogNext]_catalogVars
    BY StepOfOnePage
  <2>3. QED
    BY <2>1, <2>2, SwitchStep, TableStep, SettingsStep, FormStep, CatalogStep
<1>3. ModalInv' /\ CommandInv' /\ MapInv' /\ FrameInv'
  <2>1. ModalInv /\ CommandInv /\ MapInv /\ FrameInv
    BY DEF PagesInv
  <2>2. /\ [ModalNext]_modalVars /\ [CommandNext]_commandVars /\ [MapNext]_mapVars
        /\ [FrameNext]_frameVars
    BY StepOfOnePage
  <2>3. QED
    BY <2>1, <2>2, ModalStep, CommandStep, MapStep, FrameStep
<1>4. QED
  BY <1>1, <1>2, <1>3 DEF PagesInv

\* What holds of every page at every moment.
LEMMA PagesInvariant == Spec => []PagesInv
<1>1. Init => PagesInv
  BY PagesStart
<1>2. PagesInv /\ [Next]_consoleVars => PagesInv'
  BY PagesStep
<1>3. QED
  BY <1>1, <1>2, PTL DEF Spec

\* No page's own state comes apart, for any devices, actions, rooms, numbers of requests and
\* sizes of the plan: what is selected is of the open modal (page.tsx of actions and of the
\* control page), what is disabled has a request under way, markers and arrows are those of
\* the players (room-minimap), and the frame leaves no listener on the window (app-sidebar).
THEOREM PagesSound == Spec => []PagesAreSound
<1>1. PagesInv => PagesAreSound
  <2> SUFFICES ASSUME PagesInv PROVE PagesAreSound
    OBVIOUS
  <2>1. TypeOK
    BY DEF PagesInv, TypeOK, SwitchInv, TableInv, SettingsInv, FormInv, CatalogInv, ModalInv,
           CommandInv, MapInv, FrameInv
  <2>2. SelectionIsOfThisModal /\ MarksTellRequests /\ NoListenerIsLeft
    BY DEF PagesInv, ModalInv, CommandInv, FrameInv
  <2>3. MarkersAreRight /\ ArrowsPointAhead
    BY MapSound DEF PagesInv
  <2>4. QED
    BY <2>1, <2>2, <2>3 DEF PagesAreSound
<1>2. QED
  BY <1>1, PagesInvariant, PTL

\* While the monitoring service runs, at least one loop checks the devices, and more than one
\* only after as many starts that found an earlier loop still in its round
\* (monitoring_service.go, Start, Stop and the loop), for any number of starts.
THEOREM LoopServes == Spec => []OneLoopServes
<1>1. PagesInv => OneLoopServes
  BY LoopsServe DEF PagesInv
<1>2. QED
  BY <1>1, PagesInvariant, PTL

\* A table whose handlers have come to their end shows what the server has, an unmarked form
\* of the settings shows what is stored, and saving the form of a room leaves the action of
\* every kind the operator has not touched, for any devices, values and actions.
THEOREM FormsTrue == Spec => []FormsAreTrue
<1>1. PagesInv => FormsAreTrue
  <2> SUFFICES ASSUME PagesInv PROVE FormsAreTrue
    OBVIOUS
  <2>1. TableIsTrue
    BY TableTrue DEF PagesInv
  <2>2. UnmarkedFormIsStored
    BY DEF PagesInv, SettingsInv
  <2>3. SavingKeepsTheActions
    BY ActionsKept DEF PagesInv
  <2>4. QED
    BY <2>1, <2>2, <2>3 DEF FormsAreTrue
<1>2. QED
  BY <1>1, PagesInvariant, PTL

\* On the control page the end of a batch never closes a modal that was opened after the
\* batch was confirmed (handleConfirmBatch, page.tsx), for any devices and actions.
THEOREM ClosesItsOwn == Spec => ModalIsClosedByItsOwn
<1>1. PagesInv =>
          [where = "control" /\ open /\ ~open' /\ batch.stage = "answered" /\ batch'.stage = "none"
             => batch.opening = opening]_modalVars
  BY DEF PagesInv, ModalInv, BatchIsOfThisModal
<1>2. QED
  BY <1>1, PagesInvariant, PTL DEF Spec, ModalIsClosedByItsOwn
=============================================================================
