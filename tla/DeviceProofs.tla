---------------------------- MODULE DeviceProofs ----------------------------
(***************************************************************************)
(* Proofs about what the server does for one device: the live view it       *)
(* shares among its viewers (StreamHub), for every set of viewers and       *)
(* sources and every queue capacity, and its connection (DeviceConnection), *)
(* for any limits of the automatic reconnection and any number of drops and *)
(* restarts.                                                                *)
(***************************************************************************)
EXTENDS StreamHub, DeviceConnection, SequenceTheorems, TLAPS

-----------------------------------------------------------------------------
(* The shared live view. *)

\* A queue never grows beyond its capacity and keeps its unit type, whether it
\* takes, drops or is emptied (StreamSubscription.enqueue).
LEMMA EnqueuedType ==
    ASSUME NEW q \in Seq(Unit), Len(q) <= QueueCap, NEW u \in Unit
    PROVE  Enqueued(q, u) \in Seq(Unit) /\ Len(Enqueued(q, u)) <= QueueCap
BY StreamAssumption DEF Enqueued

\* What is enqueued begins with a key frame if the queue did, or if it was
\* empty and the unit is a key frame.
LEMMA EnqueuedHead ==
    ASSUME NEW q \in Seq(Unit), NEW u \in Unit,
           q # <<>> => q[1] = "key",
           q = <<>> => u = "key"
    PROVE  Enqueued(q, u) # <<>> /\ Enqueued(q, u)[1] = "key"
<1>1. Append(q, u) # <<>> /\ Len(Append(q, u)) = Len(q) + 1
  OBVIOUS
<1>2. CASE q = <<>>
  <2>1. Len(q) < QueueCap
    BY <1>2, StreamAssumption
  <2>2. QED
    BY <1>1, <1>2, <2>1 DEF Enqueued
<1>3. CASE q # <<>>
  <2>1. Append(q, u)[1] = q[1]
    BY <1>3
  <2>2. QED
    BY <1>1, <1>3, <2>1 DEF Enqueued
<1>4. QED
  BY <1>2, <1>3

\* Every variable keeps its type; no queue is longer than its capacity.
THEOREM TypeCorrect == Spec => []TypeOK
<1> USE DEF TypeOK, Phase, ViewerState, TimerState
<1>1. Init => TypeOK
  BY StreamAssumption DEF Init, Unit
<1>2. TypeOK /\ [Next]_vars => TypeOK'
  <2> SUFFICES ASSUME TypeOK, [Next]_vars PROVE TypeOK'
    OBVIOUS
  <2> USE DEF sourceVars, castVars, viewVars, unitVars
  <2>0. ASSUME NEW v \in Viewer, NEW by \in {"close", "broadcast"}, RemoveSubscriber(v, by)
        PROVE  subs' \in [Source -> SUBSET Viewer] /\ timer' \in [Timer -> TimerState]
    BY <2>0 DEF RemoveSubscriber
  <2>1. ASSUME NEW v \in Viewer, FindSource(v) PROVE TypeOK'
    BY <2>1 DEF FindSource
  <2>2. ASSUME NEW v \in Viewer, NEW s \in Source, StartSource(v, s) PROVE TypeOK'
    BY <2>2 DEF StartSource
  <2>3. ASSUME NEW v \in Viewer, Subscribe(v) PROVE TypeOK'
    <3>1. timer' \in [Timer -> TimerState]
      BY <2>3 DEF Subscribe
    <3>2. QED
      BY <2>3, <3>1 DEF Subscribe
  <2>4. ASSUME NEW v \in Viewer, MarkClosed(v) PROVE TypeOK'
    BY <2>4 DEF MarkClosed
  <2>5. ASSUME NEW v \in Viewer, Leave(v) PROVE TypeOK'
    BY <2>5, <2>0 DEF Leave
  <2>6. ASSUME NEW v \in Viewer, Take(v) PROVE TypeOK'
    <3>1. queue[v] \in Seq(Unit) /\ queue[v] # <<>> /\ Len(queue[v]) <= QueueCap
      BY <2>6 DEF Take
    <3>2. Tail(queue[v]) \in Seq(Unit) /\ Len(Tail(queue[v])) <= QueueCap /\ Head(queue[v]) \in Unit
      BY <3>1, StreamAssumption
    <3>3. QED
      BY <2>6, <3>2 DEF Take
  <2>7. ASSUME NEW s \in Source, NEW u \in Unit, Broadcast(s, u) PROVE TypeOK'
    BY <2>7 DEF Broadcast
  <2>8. ASSUME NEW s \in Source, NEW v \in Viewer, PassOver(s, v) PROVE TypeOK'
    BY <2>8 DEF PassOver
  <2>9. ASSUME NEW s \in Source, NEW v \in Viewer, Deliver(s, v) PROVE TypeOK'
    <3>1. Enqueued(queue[v], unit[s]) \in Seq(Unit) /\ Len(Enqueued(queue[v], unit[s])) <= QueueCap
      BY EnqueuedType
    <3>2. QED
      BY <2>9, <3>1 DEF Deliver
  <2>10. ASSUME NEW s \in Source, NEW v \in Viewer, DropClosed(s, v) PROVE TypeOK'
    BY <2>10, <2>0 DEF DropClosed
  <2>11. ASSUME NEW s \in Source, Drain(s) PROVE TypeOK'
    BY <2>11 DEF Drain
  <2>12. ASSUME NEW s \in Source, Finish(s) PROVE TypeOK'
    BY <2>12 DEF Finish
  <2>13. ASSUME NEW s \in Source, RemoveSource(s) PROVE TypeOK'
    BY <2>13 DEF RemoveSource, ClearEntry
  <2>14. ASSUME NEW t \in Timer, TimerFires(t) PROVE TypeOK'
    BY <2>14 DEF TimerFires
  <2>15. ASSUME NEW t \in Timer, Cancel(t) PROVE TypeOK'
    BY <2>15 DEF Cancel
  <2>16. CASE UNCHANGED vars
    BY <2>16 DEF vars
  <2>17. QED
    BY <2>1, <2>2, <2>3, <2>4, <2>5, <2>6, <2>7, <2>8, <2>9, <2>10, <2>11, <2>12,
       <2>13, <2>14, <2>15, <2>16 DEF Next, SourceStep, ViewerStep
<1>3. QED
  BY <1>1, <1>2, PTL DEF Spec

-----------------------------------------------------------------------------
(* One source per device. *)

\* A live source is the device's entry, and the entry is only replaced when its
\* done is closed, so LiveSourceIsFound is inductive and two sources are never
\* live together.
THEOREM OneLive == Spec => []LiveSourceIsFound
<1> USE DEF LiveSourceIsFound, Live, sourceVars
<1>1. Init => LiveSourceIsFound
  BY DEF Init
<1>2. TypeOK /\ LiveSourceIsFound /\ [Next]_vars => LiveSourceIsFound'
  <2> SUFFICES ASSUME TypeOK, LiveSourceIsFound, [Next]_vars PROVE LiveSourceIsFound'
    OBVIOUS
  <2>1. ASSUME UNCHANGED <<current, phase>> PROVE LiveSourceIsFound'
    BY <2>1
  <2>2. ASSUME NEW v \in Viewer, NEW s \in Source, StartSource(v, s) PROVE LiveSourceIsFound'
    <3>1. \A t \in Source : ~Live(t)
      BY <2>2, StreamAssumption DEF StartSource, Reusable
    <3>2. QED
      BY <2>2, <3>1 DEF StartSource, TypeOK
  <2>3. ASSUME NEW s \in Source, Drain(s) PROVE LiveSourceIsFound'
    BY <2>3 DEF Drain, TypeOK
  <2>4. ASSUME NEW s \in Source, Finish(s) PROVE LiveSourceIsFound'
    BY <2>4 DEF Finish, TypeOK
  <2>5. ASSUME NEW s \in Source, RemoveSource(s) PROVE LiveSourceIsFound'
    BY <2>5 DEF RemoveSource, ClearEntry, TypeOK
  <2>6. QED
    BY <2>1, <2>2, <2>3, <2>4, <2>5 DEF Next, SourceStep, ViewerStep, FindSource,
       Subscribe, MarkClosed, Leave, Take, Broadcast, PassOver, Deliver, DropClosed,
       TimerFires, Cancel, vars
<1>3. QED
  BY <1>1, <1>2, TypeCorrect, PTL DEF Spec

-----------------------------------------------------------------------------
(* Slow viewers and closed ones. *)

\* Whoever has a source has one that was started.
Placed == \A v \in Viewer : viewer[v] # "idle" => src[v] \in Source /\ phase[src[v]] # "none"

\* As long as the source runs, an open subscription stays subscribed.
THEOREM SlowViewersStay == Spec => []SlowViewerStays
<1> DEFINE IInv == Placed /\ SlowViewerStays
<1> USE DEF Placed, SlowViewerStays, sourceVars, castVars, viewVars, unitVars
<1>1. Init => IInv
  BY DEF Init
<1>2. TypeOK /\ IInv /\ [Next]_vars => IInv'
  <2> SUFFICES ASSUME TypeOK, IInv, [Next]_vars PROVE IInv'
    OBVIOUS
  <2> USE DEF TypeOK
  <2>1. ASSUME UNCHANGED <<phase, viewer, src, subs>> PROVE IInv'
    BY <2>1
  <2>2. ASSUME NEW v \in Viewer, FindSource(v) PROVE IInv'
    BY <2>2, StreamAssumption DEF FindSource, Reusable
  <2>3. ASSUME NEW v \in Viewer, NEW s \in Source, StartSource(v, s) PROVE IInv'
    BY <2>3 DEF StartSource
  <2>4. ASSUME NEW v \in Viewer, Subscribe(v) PROVE IInv'
    BY <2>4 DEF Subscribe
  <2>5. ASSUME NEW v \in Viewer, MarkClosed(v) PROVE IInv'
    BY <2>5 DEF MarkClosed
  <2>6. ASSUME NEW v \in Viewer, Leave(v) PROVE IInv'
    BY <2>6 DEF Leave, RemoveSubscriber
  <2>7. ASSUME NEW s \in Source, NEW v \in Viewer, DropClosed(s, v) PROVE IInv'
    BY <2>7 DEF DropClosed, RemoveSubscriber, Accepts
  <2>8. ASSUME NEW s \in Source, Drain(s) PROVE IInv'
    BY <2>8 DEF Drain
  <2>9. ASSUME NEW s \in Source, Finish(s) \/ RemoveSource(s) PROVE IInv'
    BY <2>9 DEF Finish, RemoveSource
  <2>10. QED
    BY <2>1, <2>2, <2>3, <2>4, <2>5, <2>6, <2>7, <2>8, <2>9 DEF Next, SourceStep,
       ViewerStep, Take, Broadcast, PassOver, Deliver, TimerFires, Cancel, vars
<1>3. QED
  BY <1>1, <1>2, TypeCorrect, PTL DEF Spec

\* So no queue is longer than its capacity, a live source is the one that is found,
\* and an open subscription stays with its source.
THEOREM StreamSound == Spec => []StreamIsSound
BY TypeCorrect, OneLive, SlowViewersStay, PTL DEF StreamIsSound

\* A closed subscription gets no more units.
THEOREM ClosedGetNothing == Spec => ClosedGetsNothing
<1> DEFINE Shrinks(v) == viewer[v] \in {"closing", "closed"} => Len(queue'[v]) <= Len(queue[v])
<1>1. TypeOK /\ [Next]_vars => [\A v \in Viewer : Shrinks(v)]_vars
  <2> SUFFICES ASSUME TypeOK, Next, NEW v \in Viewer, viewer[v] \in {"closing", "closed"}
               PROVE  Len(queue'[v]) <= Len(queue[v])
    OBVIOUS
  <2> USE DEF TypeOK, unitVars
  <2>1. Len(queue[v]) \in Nat
    OBVIOUS
  <2>2. ASSUME NEW w \in Viewer, Take(w) PROVE Len(queue'[v]) <= Len(queue[v])
    <3>1. queue[w] # <<>> => Len(Tail(queue[w])) <= Len(queue[w])
      OBVIOUS
    <3>2. QED
      BY <2>1, <2>2, <3>1 DEF Take
  <2>3. ASSUME NEW s \in Source, NEW w \in Viewer, Deliver(s, w) PROVE queue'[v] = queue[v]
    BY <2>3 DEF Deliver, Accepts
  <2>4. QED
    BY <2>1, <2>2, <2>3 DEF Next, SourceStep, ViewerStep, FindSource, StartSource,
       Subscribe, MarkClosed, Leave, Broadcast, PassOver, DropClosed, Drain, Finish,
       RemoveSource, TimerFires, Cancel
<1>2. QED
  BY <1>1, TypeCorrect, PTL DEF Spec, ClosedGetsNothing

-----------------------------------------------------------------------------
(* Key frames first. *)

\* Where a viewer stands between its subscription and its first unit: nothing is
\* queued while it awaits a key frame, and until it takes one its queue begins
\* with one.
KeyFirst(v) ==
    /\ first[v] # "delta"
    /\ viewer[v] \in {"idle", "bound"} \/ awaiting[v] => queue[v] = <<>> /\ first[v] = "none"
    /\ first[v] = "none" /\ queue[v] # <<>> => queue[v][1] = "key"
    /\ viewer[v] = "open" /\ ~awaiting[v] /\ queue[v] = <<>> => first[v] = "key"

\* The first unit a viewer takes is a key frame.
THEOREM FirstUnits == Spec => []FirstUnitIsKey
<1> DEFINE IInv == \A v \in Viewer : KeyFirst(v)
<1> USE DEF sourceVars, castVars, viewVars, unitVars
<1>1. Init => IInv
  BY DEF Init, KeyFirst
<1>2. TypeOK /\ IInv /\ [Next]_vars => IInv'
  <2> SUFFICES ASSUME TypeOK, IInv, [Next]_vars, NEW w \in Viewer PROVE KeyFirst(w)'
    OBVIOUS
  <2> USE DEF TypeOK
  <2>0. KeyFirst(w)
    OBVIOUS
  <2>1. ASSUME UNCHANGED <<viewer, awaiting, queue, first>> PROVE KeyFirst(w)'
    BY <2>0, <2>1 DEF KeyFirst
  <2>2. ASSUME NEW v \in Viewer, FindSource(v) \/ MarkClosed(v) \/ Leave(v) PROVE KeyFirst(w)'
    BY <2>0, <2>2 DEF KeyFirst, FindSource, MarkClosed, Leave
  <2>3. ASSUME NEW v \in Viewer, NEW s \in Source, StartSource(v, s) PROVE KeyFirst(w)'
    BY <2>0, <2>3 DEF KeyFirst, StartSource
  <2>4. ASSUME NEW v \in Viewer, Subscribe(v) PROVE KeyFirst(w)'
    BY <2>0, <2>4 DEF KeyFirst, Subscribe
  <2>5. ASSUME NEW v \in Viewer, Take(v) PROVE KeyFirst(w)'
    <3>1. CASE v # w
      BY <2>0, <2>5, <3>1 DEF KeyFirst, Take
    <3>2. CASE v = w
      <4>1. queue[w] \in Seq(Unit) /\ queue[w] # <<>> /\ Head(queue[w]) = queue[w][1]
        BY <2>5, <3>2 DEF Take
      <4>2. first[w] = "none" => queue[w][1] = "key"
        BY <2>0, <4>1 DEF KeyFirst
      <4>3. first'[w] = "key"
        BY <2>0, <2>5, <3>2, <4>1, <4>2 DEF Take, KeyFirst, Unit
      <4>4. ~awaiting[w] /\ viewer[w] \notin {"idle", "bound"}
        BY <2>0, <4>1 DEF KeyFirst
      <4>5. QED
        BY <2>5, <4>3, <4>4 DEF Take, KeyFirst
    <3>3. QED
      BY <3>1, <3>2
  <2>6. ASSUME NEW s \in Source, NEW v \in Viewer, Deliver(s, v) PROVE KeyFirst(w)'
    <3>1. CASE v # w
      BY <2>0, <2>6, <3>1 DEF KeyFirst, Deliver
    <3>2. CASE v = w
      <4>1. viewer[w] = "open" /\ viewer' = viewer /\ first' = first /\ ~awaiting'[w]
            /\ queue'[w] = Enqueued(queue[w], unit[s])
            /\ (awaiting[w] => unit[s] = "key")
        BY <2>6, <3>2 DEF Deliver, Accepts, Serves, Unit
      <4>2. CASE first[w] = "none"
        <5>1. queue[w] # <<>> => queue[w][1] = "key"
          BY <2>0, <4>2 DEF KeyFirst
        <5>2. queue[w] = <<>> => unit[s] = "key"
          BY <2>0, <4>1, <4>2 DEF KeyFirst
        <5>3. queue'[w] # <<>> /\ queue'[w][1] = "key"
          BY <4>1, <5>1, <5>2, EnqueuedHead
        <5>4. QED
          BY <4>1, <4>2, <5>3 DEF KeyFirst
      <4>3. CASE first[w] # "none"
        BY <2>0, <4>1, <4>3 DEF KeyFirst, Unit
      <4>4. QED
        BY <4>2, <4>3
    <3>3. QED
      BY <3>1, <3>2
  <2>7. ASSUME NEW s \in Source, NEW v \in Viewer, DropClosed(s, v) PROVE KeyFirst(w)'
    <3>1. viewer[v] # "open" /\ viewer' = viewer /\ queue' = queue /\ first' = first
          /\ awaiting' = [awaiting EXCEPT ![v] = FALSE]
      BY <2>7 DEF DropClosed, Accepts
    <3>2. QED
      BY <2>0, <3>1 DEF KeyFirst
  <2>8. ASSUME NEW s \in Source, Drain(s) PROVE KeyFirst(w)'
    BY <2>0, <2>8 DEF KeyFirst, Drain
  <2>9. QED
    BY <2>1, <2>2, <2>3, <2>4, <2>5, <2>6, <2>7, <2>8 DEF Next, SourceStep, ViewerStep,
       Broadcast, PassOver, Finish, RemoveSource, TimerFires, Cancel, vars
<1>3. IInv => FirstUnitIsKey
  BY DEF KeyFirst, FirstUnitIsKey
<1>4. QED
  BY <1>1, <1>2, <1>3, TypeCorrect, PTL DEF Spec

-----------------------------------------------------------------------------
(* The connection. *)

\* An attempt of the monitoring has a retry left to count, whoever resets or uses
\* them up meanwhile.
RetryLeft == round = "trying" => \E max \in Limits : retries < max

\* While the operator's disconnection stands no request that would undo it is under
\* way, nor an attempt of the monitoring.
NothingUndoes ==
    asked = "disconnect" =>
        /\ status = "disconnected" /\ reason = "manual" /\ retries = 0
        /\ round # "trying"
        /\ \A p \in Page : job[p] \in {"idle", "load"}

\* While the operator's wish for a connection stands, a device that is disconnected
\* by hand has a handler that goes on to connect it.
SomeoneConnects ==
    asked = "connect" /\ (status = "disconnected" \/ reason = "manual") =>
        \E p \in Page : job[p] \in {"connect", "disconnect", "disconnecting"}

ConnectionInv == ConnectionTypeOK /\ RetryLeft /\ NothingUndoes /\ SomeoneConnects

\* A device whose retries are forgotten is within every limit.
LEMMA NoRetries ==
    /\ \A max \in Limits : max \in Nat /\ 0 <= max
    /\ \E max \in Limits : 0 <= max
<1>1. \A max \in Limits : max \in Nat
  BY ConnectionAssumption
<1>2. \A n \in Nat : 0 <= n
  OBVIOUS
<1>3. PICK max : max \in Limits
  BY ConnectionAssumption
<1>4. QED
  BY <1>1, <1>2, <1>3

\* An attempt is made under a limit that is not zero.
LEMMA LimitIsPositive ==
    ASSUME ConnectionInv, round = "trying" PROVE \E max \in Limits : 0 < max
<1>1. PICK max \in Limits : retries < max
  BY DEF ConnectionInv, RetryLeft
<1>2. max \in Nat /\ retries \in Nat
  BY NoRetries DEF ConnectionInv, ConnectionTypeOK
<1>3. QED
  BY <1>1, <1>2

\* The bounds on drops and restarts are numbers.
LEMMA BoundsAreNumbers == MaxDrops \in Nat /\ MaxRestarts \in Nat
BY ConnectionAssumption

\* A device that nobody has asked anything of satisfies the invariant.
LEMMA ConnectionStart == ConnectionInit => ConnectionInv
<1> SUFFICES ASSUME ConnectionInit PROVE ConnectionInv
  OBVIOUS
<1>1. \E max \in Limits : retries <= max
  BY NoRetries DEF ConnectionInit
<1>2. ConnectionTypeOK
  <2>1. drops \in 0..MaxDrops /\ restarts \in 0..MaxRestarts
    <3>1. drops = 0 /\ restarts = 0
      BY Zenon DEF ConnectionInit
    <3>2. QED
      BY <3>1, BoundsAreNumbers
  <2>2. shown \in [Page -> {"online", "connecting", "down"}] /\ job \in [Page -> Stage]
    BY DEF ConnectionInit, Shown, Stage
  <2>3. QED
    BY <1>1, <2>1, <2>2 DEF ConnectionInit, ConnectionTypeOK, Status
<1>3. QED
  BY <1>2 DEF ConnectionInit, ConnectionInv, RetryLeft, NothingUndoes, SomeoneConnects

\* The operator's clicks, and the loads of the pages.
LEMMA PagesKeep ==
    ASSUME ConnectionInv, NEW p \in Page,
           ClickConnect(p) \/ ClickDisconnect \/ ClickReconnect \/ Load(p) \/ RequestLost(p)
    PROVE  ConnectionInv'
<1> USE DEF ConnectionInv, RetryLeft, NothingUndoes, SomeoneConnects, device, bounds, Go
<1>0. /\ UNCHANGED <<adb, device, running, round, cut, bounds>>
  BY DEF ClickConnect, ClickDisconnect, ClickReconnect, Load, RequestLost
<1>1. /\ shown' \in [Page -> {"online", "connecting", "down"}] /\ job' \in [Page -> Stage]
      /\ asked' \in {"connect", "disconnect", "unclear"}
  <2>1. Shown(status) \in {"online", "connecting", "down"}
    BY DEF Shown
  <2>2. QED
    BY <2>1 DEF ClickConnect, ClickDisconnect, ClickReconnect, Load, RequestLost, ConnectionTypeOK, Stage
<1>2. ConnectionTypeOK'
  BY <1>0, <1>1 DEF ConnectionTypeOK
<1>3. asked' = "disconnect" => asked = "disconnect" /\ \A q \in Page : job'[q] \in {"idle", "load"}
  BY DEF ClickConnect, ClickDisconnect, ClickReconnect, Load, RequestLost, ConnectionTypeOK, Page
<1>4. asked' = "connect" =>
         \/ \E q \in Page : job'[q] \in {"connect", "disconnect", "disconnecting"}
         \/ asked = "connect" /\ \A q \in Page : job[q] \in {"connect", "disconnect", "disconnecting"} => job'[q] = job[q]
  BY DEF ClickConnect, ClickDisconnect, ClickReconnect, Load, RequestLost, ConnectionTypeOK, Page
<1>5. QED
  BY <1>0, <1>2, <1>3, <1>4

\* The server's side of the requests.
LEMMA ServerKeeps ==
    ASSUME ConnectionInv, NEW p \in Page, Served(p)
    PROVE  ConnectionInv'
<1> USE DEF ConnectionInv, RetryLeft, NothingUndoes, SomeoneConnects, device, bounds, Go, Become, Forget,
            KeepRetries
<1>1. CASE ConnectBegins(p)
  <2>1. ConnectionTypeOK'
    BY <1>1, NoRetries DEF ConnectBegins, ConnectionTypeOK, Status, Stage
  <2>2. RetryLeft'
    <3>1. round = "trying" => \E max \in Limits : 0 < max
      BY LimitIsPositive
    <3>2. QED
      BY <1>1, <3>1 DEF ConnectBegins
  <2>3. QED
    BY <1>1, <2>1, <2>2 DEF ConnectBegins, ConnectionTypeOK
<1>2. CASE ConnectEnds(p)
  <2>1. ConnectionTypeOK'
    BY <1>2 DEF ConnectEnds, ConnectionTypeOK, Status, Stage
  <2>2. NothingUndoes'
    BY <1>2 DEF ConnectEnds, ConnectionTypeOK
  <2>3. SomeoneConnects'
    BY <1>2 DEF ConnectEnds, ConnectionTypeOK
  <2>4. QED
    BY <1>2, <2>1, <2>2, <2>3 DEF ConnectEnds
<1>3. CASE DisconnectBegins(p)
  <2>1. ConnectionTypeOK'
    BY <1>3 DEF DisconnectBegins, ConnectionTypeOK, Stage
  <2>2. NothingUndoes'
    BY <1>3 DEF DisconnectBegins, ConnectionTypeOK
  <2>3. SomeoneConnects'
    BY <1>3 DEF DisconnectBegins, ConnectionTypeOK
  <2>4. QED
    BY <1>3, <2>1, <2>2, <2>3 DEF DisconnectBegins
<1>4. CASE DisconnectEnds(p)
  <2>1. ConnectionTypeOK'
    BY <1>4, NoRetries DEF DisconnectEnds, ConnectionTypeOK, Status, Stage
  <2>2. RetryLeft'
    <3>1. round = "trying" => \E max \in Limits : 0 < max
      BY LimitIsPositive
    <3>2. QED
      BY <1>4, <3>1 DEF DisconnectEnds
  <2>3. NothingUndoes'
    BY <1>4 DEF DisconnectEnds, ConnectionTypeOK, Alone
  <2>4. SomeoneConnects'
    BY <1>4 DEF DisconnectEnds, ConnectionTypeOK
  <2>5. QED
    BY <2>1, <2>2, <2>3, <2>4
<1>5. QED
  BY <1>1, <1>2, <1>3, <1>4 DEF Served

\* The settings, the switch, the link and a restart.
LEMMA SurroundingsKeep ==
    ASSUME ConnectionInv,
           \/ \E enabled \in BOOLEAN : SetAutoReconnect(enabled)
           \/ ResetAutoReconnect \/ Toggle \/ LinkChanges \/ Restart \/ RoundBegins
    PROVE  ConnectionInv'
<1> USE DEF ConnectionInv, RetryLeft, NothingUndoes, SomeoneConnects, device, bounds, Become, Forget
<1>1. ASSUME NEW enabled \in BOOLEAN, SetAutoReconnect(enabled) PROVE ConnectionInv'
  BY <1>1 DEF SetAutoReconnect, ConnectionTypeOK
<1>2. CASE ResetAutoReconnect
  <2>1. round = "trying" => \E max \in Limits : 0 < max
    BY LimitIsPositive
  <2>2. ConnectionTypeOK'
    BY <1>2, NoRetries DEF ResetAutoReconnect, ConnectionTypeOK, Status
  <2>3. RetryLeft'
    BY <1>2, <2>1 DEF ResetAutoReconnect
  <2>4. NothingUndoes' /\ SomeoneConnects'
    BY <1>2 DEF ResetAutoReconnect
  <2>5. QED
    BY <2>2, <2>3, <2>4
<1>3. CASE Toggle
  BY <1>3 DEF Toggle, ConnectionTypeOK
<1>4. CASE LinkChanges
  <2>1. drops' \in 0..MaxDrops
    <3>1. drops < MaxDrops /\ drops' = drops + 1 /\ drops \in 0..MaxDrops
      BY <1>4, Zenon DEF LinkChanges, ConnectionTypeOK
    <3>2. QED
      BY <3>1, BoundsAreNumbers
  <2>2. QED
    BY <1>4, <2>1 DEF LinkChanges, ConnectionTypeOK
<1>5. CASE Restart
  <2>1. restarts' \in 0..MaxRestarts
    <3>1. restarts < MaxRestarts /\ restarts' = restarts + 1 /\ restarts \in 0..MaxRestarts
      BY <1>5, Zenon DEF Restart, ConnectionTypeOK
    <3>2. QED
      BY <3>1, BoundsAreNumbers
  <2>2. QED
    BY <1>5, <2>1 DEF Restart, ConnectionTypeOK, Stage
<1>6. CASE RoundBegins
  BY <1>6 DEF RoundBegins, ConnectionTypeOK
<1>7. QED
  BY <1>1, <1>2, <1>3, <1>4, <1>5, <1>6

\* A round: it leaves a disconnected device alone, and counts an attempt only while
\* the retries last.
LEMMA RoundKeeps ==
    ASSUME ConnectionInv, Round
    PROVE  ConnectionInv'
<1> USE DEF ConnectionInv, RetryLeft, NothingUndoes, SomeoneConnects, device, bounds, Become, Forget,
            KeepRetries, Due
<1>1. CASE JudgedOnline
  <2>1. ConnectionTypeOK'
    BY <1>1, NoRetries DEF JudgedOnline, ConnectionTypeOK, Status
  <2>2. QED
    BY <1>1, <2>1 DEF JudgedOnline
<1>2. CASE JudgedOffline
  BY <1>2 DEF JudgedOffline, ConnectionTypeOK, Status, Lost
<1>3. CASE GivesUp
  BY <1>3 DEF GivesUp, ConnectionTypeOK, Status
<1>4. CASE Skipped
  BY <1>4 DEF Skipped, ConnectionTypeOK
<1>5. CASE Tries
  BY <1>5 DEF Tries, ConnectionTypeOK, Status
<1>6. CASE TrySucceeds
  <2>1. ConnectionTypeOK'
    BY <1>6, NoRetries DEF TrySucceeds, ConnectionTypeOK, Status
  <2>2. QED
    BY <1>6, <2>1 DEF TrySucceeds
<1>7. CASE TryFails
  <2>1. retries' \in Nat /\ \E max \in Limits : retries' <= max
    <3>1. PICK max \in Limits : retries < max
      BY <1>7 DEF TryFails
    <3>2. max \in Nat /\ retries \in Nat /\ retries' = retries + 1
      BY <1>7, NoRetries DEF TryFails, ConnectionTypeOK
    <3>3. retries' \in Nat /\ retries' <= max
      BY <3>1, <3>2
    <3>4. QED
      BY <3>3
  <2>2. ConnectionTypeOK'
    BY <1>7, <2>1 DEF TryFails, ConnectionTypeOK, Status
  <2>3. QED
    BY <1>7, <2>2 DEF TryFails
<1>8. QED
  BY <1>1, <1>2, <1>3, <1>4, <1>5, <1>6, <1>7 DEF Round

\* The operator has the last word: a disconnection that was not caught by an attempt
\* under way stays until a connection is asked for, and a connection asked for is not
\* left disconnected by hand, whatever rounds, resets, drops of the link and restarts
\* of the server come between.
THEOREM OperatorHasTheLastWord == ConnectionSpec => []OperatorDecides
<1>1. ConnectionInv /\ [ConnectionNext]_connectionVars => ConnectionInv'
  <2> SUFFICES ASSUME ConnectionInv, [ConnectionNext]_connectionVars PROVE ConnectionInv'
    OBVIOUS
  <2>1. CASE ConnectionNext
    BY <2>1, PagesKeep, ServerKeeps, SurroundingsKeep, RoundKeeps DEF ConnectionNext, Page
  <2>2. CASE UNCHANGED connectionVars
    BY <2>2 DEF connectionVars, device, bounds, ConnectionInv, ConnectionTypeOK, RetryLeft, NothingUndoes, SomeoneConnects
  <2>3. QED
    BY <2>1, <2>2
<1>2. ConnectionInv => OperatorDecides
  BY DEF ConnectionInv, NothingUndoes, SomeoneConnects, OperatorDecides, DisconnectIsKept,
         ReconnectLeavesNoDisconnect, Quiet
<1>3. QED
  BY ConnectionStart, <1>1, <1>2, PTL DEF ConnectionSpec
=============================================================================
