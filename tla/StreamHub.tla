----------------------------- MODULE StreamHub -----------------------------
(***************************************************************************)
(* The shared live-view source of one device                                *)
(* (server/service/scrcpy_stream_service.go): viewers subscribe to the one  *)
(* source the service keeps for the device, its goroutine fans the H264     *)
(* access units out to their bounded queues, and grace timers cancel it     *)
(* when it is idle.                                                         *)
(*                                                                          *)
(* What a lock protects is one action; what the code does between two       *)
(* critical sections is two.  An access unit is a key frame or a delta      *)
(* frame.  Each start of the device's scrcpy server is a new Source.        *)
(***************************************************************************)
EXTENDS Naturals, Sequences

CONSTANTS
    Source,     \* the deviceStreamSources the service may create, never reused
    Viewer,     \* the subscriptions: one SubscribeStream call each
    QueueCap,   \* streamSubscriberBuffer (60 in the code)
    None        \* no source

ASSUME StreamAssumption ==
    /\ None \notin Source
    /\ QueueCap \in Nat \ {0}

\* removeSubscriber may run twice for a viewer: in its own Close and in the
\* broadcast that finds it closed.  Each may start a grace timer.
Timer == Viewer \X {"close", "broadcast"}

VARIABLES
    current,    \* ScrcpyStreamService.sources[device]
    phase,      \* the goroutine of a source: its session runs until "done"
    cancelled,  \* whether the context of a source is cancelled
    subs,       \* deviceStreamSource.subscribers
    unit,       \* the access unit a source hands out ...
    to,         \* ... and the subscribers of its snapshot still to be served
    viewer,     \* where a subscription and its owner stand
    src,        \* the source a viewer was given
    awaiting,   \* StreamSubscription.awaitingKeyframe
    queue,      \* StreamSubscription.ch
    first,      \* the first unit the viewer took from its queue
    timer       \* the grace timers

sourceVars == <<current, phase, cancelled>>
castVars == <<unit, to>>
viewVars == <<viewer, src>>
unitVars == <<awaiting, queue, first>>
vars == <<current, phase, cancelled, subs, unit, to, viewer, src, awaiting,
          queue, first, timer>>

Unit == {"key", "delta"}
Phase == {"none", "running", "drained", "done", "gone"}
ViewerState == {"idle", "bound", "open", "closing", "closed"}
TimerState == {"off", "armed", "cancelling"}

\* Types; and no queue holds more than the slots of StreamSubscription.ch, whose
\* sender would block the source otherwise.
TypeOK ==
    /\ current \in Source \cup {None}
    /\ phase \in [Source -> Phase]
    /\ cancelled \in [Source -> BOOLEAN]
    /\ subs \in [Source -> SUBSET Viewer]
    /\ unit \in [Source -> Unit]
    /\ to \in [Source -> SUBSET Viewer]
    /\ viewer \in [Viewer -> ViewerState]
    /\ src \in [Viewer -> Source \cup {None}]
    /\ awaiting \in [Viewer -> BOOLEAN]
    /\ queue \in [Viewer -> Seq(Unit)]
    /\ \A v \in Viewer : Len(queue[v]) <= QueueCap
    /\ first \in [Viewer -> Unit \cup {"none"}]
    /\ timer \in [Timer -> TimerState]

Init ==
    /\ current = None
    /\ phase = [s \in Source |-> "none"]
    /\ cancelled = [s \in Source |-> FALSE]
    /\ subs = [s \in Source |-> {}]
    /\ unit = [s \in Source |-> "delta"]
    /\ to = [s \in Source |-> {}]
    /\ viewer = [v \in Viewer |-> "idle"]
    /\ src = [v \in Viewer |-> None]
    /\ awaiting = [v \in Viewer |-> FALSE]
    /\ queue = [v \in Viewer |-> <<>>]
    /\ first = [v \in Viewer |-> "none"]
    /\ timer = [t \in Timer |-> "off"]

-----------------------------------------------------------------------------
(* Subscribing. *)

\* getOrCreateSource reuses the device's source unless its done is closed.
Reusable(s) == s # None /\ phase[s] \in {"running", "drained"}

FindSource(v) ==
    /\ viewer[v] = "idle"
    /\ Reusable(current)
    /\ viewer' = [viewer EXCEPT ![v] = "bound"]
    /\ src' = [src EXCEPT ![v] = current]
    /\ UNCHANGED <<sourceVars, subs, castVars, unitVars, timer>>

\* Otherwise it starts the device's scrcpy server and a source of its own.
StartSource(v, s) ==
    /\ viewer[v] = "idle"
    /\ ~Reusable(current)
    /\ phase[s] = "none"
    /\ current' = s
    /\ phase' = [phase EXCEPT ![s] = "running"]
    /\ viewer' = [viewer EXCEPT ![v] = "bound"]
    /\ src' = [src EXCEPT ![v] = s]
    /\ UNCHANGED <<cancelled, subs, castVars, unitVars, timer>>

\* addSubscriber, outside the lock of getOrCreateSource.  A timer of an earlier
\* leave goes on running.
SubscribeDecoding(v) ==
    /\ viewer[v] = "bound"
    /\ viewer' = [viewer EXCEPT ![v] = "open"]
    /\ subs' = [subs EXCEPT ![src[v]] = @ \cup {v}]
    /\ UNCHANGED <<sourceVars, castVars, src, unitVars, timer>>

Subscribe(v) ==
    /\ viewer[v] = "bound"
    /\ viewer' = [viewer EXCEPT ![v] = "open"]
    /\ awaiting' = [awaiting EXCEPT ![v] = TRUE]
    /\ subs' = [subs EXCEPT ![src[v]] = @ \cup {v}]
    /\ UNCHANGED <<sourceVars, castVars, src, queue, first, timer>>

-----------------------------------------------------------------------------
(* Unsubscribing. *)

\* removeSubscriber: v leaves the map; if nobody is left a grace timer starts,
\* even when v was not in the map any more.
RemoveAndForget(v, by) ==
    /\ subs' = [subs EXCEPT ![src[v]] = @ \ {v}]
    /\ UNCHANGED timer

RemoveSubscriber(v, by) ==
    /\ subs' = [subs EXCEPT ![src[v]] = @ \ {v}]
    /\ timer' = IF subs[src[v]] \subseteq {v}
                THEN [timer EXCEPT ![<<v, by>>] = "armed"] ELSE timer

\* The viewer closes its subscription: first the closed flag ...
MarkClosed(v) ==
    /\ viewer[v] = "open"
    /\ viewer' = [viewer EXCEPT ![v] = "closing"]
    /\ UNCHANGED <<sourceVars, subs, castVars, src, unitVars, timer>>

\* ... then it is taken from the subscribers and its queue is closed.
Leave(v) ==
    /\ viewer[v] = "closing"
    /\ viewer' = [viewer EXCEPT ![v] = "closed"]
    /\ RemoveSubscriber(v, "close")
    /\ UNCHANGED <<sourceVars, castVars, src, unitVars>>

-----------------------------------------------------------------------------
(* The goroutine of a source. *)

\* broadcast snapshots the subscribers it will serve.
Broadcast(s, u) ==
    /\ phase[s] = "running" /\ to[s] = {} /\ subs[s] # {}
    /\ unit' = [unit EXCEPT ![s] = u]
    /\ to' = [to EXCEPT ![s] = subs[s]]
    /\ UNCHANGED <<sourceVars, subs, viewVars, unitVars, timer>>

\* Until its first key frame a subscriber is passed over.
PassOver(s, v) ==
    /\ v \in to[s] /\ awaiting[v] /\ unit[s] = "delta"
    /\ to' = [to EXCEPT ![s] = @ \ {v}]
    /\ UNCHANGED <<sourceVars, subs, unit, viewVars, unitVars, timer>>

ServesDecoding(s, v) == v \in to[s] /\ ~awaiting[v]

Serves(s, v) == v \in to[s] /\ ~(awaiting[v] /\ unit[s] = "delta")

\* enqueue: a full queue drops a delta frame and is emptied by a key frame.
Enqueued(q, u) ==
    IF Len(q) < QueueCap THEN Append(q, u)
    ELSE IF u = "key" THEN <<u>> ELSE q

\* enqueue refuses a closed subscription, and nothing else.
AcceptsAlways(v) == viewer[v] # "idle"

Accepts(v) == viewer[v] = "open"

Deliver(s, v) ==
    /\ Serves(s, v) /\ Accepts(v)
    /\ to' = [to EXCEPT ![s] = @ \ {v}]
    /\ awaiting' = [awaiting EXCEPT ![v] = FALSE]
    /\ queue' = [queue EXCEPT ![v] = Enqueued(@, unit[s])]
    /\ UNCHANGED <<sourceVars, subs, unit, viewVars, first, timer>>

\* A subscriber that refused is removed; its Close ran or runs already.
DropClosed(s, v) ==
    /\ Serves(s, v) /\ ~Accepts(v)
    /\ to' = [to EXCEPT ![s] = @ \ {v}]
    /\ awaiting' = [awaiting EXCEPT ![v] = FALSE]
    /\ RemoveSubscriber(v, "broadcast")
    /\ UNCHANGED <<sourceVars, unit, viewVars, queue, first>>

\* StreamAccessUnits returns, on its cancelled context or on a read error, and
\* closeSubscribers closes whoever is subscribed.
Drain(s) ==
    /\ phase[s] = "running" /\ to[s] = {}
    /\ phase' = [phase EXCEPT ![s] = "drained"]
    /\ subs' = [subs EXCEPT ![s] = {}]
    /\ viewer' = [v \in Viewer |-> IF v \in subs[s] /\ viewer[v] = "open"
                                   THEN "closed" ELSE viewer[v]]
    /\ UNCHANGED <<current, cancelled, castVars, src, unitVars, timer>>

\* The session is stopped, then done is closed.
Finish(s) ==
    /\ phase[s] = "drained"
    /\ phase' = [phase EXCEPT ![s] = "done"]
    /\ UNCHANGED <<current, cancelled, subs, castVars, viewVars, unitVars, timer>>

\* removeSource deletes the map entry if it is still this source.
DeleteEntry(s) == current' = None

ClearEntry(s) == current' = IF current = s THEN None ELSE current

RemoveSource(s) ==
    /\ phase[s] = "done"
    /\ phase' = [phase EXCEPT ![s] = "gone"]
    /\ ClearEntry(s)
    /\ UNCHANGED <<cancelled, subs, castVars, viewVars, unitVars, timer>>

-----------------------------------------------------------------------------
(* The grace timers and the reader of a queue. *)

\* A timer that is done waiting first returns if done is closed.
Idle(s) == subs[s] = {} /\ phase[s] \in {"running", "drained"}

\* The timer fires and reads the subscribers under the lock ...
TimerFires(t) ==
    /\ timer[t] = "armed"
    /\ timer' = [timer EXCEPT ![t] = IF Idle(src[t[1]]) THEN "cancelling" ELSE "off"]
    /\ UNCHANGED <<sourceVars, subs, castVars, viewVars, unitVars>>

\* ... and cancels the context after it has let the lock go.
Cancel(t) ==
    /\ timer[t] = "cancelling"
    /\ timer' = [timer EXCEPT ![t] = "off"]
    /\ cancelled' = [cancelled EXCEPT ![src[t[1]]] = TRUE]
    /\ UNCHANGED <<current, phase, subs, castVars, viewVars, unitVars>>

\* The forwarder of the viewer takes a unit; what a closed queue still holds
\* may be taken too.
Take(v) ==
    /\ queue[v] # <<>>
    /\ queue' = [queue EXCEPT ![v] = Tail(@)]
    /\ first' = [first EXCEPT ![v] = IF @ = "none" THEN Head(queue[v]) ELSE @]
    /\ UNCHANGED <<sourceVars, subs, castVars, viewVars, awaiting, timer>>

-----------------------------------------------------------------------------
SourceStep(s) ==
    \/ \E u \in Unit : Broadcast(s, u)
    \/ \E v \in Viewer : PassOver(s, v) \/ Deliver(s, v) \/ DropClosed(s, v)
    \/ Drain(s) \/ Finish(s) \/ RemoveSource(s)

ViewerStep(v) ==
    \/ FindSource(v) \/ \E s \in Source : StartSource(v, s)
    \/ Subscribe(v) \/ MarkClosed(v) \/ Leave(v) \/ Take(v)

Next ==
    \/ \E s \in Source : SourceStep(s)
    \/ \E v \in Viewer : ViewerStep(v)
    \/ \E t \in Timer : TimerFires(t) \/ Cancel(t)

Spec == Init /\ [][Next]_vars

\* A call that began goes on, a timer fires, and a source hands its unit out
\* and ends once StreamAccessUnits has returned.
Scheduling ==
    /\ \A v \in Viewer : WF_vars(Subscribe(v)) /\ WF_vars(Leave(v))
    /\ \A s \in Source :
          /\ WF_vars(\E v \in Viewer : PassOver(s, v) \/ Deliver(s, v) \/ DropClosed(s, v))
          /\ WF_vars(Finish(s)) /\ WF_vars(RemoveSource(s))
    /\ \A t \in Timer : WF_vars(TimerFires(t)) /\ WF_vars(Cancel(t))

\* The device sends, so that Read returns: StreamAccessUnits looks at its
\* context between two reads only.
Reads == \A s \in Source : SF_vars(cancelled[s] /\ Drain(s))

\* A running encoder produces a key frame from time to time.
Keyframes == \A s \in Source : SF_vars(Broadcast(s, "key"))

FairSpec == Spec /\ Scheduling /\ Reads /\ Keyframes

-----------------------------------------------------------------------------
(* What the source promises. *)

Live(s) == phase[s] \in {"running", "drained"}

\* A source whose session runs is the one the next viewer will find, whoever
\* looks up, leaves or times out meanwhile, and a late removeSource of its
\* predecessor does not take it out of the map.  So a device never runs two
\* scrcpy servers (docs/ARCHITECTURE.md, Live View Shared Source).
LiveSourceIsFound == \A s \in Source : Live(s) => current = s

\* No viewer starts to decode at a delta frame: the first unit it takes is a
\* key frame, even if the queue overflowed before it took any.
FirstUnitIsKey == \A v \in Viewer : first[v] # "delta"

\* A subscription that was closed gets no more units, whatever snapshot of the
\* subscribers the broadcast still works on (its channel may be closed).
ClosedGetsNothing ==
    [][\A v \in Viewer : viewer[v] \in {"closing", "closed"} =>
          Len(queue'[v]) <= Len(queue[v])]_vars

\* As long as the source runs, a viewer that has not closed its subscription
\* stays subscribed, however slow it is.
SlowViewerStays ==
    \A v \in Viewer : viewer[v] = "open" /\ phase[src[v]] = "running"
                      => v \in subs[src[v]]

\* What a source, its subscriptions and their queues are like at every moment.
StreamIsSound == TypeOK /\ LiveSourceIsFound /\ SlowViewerStays

Unwatched(s) ==
    phase[s] = "running" /\ subs[s] = {}
    /\ \A v \in Viewer : src[v] = s => viewer[v] # "bound"

\* A source nobody watches is stopped after the grace period and leaves the
\* map, unless somebody subscribes before.
UnwatchedSourceEnds ==
    \A s \in Source : Unwatched(s) ~> ~Unwatched(s)

\* A subscriber of a running source gets a first unit, however often other
\* viewers come and go, unless the source or the subscription ends.
ServedWhileRunning ==
    \A v \in Viewer : viewer[v] = "open" /\ phase[src[v]] = "running"
        ~> queue[v] # <<>> \/ viewer[v] # "open" \/ phase[src[v]] # "running"
=============================================================================
