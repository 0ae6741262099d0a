----------------------------- MODULE LivePlayer -----------------------------
(***************************************************************************)
(* The player of one live view, client/src/components/console/              *)
(* live-stream-player.tsx.  An attempt is one run of its effect: a          *)
(* WebSocket for signalling, a peer connection, a 15 s timer and the        *)
(* promises both leave pending.  Retry ends an attempt and starts the next  *)
(* while callbacks of the old one are still to come; the refs they read     *)
(* (socketRef, peerRef, hasTrackRef) then belong to the new one.            *)
(*                                                                          *)
(* An action is one callback, run to its next await.  The browser and the   *)
(* server are nondeterministic: they open, answer, fail or close at any     *)
(* time.  Diagnostics and texts are left out.                               *)
(***************************************************************************)
EXTENDS Naturals

CONSTANTS
    MaxAttempts,    \* bound: attempts, over all mounts of the player
    MaxCandidates   \* bound: ICE candidates the server sends in an attempt

ASSUME PlayerAssumption == MaxAttempts \in Nat /\ MaxCandidates \in Nat

Attempt == 1..MaxAttempts
NoAttempt == 0

VARIABLES
    attempt,     \* the attempt of the last effect, 0 before the first
    mounted,     \* the player is on the page
    status,      \* React state `status`
    hasTrack,    \* hasTrackRef and the state of the same name
    hasRendered, \* hasRenderedFrameRef
    faulted,     \* terminalErrorSourceRef is not ""
    timer,       \* the stall timer runs
    socketRef,   \* the attempt whose socket socketRef holds
    sock,        \* readyState of the socket of an attempt
    peer,        \* its RTCPeerConnection
    conn, ice,   \* connectionState and iceConnectionState of the current peer
    remote,      \* the current peer has its remote description
    queued,      \* pendingRemoteCandidates of the current attempt
    task,        \* the promises an attempt awaits
    unmute,      \* attempts whose track has an unmute event queued
    candidates,  \* candidates the server has sent in the current attempt
    track,       \* the current peer connection has received a track
    framed,      \* history: the video has shown a frame of the current attempt
    offers,      \* history: <<socket, peer>> of the offers sent
    returned     \* history: a peer event has put this attempt back to connecting

viewVars == <<status, hasTrack, hasRendered, faulted, timer>>
peerVars == <<conn, ice, remote, queued>>
serverVars == <<candidates, track, framed, unmute>>
mountVars == <<attempt, mounted, socketRef, peer>>
vars == <<attempt, mounted, status, hasTrack, hasRendered, faulted, timer,
          socketRef, sock, peer, conn, ice, remote, queued, task, unmute,
          candidates, track, framed, offers, returned>>

Status == {"idle", "connecting", "live", "stalled", "error", "closed"}
Link == {"new", "connected", "disconnected", "failed"}
Task == {"offer", "answer", "flush", "add"}

\* Types: one status, one socket and one peer connection for each attempt.
TypeOK ==
    /\ attempt \in 0..MaxAttempts /\ mounted \in BOOLEAN
    /\ status \in Status
    /\ hasTrack \in BOOLEAN /\ hasRendered \in BOOLEAN
    /\ faulted \in BOOLEAN /\ timer \in BOOLEAN
    /\ socketRef \in {NoAttempt, attempt}
    /\ sock \in [Attempt -> {"none", "connecting", "open", "closing", "closed"}]
    /\ peer \in [Attempt -> {"none", "open", "closed"}]
    /\ conn \in Link /\ ice \in Link /\ remote \in BOOLEAN
    /\ queued \in 0..MaxCandidates /\ candidates \in 0..MaxCandidates
    /\ queued <= candidates
    /\ task \in [Attempt -> SUBSET Task]
    /\ unmute \subseteq Attempt
    /\ track \in BOOLEAN /\ framed \in BOOLEAN
    /\ offers \subseteq Attempt \X Attempt
    /\ returned \in BOOLEAN

Init ==
    /\ attempt = 0 /\ mounted = FALSE
    /\ status = "idle"
    /\ hasTrack = FALSE /\ hasRendered = FALSE /\ faulted = FALSE
    /\ timer = FALSE /\ socketRef = NoAttempt
    /\ sock = [a \in Attempt |-> "none"]
    /\ peer = [a \in Attempt |-> "none"]
    /\ conn = "new" /\ ice = "new" /\ remote = FALSE /\ queued = 0
    /\ task = [a \in Attempt |-> {}]
    /\ unmute = {} /\ candidates = 0 /\ track = FALSE /\ framed = FALSE
    /\ offers = {} /\ returned = FALSE

----------------------------------------------------------------------------
(* The guards of the callbacks *)

\* `mounted` of the closure of an attempt, with !closedRef.current.
Mounted(a) == mounted /\ a = attempt

\* ... and socketRef and peerRef still hold what this attempt made.
Current(a) == Mounted(a) /\ socketRef = a

CanRetry == status \in {"error", "stalled", "closed"}

Await(a, t) == task' = [task EXCEPT ![a] = @ \cup {t}]
Settle(a, t) == task' = [task EXCEPT ![a] = @ \ {t}]

----------------------------------------------------------------------------
(* The effect and its cleanup *)

\* What cleanup makes of the socket and the peer of attempt a: both are closed
\* (an open socket is sent "close" first).
SocketsAfter(a) ==
    IF a # NoAttempt /\ socketRef = a /\ sock[a] \in {"connecting", "open"}
    THEN [sock EXCEPT ![a] = "closing"] ELSE sock
\* (mutant) the peer connection is left open
PeersKept(a) == peer

PeersAfter(a) ==
    IF a # NoAttempt /\ peer[a] = "open" THEN [peer EXCEPT ![a] = "closed"] ELSE peer

\* start(): cleanup of what the attempt before it left, then the peer
\* connection, the socket and the timer; without the transceiver it ends in an
\* error before there is a socket or a timer.
Start(n, receives) ==
    /\ attempt' = n /\ mounted' = TRUE
    /\ status' = (IF receives THEN "connecting" ELSE "error")
    /\ hasTrack' = FALSE /\ hasRendered' = FALSE
    /\ faulted' = ~receives /\ timer' = receives
    /\ socketRef' = (IF receives THEN n ELSE NoAttempt)
    /\ sock' = (IF receives THEN [SocketsAfter(attempt) EXCEPT ![n] = "connecting"]
                            ELSE SocketsAfter(attempt))
    /\ peer' = [PeersAfter(attempt) EXCEPT ![n] = "open"]
    /\ conn' = "new" /\ ice' = "new" /\ remote' = FALSE /\ queued' = 0
    /\ candidates' = 0 /\ track' = FALSE /\ framed' = FALSE
    /\ returned' = FALSE
    /\ UNCHANGED <<task, unmute, offers>>

\* The window with this player opens.
Mount ==
    /\ ~mounted /\ attempt < MaxAttempts
    /\ \E receives \in BOOLEAN : Start(attempt + 1, receives)

\* handleRetry: the next value of `attempt` runs the effect again.
Retry ==
    /\ mounted /\ CanRetry /\ attempt < MaxAttempts
    /\ \E receives \in BOOLEAN : Start(attempt + 1, receives)

\* handleClose, or the page is left: cleanup without a next attempt.
Unmount ==
    /\ mounted
    /\ mounted' = FALSE /\ status' = "idle"
    /\ hasTrack' = FALSE /\ hasRendered' = FALSE
    /\ faulted' = FALSE /\ timer' = FALSE
    /\ socketRef' = NoAttempt
    /\ sock' = SocketsAfter(attempt)
    /\ peer' = PeersAfter(attempt)
    /\ conn' = "new" /\ ice' = "new" /\ remote' = FALSE /\ queued' = 0
    /\ candidates' = 0 /\ track' = FALSE /\ framed' = FALSE
    /\ returned' = FALSE
    /\ UNCHANGED <<attempt, task, unmute, offers>>

----------------------------------------------------------------------------
(* Status changes *)

\* applyErrorState, which only a mounted attempt reaches.
ApplyError == status' = "error" /\ faulted' = TRUE
Quiet == UNCHANGED <<status, faulted>>

\* (mutant) without the look at `mounted`
CaughtAnyway(a) == ApplyError

\* The catch blocks look at `mounted` alone.
Caught(a) == IF Mounted(a) THEN ApplyError ELSE Quiet

\* What onclose makes of the status.
AfterClose ==
    IF status = "error" THEN "error"
    ELSE IF status = "live" \/ (hasTrack /\ ~hasRendered) THEN "stalled"
    ELSE IF faulted THEN status
    ELSE "closed"

----------------------------------------------------------------------------
(* Callbacks of the socket of attempt a *)

\* onopen: createOffer and setLocalDescription are awaited.
Opened(a) ==
    /\ sock[a] = "connecting"
    /\ sock' = [sock EXCEPT ![a] = "open"]
    /\ IF Current(a) THEN Await(a, "offer") ELSE UNCHANGED task
    /\ UNCHANGED <<mountVars, viewVars, peerVars, serverVars, offers, returned>>

\* The rest of onopen: the offer goes out by sendSignal, which uses the socket
\* in socketRef, when this attempt still holds it; on an open socket only.
StillOurs(a) == Current(a)
SendOffer(a) ==
    /\ "offer" \in task[a]
    /\ Settle(a, "offer")
    /\ offers' = (IF StillOurs(a) /\ socketRef # NoAttempt /\ sock[socketRef] = "open"
                  THEN offers \cup {<<socketRef, a>>} ELSE offers)
    /\ UNCHANGED <<mountVars, viewVars, sock, peerVars, serverVars, returned>>

OfferFails(a) ==
    /\ "offer" \in task[a]
    /\ Settle(a, "offer")
    /\ Caught(a)
    /\ UNCHANGED <<mountVars, hasTrack, hasRendered, timer, sock, peerVars,
                   serverVars, offers, returned>>

\* onmessage "answer": setRemoteDescription is awaited.
Answered(a) ==
    /\ sock[a] = "open" /\ <<a, a>> \in offers /\ ~remote
    /\ "answer" \notin task[a]
    /\ Current(a) /\ Await(a, "answer")
    /\ UNCHANGED <<mountVars, viewVars, sock, peerVars, serverVars, offers, returned>>

\* flushRemoteCandidates up to its await: the first queued candidate is taken.
Flush(a) ==
    IF queued > 0
    THEN queued' = queued - 1 /\ task' = [task EXCEPT ![a] = (@ \ {"answer"}) \cup {"flush"}]
    ELSE queued' = queued /\ task' = [task EXCEPT ![a] = @ \ {"answer", "flush"}]

\* The remote description is set: the track event comes before the promise
\* settles, and the queued candidates are applied after it.  A closed peer
\* connection never gets that far.
DescriptionSet(a) ==
    /\ "answer" \in task[a] /\ Mounted(a) /\ peer[a] = "open"
    /\ remote' = TRUE
    /\ Flush(a)
    /\ track' \in BOOLEAN
    /\ hasTrack' = (hasTrack \/ track')
    /\ UNCHANGED <<mountVars, status, hasRendered, faulted, timer, sock, conn, ice,
                   unmute, candidates, framed, offers, returned>>

DescriptionFails(a) ==
    /\ "answer" \in task[a]
    /\ Settle(a, "answer")
    /\ Caught(a)
    /\ UNCHANGED <<mountVars, hasTrack, hasRendered, timer, sock, peerVars,
                   serverVars, offers, returned>>

\* onmessage "ice": applied at once, or queued before the remote description.
Candidate(a) ==
    /\ sock[a] = "open" /\ <<a, a>> \in offers /\ Current(a)
    /\ candidates < MaxCandidates
    /\ candidates' = candidates + 1
    /\ IF remote THEN Await(a, "add") /\ UNCHANGED queued
                 ELSE queued' = queued + 1 /\ UNCHANGED task
    /\ UNCHANGED <<mountVars, viewVars, sock, conn, ice, remote, track, framed,
                   unmute, offers, returned>>

\* addIceCandidate settles; a failure in the flush does not end its loop.
CandidateDone(a) ==
    /\ "add" \in task[a] /\ Settle(a, "add")
    /\ Quiet \/ Caught(a)
    /\ UNCHANGED <<mountVars, hasTrack, hasRendered, timer, sock, peerVars,
                   serverVars, offers, returned>>

FlushDone(a) ==
    /\ "flush" \in task[a]
    /\ IF Mounted(a) THEN Flush(a) ELSE Settle(a, "flush") /\ UNCHANGED queued
    /\ Quiet \/ Caught(a)
    /\ UNCHANGED <<mountVars, hasTrack, hasRendered, timer, sock, conn, ice, remote,
                   serverVars, offers, returned>>

\* onmessage "error", or a message that cannot be parsed.
SignalError(a) ==
    /\ sock[a] = "open" /\ Current(a)
    /\ ApplyError
    /\ UNCHANGED <<mountVars, hasTrack, hasRendered, timer, sock, peerVars, task,
                   serverVars, offers, returned>>

\* The socket closes (onclose), or fails: onerror and then onclose in one task.
SocketDown(a) ==
    /\ sock[a] \in {"connecting", "open", "closing"}
    /\ sock' = [sock EXCEPT ![a] = "closed"]
    /\ \E failed \in BOOLEAN :
         IF ~Current(a) THEN Quiet
         ELSE IF failed THEN ApplyError
         ELSE status' = AfterClose /\ UNCHANGED faulted
    /\ UNCHANGED <<mountVars, hasTrack, hasRendered, timer, peerVars, task,
                   serverVars, offers, returned>>

----------------------------------------------------------------------------
(* Callbacks of the peer connection and the video element; cleanup takes     *)
(* them away, so only the current attempt has them, but for onunmute         *)

Reached(link) == link \in {"connected", "disconnected"}

\* What the handlers of both state changes make of the status.
StatusAt(link) ==
    CASE link = "connected" ->
           IF hasRendered \/ status = "live" THEN "live" ELSE "connecting"
      [] link = "disconnected" ->
           IF status = "live" THEN "stalled"
           ELSE IF status = "error" THEN "error" ELSE "connecting"
      [] link = "failed" -> "error"

LinkEvent(link) ==
    /\ status' = StatusAt(link)
    /\ faulted' = (faulted \/ link = "failed")
    /\ returned' = (returned \/ (status' = "connecting" /\ status # "connecting"))
    /\ UNCHANGED <<mountVars, hasTrack, hasRendered, timer, sock, remote, queued,
                   task, serverVars, offers>>

\* oniceconnectionstatechange.  "failed" is final without an ICE restart.
IceChange ==
    /\ mounted /\ remote
    /\ \E link \in Link \ {"new", ice} :
         /\ ice # "failed" /\ (link = "disconnected" => ice = "connected")
         /\ ice' = link /\ UNCHANGED conn
         /\ LinkEvent(link)

\* onconnectionstatechange: follows ICE, or DTLS fails.
ConnChange ==
    /\ mounted /\ remote
    /\ \E link \in Link \ {"new", conn} :
         /\ conn # "failed" /\ (link = ice \/ link = "failed")
         /\ conn' = link /\ UNCHANGED ice
         /\ LinkEvent(link)

\* markFirstFrame: loadedmetadata, loadeddata, canplay or playing.
Frame ==
    /\ mounted /\ track /\ Reached(conn)
    /\ hasRendered' = TRUE /\ status' = "live"
    /\ framed' = TRUE
    /\ UNCHANGED <<mountVars, hasTrack, faulted, timer, sock, peerVars, task,
                   candidates, track, unmute, offers, returned>>

\* onended of the track.
TrackEnds ==
    /\ mounted /\ track
    /\ status' = "stalled"
    /\ UNCHANGED <<mountVars, hasTrack, hasRendered, faulted, timer, sock, peerVars,
                   task, serverVars, offers, returned>>

\* Packets arrive: the browser queues the unmute event of the track.
Packets ==
    /\ mounted /\ track /\ attempt \notin unmute /\ Reached(conn)
    /\ unmute' = unmute \cup {attempt}
    /\ UNCHANGED <<mountVars, viewVars, sock, peerVars, task, candidates, track,
                   framed, offers, returned>>

\* onunmute has no guard: an event that was queued when the attempt ended
\* marks the next attempt as having a track.
Unmuted(a) ==
    /\ a \in unmute
    /\ unmute' = unmute \ {a}
    /\ hasTrack' = (hasTrack \/ mounted)
    /\ UNCHANGED <<mountVars, status, hasRendered, faulted, timer, sock, peerVars,
                   task, candidates, track, framed, offers, returned>>

\* (mutant) only a track without a picture counts as stalled
StallWithTrack ==
    /\ timer
    /\ timer' = FALSE
    /\ status' = (IF mounted /\ hasTrack /\ ~hasRendered THEN "stalled" ELSE status)
    /\ UNCHANGED <<mountVars, hasTrack, hasRendered, faulted, sock, peerVars, task,
                   serverVars, offers, returned>>

\* 15 s after start.
Stall ==
    /\ timer
    /\ timer' = FALSE
    /\ status' = (IF mounted /\ ~hasRendered THEN "stalled" ELSE status)
    /\ UNCHANGED <<mountVars, hasTrack, hasRendered, faulted, sock, peerVars, task,
                   serverVars, offers, returned>>

Callback(a) ==
    \/ Opened(a) \/ SendOffer(a) \/ OfferFails(a)
    \/ Answered(a) \/ DescriptionSet(a) \/ DescriptionFails(a)
    \/ Candidate(a) \/ CandidateDone(a) \/ FlushDone(a)
    \/ SignalError(a) \/ SocketDown(a)

Next ==
    \/ Mount \/ Retry \/ Unmount
    \/ IceChange \/ ConnChange \/ Frame \/ TrackEnds \/ Packets \/ Stall
    \/ \E a \in Attempt : Callback(a) \/ Unmuted(a)

\* Only the timer is certain to run; the network owes nothing.
Spec == Init /\ [][Next]_vars /\ WF_vars(Stall)

----------------------------------------------------------------------------
(* Properties *)

\* "live" is only shown when a frame of this very attempt is on the screen: a
\* frame of the attempt before, or a connection without a picture, is not live.
LiveHasFrame == status = "live" => framed

\* An offer goes out on the socket of the attempt whose peer connection made
\* it: the answer would otherwise be applied to another connection.
OfferIsOwn == \A o \in offers : o[1] = o[2]

\* Whatever an attempt opened is closed when the player goes on or goes away,
\* and the server was told when it could be: at most one viewer per player.
OnlyCurrentIsOpen ==
    \A a \in Attempt :
        ~Mounted(a) => /\ sock[a] \notin {"connecting", "open"}
                       /\ peer[a] # "open"

\* A candidate that comes before the answer is applied after it: none is left
\* in the queue once the answer is in place and the flush has ended.
NoCandidateIsLeft ==
    mounted /\ remote /\ "flush" \notin task[attempt] => queued = 0

\* A callback of an attempt that is over changes nothing the player shows.
\* (onunmute is not among these callbacks: it has no guard.)
StaleIsSilent ==
    [][\A a \in Attempt : (~Mounted(a) /\ Callback(a)) => UNCHANGED <<viewVars, queued>>]_vars

\* The player does not wait for ever: the attempt leaves "connecting", unless
\* a change of the peer connection has put it back there after the timer had
\* fired or a frame was shown; then nothing ends the wait.
ConnectingEnds == (status = "connecting" /\ ~returned) ~> (status # "connecting" \/ returned)

\* The attempts of one player do not mix: what is shown, sent, opened and queued
\* is that of the attempt under way, whatever order callbacks, timers, retries
\* and the unmount come in.
PlayerIsSound ==
    TypeOK /\ LiveHasFrame /\ OfferIsOwn /\ OnlyCurrentIsOpen /\ NoCandidateIsLeft
=============================================================================
