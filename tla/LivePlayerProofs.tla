--------------------------- MODULE LivePlayerProofs ---------------------------
(***************************************************************************)
(* Proofs about LivePlayer for any number of attempts and ICE candidates,    *)
(* and, from "Live views" on, about LiveViews for any finite set of devices  *)
(* and of browser widths, any rooms and any pointers.                        *)
(***************************************************************************)
EXTENDS LivePlayer, LiveViews, WellFoundedInduction, FunctionTheorems, FiniteSetTheorems,
        SequenceTheorems, TLAPS

\* A frame marked as rendered is one of the attempt under way.
RenderedIsOwn == hasRendered => framed

\* What is open is held by the refs, where the cleanup finds it.
OpenIsHeld ==
    \A a \in Attempt :
        /\ sock[a] \in {"connecting", "open"} => Mounted(a) /\ socketRef = a
        /\ peer[a] = "open" => Mounted(a)

\* A mounted player has begun an attempt.
MountedHasAttempt == mounted => attempt # NoAttempt

IInv == TypeOK /\ MountedHasAttempt /\ LiveHasFrame /\ RenderedIsOwn /\ OfferIsOwn /\ OpenIsHeld /\ NoCandidateIsLeft

\* The parts of the invariant about each group of variables.
ViewOK ==
    /\ status \in Status /\ hasTrack \in BOOLEAN /\ hasRendered \in BOOLEAN
    /\ faulted \in BOOLEAN /\ timer \in BOOLEAN /\ framed \in BOOLEAN /\ track \in BOOLEAN
    /\ returned \in BOOLEAN /\ unmute \subseteq Attempt
    /\ LiveHasFrame /\ RenderedIsOwn

SocketsOK ==
    /\ attempt \in 0..MaxAttempts /\ mounted \in BOOLEAN
    /\ socketRef \in {NoAttempt, attempt}
    /\ sock \in [Attempt -> {"none", "connecting", "open", "closing", "closed"}]
    /\ peer \in [Attempt -> {"none", "open", "closed"}]
    /\ OpenIsHeld /\ MountedHasAttempt
    /\ offers \subseteq Attempt \X Attempt /\ OfferIsOwn

SignalsOK ==
    /\ conn \in Link /\ ice \in Link /\ remote \in BOOLEAN
    /\ queued \in 0..MaxCandidates /\ candidates \in 0..MaxCandidates /\ queued <= candidates
    /\ task \in [Attempt -> SUBSET Task]
    /\ NoCandidateIsLeft

\* The invariant is its three parts.
LEMMA Parts ==
    /\ IInv <=> ViewOK /\ SocketsOK /\ SignalsOK
    /\ IInv' <=> ViewOK' /\ SocketsOK' /\ SignalsOK'
BY DEF IInv, TypeOK, ViewOK, SocketsOK, SignalsOK

\* A player that was never opened satisfies the invariant.
LEMMA InitInv == Init => IInv
<1> SUFFICES ASSUME Init PROVE ViewOK /\ SocketsOK /\ SignalsOK
  BY Parts
<1>1. 0 \in 0..MaxAttempts /\ 0 \in 0..MaxCandidates
  BY PlayerAssumption
<1>2. ViewOK
  BY DEF Init, ViewOK, Status, LiveHasFrame, RenderedIsOwn
<1>3. SocketsOK
  BY <1>1 DEF Init, SocketsOK, OpenIsHeld, MountedHasAttempt, OfferIsOwn
<1>4. SignalsOK
  <2>1. task \in [Attempt -> SUBSET Task] /\ conn \in Link /\ ice \in Link
    BY DEF Init, Link
  <2>2. queued = 0 /\ candidates = 0
    BY DEF Init
  <2>3. remote \in BOOLEAN /\ ~remote
    BY Zenon DEF Init
  <2>4. QED
    BY <1>1, <2>1, <2>2, <2>3 DEF SignalsOK, NoCandidateIsLeft
<1>5. QED
  BY <1>2, <1>3, <1>4

\* The cleanup closes what the attempt has opened.
LEMMA CleanupCloses ==
    ASSUME IInv, NEW a \in Attempt
    PROVE  /\ SocketsAfter(attempt)[a] \in {"none", "closing", "closed"}
           /\ PeersAfter(attempt)[a] \in {"none", "closed"}
           /\ SocketsAfter(attempt) \in [Attempt -> {"none", "connecting", "open", "closing", "closed"}]
           /\ PeersAfter(attempt) \in [Attempt -> {"none", "open", "closed"}]
<1>1. a # NoAttempt /\ attempt \in 0..MaxAttempts
  BY DEF Attempt, NoAttempt, IInv, TypeOK
<1>2. SocketsAfter(attempt)[a] \in {"none", "closing", "closed"}
  <2>1. sock \in [Attempt -> {"none", "connecting", "open", "closing", "closed"}]
    BY DEF IInv, TypeOK
  <2>2. sock[a] \in {"connecting", "open"} => attempt = a /\ socketRef = a
    BY DEF IInv, OpenIsHeld, Mounted
  <2>3. QED
    BY <1>1, <2>1, <2>2 DEF SocketsAfter
<1>3. PeersAfter(attempt)[a] \in {"none", "closed"}
  <2>1. peer \in [Attempt -> {"none", "open", "closed"}]
    BY DEF IInv, TypeOK
  <2>2. peer[a] = "open" => attempt = a
    BY DEF IInv, OpenIsHeld, Mounted
  <2>3. QED
    BY <1>1, <2>1, <2>2 DEF PeersAfter
<1>4. QED
  BY <1>2, <1>3 DEF SocketsAfter, PeersAfter, IInv, TypeOK

\* An attempt begins or the player goes: nothing of the attempt before stays open.
LEMMA EffectKeeps ==
    ASSUME IInv, Mount \/ Retry \/ Unmount
    PROVE  IInv'
<1>1. ASSUME NEW n, n = attempt + 1, attempt < MaxAttempts, NEW receives \in BOOLEAN, Start(n, receives)
      PROVE  ViewOK' /\ SocketsOK' /\ SignalsOK'
  <2>1. n \in Attempt /\ n \in 0..MaxAttempts
    BY <1>1, PlayerAssumption DEF IInv, TypeOK, Attempt
  <2>2. ViewOK'
    BY <1>1 DEF Start, ViewOK, Status, LiveHasFrame, RenderedIsOwn, IInv, TypeOK
  <2>3. SocketsOK'
    <3>1. /\ attempt' = n /\ mounted' = TRUE
          /\ socketRef' = IF receives THEN n ELSE NoAttempt
          /\ sock' = IF receives THEN [SocketsAfter(attempt) EXCEPT ![n] = "connecting"]
                                 ELSE SocketsAfter(attempt)
          /\ peer' = [PeersAfter(attempt) EXCEPT ![n] = "open"]
          /\ offers' = offers
      BY <1>1 DEF Start
    <3>2. /\ sock' \in [Attempt -> {"none", "connecting", "open", "closing", "closed"}]
          /\ peer' \in [Attempt -> {"none", "open", "closed"}]
      BY <2>1, <3>1, CleanupCloses
    <3>3. OpenIsHeld'
      BY <2>1, <3>1, CleanupCloses DEF OpenIsHeld, Mounted
    <3>4. OfferIsOwn' /\ offers' \subseteq Attempt \X Attempt
      BY <3>1 DEF IInv, TypeOK, OfferIsOwn
    <3>5. QED
      BY <2>1, <3>1, <3>2, <3>3, <3>4 DEF SocketsOK, MountedHasAttempt, Attempt, NoAttempt
  <2>4. SignalsOK'
    <3>1. task' \in [Attempt -> SUBSET Task] /\ conn' \in Link /\ ice' \in Link
      BY <1>1 DEF Start, Link, IInv, TypeOK
    <3>2. queued' = 0 /\ candidates' = 0 /\ 0 \in 0..MaxCandidates
      BY <1>1, PlayerAssumption DEF Start
    <3>3. remote' \in BOOLEAN /\ ~remote'
      BY <1>1, Zenon DEF Start
    <3>4. QED
      BY <3>1, <3>2, <3>3 DEF SignalsOK, NoCandidateIsLeft
  <2>5. QED
    BY <2>2, <2>3, <2>4
<1>2. CASE Unmount
  <2>1. ViewOK'
    BY <1>2 DEF Unmount, ViewOK, Status, LiveHasFrame, RenderedIsOwn, IInv, TypeOK
  <2>2. SocketsOK'
    <3>1. OpenIsHeld'
      BY <1>2, CleanupCloses DEF Unmount, OpenIsHeld
    <3>2. /\ sock' \in [Attempt -> {"none", "connecting", "open", "closing", "closed"}]
          /\ peer' \in [Attempt -> {"none", "open", "closed"}]
      BY <1>2 DEF Unmount, SocketsAfter, PeersAfter, IInv, TypeOK
    <3>3. QED
      BY <1>2, <3>1, <3>2 DEF Unmount, SocketsOK, MountedHasAttempt, OfferIsOwn, IInv, TypeOK
  <2>3. SignalsOK'
    <3>1. task' \in [Attempt -> SUBSET Task] /\ conn' \in Link /\ ice' \in Link
      BY <1>2 DEF Unmount, Link, IInv, TypeOK
    <3>2. queued' = 0 /\ candidates' = 0 /\ 0 \in 0..MaxCandidates
      BY <1>2, PlayerAssumption DEF Unmount
    <3>3. remote' \in BOOLEAN /\ ~remote'
      BY <1>2, Zenon DEF Unmount
    <3>4. QED
      BY <3>1, <3>2, <3>3 DEF SignalsOK, NoCandidateIsLeft
  <2>4. QED
    BY <2>1, <2>2, <2>3, Parts
<1>3. QED
  BY <1>1, <1>2, Parts DEF Mount, Retry

\* A callback of the signalling of any attempt.
LEMMA CallbackKeeps ==
    ASSUME IInv, NEW a \in Attempt, Callback(a)
    PROVE  IInv'
<1>p. ViewOK /\ SocketsOK /\ SignalsOK
  BY Parts
<1>a. UNCHANGED mountVars /\ UNCHANGED <<hasRendered, timer>>
  BY DEF Callback, Opened, SendOffer, OfferFails, Answered, DescriptionSet, DescriptionFails,
     Candidate, CandidateDone, FlushDone, SignalError, SocketDown, viewVars
<1>1. ViewOK'
  <2>1. UNCHANGED <<framed, unmute, returned>> /\ track' \in BOOLEAN /\ hasTrack' \in BOOLEAN
    BY <1>p DEF Callback, Opened, SendOffer, OfferFails, Answered, DescriptionSet, DescriptionFails,
       Candidate, CandidateDone, FlushDone, SignalError, SocketDown, viewVars, serverVars, ViewOK
  <2>2. Quiet \/ ApplyError \/ (status' = AfterClose /\ UNCHANGED faulted)
    BY DEF Callback, Opened, SendOffer, OfferFails, Answered, DescriptionSet, DescriptionFails,
       Candidate, CandidateDone, FlushDone, SignalError, SocketDown, viewVars, Caught, Quiet
  <2>3. status' \in Status /\ (status' = "live" => status = "live") /\ faulted' \in BOOLEAN
    BY <1>p, <2>2 DEF Quiet, ApplyError, AfterClose, Status, ViewOK
  <2>4. QED
    BY <1>a, <1>p, <2>1, <2>3 DEF ViewOK, LiveHasFrame, RenderedIsOwn
<1>2. SocketsOK'
  <2>1. ASSUME UNCHANGED <<sock, offers>> PROVE SocketsOK'
    BY <1>a, <1>p, <2>1 DEF SocketsOK, OpenIsHeld, OfferIsOwn, MountedHasAttempt, Mounted, mountVars
  <2>2. CASE Opened(a)
    <3>1. sock[a] = "connecting" /\ sock' = [sock EXCEPT ![a] = "open"] /\ offers' = offers
      BY <2>2 DEF Opened
    <3>2. QED
      BY <1>a, <1>p, <3>1 DEF SocketsOK, OpenIsHeld, OfferIsOwn, MountedHasAttempt, Mounted, mountVars
  <2>3. CASE SocketDown(a)
    <3>1. sock' = [sock EXCEPT ![a] = "closed"] /\ offers' = offers
      BY <2>3 DEF SocketDown
    <3>2. QED
      BY <1>a, <1>p, <3>1 DEF SocketsOK, OpenIsHeld, OfferIsOwn, MountedHasAttempt, Mounted, mountVars
  <2>4. CASE SendOffer(a)
    <3>1. sock' = sock /\ (offers' = offers \/ offers' = offers \cup {<<a, a>>})
      BY <2>4 DEF SendOffer, StillOurs, Current
    <3>2. OfferIsOwn' /\ offers' \subseteq Attempt \X Attempt
      BY <1>p, <3>1 DEF SocketsOK, OfferIsOwn
    <3>3. QED
      BY <1>a, <1>p, <3>1, <3>2 DEF SocketsOK, OpenIsHeld, MountedHasAttempt, Mounted, mountVars
  <2>5. QED
    BY <2>1, <2>2, <2>3, <2>4 DEF Callback, OfferFails, Answered, DescriptionSet, DescriptionFails,
       Candidate, CandidateDone, FlushDone, SignalError
<1>3. SignalsOK'
  <2>0. task[a] \subseteq Task /\ {"offer", "answer", "flush", "add"} = Task
    BY <1>p DEF SignalsOK, Task
  <2>1. ASSUME NEW t \in {"offer", "answer", "add"}, Await(a, t) \/ Settle(a, t) \/ UNCHANGED task,
               UNCHANGED peerVars, candidates' = candidates
        PROVE  SignalsOK'
    <3>1. /\ task' \in [Attempt -> SUBSET Task]
          /\ \A b \in Attempt : "flush" \in task'[b] <=> "flush" \in task[b]
      BY <1>p, <2>0, <2>1 DEF Await, Settle, SignalsOK
    <3>2. NoCandidateIsLeft'
      <4>1. mounted => attempt \in Attempt
        BY <1>p DEF SocketsOK, MountedHasAttempt, Attempt, NoAttempt
      <4>2. QED
        BY <1>a, <1>p, <2>1, <3>1, <4>1 DEF NoCandidateIsLeft, SignalsOK, peerVars, mountVars
    <3>3. QED
      BY <1>p, <2>1, <3>1, <3>2 DEF SignalsOK, peerVars
  <2>2. CASE Opened(a) \/ SendOffer(a) \/ OfferFails(a) \/ Answered(a) \/ DescriptionFails(a)
             \/ CandidateDone(a) \/ SignalError(a) \/ SocketDown(a)
    BY <2>1, <2>2 DEF Opened, SendOffer, OfferFails, Answered, DescriptionFails, CandidateDone,
       SignalError, SocketDown, serverVars
  <2>3. ASSUME Flush(a), Mounted(a), UNCHANGED <<conn, ice, candidates>>, remote' \in BOOLEAN
        PROVE  SignalsOK'
    <3>1. /\ queued' \in 0..MaxCandidates /\ queued' <= candidates
          /\ task' \in [Attempt -> SUBSET Task]
          /\ queued' = 0 \/ "flush" \in task'[a]
      BY <1>p, <2>0, <2>3, PlayerAssumption DEF Flush, SignalsOK
    <3>2. QED
      BY <1>a, <1>p, <2>3, <3>1 DEF SignalsOK, NoCandidateIsLeft, Mounted, mountVars
  <2>4. CASE DescriptionSet(a)
    BY <2>3, <2>4 DEF DescriptionSet
  <2>5. CASE Candidate(a)
    <3>1. /\ candidates' = candidates + 1 /\ candidates < MaxCandidates /\ UNCHANGED <<conn, ice, remote>>
          /\ \/ remote /\ Await(a, "add") /\ UNCHANGED queued
             \/ ~remote /\ queued' = queued + 1 /\ UNCHANGED task
          /\ a = attempt
      BY <2>5 DEF Candidate, Current, Mounted
    <3>2. /\ queued' \in 0..MaxCandidates /\ candidates' \in 0..MaxCandidates /\ queued' <= candidates'
      BY <1>p, <3>1, PlayerAssumption DEF SignalsOK
    <3>3. /\ task' \in [Attempt -> SUBSET Task]
          /\ "flush" \in task'[a] <=> "flush" \in task[a]
      BY <1>p, <2>0, <3>1 DEF Await, SignalsOK
    <3>4. QED
      BY <1>a, <1>p, <3>1, <3>2, <3>3 DEF SignalsOK, NoCandidateIsLeft, mountVars
  <2>6. CASE FlushDone(a)
    <3>1. UNCHANGED <<conn, ice, remote, candidates>>
      BY <2>6 DEF FlushDone, serverVars
    <3>2. CASE Mounted(a)
      BY <1>p, <2>3, <2>6, <3>1, <3>2 DEF FlushDone, SignalsOK
    <3>3. CASE ~Mounted(a)
      <4>1. Settle(a, "flush") /\ UNCHANGED queued
        BY <2>6, <3>3 DEF FlushDone
      <4>2. task' \in [Attempt -> SUBSET Task] /\ \A b \in Attempt : b # a => task'[b] = task[b]
        BY <1>p, <4>1 DEF Settle, SignalsOK
      <4>3. mounted => attempt \in Attempt
        BY <1>p DEF SocketsOK, MountedHasAttempt, Attempt, NoAttempt
      <4>4. NoCandidateIsLeft'
        BY <1>a, <1>p, <3>1, <3>3, <4>1, <4>2, <4>3 DEF NoCandidateIsLeft, SignalsOK, Mounted, mountVars
      <4>5. QED
        BY <1>p, <3>1, <4>1, <4>2, <4>4 DEF SignalsOK
    <3>4. QED
      BY <3>2, <3>3
  <2>7. QED
    BY <2>2, <2>4, <2>5, <2>6 DEF Callback
<1>4. QED
  BY <1>1, <1>2, <1>3, Parts

\* A change of the peer connection, the video, the timer or a late unmute.
LEMMA MediaKeeps ==
    ASSUME IInv,
           \/ IceChange \/ ConnChange \/ Frame \/ TrackEnds \/ Packets \/ Stall
           \/ \E a \in Attempt : Unmuted(a)
    PROVE  IInv'
<1>p. ViewOK /\ SocketsOK /\ SignalsOK
  BY Parts
<1>1. UNCHANGED <<mountVars, sock, offers, task, candidates, remote, queued>>
  BY DEF IceChange, ConnChange, LinkEvent, Frame, TrackEnds, Packets, Stall, Unmuted, serverVars, peerVars
<1>2. SocketsOK'
  BY <1>1, <1>p DEF SocketsOK, OpenIsHeld, OfferIsOwn, MountedHasAttempt, Mounted, mountVars
<1>3. conn' \in Link /\ ice' \in Link
  BY <1>p DEF IceChange, ConnChange, LinkEvent, Frame, TrackEnds, Packets, Stall, Unmuted, peerVars, SignalsOK
<1>4. SignalsOK'
  BY <1>1, <1>3, <1>p DEF SignalsOK, NoCandidateIsLeft, mountVars
<1>5. ASSUME NEW link \in {"connected", "disconnected", "failed"}, LinkEvent(link) PROVE ViewOK'
  <2>1. status' \in Status /\ (status' = "live" => status = "live" \/ hasRendered)
    BY <1>5, <1>p DEF LinkEvent, StatusAt, ViewOK, Status
  <2>2. faulted' \in BOOLEAN /\ returned' \in BOOLEAN
    BY <1>5, <1>p DEF LinkEvent, ViewOK
  <2>3. QED
    BY <1>5, <1>p, <2>1, <2>2 DEF LinkEvent, ViewOK, LiveHasFrame, RenderedIsOwn, serverVars
<1>6. CASE IceChange \/ ConnChange
  BY <1>2, <1>4, <1>5, <1>6, Parts DEF IceChange, ConnChange, Link
<1>7. CASE Frame \/ TrackEnds \/ Packets \/ Stall \/ \E a \in Attempt : Unmuted(a)
  <2>1. ViewOK'
    <3>1. CASE Frame
      BY <1>p, <3>1 DEF Frame, ViewOK, LiveHasFrame, RenderedIsOwn, Status
    <3>2. CASE TrackEnds \/ Stall
      <4>1. /\ status' \in Status /\ (status' = "live" => status = "live") /\ timer' \in BOOLEAN
            /\ UNCHANGED <<hasTrack, hasRendered, faulted, candidates, track, framed, unmute, returned>>
        BY <1>p, <3>2 DEF TrackEnds, Stall, ViewOK, Status, serverVars
      <4>2. QED
        BY <1>p, <4>1 DEF ViewOK, LiveHasFrame, RenderedIsOwn
    <3>3. CASE Packets
      <4>1. attempt \in Attempt
        BY <1>p, <3>3 DEF Packets, SocketsOK, MountedHasAttempt, Attempt, NoAttempt
      <4>2. QED
        BY <1>p, <3>3, <4>1 DEF Packets, ViewOK, LiveHasFrame, RenderedIsOwn, viewVars
    <3>4. CASE \E a \in Attempt : Unmuted(a)
      BY <1>p, <3>4 DEF Unmuted, ViewOK, SocketsOK, LiveHasFrame, RenderedIsOwn
    <3>5. QED
      BY <1>7, <3>1, <3>2, <3>3, <3>4
  <2>2. QED
    BY <1>2, <1>4, <2>1, Parts
<1>8. QED
  BY <1>6, <1>7

\* For any number of attempts and candidates: "live" stands for a frame of this attempt,
\* an offer goes out on its own socket, what an attempt opened is closed when it is over,
\* and no early candidate is forgotten.
THEOREM AttemptsDoNotMix == Spec => []PlayerIsSound
<1>1. IInv /\ [Next]_vars => IInv'
  <2> SUFFICES ASSUME IInv, [Next]_vars PROVE IInv'
    OBVIOUS
  <2>1. CASE UNCHANGED vars
    BY <2>1, Parts DEF vars, ViewOK, SocketsOK, SignalsOK, LiveHasFrame, RenderedIsOwn, OpenIsHeld,
       MountedHasAttempt, OfferIsOwn, NoCandidateIsLeft, Mounted
  <2>2. QED
    BY <2>1, EffectKeeps, CallbackKeeps, MediaKeeps DEF Next
<1>2. IInv => PlayerIsSound
  BY DEF IInv, PlayerIsSound, OpenIsHeld, OnlyCurrentIsOpen
<1>3. QED
  BY <1>1, <1>2, InitInv, PTL DEF Spec

\* No callback of a socket, a promise or a message of an attempt that is over changes
\* what the player shows or the candidates of the attempt under way.
THEOREM FormerAttemptsAreSilent == Spec => StaleIsSilent
<1>1. ASSUME NEW a \in Attempt, ~Mounted(a), Callback(a)
      PROVE  UNCHANGED <<viewVars, queued>>
  BY <1>1 DEF Callback, Opened, SendOffer, OfferFails, Answered, DescriptionSet, DescriptionFails,
     Candidate, CandidateDone, FlushDone, SignalError, SocketDown, Current, Caught, Quiet,
     viewVars, peerVars
<1>2. [Next]_vars => [\A a \in Attempt : (~Mounted(a) /\ Callback(a)) => UNCHANGED <<viewVars, queued>>]_vars
  BY <1>1
<1>3. QED
  BY <1>2, PTL DEF Spec, StaleIsSilent
-----------------------------------------------------------------------------
(* Live views: the greatest number of a finite set. *)

\* A set of naturals that is not empty has a least element.
LEMMA LeastOf ==
    ASSUME NEW T \in SUBSET Nat, T # {}
    PROVE  \E x \in T : \A y \in T : x <= y
<1>1. IsWellFoundedOn({p \in Nat \X Nat : p[1] < p[2]}, Nat)
  BY NatLessThanWellFounded DEF OpToRel
<1>2. PICK x \in T : \A y \in T : <<y, x>> \notin {p \in Nat \X Nat : p[1] < p[2]}
  BY <1>1, WFMin
<1>3. ASSUME NEW y \in T PROVE x <= y
  <2>1. ~(y < x)
    BY <1>2
  <2>2. QED
    BY <2>1
<1>4. QED
  BY <1>3

\* A sequence of naturals has a bound: the first without one would be one longer than one
\* that has one.
LEMMA BoundOf ==
    ASSUME NEW n \in Nat, NEW f \in [1..n -> Nat]
    PROVE  \E b \in Nat : \A i \in 1..n : f[i] <= b
<1> DEFINE Bounded(k) == \E b \in Nat : \A i \in 1..k : f[i] <= b
           Unbounded == {k \in 0..n : ~Bounded(k)}
<1>1. SUFFICES ASSUME Unbounded # {} PROVE FALSE
  <2>1. n \in 0..n
    OBVIOUS
  <2>2. QED
    BY <1>1, <2>1
<1>2. PICK k \in Unbounded : \A j \in Unbounded : k <= j
  <2>1. Unbounded \in SUBSET Nat
    OBVIOUS
  <2>2. QED
    BY <1>1, <2>1, LeastOf
<1>3. k \in 0..n /\ ~Bounded(k)
  BY <1>2
<1>4. k # 0
  <2>1. \A i \in 1..0 : f[i] <= 0
    OBVIOUS
  <2>2. Bounded(0)
    BY <2>1
  <2>3. QED
    BY <1>3, <2>2
<1>5. k - 1 \in 0..n /\ Bounded(k - 1)
  <2>1. k - 1 \in 0..n /\ ~(k <= k - 1)
    BY <1>3, <1>4
  <2>2. k - 1 \notin Unbounded
    BY <1>2, <2>1
  <2>3. QED
    BY <2>1, <2>2
<1>6. PICK b \in Nat : \A i \in 1..(k - 1) : f[i] <= b
  BY <1>5
<1>7. f[k] \in Nat
  BY <1>3, <1>4
<1> DEFINE more == IF b < f[k] THEN f[k] ELSE b
<1>8. more \in Nat /\ b <= more /\ f[k] <= more
  BY <1>7
<1>9. \A i \in 1..k : f[i] <= more
  <2> HIDE DEF more
  <2>1. ASSUME NEW i \in 1..k PROVE f[i] <= more
    <3>1. i \in 1..n /\ f[i] \in Nat
      BY <1>3
    <3>2. CASE i = k
      BY <1>8, <3>2
    <3>3. CASE i # k
      <4>1. i \in 1..(k - 1)
        BY <1>3, <3>3
      <4>2. f[i] <= b
        BY <1>6, <4>1
      <4>3. QED
        BY <1>8, <3>1, <4>2
    <3>4. QED
      BY <3>2, <3>3
  <2>2. QED
    BY <2>1
<1>10. Bounded(k)
  <2> HIDE DEF more
  <2>1. QED
    BY <1>8, <1>9
<1>11. QED
  BY <1>3, <1>10

\* Max of a finite set of naturals.
LEMMA MaxOf ==
    ASSUME NEW S \in SUBSET Nat, IsFiniteSet(S), S # {}
    PROVE  Max(S) \in S /\ \A y \in S : y <= Max(S)
<1>1. PICK f \in Bijection(1..Cardinality(S), S) : TRUE
  BY FS_CardinalityType DEF ExistsBijection
<1>2. /\ Cardinality(S) \in Nat /\ f \in [1..Cardinality(S) -> S]
      /\ \A y \in S : \E i \in 1..Cardinality(S) : f[i] = y
  BY <1>1, FS_CardinalityType DEF Bijection, Injection, Surjection
<1> DEFINE Bounds == {b \in Nat : \A y \in S : y <= b}
<1>3. Bounds # {}
  <2>1. f \in [1..Cardinality(S) -> Nat]
    BY <1>2
  <2>2. PICK b \in Nat : \A i \in 1..Cardinality(S) : f[i] <= b
    BY <1>2, <2>1, BoundOf
  <2>3. b \in Bounds
    BY <1>2, <2>2
  <2>4. QED
    BY <2>3
<1>4. PICK m \in Bounds : \A b \in Bounds : m <= b
  <2>1. Bounds \in SUBSET Nat
    OBVIOUS
  <2>2. QED
    BY <1>3, <2>1, LeastOf
<1>5. m \in Nat /\ \A y \in S : y <= m
  BY <1>4
<1>6. m \in S
  <2>1. SUFFICES ASSUME m \notin S PROVE FALSE
    OBVIOUS
  <2>2. \A y \in S : y \in Nat /\ y < m
    BY <1>5, <2>1
  <2>3. m - 1 \in Nat
    <3>1. PICK y \in S : TRUE
      OBVIOUS
    <3>2. y \in Nat /\ y < m
      BY <2>2, <3>1
    <3>3. QED
      BY <1>5, <3>2
  <2>4. \A y \in S : y <= m - 1
    BY <1>5, <2>2
  <2>5. m - 1 \in Bounds /\ ~(m <= m - 1)
    BY <1>5, <2>3, <2>4
  <2>6. QED
    BY <1>4, <2>5
<1>7. \E x \in S : \A y \in S : x >= y
  BY <1>5, <1>6
<1>8. QED
  BY <1>7 DEF Max

-----------------------------------------------------------------------------
(* The windows of the live views. *)

\* A device has one window, and there are no more windows than streams.
OneEach ==
    /\ \A i, j \in DOMAIN windows : windows[i].device = windows[j].device => i = j
    /\ Len(windows) <= MaxStreams

\* The window of d is there, above all others.
Above(d) ==
    \E k \in DOMAIN windows :
        /\ windows[k].device = d
        /\ \A i \in DOMAIN windows : i # k => windows[i].z < windows[k].z

FrontAbove == front # None => Above(front)

\* A window placed in a browser that is wide enough keeps within it.
Placed(w) ==
    w.seen # None /\ w.size + 2 * Padding <= w.seen =>
        w.pos >= Padding /\ w.pos + w.size <= w.seen - Padding

AllPlaced == \A i \in DOMAIN windows : Placed(windows[i])

\* Only a floating window is dragged.
DragIsFloating == held # None => part = "floating"

WindowsInv == OneEach /\ FrontAbove /\ AllPlaced /\ DragIsHeld /\ DragIsFloating

\* The types of the windows and of what concerns them.
WindowsTyped ==
    /\ windows \in Seq(Window)
    /\ viewport \in Viewports /\ down \subseteq Pointer
    /\ held \in {None} \cup [device : Device, how : {"drag", "resize"}, pointer : Pointer,
                             grip : Int]
    /\ front \in Device \cup {None}

\* Of the loads and sockets under way, only those of the room shown count; the socket of the
\* room is not yet open, or is.
LoadsOfRoom == \A l \in loads : l.active => l.room = room

SocketsOfRoom ==
    /\ \A s \in sockets : s.state # "closing" => s.room = room
    /\ ~([room |-> room, state |-> "new"] \in sockets /\ [room |-> room, state |-> "open"] \in sockets)

\* What is shown is of the room, in whichever part.
ShowsRoom == ~loading /\ content # None => content = room
BadgeOfSocket ==
    /\ badge = "connected" => [room |-> room, state |-> "open"] \in sockets
    /\ [room |-> room, state |-> "open"] \in sockets => badge = "connected" \/ late
    /\ heard => players = room

PageInv == LoadsOfRoom /\ SocketsOfRoom /\ ShowsRoom /\ BadgeOfSocket

\* The windows are above nobody else than their greatest z.
LEMMA TopOf ==
    ASSUME NEW s \in Seq(Window)
    PROVE  Top(s) \in Nat /\ \A i \in DOMAIN s : s[i].z <= Top(s)
<1> DEFINE Z == {s[i].z : i \in DOMAIN s}
           S == {0} \cup Z
<1>1. DOMAIN s = 1..Len(s) /\ Len(s) \in Nat /\ \A i \in DOMAIN s : s[i].z \in Nat
  <2>1. \A i \in DOMAIN s : s[i] \in Window
    OBVIOUS
  <2>2. \A w \in Window : w.z \in Nat
    BY DEF Window
  <2>3. QED
    BY <2>1, <2>2
<1>2. IsFiniteSet(S)
  <2> DEFINE f == [i \in DOMAIN s |-> s[i].z]
  <2>1. f \in Surjection(DOMAIN s, Z)
    BY DEF Surjection
  <2>2. IsFiniteSet(DOMAIN s)
    <3>1. 1 \in Int /\ Len(s) \in Int
      BY <1>1
    <3>2. QED
      BY <1>1, <3>1, FS_Interval
  <2> HIDE DEF Z, f
  <2>3. IsFiniteSet(Z)
    BY <2>1, <2>2, FS_Surjection
  <2>4. QED
    BY <2>3, FS_Singleton, FS_Union
<1>3. S \in SUBSET Nat /\ S # {}
  BY <1>1
<1>4. Top(s) = Max(S)
  BY DEF Top
<1>5. Max(S) \in S /\ \A y \in S : y <= Max(S)
  <2> HIDE DEF S
  <2>1. QED
    BY <1>2, <1>3, MaxOf
<1>6. QED
  BY <1>3, <1>4, <1>5

\* Whoever clamps a position puts the window where it fits.
LEMMA ClampPlaces ==
    ASSUME NEW pos \in Int, NEW size \in Nat, viewport \in Nat
    PROVE  /\ ClampPosition(pos, size) \in Int
           /\ size + 2 * Padding <= viewport =>
                 /\ ClampPosition(pos, size) >= Padding
                 /\ ClampPosition(pos, size) + size <= viewport - Padding
BY ViewsAssumption DEF ClampPosition, Larger, Smaller

LEMMA ClampSizes ==
    ASSUME NEW size \in Int, viewport \in Nat
    PROVE  ClampSize(size) \in Nat
BY ViewsAssumption DEF ClampSize, Larger, Smaller

\* A new window is placed and above all others.
LEMMA NewIsPlaced ==
    ASSUME NEW s \in Seq(Window), NEW d \in Device, viewport \in Viewports
    PROVE  /\ NewWindow(s, d) \in Window
           /\ NewWindow(s, d).device = d
           /\ NewWindow(s, d).z = Top(s) + 1
           /\ Placed(NewWindow(s, d))
<1> DEFINE wide == Larger(Padding, viewport - DefaultSize - Padding)
           raw == Padding + ((Len(s) * Offset) % Larger(Offset, wide))
<1>1. /\ viewport \in Nat /\ Padding \in Nat /\ DefaultSize \in Nat
      /\ Offset \in Nat /\ Offset > 0 /\ Len(s) \in Nat
  BY ViewsAssumption
<1>2. wide \in Int
  BY <1>1 DEF Larger
<1>3. raw \in Int
  <2>1. Larger(Offset, wide) \in Nat /\ Larger(Offset, wide) > 0
    BY <1>1, <1>2 DEF Larger
  <2>2. Len(s) * Offset \in Int
    BY <1>1
  <2>3. \A a \in Int, b \in Nat : b > 0 => Padding + (a % b) \in Int
    BY <1>1
  <2> HIDE DEF wide
  <2>4. QED
    BY <2>1, <2>2, <2>3
<1>4. NewWindow(s, d) = [device |-> d, z |-> Top(s) + 1, pos |-> ClampPosition(raw, DefaultSize),
                         size |-> DefaultSize, minimized |-> FALSE, seen |-> viewport]
  BY DEF NewWindow
<1> HIDE DEF raw
<1>5. /\ ClampPosition(raw, DefaultSize) \in Int
      /\ DefaultSize + 2 * Padding <= viewport =>
            /\ ClampPosition(raw, DefaultSize) >= Padding
            /\ ClampPosition(raw, DefaultSize) + DefaultSize <= viewport - Padding
  BY <1>1, <1>3, ClampPlaces
<1>6. Top(s) + 1 \in Nat
  BY TopOf
<1>7. NewWindow(s, d) \in Window
  BY <1>1, <1>4, <1>5, <1>6 DEF Window
<1>8. Placed(NewWindow(s, d))
  BY <1>4, <1>5 DEF Placed
<1>9. QED
  BY <1>4, <1>7, <1>8

\* One window is raised above all others, whatever else of it changes.
LEMMA RaisedAbove ==
    ASSUME NEW s \in Seq(Window), NEW d \in Devices(s), NEW t,
           DOMAIN t = DOMAIN s,
           \A i \in DOMAIN s : s[i].device # d => t[i] = s[i],
           \A i \in DOMAIN s : s[i].device = d => t[i].device = d /\ t[i].z = Top(s) + 1,
           \A i, j \in DOMAIN s : s[i].device = s[j].device => i = j
    PROVE  \E k \in DOMAIN t : t[k].device = d /\ \A i \in DOMAIN t : i # k => t[i].z < t[k].z
<1>1. PICK k \in DOMAIN s : s[k].device = d
  BY DEF Devices
<1>2. t[k].device = d /\ t[k].z = Top(s) + 1
  BY <1>1
<1>3. Top(s) \in Nat /\ \A i \in DOMAIN s : s[i].z <= Top(s) /\ s[i].z \in Nat
  <2>1. \A i \in DOMAIN s : s[i] \in Window
    OBVIOUS
  <2>2. \A w \in Window : w.z \in Nat
    BY DEF Window
  <2>3. QED
    BY <2>1, <2>2, TopOf
<1>4. ASSUME NEW i \in DOMAIN t, i # k PROVE t[i].z < t[k].z
  <2>1. s[i].device # d
    BY <1>1, <1>4
  <2>2. t[i] = s[i]
    BY <1>4, <2>1
  <2>3. QED
    BY <1>2, <1>3, <1>4, <2>2
<1>5. QED
  BY <1>1, <1>2, <1>4

\* A window is closed: the others stay, each one as it was.
LEMMA WithoutOne ==
    ASSUME NEW s \in Seq(Window), NEW d \in Devices(s)
    PROVE  /\ Without(s, d) \in Seq(Window)
           /\ Len(Without(s, d)) = Len(s) - 1
           /\ \E gone \in DOMAIN s :
                 /\ s[gone].device = d
                 /\ \A i \in DOMAIN Without(s, d) :
                       Without(s, d)[i] = IF i < gone THEN s[i] ELSE s[i + 1]
<1> DEFINE gone == CHOOSE i \in DOMAIN s : s[i].device = d
           left == SubSeq(s, 1, gone - 1)
           right == SubSeq(s, gone + 1, Len(s))
<1>1. gone \in DOMAIN s /\ s[gone].device = d
  BY DEF Devices
<1>2. Without(s, d) = left \o right
  BY DEF Without, RemoveAt
<1>3. DOMAIN s = 1..Len(s) /\ Len(s) \in Nat /\ gone \in 1..Len(s)
  BY <1>1
<1> HIDE DEF gone
<1>4. /\ left \in Seq(Window) /\ Len(left) = gone - 1
      /\ \A i \in 1..(gone - 1) : left[i] = s[i]
  <2>1. 1 \in Int /\ gone - 1 \in Int /\ \A i \in 1..(gone - 1) : s[i] \in Window
    BY <1>3
  <2>2. /\ left \in Seq(Window) /\ Len(left) = IF 1 <= gone - 1 THEN gone - 1 - 1 + 1 ELSE 0
        /\ \A i \in 1..(gone - 1 - 1 + 1) : left[i] = s[1 + i - 1]
    BY <2>1, SubSeqProperties
  <2> HIDE DEF left
  <2>3. \A i \in 1..(gone - 1) : i \in 1..(gone - 1 - 1 + 1) /\ 1 + i - 1 = i
    BY <1>3
  <2>4. QED
    BY <1>3, <2>2, <2>3
<1>5. /\ right \in Seq(Window) /\ Len(right) = Len(s) - gone
      /\ \A i \in 1..(Len(s) - gone) : right[i] = s[gone + i]
  <2>1. gone + 1 \in Int /\ Len(s) \in Int /\ \A i \in (gone + 1)..Len(s) : s[i] \in Window
    BY <1>3
  <2>2. /\ right \in Seq(Window)
        /\ Len(right) = IF gone + 1 <= Len(s) THEN Len(s) - (gone + 1) + 1 ELSE 0
        /\ \A i \in 1..(Len(s) - (gone + 1) + 1) : right[i] = s[(gone + 1) + i - 1]
    BY <2>1, SubSeqProperties
  <2> HIDE DEF right
  <2>3. \A i \in 1..(Len(s) - gone) :
            i \in 1..(Len(s) - (gone + 1) + 1) /\ (gone + 1) + i - 1 = gone + i
    BY <1>3
  <2>4. Len(right) = Len(s) - gone
    <3>1. \A a, b \in Nat : b <= a => (IF b + 1 <= a THEN a - (b + 1) + 1 ELSE 0) = a - b
      OBVIOUS
    <3>2. gone \in Nat /\ gone <= Len(s)
      BY <1>3
    <3>3. QED
      BY <1>3, <2>2, <3>1, <3>2
  <2>5. ASSUME NEW i \in 1..(Len(s) - gone) PROVE right[i] = s[gone + i]
    <3>1. right[i] = s[(gone + 1) + i - 1] /\ (gone + 1) + i - 1 = gone + i
      BY <2>2, <2>3, <2>5
    <3>2. QED
      BY <3>1
  <2>6. QED
    BY <2>2, <2>4, <2>5
<1> HIDE DEF left, right
<1>6. /\ left \o right \in Seq(Window) /\ Len(left \o right) = Len(s) - 1
      /\ \A i \in 1..(Len(s) - 1) :
            (left \o right)[i] = IF i <= gone - 1 THEN left[i] ELSE right[i - (gone - 1)]
  <2>1. /\ left \o right \in Seq(Window) /\ Len(left \o right) = Len(left) + Len(right)
        /\ \A i \in 1..(Len(left) + Len(right)) :
              (left \o right)[i] = IF i <= Len(left) THEN left[i] ELSE right[i - Len(left)]
    BY <1>4, <1>5, ConcatProperties
  <2>2. Len(left) + Len(right) = Len(s) - 1 /\ Len(left) = gone - 1
    BY <1>3, <1>4, <1>5
  <2>3. QED
    BY <2>1, <2>2
<1>7. ASSUME NEW i \in DOMAIN Without(s, d)
      PROVE  Without(s, d)[i] = IF i < gone THEN s[i] ELSE s[i + 1]
  <2>1. i \in 1..(Len(s) - 1)
    BY <1>2, <1>6, LenProperties
  <2>2. CASE i < gone
    <3>1. i \in 1..(gone - 1)
      BY <1>3, <2>1, <2>2
    <3>2. QED
      BY <1>2, <1>3, <1>4, <1>6, <2>1, <2>2, <3>1
  <2>3. CASE ~(i < gone)
    <3>1. i \in gone..(Len(s) - 1) /\ i - (gone - 1) \in 1..(Len(s) - gone)
          /\ gone + (i - (gone - 1)) = i + 1
      BY <1>3, <2>1, <2>3
    <3>2. QED
      BY <1>2, <1>3, <1>5, <1>6, <2>1, <2>3, <3>1
  <2>4. QED
    BY <2>2, <2>3
<1>8. QED
  BY <1>1, <1>2, <1>6, <1>7

\* A batch adds windows of devices that have none, up to the limit.
LEMMA BatchAdds ==
    ASSUME windows \in Seq(Window), OneEach, NEW S \in SUBSET Device,
           NEW ds \in Orders(S \ Devices(windows)), NEW t,
           t = windows \o SubSeq(Batch(ds), 1, Smaller(Len(ds), MaxStreams - Len(windows)))
    PROVE  /\ t \in Seq(Window) /\ Len(t) <= MaxStreams
           /\ \A i \in DOMAIN windows : i \in DOMAIN t /\ t[i] = windows[i]
           /\ \A i \in DOMAIN t : i \notin DOMAIN windows => t[i].seen = None
           /\ \A i, j \in DOMAIN t : t[i].device = t[j].device => i = j
           /\ S \subseteq Devices(windows) => t = windows
<1> DEFINE new == S \ Devices(windows)
           n == Cardinality(new)
           m == Smaller(Len(ds), MaxStreams - Len(windows))
           added == SubSeq(Batch(ds), 1, m)
<1>1. n \in Nat /\ MaxStreams \in Nat /\ Len(windows) \in Nat /\ Len(windows) <= MaxStreams
  <2>1. IsFiniteSet(new)
    BY ViewsAssumption, FS_Subset
  <2>2. QED
    BY <2>1, ViewsAssumption, FS_CardinalityType, LenProperties DEF OneEach
<1>2. /\ DOMAIN ds = 1..n /\ \A i \in 1..n : ds[i] \in new
      /\ \A i, j \in 1..n : ds[i] = ds[j] => i = j
  BY DEF Orders
<1>3. Len(ds) = n
  <2>1. ds \in [1..n -> new]
    BY DEF Orders
  <2> HIDE DEF n, new
  <2>2. ds \in Seq(new)
    BY <1>1, <2>1, SeqDef
  <2>3. DOMAIN ds = 1..Len(ds) /\ Len(ds) \in Nat
    BY <2>2, LenProperties
  <2>4. QED
    BY <1>1, <1>2, <2>3
<1> HIDE DEF n
<1>4. m \in Nat /\ m <= n /\ Len(windows) + m <= MaxStreams
  BY <1>1, <1>3 DEF Smaller
<1> HIDE DEF m
<1>5. ASSUME NEW i \in 1..n
      PROVE  /\ Batch(ds)[i] \in Window
             /\ Batch(ds)[i].device = ds[i] /\ Batch(ds)[i].seen = None
  <2>1. Batch(ds)[i] = BatchWindow(ds[i], Len(windows) + i)
    BY <1>2, <1>5 DEF Batch
  <2>2. ds[i] \in Device /\ Len(windows) + i \in Nat
    BY <1>1, <1>2, <1>5
  <2>3. \A d \in Device, z \in Nat :
            BatchWindow(d, z) \in Window /\ BatchWindow(d, z).device = d /\ BatchWindow(d, z).seen = None
    BY DEF BatchWindow, Window
  <2>4. QED
    BY <2>1, <2>2, <2>3
<1>6. /\ added \in Seq(Window) /\ Len(added) = m
      /\ \A i \in 1..m : added[i] = Batch(ds)[i]
  <2>1. 1 \in Int /\ m \in Int /\ \A i \in 1..m : Batch(ds)[i] \in Window
    <3>1. 1..m \subseteq 1..n
      BY <1>1, <1>4
    <3>2. \A i \in 1..n : Batch(ds)[i] \in Window
      BY <1>5
    <3>3. QED
      BY <1>4, <3>1, <3>2
  <2>2. /\ added \in Seq(Window) /\ Len(added) = IF 1 <= m THEN m - 1 + 1 ELSE 0
        /\ \A i \in 1..(m - 1 + 1) : added[i] = Batch(ds)[1 + i - 1]
    BY <2>1, SubSeqProperties
  <2> HIDE DEF added
  <2>3. \A i \in 1..m : i \in 1..(m - 1 + 1) /\ 1 + i - 1 = i
    BY <1>4
  <2>4. QED
    BY <1>4, <2>2, <2>3
<1>7. t = windows \o added
  BY DEF m
<1> HIDE DEF added
<1>8. /\ t \in Seq(Window) /\ Len(t) = Len(windows) + m
      /\ \A i \in 1..(Len(windows) + m) :
            t[i] = IF i <= Len(windows) THEN windows[i] ELSE added[i - Len(windows)]
  <2>1. /\ windows \o added \in Seq(Window)
        /\ Len(windows \o added) = Len(windows) + Len(added)
        /\ \A i \in 1..(Len(windows) + Len(added)) :
              (windows \o added)[i] = IF i <= Len(windows) THEN windows[i] ELSE added[i - Len(windows)]
    BY <1>6, ConcatProperties
  <2>2. Len(added) = m
    BY <1>6
  <2>3. QED
    BY <1>7, <2>1, <2>2
<1>9. /\ DOMAIN windows = 1..Len(windows)
      /\ DOMAIN t = 1..(Len(windows) + m)
  BY <1>8, LenProperties
<1>10. \A i \in DOMAIN windows : i \in DOMAIN t /\ t[i] = windows[i]
  BY <1>1, <1>4, <1>8, <1>9
<1>11. ASSUME NEW i \in DOMAIN t, i \notin DOMAIN windows
       PROVE  /\ i - Len(windows) \in 1..n
              /\ t[i].device = ds[i - Len(windows)] /\ t[i].seen = None
  <2>1. i \in 1..(Len(windows) + m) /\ i \notin 1..Len(windows)
    BY <1>9, <1>11
  <2>2. i - Len(windows) \in 1..m /\ ~(i <= Len(windows))
    BY <1>1, <1>4, <2>1
  <2>3. i - Len(windows) \in 1..n
    BY <1>1, <1>4, <2>2
  <2>4. t[i] = added[i - Len(windows)] /\ added[i - Len(windows)] = Batch(ds)[i - Len(windows)]
    BY <1>6, <1>8, <2>1, <2>2
  <2>5. QED
    BY <1>5, <2>3, <2>4
<1>12. ASSUME NEW i \in DOMAIN t, NEW j \in DOMAIN t, t[i].device = t[j].device PROVE i = j
  <2>1. \A k \in DOMAIN windows : windows[k].device \in Devices(windows)
    BY DEF Devices
  <2>2. \A k \in DOMAIN t : k \notin DOMAIN windows => t[k].device \notin Devices(windows)
    BY <1>2, <1>11
  <2>3. CASE i \in DOMAIN windows /\ j \in DOMAIN windows
    BY <1>10, <1>12, <2>3 DEF OneEach
  <2>4. CASE i \notin DOMAIN windows /\ j \notin DOMAIN windows
    <3>1. ds[i - Len(windows)] = ds[j - Len(windows)]
      BY <1>11, <1>12, <2>4
    <3>2. i - Len(windows) = j - Len(windows)
      BY <1>2, <1>11, <2>4, <3>1
    <3>3. QED
      BY <1>1, <1>9, <3>2
  <2>5. QED
    BY <1>10, <1>12, <2>1, <2>2, <2>3, <2>4
<1>13. S \subseteq Devices(windows) => t = windows
  <2>1. SUFFICES ASSUME S \subseteq Devices(windows) PROVE t = windows
    OBVIOUS
  <2>2. n = 0
    BY <2>1, FS_EmptySet DEF n
  <2>3. m = 0
    BY <1>4, <2>2
  <2>4. added = <<>>
    BY <1>6, <2>3, EmptySeq
  <2>5. QED
    BY <1>7, <2>4, ConcatEmptySeq
<1>14. QED
  BY <1>1, <1>4, <1>8, <1>10, <1>11, <1>12, <1>13

\* The types of the list, the modal and the panel, and those of the page of a room.
ControlTyped ==
    /\ part \in {"control", "floating", "monitor"}
    /\ online \subseteq Device /\ listed \subseteq Device
    /\ modal \in BOOLEAN /\ picked \subseteq Device
    /\ panel \in Device \cup {None}

PageTyped ==
    /\ room \in Room /\ content \in Room \cup {None} /\ loading \in BOOLEAN
    /\ loads \subseteq [room : Room, active : BOOLEAN]
    /\ sockets \subseteq [room : Room, state : {"new", "open", "closing"}]
    /\ badge \in {"connecting", "connected", "disconnected"}
    /\ players \in Room \cup {None}

\* Moved, resized, raised and toggled windows are still those of the same devices.
LEMMA ChangedKeeps ==
    ASSUME windows \in Seq(Window), OneEach, NEW t \in [DOMAIN windows -> Window],
           \A i \in DOMAIN windows : t[i].device = windows[i].device
    PROVE  /\ t \in Seq(Window) /\ Len(t) = Len(windows)
           /\ \A i, j \in DOMAIN t : t[i].device = t[j].device => i = j
           /\ Devices(t) = Devices(windows)
<1>1. DOMAIN windows = 1..Len(windows) /\ Len(windows) \in Nat
  BY LenProperties
<1>2. t \in Seq(Window)
  BY <1>1, SeqDef
<1>3. Len(t) = Len(windows)
  <2>1. DOMAIN t = 1..Len(t) /\ Len(t) \in Nat
    BY <1>2, LenProperties
  <2>2. QED
    BY <1>1, <2>1
<1>4. Devices(t) = Devices(windows)
  BY DEF Devices
<1>5. \A i, j \in DOMAIN t : t[i].device = t[j].device => i = j
  BY DEF OneEach
<1>6. QED
  BY <1>2, <1>3, <1>4, <1>5

\* The window of a device is the one there is of it.
LEMMA WindowOfTyped ==
    ASSUME windows \in Seq(Window), NEW d \in Devices(windows)
    PROVE  WindowOf(d) \in Window /\ WindowOf(d).pos \in Int /\ WindowOf(d).size \in Nat
<1>1. \E i \in DOMAIN windows : windows[i].device = d
  BY DEF Devices
<1>2. PICK i \in DOMAIN windows : WindowOf(d) = windows[i]
  BY <1>1 DEF WindowOf
<1>3. windows[i] \in Window
  OBVIOUS
<1>4. \A w \in Window : w.pos \in Int /\ w.size \in Nat
  BY DEF Window
<1>5. QED
  BY <1>2, <1>3, <1>4

\* A press and a toggle raise the window.
LEMMA RaiseKeeps ==
    ASSUME windows \in Seq(Window), OneEach, AllPlaced, NEW d \in Devices(windows),
           windows' = BringToFront(windows, d) \/ windows' = Toggled(windows, d)
    PROVE  /\ windows' \in Seq(Window) /\ OneEach' /\ AllPlaced' /\ Above(d)'
           /\ Devices(windows') = Devices(windows)
<1>1. Top(windows) + 1 \in Nat
  BY TopOf
<1> DEFINE top == Top(windows) + 1
           Raised(w) == [w EXCEPT !.z = top]
           Turned(w) == [w EXCEPT !.minimized = ~@, !.z = top]
<1>2. \A w \in Window :
          /\ Raised(w) \in Window /\ Raised(w).device = w.device /\ Raised(w).z = top
          /\ Placed(w) => Placed(Raised(w))
          /\ Turned(w) \in Window /\ Turned(w).device = w.device /\ Turned(w).z = top
          /\ Placed(w) => Placed(Turned(w))
  <2> HIDE DEF top
  <2>1. top \in Nat
    BY <1>1 DEF top
  <2>2. QED
    BY <2>1 DEF Window, Placed
<1>3. \A i \in DOMAIN windows : windows[i] \in Window
  OBVIOUS
<1>4. /\ DOMAIN windows' = DOMAIN windows
      /\ \A i \in DOMAIN windows :
            windows'[i] = IF windows[i].device # d THEN windows[i]
                          ELSE IF windows' = BringToFront(windows, d) THEN Raised(windows[i])
                          ELSE Turned(windows[i])
      /\ windows' = [i \in DOMAIN windows |-> windows'[i]]
  BY DEF BringToFront, Toggled, Changed
<1> HIDE DEF Raised, Turned, top
<1>5. \A i \in DOMAIN windows :
          /\ windows'[i] \in Window /\ Placed(windows'[i])
          /\ windows[i].device # d => windows'[i] = windows[i]
          /\ windows[i].device = d => windows'[i].device = d /\ windows'[i].z = top
  BY <1>2, <1>3, <1>4 DEF AllPlaced
<1>6. /\ windows' \in [DOMAIN windows -> Window]
      /\ \A i \in DOMAIN windows : windows'[i].device = windows[i].device
  BY <1>4, <1>5
<1>7. /\ windows' \in Seq(Window) /\ Len(windows') = Len(windows)
      /\ \A i, j \in DOMAIN windows' : windows'[i].device = windows'[j].device => i = j
      /\ Devices(windows') = Devices(windows)
  BY <1>6, ChangedKeeps
<1>8. Above(d)'
  <2>1. \A i, j \in DOMAIN windows : windows[i].device = windows[j].device => i = j
    BY DEF OneEach
  <2>2. \E k \in DOMAIN windows' : /\ windows'[k].device = d
                                   /\ \A i \in DOMAIN windows' : i # k => windows'[i].z < windows'[k].z
    BY <1>4, <1>5, <2>1, RaisedAbove DEF top
  <2>3. QED
    BY <2>2 DEF Above
<1>9. OneEach' /\ AllPlaced'
  BY <1>4, <1>5, <1>7 DEF OneEach, AllPlaced
<1>10. QED
  BY <1>7, <1>8, <1>9

\* A drag and a resize place the window anew, and leave the order as it is.
LEMMA DragKeeps ==
    ASSUME windows \in Seq(Window), OneEach, AllPlaced, viewport \in Viewports,
           NEW d, NEW at \in Int,
           \/ windows' = Moved(windows, d, at)
           \/ windows' = Resized(windows, d, Larger(0, at))
    PROVE  /\ windows' \in Seq(Window) /\ OneEach' /\ AllPlaced'
           /\ Devices(windows') = Devices(windows)
           /\ \A e : Above(e) => Above(e)'
<1>1. viewport \in Nat /\ Padding \in Nat /\ Larger(0, at) \in Int
  BY ViewsAssumption DEF Larger
<1> DEFINE Shift(w) == [w EXCEPT !.pos = ClampPosition(at, w.size), !.seen = viewport]
           size == ClampSize(Larger(0, at))
           Sized(w) == [w EXCEPT !.size = size, !.pos = ClampPosition(w.pos, size), !.seen = viewport]
<1>2. size \in Nat
  BY <1>1, ClampSizes
<1>3. ASSUME NEW w \in Window
      PROVE  /\ Shift(w) \in Window /\ Shift(w).device = w.device /\ Shift(w).z = w.z /\ Placed(Shift(w))
             /\ Sized(w) \in Window /\ Sized(w).device = w.device /\ Sized(w).z = w.z /\ Placed(Sized(w))
  <2>1. w.pos \in Int /\ w.size \in Nat
    BY DEF Window
  <2> DEFINE one == ClampPosition(at, w.size)
             two == ClampPosition(w.pos, size)
  <2>2. /\ one \in Int
        /\ w.size + 2 * Padding <= viewport => one >= Padding /\ one + w.size <= viewport - Padding
    BY <1>1, <2>1, ClampPlaces
  <2> HIDE DEF size
  <2>3. /\ two \in Int
        /\ size + 2 * Padding <= viewport => two >= Padding /\ two + size <= viewport - Padding
    BY <1>1, <1>2, <2>1, ClampPlaces
  <2> HIDE DEF one, two
  <2>4. /\ Shift(w) \in Window /\ Shift(w).device = w.device /\ Shift(w).z = w.z
        /\ Shift(w).seen = viewport /\ Shift(w).size = w.size /\ Shift(w).pos = one
    BY <2>2 DEF Window, one
  <2>5. /\ Sized(w) \in Window /\ Sized(w).device = w.device /\ Sized(w).z = w.z
        /\ Sized(w).seen = viewport /\ Sized(w).size = size /\ Sized(w).pos = two
    BY <1>2, <2>3 DEF Window, two
  <2>6. QED
    BY <2>2, <2>3, <2>4, <2>5 DEF Placed
<1>4. \A i \in DOMAIN windows : windows[i] \in Window
  OBVIOUS
<1>5. /\ DOMAIN windows' = DOMAIN windows
      /\ \A i \in DOMAIN windows :
            windows'[i] = IF windows[i].device # d THEN windows[i]
                          ELSE IF windows' = Moved(windows, d, at) THEN Shift(windows[i])
                          ELSE Sized(windows[i])
      /\ windows' = [i \in DOMAIN windows |-> windows'[i]]
  BY DEF Moved, Resized, Changed
<1> HIDE DEF Shift, Sized
<1>6. \A i \in DOMAIN windows :
          /\ windows'[i] \in Window /\ Placed(windows'[i]) /\ windows'[i].z = windows[i].z
          /\ windows[i].device # d => windows'[i] = windows[i]
          /\ windows[i].device = d => windows'[i].device = d
  BY <1>3, <1>4, <1>5 DEF AllPlaced
<1>7. /\ windows' \in [DOMAIN windows -> Window]
      /\ \A i \in DOMAIN windows : windows'[i].device = windows[i].device
  BY <1>5, <1>6
<1>8. /\ windows' \in Seq(Window) /\ Len(windows') = Len(windows)
      /\ \A i, j \in DOMAIN windows' : windows'[i].device = windows'[j].device => i = j
      /\ Devices(windows') = Devices(windows)
  BY <1>7, ChangedKeeps
<1>9. OneEach' /\ AllPlaced'
  BY <1>5, <1>6, <1>8 DEF OneEach, AllPlaced
<1>10. \A e : Above(e) => Above(e)'
  BY <1>5, <1>6, <1>7 DEF Above
<1>11. QED
  BY <1>8, <1>9, <1>10

\* A window is opened above all others, or raised if the device has one, unless there are
\* as many as streams.
LEMMA OpenKeeps ==
    ASSUME windows \in Seq(Window), OneEach, AllPlaced, viewport \in Viewports,
           NEW d \in Device, windows' = OpenOrFocus(windows, d)
    PROVE  /\ windows' \in Seq(Window) /\ OneEach' /\ AllPlaced'
           /\ Devices(windows) \subseteq Devices(windows')
           /\ IF d \in Devices(windows') THEN Above(d)' ELSE windows' = windows
<1>1. CASE d \in Devices(windows)
  <2>1. windows' = BringToFront(windows, d)
    BY <1>1 DEF OpenOrFocus
  <2>2. QED
    BY <1>1, <2>1, RaiseKeeps
<1>2. CASE d \notin Devices(windows) /\ Len(windows) >= MaxStreams
  <2>1. windows' = windows
    BY <1>2 DEF OpenOrFocus
  <2>2. QED
    BY <1>2, <2>1 DEF OneEach, AllPlaced
<1>3. CASE d \notin Devices(windows) /\ ~(Len(windows) >= MaxStreams)
  <2> DEFINE new == NewWindow(windows, d)
             n == Len(windows)
  <2>1. windows' = Append(windows, new)
    BY <1>3 DEF OpenOrFocus
  <2>2. new \in Window /\ new.device = d /\ new.z = Top(windows) + 1 /\ Placed(new)
    BY NewIsPlaced
  <2> HIDE DEF new
  <2>3. /\ windows' \in Seq(Window) /\ Len(windows') = n + 1 /\ windows'[n + 1] = new
        /\ \A i \in 1..n : windows'[i] = windows[i]
        /\ DOMAIN windows = 1..n /\ DOMAIN windows' = 1..(n + 1) /\ n \in Nat
    BY <2>1, <2>2, AppendProperties, LenProperties
  <2>4. \A i \in 1..n : windows[i].device # d
    BY <1>3, <2>3 DEF Devices
  <2>5. OneEach'
    <3>1. n + 1 <= MaxStreams
      BY <1>3, <2>3, ViewsAssumption
    <3>2. ASSUME NEW i \in 1..(n + 1), NEW j \in 1..(n + 1), windows'[i].device = windows'[j].device
          PROVE  i = j
      <4>1. CASE i \in 1..n /\ j \in 1..n
        BY <2>3, <3>2, <4>1 DEF OneEach
      <4>2. \A k \in 1..(n + 1) : k \in 1..n \/ k = n + 1
        BY <2>3
      <4>3. QED
        BY <2>2, <2>3, <2>4, <3>2, <4>1, <4>2
    <3>3. QED
      BY <2>3, <3>1, <3>2 DEF OneEach
  <2>6. AllPlaced'
    <3>1. \A k \in 1..(n + 1) : k \in 1..n \/ k = n + 1
      BY <2>3
    <3>2. QED
      BY <2>2, <2>3, <3>1 DEF AllPlaced
  <2>7. Above(d)'
    <3>1. Top(windows) \in Nat /\ \A i \in 1..n : windows[i].z <= Top(windows) /\ windows[i].z \in Nat
      <4>1. \A i \in 1..n : windows[i] \in Window
        BY <2>3
      <4>2. \A w \in Window : w.z \in Nat
        BY DEF Window
      <4>3. QED
        BY <2>3, <4>1, <4>2, TopOf
    <3>2. ASSUME NEW i \in 1..(n + 1), i # n + 1 PROVE windows'[i].z < windows'[n + 1].z
      <4>1. i \in 1..n
        BY <2>3, <3>2
      <4>2. QED
        BY <2>2, <2>3, <3>1, <4>1
    <3>3. n + 1 \in 1..(n + 1)
      BY <2>3
    <3>4. QED
      BY <2>2, <2>3, <3>2, <3>3 DEF Above
  <2>8. Devices(windows) \subseteq Devices(windows')
    <3>1. 1..n \subseteq 1..(n + 1)
      BY <2>3
    <3>2. QED
      BY <2>3, <3>1 DEF Devices
  <2>9. d \in Devices(windows')
    <3>1. n + 1 \in DOMAIN windows' /\ windows'[n + 1].device = d
      BY <2>2, <2>3
    <3>2. QED
      BY <3>1 DEF Devices
  <2>10. QED
    BY <2>3, <2>5, <2>6, <2>7, <2>8, <2>9
<1>4. QED
  BY <1>1, <1>2, <1>3

\* A window is closed: the others stay in their order.
LEMMA CloseKeeps ==
    ASSUME windows \in Seq(Window), OneEach, AllPlaced, NEW d \in Devices(windows),
           windows' = Without(windows, d)
    PROVE  /\ windows' \in Seq(Window) /\ OneEach' /\ AllPlaced'
           /\ \A e \in Devices(windows) : e # d => e \in Devices(windows')
           /\ \A e : e # d /\ Above(e) => Above(e)'
<1> DEFINE n == Len(windows)
<1>1. PICK gone \in DOMAIN windows :
          /\ windows[gone].device = d
          /\ \A i \in DOMAIN windows' : windows'[i] = IF i < gone THEN windows[i] ELSE windows[i + 1]
  BY WithoutOne
<1>2. windows' \in Seq(Window) /\ Len(windows') = n - 1
  BY WithoutOne
<1>3. n \in Nat /\ DOMAIN windows = 1..n /\ DOMAIN windows' = 1..(n - 1) /\ gone \in 1..n
  BY <1>1, <1>2, LenProperties
<1> DEFINE from(i) == IF i < gone THEN i ELSE i + 1
<1>4. \A i \in 1..(n - 1) : from(i) \in 1..n /\ from(i) # gone /\ windows'[i] = windows[from(i)]
  BY <1>1, <1>3
<1>5. \A i, j \in 1..(n - 1) : from(i) = from(j) => i = j
  BY <1>3
<1>6. ASSUME NEW k \in 1..n, k # gone PROVE \E i \in 1..(n - 1) : from(i) = k
  <2>1. CASE k < gone
    <3>1. k \in 1..(n - 1) /\ from(k) = k
      BY <1>3, <2>1
    <3>2. QED
      BY <3>1
  <2>2. CASE ~(k < gone)
    <3>1. k - 1 \in 1..(n - 1) /\ from(k - 1) = k
      BY <1>3, <1>6, <2>2
    <3>2. QED
      BY <3>1
  <2>3. QED
    BY <2>1, <2>2
<1> HIDE DEF from, n
<1>7. OneEach'
  <2>1. ASSUME NEW i \in 1..(n - 1), NEW j \in 1..(n - 1), windows'[i].device = windows'[j].device
        PROVE  i = j
    <3>1. from(i) = from(j)
      BY <1>3, <1>4, <2>1 DEF OneEach
    <3>2. QED
      BY <1>5, <3>1
  <2>2. n <= MaxStreams /\ MaxStreams \in Nat
    BY ViewsAssumption DEF OneEach, n
  <2>3. Len(windows') <= MaxStreams
    BY <1>2, <1>3, <2>2
  <2>4. QED
    BY <1>3, <2>1, <2>3 DEF OneEach
<1>8. AllPlaced'
  BY <1>3, <1>4 DEF AllPlaced
<1>9. ASSUME NEW e \in Devices(windows), e # d PROVE e \in Devices(windows')
  <2>1. PICK k \in 1..n : windows[k].device = e
    BY <1>3 DEF Devices
  <2>2. k # gone
    BY <1>1, <1>9, <2>1
  <2>3. PICK i \in 1..(n - 1) : from(i) = k
    BY <1>6, <2>2
  <2>4. windows'[i].device = e
    BY <1>4, <2>1, <2>3
  <2>5. QED
    BY <1>3, <2>4 DEF Devices
<1>10. ASSUME NEW e, e # d, Above(e) PROVE Above(e)'
  <2>1. PICK k \in 1..n : /\ windows[k].device = e
                          /\ \A i \in 1..n : i # k => windows[i].z < windows[k].z
    BY <1>3, <1>10 DEF Above
  <2>2. k # gone
    BY <1>1, <1>10, <2>1
  <2>3. PICK l \in 1..(n - 1) : from(l) = k
    BY <1>6, <2>2
  <2>4. windows'[l] = windows[k]
    BY <1>4, <2>3
  <2>5. ASSUME NEW i \in 1..(n - 1), i # l PROVE windows'[i].z < windows'[l].z
    <3>1. from(i) \in 1..n /\ from(i) # k /\ windows'[i] = windows[from(i)]
      BY <1>4, <1>5, <2>3, <2>5
    <3>2. QED
      BY <2>1, <2>4, <3>1
  <2>6. QED
    BY <1>3, <2>1, <2>4, <2>5 DEF Above
<1>11. QED
  BY <1>2, <1>7, <1>8, <1>9, <1>10

\* Before anything is opened there is nothing to see.
LEMMA ViewsStart == ViewsInit => ViewsTypeOK /\ WindowsInv
<1> SUFFICES ASSUME ViewsInit PROVE ViewsTypeOK /\ WindowsInv
  OBVIOUS
<1>1. viewport \in Viewports
  <2>1. Max(Viewports) \in Viewports
    BY ViewsAssumption, MaxOf
  <2>2. QED
    BY <2>1 DEF ViewsInit
<1>2. room \in Room
  BY ViewsAssumption DEF ViewsInit
<1>3. /\ windows = <<>> /\ windows \in Seq(Window) /\ Len(windows) = 0 /\ DOMAIN windows = {}
  <2>1. windows = <<>> /\ windows \in Seq(Window) /\ Len(windows) = 0
    BY EmptySeq DEF ViewsInit
  <2>2. DOMAIN windows = 1..0
    BY <2>1, LenProperties
  <2>3. 1..0 = {}
    OBVIOUS
  <2>4. QED
    BY <2>1, <2>2, <2>3
<1>4. ViewsTypeOK
  <2>1. /\ loads \subseteq [room : Room, active : BOOLEAN]
        /\ sockets \subseteq [room : Room, state : {"new", "open", "closing"}]
    <3>1. /\ loads \subseteq {[room |-> room, active |-> TRUE]}
          /\ sockets \subseteq {[room |-> room, state |-> "new"]}
      BY DEF ViewsInit, Present
    <3>2. /\ [room |-> room, active |-> TRUE] \in [room : Room, active : BOOLEAN]
          /\ [room |-> room, state |-> "new"] \in [room : Room, state : {"new", "open", "closing"}]
      BY <1>2
    <3>3. QED
      BY <3>1, <3>2
  <2>2. /\ online \subseteq Device /\ listed \subseteq Device /\ picked \subseteq Device
        /\ down \subseteq Pointer /\ held = None /\ front = None /\ panel = None
        /\ modal \in BOOLEAN /\ loading \in BOOLEAN /\ badge = "connecting"
        /\ content = None /\ players = None /\ part \in {"control", "floating", "monitor"}
    BY DEF ViewsInit
  <2>3. QED
    BY <1>1, <1>2, <1>3, <2>1, <2>2 DEF ViewsTypeOK
<1>5. WindowsInv
  <2>1. 0 <= MaxStreams
    BY ViewsAssumption
  <2>2. held = None /\ front = None
    BY DEF ViewsInit
  <2>3. QED
    BY <1>3, <2>1, <2>2 DEF WindowsInv, OneEach, FrontAbove, AllPlaced, DragIsHeld, DragIsFloating
<1>6. QED
  BY <1>4, <1>5

\* Every step keeps the windows apart, in their order and in place.
LEMMA WindowsStep ==
    ViewsTypeOK /\ WindowsInv /\ [ViewsNext]_viewsVars => WindowsTyped' /\ WindowsInv'
<1> SUFFICES ASSUME ViewsTypeOK, WindowsInv, [ViewsNext]_viewsVars
             PROVE  WindowsTyped' /\ WindowsInv'
  OBVIOUS
<1>a. /\ windows \in Seq(Window) /\ OneEach /\ AllPlaced /\ viewport \in Viewports
      /\ WindowsTyped /\ FrontAbove /\ DragIsHeld /\ DragIsFloating
  BY DEF ViewsTypeOK, WindowsTyped, WindowsInv
<1>b. None \notin Device /\ viewport \in Nat
  BY <1>a, ViewsAssumption
<1>c. \A e : Above(e) => e \in Devices(windows)
  BY DEF Above, Devices
<1>d. \A S \in SUBSET Device : S \subseteq Device
  OBVIOUS
<1>1. ASSUME NEW d \in Device, OpenLiveStream(d) PROVE WindowsTyped' /\ WindowsInv'
  <2>1. /\ windows' = OpenOrFocus(windows, d)
        /\ front' = IF d \in Devices(windows') THEN d ELSE front
        /\ UNCHANGED <<part, viewport, held, down>>
    BY <1>1 DEF OpenLiveStream, floatVars
  <2>2. /\ windows' \in Seq(Window) /\ OneEach' /\ AllPlaced'
        /\ Devices(windows) \subseteq Devices(windows')
        /\ IF d \in Devices(windows') THEN Above(d)' ELSE windows' = windows
    BY <1>a, <2>1, OpenKeeps
  <2>3. FrontAbove'
    <3>1. CASE d \in Devices(windows')
      BY <2>1, <2>2, <3>1 DEF FrontAbove, Above
    <3>2. CASE d \notin Devices(windows')
      BY <1>a, <2>1, <2>2, <3>2 DEF FrontAbove, Above
    <3>3. QED
      BY <3>1, <3>2
  <2>4. DragIsHeld' /\ DragIsFloating'
    BY <1>a, <2>1, <2>2 DEF DragIsHeld, DragIsFloating
  <2>5. WindowsTyped'
    BY <1>a, <2>1, <2>2 DEF WindowsTyped
  <2>6. QED
    BY <2>2, <2>3, <2>4, <2>5 DEF WindowsInv
<1>2. ASSUME NEW d \in Device, CloseLiveStream(d) PROVE WindowsTyped' /\ WindowsInv'
  <2>1. /\ d \in Devices(windows) /\ windows' = Without(windows, d)
        /\ front' = (IF front = d THEN None ELSE front)
        /\ held' = (IF held # None /\ held.device = d THEN None ELSE held)
        /\ UNCHANGED <<part, viewport, down>>
    BY <1>2 DEF CloseLiveStream
  <2>2. /\ windows' \in Seq(Window) /\ OneEach' /\ AllPlaced'
        /\ \A e \in Devices(windows) : e # d => e \in Devices(windows')
        /\ \A e : e # d /\ Above(e) => Above(e)'
    BY <1>a, <2>1, CloseKeeps
  <2>3. FrontAbove'
    <3>1. front' # None => front' = front /\ front # d
      BY <2>1
    <3>2. front' # None => Above(front)
      BY <1>a, <3>1 DEF FrontAbove
    <3>3. QED
      BY <2>2, <3>1, <3>2 DEF FrontAbove, Above
  <2>4. DragIsHeld' /\ DragIsFloating'
    BY <1>a, <2>1, <2>2 DEF DragIsHeld, DragIsFloating
  <2>5. WindowsTyped'
    BY <1>a, <2>1, <2>2 DEF WindowsTyped
  <2>6. QED
    BY <2>2, <2>3, <2>4, <2>5 DEF WindowsInv
<1>3. CASE CloseAll
  <2>1. /\ part = "control" /\ windows' = <<>> /\ front' = None
        /\ UNCHANGED <<part, viewport, held, down>>
    BY <1>3 DEF CloseAll, floatVars
  <2>2. windows' \in Seq(Window) /\ Len(windows') = 0 /\ DOMAIN windows' = {}
    <3>1. windows' \in Seq(Window) /\ Len(windows') = 0
      BY <2>1, EmptySeq
    <3>2. DOMAIN windows' = 1..0
      BY <3>1, LenProperties
    <3>3. QED
      BY <3>1, <3>2
  <2>3. held = None
    BY <1>a, <2>1 DEF DragIsFloating
  <2>4. 0 <= MaxStreams
    BY ViewsAssumption
  <2>5. WindowsInv'
    BY <2>1, <2>2, <2>3, <2>4
       DEF WindowsInv, OneEach, FrontAbove, AllPlaced, DragIsHeld, DragIsFloating
  <2>6. QED
    BY <1>a, <2>1, <2>2, <2>5 DEF WindowsTyped
<1>4. CASE ConfirmBatch
  <2>1. /\ \E ds \in Orders(picked \ Devices(windows)) :
              windows' = windows \o SubSeq(Batch(ds), 1, Smaller(Len(ds), MaxStreams - Len(windows)))
        /\ front' = (IF picked \subseteq Devices(windows) THEN front ELSE None)
        /\ UNCHANGED <<part, viewport, held, down>>
    BY <1>4 DEF ConfirmBatch, floatVars
  <2>2. picked \in SUBSET Device
    BY DEF ViewsTypeOK
  <2>3. /\ windows' \in Seq(Window) /\ Len(windows') <= MaxStreams
        /\ \A i \in DOMAIN windows : i \in DOMAIN windows' /\ windows'[i] = windows[i]
        /\ \A i \in DOMAIN windows' : i \notin DOMAIN windows => windows'[i].seen = None
        /\ \A i, j \in DOMAIN windows' : windows'[i].device = windows'[j].device => i = j
        /\ picked \subseteq Devices(windows) => windows' = windows
    BY <1>a, <2>1, <2>2, BatchAdds
  <2>4. OneEach' /\ AllPlaced' /\ Devices(windows) \subseteq Devices(windows')
    BY <1>a, <2>3 DEF OneEach, AllPlaced, Placed, Devices
  <2>5. FrontAbove'
    BY <1>a, <2>1, <2>3 DEF FrontAbove, Above
  <2>6. DragIsHeld' /\ DragIsFloating'
    BY <1>a, <2>1, <2>4 DEF DragIsHeld, DragIsFloating
  <2>7. WindowsTyped'
    BY <1>a, <2>1, <2>3 DEF WindowsTyped
  <2>8. QED
    BY <2>4, <2>5, <2>6, <2>7 DEF WindowsInv
<1>5. ASSUME NEW p \in Pointer, NEW d \in Device, NEW at \in 0..viewport,
             NEW how \in {"drag", "resize"}, Press(p, d, at, how)
      PROVE  WindowsTyped' /\ WindowsInv'
  <2>1. /\ part = "floating" /\ d \in Devices(windows) /\ down' = down \cup {p}
        /\ windows' = BringToFront(windows, d) /\ front' = d
        /\ held' = [device |-> d, how |-> how, pointer |-> p,
                    grip |-> IF how = "drag" THEN at - WindowOf(d).pos ELSE at - WindowOf(d).size]
        /\ UNCHANGED <<part, viewport>>
    BY <1>5 DEF Press
  <2>2. /\ windows' \in Seq(Window) /\ OneEach' /\ AllPlaced' /\ Above(d)'
        /\ Devices(windows') = Devices(windows)
    BY <1>a, <2>1, RaiseKeeps
  <2>3. WindowOf(d).pos \in Int /\ WindowOf(d).size \in Nat
    BY <1>a, <2>1, WindowOfTyped
  <2>4. held' \in [device : Device, how : {"drag", "resize"}, pointer : Pointer, grip : Int]
    <3>1. at \in Int
      BY <1>b
    <3>2. QED
      BY <2>1, <2>3, <3>1
  <2>5. FrontAbove'
    BY <2>1, <2>2 DEF FrontAbove, Above
  <2>6. DragIsHeld' /\ DragIsFloating'
    BY <2>1, <2>2 DEF DragIsHeld, DragIsFloating
  <2>7. WindowsTyped'
    BY <1>a, <2>1, <2>2, <2>4 DEF WindowsTyped
  <2>8. QED
    BY <2>2, <2>5, <2>6, <2>7 DEF WindowsInv
<1>6. ASSUME NEW p \in Pointer, NEW at \in 0..viewport, Drag(p, at)
      PROVE  WindowsTyped' /\ WindowsInv'
  <2>1. /\ held # None
        /\ \/ windows' = Moved(windows, held.device, at - held.grip)
           \/ windows' = Resized(windows, held.device, Larger(0, at - held.grip))
        /\ UNCHANGED <<part, front, viewport, held, down>>
    BY <1>6 DEF Drag, floatVars, controlVars
  <2>2. at - held.grip \in Int
    <3>1. at \in Int /\ held.grip \in Int
      BY <1>a, <1>b, <2>1 DEF WindowsTyped
    <3>2. QED
      BY <3>1
  <2>3. /\ windows' \in Seq(Window) /\ OneEach' /\ AllPlaced'
        /\ Devices(windows') = Devices(windows)
        /\ \A e : Above(e) => Above(e)'
    BY <1>a, <2>1, <2>2, DragKeeps
  <2>4. FrontAbove'
    BY <1>a, <2>1, <2>3 DEF FrontAbove, Above
  <2>5. DragIsHeld' /\ DragIsFloating'
    BY <1>a, <2>1, <2>3 DEF DragIsHeld, DragIsFloating
  <2>6. WindowsTyped'
    BY <1>a, <2>1, <2>3 DEF WindowsTyped
  <2>7. QED
    BY <2>3, <2>4, <2>5, <2>6 DEF WindowsInv
<1>7. ASSUME NEW d \in Device, ToggleMinimized(d) PROVE WindowsTyped' /\ WindowsInv'
  <2>1. /\ d \in Devices(windows) /\ windows' = Toggled(windows, d) /\ front' = d
        /\ UNCHANGED <<part, viewport, held, down>>
    BY <1>7 DEF ToggleMinimized, floatVars
  <2>2. /\ windows' \in Seq(Window) /\ OneEach' /\ AllPlaced' /\ Above(d)'
        /\ Devices(windows') = Devices(windows)
    BY <1>a, <2>1, RaiseKeeps
  <2>3. FrontAbove'
    BY <2>1, <2>2 DEF FrontAbove, Above
  <2>4. DragIsHeld' /\ DragIsFloating'
    BY <1>a, <2>1, <2>2 DEF DragIsHeld, DragIsFloating
  <2>5. WindowsTyped'
    BY <1>a, <2>1, <2>2 DEF WindowsTyped
  <2>6. QED
    BY <2>2, <2>3, <2>4, <2>5 DEF WindowsInv
<1>8. ASSUME NEW p \in Pointer, Release(p) PROVE WindowsTyped' /\ WindowsInv'
  <2>1. /\ held' = None /\ down' = down \ {p} /\ UNCHANGED <<part, windows, viewport, front>>
    BY <1>8 DEF Release, controlVars
  <2>2. QED
    BY <1>a, <2>1 DEF WindowsTyped, WindowsInv, OneEach, AllPlaced, FrontAbove, Above, DragIsHeld,
                      DragIsFloating
<1>9. ASSUME NEW v \in Viewports, ResizeBrowser(v) PROVE WindowsTyped' /\ WindowsInv'
  <2>1. viewport' = v /\ UNCHANGED <<part, windows, front, held, down>>
    BY <1>9 DEF ResizeBrowser, controlVars
  <2>2. QED
    BY <1>a, <2>1 DEF WindowsTyped, WindowsInv, OneEach, AllPlaced, FrontAbove, Above, DragIsHeld,
                      DragIsFloating
<1>10. CASE UNCHANGED <<part, windows, front, viewport, held, down>>
  BY <1>a, <1>10 DEF WindowsTyped, WindowsInv, OneEach, AllPlaced, FrontAbove, Above, DragIsHeld,
                     DragIsFloating, Devices
<1>11. ASSUME NEW d \in Device, Refresh(d) \/ OpenPanel(d) \/ Pick(d)
       PROVE  UNCHANGED <<part, windows, front, viewport, held, down>>
  BY <1>11 DEF Refresh, OpenPanel, Pick, floatVars
<1>12. ClosePanel \/ OpenModal \/ CloseModal \/ UNCHANGED viewsVars =>
           UNCHANGED <<part, windows, front, viewport, held, down>>
  BY DEF ClosePanel, OpenModal, CloseModal, viewsVars, controlVars, floatVars
<1>13. /\ \A r \in Room : Switch(r) => UNCHANGED <<part, windows, front, viewport, held, down>>
       /\ \A l \in loads : Loaded(l) => UNCHANGED <<part, windows, front, viewport, held, down>>
       /\ \A s \in sockets : SocketOpens(s) \/ SocketDelivers(s) \/ SocketCloses(s) =>
              UNCHANGED <<part, windows, front, viewport, held, down>>
  BY DEF Switch, Loaded, SocketOpens, SocketDelivers, SocketCloses, controlVars, floatVars
<1>14. QED
  BY <1>1, <1>2, <1>3, <1>4, <1>5, <1>6, <1>7, <1>8, <1>9, <1>10, <1>11, <1>12, <1>13 DEF ViewsNext


\* The list, the modal and the panel keep their types.
LEMMA ControlStep == ViewsTypeOK /\ [ViewsNext]_viewsVars => ControlTyped'
<1> SUFFICES ASSUME ViewsTypeOK, [ViewsNext]_viewsVars PROVE ControlTyped'
  OBVIOUS
<1>a. ControlTyped
  BY DEF ViewsTypeOK, ControlTyped
<1>b. \A S \in SUBSET Device, d \in Device : Flip(S, d) \in SUBSET Device
  BY DEF Flip
<1>1. ASSUME NEW d \in Device, Refresh(d) PROVE ControlTyped'
  <2>1. /\ UNCHANGED <<part, modal, picked>> /\ panel' \in {panel, None}
        /\ \/ online' = Flip(online, d) /\ UNCHANGED listed
           \/ listed' = Flip(listed, d) /\ UNCHANGED online
    BY <1>1 DEF Refresh
  <2>2. online' \subseteq Device /\ listed' \subseteq Device
    BY <1>a, <1>b, <2>1 DEF ControlTyped
  <2>3. QED
    BY <1>a, <2>1, <2>2 DEF ControlTyped
<1>2. ASSUME NEW d \in Device, OpenPanel(d) PROVE ControlTyped'
  BY <1>a, <1>2 DEF OpenPanel, ControlTyped
<1>3. ASSUME NEW d \in Device, Pick(d) PROVE ControlTyped'
  <2>1. picked' = Flip(picked, d) /\ UNCHANGED <<part, online, listed, modal, panel>>
    BY <1>3 DEF Pick
  <2>2. picked' \subseteq Device
    BY <1>a, <1>b, <2>1 DEF ControlTyped
  <2>3. QED
    BY <1>a, <2>1, <2>2 DEF ControlTyped
<1>4. CASE ClosePanel \/ OpenModal \/ CloseModal \/ ConfirmBatch
  <2>1. /\ UNCHANGED <<part, online, listed>> /\ modal' \in {modal, TRUE, FALSE}
        /\ panel' \in {panel, None} /\ picked' \in {picked, listed \cap online, {}}
    BY <1>4 DEF ClosePanel, OpenModal, CloseModal, ConfirmBatch
  <2>2. QED
    BY <1>a, <2>1 DEF ControlTyped
<1>5. CASE UNCHANGED <<part, online, listed, modal, picked, panel>>
  BY <1>a, <1>5 DEF ControlTyped
<1>6. CASE CloseAll \/ UNCHANGED viewsVars
  BY <1>5, <1>6 DEF CloseAll, viewsVars, controlVars
<1>7. ASSUME NEW d \in Device, OpenLiveStream(d) \/ CloseLiveStream(d) \/ ToggleMinimized(d)
      PROVE  ControlTyped'
  BY <1>5, <1>7 DEF OpenLiveStream, CloseLiveStream, ToggleMinimized
<1>8. ASSUME NEW p \in Pointer, NEW d \in Device, NEW at \in 0..viewport,
             NEW how \in {"drag", "resize"}, Press(p, d, at, how)
      PROVE  ControlTyped'
  BY <1>5, <1>8 DEF Press
<1>9. ASSUME NEW p \in Pointer, Release(p) \/ \E at \in 0..viewport : Drag(p, at)
      PROVE  ControlTyped'
  BY <1>5, <1>9 DEF Release, Drag, controlVars
<1>10. /\ \A v \in Viewports : ResizeBrowser(v) => ControlTyped'
       /\ \A r \in Room : Switch(r) => ControlTyped'
       /\ \A l \in loads : Loaded(l) => ControlTyped'
  BY <1>5 DEF ResizeBrowser, Switch, Loaded, controlVars
<1>11. \A s \in sockets : SocketOpens(s) \/ SocketDelivers(s) \/ SocketCloses(s) => ControlTyped'
  BY <1>5 DEF SocketOpens, SocketDelivers, SocketCloses, controlVars
<1>12. QED
  BY <1>1, <1>2, <1>3, <1>4, <1>6, <1>7, <1>8, <1>9, <1>10, <1>11 DEF ViewsNext

\* The page stays about its room, whichever loads are answered and sockets close.
LEMMA PageStep ==
    ViewsTypeOK /\ PageInv /\ [ViewsNext]_viewsVars => PageTyped' /\ PageInv'
<1> SUFFICES ASSUME ViewsTypeOK, PageInv, [ViewsNext]_viewsVars PROVE PageTyped' /\ PageInv'
  OBVIOUS
<1>a. /\ PageTyped /\ LoadsOfRoom /\ SocketsOfRoom /\ ShowsRoom /\ BadgeOfSocket
  BY DEF ViewsTypeOK, PageTyped, PageInv
<1> DEFINE New(r) == [room |-> r, state |-> "new"]
           Open(r) == [room |-> r, state |-> "open"]
           Closing(s) == [s EXCEPT !.state = "closing"]
<1>1. ASSUME NEW r \in Room, Switch(r) PROVE PageTyped' /\ PageInv'
  <2>1. /\ room' = r /\ loading' = TRUE /\ badge' = "connecting" /\ heard' = FALSE
        /\ loads' = {[l EXCEPT !.active = FALSE] : l \in loads} \cup {[room |-> r, active |-> TRUE]}
        /\ sockets' = {Closing(s) : s \in sockets} \cup {New(r)}
        /\ UNCHANGED <<content, players>>
    BY <1>1 DEF Switch
  <2>2. /\ \A l \in loads : /\ [l EXCEPT !.active = FALSE] \in [room : Room, active : BOOLEAN]
                           /\ [l EXCEPT !.active = FALSE].active = FALSE
        /\ [room |-> r, active |-> TRUE] \in [room : Room, active : BOOLEAN]
    BY <1>a DEF PageTyped
  <2>3. /\ \A s \in sockets : /\ Closing(s) \in [room : Room, state : {"new", "open", "closing"}]
                             /\ Closing(s).state = "closing"
        /\ New(r) \in [room : Room, state : {"new", "open", "closing"}]
        /\ New(r).room = r /\ New(r).state = "new" /\ Open(r).state = "open"
    BY <1>a DEF PageTyped
  <2> HIDE DEF New, Open, Closing
  <2>4. loads' \subseteq [room : Room, active : BOOLEAN] /\ \A l \in loads' : l.active => l.room = r
    <3>1. ASSUME NEW l \in loads'
          PROVE  l \in [room : Room, active : BOOLEAN] /\ (l.active => l.room = r)
      <4>1. CASE l = [room |-> r, active |-> TRUE]
        BY <2>2, <4>1
      <4>2. CASE \E k \in loads : l = [k EXCEPT !.active = FALSE]
        <5>1. PICK k \in loads : l = [k EXCEPT !.active = FALSE]
          BY <4>2
        <5>2. l \in [room : Room, active : BOOLEAN] /\ l.active = FALSE
          BY <2>2, <5>1
        <5>3. QED
          BY <5>2
      <4>3. QED
        BY <2>1, <3>1, <4>1, <4>2
    <3>2. QED
      BY <3>1
  <2>5. /\ sockets' \subseteq [room : Room, state : {"new", "open", "closing"}]
        /\ \A s \in sockets' : s.state # "closing" => s = New(r)
    BY <2>1, <2>3
  <2>6. \A s \in sockets' : s.state # "closing" => s.room = r
    BY <2>3, <2>5
  <2>7. Open(r) \notin sockets'
    BY <2>3, <2>5
  <2>8. PageTyped'
    BY <1>a, <2>1, <2>4, <2>5 DEF PageTyped
  <2>9. LoadsOfRoom' /\ ShowsRoom'
    BY <2>1, <2>4 DEF LoadsOfRoom, ShowsRoom
  <2>10. SocketsOfRoom' /\ BadgeOfSocket'
    BY <2>1, <2>6, <2>7 DEF SocketsOfRoom, BadgeOfSocket, Open
  <2>11. QED
    BY <2>8, <2>9, <2>10 DEF PageInv
<1>2. ASSUME NEW l \in loads, Loaded(l) PROVE PageTyped' /\ PageInv'
  <2>1. /\ loads' = loads \ {l}
        /\ IF l.active THEN loading' = FALSE /\ content' \in {l.room, None}
           ELSE UNCHANGED <<loading, content>>
        /\ UNCHANGED <<room, sockets, badge, players, heard, late>>
    BY <1>2 DEF Loaded
  <2>2. l.active => l.room = room
    BY <1>a, <1>2 DEF LoadsOfRoom
  <2>3. content' \in Room \cup {None} /\ loading' \in BOOLEAN /\ ShowsRoom'
    BY <1>a, <2>1, <2>2 DEF PageTyped, ShowsRoom
  <2>4. PageTyped'
    BY <1>a, <2>1, <2>3 DEF PageTyped
  <2>5. LoadsOfRoom' /\ SocketsOfRoom' /\ BadgeOfSocket'
    BY <1>a, <2>1 DEF LoadsOfRoom, SocketsOfRoom, BadgeOfSocket
  <2>6. QED
    BY <2>3, <2>4, <2>5 DEF PageInv
<1>3. ASSUME NEW s \in sockets, SocketOpens(s) PROVE PageTyped' /\ PageInv'
  <2>1. /\ s.state = "new" /\ sockets' = (sockets \ {s}) \cup {[s EXCEPT !.state = "open"]}
        /\ badge' = "connected"
        /\ UNCHANGED <<room, content, loading, loads, players, heard, late>>
    BY <1>3 DEF SocketOpens
  <2>2. s \in [room : Room, state : {"new", "open", "closing"}] /\ s.room = room
    BY <1>a, <1>3, <2>1 DEF PageTyped, SocketsOfRoom
  <2>3. s = New(room) /\ [s EXCEPT !.state = "open"] = Open(room)
    BY <2>1, <2>2
  <2>4. sockets' = (sockets \ {New(room)}) \cup {Open(room)}
    BY <2>1, <2>3
  <2>5. /\ Open(room) \in [room : Room, state : {"new", "open", "closing"}]
        /\ Open(room).room = room /\ New(room) # Open(room)
    <3>1. New(room).state = "new" /\ Open(room).state = "open"
      OBVIOUS
    <3>2. New(room) # Open(room)
      BY <3>1
    <3>3. QED
      BY <1>a, <3>2 DEF PageTyped
  <2> HIDE DEF New, Open
  <2>6. sockets' \subseteq [room : Room, state : {"new", "open", "closing"}]
    BY <1>a, <2>4, <2>5 DEF PageTyped
  <2>7. \A t \in sockets' : t.state # "closing" => t.room = room
    BY <1>a, <2>4, <2>5 DEF SocketsOfRoom
  <2>8. New(room) \notin sockets' /\ Open(room) \in sockets'
    BY <2>4, <2>5
  <2>9. PageTyped'
    BY <1>a, <2>1, <2>6 DEF PageTyped
  <2>10. LoadsOfRoom' /\ ShowsRoom'
    BY <1>a, <2>1 DEF LoadsOfRoom, ShowsRoom
  <2>11. SocketsOfRoom' /\ BadgeOfSocket'
    BY <1>a, <2>1, <2>7, <2>8 DEF SocketsOfRoom, BadgeOfSocket, New, Open
  <2>12. QED
    BY <2>9, <2>10, <2>11 DEF PageInv
<1>4. ASSUME NEW s \in sockets, SocketDelivers(s) PROVE PageTyped' /\ PageInv'
  <2>1. /\ s.state = "open" /\ players' = s.room
        /\ UNCHANGED <<room, content, loading, loads, sockets, badge, late>>
    BY <1>4 DEF SocketDelivers
  <2>2. s.room = room
    BY <1>a, <1>4, <2>1 DEF SocketsOfRoom
  <2>3. QED
    BY <1>a, <2>1, <2>2 DEF PageTyped, PageInv, LoadsOfRoom, SocketsOfRoom, ShowsRoom, BadgeOfSocket
<1>5. ASSUME NEW s \in sockets, SocketCloses(s) PROVE PageTyped' /\ PageInv'
  <2>1. /\ sockets' = sockets \ {s} /\ badge' = "disconnected"
        /\ late' = (late \/ s.state = "closing")
        /\ UNCHANGED <<room, content, loading, loads, players, heard>>
    BY <1>5 DEF SocketCloses
  <2>2. Open(room) \in sockets' => s.state = "closing"
    <3>1. s \in [room : Room, state : {"new", "open", "closing"}]
      BY <1>a, <1>5 DEF PageTyped
    <3>2. s.state = "new" /\ s.room = room => s = New(room)
      BY <3>1
    <3>3. s.state = "open" /\ s.room = room => s = Open(room)
      BY <3>1
    <3>4. s.state # "closing" => s.room = room
      BY <1>a, <1>5 DEF SocketsOfRoom
    <3>5. ~(New(room) \in sockets /\ Open(room) \in sockets)
      BY <1>a DEF SocketsOfRoom
    <3>6. s.state \in {"new", "open", "closing"}
      BY <3>1
    <3> HIDE DEF New, Open
    <3>7. QED
      BY <1>5, <2>1, <3>2, <3>3, <3>4, <3>5, <3>6
  <2>3. PageTyped' /\ LoadsOfRoom' /\ SocketsOfRoom' /\ ShowsRoom'
    BY <1>a, <2>1 DEF PageTyped, LoadsOfRoom, SocketsOfRoom, ShowsRoom
  <2>4. BadgeOfSocket'
    BY <1>a, <2>1, <2>2 DEF BadgeOfSocket
  <2>5. QED
    BY <2>3, <2>4 DEF PageInv
<1>6. CASE UNCHANGED monitorVars
  BY <1>a, <1>6 DEF monitorVars, PageTyped, PageInv, LoadsOfRoom, SocketsOfRoom, ShowsRoom,
                    BadgeOfSocket
<1>7. ASSUME NEW d \in Device,
             \/ Refresh(d) \/ OpenPanel(d) \/ OpenLiveStream(d) \/ CloseLiveStream(d)
             \/ Pick(d) \/ ToggleMinimized(d)
      PROVE  UNCHANGED monitorVars
  BY <1>7 DEF Refresh, OpenPanel, OpenLiveStream, CloseLiveStream, Pick, ToggleMinimized, monitorVars
<1>8. ClosePanel \/ CloseAll \/ OpenModal \/ CloseModal \/ ConfirmBatch \/ UNCHANGED viewsVars =>
          UNCHANGED monitorVars
  BY DEF ClosePanel, CloseAll, OpenModal, CloseModal, ConfirmBatch, viewsVars, monitorVars
<1>9. ASSUME NEW p \in Pointer,
             \/ \E d \in Device, at \in 0..viewport, how \in {"drag", "resize"} : Press(p, d, at, how)
             \/ \E at \in 0..viewport : Drag(p, at)
             \/ Release(p)
      PROVE  UNCHANGED monitorVars
  BY <1>9 DEF Press, Drag, Release, monitorVars
<1>10. \A v \in Viewports : ResizeBrowser(v) => UNCHANGED monitorVars
  BY DEF ResizeBrowser, monitorVars
<1>11. QED
  BY <1>1, <1>2, <1>3, <1>4, <1>5, <1>6, <1>7, <1>8, <1>9, <1>10 DEF ViewsNext

\* Before a room is shown, the page is about it.
LEMMA PageStart == ViewsInit => PageInv
<1> SUFFICES ASSUME ViewsInit PROVE PageInv
  OBVIOUS
<1>1. /\ loads \subseteq {[room |-> room, active |-> TRUE]}
      /\ sockets \subseteq {[room |-> room, state |-> "new"]}
      /\ badge = "connecting" /\ content = None /\ heard = FALSE
  BY DEF ViewsInit, Present
<1>2. LoadsOfRoom /\ ShowsRoom
  BY <1>1 DEF LoadsOfRoom, ShowsRoom
<1>3. [room |-> room, state |-> "open"] \notin sockets
  <2>1. [room |-> room, state |-> "open"].state # [room |-> room, state |-> "new"].state
    OBVIOUS
  <2>2. QED
    BY <1>1, <2>1
<1>4. \A s \in sockets : s.room = room
  BY <1>1
<1>5. SocketsOfRoom /\ BadgeOfSocket
  BY <1>1, <1>3, <1>4 DEF SocketsOfRoom, BadgeOfSocket
<1>6. QED
  BY <1>2, <1>5 DEF PageInv

\* The types are those of the three parts.
LEMMA ViewsTypes ==
    /\ ViewsTypeOK <=> WindowsTyped /\ ControlTyped /\ PageTyped
    /\ ViewsTypeOK' <=> WindowsTyped' /\ ControlTyped' /\ PageTyped'
BY DEF ViewsTypeOK, WindowsTyped, ControlTyped, PageTyped

\* Windows that are each of another device are as many as their devices.
LEMMA AsManyDevices ==
    ASSUME windows \in Seq(Window), OneEach
    PROVE  Cardinality(Devices(windows)) = Len(windows)
<1> DEFINE n == Len(windows)
           f == [i \in 1..n |-> windows[i].device]
<1>1. n \in Nat /\ DOMAIN windows = 1..n
  BY LenProperties
<1>2. f \in [1..n -> Devices(windows)]
  BY <1>1 DEF Devices
<1>3. \A i, j \in 1..n : f[i] = f[j] => i = j
  BY <1>1 DEF OneEach
<1>4. \A d \in Devices(windows) : \E i \in 1..n : f[i] = d
  BY <1>1 DEF Devices
<1> HIDE DEF f
<1>5. f \in Bijection(1..n, Devices(windows))
  BY <1>2, <1>3, <1>4 DEF Bijection, Injection, Surjection, IsInjective
<1>6. ExistsBijection(1..n, Devices(windows))
  BY <1>5 DEF ExistsBijection
<1>7. QED
  BY <1>1, <1>6, FS_CountingElements

\* The invariant says what the operator sees of the windows.
LEMMA WindowsSound == ViewsTypeOK /\ WindowsInv => WindowsAreSound
<1> SUFFICES ASSUME ViewsTypeOK, WindowsInv PROVE WindowsAreSound
  OBVIOUS
<1>1. windows \in Seq(Window) /\ OneEach /\ FrontAbove /\ AllPlaced /\ DragIsHeld
  BY DEF ViewsTypeOK, WindowsInv
<1>2. WindowsAreFew
  BY <1>1, AsManyDevices DEF WindowsAreFew, OneEach
<1>3. FrontIsOnTop
  <2>1. SUFFICES ASSUME front # None, NEW i \in DOMAIN windows, windows[i].device # front
                 PROVE  windows[i].z < WindowOf(front).z
    BY DEF FrontIsOnTop
  <2>2. PICK k \in DOMAIN windows : /\ windows[k].device = front
                                   /\ \A j \in DOMAIN windows : j # k => windows[j].z < windows[k].z
    BY <1>1, <2>1 DEF FrontAbove, Above
  <2>3. WindowOf(front) = windows[k]
    BY <1>1, <2>2 DEF WindowOf, OneEach
  <2>4. QED
    BY <2>1, <2>2, <2>3
<1>4. InView
  BY <1>1 DEF InView, AllPlaced, Placed
<1>5. QED
  BY <1>1, <1>2, <1>3, <1>4 DEF WindowsAreSound

\* The inductive invariant of the live views and the monitoring page.
ViewsInv == ViewsTypeOK /\ WindowsInv /\ PageInv

\* It holds throughout.
LEMMA ViewsInvariant == ViewsSpec => []ViewsInv
<1>1. ViewsInit => ViewsInv
  BY ViewsStart, PageStart DEF ViewsInv
<1>2. ViewsInv /\ [ViewsNext]_viewsVars => ViewsInv'
  BY WindowsStep, ControlStep, PageStep, ViewsTypes DEF ViewsInv
<1>3. QED
  BY <1>1, <1>2, PTL DEF ViewsSpec

\* Whichever operations on the windows come together - opened one by one, by a batch, focused,
\* dragged, resized, minimized, closed - a device has one window, there are no more than
\* streams, the one used last is on top, and each keeps within the browser it was placed in.
THEOREM LiveWindowsSound == ViewsSpec => []WindowsAreSound
<1>1. ViewsInv => WindowsAreSound
  BY WindowsSound DEF ViewsInv
<1>2. QED
  BY <1>1, ViewsInvariant, PTL

\* The monitoring page shows the room of its address, and its badge the state of the present
\* socket, though loads are answered and sockets close long after the room was left.
THEOREM PageOfItsRoom == ViewsSpec => []PageIsOfItsRoom
<1>1. ViewsInv => PageIsOfItsRoom
  BY DEF ViewsInv, PageInv, ShowsRoom, BadgeOfSocket, PageIsOfItsRoom, ShowsItsRoom, BadgeIsTrue
<1>2. QED
  BY <1>1, ViewsInvariant, PTL
=============================================================================
