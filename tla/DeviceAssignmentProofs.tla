------------------------ MODULE DeviceAssignmentProofs ------------------------
(***************************************************************************)
(* Proofs about DeviceAssignment for any rooms, any number of handlers       *)
(* allowed at a time and any number of failing requests.                     *)
(***************************************************************************)
EXTENDS DeviceAssignment, TLAPS

\* While it is clear where the device should be, one handler is under way at most.
OneIsBusy == \A g, h \in Handler : Busy(g) /\ Busy(h) => g = h

\* What the handler still has to do takes the device there.  One that only takes it
\* out of a room takes it out of the room it is in.
LeadsThere(j) ==
    /\ j.stage \in {"remove", "add"} => j.to = wish
    /\ j.stage = "remove" /\ j.to = NoRoom => j.from = owner
    /\ j.stage = "load" => owner = wish

ClearInv ==
    wish # Unclear =>
        /\ OneIsBusy
        /\ \A h \in Handler : LeadsThere(job[h])
        /\ Quiet => owner = wish

IInv == TypeOK /\ ClearInv

\* The device is where it should be, or where nobody can say, when a page is opened.
LEMMA InitInv == Init => IInv
<1> SUFFICES ASSUME Init PROVE IInv
  OBVIOUS
<1>1. failures \in 0..MaxFailures
  BY AssignmentAssumption DEF Init
<1>2. TypeOK
  BY <1>1 DEF Init, TypeOK, Idle, Job, Stage, Place
<1>3. QED
  BY <1>2 DEF Init, IInv, ClearInv, OneIsBusy, LeadsThere, Busy, Quiet, Idle, Job

\* A handler's state is one of these.
Jobs == [stage : Stage, from : Place, to : Place]

\* What the states of a handler are made of.
LEMMA JobParts ==
    ASSUME NEW s \in Stage, NEW from \in Place, NEW to \in Place
    PROVE  /\ Job(s, from, to) \in Jobs
           /\ Job(s, from, to).stage = s /\ Job(s, from, to).from = from /\ Job(s, from, to).to = to
BY DEF Job, Jobs

\* A handler that begins with a clear wish leads there: it is alone, and is not misled.
LEMMA Begins ==
    ASSUME TypeOK, NEW h \in Handler, NEW from \in Place, NEW to \in Place,
           \A g \in Handler : g # h => ~Busy(g),
           ~Misled(from, to), wish' = to,
           NEW j, j = Moving(from, to) \/ (from = to /\ j = Loading),
           job' = [job EXCEPT ![h] = j], owner' = owner
    PROVE  ClearInv'
<1>1. NoRoom \in Place /\ {"idle", "load", "add", "remove"} \subseteq Stage /\ Handler # {}
  BY DEF Place, Stage, Handler
<1>2. /\ j.stage \in {"remove", "add", "load"}
      /\ j.stage \in {"remove", "add"} => j.to = to
      /\ j.stage = "remove" => j.from = from
      /\ j.stage = "load" => from = to
  BY <1>1, JobParts DEF Moving, Loading, Adding
<1>3. job'[h] = j /\ \A g \in Handler : g # h => job'[g] = job[g]
  BY DEF TypeOK
<1>4. LeadsThere(j)'
  BY <1>2 DEF LeadsThere, Misled
<1>5. \A g \in Handler : LeadsThere(job[g])'
  BY <1>2, <1>3, <1>4 DEF LeadsThere, Busy
<1>6. OneIsBusy' /\ ~Quiet'
  BY <1>2, <1>3 DEF OneIsBusy, Quiet, Busy
<1>7. QED
  BY <1>5, <1>6 DEF ClearInv

\* Every handler's first step keeps the invariant.
LEMMA OperatorKeeps ==
    ASSUME IInv,
           \/ \E to \in Place : AssignRoom(to) \/ EditDraft(to)
           \/ DraftMade \/ UpdateFromIsolation \/ Patched \/ AddDevice \/ RemoveDevice
    PROVE  IInv'
<1>0. /\ NoRoom \in Place /\ ThisRoom \in Place /\ Unclear \notin Place /\ NoDraft \notin Place
      /\ {"patch", "remove", "add", "load", "idle"} \subseteq Stage
  BY AssignmentAssumption DEF Place, Stage
<1>j. /\ \A from \in Place, to \in Place : Moving(from, to) \in Jobs
      /\ Loading \in Jobs /\ job \in [Handler -> Jobs]
  BY <1>0, JobParts DEF Moving, Loading, Adding, IInv, TypeOK, Jobs
<1>1. ASSUME NEW to \in Place, AssignRoom(to) PROVE IInv'
  <2>1. PICK j : (j = Moving(row, to) \/ (row = to /\ j = Loading)) /\ job' = [job EXCEPT !["select"] = j]
    BY <1>1 DEF AssignRoom, Begin
  <2>2. TypeOK'
    BY <1>0, <1>1, <1>j, <2>1 DEF AssignRoom, WishOf, pageVars, IInv, TypeOK, Jobs, Handler
  <2>3. CASE wish' = Unclear
    BY <2>2, <2>3 DEF IInv, ClearInv
  <2>4. CASE wish' # Unclear
    <3>1. Quiet /\ ~Misled(row, to) /\ wish' = to /\ owner' = owner
      BY <1>1, <2>4 DEF AssignRoom, WishOf
    <3>2. ClearInv'
      BY <2>1, <3>1, Begins DEF IInv, TypeOK, Quiet, Handler
    <3>3. QED
      BY <2>2, <3>2 DEF IInv
  <2>5. QED
    BY <2>3, <2>4
<1>2. ASSUME NEW to \in Place, EditDraft(to) \/ DraftMade PROVE IInv'
  <2>1. UNCHANGED <<owner, row, loads, listed, roomRow, job, wish, failures>> /\ draft' \in Place /\ edited' \in BOOLEAN
    BY <1>2 DEF EditDraft, DraftMade, IInv, TypeOK
  <2>2. QED
    BY <2>1 DEF IInv, TypeOK, ClearInv, OneIsBusy, LeadsThere, Quiet, Busy
<1>3. CASE UpdateFromIsolation
  <2>1. draft \in Place
    BY <1>3 DEF UpdateFromIsolation, IInv, TypeOK
  <2>2. PICK j : j = Job("patch", NoRoom, draft)
    OBVIOUS
  <2>3. j \in Jobs /\ j.stage = "patch"
    BY <1>0, <2>1, <2>2, JobParts
  <2>4. job' = [job EXCEPT !["panel"] = j]
    BY <1>3, <2>2 DEF UpdateFromIsolation
  <2>5. TypeOK'
    BY <1>0, <1>3, <1>j, <2>1, <2>3, <2>4 DEF UpdateFromIsolation, pageVars, IInv, TypeOK, Jobs, Handler
  <2>6. CASE wish' = Unclear
    BY <2>5, <2>6 DEF IInv, ClearInv
  <2>7. CASE wish' # Unclear
    <3>1. Quiet /\ owner' = owner
      BY <1>3, <2>7 DEF UpdateFromIsolation
    <3>2. job'["panel"] = j /\ \A h \in Handler : h # "panel" => job'[h] = job[h]
      BY <1>j, <2>4 DEF Handler
    <3>3. \A h \in Handler : LeadsThere(job[h])'
      BY <2>3, <3>1, <3>2 DEF LeadsThere, Quiet, Busy
    <3>4. OneIsBusy' /\ ~Quiet'
      BY <2>3, <3>1, <3>2 DEF OneIsBusy, Quiet, Busy, Handler
    <3>5. QED
      BY <2>5, <3>3, <3>4 DEF IInv, ClearInv
  <2>8. QED
    BY <2>6, <2>7
<1>4. CASE Patched
  <2>1. PICK to \in Place : to = job["panel"].to /\ job["panel"].stage = "patch"
    BY <1>4, <1>j DEF Patched, Jobs, Handler
  <2>2. PICK j : (j = Moving(row, to) \/ (row = to /\ j = Loading)) /\ job' = [job EXCEPT !["panel"] = j]
    BY <1>4, <2>1 DEF Patched, Begin
  <2>3. TypeOK'
    BY <1>0, <1>4, <1>j, <2>1, <2>2 DEF Patched, pageVars, IInv, TypeOK, Jobs, Handler
  <2>4. CASE wish' = Unclear
    BY <2>3, <2>4 DEF IInv, ClearInv
  <2>5. CASE wish' # Unclear
    <3>1. wish' = to /\ wish = to /\ ~Misled(row, to) /\ owner' = owner
      BY <1>4, <2>1, <2>5 DEF Patched
    <3>2. Busy("panel") /\ wish # Unclear /\ "panel" \in Handler
      BY <2>1, <2>5, <3>1 DEF Busy, Handler
    <3>3. \A g \in Handler : g # "panel" => ~Busy(g)
      BY <3>2 DEF IInv, ClearInv, OneIsBusy
    <3>4. ClearInv'
      BY <2>2, <3>1, <3>2, <3>3, Begins DEF IInv, TypeOK
    <3>5. QED
      BY <2>3, <3>4 DEF IInv
  <2>6. QED
    BY <2>4, <2>5
<1>5. CASE AddDevice
  <2>1. PICK j : j = Moving(roomRow, ThisRoom)
    OBVIOUS
  <2>2. job' = [job EXCEPT !["room"] = j] /\ j \in Jobs
    BY <1>0, <1>5, <1>j, <2>1 DEF AddDevice, IInv, TypeOK
  <2>3. TypeOK'
    BY <1>0, <1>5, <1>j, <2>2 DEF AddDevice, WishOf, pageVars, IInv, TypeOK, Jobs, Handler
  <2>4. CASE wish' = Unclear
    BY <2>3, <2>4 DEF IInv, ClearInv
  <2>5. CASE wish' # Unclear
    <3>1. Quiet /\ ~Misled(roomRow, ThisRoom) /\ wish' = ThisRoom /\ owner' = owner
      BY <1>5, <2>5 DEF AddDevice, WishOf
    <3>2. ClearInv'
      BY <1>0, <2>1, <2>2, <3>1, Begins DEF IInv, TypeOK, Quiet, Handler
    <3>3. QED
      BY <2>3, <3>2 DEF IInv
  <2>6. QED
    BY <2>4, <2>5
<1>6. CASE RemoveDevice
  <2>1. PICK j : j = Moving(ThisRoom, NoRoom)
    OBVIOUS
  <2>2. job' = [job EXCEPT !["room"] = j] /\ j \in Jobs
    BY <1>0, <1>6, <1>j, <2>1 DEF RemoveDevice
  <2>3. TypeOK'
    BY <1>0, <1>6, <1>j, <2>2 DEF RemoveDevice, WishOf, pageVars, IInv, TypeOK, Jobs, Handler
  <2>4. CASE wish' = Unclear
    BY <2>3, <2>4 DEF IInv, ClearInv
  <2>5. CASE wish' # Unclear
    <3>1. Quiet /\ ~Misled(ThisRoom, NoRoom) /\ wish' = NoRoom /\ owner' = owner
      BY <1>6, <2>5 DEF RemoveDevice, WishOf
    <3>2. ClearInv'
      BY <1>0, <2>1, <2>2, <3>1, Begins DEF IInv, TypeOK, Quiet, Handler
    <3>3. QED
      BY <2>3, <3>2 DEF IInv
  <2>6. QED
    BY <2>4, <2>5
<1>7. QED
  BY <1>0, <1>1, <1>2, <1>3, <1>4, <1>5, <1>6

\* A request of the only handler under way, or its load, keeps the way it goes.
LEMMA RequestsKeep ==
    ASSUME IInv, NEW h \in Handler, Remove(h) \/ Add(h) \/ Load(h) \/ RequestFails(h)
    PROVE  IInv'
<1>0. /\ NoRoom \in Place /\ Unclear \notin Place
      /\ {"patch", "remove", "add", "load", "idle"} \subseteq Stage
  BY AssignmentAssumption DEF Place, Stage
<1>j. job \in [Handler -> Jobs] /\ job[h] \in Jobs /\ job[h].from \in Place /\ job[h].to \in Place
  BY DEF IInv, TypeOK, Jobs
<1>p. /\ Loading \in Jobs /\ Loading.stage = "load"
      /\ Idle \in Jobs /\ Idle.stage = "idle"
      /\ \A to \in Place : Adding(to) \in Jobs /\ Adding(to).stage = "add" /\ Adding(to).to = to
  BY <1>0, JobParts DEF Loading, Adding, Idle
<1>1. CASE RequestFails(h)
  <2>1. owner' \in Place
    BY <1>0, <1>1, <1>j DEF RequestFails, RemoveFrom, IInv, TypeOK
  <2>2. failures' \in 0..MaxFailures
    BY <1>1, AssignmentAssumption DEF RequestFails, IInv, TypeOK
  <2>3. QED
    BY <1>1, <1>j, <1>p, <2>1, <2>2 DEF RequestFails, pageVars, IInv, TypeOK, ClearInv, Jobs
<1>2. CASE Remove(h) \/ Add(h)
  <2>1. PICK j : /\ job' = [job EXCEPT ![h] = j]
                 /\ \/ /\ job[h].stage = "remove" /\ owner' = RemoveFrom(job[h].from)
                       /\ j = IF job[h].to = NoRoom THEN Loading ELSE Adding(job[h].to)
                    \/ /\ job[h].stage = "add" /\ owner' = job[h].to /\ j = Loading
    BY <1>2 DEF Remove, Add
  <2>2. UNCHANGED <<pageVars, loads, wish, failures>>
    BY <1>2 DEF Remove, Add
  <2>3. owner' \in Place /\ j \in Jobs /\ j.stage \in {"load", "add"}
    BY <1>0, <1>j, <1>p, <2>1 DEF RemoveFrom, IInv, TypeOK
  <2>4. TypeOK'
    BY <1>j, <2>1, <2>2, <2>3 DEF pageVars, IInv, TypeOK, Jobs
  <2>5. CASE wish # Unclear
    <3>1. Busy(h) /\ LeadsThere(job[h]) /\ \A g \in Handler : g # h => ~Busy(g)
      BY <2>1, <2>5 DEF IInv, ClearInv, OneIsBusy, Busy
    <3>2. LeadsThere(j)'
      BY <1>0, <1>j, <1>p, <2>1, <2>2, <3>1 DEF LeadsThere, RemoveFrom
    <3>3. job'[h] = j /\ \A g \in Handler : g # h => job'[g] = job[g]
      BY <1>j, <2>1
    <3>4. \A g \in Handler : LeadsThere(job[g])'
      BY <3>1, <3>2, <3>3 DEF LeadsThere, Busy
    <3>5. OneIsBusy' /\ ~Quiet'
      BY <2>3, <3>1, <3>3 DEF OneIsBusy, Quiet, Busy
    <3>6. QED
      BY <2>4, <3>4, <3>5 DEF IInv, ClearInv
  <2>6. QED
    BY <2>2, <2>4, <2>5 DEF IInv, ClearInv
<1>3. CASE Load(h)
  <2>1. /\ job' = [job EXCEPT ![h] = Idle] /\ job[h].stage = "load"
        /\ UNCHANGED <<owner, draft, edited, loads, wish, failures>>
        /\ row' \in Place /\ roomRow' \in Place /\ listed' \in BOOLEAN
    BY <1>3 DEF Load, IInv, TypeOK
  <2>2. TypeOK'
    BY <1>j, <1>p, <2>1 DEF IInv, TypeOK, Jobs
  <2>3. CASE wish # Unclear
    <3>1. owner = wish /\ \A g \in Handler : g # h => ~Busy(g)
      BY <2>1, <2>3 DEF IInv, ClearInv, OneIsBusy, Busy, LeadsThere
    <3>2. job'[h] = Idle /\ \A g \in Handler : g # h => job'[g] = job[g]
      BY <1>j, <2>1
    <3>3. \A g \in Handler : LeadsThere(job[g])' /\ ~Busy(g)'
      BY <1>p, <3>1, <3>2 DEF LeadsThere, Busy
    <3>4. QED
      BY <2>1, <2>2, <3>1, <3>3 DEF IInv, ClearInv, OneIsBusy
  <2>4. QED
    BY <2>1, <2>2, <2>3 DEF IInv, ClearInv
<1>4. QED
  BY <1>1, <1>2, <1>3

\* The device ends up where the operator has put it, for any rooms, handlers allowed at
\* a time and failing requests, and however stale the page was: unless a request has
\* failed, two handlers overlapped, or the page misled him about where the device is.
THEOREM EndsInItsPlace == Spec => []AssignmentIsSound
<1>1. IInv /\ [Next]_vars => IInv'
  <2> SUFFICES ASSUME IInv, [Next]_vars PROVE IInv'
    OBVIOUS
  <2>1. CASE Poll \/ \E r \in Place : PollShown(r)
    <3>1. /\ UNCHANGED <<owner, draft, edited, listed, roomRow, job, wish, failures>>
          /\ row' \in Place /\ loads' \subseteq Place
      BY <2>1 DEF Poll, PollShown, pageVars, IInv, TypeOK
    <3>2. QED
      BY <3>1 DEF IInv, TypeOK, ClearInv, OneIsBusy, LeadsThere, Quiet, Busy
  <2>2. CASE UNCHANGED vars
    BY <2>2 DEF vars, IInv, TypeOK, ClearInv, OneIsBusy, LeadsThere, Quiet, Busy
  <2>3. QED
    BY <2>1, <2>2, OperatorKeeps, RequestsKeep DEF Next
<1>2. IInv => AssignmentIsSound
  BY DEF IInv, ClearInv, AssignmentIsSound, EndsWhereAsked
<1>3. QED
  BY <1>1, <1>2, InitInv, PTL DEF Spec
=============================================================================
