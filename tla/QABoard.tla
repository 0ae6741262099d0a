------------------------------- MODULE QABoard -------------------------------
(***************************************************************************)
(* The answers of a room (sockets/qa.go, statuschk.go, UpdateInfo and       *)
(* flushQAData in room.go).                                                 *)
(*                                                                          *)
(* The readers store answers in the room and mark it dirty; UpdateInfo, at  *)
(* its next tick, tells all players the answers to the current question and *)
(* then takes the mark off; Run and the HTTP handlers that start and end an *)
(* activity empty the board.  None of them holds a lock.  A map that two    *)
(* goroutines use at the same instant, which stops the process, is left     *)
(* out, and so is QuestionLocked, which nothing ever sets.                  *)
(***************************************************************************)
EXTENDS Naturals

CONSTANTS
    Participant, Question, Choice,
    NoQuestion, NoChoice,
    MaxAnswers, MaxSnapshots,    \* bounds: answers given, snapshots asked for,
    MaxChanges                   \* and activities started or ended

ASSUME BoardAssumption ==
    /\ NoQuestion \notin Question /\ NoChoice \notin Choice
    /\ MaxAnswers \in Nat \ {0} /\ MaxSnapshots \in Nat /\ MaxChanges \in Nat

VARIABLES
    seated,     \* Room.Players
    answers,    \* Room.Answers
    current,    \* Room.currentQID
    dirty,      \* Room.isDirty
    playing,    \* Room.HasRunningActivity
    answerer,   \* the reader of a participant in ComposeQAResult: question and step
    teller,     \* UpdateInfo: the message it gives out, and to whom it still has to
    emptying,   \* calls of flushQAData that have taken the answers and not yet the mark
    heard,      \* what a participant was told last about a question
    newcomer,   \* participants that joined since a question was told
    mixed,      \* questions answered while the board was told, emptied or
                \* answered elsewhere
    waitSnap,   \* Player.WaitSnapShot
    snapper,    \* the reader of a participant in CheckSnapShot
    asked,      \* participants that asked for a snapshot since the last one
    crossed,    \* two checks, or a check and a registration, were under way together
    left        \* bounds: what is left of the three

askVars == <<waitSnap, snapper, asked, crossed>>
qaVars == <<answers, current, dirty, answerer, teller, emptying, heard, mixed>>
boardVars == <<seated, playing, newcomer, qaVars, askVars, left>>

NoAnswers == [p \in Participant |-> NoChoice]
Sheet == [Participant -> Choice \cup {NoChoice}]
Silent == [question |-> NoQuestion, sheet |-> NoAnswers, todo |-> {}]
NoReader == [step |-> "none", question |-> NoQuestion]
NoCheck == [step |-> "none", todo |-> {}]

\* flushQAData is called by Run and by the handlers that start and end an activity.
Caller == {"run", "start", "end"}

BoardTypeOK ==
    /\ seated \subseteq Participant /\ newcomer \subseteq Participant \X Question
    /\ answers \in [Question -> Sheet] /\ heard \in [Participant -> [Question -> Sheet]]
    /\ current \in Question \cup {NoQuestion} /\ mixed \subseteq Question
    /\ dirty \in BOOLEAN /\ playing \in BOOLEAN
    /\ emptying \subseteq Caller
    /\ answerer \in [Participant -> [step : {"none", "stored", "marked"},
                                     question : Question \cup {NoQuestion}]]
    /\ teller \in [question : Question \cup {NoQuestion}, sheet : Sheet,
                   todo : SUBSET Participant]
    /\ waitSnap \in [Participant -> BOOLEAN] /\ asked \subseteq Participant
    /\ snapper \in [Participant -> [step : {"none", "reads", "resets", "posts"},
                                    todo : SUBSET Participant]]
    /\ crossed \in BOOLEAN
    /\ left \in [answers : 0..MaxAnswers, snaps : 0..MaxSnapshots,
                changes : 0..MaxChanges]

\* A room whose board is empty: open, or where nothing happens.
EmptyBoard ==
    /\ answers = [q \in Question |-> NoAnswers] /\ current = NoQuestion /\ dirty = FALSE
    /\ answerer = [p \in Participant |-> NoReader] /\ teller = Silent /\ emptying = {}
    /\ heard = [p \in Participant |-> [q \in Question |-> NoAnswers]]
    /\ newcomer = {} /\ mixed = {}
    /\ waitSnap = [p \in Participant |-> FALSE]
    /\ snapper = [p \in Participant |-> NoCheck] /\ asked = {} /\ crossed = FALSE

BoardInit ==
    /\ EmptyBoard
    /\ seated \in SUBSET Participant /\ playing \in BOOLEAN
    /\ left \in {[answers |-> MaxAnswers, snaps |-> 0, changes |-> 0],
                 [answers |-> 1, snaps |-> MaxSnapshots, changes |-> 0],
                 [answers |-> 1, snaps |-> 0, changes |-> MaxChanges]}

BoardClosed ==
    /\ EmptyBoard /\ seated = {} /\ playing = FALSE
    /\ left = [answers |-> 0, snaps |-> 0, changes |-> 0]

Telling == teller.question # NoQuestion
Answering(p) == answerer[p].step # "none"

-----------------------------------------------------------------------------
(* ComposeQAResult. *)

\* Questions that cannot be relied on to be told when q is answered now.
Mixes(q) ==
    LET others == {answerer[p].question : p \in {r \in Participant : Answering(r)}} \ {q}
    IN  others \cup (IF Telling \/ emptying # {} \/ others # {} THEN {q} ELSE {})

Stores(p, q, c) ==
    /\ p \in seated /\ ~Answering(p) /\ left.answers > 0
    /\ left' = [left EXCEPT !.answers = @ - 1]
    /\ answers' = [answers EXCEPT ![q][p] = c]
    /\ answerer' = [answerer EXCEPT ![p] = [step |-> "stored", question |-> q]]
    /\ mixed' = mixed \cup Mixes(q)
    /\ UNCHANGED <<seated, playing, newcomer, current, dirty, teller, emptying, heard, askVars>>

Marks(p) ==
    /\ answerer[p].step = "stored"
    /\ dirty' = TRUE
    /\ answerer' = [answerer EXCEPT ![p].step = "marked"]
    /\ UNCHANGED <<seated, playing, newcomer, answers, current, teller, emptying, heard,
                   mixed, askVars, left>>

\* A question left before its last answer was told is told no more.
SetsCurrent(p) ==
    /\ answerer[p].step = "marked"
    /\ current' = answerer[p].question
    /\ mixed' = IF current # NoQuestion /\ current # current' THEN mixed \cup {current} ELSE mixed
    /\ answerer' = [answerer EXCEPT ![p] = NoReader]
    /\ UNCHANGED <<seated, playing, newcomer, answers, dirty, teller, emptying, heard,
                   askVars, left>>

-----------------------------------------------------------------------------
(* UpdateInfo, which runs while there are players. *)

Composes ==
    /\ ~Telling /\ seated # {} /\ dirty /\ current # NoQuestion
    /\ teller' = [question |-> current, sheet |-> answers[current], todo |-> seated]
    /\ newcomer' = newcomer \ (seated \X {current})
    /\ mixed' = (mixed \ {current})
                \cup {answerer[p].question : p \in {r \in Participant : Answering(r)}}
                \cup (IF emptying # {} THEN {current} ELSE {})
    /\ UNCHANGED <<seated, playing, answers, current, dirty, answerer, emptying, heard,
                   askVars, left>>

Tells(p) ==
    /\ Telling /\ p \in teller.todo \cap seated
    /\ heard' = [heard EXCEPT ![p][teller.question] = teller.sheet]
    /\ teller' = [teller EXCEPT !.todo = @ \ {p}]
    /\ UNCHANGED <<seated, playing, newcomer, answers, current, dirty, answerer, emptying,
                   mixed, askVars, left>>

\* (mutant) the mark is taken off before all players are told
TakesMarkOffEarly ==
    /\ Telling
    /\ dirty' = FALSE /\ teller' = Silent
    /\ UNCHANGED <<seated, playing, newcomer, answers, current, answerer, emptying, heard,
                   mixed, askVars, left>>

TakesMarkOff ==
    /\ Telling /\ teller.todo \cap seated = {}
    /\ dirty' = FALSE /\ teller' = Silent
    /\ UNCHANGED <<seated, playing, newcomer, answers, current, answerer, emptying, heard,
                   mixed, askVars, left>>

-----------------------------------------------------------------------------
(* flushQAData. *)

Midway == {answerer[p].question : p \in {r \in Participant : Answering(r)}}

\* First the answers are replaced ...
Emptied(caller) ==
    /\ answers' = [q \in Question |-> NoAnswers]
    /\ emptying' = emptying \cup {caller}
    /\ mixed' = mixed \cup Midway
    /\ UNCHANGED <<current, dirty, answerer, teller, heard>>

\* ... then the current question and the mark; an activity starts after that.
FlushEnds(caller) ==
    /\ caller \in emptying
    /\ emptying' = emptying \ {caller} /\ current' = NoQuestion /\ dirty' = FALSE
    /\ playing' = (playing \/ caller = "start")
    /\ mixed' = mixed \cup Midway
    /\ UNCHANGED <<seated, newcomer, answers, answerer, teller, heard, askVars, left>>

ActivityStarts ==
    /\ emptying \subseteq {"run"} /\ ~playing /\ left.changes > 0
    /\ left' = [left EXCEPT !.changes = @ - 1]
    /\ Emptied("start")
    /\ UNCHANGED <<seated, playing, newcomer, askVars>>

ActivityEnds ==
    /\ emptying \subseteq {"run"} /\ playing /\ left.changes > 0
    /\ left' = [left EXCEPT !.changes = @ - 1]
    /\ playing' = FALSE
    /\ Emptied("end")
    /\ UNCHANGED <<seated, newcomer, askVars>>

\* Run takes a registration; before, it has stopped the UpdateInfo of an emptied
\* room.
Sits(p) ==
    /\ p \notin seated /\ "run" \notin emptying
    /\ seated = {} => ~Telling
    /\ seated' = seated \cup {p}
    /\ newcomer' = newcomer \cup ({p} \X Question)
    /\ crossed' = (crossed \/ \E r \in Participant : snapper[r].step # "none")
    /\ UNCHANGED <<playing, qaVars, waitSnap, snapper, asked, left>>

\* The last one to leave empties the board, unless an activity runs.
LeavesSeat(p) ==
    /\ p \in seated /\ "run" \notin emptying /\ ~Answering(p) /\ snapper[p].step = "none"
    /\ seated' = seated \ {p}
    /\ waitSnap' = [waitSnap EXCEPT ![p] = FALSE] /\ asked' = asked \ {p}
    /\ IF seated = {p} /\ ~playing THEN Emptied("run") ELSE UNCHANGED qaVars
    /\ UNCHANGED <<playing, newcomer, snapper, crossed, left>>

-----------------------------------------------------------------------------
(* Snapshots. *)

\* play_status "snapshot": the reader sets its flag and looks at all flags.
AsksSnapshot(p) ==
    /\ p \in seated /\ snapper[p].step = "none" /\ ~Answering(p) /\ left.snaps > 0
    /\ left' = [left EXCEPT !.snaps = @ - 1]
    /\ waitSnap' = [waitSnap EXCEPT ![p] = TRUE]
    /\ asked' = asked \cup {p}
    /\ snapper' = [snapper EXCEPT ![p] = [step |-> "reads", todo |-> seated]]
    /\ crossed' = (crossed \/ \E r \in Participant : snapper[r].step # "none")
    /\ UNCHANGED <<seated, playing, newcomer, qaVars>>

\* (mutant) the flags are not reset once all are found set
SeesAllKept(p) ==
    /\ snapper[p].step = "reads"
    /\ \A r \in snapper[p].todo \cap seated : waitSnap[r]
    /\ snapper' = [snapper EXCEPT ![p] = [step |-> "posts", todo |-> {}]]
    /\ UNCHANGED <<seated, playing, newcomer, qaVars, waitSnap, asked, crossed, left>>

SeesAll(p) ==
    /\ snapper[p].step = "reads"
    /\ \A r \in snapper[p].todo \cap seated : waitSnap[r]
    /\ snapper' = [snapper EXCEPT ![p] = [step |-> "resets", todo |-> seated]]
    /\ UNCHANGED <<seated, playing, newcomer, qaVars, waitSnap, asked, crossed, left>>

MissesOne(p) ==
    /\ snapper[p].step = "reads"
    /\ \E r \in snapper[p].todo \cap seated : ~waitSnap[r]
    /\ snapper' = [snapper EXCEPT ![p] = NoCheck]
    /\ UNCHANGED <<seated, playing, newcomer, qaVars, waitSnap, asked, crossed, left>>

\* All flags are reset, one by one; then the reader waits for Run.
ResetsFlag(p, r) ==
    /\ snapper[p].step = "resets" /\ r \in snapper[p].todo
    /\ waitSnap' = [waitSnap EXCEPT ![r] = FALSE]
    /\ snapper' = [snapper EXCEPT ![p] =
                     IF @.todo = {r} THEN [step |-> "posts", todo |-> {}]
                     ELSE [step |-> "resets", todo |-> @.todo \ {r}]]
    /\ UNCHANGED <<seated, playing, newcomer, qaVars, asked, crossed, left>>

\* Run acknowledges the snapshot: outside an activity the board is emptied.
SnapshotTaken(p) ==
    /\ snapper[p].step = "posts" /\ "run" \notin emptying
    /\ snapper' = [snapper EXCEPT ![p] = NoCheck]
    /\ asked' = {}
    /\ IF playing THEN UNCHANGED qaVars ELSE Emptied("run")
    /\ UNCHANGED <<seated, playing, newcomer, waitSnap, crossed, left>>

BoardNext ==
    \/ \E p \in Participant :
          \/ \E q \in Question, c \in Choice : Stores(p, q, c)
          \/ Marks(p) \/ SetsCurrent(p) \/ Tells(p) \/ Sits(p) \/ LeavesSeat(p)
          \/ AsksSnapshot(p) \/ SeesAll(p) \/ MissesOne(p) \/ SnapshotTaken(p)
          \/ \E r \in Participant : ResetsFlag(p, r)
    \/ Composes \/ TakesMarkOff \/ ActivityStarts \/ ActivityEnds
    \/ \E caller \in Caller : FlushEnds(caller)

BoardSpec == BoardInit /\ [][BoardNext]_boardVars

-----------------------------------------------------------------------------
(* What the participants may count on. *)

\* When the mark is off and nothing is under way, all who were there have been told
\* all answers to every question answered since the board was emptied, except to
\* a question that was answered while UpdateInfo was telling, the board was being
\* emptied or another question became the current one.
AnswersAreShown ==
    ~dirty /\ ~Telling /\ emptying = {} /\ (\A p \in Participant : ~Answering(p)) =>
        \A q \in Question \ mixed : answers[q] # NoAnswers =>
            \A p \in seated : <<p, q>> \in newcomer \/ heard[p][q] = answers[q]

\* What the participants are shown.
BoardIsSound == BoardTypeOK /\ AnswersAreShown

\* A snapshot is taken only when every participant of the room has asked for one
\* since the last, unless two readers were checking at the same time or somebody
\* sat down during a check.
SnapshotNeedsAll ==
    [][\A p \in Participant : snapper[p].step = "posts" /\ snapper'[p].step = "none"
          => seated \subseteq asked \/ crossed]_boardVars
=============================================================================
