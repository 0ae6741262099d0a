----------------------------- MODULE StageBarrier -----------------------------
(***************************************************************************)
(* How the headsets of a room go from stage to stage together               *)
(* (sockets/player.go, move.go and the cases of Run in room.go).            *)
(*                                                                          *)
(* The reader of a connection that is told ready_to_move or wait_to_sync    *)
(* writes its own Player and then looks at all players of the room, one     *)
(* after the other and with no lock, while the other readers and Run write  *)
(* them.  If all are there it hands a command to Run, which gives it to     *)
(* every player.  Nobody looks again: not when a player leaves or joins,    *)
(* not when a heartbeat reports a stage.                                    *)
(*                                                                          *)
(* A write of a reader may stay in the store buffer of its processor while  *)
(* the reader already reads the others; it is visible to them at the latest *)
(* when the reader blocks (on a channel or on its socket).                  *)
(***************************************************************************)
EXTENDS Naturals, FiniteSets

CONSTANTS
    Guest,        \* the connections, each with its headset
    TopStage,     \* bound: the last stage at which headsets wait for each other
    MaxForced     \* bound: movements forced by the operator among headsets of one stage

ASSUME BarrierAssumption == TopStage \in Nat \ {0} /\ MaxForced \in Nat

VARIABLES
    present,   \* Room.Players
    gone,      \* connections that have left
    stage,     \* Player.Stage
    ready,     \* Player.ReadyToMove
    checker,   \* where the reader of a connection stands
    hidden,    \* readers whose write of stage and ready the others do not see yet
    giving,    \* the command Run is giving out
    spot,      \* the stage a headset is at
    wish,      \* what it waits for
    said,      \* its last message that no reader has taken
    told,      \* the movement it has been sent and has not made
    odd,       \* guests that joined during a check or were forced
    unsure,    \* since the last movement of all something happened after which
               \* nobody looks again
    bound      \* bound: the last stage, and the forced movements that are left

guestVars == <<present, gone, odd>>
playerVars == <<stage, ready, checker, hidden>>
headsetVars == <<spot, wish, said, told>>
barrierVars == <<guestVars, playerVars, headsetVars, giving, unsure, bound>>

Kind == {"move", "sync"}
Spot == 0..(TopStage + 1)

Nothing == [kind |-> "none", stage |-> 0]
Idle == [kind |-> "none", from |-> 0, posts |-> FALSE, unread |-> {}]
NoCommand == [kind |-> "none", dest |-> 0, force |-> FALSE, todo |-> {}]
NoMove == [dest |-> 0, force |-> FALSE]

BarrierTypeOK ==
    /\ present \subseteq Guest /\ gone \subseteq Guest /\ odd \subseteq Guest
    /\ stage \in [Guest -> Spot] /\ ready \in [Guest -> BOOLEAN]
    /\ checker \in [Guest -> [kind : Kind \cup {"none"}, from : Spot, posts : BOOLEAN,
                              unread : SUBSET Guest]]
    /\ hidden \subseteq {g \in Guest : checker[g].kind = "move"}
    /\ giving \in [kind : Kind \cup {"none"}, dest : Spot, force : BOOLEAN,
                   todo : SUBSET Guest]
    /\ spot \in [Guest -> Spot] /\ wish \in [Guest -> Kind \cup {"none"}]
    /\ said \in [Guest -> [kind : Kind \cup {"none"}, stage : Spot]]
    /\ told \in [Guest -> [dest : Spot, force : BOOLEAN]]
    /\ unsure \in BOOLEAN
    /\ bound \in [top : {1, TopStage}, forced : 0..MaxForced]

StillBarrier ==
    /\ present = {} /\ gone = {} /\ odd = {}
    /\ stage = [g \in Guest |-> 0] /\ ready = [g \in Guest |-> FALSE]
    /\ checker = [g \in Guest |-> Idle] /\ hidden = {}
    /\ giving = NoCommand
    /\ spot = [g \in Guest |-> 1] /\ wish = [g \in Guest |-> "none"]
    /\ said = [g \in Guest |-> Nothing] /\ told = [g \in Guest |-> NoMove]
    /\ unsure = FALSE

BarrierInit ==
    /\ StillBarrier
    /\ bound \in {[top |-> TopStage, forced |-> 0], [top |-> 1, forced |-> MaxForced]}

\* A room where nothing happens.
BarrierClosed == StillBarrier /\ bound = [top |-> 1, forced |-> 0]

Busy(g) == checker[g].kind # "none"

-----------------------------------------------------------------------------
(* The headsets. *)

\* A headset says once that it is ready to leave its stage, or that it waits
\* there for the others.
Says(g, k) ==
    /\ g \notin gone /\ spot[g] \in 1..bound.top
    /\ wish[g] = "none" /\ said[g] = Nothing
    /\ wish' = [wish EXCEPT ![g] = k]
    /\ said' = [said EXCEPT ![g] = [kind |-> k, stage |-> spot[g]]]
    /\ UNCHANGED <<guestVars, playerVars, giving, spot, told, unsure, bound>>

\* It goes where it is told to, unless it is there or beyond already; a forced
\* movement it makes in any case.
Moves(g) ==
    /\ g \notin gone /\ told[g] # NoMove
    /\ told' = [told EXCEPT ![g] = NoMove]
    /\ IF told[g].force \/ told[g].dest > spot[g]
       THEN spot' = [spot EXCEPT ![g] = told[g].dest] /\ wish' = [wish EXCEPT ![g] = "none"]
       ELSE UNCHANGED <<spot, wish>>
    /\ UNCHANGED <<guestVars, playerVars, giving, said, unsure, bound>>

-----------------------------------------------------------------------------
(* The reader of a connection. *)

\* A heartbeat reports the stage.
Heartbeat(g) ==
    /\ g \notin gone /\ ~Busy(g) /\ said[g] = Nothing /\ stage[g] # spot[g]
    /\ stage' = [stage EXCEPT ![g] = spot[g]]
    /\ UNCHANGED <<guestVars, ready, checker, hidden, headsetVars, giving, unsure, bound>>

\* A reader takes a message and begins to go through the players.
Begins(g, k) ==
    /\ ~Busy(g) /\ said[g].kind = k
    /\ said' = [said EXCEPT ![g] = Nothing]
    /\ checker' = [checker EXCEPT ![g] = [kind |-> k, from |-> said[g].stage,
                                          posts |-> FALSE, unread |-> present]]
    /\ UNCHANGED <<guestVars, stage, ready, spot, wish, told, giving, unsure, bound>>

\* ready_to_move sets Stage and ReadyToMove, wait_to_sync neither; then
\* MovementCheck or SyncCheck goes through the players.
TakesReady(g) == Begins(g, "move") /\ hidden' = hidden \cup {g}
TakesWait(g) == Begins(g, "sync") /\ UNCHANGED hidden

\* What the reader of g reads of q: of its own player always what it wrote.
StageSeen(g, q) == IF q = g /\ g \in hidden THEN checker[g].from ELSE stage[q]
ReadySeen(g, q) == IF q = g /\ g \in hidden THEN checker[g].from > 0 ELSE ready[q]

\* (mutant) a player that is beyond the stage must be ready, too
ThereOrReadyHere(g, q) == ReadySeen(g, q) /\ StageSeen(g, q) = checker[g].from

\* (mutant) a player at the stage need not be ready
ThereWhateverReady(g, q) == StageSeen(g, q) >= checker[g].from

There(g, q) ==
    IF checker[g].kind = "sync"
    THEN StageSeen(g, q) >= checker[g].from
    ELSE \/ StageSeen(g, q) > checker[g].from
         \/ ReadySeen(g, q) /\ StageSeen(g, q) = checker[g].from

\* The others see the write of the reader of g.
Published(g) ==
    IF g \in hidden
    THEN /\ stage' = [stage EXCEPT ![g] = checker[g].from]
         /\ ready' = [ready EXCEPT ![g] = checker[g].from > 0]
         /\ hidden' = hidden \ {g}
    ELSE UNCHANGED <<stage, ready, hidden>>

Publish(g) ==
    /\ g \in hidden
    /\ Published(g)
    /\ UNCHANGED <<guestVars, checker, headsetVars, giving, unsure, bound>>

Unread(g) == checker[g].unread \cap present

\* One player after the other is looked at and found there ...
Passes(g, q) ==
    /\ Busy(g) /\ ~checker[g].posts /\ q \in Unread(g) /\ There(g, q)
    /\ checker' = [checker EXCEPT ![g].unread = @ \ {q}]
    /\ UNCHANGED <<guestVars, stage, ready, hidden, headsetVars, giving, unsure, bound>>

\* ... until one is not, for which the reader gives up for good.
GivesUp(g, q) ==
    /\ Busy(g) /\ ~checker[g].posts /\ q \in Unread(g) /\ ~There(g, q)
    /\ Published(g)
    /\ checker' = [checker EXCEPT ![g] = Idle]
    /\ unsure' = (unsure \/ q \in hidden
                         \/ (stage[q] <= checker[g].from
                             /\ (spot[q] > stage[q] \/ told[q].dest > stage[q])))
    /\ UNCHANGED <<guestVars, headsetVars, giving, bound>>

\* An empty room (the player itself may not be registered yet).
FindsNobody(g) ==
    /\ Busy(g) /\ ~checker[g].posts /\ checker[g].unread = {} /\ present = {}
    /\ Published(g)
    /\ checker' = [checker EXCEPT ![g] = Idle]
    /\ UNCHANGED <<guestVars, headsetVars, giving, unsure, bound>>

\* All were there: the reader waits for Run on MoveControl or SyncControl.
Posts(g) ==
    /\ Busy(g) /\ ~checker[g].posts /\ Unread(g) = {} /\ present # {}
    /\ Published(g)
    /\ checker' = [checker EXCEPT ![g].posts = TRUE]
    /\ UNCHANGED <<guestVars, headsetVars, giving, unsure, bound>>

-----------------------------------------------------------------------------
(* Run. *)

Selects == giving = NoCommand

\* A registration.  A loop over the players that is under way may see the new
\* one or not.
Joins(g) ==
    /\ Selects /\ g \notin present \cup gone
    /\ present' = present \cup {g}
    /\ \E S \in SUBSET {c \in Guest : Busy(c) /\ ~checker[c].posts} :
          checker' = [c \in Guest |-> IF c \in S THEN [checker[c] EXCEPT !.unread = @ \cup {g}]
                                      ELSE checker[c]]
    /\ odd' = IF \E c \in Guest : checker[c].kind = "move" THEN odd \cup {g} ELSE odd
    /\ unsure' = (unsure \/ (wish[g] # "none" /\ said[g] = Nothing))
    /\ UNCHANGED <<gone, stage, ready, hidden, headsetVars, giving, bound>>

Leaves(g) ==
    /\ Selects /\ g \in present
    /\ present' = present \ {g} /\ gone' = gone \cup {g}
    /\ unsure' = TRUE
    /\ spot' = [spot EXCEPT ![g] = 1] /\ wish' = [wish EXCEPT ![g] = "none"]
    /\ said' = [said EXCEPT ![g] = Nothing] /\ told' = [told EXCEPT ![g] = NoMove]
    /\ UNCHANGED <<odd, playerVars, giving, bound>>

Begun(command) == IF present = {} THEN NoCommand ELSE command

\* Run takes the command of a reader.  A movement that all will make ends what
\* they wait for.
Takes(g) ==
    /\ Selects /\ checker[g].posts
    /\ checker' = [checker EXCEPT ![g] = Idle]
    /\ giving' = Begun([kind |-> checker[g].kind, dest |-> checker[g].from + 1,
                        force |-> FALSE, todo |-> present])
    /\ unsure' = (unsure /\ ~(checker[g].kind = "move"
                              /\ \A q \in present : spot[q] <= checker[g].from))
    /\ UNCHANGED <<guestVars, stage, ready, hidden, headsetVars, bound>>

\* The movement a headset makes in the end if it is sent another one: an unforced
\* one never leads it back.
Then(old, d, force) ==
    [dest |-> IF force \/ d > old.dest THEN d ELSE old.dest, force |-> force \/ old.force]

Rest(q) == IF giving.todo = {q} THEN NoCommand ELSE [giving EXCEPT !.todo = @ \ {q}]

\* A movement to all: ReadyToMove is cleared and the command sent.  It is lost on
\* a player that has got there by an earlier one and is ready again.
GivesMove(q) ==
    /\ giving.kind = "move" /\ q \in giving.todo
    /\ giving' = Rest(q)
    /\ ready' = [ready EXCEPT ![q] = FALSE]
    /\ told' = [told EXCEPT ![q] = Then(@, giving.dest, giving.force)]
    /\ unsure' = (unsure \/ (wish[q] = "move" /\ spot[q] >= giving.dest))
    /\ UNCHANGED <<guestVars, stage, checker, hidden, spot, wish, said, bound>>

\* A sync command ends the wait of those who wait.
GivesSync(q) ==
    /\ giving.kind = "sync" /\ q \in giving.todo
    /\ giving' = Rest(q)
    /\ wish' = [wish EXCEPT ![q] = IF @ = "sync" THEN "none" ELSE @]
    /\ UNCHANGED <<guestVars, playerVars, spot, said, told, unsure, bound>>

\* ForceAllMove, and ForceMove, which leaves ReadyToMove alone.
ForceAll(d) ==
    /\ Selects /\ bound.forced > 0
    /\ bound' = [bound EXCEPT !.forced = @ - 1]
    /\ giving' = Begun([kind |-> "move", dest |-> d, force |-> TRUE, todo |-> present])
    /\ odd' = Guest /\ unsure' = TRUE
    /\ UNCHANGED <<present, gone, playerVars, headsetVars>>

ForceOne(q, d) ==
    /\ Selects /\ bound.forced > 0 /\ q \in present
    /\ bound' = [bound EXCEPT !.forced = @ - 1]
    /\ told' = [told EXCEPT ![q] = Then(@, d, TRUE)]
    /\ odd' = odd \cup {q} /\ unsure' = TRUE
    /\ UNCHANGED <<present, gone, playerVars, spot, wish, said, giving>>

BarrierNext ==
    \/ \E g \in Guest :
          \/ \E k \in Kind : Says(g, k)
          \/ Moves(g) \/ Heartbeat(g) \/ TakesReady(g) \/ TakesWait(g) \/ Publish(g)
          \/ FindsNobody(g) \/ Posts(g)
          \/ Joins(g) \/ Leaves(g) \/ Takes(g) \/ GivesMove(g) \/ GivesSync(g)
          \/ \E q \in Guest : Passes(g, q) \/ GivesUp(g, q)
          \/ \E d \in 1..(bound.top + 1) : ForceOne(g, d)
    \/ \E d \in 1..(bound.top + 1) : ForceAll(d)

BarrierSpec == BarrierInit /\ [][BarrierNext]_barrierVars

-----------------------------------------------------------------------------
(* What the players may count on. *)

\* Nothing is under way: all messages and commands have arrived.
AtRest ==
    /\ Selects /\ hidden = {}
    /\ \A g \in Guest : ~Busy(g)
    /\ \A g \in present : said[g] = Nothing /\ told[g] = NoMove /\ stage[g] = spot[g]

\* All players are beyond the stage of g or wait there for the same thing.
Complete(g) ==
    /\ wish[g] # "none"
    /\ \A q \in present : spot[q] > spot[g] \/ (spot[q] = spot[g] /\ wish[q] = wish[g])

\* Where all wait for each other the command to go on has been given, whatever the
\* order in which their readers look at each other: at rest nobody waits at a
\* complete barrier, except after one of the events that MovementCheck and
\* SyncCheck are not repeated for.
StagesOpen == AtRest /\ ~unsure => \A g \in present : ~Complete(g)

\* What the headsets may count on at every moment.
BarrierIsSound == BarrierTypeOK /\ StagesOpen

\* Nobody is taken from a stage it did not say it was ready to leave, unless it
\* joined while the others were being looked at or the operator forced somebody.
MovedOnlyWhenReady ==
    [][\A g \in Guest : spot'[g] > spot[g] /\ ~told[g].force
          => wish[g] = "move" \/ g \in odd]_barrierVars
=============================================================================
