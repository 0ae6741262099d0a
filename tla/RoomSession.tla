----------------------------- MODULE RoomSession -----------------------------
(***************************************************************************)
(* What the players of a room are told of its activity and its parameters   *)
(* (StartActivity, EndActivity, BroadcastConfig, refreshActivityParticipants*)
(* and the registration of sockets/room.go, SyncRoomFromStore of            *)
(* room_runtime_manager.go).                                                *)
(*                                                                          *)
(* Three goroutines send config and play_command to the players: Run to     *)
(* those it registers, the HTTP handler that starts and ends activities and *)
(* the one that brings new parameters.  They share the room without a lock, *)
(* and each message is built first and put into the player's queue then.    *)
(* Starts and ends come one after the other, as in ActivityFlow.            *)
(***************************************************************************)
EXTENDS Naturals

CONSTANTS
    Visitor,
    NoVisitor,
    MaxActivities, MaxParameters     \* bounds: activities started, changes of parameters

ASSUME SessionAssumption ==
    NoVisitor \notin Visitor /\ MaxActivities \in Nat /\ MaxParameters \in Nat

VARIABLES
    inside,      \* Room.Players
    activity,    \* Room.CurrentActivity, 0 for none
    parameters,  \* Room.Parameters
    counted,     \* CurrentActivity.Participants
    registrar,   \* Run in a registration
    handler,     \* the HTTP handler that starts or ends an activity
    syncer,      \* the HTTP handler that brings parameters
    config,      \* the last config a player was sent
    play,        \* the last play_command it was sent
    late,        \* what a player was sent last was built before a change
    miscounted,  \* a player was counted after it had left
    started      \* bound: activities started so far

sayVars == <<config, play, late>>
sessionVars == <<inside, activity, parameters, counted, registrar, handler, syncer, sayVars,
                 miscounted, started>>

Config == [activity : 0..MaxActivities, parameters : 0..MaxParameters]
NoConfig == [activity |-> MaxActivities + 1, parameters |-> 0]     \* nothing heard yet
Now == [activity |-> activity, parameters |-> parameters]

Resting == [step |-> "none", todo |-> {}, held |-> NoVisitor, built |-> NoConfig]

Goroutine(steps) ==
    [step : steps, todo : SUBSET Visitor, held : Visitor \cup {NoVisitor},
     built : Config \cup {NoConfig}]

SessionTypeOK ==
    /\ inside \subseteq Visitor /\ counted \subseteq Visitor
    /\ activity \in 0..MaxActivities /\ parameters \in 0..MaxParameters
    /\ registrar \in Goroutine({"none", "config", "running", "play"})
    /\ handler \in Goroutine({"none", "count", "start config", "start", "stop", "clear",
                              "end config"})
    /\ syncer \in Goroutine({"none", "config"})
    /\ config \in [Visitor -> Config \cup {NoConfig}]
    /\ play \in [Visitor -> {"none", "start", "stop"}]
    /\ late \subseteq Visitor \X {"config", "play"}
    /\ miscounted \in BOOLEAN /\ started \in 0..MaxActivities

SessionClosed ==
    /\ inside = {} /\ activity = 0 /\ parameters = 0 /\ counted = {}
    /\ registrar = Resting /\ handler = Resting /\ syncer = Resting
    /\ config = [v \in Visitor |-> NoConfig] /\ play = [v \in Visitor |-> "none"]
    /\ late = {} /\ miscounted = FALSE /\ started = 0

SessionInit == SessionClosed

-----------------------------------------------------------------------------
(* Sending. *)

\* A config is put into the queue of v: too late if the room has changed since
\* it was built.
SentConfig(v, built) ==
    /\ config' = [config EXCEPT ![v] = built]
    /\ late' = IF built = Now THEN late \ {<<v, "config">>} ELSE late \cup {<<v, "config">>}
    /\ UNCHANGED play

SentPlay(v, what) ==
    /\ play' = [play EXCEPT ![v] = what]
    /\ late' = late \ {<<v, "play">>}
    /\ UNCHANGED config

\* One player of a broadcast: the goroutine g builds the config for it ...
Builds(g, v) ==
    /\ g.held = NoVisitor /\ v \in g.todo \cap inside

Built(g, v) == [g EXCEPT !.todo = @ \ {v}, !.held = v, !.built = Now]
Freed(g) == [g EXCEPT !.held = NoVisitor, !.built = NoConfig]

\* ... and all of them have had it.
Over(g) == g.held = NoVisitor /\ g.todo \cap inside = {}

-----------------------------------------------------------------------------
(* Run. *)

\* refreshActivityParticipants, in Run: only while there is an activity.
Recounts(players) ==
    IF activity # 0 THEN counted' = players /\ miscounted' = FALSE
    ELSE UNCHANGED <<counted, miscounted>>

\* A registration.  A broadcast under way may reach the new player or not.
Enters(v) ==
    /\ registrar = Resting /\ v \notin inside
    /\ inside' = inside \cup {v}
    /\ Recounts(inside \cup {v})
    /\ registrar' = [Resting EXCEPT !.step = "config", !.todo = {v}]
    /\ \E seen \in SUBSET {v} :
          handler' = IF handler.step \in {"none", "clear"} THEN handler
                     ELSE [handler EXCEPT !.todo = @ \cup seen]
    /\ UNCHANGED <<activity, parameters, syncer, sayVars, started>>

\* The new player is sent the config, built before it is queued ...
RegistrarBuilds(v) ==
    /\ registrar.step = "config" /\ Builds(registrar, v)
    /\ registrar' = Built(registrar, v)
    /\ UNCHANGED <<inside, activity, parameters, counted, handler, syncer, sayVars, miscounted, started>>

RegistrarSends ==
    /\ registrar.step = "config" /\ registrar.held # NoVisitor
    /\ SentConfig(registrar.held, registrar.built)
    /\ registrar' = [registrar EXCEPT !.step = "running", !.built = NoConfig]
    /\ UNCHANGED <<inside, activity, parameters, counted, handler, syncer, miscounted, started>>

\* ... and, if there is an activity, the command to play.
RegistrarChecks ==
    /\ registrar.step = "running"
    /\ registrar' = IF activity # 0 THEN [registrar EXCEPT !.step = "play"] ELSE Resting
    /\ UNCHANGED <<inside, activity, parameters, counted, handler, syncer, sayVars, miscounted, started>>

\* It comes too late if the activity has ended, or is being ended.
RegistrarPlays ==
    /\ registrar.step = "play"
    /\ play' = [play EXCEPT ![registrar.held] = "start"]
    /\ late' = IF activity = 0 \/ handler.step \in {"stop", "clear"}
               THEN late \cup {<<registrar.held, "play">>} ELSE late
    /\ registrar' = Resting
    /\ UNCHANGED <<inside, activity, parameters, counted, handler, syncer, config, miscounted, started>>

\* An unregistration, or a player that is detached.
Exits(v) ==
    /\ registrar = Resting /\ v \in inside
    /\ inside' = inside \ {v}
    /\ Recounts(inside \ {v})
    /\ config' = [config EXCEPT ![v] = NoConfig] /\ play' = [play EXCEPT ![v] = "none"]
    /\ late' = late \ {<<v, "config">>, <<v, "play">>}
    /\ UNCHANGED <<activity, parameters, registrar, handler, syncer, started>>

-----------------------------------------------------------------------------
(* Activities. *)

\* StartActivity: the room has an activity, with nobody counted yet.
Starts ==
    /\ handler = Resting /\ activity = 0 /\ started < MaxActivities
    /\ started' = started + 1
    /\ activity' = started + 1 /\ counted' = {} /\ miscounted' = FALSE
    /\ handler' = [Resting EXCEPT !.step = "count", !.todo = inside]
    /\ UNCHANGED <<inside, parameters, registrar, syncer, sayVars>>

\* refreshActivityParticipants, in the handler: a player is read ...
CountReads(v) ==
    /\ handler.step = "count" /\ Builds(handler, v)
    /\ handler' = [handler EXCEPT !.todo = @ \ {v}, !.held = v]
    /\ UNCHANGED <<inside, activity, parameters, counted, registrar, syncer, sayVars, miscounted, started>>

\* ... and counted, in whatever map Run has put there meanwhile.
Counts ==
    /\ handler.step = "count" /\ handler.held # NoVisitor
    /\ counted' = counted \cup {handler.held}
    /\ miscounted' = (miscounted \/ handler.held \notin inside)
    /\ handler' = Freed(handler)
    /\ UNCHANGED <<inside, activity, parameters, registrar, syncer, sayVars, started>>

\* EndActivity begins with the command to stop.
Ends ==
    /\ handler = Resting /\ activity # 0
    /\ handler' = [Resting EXCEPT !.step = "stop", !.todo = inside]
    /\ UNCHANGED <<inside, activity, parameters, counted, registrar, syncer, sayVars, miscounted, started>>

\* (mutant) the players are not told that there is no activity any more
ClearsSilently ==
    /\ handler.step = "clear"
    /\ activity' = 0 /\ counted' = {} /\ miscounted' = FALSE
    /\ handler' = Resting
    /\ UNCHANGED <<inside, parameters, registrar, syncer, sayVars, started>>

\* The activity is taken out of the room and the config sent again.
Clears ==
    /\ handler.step = "clear"
    /\ activity' = 0 /\ counted' = {} /\ miscounted' = FALSE
    /\ handler' = [Resting EXCEPT !.step = "end config", !.todo = inside]
    /\ UNCHANGED <<inside, parameters, registrar, syncer, sayVars, started>>

\* BroadcastPlayCommand.
HandlerPlays(v) ==
    /\ handler.step \in {"start", "stop"} /\ Builds(handler, v)
    /\ SentPlay(v, handler.step)
    /\ handler' = [handler EXCEPT !.todo = @ \ {v}]
    /\ UNCHANGED <<inside, activity, parameters, counted, registrar, syncer, miscounted, started>>

\* BroadcastConfig.
HandlerBuilds(v) ==
    /\ handler.step \in {"start config", "end config"} /\ Builds(handler, v)
    /\ handler' = Built(handler, v)
    /\ UNCHANGED <<inside, activity, parameters, counted, registrar, syncer, sayVars, miscounted, started>>

HandlerSends ==
    /\ handler.step \in {"start config", "end config"} /\ handler.held # NoVisitor
    /\ IF handler.held \in inside THEN SentConfig(handler.held, handler.built)
       ELSE UNCHANGED sayVars
    /\ handler' = Freed(handler)
    /\ UNCHANGED <<inside, activity, parameters, counted, registrar, syncer, miscounted, started>>

\* What comes after a loop over the players: after the count of a start the config
\* and then the command; the activity is cleared after the command to stop.
After(step) ==
    CASE step = "count" -> "start config" [] step = "start config" -> "start"
      [] step = "stop" -> "clear" [] OTHER -> "none"

\* The handler has gone through the players and goes on.
HandlerGoesOn ==
    /\ handler.step \notin {"none", "clear"} /\ Over(handler)
    /\ handler' = LET next == After(handler.step)
                  IN  IF next \in {"none", "clear"} THEN [Resting EXCEPT !.step = next]
                      ELSE [Resting EXCEPT !.step = next, !.todo = inside]
    /\ UNCHANGED <<inside, activity, parameters, counted, registrar, syncer, sayVars, miscounted, started>>

-----------------------------------------------------------------------------
(* SyncRoomFromStore. *)

BringsParameters ==
    /\ syncer = Resting /\ parameters < MaxParameters
    /\ parameters' = parameters + 1
    /\ syncer' = [Resting EXCEPT !.step = "config", !.todo = inside]
    /\ UNCHANGED <<inside, activity, counted, registrar, handler, sayVars, miscounted, started>>

SyncerBuilds(v) ==
    /\ syncer.step = "config" /\ Builds(syncer, v)
    /\ syncer' = Built(syncer, v)
    /\ UNCHANGED <<inside, activity, parameters, counted, registrar, handler, sayVars, miscounted, started>>

SyncerSends ==
    /\ syncer.step = "config" /\ syncer.held # NoVisitor
    /\ IF syncer.held \in inside THEN SentConfig(syncer.held, syncer.built)
       ELSE UNCHANGED sayVars
    /\ syncer' = Freed(syncer)
    /\ UNCHANGED <<inside, activity, parameters, counted, registrar, handler, miscounted, started>>

SyncerEnds ==
    /\ syncer.step = "config" /\ Over(syncer)
    /\ syncer' = Resting
    /\ UNCHANGED <<inside, activity, parameters, counted, registrar, handler, sayVars, miscounted, started>>

SessionNext ==
    \/ \E v \in Visitor :
          \/ Enters(v) \/ RegistrarBuilds(v) \/ Exits(v) \/ CountReads(v)
          \/ HandlerPlays(v) \/ HandlerBuilds(v) \/ SyncerBuilds(v)
    \/ RegistrarSends \/ RegistrarChecks \/ RegistrarPlays
    \/ Starts \/ Counts \/ Ends \/ Clears \/ HandlerSends \/ HandlerGoesOn
    \/ BringsParameters \/ SyncerSends \/ SyncerEnds

SessionSpec == SessionInit /\ [][SessionNext]_sessionVars

-----------------------------------------------------------------------------
(* What the players may count on. *)

\* When no message is under way every player of the room knows the activity and the
\* parameters of now and plays if and only if there is an activity, and exactly the
\* players of the room are counted as participants: unless the last config was
\* built before a change and queued after it, a command to play was sent to a
\* player that came while the activity was being ended, or a player left while
\* the handler was counting it.
SessionAgrees ==
    registrar = Resting /\ handler = Resting /\ syncer = Resting =>
        /\ \A v \in inside :
              /\ config[v] = Now \/ <<v, "config">> \in late
              /\ (play[v] = "start" <=> activity # 0) \/ <<v, "play">> \in late
        /\ activity # 0 => counted = inside \/ miscounted

\* What the players are told.
SessionIsSound == SessionTypeOK /\ SessionAgrees
=============================================================================
