----------------------------- MODULE RoomMinimap -----------------------------
(***************************************************************************)
(* The floor plan of a room (client/src/lib/room-minimap/ and               *)
(* client/src/components/console/room-minimap.tsx) on the control page and  *)
(* on the monitoring page of a room: where each player is drawn, which way  *)
(* the arrow points, and when a player is shown as silent.                  *)
(*                                                                          *)
(* The markers are computed with the room's messages and, on the control    *)
(* page, with each load, never by a clock of their own: on the monitoring   *)
(* page the last player to fall silent is not shown so.                     *)
(*                                                                          *)
(* Coordinates are whole metres.  What the page keeps between 0 and 1 is    *)
(* here between 0 and the width, or the depth.                              *)
(***************************************************************************)
EXTENDS Integers

CONSTANTS
    Avatar,        \* players
    HalfWidth, HalfDepth,
    Spot,          \* positions of a head, [x, z]
    Gaze,          \* directions it faces, [x, z]
    Threshold      \* staleThresholdSeconds

ASSUME MapAssumption ==
    /\ HalfWidth \in Nat \ {0} /\ HalfDepth \in Nat \ {0} /\ Threshold \in Nat
    /\ Spot \subseteq [x : Int, z : Int] /\ Gaze \subseteq [x : {-1, 0, 1}, z : {-1, 0, 1}]

VARIABLES
    viewer,        \* the page: "control", "monitor"
    players,       \* the players of the last message, and how long each is silent
    markers        \* minimapMarkers, displayMarkers

mapVars == <<viewer, players, markers>>

Silent == Threshold + 1      \* ages beyond it are not told apart
PlayerData == [head : Spot, gaze : Gaze, ready : BOOLEAN, age : 0..Silent]

----------------------------------------------------------------------------
(* mappers.ts *)

Clamped(v, half) == IF v < -half THEN -half ELSE IF v > half THEN half ELSE v

Position(p) ==
    [x       |-> Clamped(p.x, HalfWidth) + HalfWidth,
     y       |-> 2 * HalfDepth - (Clamped(p.z, HalfDepth) + HalfDepth),
     out     |-> p.x \notin -HalfWidth..HalfWidth \/ p.z \notin -HalfDepth..HalfDepth,
     clamped |-> Clamped(p.x, HalfWidth) # p.x \/ Clamped(p.z, HalfDepth) # p.z]

\* Of no length when the player looks straight up or down: no arrow is drawn.
Heading(g) == [dx |-> g.x, dy |-> -g.z]

Marker(data) == [at |-> Position(data.head), heading |-> Heading(data.gaze),
                 stale |-> data.age > Threshold, ready |-> data.ready]

Markers(known) == [a \in DOMAIN known |-> Marker(known[a])]

\* getMarkerColorClass, readyText
Colour(m) == IF m.stale THEN "muted" ELSE IF m.ready THEN "success" ELSE "primary"

----------------------------------------------------------------------------
MapTypeOK ==
    /\ viewer \in {"control", "monitor"}
    /\ DOMAIN players \subseteq Avatar /\ DOMAIN markers = DOMAIN players
    /\ \A a \in DOMAIN players :
         /\ players[a] \in PlayerData
         /\ markers[a] = [Marker(players[a]) EXCEPT !.stale = markers[a].stale]

MapClosed == viewer = "monitor" /\ players = << >> /\ markers = << >>
MapInit == viewer \in {"control", "monitor"} /\ players = << >> /\ markers = << >>

\* A message of the room: one player joins or has moved, or has gone; of the others
\* it repeats what was known.  The markers are computed anew.
Delivered(a, data) ==
    /\ players' = [b \in DOMAIN players \cup {a} |-> IF b = a THEN data ELSE players[b]]
    /\ markers' = Markers(players') /\ UNCHANGED viewer

Gone(a) ==
    /\ a \in DOMAIN players
    /\ players' = [b \in DOMAIN players \ {a} |-> players[b]]
    /\ markers' = Markers(players') /\ UNCHANGED viewer

Second ==
    /\ \E a \in DOMAIN players : players[a].age < Silent
    /\ players' = [a \in DOMAIN players |->
                     [players[a] EXCEPT !.age = IF @ < Silent THEN @ + 1 ELSE @]]
    /\ UNCHANGED <<viewer, markers>>

\* A load of the control page has another deviceMap.
Reloaded ==
    /\ viewer = "control" /\ markers' = Markers(players)
    /\ UNCHANGED <<viewer, players>>

MapNext ==
    \/ \E a \in Avatar : Gone(a)
    \/ \E a \in Avatar, data \in PlayerData : data.age \in {0, Silent} /\ Delivered(a, data)
    \/ Second \/ Reloaded

----------------------------------------------------------------------------
(* Properties *)

\* Every player is drawn on the plan, marked as out of bounds exactly when it is
\* not drawn where it is, and shown as silent only when it is.
MarkersAreRight ==
    \A a \in DOMAIN markers :
        LET m == markers[a] IN
        /\ m.at.x \in 0..2 * HalfWidth /\ m.at.y \in 0..2 * HalfDepth
        /\ m.at.out <=> m.at.clamped
        /\ Colour(m) = "muted" => players[a].age > Threshold

\* The arrow points where the player would go with a step forward, as far as the
\* plan reaches.
ArrowsPointAhead ==
    \A a \in DOMAIN markers :
        LET p == players[a]
            m == markers[a]
            ahead == Position([x |-> p.head.x + p.gaze.x, z |-> p.head.z + p.gaze.z])
        IN  /\ ahead.x - m.at.x \in {0, m.heading.dx}
            /\ ahead.y - m.at.y \in {0, m.heading.dy}
            /\ ~ahead.out /\ ~m.at.out => ahead.x - m.at.x = m.heading.dx /\ ahead.y - m.at.y = m.heading.dy

\* On the control page a player that falls silent is shown so.
Hushed(a) == viewer = "control" /\ a \in DOMAIN players /\ players[a].age > Threshold
SilentIsShown ==
    \A a \in Avatar : []<>(Hushed(a) => Colour(markers[a]) = "muted")
=============================================================================
