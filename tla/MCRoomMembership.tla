-------------------------- MODULE MCRoomMembership --------------------------
(* RoomMembership for TLC: rooms, devices and requests are interchangeable.  *)
(* Owner chooses a room, but the order of the stored rooms leaves no choice. *)
EXTENDS RoomMembership, TLC

Symmetry == Permutations(Room) \cup Permutations(Device) \cup Permutations(Request)
=============================================================================
