-------------------------- MODULE MCRoomDispatcher --------------------------
(* Small instances of RoomDispatcher for TLC. *)
EXTENDS RoomDispatcher

\* Bound of the safety run: late updates on their way at any time.
FewPosts == Cardinality(net) <= 2
=============================================================================
