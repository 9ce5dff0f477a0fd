----------------------------- MODULE MCRoomList -----------------------------
(* A small instance of RoomList: rooms are interchangeable.                 *)
EXTENDS RoomList, TLC

CONSTANTS a, b, c

MCTimes == {1, 2}
RoomSymmetry == Permutations(Rooms)
=============================================================================
