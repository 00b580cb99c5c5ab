------------------------------ MODULE MCRoomInfo ------------------------------
(* Constants of RoomInfo for TLC: one stream, that reads one of two tables. *)
EXTENDS RoomInfo

CONSTANTS sync, list, w1

ReadsSettings == [q \in Queries |-> {settings}]
=============================================================================
