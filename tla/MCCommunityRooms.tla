--------------------------- MODULE MCCommunityRooms ---------------------------
(***************************************************************************)
(* Instances of CommunityRooms for TLC: two loads and an RPC to one room,  *)
(* and another room.                                                       *)
(***************************************************************************)
EXTENDS CommunityRooms, TLC

CONSTANTS a, b, l1, l2, c1

AllToOne == l1 :> a @@ l2 :> a @@ c1 :> a
=============================================================================
