------------------------------ MODULE MCBatcher ------------------------------
(***************************************************************************)
(* Instances of Batcher for TLC: two destinations, and a request that may  *)
(* not be batched.                                                         *)
(***************************************************************************)
EXTENDS Batcher, TLC

CONSTANTS r1, r2, r3, r4, k1, k2

KeyOfThree == r1 :> k1 @@ r2 :> k1 @@ r3 :> k2
KeyOfFour == KeyOfThree @@ r4 :> k2
OneSingle == {r4}
=============================================================================
