----------------------------- MODULE MCConfigSync -----------------------------
(***************************************************************************)
(* Instances of ConfigSync for TLC.                                        *)
(***************************************************************************)
EXTENDS ConfigSync, TLC

CONSTANTS c1, c2, u1, u2, r1, r2, n1, n2

MCCarries == [i \in 1..MaxMsg |-> r1]

\* The first message carries nothing a merge accepts.
MCCarriesLate == [i \in 1..MaxMsg |-> IF i = 1 THEN Undecodable ELSE r1]

Symmetry == Permutations(Callers) \cup Permutations(LocalUpdates)
              \cup Permutations(Nodes)
=============================================================================
