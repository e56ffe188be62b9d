----------------------------- MODULE MCClaiming -----------------------------
(* Instances of Claiming for TLC.                                           *)
EXTENDS Claiming, TLC

Symmetry == Permutations(Sockets) \cup Permutations(Saves)
=============================================================================
