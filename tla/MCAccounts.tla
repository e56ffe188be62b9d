----------------------------- MODULE MCAccounts -----------------------------
(* Instances of Accounts for TLC.                                           *)
EXTENDS Accounts, TLC

Symmetry == Permutations(Guests) \cup Permutations(Holders \ Legacy)
  \cup Permutations(Sockets) \cup Permutations(Codes) \cup Permutations(Saves)
=============================================================================
