----------------------------- MODULE MCTrading -----------------------------
(* Instances of Trading for TLC.                                            *)
EXTENDS Trading, TLC

(* Guests are interchangeable, accounts are, and so are monsters.            *)
Symmetry == Permutations(Players \ Accounts) \cup Permutations(Accounts)
  \cup Permutations(Monsters)
=============================================================================
