----------------------------- MODULE MCChallenges -----------------------------
(* Instances of Challenges for TLC.                                         *)
EXTENDS Challenges
=============================================================================
