----------------------------- MODULE MCMovement -----------------------------
EXTENDS Movement, TLC

MCWalkable == [z \in {0, 1} |-> {0, 1}]
MCGrass == [z \in {0, 1} |-> IF z = 1 THEN {1} ELSE {}]
MCWarps == [z \in {0, 1} |-> IF z = 0 THEN 1 :> [zone |-> 1, x |-> 0] ELSE <<>>]
MCSpawn == [zone |-> 0, x |-> 0, facing |-> "East"]
=============================================================================
