----------------------------- MODULE MCTactics -----------------------------
EXTENDS Tactics

MCUnits == {"a1", "a2", "b1"}
MCSideOf == [u \in MCUnits |-> IF u = "b1" THEN "B" ELSE "A"]
MCLastRound == [kind \in {"wild", "pvp"} |-> 2]
=============================================================================
