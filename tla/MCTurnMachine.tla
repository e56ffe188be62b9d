--------------------------- MODULE MCTurnMachine ---------------------------
EXTENDS TurnMachine

MCUnits == {"a1", "a2", "b1"}
MCSideOf == [u \in MCUnits |-> IF u = "b1" THEN "B" ELSE "A"]
MCSpeed == [u \in MCUnits |-> IF u = "a2" THEN 1 ELSE 2]
MCPlayerPlans == {<<"light", "move">>, <<"flee">>, <<"recruit">>}
MCAiPlans == {<<>>, <<"light">>}
\* TacticsTuning::DESIGN
MCCost == [e \in {"move", "dash", "light", "heavy", "item", "recruit", "flee", "end"} |->
             CASE e \in {"move", "light"} -> 2 [] e \in {"dash", "heavy"} -> 4
               [] e = "item" -> 3 [] e \in {"recruit", "flee"} -> 6 [] e = "end" -> 0]
=============================================================================
