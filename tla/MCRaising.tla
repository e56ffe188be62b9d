------------------------------- MODULE MCRaising -------------------------------
(* An instance of Raising for TLC: one graph with a choice at its root.      *)
EXTENDS Raising

MCHome == [m \in Monsters |-> CHOOSE g \in Guests : TRUE]
Edge(a, b, level, essence, trust, ticks) ==
  [from |-> a, to |-> b, level |-> level, essence |-> essence, trust |-> trust,
   ticks |-> ticks]
MCEdges == {Edge("egg", "cub", 1, 0, 0, 1), Edge("egg", "imp", 1, 1, 0, 0),
            Edge("cub", "bear", 2, 0, 60, 0)}
MCTier == [s \in Species |-> CASE s = "egg" -> 0 [] s = "bear" -> 2 [] OTHER -> 1]
=============================================================================
