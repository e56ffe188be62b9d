------------------------------- MODULE MCQuests -------------------------------
(* An instance of Quests for TLC: two zones, and content that changes homes, *)
(* trees and quests; the last content would pay for every talk.              *)
EXTENDS Quests

MCPlaces == {<<0, 0, 0>>, <<0, 1, 0>>, <<1, 0, 0>>}
MCSpawn == <<0, 0, 0>>

Does(kind, x) == <<kind, x>>
Node(id, if, then, choices) == [id |-> id, if |-> if, then |-> then, choices |-> choices]
Choice(if, then, next) == [if |-> if, then |-> then, next |-> next]
Tree(id, nodes) == [id |-> id, root |-> nodes[1].id, nodes |-> nodes]
Npc(id, home, radius) == [id |-> id, spawn |-> home, home |-> home, radius |-> radius, tree |-> id]

Keeper == Tree("keeper", <<Node("greet", {}, <<>>, <<Choice({}, <<Does("ClearFlag", "asked")>>, End)>>)>>)

(* The elder gives a present once and sends those who ask to the keeper.     *)
Errand ==
  [npcs |-> {Npc("elder", <<0, 0, 0>>, 1), Npc("keeper", <<1, 0, 0>>, 0)},
   trees |-> {Keeper, Tree("elder", <<
     Node("first", {<<"NotFlag", "met">>}, <<Does("SetFlag", "met"), Does("GrantItem", "present")>>,
          <<Choice({}, <<>>, "again")>>),
     Node("again", {}, <<>>,
          <<Choice({<<"HasFlag", "met">>}, <<Does("StartQuest", "errand")>>, End)>>)>>)},
   quests |-> {[id |-> "errand", steps |->
     <<[npc |-> "keeper", if |-> {}], [npc |-> "elder", if |-> {<<"HasFlag", "met">>}]>>]}]

(* The elder has moved, the keeper is gone, and the quest is told at once.   *)
Visit ==
  [npcs |-> {Npc("elder", <<0, 1, 0>>, 0)},
   trees |-> {Tree("elder", <<Node("again", {}, <<Does("StartQuest", "errand")>>, <<Choice({}, <<>>, End)>>)>>)},
   quests |-> {[id |-> "errand", steps |-> <<[npc |-> "elder", if |-> {}]>>]}]

Farm ==
  [npcs |-> {Npc("elder", <<0, 0, 0>>, 1)},
   trees |-> {Tree("elder", <<
     Node("first", {<<"NotFlag", "met">>}, <<Does("SetFlag", "seen"), Does("GrantItem", "present")>>,
          <<Choice({}, <<>>, End)>>)>>)},
   quests |-> {}]

MCBuilds == <<Errand, Visit, Farm>>
=============================================================================
