---------------------------- MODULE TurnContract ----------------------------
(***************************************************************************)
(* What one call of the turn machine promises to the server around it: a   *)
(* battle between two transactions, and the battles each input may leave   *)
(* behind.  TurnMachine implements it entry by entry; Tactics builds on    *)
(* it, so neither has to know the other.                                   *)
(*                                                                         *)
(* A call ends in one of three ways: a player's unit is waited for in a    *)
(* fresh window, the round is over and the next one has to be scheduled,   *)
(* or the battle has ended.  Whatever happens on the board is left open.   *)
(***************************************************************************)
EXTENDS Naturals, FiniteSets

CONSTANTS
  Units,       \* unit ids
  SideOf,      \* each unit's side
  Kinds,       \* "wild" and/or "pvp" (Practice has the PvP rules)
  LastRound,   \* by kind: no battle goes on past the end of this round
  Forfeit,     \* autopass_forfeit
  SeqWrap       \* window_seq is a u32 and wraps: 2^32

ASSUME ContractSides ==
  /\ SideOf \in [Units -> {"A", "B"}]
  /\ \A s \in {"A", "B"} : \E u \in Units : SideOf[u] = s
  /\ Units \cap {"none", "advancing"} = {}
  /\ Kinds \subseteq {"wild", "pvp"}

ASSUME ContractBounds ==
  LastRound \in [{"wild", "pvp"} -> Nat \ {0}] /\ {Forfeit, SeqWrap} \subseteq Nat \ {0}

Sides == {"A", "B"}
Other(s) == IF s = "A" THEN "B" ELSE "A"
WinFor(s) == IF s = "A" THEN "sideA" ELSE "sideB"

(* In a wild battle only side A is a player's.                              *)
Owned(kind, u) == kind = "pvp" \/ SideOf[u] = "A"

Clock == [seq : 0..(SeqWrap - 1), open : BOOLEAN, strikes : 0..Forfeit]
Turns == [kind : Kinds, round : Nat \ {0}, turn : Units \cup {"none", "advancing"},
          outcome : {"ongoing", "sideA", "sideB", "fled"},
          alive : SUBSET Units, plans : SUBSET Units, clock : [Sides -> Clock]]

(* A battle before its first call.                                          *)
New(kind, units) ==
  [kind |-> kind, round |-> 1, turn |-> "none", outcome |-> "ongoing",
   alive |-> units, plans |-> {},
   clock |-> [s \in Sides |-> [seq |-> 0, open |-> FALSE, strikes |-> 0]]]

BothSidesStand(alive) == \A s \in Sides : \E u \in alive : SideOf[u] = s
ShutAll(clock) == [s \in Sides |-> [clock[s] EXCEPT !.open = FALSE]]

(* Every end voids the plans and closes the windows.                        *)
Ended(b, o, alive) ==
  [b EXCEPT !.turn = "none", !.outcome = o, !.alive = alive, !.plans = {},
            !.clock = ShutAll(@)]

Waits(b) ==
  {[b EXCEPT !.turn = w.unit, !.alive = w.alive, !.plans = w.plans,
             !.clock[SideOf[w.unit]].seq = (@ + 1) % SeqWrap,
             !.clock[SideOf[w.unit]].open = TRUE] :
     w \in {x \in [unit : b.alive, alive : SUBSET b.alive, plans : SUBSET b.plans] :
              /\ x.unit \in x.alive /\ Owned(b.kind, x.unit)
              /\ BothSidesStand(x.alive)
              /\ x.plans \subseteq x.alive \ {x.unit}}}

Advances(b) ==
  {[b EXCEPT !.turn = "advancing", !.round = @ + 1, !.alive = x.alive, !.plans = x.plans] :
     x \in {y \in [alive : SUBSET b.alive, plans : SUBSET b.plans] :
              /\ b.round < LastRound[b.kind]
              /\ BothSidesStand(y.alive) /\ y.plans \subseteq y.alive}}

Decides(b) ==
  {Ended(b, o, alive) :
     o \in {"sideA", "sideB"} \cup (IF b.kind = "wild" THEN {"fled"} ELSE {}),
     alive \in SUBSET b.alive}

(* Turns are run until somebody has to be asked.                            *)
Chain(b) == Waits(b) \cup Advances(b) \cup Decides(b)

(* The inputs; an empty set is a refusal.                                   *)
AfterStart(b) ==
  IF b.turn = "none" /\ b.outcome = "ongoing" THEN Chain(b) ELSE {}

AfterAdvance(b, round) ==
  IF b.turn = "advancing" /\ b.outcome = "ongoing" /\ b.round = round
  THEN Chain(b) ELSE {}

AfterSubmit(b, u) ==
  IF b.outcome # "ongoing" \/ u \notin b.alive \/ ~Owned(b.kind, u) THEN {}
  ELSE IF b.turn = u
       THEN Chain([b EXCEPT !.clock[SideOf[u]].open = FALSE])
       ELSE {[b EXCEPT !.plans = @ \cup {u}]}

AfterCancel(b, u) == IF u \in b.plans THEN {[b EXCEPT !.plans = @ \ {u}]} ELSE {}

(* The window `seq` of u's owner expired.                                   *)
AfterExpire(b, u, seq) ==
  IF b.turn # u \/ b.turn \notin Units \/ ~b.clock[SideOf[u]].open
     \/ b.clock[SideOf[u]].seq # seq
  THEN {}
  ELSE IF b.kind = "wild" THEN {Ended(b, "fled", b.alive)}
  ELSE LET s == SideOf[u]
           p == [b EXCEPT !.clock[s].open = FALSE, !.clock[s].strikes = @ + 1]
       IN IF p.clock[s].strikes >= Forfeit
          THEN {Ended(p, WinFor(Other(s)), b.alive)}
          ELSE Chain(p)

AfterConclude(b, o) == IF b.outcome = "ongoing" THEN {Ended(b, o, b.alive)} ELSE {}
=============================================================================
