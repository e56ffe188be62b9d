----------------------------- MODULE TurnMachine -----------------------------
(***************************************************************************)
(* The turn machine of a tactical battle: initiative, the plans players    *)
(* queue, the clock windows they act in, and the chain of turns one call   *)
(* runs: every unit in turn, a queued plan entry by entry, halted plans    *)
(* that give the remaining action points back, KOs in the middle of all    *)
(* that, the upkeep at the round's end.                                    *)
(*                                                                         *)
(* An input (Start, Submit, Cancel, Advance, Expire, Conclude) is accepted *)
(* only when no call is running; the chain's own steps follow one by one   *)
(* until it stops.  In the program a whole call is one transaction:        *)
(* `saved` is the battle as the last call left it, and what the rest of    *)
(* the server sees (see ImplementsTurnContract).                           *)
(*                                                                         *)
(* Left open: the board (an entry that is not certain to be legal may be   *)
(* refused when it is popped; an attack may hit anybody), what scales its  *)
(* damage (Guard, flanks, types), status effects (a turn may be blocked,   *)
(* an upkeep may hurt) and all durations.                                  *)
(***************************************************************************)
EXTENDS Naturals, Sequences, FiniteSets, SequencesExt

CONSTANTS
  Units, SideOf,   \* as in TurnContract
  Kinds,
  Forfeit,         \* autopass_forfeit
  SeqWrap,          \* window_seq wraps here
  Speed,           \* each unit's speed
  MaxHP,           \* hit points, in steps a surge takes
  PlayerPlans,     \* the plans players submit
  AiPlans,         \* the plans ai::plan makes
  Cost,            \* AP by entry
  Tax,             \* disengage_tax
  Exert,           \* exert_surcharge
  ApTurn,          \* ap_turn
  MinCost,         \* min_action_cost
  MaxStrides,      \* max_strides_per_turn
  MaxWindows,      \* max_windows_per_turn
  RoundCap,        \* wild_round_cap
  SurgeStart       \* surge_start_round

Entries == {"move", "dash", "light", "heavy", "item", "recruit", "flee", "end"}
NoPlan == <<>>
LastRound == [kind \in {"wild", "pvp"} |->
                IF kind = "wild" THEN RoundCap ELSE SurgeStart + MaxHP - 1]

ASSUME TurnUnits ==
  /\ IsFiniteSet(Units) /\ SideOf \in [Units -> {"A", "B"}]
  /\ \A s \in {"A", "B"} : \E u \in Units : SideOf[u] = s
  /\ Units \cap {"none", "advancing"} = {}
  /\ Kinds \subseteq {"wild", "pvp"}
  /\ Speed \in [Units -> Nat]

ASSUME TurnPlans ==
  PlayerPlans \cup AiPlans \subseteq Seq(Entries)

\* min_action_cost is the cheapest action; three windows use up a turn.
ASSUME TurnTuning ==
  /\ {ApTurn, MinCost, MaxWindows, MaxHP, RoundCap, SurgeStart, Forfeit, SeqWrap}
       \subseteq Nat \ {0}
  /\ {Tax, Exert, MaxStrides} \subseteq Nat
  /\ Cost \in [Entries -> Nat]
  /\ Cost["end"] = 0 /\ \A e \in Entries \ {"end"} : Cost[e] >= MinCost
  /\ ApTurn <= MaxWindows * MinCost

VARIABLES
  kind,        \* BattleKind
  first,       \* the side with tie priority in round 1 (drawn from the seed)
  round,       \* state.round
  turn,        \* turn_state
  outcome,     \* state.outcome
  hp,          \* cur_hp; 0 also stands for a recruited unit
  budget,      \* each unit's TurnBudget
  initiative,  \* this round's order, less the fallen
  plans,       \* READY plans
  clock,       \* the sides' clocks
  run,         \* the call being executed
  taken,       \* units whose turn began this round (history)
  saved        \* the battle as the last call left it (history)

board == <<hp, budget, initiative>>
vars == <<kind, first, round, turn, outcome, board, plans, clock, run, taken, saved>>

C == INSTANCE TurnContract

Sides == {"A", "B"}
Owned(u) == C!Owned(kind, u)
Alive == {u \in Units : hp[u] > 0}

-----------------------------------------------------------------------------
(* The economy of action points.                                           *)

Idle == [ap |-> 0, strides |-> 0, attacks |-> 0]
Fresh == [ap |-> ApTurn, strides |-> 0, attacks |-> 0]
Strides(e) == CASE e = "move" -> 1 [] e = "dash" -> 2 [] OTHER -> 0
IsAttack(e) == e \in {"light", "heavy"}

CostOf(bd, e, tax) ==
  Cost[e] + (IF IsAttack(e) /\ bd.attacks >= 1 THEN Exert ELSE 0)
          + (IF Strides(e) > 0 THEN tax ELSE 0)

Affordable(bd, e, tax) ==
  /\ Strides(e) > 0 => bd.strides + Strides(e) <= MaxStrides
  /\ e \in {"recruit", "flee"} => bd.ap = ApTurn
  /\ CostOf(bd, e, tax) <= bd.ap

Spent(bd, e, tax) ==
  [ap |-> bd.ap - CostOf(bd, e, tax), strides |-> bd.strides + Strides(e),
   attacks |-> bd.attacks + (IF IsAttack(e) THEN 1 ELSE 0)]

\* plan_cost: every entry is affordable after the ones before it.  (A tax is
\* the board's to add, when the entry is popped.)
Fits(bd, plan) ==
  LET Left[i \in 0..Len(plan)] ==
        IF i = 0 THEN bd ELSE Spent(Left[i - 1], plan[i], 0)
  IN \A i \in DOMAIN plan : Affordable(Left[i - 1], plan[i], 0)

-----------------------------------------------------------------------------
(* Initiative: fastest first, ties to the side with priority this round.    *)

PriorityIn(r) == IF r % 2 = 1 THEN first ELSE C!Other(first)
Before(r, u, v) ==
  \/ Speed[u] > Speed[v]
  \/ Speed[u] = Speed[v] /\ SideOf[u] = PriorityIn(r) /\ SideOf[v] # PriorityIn(r)
OrderIn(r, standing) ==
  CHOOSE o \in SetToSeqs(standing) :
    \A i, j \in DOMAIN o : i < j => ~Before(r, o[j], o[i])
Position(u) == CHOOSE i \in DOMAIN initiative : initiative[i] = u

-----------------------------------------------------------------------------
(* The call being executed.                                                *)

Origins == {"Live", "PreQueued", "Ai"}
Stopped == [pc |-> "stopped", order |-> <<>>, at |-> 1, unit |-> "none",
            rest |-> <<>>, origin |-> "Live", sure |-> FALSE]
RunsOn(order, at) == [Stopped EXCEPT !.pc = "next", !.order = order, !.at = at]
Executes(r, u, plan, origin, sure) ==
  [r EXCEPT !.pc = "exec", !.unit = u, !.rest = plan, !.origin = origin, !.sure = sure]
NextUnit == [run EXCEPT !.pc = "next", !.unit = "none", !.rest = <<>>, !.sure = FALSE]

View == [kind |-> kind, round |-> round, turn |-> turn, outcome |-> outcome,
         alive |-> Alive, plans |-> {u \in Units : plans[u] # NoPlan},
         clock |-> [s \in Sides |-> [seq |-> clock[s].seq, open |-> clock[s].open,
                                     strikes |-> clock[s].strikes]]]

(* The turn of u ends.                                                      *)
EndTurn(u) ==
  /\ budget' = [budget EXCEPT ![u] = Idle]
  /\ run' = NextUnit
  /\ UNCHANGED turn

(* u's owner is asked, in a new window on clock clk, with budget bd.        *)
EnterWaiting(u, bd, clk) ==
  LET s == SideOf[u] IN
  IF clk[s].windows < MaxWindows /\ ~clk[s].open
  THEN /\ turn' = u
       /\ clock' = [clk EXCEPT ![s].seq = (@ + 1) % SeqWrap, ![s].open = TRUE,
                               ![s].windows = @ + 1]
       /\ budget' = [budget EXCEPT ![u] = bd]
       /\ run' = Stopped
  ELSE EndTurn(u) /\ clock' = clk

(* Every end of a battle.                                                  *)
Finish_KeepsPlans(o, clk) ==
  /\ outcome' = o /\ turn' = "none" /\ run' = Stopped
  /\ clock' = C!ShutAll(clk)
  /\ UNCHANGED plans

Finish(o, clk) ==
  /\ outcome' = o /\ turn' = "none" /\ run' = Stopped
  /\ clock' = C!ShutAll(clk)
  /\ plans' = [u \in Units |-> NoPlan]

(* The outcomes the KO sweep finds when h are the hit points.               *)
Decided(h) ==
  LET Stands(s) == \E u \in Units : SideOf[u] = s /\ h[u] > 0
  IN IF Stands("A") /\ Stands("B") THEN {}
     ELSE IF Stands("A") THEN {"sideA"}
     ELSE IF Stands("B") \/ kind = "wild" THEN {"sideB"}
     ELSE {"sideA", "sideB"}

(* sweep_kos and sync_plans: the fallen leave the initiative and the queue. *)
Standing(h) ==
  CHOOSE o \in SetToSeqs({u \in ToSet(initiative) : h[u] > 0}) :
    \A i, j \in DOMAIN o : i < j => Position(o[i]) < Position(o[j])
PlansOf(h) == [u \in Units |-> IF h[u] > 0 THEN plans[u] ELSE NoPlan]

-----------------------------------------------------------------------------
Init ==
  /\ kind \in Kinds
  /\ first \in IF kind = "wild" THEN {"A"} ELSE Sides
  /\ round = 1 /\ turn = "none" /\ outcome = "ongoing"
  /\ hp = [u \in Units |-> MaxHP]
  /\ budget = [u \in Units |-> Idle]
  /\ initiative = OrderIn(1, Units)
  /\ plans = [u \in Units |-> NoPlan]
  /\ clock = [s \in Sides |-> [seq |-> 0, open |-> FALSE, strikes |-> 0, windows |-> 0]]
  /\ run = Stopped /\ taken = {}
  /\ saved = View

Ready == run.pc = "stopped"
CanAct(u) == outcome = "ongoing" /\ hp[u] > 0

Start ==
  /\ Ready /\ turn = "none" /\ outcome = "ongoing"
  /\ run' = RunsOn(initiative, 1)
  /\ UNCHANGED <<kind, first, round, turn, outcome, board, plans, clock, taken>>

Advance ==
  /\ Ready /\ turn = "advancing" /\ outcome = "ongoing"
  /\ run' = RunsOn(initiative, 1)
  /\ UNCHANGED <<kind, first, round, turn, outcome, board, plans, clock, taken>>

WithEnd(plan) ==
  IF plan # <<>> /\ plan[Len(plan)] = "end" THEN plan ELSE Append(plan, "end")

MaxPlanActions == 3
Actions(plan) == {i \in DOMAIN plan : plan[i] # "end"}

\* The shape of a plan; Recruit and Flee stand alone, and not under PvP rules.
Submittable(plan) ==
  /\ Cardinality(Actions(plan)) <= MaxPlanActions
  /\ \A i \in DOMAIN plan : plan[i] = "end" => i = Len(plan)
  /\ (\E i \in DOMAIN plan : plan[i] \in {"recruit", "flee"}) =>
       Cardinality(Actions(plan)) = 1 /\ kind = "wild"

(* A pre-queue: stored, or replacing the plan stored before.                *)
SubmitQueued(u, plan) ==
  /\ Ready /\ CanAct(u) /\ Owned(u) /\ turn # u
  /\ Submittable(plan) /\ Fits(Fresh, plan)
  /\ plans' = [plans EXCEPT ![u] = WithEnd(plan)]
  /\ UNCHANGED <<kind, first, round, turn, outcome, board, clock, run, taken>>

(* The live gate: the first entry must be legal on the board as it is, so  *)
(* it is when it is popped.                                                *)
GateAnswers(u, plan) ==
  IF \E tax \in {0, Tax} : Affordable(budget[u], plan[1], tax) THEN {TRUE} ELSE {}

(* Where the round goes on after u, in the order of before the call.        *)
ResumesAfter(u) == RunsOn(initiative, Position(u) + 1)

SubmitLive(u, plan) ==
  /\ Ready /\ CanAct(u) /\ turn = u /\ clock[SideOf[u]].open
  /\ plan # <<>> /\ Submittable(plan) /\ Fits(budget[u], plan)
  /\ clock' = [clock EXCEPT ![SideOf[u]].open = FALSE]
  /\ \E sure \in GateAnswers(u, plan) :
       run' = Executes(ResumesAfter(u), u, plan, "Live", sure)
  /\ UNCHANGED <<kind, first, round, turn, outcome, board, plans, taken>>

CancelQueue(u) ==
  /\ Ready /\ Owned(u) /\ plans[u] # NoPlan
  /\ plans' = [plans EXCEPT ![u] = NoPlan]
  /\ UNCHANGED <<kind, first, round, turn, outcome, board, clock, run, taken>>

(* The open window of u's owner is over.                                    *)
Expire(u) ==
  /\ Ready /\ turn = u /\ clock[SideOf[u]].open
  /\ LET s == SideOf[u]
         closed == [clock EXCEPT ![s].open = FALSE]
         struck == [closed EXCEPT ![s].strikes = @ + 1]
     IN IF kind = "wild"
        THEN /\ Finish("fled", closed)
             /\ UNCHANGED budget
        ELSE /\ budget' = [budget EXCEPT ![u] = Idle]
             /\ IF struck[s].strikes >= Forfeit
                THEN Finish(C!WinFor(C!Other(s)), struck)
                ELSE /\ clock' = struck
                     /\ run' = ResumesAfter(u)
                     /\ UNCHANGED <<turn, outcome, plans>>
  /\ UNCHANGED <<kind, first, round, hp, initiative, taken>>

(* A forfeit or a disconnect.                                               *)
Conclude(o) ==
  /\ Ready /\ outcome = "ongoing"
  /\ Finish(o, clock)
  /\ UNCHANGED <<kind, first, round, board, taken>>

-----------------------------------------------------------------------------
(* The steps of a running call.                                             *)

Upcoming_LiveOrder == IF run.at <= Len(initiative) THEN initiative[run.at]
                      ELSE run.order[run.at]
Upcoming == run.order[run.at]
Moved_Nowhere == run
Moved == [run EXCEPT !.at = @ + 1]

SkipFallen ==
  /\ run.pc = "next" /\ run.at <= Len(run.order) /\ hp[Upcoming] = 0
  /\ run' = Moved
  /\ UNCHANGED <<kind, first, round, turn, outcome, board, plans, clock, taken>>

\* start_turn: a fresh budget, a new unit-turn on the owner's clock.
WindowsReset(u) ==
  IF Owned(u) THEN [clock EXCEPT ![SideOf[u]].windows = 0] ELSE clock

StartTurn ==
  /\ run.pc = "next" /\ run.at <= Len(run.order)
  /\ LET u == Upcoming
         Takes(plan, origin) ==
           /\ run' = Executes(Moved, u, plan, origin, FALSE)
           /\ budget' = [budget EXCEPT ![u] = Fresh]
           /\ clock' = WindowsReset(u)
           /\ UNCHANGED turn
     IN /\ hp[u] > 0
        /\ taken' = taken \cup {u}
        /\ \/ /\ Owned(u) /\ plans[u] # NoPlan
              /\ Takes(plans[u], "PreQueued")
           \/ /\ ~Owned(u)
              /\ \E plan \in AiPlans : Takes(plan, "Ai")
           \/ /\ Owned(u) /\ plans[u] = NoPlan
              /\ EnterWaiting(u, Fresh, WindowsReset(u))
        /\ plans' = [plans EXCEPT ![u] = NoPlan]
  /\ UNCHANGED <<kind, first, round, outcome, hp, initiative>>

(* A status that blocks the turn voids the plan and ends it uncommitted.    *)
BlockedTurn ==
  /\ run.pc = "next" /\ run.at <= Len(run.order)
  /\ LET u == Upcoming
     IN /\ hp[u] > 0
        /\ taken' = taken \cup {u}
        /\ plans' = [plans EXCEPT ![u] = NoPlan]
        /\ clock' = WindowsReset(u)
        /\ budget' = [budget EXCEPT ![u] = Idle]
  /\ run' = Moved
  /\ UNCHANGED <<kind, first, round, turn, outcome, hp, initiative>>

Actor == run.unit

(* An entry is refused when popped: the plan's rest is wasted.              *)
Halt ==
  /\ run.pc = "exec" /\ run.rest # <<>>
  /\ ~run.sure /\ Head(run.rest) # "end"
  /\ IF Owned(Actor) /\ budget[Actor].ap >= MinCost
     THEN EnterWaiting(Actor, budget[Actor], clock)
     ELSE EndTurn(Actor) /\ UNCHANGED clock
  /\ UNCHANGED <<kind, first, round, outcome, hp, initiative, plans, taken>>

ExecuteEndTurn ==
  /\ run.pc = "exec" /\ run.rest # <<>> /\ Head(run.rest) = "end"
  /\ EndTurn(Actor)
  /\ UNCHANGED <<kind, first, round, outcome, hp, initiative, plans, clock, taken>>

ExecuteFlee ==
  /\ run.pc = "exec" /\ run.rest # <<>> /\ Head(run.rest) = "flee"
  /\ kind = "wild" /\ Owned(Actor) /\ Affordable(budget[Actor], "flee", 0)
  /\ budget' = [budget EXCEPT ![Actor] = Spent(@, "flee", 0)]
  /\ Finish("fled", clock)
  /\ UNCHANGED <<kind, first, round, hp, initiative, taken>>

Wounded(hit) == [v \in Units |-> IF v \in hit /\ hp[v] > 0 THEN hp[v] - 1 ELSE hp[v]]
(* What an entry may do to the hit points.                                  *)
Effects(e) ==
  CASE IsAttack(e) -> {Wounded(hit) : hit \in SUBSET Alive}
    [] e = "item" -> {hp} \cup {[hp EXCEPT ![v] = @ + 1] : v \in {w \in Alive : hp[w] < MaxHP}}
    [] e = "recruit" -> {hp} \cup {[hp EXCEPT ![v] = 0] : v \in {w \in Alive : ~Owned(w)}}
    [] OTHER -> {hp}

MayExecute(e) ==
  /\ e \notin {"end", "flee"}
  /\ e \in {"item", "recruit"} => Owned(Actor)
  /\ e = "recruit" => kind = "wild"

(* One entry: paid, resolved, and the board settled.                        *)
Execute ==
  /\ run.pc = "exec" /\ run.rest # <<>> /\ MayExecute(Head(run.rest))
  /\ \E tax \in {0, Tax} :
       /\ Affordable(budget[Actor], Head(run.rest), tax)
       /\ budget' = [budget EXCEPT ![Actor] = Spent(@, Head(run.rest), tax)]
  /\ \E h \in Effects(Head(run.rest)) :
       /\ hp' = h
       /\ initiative' = Standing(h)
       /\ IF Decided(h) # {}
          THEN \E o \in Decided(h) : Finish(o, clock)
          ELSE /\ plans' = PlansOf(h)
               /\ run' = IF h[Actor] = 0 THEN NextUnit
                         ELSE [run EXCEPT !.rest = Tail(@), !.sure = FALSE]
               /\ UNCHANGED <<turn, outcome, clock>>
  /\ UNCHANGED <<kind, first, round, taken>>

(* The plan is done: only a live one gives the turn back.                   *)
Drained ==
  /\ run.pc = "exec" /\ run.rest = <<>>
  /\ IF run.origin = "Live" /\ budget[Actor].ap >= MinCost
     THEN EnterWaiting(Actor, budget[Actor], clock)
     ELSE EndTurn(Actor) /\ UNCHANGED clock
  /\ UNCHANGED <<kind, first, round, outcome, hp, initiative, plans, taken>>

Surge(r) == IF kind = "pvp" /\ r >= SurgeStart THEN r + 1 - SurgeStart ELSE 0

(* The upkeep: ticks and surge, the sweep, the wild cap, the next round.    *)
EndRound ==
  /\ run.pc = "next" /\ run.at > Len(run.order)
  /\ \E hurt \in SUBSET Alive :
       LET Loss(u) == Surge(round) + (IF u \in hurt THEN 1 ELSE 0)
           h == [u \in Units |-> IF hp[u] > Loss(u) THEN hp[u] - Loss(u) ELSE 0]
       IN /\ hp' = h
          /\ IF Decided(h) # {}
             THEN /\ \E o \in Decided(h) : Finish(o, clock)
                  /\ initiative' = Standing(h)
                  /\ UNCHANGED <<round, taken>>
             ELSE IF kind = "wild" /\ round >= RoundCap
             THEN /\ Finish("fled", clock)
                  /\ initiative' = Standing(h)
                  /\ UNCHANGED <<round, taken>>
             ELSE /\ round' = round + 1 /\ turn' = "advancing"
                  /\ initiative' = OrderIn(round + 1, {u \in Units : h[u] > 0})
                  /\ plans' = PlansOf(h) /\ taken' = {}
                  /\ run' = Stopped
                  /\ UNCHANGED <<outcome, clock>>
  /\ UNCHANGED <<kind, first, budget>>

-----------------------------------------------------------------------------
Inputs ==
  \/ Start \/ Advance
  \/ \E u \in Units, plan \in PlayerPlans : SubmitQueued(u, plan) \/ SubmitLive(u, plan)
  \/ \E u \in Units : CancelQueue(u) \/ Expire(u)
  \/ \E o \in IF kind = "wild" THEN {"fled"} ELSE {"sideA", "sideB"} : Conclude(o)

Steps ==
  \/ SkipFallen \/ StartTurn \/ BlockedTurn
  \/ Halt \/ ExecuteEndTurn \/ ExecuteFlee \/ Execute \/ Drained
  \/ EndRound

\* What the rest of the server sees when the call is over.
Commit == saved' = IF run'.pc = "stopped" THEN View' ELSE saved

Next == (Inputs \/ Steps) /\ Commit

Spec == Init /\ [][Next]_vars

(* The scheduler fires the zero-delay advance and the deadline rows, and a *)
(* call that began comes to its end.  Players owe nothing.                 *)
FairSpec ==
  /\ Spec
  /\ WF_vars((Start \/ Steps \/ Advance) /\ Commit)
  /\ WF_vars((\E u \in Units : Expire(u)) /\ Commit)

-----------------------------------------------------------------------------
(* Properties.                                                             *)

TypeOK ==
  /\ kind \in Kinds /\ first \in Sides
  /\ round \in 1..LastRound[kind]
  /\ turn \in Units \cup {"none", "advancing"}
  /\ outcome \in {"ongoing", "sideA", "sideB", "fled"}
  /\ hp \in [Units -> 0..MaxHP]
  /\ budget \in [Units -> [ap : 0..ApTurn, strides : 0..MaxStrides, attacks : Nat]]
  /\ initiative \in Seq(Units)
  /\ plans \in [Units -> Seq(Entries)]
  /\ clock \in [Sides -> [seq : 0..(SeqWrap - 1), open : BOOLEAN, strikes : 0..Forfeit,
                          windows : 0..MaxWindows]]
  /\ run \in [pc : {"stopped", "next", "exec"}, order : Seq(Units), at : Nat \ {0},
              unit : Units \cup {"none"}, rest : Seq(Entries), origin : Origins,
              sure : BOOLEAN]
  /\ taken \subseteq Units

(* The window cap of a unit-turn is never what stops a player: whenever a  *)
(* unit with points left is about to be given back to its owner, a window  *)
(* is to be had (queue.rs calls the refusal "unreachable at the design's   *)
(* numbers").                                                              *)
WindowsSuffice ==
  run.pc = "exec" /\ Owned(run.unit) /\ budget[run.unit].ap >= MinCost /\ ~run.sure =>
    clock[SideOf[run.unit]].windows < MaxWindows /\ ~clock[SideOf[run.unit]].open

(* Within a round every unit that still stands has had its turn or is yet  *)
(* to have it, and never both, whoever falls in the middle of a chain.     *)
OneTurnEach ==
  run.pc = "next" =>
    LET due == {run.order[i] : i \in {j \in DOMAIN run.order : j >= run.at}}
    IN Alive \subseteq taken \cup due /\ taken \cap due = {}

(* A stored plan belongs to a standing unit of a player that is not being  *)
(* waited for: no plan survives its unit, and none is left to run twice.   *)
PlansHaveActors ==
  run.pc = "stopped" =>
    \A u \in Units : plans[u] # NoPlan => hp[u] > 0 /\ Owned(u) /\ turn # u

(* Action points are never banked: only the unit that is waited for has    *)
(* any, and it is waited for in an open window of its owner's clock.       *)
PointsOnlyInTurn ==
  run.pc = "stopped" =>
    /\ \A u \in Alive : budget[u] # Idle => turn \in {u, "none"}
    /\ \A s \in Sides : clock[s].open <=> (turn \in Units /\ SideOf[turn] = s)

(* No battle goes on with an empty side.                                   *)
OngoingIsContested ==
  run.pc = "stopped" /\ outcome = "ongoing" =>
    \A s \in Sides : \E u \in Alive : SideOf[u] = s

(* Turns, plans, points, windows and the outcome agree, through every      *)
(* chain of turns that one call runs.                                      *)
TurnsWellFormed ==
  TypeOK /\ OneTurnEach /\ PlansHaveActors /\ PointsOnlyInTurn /\ WindowsSuffice
    /\ OngoingIsContested

(* Every battle ends, though its players may do nothing, or play for time. *)
BattleEnds == <>(outcome # "ongoing")

(* A whole call is one step of the turn contract.                          *)
P == INSTANCE TurnPromise WITH b <- saved
ImplementsTurnContract == P!Spec
=============================================================================
