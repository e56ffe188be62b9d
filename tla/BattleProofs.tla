---------------------------- MODULE BattleProofs ----------------------------
(***************************************************************************)
(* Proofs about battles.  Of TurnMachine, for any units, speeds, plans and *)
(* numbers that satisfy its assumptions: turns, plans, points and windows  *)
(* agree through every chain of turns, and a whole call is one step of     *)
(* TurnContract.  Of Challenges, for any players, accounts and time to     *)
(* live: challenges never cross and each has its reaper, challengers are   *)
(* there, and nobody fights twice, unconnected or without the account      *)
(* ranked play needs.                                                      *)
(***************************************************************************)
EXTENDS TurnMachine, Challenges, FiniteSetTheorems, WellFoundedInduction, TLAPS

Stopping == run.pc = "stopped"
Ongoing == outcome = "ongoing"

(* The initiative is an order of exactly the standing units.                *)
OnBoard ==
  /\ \A i, j \in DOMAIN initiative : initiative[i] = initiative[j] => i = j
  /\ \A u \in Units : hp[u] > 0 <=> \E i \in DOMAIN initiative : initiative[i] = u

(* A battle goes on while both sides stand and nobody has forfeited; its    *)
(* end is final.                                                            *)
GoesOn ==
  IF Ongoing
  THEN /\ \A s \in Sides : \E u \in Units : SideOf[u] = s /\ hp[u] > 0
       /\ \A s \in Sides : clock[s].strikes < Forfeit
  ELSE turn = "none" /\ Stopping /\ \A u \in Units : plans[u] = NoPlan

(* Plans are those of standing units with a player.                         *)
Queued == \A u \in Units : plans[u] # NoPlan => hp[u] > 0 /\ Owned(u)

(* A window is open for nobody but the unit that is waited for.             *)
Windows == \A s \in Sides : clock[s].open <=> Stopping /\ turn \in Units /\ SideOf[turn] = s

(* Points are spent by the windows they paid for.                           *)
Paid(u, windows) == budget[u].ap + windows * MinCost <= ApTurn

Points ==
  Ongoing => \A u \in Units : hp[u] > 0 /\ budget[u] # Idle =>
    (Stopping /\ turn = u) \/ (run.pc = "exec" /\ run.unit = u)

(* u is the last of the initiative whose turn has begun.                    *)
Latest(u) ==
  /\ u \in taken
  /\ \A i, j \in DOMAIN initiative :
       initiative[j] = u => (initiative[i] \in taken <=> i <= j)

(* Whoever is waited for stands, and paid for every window but this one.    *)
Waiting ==
  Stopping /\ turn \in Units =>
    /\ hp[turn] > 0 /\ Owned(turn) /\ plans[turn] = NoPlan /\ Latest(turn)
    /\ clock[SideOf[turn]].windows > 0
    /\ budget[turn].ap + clock[SideOf[turn]].windows * MinCost <= ApTurn + MinCost

(* Nobody's turn has begun before the round has.                            *)
NewRound == Stopping /\ Ongoing /\ turn \notin Units => taken = {}

Due == {run.order[i] : i \in {j \in DOMAIN run.order : j >= run.at}}

(* A chain runs an order of which the initiative is what still stands, and *)
(* the units whose turns have begun are the front of it.                   *)
Chained ==
  ~Stopping =>
    /\ \A i, j \in DOMAIN run.order : run.order[i] = run.order[j] => i = j
    /\ \A p, q \in DOMAIN run.order, i, j \in DOMAIN initiative :
         p < q /\ run.order[p] = initiative[i] /\ run.order[q] = initiative[j] => i < j
    /\ \A u \in Units : hp[u] > 0 => u \in taken \cup Due
    /\ taken \cap Due = {}
    /\ \A i, j \in DOMAIN initiative :
         i < j /\ initiative[j] \in taken => initiative[i] \in taken

(* Whoever acts stands and has no plan left, and pays before it asks again. *)
Acting ==
  run.pc = "exec" =>
    /\ run.unit \in Units /\ hp[run.unit] > 0 /\ plans[run.unit] = NoPlan /\ Latest(run.unit)
    /\ run.origin = "Live" => Owned(run.unit)
    /\ run.sure => run.rest # <<>>
    /\ Owned(run.unit) =>
         LET w == clock[SideOf[run.unit]].windows IN
         budget[run.unit].ap + w * MinCost <= ApTurn + IF run.sure THEN MinCost ELSE 0

(* What a call works on, from the battle before it: that battle, less the  *)
(* window that was answered, or struck by the one that expired.            *)
Answered(b) == [b EXCEPT !.clock[SideOf[b.turn]].open = FALSE]
Struck(b) == [b EXCEPT !.clock[SideOf[b.turn]].open = FALSE,
                       !.clock[SideOf[b.turn]].strikes = @ + 1]
Bases(b) ==
  IF b.turn \notin Units THEN {b}
  ELSE {Answered(b)} \cup
         IF b.kind = "pvp" /\ b.clock[SideOf[b.turn]].strikes + 1 < Forfeit
         THEN {Struck(b)} ELSE {}

InStep(b) ==
  /\ b.kind = kind /\ b.round = round /\ b.outcome = outcome
  /\ View.alive \subseteq b.alive /\ View.plans \subseteq b.plans
  /\ b.clock = View.clock

Saved ==
  IF Stopping THEN saved = View
  ELSE /\ saved \in P!Turns /\ saved.outcome = "ongoing"
       /\ saved.turn \in Units => /\ saved.turn \in saved.alive /\ Owned(saved.turn)
                                  /\ saved.clock[SideOf[saved.turn]].open
       /\ \E b \in Bases(saved) : InStep(b)

Inv ==
  /\ TypeOK /\ OnBoard /\ GoesOn /\ Queued /\ Windows /\ Points
  /\ Waiting /\ NewRound /\ Chained /\ Acting /\ Saved

-----------------------------------------------------------------------------
(* Orders of a set.                                                         *)

LEMMA Enumerates ==
  ASSUME NEW S, IsFiniteSet(S), NEW o \in SetToSeqs(S)
  PROVE  /\ o \in Seq(S) /\ DOMAIN o = 1 .. Cardinality(S)
         /\ \A i, j \in DOMAIN o : o[i] = o[j] => i = j
         /\ \A x : x \in S <=> \E i \in DOMAIN o : o[i] = x
  <1> DEFINE n == Cardinality(S)
  <1>1. n \in Nat
    BY FS_CardinalityType
  <1>2. o \in [1 .. n -> S] /\ \A i, j \in 1 .. n : i # j => o[i] # o[j]
    BY DEF SetToSeqs
  <1>3. Cardinality(1 .. n) = n
    BY <1>1, FS_Interval
  <1> HIDE DEF n
  <1>4. o \in Injection(1 .. n, S)
    BY <1>2 DEF Injection, IsInjective
  <1>5. o \in Surjection(1 .. n, S)
    BY <1>3, <1>4, FS_Injection DEF n
  <1>6. o \in Seq(S)
    BY <1>1, <1>2
  <1> QED BY <1>2, <1>5, <1>6 DEF n, Surjection

(* Any finite set can be put in the order of a key: what has the least key  *)
(* goes to the end of an order of the others.                               *)
LEMMA Sortable ==
  ASSUME NEW S, IsFiniteSet(S), NEW key \in [S -> Nat]
  PROVE  \E o \in SetToSeqs(S) : \A i, j \in DOMAIN o : i < j => key[o[j]] <= key[o[i]]
  <1> DEFINE Orders(T) == {o \in SetToSeqs(T) : \A i, j \in DOMAIN o : i < j => key[o[j]] <= key[o[i]]}
             Bad == {n \in Nat : \E T \in SUBSET S : Cardinality(T) = n /\ Orders(T) = {}}
  <1> SUFFICES Orders(S) # {}
    OBVIOUS
  <1> SUFFICES ASSUME Bad # {} PROVE FALSE
    <2>1. Cardinality(S) \in Nat
      BY FS_CardinalityType
    <2> HIDE DEF Orders
    <2> QED BY <2>1
  <1>1. PICK n \in Bad : \A m \in Bad : <<m, n>> \notin OpToRel(<, Nat)
    <2>1. Bad \subseteq Nat
      OBVIOUS
    <2> HIDE DEF Bad
    <2> QED BY <2>1, NatLessThanWellFounded, WFMin
  <1>2. n \in Nat /\ \A m \in Bad : ~ (m < n)
    <2>1. \A m \in Bad : m \in Nat
      OBVIOUS
    <2> HIDE DEF Bad
    <2> QED BY <1>1, <2>1 DEF OpToRel
  <1>3. PICK T \in SUBSET S : Cardinality(T) = n /\ Orders(T) = {}
    BY <1>1
  <1>4. IsFiniteSet(T)
    BY FS_Subset
  <1>5. T # {}
    <2>1. SUFFICES ASSUME T = {} PROVE FALSE
      OBVIOUS
    <2>2. Cardinality(T) = 0
      BY <2>1, FS_EmptySet
    <2>3. <<>> \in SetToSeqs(T)
      BY <2>2 DEF SetToSeqs
    <2> QED BY <1>3, <2>3
  <1>6. PICK x \in T : \A y \in T : key[x] <= key[y]
    <2> DEFINE Keys == {key[y] : y \in T}
    <2>1. Keys # {} /\ Keys \subseteq Nat
      BY <1>5
    <2>2. PICK k \in Keys : \A l \in Keys : <<l, k>> \notin OpToRel(<, Nat)
      <3> HIDE DEF Keys
      <3> QED BY <2>1, NatLessThanWellFounded, WFMin
    <2>3. \A l \in Keys : l \in Nat /\ k \in Nat /\ ~ (l < k)
      <3> HIDE DEF Keys
      <3> QED BY <2>1, <2>2 DEF OpToRel
    <2>4. PICK x \in T : key[x] = k
      BY <2>2
    <2>5. \A y \in T : key[y] \in Keys
      OBVIOUS
    <2> HIDE DEF Keys
    <2> QED BY <2>3, <2>4, <2>5
  <1> DEFINE R == T \ {x}
  <1>7. IsFiniteSet(R) /\ Cardinality(R) = n - 1 /\ n - 1 \in Nat /\ R \in SUBSET S
    <2>1. IsFiniteSet(R) /\ Cardinality(R) = Cardinality(T) - 1
      BY <1>4, FS_RemoveElement
    <2>2. Cardinality(R) \in Nat
      BY <2>1, FS_CardinalityType
    <2> QED BY <1>2, <1>3, <2>1, <2>2
  <1>8. Orders(R) # {}
    <2>1. n - 1 \notin Bad
      <3> HIDE DEF Bad
      <3> QED BY <1>2, <1>7
    <2> HIDE DEF Orders, R
    <2> QED BY <1>7, <2>1
  <1>9. PICK o \in SetToSeqs(R) : \A i, j \in DOMAIN o : i < j => key[o[j]] <= key[o[i]]
    BY <1>8
  <1> DEFINE m == n - 1
             p == [i \in 1 .. n |-> IF i = n THEN x ELSE o[i]]
  <1>10. /\ DOMAIN o = 1 .. m
         /\ \A i \in 1 .. m : o[i] \in T /\ o[i] # x
         /\ \A i, j \in 1 .. m : o[i] = o[j] => i = j
         /\ \A i, j \in 1 .. m : i < j => key[o[j]] <= key[o[i]]
    <2>1. \A y \in R : y \in T /\ y # x
      OBVIOUS
    <2> HIDE DEF R
    <2>2. IsFiniteSet(R) /\ o \in SetToSeqs(R) /\ Cardinality(R) = m
      BY <1>7, <1>9
    <2> HIDE DEF m
    <2>3. /\ DOMAIN o = 1 .. m /\ \A i, j \in DOMAIN o : o[i] = o[j] => i = j
          /\ \A i \in DOMAIN o : o[i] \in R
      BY <2>2, Enumerates
    <2> QED BY <1>9, <2>1, <2>3
  <1>11. p \in SetToSeqs(T)
    <2>1. \A i \in 1 .. n : i = n \/ i \in 1 .. m
      BY <1>2
    <2>2. p \in [1 .. n -> T]
      BY <1>10, <2>1
    <2>3. \A i, j \in 1 .. n : i # j => p[i] # p[j]
      BY <1>10, <2>1
    <2> HIDE DEF p
    <2> QED BY <1>3, <2>2, <2>3 DEF SetToSeqs
  <1>12. \A i, j \in 1 .. n : i < j => key[p[j]] <= key[p[i]]
    <2> SUFFICES ASSUME NEW i \in 1 .. n, NEW j \in 1 .. n, i < j PROVE key[p[j]] <= key[p[i]]
      OBVIOUS
    <2>1. i \in 1 .. m /\ p[i] = o[i] /\ o[i] \in T
      BY <1>2, <1>10
    <2>2. CASE j = n
      BY <1>6, <2>1, <2>2
    <2>3. CASE j # n
      <3>1. j \in 1 .. m /\ p[j] = o[j]
        BY <1>2, <2>3
      <3> HIDE DEF p, m
      <3> QED BY <1>10, <2>1, <3>1
    <2> QED BY <2>2, <2>3
  <1> QED
    <2>1. DOMAIN p = 1 .. n
      OBVIOUS
    <2> HIDE DEF p
    <2> QED BY <1>3, <1>11, <1>12, <2>1

(* The initiative of a new round is an order of those who stand.            *)
LEMMA OrderExists ==
  ASSUME NEW r, NEW S \in SUBSET Units
  PROVE  OrderIn(r, S) \in SetToSeqs(S)
  <1> DEFINE bonus(u) == IF SideOf[u] = PriorityIn(r) THEN 1 ELSE 0
             key == [u \in S |-> 2 * Speed[u] + bonus(u)]
  <1>1. IsFiniteSet(S) /\ \A u \in S : Speed[u] \in Nat
    BY TurnUnits, FS_Subset
  <1>2. key \in [S -> Nat]
    BY <1>1
  <1>3. \A u, v \in S : Before(r, u, v) => key[u] > key[v]
    BY <1>1 DEF Before
  <1> HIDE DEF key
  <1>4. PICK o \in SetToSeqs(S) : \A i, j \in DOMAIN o : i < j => key[o[j]] <= key[o[i]]
    BY <1>1, <1>2, Sortable
  <1>5. \A i \in DOMAIN o : o[i] \in S
    BY <1>1, <1>4, Enumerates
  <1>6. \A i, j \in DOMAIN o : i < j => ~Before(r, o[j], o[i])
    <2> SUFFICES ASSUME NEW i \in DOMAIN o, NEW j \in DOMAIN o, i < j PROVE ~Before(r, o[j], o[i])
      OBVIOUS
    <2>1. key[o[j]] <= key[o[i]] /\ key[o[j]] \in Nat /\ key[o[i]] \in Nat
      BY <1>2, <1>4, <1>5
    <2> QED BY <1>3, <1>5, <2>1
  <1> QED BY <1>4, <1>6 DEF OrderIn

LEMMA PositionIs ==
  ASSUME OnBoard, NEW i \in DOMAIN initiative
  PROVE  Position(initiative[i]) = i
  BY DEF OnBoard, Position

(* After a sweep the initiative is what stands of it, in the same order.    *)
LEMMA SweepKeepsOrder ==
  ASSUME TypeOK, OnBoard, NEW h \in [Units -> Nat],
         \A u \in Units : h[u] > 0 => hp[u] > 0
  PROVE  LET o == Standing(h) IN
         /\ o \in Seq(Units)
         /\ \A i, j \in DOMAIN o : o[i] = o[j] => i = j
         /\ \A u \in Units : h[u] > 0 <=> \E i \in DOMAIN o : o[i] = u
         /\ \A i, j \in DOMAIN o, p, q \in DOMAIN initiative :
              initiative[p] = o[i] /\ initiative[q] = o[j] => (i < j <=> p < q)
  <1> DEFINE S == {u \in ToSet(initiative) : h[u] > 0}
             n == Len(initiative)
             key == [u \in S |-> n - Position(u)]
             o == Standing(h)
  <1>1. n \in Nat /\ DOMAIN initiative = 1 .. n /\ \A i \in 1 .. n : initiative[i] \in Units
    <2>1. initiative \in Seq(Units)
      BY DEF TypeOK
    <2> QED BY <2>1
  <1>2. S \in SUBSET Units /\ \A u \in Units : u \in S <=> h[u] > 0
    BY <1>1 DEF ToSet, OnBoard
  <1>3. \A u \in S : Position(u) \in 1 .. n /\ initiative[Position(u)] = u
    BY <1>1, PositionIs DEF ToSet
  <1>4. IsFiniteSet(S) /\ key \in [S -> Nat]
    BY <1>1, <1>2, <1>3, TurnUnits, FS_Subset
  <1> HIDE DEF S
  <1>5. PICK w \in SetToSeqs(S) : \A i, j \in DOMAIN w : i < j => key[w[j]] <= key[w[i]]
    <2> HIDE DEF key
    <2> QED BY <1>4, Sortable
  <1>6. \A i, j \in DOMAIN w : i < j => Position(w[i]) < Position(w[j])
    <2> SUFFICES ASSUME NEW i \in DOMAIN w, NEW j \in DOMAIN w, i < j
                 PROVE  Position(w[i]) < Position(w[j])
      OBVIOUS
    <2>1. w[i] \in S /\ w[j] \in S /\ w[i] # w[j]
      <3>1. /\ DOMAIN w = 1 .. Cardinality(S) /\ \A k, l \in DOMAIN w : w[k] = w[l] => k = l
            /\ \A k \in DOMAIN w : w[k] \in S
        BY <1>4, <1>5, Enumerates
      <3>2. i # j
        BY <1>4, <3>1, FS_CardinalityType
      <3> QED BY <3>1, <3>2
    <2>2. Position(w[i]) # Position(w[j])
      BY <1>3, <2>1
    <2>3. Position(w[i]) \in 1 .. n /\ Position(w[j]) \in 1 .. n
      BY <1>3, <2>1
    <2>4. n - Position(w[j]) <= n - Position(w[i])
      BY <1>5, <2>1
    <2> QED BY <1>1, <2>2, <2>3, <2>4
  <1>7. o \in SetToSeqs(S) /\ \A i, j \in DOMAIN o : i < j => Position(o[i]) < Position(o[j])
    BY <1>6 DEF Standing, S
  <1> HIDE DEF o
  <1>8. /\ o \in Seq(S) /\ DOMAIN o = 1 .. Cardinality(S)
        /\ \A i, j \in DOMAIN o : o[i] = o[j] => i = j
        /\ \A x : x \in S <=> \E i \in DOMAIN o : o[i] = x
    BY <1>4, <1>7, Enumerates
  <1>9. Cardinality(S) \in Nat
    BY <1>4, FS_CardinalityType
  <1>10. ASSUME NEW i \in DOMAIN o, NEW j \in DOMAIN o,
                NEW p \in DOMAIN initiative, NEW q \in DOMAIN initiative,
                initiative[p] = o[i], initiative[q] = o[j]
         PROVE  i < j <=> p < q
    <2>1. p = Position(o[i]) /\ q = Position(o[j])
      BY <1>10, PositionIs
    <2>2. i \in Nat /\ j \in Nat /\ p \in Nat /\ q \in Nat
      BY <1>1, <1>8, <1>9
    <2>3. i < j => p < q
      BY <1>7, <2>1
    <2>4. j < i => q < p
      BY <1>7, <2>1
    <2>5. i = j => p = q
      BY <2>1
    <2> QED BY <2>2, <2>3, <2>4, <2>5
  <1>11. o \in Seq(Units)
    BY <1>2, <1>8
  <1> QED BY <1>2, <1>8, <1>10, <1>11 DEF o

-----------------------------------------------------------------------------
(* The contract: how the end of a call looks from the battle before it.     *)

LEMMA ViewIsATurn == TypeOK => View \in P!Turns
  <1> SUFFICES ASSUME TypeOK PROVE View \in P!Turns
    OBVIOUS
  <1>1. View.clock \in [Sides -> [seq : 0..(SeqWrap - 1), open : BOOLEAN, strikes : 0..Forfeit]]
    BY DEF View, TypeOK
  <1>2. round \in Nat \ {0}
    BY TurnTuning DEF TypeOK
  <1> QED BY <1>1, <1>2 DEF View, TypeOK, P!Turns, P!Clock, P!Sides, Sides, Alive

LEMMA BaseIsATurn ==
  ASSUME Saved, ~Stopping, NEW b \in Bases(saved)
  PROVE  b \in P!Turns
  <1>1. saved \in P!Turns
    BY DEF Saved
  <1>2. CASE saved.turn \notin Units
    BY <1>1, <1>2 DEF Bases
  <1>3. CASE saved.turn \in Units
    <2>1. SideOf[saved.turn] \in P!Sides
      BY <1>3, TurnUnits DEF P!Sides
    <2>2. CASE b = Answered(saved)
      <3> DEFINE c == [saved.clock EXCEPT ![SideOf[saved.turn]].open = FALSE]
      <3>1. saved.clock \in [P!Sides -> P!Clock] /\ b = [saved EXCEPT !.clock = c]
        BY <1>1, <2>2 DEF Answered, P!Turns
      <3>2. c \in [P!Sides -> P!Clock]
        BY <2>1, <3>1 DEF P!Clock
      <3> HIDE DEF c
      <3> QED BY <1>1, <3>1, <3>2 DEF P!Turns
    <2>3. CASE b = Struck(saved) /\ saved.clock[SideOf[saved.turn]].strikes + 1 < Forfeit
      <3>1. saved.clock[SideOf[saved.turn]].strikes + 1 \in 0 .. Forfeit
        BY <1>1, <2>1, <2>3, TurnTuning DEF P!Turns, P!Clock
      <3> DEFINE s == SideOf[saved.turn]
                 c == [saved.clock EXCEPT ![s].open = FALSE, ![s].strikes = @ + 1]
      <3>2. saved.clock \in [P!Sides -> P!Clock]
        BY <1>1 DEF P!Turns
      <3>3. c \in [P!Sides -> P!Clock]
        BY <2>1, <3>1, <3>2 DEF P!Clock
      <3>4. b = [saved EXCEPT !.clock = c]
        BY <1>1, <2>3 DEF Struck, P!Turns
      <3> HIDE DEF c
      <3> QED BY <1>1, <3>3, <3>4 DEF P!Turns
    <2> QED BY <1>3, <2>2, <2>3 DEF Bases
  <1> QED BY <1>2, <1>3

LEMMA ChainIsPromised ==
  ASSUME Saved, ~Stopping, NEW b \in Bases(saved), saved' \in P!Chain(b)
  PROVE  P!Next
  <1>1. /\ saved \in P!Turns /\ saved.outcome = "ongoing"
        /\ saved.turn \in Units => /\ saved.turn \in saved.alive /\ Owned(saved.turn)
                                   /\ saved.clock[SideOf[saved.turn]].open
    BY DEF Saved
  <1>2. Owned(saved.turn) <=> P!Owned(saved.kind, saved.turn)
    BY DEF Saved, InStep, Bases, Answered, Struck, Owned, C!Owned, P!Owned, P!Turns
  <1>3. CASE saved.turn \notin Units
    <2>1. b = saved /\ saved.turn \in {"none", "advancing"}
      BY <1>1, <1>3 DEF Bases, P!Turns
    <2>2. saved' \in P!AfterStart(saved) \/ saved' \in P!AfterAdvance(saved, saved.round)
      BY <1>1, <2>1 DEF P!AfterStart, P!AfterAdvance
    <2> QED BY <2>2 DEF P!Next
  <1>4. CASE saved.turn \in Units
    <2> DEFINE u == saved.turn
    <2>1. u \in Units /\ SideOf[u] \in P!Sides
      BY <1>4, TurnUnits DEF P!Sides
    <2>2. CASE b = Answered(saved)
      <3>1. saved' \in P!AfterSubmit(saved, u)
        BY <1>1, <1>2, <1>4, <2>2 DEF P!AfterSubmit, Answered
      <3> QED BY <2>1, <3>1 DEF P!Next
    <2>3. CASE /\ b = Struck(saved) /\ saved.kind = "pvp"
               /\ saved.clock[SideOf[u]].strikes + 1 < Forfeit
      <3>1. Struck(saved).clock[SideOf[u]].strikes = saved.clock[SideOf[u]].strikes + 1
        BY <1>1, <2>1 DEF Struck, P!Turns, P!Clock
      <3>2. ~(Struck(saved).clock[SideOf[u]].strikes >= Forfeit)
        BY <1>1, <2>1, <2>3, <3>1, TurnTuning DEF P!Turns, P!Clock
      <3>3. saved' \in P!AfterExpire(saved, u, saved.clock[SideOf[u]].seq)
        BY <1>1, <2>1, <2>3, <3>2 DEF P!AfterExpire, Struck
      <3> QED BY <2>1, <3>3 DEF P!Next
    <2> QED BY <1>4, <2>2, <2>3 DEF Bases
  <1> QED BY <1>3, <1>4

(* A call that stops because somebody has to be asked.                      *)
LEMMA AskingIsPromised ==
  ASSUME TypeOK, TypeOK', Saved, ~Stopping, UNCHANGED <<kind, round, outcome>>, saved' = View',
         \A s \in Sides : \E u \in Units : SideOf[u] = s /\ hp'[u] > 0,
         turn' \in Units, hp'[turn'] > 0, Owned(turn'),
         \A u \in Units : hp'[u] > 0 => hp[u] > 0,
         \A u \in Units : plans'[u] # NoPlan => plans[u] # NoPlan /\ hp'[u] > 0 /\ u # turn',
         \A s \in Sides :
           View'.clock[s] = IF s = SideOf[turn']
                            THEN [View.clock[s] EXCEPT !.seq = (@ + 1) % SeqWrap, !.open = TRUE]
                            ELSE View.clock[s]
  PROVE  P!Next
  <1>1. PICK b \in Bases(saved) : InStep(b)
    BY DEF Saved
  <1>2. b \in P!Turns
    BY <1>1, BaseIsATurn
  <1> DEFINE s == SideOf[turn']
             w == [unit |-> turn', alive |-> View'.alive, plans |-> View'.plans]
             c == [b.clock EXCEPT ![s].seq = (@ + 1) % SeqWrap, ![s].open = TRUE]
  <1>3. s \in Sides /\ Sides = P!Sides
    BY TurnUnits DEF Sides, P!Sides
  <1>4. View'.clock = c
    <2>1. b.clock = View.clock /\ b.clock \in [Sides -> P!Clock]
      BY <1>1, <1>2, <1>3 DEF InStep, P!Turns
    <2>2. \A t \in Sides : View'.clock[t] = c[t]
      BY <1>3, <2>1
    <2>3. View'.clock = [t \in Sides |-> View'.clock[t]]
      BY DEF View
    <2>4. c = [t \in Sides |-> c[t]]
      BY <2>1
    <2> HIDE DEF c
    <2> QED BY <2>2, <2>3, <2>4
  <1>5. w \in {x \in [unit : b.alive, alive : SUBSET b.alive, plans : SUBSET b.plans] :
              /\ x.unit \in x.alive /\ P!Owned(b.kind, x.unit)
              /\ P!BothSidesStand(x.alive)
              /\ x.plans \subseteq x.alive \ {x.unit}}
    <2>1. View'.alive = {u \in Units : hp'[u] > 0} /\ View'.plans = {u \in Units : plans'[u] # NoPlan}
      BY DEF View, Alive
    <2>2. View.alive = {u \in Units : hp[u] > 0} /\ View.plans = {u \in Units : plans[u] # NoPlan}
      BY DEF View, Alive
    <2>3. View'.alive \subseteq b.alive /\ View'.plans \subseteq b.plans /\ turn' \in View'.alive
      BY <1>1, <2>1, <2>2 DEF InStep
    <2>4. P!Owned(b.kind, turn')
      BY <1>1 DEF InStep, Owned, C!Owned, P!Owned
    <2>5. P!BothSidesStand(View'.alive)
      BY <1>3, <2>1 DEF P!BothSidesStand
    <2>6. View'.plans \subseteq View'.alive \ {turn'}
      BY <2>1
    <2> QED BY <2>3, <2>4, <2>5, <2>6
  <1>6. View' = [b EXCEPT !.turn = turn', !.alive = View'.alive, !.plans = View'.plans, !.clock = c]
    <2>1. /\ View'.kind = b.kind /\ View'.round = b.round /\ View'.outcome = b.outcome
          /\ View'.turn = turn'
      BY <1>1 DEF InStep, View
    <2>2. View' = [kind |-> View'.kind, round |-> View'.round, turn |-> View'.turn,
                   outcome |-> View'.outcome, alive |-> View'.alive, plans |-> View'.plans,
                   clock |-> View'.clock]
      BY DEF View
    <2> HIDE DEF c
    <2> QED BY <1>2, <1>4, <2>1, <2>2, ZenonT(120) DEF P!Turns
  <1>7. View' = [b EXCEPT !.turn = w.unit, !.alive = w.alive, !.plans = w.plans,
                          !.clock[SideOf[w.unit]].seq = (@ + 1) % SeqWrap,
                          !.clock[SideOf[w.unit]].open = TRUE]
    <2>1. w.unit = turn' /\ w.alive = View'.alive /\ w.plans = View'.plans
      OBVIOUS
    <2> HIDE DEF w
    <2>2. [b EXCEPT !.turn = turn', !.alive = View'.alive, !.plans = View'.plans,
                    !.clock[s].seq = (@ + 1) % SeqWrap, !.clock[s].open = TRUE]
            = [b EXCEPT !.turn = turn', !.alive = View'.alive, !.plans = View'.plans, !.clock = c]
      <3>1. b.clock \in [Sides -> P!Clock] /\ s \in Sides
        BY <1>2, <1>3 DEF P!Turns
      <3> HIDE DEF s
      <3> QED BY <1>2, <3>1 DEF P!Turns
    <2> HIDE DEF c
    <2> QED BY <1>6, <2>1, <2>2
  <1>8. View' \in P!Waits(b)
    <2> HIDE DEF w
    <2> QED BY <1>5, <1>7 DEF P!Waits
  <1> QED BY <1>1, <1>8, ChainIsPromised DEF P!Chain

(* A call that stops at the end of a round.                                 *)
LEMMA RoundEndIsPromised ==
  ASSUME TypeOK, Saved, ~Stopping, UNCHANGED <<kind, outcome>>, saved' = View',
         \A s \in Sides : \E u \in Units : SideOf[u] = s /\ hp'[u] > 0,
         round < LastRound[kind], round' = round + 1, turn' = "advancing",
         \A u \in Units : hp'[u] > 0 => hp[u] > 0,
         \A u \in Units : plans'[u] # NoPlan => plans[u] # NoPlan /\ hp'[u] > 0,
         View'.clock = View.clock
  PROVE  P!Next
  <1>1. PICK b \in Bases(saved) : InStep(b)
    BY DEF Saved
  <1>2. b \in P!Turns
    BY <1>1, BaseIsATurn
  <1> DEFINE x == [alive |-> View'.alive, plans |-> View'.plans]
  <1>3. x \in {y \in [alive : SUBSET b.alive, plans : SUBSET b.plans] :
                 P!BothSidesStand(y.alive) /\ y.plans \subseteq y.alive}
    <2>1. View'.alive = {u \in Units : hp'[u] > 0} /\ View'.plans = {u \in Units : plans'[u] # NoPlan}
      BY DEF View, Alive
    <2>2. View.alive = {u \in Units : hp[u] > 0} /\ View.plans = {u \in Units : plans[u] # NoPlan}
      BY DEF View, Alive
    <2>3. View'.alive \subseteq b.alive /\ View'.plans \subseteq b.plans
      BY <1>1, <2>1, <2>2 DEF InStep
    <2>4. P!BothSidesStand(View'.alive)
      BY <2>1 DEF P!BothSidesStand, P!Sides, Sides
    <2>5. View'.plans \subseteq View'.alive
      BY <2>1
    <2> QED BY <2>3, <2>4, <2>5
  <1>4. View' = [b EXCEPT !.turn = "advancing", !.round = @ + 1, !.alive = x.alive,
                          !.plans = x.plans]
    <2>1. /\ View'.kind = b.kind /\ View'.round = b.round + 1 /\ View'.outcome = b.outcome
          /\ View'.turn = "advancing" /\ View'.clock = b.clock
      BY <1>1 DEF InStep, View
    <2>2. View' = [kind |-> View'.kind, round |-> View'.round, turn |-> View'.turn,
                   outcome |-> View'.outcome, alive |-> View'.alive, plans |-> View'.plans,
                   clock |-> View'.clock]
      BY DEF View
    <2> QED BY <1>2, <2>1, <2>2 DEF P!Turns
  <1>5. b.round < LastRound[b.kind]
    BY <1>1 DEF InStep
  <1>6. View' \in P!Advances(b)
    <2> HIDE DEF x
    <2> QED BY <1>3, <1>4, <1>5 DEF P!Advances
  <1> QED BY <1>1, <1>6, ChainIsPromised DEF P!Chain

(* A call that stops with the battle.                                       *)
Outcomes == {"sideA", "sideB"} \cup (IF kind = "wild" THEN {"fled"} ELSE {})
Shut == \A s \in Sides : View'.clock[s] = [View.clock[s] EXCEPT !.open = FALSE]

LEMMA LooksEnded ==
  ASSUME NEW b \in P!Turns, NEW o, turn' = "none", outcome' = o,
         \A u \in Units : plans'[u] = NoPlan,
         b.kind = kind', b.round = round',
         \A s \in Sides : View'.clock[s] = [b.clock[s] EXCEPT !.open = FALSE]
  PROVE  View' = P!Ended(b, o, View'.alive)
  <1>1. View'.clock = P!ShutAll(b.clock)
    <2>1. View'.clock = [t \in Sides |-> View'.clock[t]]
      BY DEF View
    <2> QED BY <2>1 DEF P!ShutAll, P!Sides, Sides
  <1>2. View' = [kind |-> b.kind, round |-> b.round, turn |-> "none", outcome |-> o,
                 alive |-> View'.alive, plans |-> {}, clock |-> P!ShutAll(b.clock)]
    BY <1>1 DEF View
  <1> DEFINE c == P!ShutAll(b.clock)
  <1>3. P!Ended(b, o, View'.alive) = [b EXCEPT !.turn = "none", !.outcome = o,
                                               !.alive = View'.alive, !.plans = {}, !.clock = c]
    BY DEF P!Ended, P!Turns
  <1> HIDE DEF c
  <1>4. View' = [kind |-> b.kind, round |-> b.round, turn |-> "none", outcome |-> o,
                 alive |-> View'.alive, plans |-> {}, clock |-> c]
    BY <1>2 DEF c
  <1> QED BY <1>3, <1>4 DEF P!Turns

LEMMA EndIsPromised ==
  ASSUME TypeOK, Saved, ~Stopping, UNCHANGED <<kind, round>>, saved' = View', Shut,
         outcome' \in Outcomes, turn' = "none",
         \A u \in Units : hp'[u] > 0 => hp[u] > 0,
         \A u \in Units : plans'[u] = NoPlan
  PROVE  P!Next
  <1>1. PICK b \in Bases(saved) : InStep(b)
    BY DEF Saved
  <1>2. b \in P!Turns
    BY <1>1, BaseIsATurn
  <1>3. View'.alive \in SUBSET b.alive
    BY <1>1 DEF InStep, View, Alive
  <1>4. View' = P!Ended(b, outcome', View'.alive)
    BY <1>1, <1>2, LooksEnded DEF InStep, Shut
  <1>5. outcome' \in {"sideA", "sideB"} \cup (IF b.kind = "wild" THEN {"fled"} ELSE {})
    BY <1>1 DEF InStep, Outcomes
  <1>6. View' \in P!Decides(b)
    BY <1>3, <1>4, <1>5 DEF P!Decides
  <1> QED BY <1>1, <1>6, ChainIsPromised DEF P!Chain

-----------------------------------------------------------------------------
(* What a step of the machine owes: the invariant, and one step of the     *)
(* contract at most.                                                        *)
Sound == Inv' /\ [P!Next]_saved

BudgetRow == [ap : 0..ApTurn, strides : 0..MaxStrides, attacks : Nat]
ClockRow == [seq : 0..(SeqWrap - 1), open : BOOLEAN, strikes : 0..Forfeit,
             windows : 0..MaxWindows]
RunRow == [pc : {"stopped", "next", "exec"}, order : Seq(Units), at : Nat \ {0},
           unit : Units \cup {"none"}, rest : Seq(Entries), origin : Origins, sure : BOOLEAN]

LEMMA Types ==
  TypeOK <=>
    /\ kind \in Kinds /\ first \in Sides
    /\ round \in 1..LastRound[kind]
    /\ turn \in Units \cup {"none", "advancing"}
    /\ outcome \in {"ongoing", "sideA", "sideB", "fled"}
    /\ hp \in [Units -> 0..MaxHP]
    /\ budget \in [Units -> BudgetRow]
    /\ initiative \in Seq(Units)
    /\ plans \in [Units -> Seq(Entries)]
    /\ clock \in [Sides -> ClockRow]
    /\ run \in RunRow
    /\ taken \subseteq Units
  BY DEF TypeOK, BudgetRow, ClockRow, RunRow

LEMMA StoppedIsTyped == Stopped \in RunRow /\ Stopped.pc = "stopped"
  BY DEF Stopped, RunRow, Origins

LEMMA ClockRows == TypeOK => \A s \in Sides : View.clock[s] \in P!Clock
  BY ViewIsATurn DEF P!Turns, P!Sides, Sides

LEMMA NextViewIsATurn == TypeOK' => (View \in P!Turns)'
  BY ViewIsATurn, PTL

LEMMA ClockRowsNext == TypeOK' => \A s \in Sides : View'.clock[s] \in P!Clock
  BY NextViewIsATurn DEF P!Turns, P!Sides, Sides

(* The view's clocks are the clocks.                                        *)
LEMMA ViewedRows ==
  \A s \in Sides :
    /\ View.clock[s].seq = clock[s].seq /\ View'.clock[s].seq = clock'[s].seq
    /\ View.clock[s].open = clock[s].open /\ View'.clock[s].open = clock'[s].open
    /\ View.clock[s].strikes = clock[s].strikes /\ View'.clock[s].strikes = clock'[s].strikes
  BY DEF View

LEMMA RowShut ==
  ASSUME NEW r \in P!Clock, NEW q \in P!Clock, q.seq = r.seq, q.strikes = r.strikes, q.open = FALSE
  PROVE  q = [r EXCEPT !.open = FALSE]
  BY DEF P!Clock

LEMMA RowOpened ==
  ASSUME NEW r \in P!Clock, NEW q \in P!Clock, NEW n, q.seq = n, q.strikes = r.strikes,
         q.open = TRUE
  PROVE  q = [r EXCEPT !.seq = n, !.open = TRUE]
  BY DEF P!Clock

LEMMA ShutClock ==
  ASSUME NEW clk \in [Sides -> ClockRow]
  PROVE  LET shut == C!ShutAll(clk) IN
         /\ shut \in [Sides -> ClockRow]
         /\ \A s \in Sides : /\ shut[s].open = FALSE /\ shut[s].seq = clk[s].seq
                             /\ shut[s].strikes = clk[s].strikes
  BY DEF C!ShutAll, C!Sides, Sides, ClockRow

(* Once a battle has ended, that is all there is to say of it.              *)
LEMMA EndInv ==
  ASSUME TypeOK', OnBoard', outcome' # "ongoing", turn' = "none", run' = Stopped,
         \A s \in Sides : clock'[s].open = FALSE,
         \A u \in Units : plans'[u] = NoPlan,
         saved' = View'
  PROVE  Inv'
  <1>1. run'.pc = "stopped"
    BY StoppedIsTyped
  <1>2. turn' \notin Units
    BY TurnUnits
  <1>3. GoesOn' /\ Queued' /\ Windows'
    BY <1>1, <1>2 DEF GoesOn, Ongoing, Stopping, Queued, Windows
  <1>4. Points' /\ Waiting' /\ NewRound'
    BY <1>2 DEF Points, Waiting, NewRound, Ongoing
  <1>5. Chained' /\ Acting' /\ Saved'
    BY <1>1 DEF Chained, Acting, Saved, Stopping
  <1> QED BY <1>3, <1>4, <1>5 DEF Inv

LEMMA FinishTypes ==
  ASSUME TypeOK, NEW o \in Outcomes, NEW clk \in [Sides -> ClockRow], Finish(o, clk),
         UNCHANGED <<kind, first, round>>,
         hp' \in [Units -> 0..MaxHP], budget' \in [Units -> BudgetRow],
         initiative' \in Seq(Units), taken' \subseteq Units
  PROVE  TypeOK'
  <1>1. outcome' = o /\ turn' = "none" /\ run' = Stopped /\ clock' = C!ShutAll(clk)
        /\ plans' = [u \in Units |-> NoPlan]
    BY DEF Finish
  <1>2. plans' \in [Units -> Seq(Entries)]
    BY <1>1 DEF NoPlan
  <1>3. clock' \in [Sides -> ClockRow] /\ run' \in RunRow
    BY <1>1, ShutClock, StoppedIsTyped
  <1>4. outcome' \in {"ongoing", "sideA", "sideB", "fled"}
    BY <1>1 DEF Outcomes
  <1>5. kind' \in Kinds /\ first' \in Sides /\ round' \in 1..LastRound[kind']
    BY DEF TypeOK
  <1> QED BY <1>1, <1>2, <1>3, <1>4, <1>5 DEF TypeOK, BudgetRow, ClockRow, RunRow

LEMMA FinishInv ==
  ASSUME Inv, NEW o \in Outcomes, NEW clk \in [Sides -> ClockRow], Finish(o, clk), Commit,
         UNCHANGED <<kind, first, round>>,
         hp' \in [Units -> 0..MaxHP], budget' \in [Units -> BudgetRow],
         initiative' \in Seq(Units), OnBoard', taken' \subseteq Units
  PROVE  Inv' /\ saved' = View'
  <1>1. TypeOK'
    BY FinishTypes DEF Inv
  <1>2. outcome' = o /\ turn' = "none" /\ run' = Stopped /\ clock' = C!ShutAll(clk)
        /\ \A u \in Units : plans'[u] = NoPlan
    BY DEF Finish
  <1>3. saved' = View'
    BY <1>2, StoppedIsTyped DEF Commit
  <1>4. \A s \in Sides : clock'[s].open = FALSE
    BY <1>2, ShutClock
  <1>5. outcome' # "ongoing"
    BY <1>2 DEF Outcomes
  <1> QED BY <1>1, <1>2, <1>3, <1>4, <1>5, EndInv

(* The end of a battle in the middle of a chain.                            *)
LEMMA FinishSound ==
  ASSUME Inv, ~Stopping, NEW o \in Outcomes, Finish(o, clock), Commit,
         UNCHANGED <<kind, first, round>>,
         hp' \in [Units -> 0..MaxHP], \A u \in Units : hp'[u] > 0 => hp[u] > 0,
         budget' \in [Units -> BudgetRow],
         initiative' \in Seq(Units), OnBoard', taken' \subseteq Units
  PROVE  Sound
  <1>1. clock \in [Sides -> ClockRow]
    BY DEF Inv, TypeOK, ClockRow
  <1>2. Inv' /\ saved' = View'
    BY <1>1, FinishInv
  <1>3. Shut
    <2>1. clock' = C!ShutAll(clock)
      BY DEF Finish
    <2>2. \A s \in Sides : clock'[s].open = FALSE /\ clock'[s].seq = clock[s].seq
                           /\ clock'[s].strikes = clock[s].strikes
      BY <1>1, <2>1, ShutClock
    <2>3. ASSUME NEW s \in Sides PROVE View'.clock[s] = [View.clock[s] EXCEPT !.open = FALSE]
      <3>1. View.clock[s] \in P!Clock /\ View'.clock[s] \in P!Clock
        BY <1>2, ClockRows, ClockRowsNext DEF Inv
      <3>2. /\ View'.clock[s].seq = View.clock[s].seq /\ View'.clock[s].open = FALSE
            /\ View'.clock[s].strikes = View.clock[s].strikes
        BY <2>2, ViewedRows
      <3> QED BY <3>1, <3>2, RowShut
    <2> QED BY <2>3 DEF Shut
  <1>4. outcome' \in Outcomes /\ turn' = "none" /\ \A u \in Units : plans'[u] = NoPlan
    BY DEF Finish
  <1>5. P!Next
    BY <1>2, <1>3, <1>4, EndIsPromised DEF Inv
  <1> QED BY <1>2, <1>5 DEF Sound

-----------------------------------------------------------------------------
(* The records of a running call.                                           *)

LEMMA RunsOnIs ==
  ASSUME NEW o \in Seq(Units), NEW at \in Nat \ {0}
  PROVE  LET r == RunsOn(o, at) IN
         r \in RunRow /\ r.pc = "next" /\ r.order = o /\ r.at = at
  BY StoppedIsTyped DEF RunsOn, RunRow

LEMMA ExecutesIs ==
  ASSUME NEW r \in RunRow, NEW u \in Units, NEW plan \in Seq(Entries), NEW origin \in Origins,
         NEW sure \in BOOLEAN
  PROVE  LET e == Executes(r, u, plan, origin, sure) IN
         /\ e \in RunRow /\ e.pc = "exec" /\ e.order = r.order /\ e.at = r.at
         /\ e.unit = u /\ e.rest = plan /\ e.origin = origin /\ e.sure = sure
  BY DEF Executes, RunRow

LEMMA NextUnitIs ==
  ASSUME run \in RunRow
  PROVE  /\ NextUnit \in RunRow /\ NextUnit.pc = "next"
         /\ NextUnit.order = run.order /\ NextUnit.at = run.at
  <1> DEFINE none == <<>>
  <1>1. none \in Seq(Entries)
    OBVIOUS
  <1> HIDE DEF none
  <1>2. NextUnit = [run EXCEPT !.pc = "next", !.unit = "none", !.rest = none, !.sure = FALSE]
    BY DEF NextUnit, none
  <1> QED BY <1>1, <1>2 DEF RunRow

LEMMA MovedIs ==
  ASSUME run \in RunRow
  PROVE  /\ Moved \in RunRow /\ Moved.pc = run.pc /\ Moved.order = run.order
         /\ Moved.at = run.at + 1
  BY SMTT(30) DEF Moved, RunRow

(* A chain begins: it runs the initiative from where the last one stopped.  *)
LEMMA ChainBegins ==
  ASSUME Inv, Stopping, Ongoing, UNCHANGED <<hp, initiative, taken>>,
         run'.order = initiative, run'.at \in Nat \ {0},
         \A i \in DOMAIN initiative : initiative[i] \in taken <=> i < run'.at
  PROVE  Chained'
  <1>1. initiative \in Seq(Units)
    BY DEF Inv, TypeOK
  <1>2. DOMAIN initiative = 1 .. Len(initiative) /\ Len(initiative) \in Nat
    BY <1>1
  <1>3. /\ \A i, j \in DOMAIN initiative : initiative[i] = initiative[j] => i = j
        /\ \A u \in Units : hp[u] > 0 <=> \E i \in DOMAIN initiative : initiative[i] = u
    BY DEF Inv, OnBoard
  <1>4. Due' = {initiative[i] : i \in {j \in DOMAIN initiative : j >= run'.at}}
    BY DEF Due
  <1>5. \A u \in Units : hp'[u] > 0 => u \in taken' \cup Due'
    <2> SUFFICES ASSUME NEW u \in Units, hp[u] > 0, u \notin taken PROVE u \in Due'
      OBVIOUS
    <2>1. PICK i \in DOMAIN initiative : initiative[i] = u
      BY <1>3
    <2>2. i >= run'.at
      BY <1>2, <2>1
    <2> QED BY <1>4, <2>1, <2>2
  <1>6. taken' \cap Due' = {}
    <2> SUFFICES ASSUME NEW u \in Due' PROVE u \notin taken
      OBVIOUS
    <2>1. PICK i \in DOMAIN initiative : i >= run'.at /\ initiative[i] = u
      BY <1>4
    <2> QED BY <1>2, <2>1
  <1>7. \A i, j \in DOMAIN initiative : i < j /\ initiative[j] \in taken => initiative[i] \in taken
    BY <1>2
  <1>8. \A p, q \in DOMAIN initiative, i, j \in DOMAIN initiative :
          p < q /\ initiative[p] = initiative[i] /\ initiative[q] = initiative[j] => i < j
    BY <1>3
  <1> QED BY <1>3, <1>5, <1>6, <1>7, <1>8 DEF Chained, Stopping

(* A call runs on: what the world sees of the battle stays.                 *)
LEMMA StaysInStep ==
  ASSUME Inv, ~Stopping, run'.pc # "stopped", Commit, UNCHANGED <<kind, round, outcome>>,
         \A u \in Units : hp'[u] > 0 => hp[u] > 0,
         \A u \in Units : plans'[u] # NoPlan => plans[u] # NoPlan,
         View'.clock = View.clock
  PROVE  Saved' /\ saved' = saved
  <1>1. saved' = saved
    BY DEF Commit
  <1>2. PICK b \in Bases(saved) : InStep(b)
    BY DEF Inv, Saved
  <1>3. View'.alive \subseteq View.alive /\ View'.plans \subseteq View.plans
    BY DEF View, Alive
  <1>4. InStep(b)'
    <2>1. b.kind = kind' /\ b.round = round' /\ b.outcome = outcome'
      BY <1>2 DEF InStep
    <2>2. View'.alive \subseteq b.alive /\ View'.plans \subseteq b.plans /\ b.clock = View'.clock
      BY <1>2, <1>3 DEF InStep
    <2> QED BY <2>1, <2>2 DEF InStep
  <1>5. Bases(saved)' = Bases(saved) /\ (\A u : Owned(u)' <=> Owned(u))
    BY <1>1 DEF Bases, Answered, Struck, Owned, C!Owned
  <1> QED BY <1>1, <1>2, <1>4, <1>5 DEF Inv, Saved, Stopping

(* The clocks keep what the world sees of them.                             *)
LEMMA ClocksLookAlike ==
  ASSUME \A s \in Sides : /\ clock'[s].seq = clock[s].seq /\ clock'[s].open = clock[s].open
                          /\ clock'[s].strikes = clock[s].strikes
  PROVE  View'.clock = View.clock
  BY DEF View

LEMMA BoardKept ==
  ASSUME OnBoard, UNCHANGED <<hp, initiative>>
  PROVE  OnBoard'
  BY DEF OnBoard

LEMMA GoesOnKept ==
  ASSUME GoesOn, Ongoing, UNCHANGED <<hp, outcome>>,
         \A s \in Sides : clock'[s].strikes = clock[s].strikes
  PROVE  GoesOn'
  BY DEF GoesOn, Ongoing

LEMMA QueueKept ==
  ASSUME Queued, UNCHANGED <<hp, kind>>,
         \A u \in Units : plans'[u] # NoPlan => plans[u] # NoPlan
  PROVE  Queued'
  BY DEF Queued, Owned, C!Owned

-----------------------------------------------------------------------------
(* The inputs.                                                              *)

LEMMA StartSound ==
  ASSUME Inv, Commit, Start \/ Advance
  PROVE  Sound
  <1>1. /\ Stopping /\ Ongoing /\ turn \notin Units
        /\ run' = RunsOn(initiative, 1)
        /\ UNCHANGED <<kind, first, round, turn, outcome, hp, budget, initiative, plans, clock, taken>>
    BY TurnUnits DEF Start, Advance, Ready, Stopping, Ongoing, board
  <1>2. initiative \in Seq(Units)
    BY DEF Inv, TypeOK
  <1>3. run' \in RunRow /\ run'.pc = "next" /\ run'.order = initiative /\ run'.at = 1
    BY <1>1, <1>2, RunsOnIs
  <1>4. TypeOK'
    BY <1>1, <1>3 DEF Inv, TypeOK, RunRow
  <1>5. OnBoard' /\ GoesOn' /\ Queued'
    BY <1>1, BoardKept, GoesOnKept, QueueKept DEF Inv
  <1>6. Windows'
    BY <1>1, <1>3 DEF Inv, Windows, Stopping
  <1>7. Points'
    <2>1. \A u \in Units : hp[u] > 0 => budget[u] = Idle
      BY <1>1 DEF Inv, Points, Stopping
    <2> QED BY <1>1, <2>1 DEF Points, Idle
  <1>8. Waiting' /\ NewRound' /\ Acting'
    BY <1>3 DEF Waiting, NewRound, Acting, Stopping
  <1>9. Chained'
    <2>1. taken = {}
      BY <1>1 DEF Inv, NewRound
    <2>2. DOMAIN initiative = 1 .. Len(initiative)
      BY <1>2
    <2>3. \A i \in DOMAIN initiative : initiative[i] \in taken <=> i < run'.at
      BY <1>3, <2>1, <2>2
    <2> QED BY <1>1, <1>3, <2>3, ChainBegins
  <1>10. Saved' /\ saved' = saved
    <2>1. saved' = saved /\ saved = View /\ View \in P!Turns
      BY <1>1, <1>3, ViewIsATurn DEF Commit, Inv, Saved
    <2>2. View' = View
      BY <1>1 DEF View, Alive
    <2>3. saved.turn = turn /\ saved.outcome = outcome
      BY <2>1 DEF View
    <2>4. saved \in Bases(saved)' /\ InStep(saved)'
      BY <1>1, <2>1, <2>2, <2>3 DEF Bases, InStep, View
    <2>5. saved' \in P!Turns /\ saved'.outcome = "ongoing" /\ saved'.turn \notin Units
      BY <1>1, <2>1, <2>3 DEF Ongoing
    <2>6. ~Stopping'
      BY <1>3 DEF Stopping
    <2> QED BY <2>1, <2>4, <2>5, <2>6 DEF Saved
  <1> QED BY <1>4, <1>5, <1>6, <1>7, <1>8, <1>9, <1>10 DEF Sound, Inv

(* The queue changes while nothing runs.                                    *)
LEMMA QueueInv ==
  ASSUME Inv, Commit, Stopping, Ongoing, NEW u \in Units, NEW plan \in Seq(Entries),
         plans' = [plans EXCEPT ![u] = plan],
         plan # NoPlan => hp[u] > 0 /\ Owned(u) /\ turn # u,
         UNCHANGED <<kind, first, round, turn, outcome, hp, budget, initiative, clock, run, taken>>
  PROVE  Inv' /\ saved = View /\ saved' = View' /\ saved \in P!Turns /\ saved' \in P!Turns
  <1>1. TypeOK'
    BY DEF Inv, TypeOK
  <1>2. OnBoard' /\ GoesOn'
    BY BoardKept, GoesOnKept DEF Inv
  <1>3. Queued'
    BY DEF Inv, Queued, TypeOK, Owned, C!Owned
  <1>4. Windows' /\ Points' /\ NewRound'
    BY DEF Inv, Windows, Points, NewRound, Stopping, Ongoing
  <1>5. Waiting'
    <2>1. turn \in Units => plans'[turn] = NoPlan
      BY DEF Inv, Waiting, TypeOK, NoPlan
    <2>2. Latest(turn)' <=> Latest(turn)
      BY DEF Latest
    <2> QED BY <2>1, <2>2 DEF Inv, Waiting, Stopping, Owned, C!Owned
  <1>6. Chained' /\ Acting'
    BY DEF Stopping, Chained, Acting
  <1>7. saved = View /\ saved' = View'
    BY DEF Inv, Saved, Stopping, Commit
  <1>8. Saved' /\ saved \in P!Turns
    BY <1>7, ViewIsATurn DEF Inv, Saved, Stopping
  <1>9. saved' \in P!Turns
    BY <1>1, <1>7, NextViewIsATurn
  <1> QED BY <1>1, <1>2, <1>3, <1>4, <1>5, <1>6, <1>7, <1>8, <1>9 DEF Inv

LEMMA OnlyPlans ==
  ASSUME NEW b \in P!Turns, NEW c \in P!Turns, NEW q,
         c.kind = b.kind, c.round = b.round, c.turn = b.turn, c.outcome = b.outcome,
         c.alive = b.alive, c.clock = b.clock, c.plans = q
  PROVE  c = [b EXCEPT !.plans = q]
  BY DEF P!Turns

LEMMA SubmitQueuedSound ==
  ASSUME Inv, Commit, NEW u \in Units, NEW plan \in PlayerPlans, SubmitQueued(u, plan)
  PROVE  Sound
  <1> DEFINE stored == WithEnd(plan)
  <1>1. plan \in Seq(Entries)
    BY TurnPlans
  <1>2. stored \in Seq(Entries) /\ stored # NoPlan
    <2>1. "end" \in Entries
      BY DEF Entries
    <2>2. Append(plan, "end") \in Seq(Entries) /\ Len(Append(plan, "end")) = Len(plan) + 1
      BY <1>1, <2>1
    <2>3. Len(plan) \in Nat /\ Len(<<>>) = 0
      BY <1>1
    <2>4. Append(plan, "end") # <<>>
      BY <2>2, <2>3
    <2> QED BY <1>1, <2>2, <2>4 DEF WithEnd, NoPlan
  <1>3. /\ Stopping /\ Ongoing /\ hp[u] > 0 /\ Owned(u) /\ turn # u
        /\ plans' = [plans EXCEPT ![u] = stored]
        /\ UNCHANGED <<kind, first, round, turn, outcome, hp, budget, initiative, clock, run, taken>>
    BY DEF SubmitQueued, Ready, CanAct, Stopping, Ongoing, board
  <1> HIDE DEF stored
  <1>4. Inv' /\ saved = View /\ saved' = View' /\ saved \in P!Turns /\ saved' \in P!Turns
    BY <1>2, <1>3, QueueInv
  <1>5. saved' \in P!AfterSubmit(saved, u)
    <2>1. /\ saved.outcome = "ongoing" /\ saved.turn = turn /\ u \in saved.alive
          /\ P!Owned(saved.kind, u)
      BY <1>3, <1>4 DEF View, Alive, Ongoing, Owned, C!Owned, P!Owned
    <2>2. View'.plans = View.plans \cup {u}
      BY <1>2, <1>3, ZenonT(40) DEF View, Inv, TypeOK
    <2>3. saved' = [saved EXCEPT !.plans = saved.plans \cup {u}]
      <3>1. /\ View'.kind = View.kind /\ View'.round = View.round /\ View'.turn = View.turn
            /\ View'.outcome = View.outcome /\ View'.alive = View.alive
            /\ View'.clock = View.clock
        BY <1>3 DEF View, Alive
      <3> QED BY <1>4, <2>2, <3>1, OnlyPlans
    <2> QED BY <1>3, <2>1, <2>3 DEF P!AfterSubmit
  <1> QED BY <1>4, <1>5 DEF Sound, P!Next

LEMMA CancelQueueSound ==
  ASSUME Inv, Commit, NEW u \in Units, CancelQueue(u)
  PROVE  Sound
  <1>1. /\ Stopping /\ plans[u] # NoPlan
        /\ plans' = [plans EXCEPT ![u] = NoPlan]
        /\ UNCHANGED <<kind, first, round, turn, outcome, hp, budget, initiative, clock, run, taken>>
    BY DEF CancelQueue, Ready, Stopping, board
  <1>2. Ongoing
    BY <1>1 DEF Inv, GoesOn
  <1>3. NoPlan \in Seq(Entries)
    BY DEF NoPlan
  <1>4. Inv' /\ saved = View /\ saved' = View' /\ saved \in P!Turns /\ saved' \in P!Turns
    BY <1>1, <1>2, <1>3, QueueInv
  <1>5. saved' \in P!AfterCancel(saved, u)
    <2>1. u \in View.plans /\ View'.plans = View.plans \ {u}
      BY <1>1 DEF View, Inv, TypeOK
    <2>2. saved' = [saved EXCEPT !.plans = saved.plans \ {u}]
      <3>1. /\ View'.kind = View.kind /\ View'.round = View.round /\ View'.turn = View.turn
            /\ View'.outcome = View.outcome /\ View'.alive = View.alive
            /\ View'.clock = View.clock
        BY <1>1 DEF View, Alive
      <3> QED BY <1>4, <2>1, <3>1, OnlyPlans
    <2> QED BY <1>4, <2>1, <2>2 DEF P!AfterCancel
  <1> QED BY <1>4, <1>5 DEF Sound, P!Next

LEMMA SameRows ==
  ASSUME NEW c \in [Sides -> P!Clock], NEW d \in [Sides -> P!Clock],
         \A s \in Sides : c[s].seq = d[s].seq /\ c[s].open = d[s].open /\ c[s].strikes = d[s].strikes
  PROVE  c = d
  <1>1. ASSUME NEW s \in Sides PROVE c[s] = d[s]
    <2>1. c[s] \in P!Clock /\ d[s] \in P!Clock
      OBVIOUS
    <2> QED BY <2>1 DEF P!Clock
  <1> QED BY <1>1

(* The battle a call works on, field by field.                              *)
LEMMA AnsweredIs ==
  ASSUME NEW b \in P!Turns, b.turn \in Units
  PROVE  LET a == Answered(b) IN
         /\ a.kind = b.kind /\ a.round = b.round /\ a.outcome = b.outcome
         /\ a.alive = b.alive /\ a.plans = b.plans
         /\ a.clock \in [Sides -> P!Clock]
         /\ \A s \in Sides : /\ a.clock[s].seq = b.clock[s].seq
                             /\ a.clock[s].strikes = b.clock[s].strikes
                             /\ s = SideOf[b.turn] => a.clock[s].open = FALSE
                             /\ s # SideOf[b.turn] => a.clock[s].open = b.clock[s].open
  <1> DEFINE t == SideOf[b.turn]
             c == [b.clock EXCEPT ![t].open = FALSE]
  <1>1. t \in Sides /\ b.clock \in [Sides -> P!Clock]
    BY TurnUnits DEF P!Turns, P!Sides, Sides
  <1>2. c \in [Sides -> P!Clock]
    BY <1>1 DEF P!Clock
  <1>3. \A s \in Sides : /\ c[s].seq = b.clock[s].seq /\ c[s].strikes = b.clock[s].strikes
                         /\ s = t => c[s].open = FALSE
                         /\ s # t => c[s].open = b.clock[s].open
    BY <1>1 DEF P!Clock
  <1>4. Answered(b) = [b EXCEPT !.clock = c]
    BY DEF Answered, P!Turns
  <1> HIDE DEF c
  <1> QED BY <1>2, <1>3, <1>4 DEF P!Turns

LEMMA StruckIs ==
  ASSUME NEW b \in P!Turns, b.turn \in Units, b.clock[SideOf[b.turn]].strikes + 1 <= Forfeit
  PROVE  LET a == Struck(b) IN
         /\ a \in P!Turns
         /\ a.kind = b.kind /\ a.round = b.round /\ a.outcome = b.outcome
         /\ a.alive = b.alive /\ a.plans = b.plans
         /\ a.clock \in [Sides -> P!Clock]
         /\ \A s \in Sides :
              /\ a.clock[s].seq = b.clock[s].seq
              /\ s = SideOf[b.turn] => /\ a.clock[s].strikes = b.clock[s].strikes + 1
                                       /\ a.clock[s].open = FALSE
              /\ s # SideOf[b.turn] => /\ a.clock[s].strikes = b.clock[s].strikes
                                       /\ a.clock[s].open = b.clock[s].open
  <1> DEFINE t == SideOf[b.turn]
             c == [b.clock EXCEPT ![t].open = FALSE, ![t].strikes = @ + 1]
  <1>1. t \in Sides /\ b.clock \in [Sides -> P!Clock] /\ Sides = P!Sides
    BY TurnUnits DEF P!Turns, P!Sides, Sides
  <1>2. b.clock[t].strikes \in Nat /\ b.clock[t].strikes + 1 \in 0 .. Forfeit
    BY <1>1, TurnTuning DEF P!Clock
  <1>3. c \in [Sides -> P!Clock]
    BY <1>1, <1>2 DEF P!Clock
  <1>4. \A s \in Sides : /\ c[s].seq = b.clock[s].seq
                         /\ s = t => /\ c[s].strikes = b.clock[s].strikes + 1
                                     /\ c[s].open = FALSE
                         /\ s # t => /\ c[s].strikes = b.clock[s].strikes
                                     /\ c[s].open = b.clock[s].open
    BY <1>1, <1>2 DEF P!Clock
  <1>5. Struck(b) = [b EXCEPT !.clock = c]
    BY ZenonT(40) DEF Struck, P!Turns
  <1> HIDE DEF c
  <1> QED BY <1>1, <1>3, <1>4, <1>5 DEF P!Turns

(* Where the round goes on after u.                                         *)
LEMMA Resumption ==
  ASSUME Inv, Stopping, turn \in Units
  PROVE  LET r == ResumesAfter(turn) IN
         /\ r \in RunRow /\ r.pc = "next" /\ r.order = initiative /\ r.at \in Nat \ {0}
         /\ \A i \in DOMAIN initiative : initiative[i] \in taken <=> i < r.at
  <1>1. initiative \in Seq(Units) /\ OnBoard /\ hp[turn] > 0 /\ Latest(turn)
    BY DEF Inv, TypeOK, Waiting
  <1>2. PICK k \in DOMAIN initiative : initiative[k] = turn
    BY <1>1 DEF OnBoard
  <1>3. Position(turn) = k
    BY <1>1, <1>2, PositionIs
  <1>4. DOMAIN initiative = 1 .. Len(initiative) /\ Len(initiative) \in Nat
    BY <1>1
  <1>5. k \in Nat /\ k + 1 \in Nat \ {0}
    BY <1>2, <1>4
  <1>6. \A i \in DOMAIN initiative : initiative[i] \in taken <=> i < k + 1
    BY <1>1, <1>2, <1>4, <1>5 DEF Latest
  <1> QED BY <1>1, <1>3, <1>5, <1>6, RunsOnIs DEF ResumesAfter

(* The battle before a call that answers or misses a window.                *)
LEMMA SavedWaits ==
  ASSUME Inv, Stopping, turn \in Units
  PROVE  /\ saved = View /\ saved \in P!Turns /\ Ongoing
         /\ saved.turn = turn /\ saved.outcome = "ongoing" /\ saved.kind = kind
         /\ saved.round = round /\ saved.turn \in saved.alive
         /\ saved.clock[SideOf[saved.turn]].open /\ Owned(turn)
  <1>1. saved = View /\ saved \in P!Turns
    BY ViewIsATurn DEF Inv, Saved
  <1>2. Ongoing
    BY TurnUnits DEF Inv, GoesOn
  <1>3. hp[turn] > 0 /\ Owned(turn)
    BY DEF Inv, Waiting
  <1>4. SideOf[turn] \in Sides /\ clock[SideOf[turn]].open
    BY TurnUnits DEF Inv, Windows, Sides
  <1>5. View.clock[SideOf[turn]].open
    BY <1>4, ViewedRows
  <1> QED BY <1>1, <1>2, <1>3, <1>5 DEF View, Alive, Ongoing

(* ... and while it runs.                                                   *)
LEMMA CallBegins ==
  ASSUME Inv, Stopping, turn \in Units, Commit, TypeOK', run'.pc # "stopped",
         UNCHANGED <<kind, round, outcome, hp, plans>>,
         NEW a \in Bases(saved),
         a.kind = saved.kind, a.round = saved.round, a.outcome = saved.outcome,
         a.alive = saved.alive, a.plans = saved.plans, a.clock \in [Sides -> P!Clock],
         \A s \in Sides : /\ clock'[s].seq = a.clock[s].seq /\ clock'[s].open = a.clock[s].open
                          /\ clock'[s].strikes = a.clock[s].strikes
  PROVE  Saved' /\ saved' = saved
  <1>1. /\ saved = View /\ saved \in P!Turns /\ Ongoing
        /\ saved.turn = turn /\ saved.outcome = "ongoing" /\ saved.kind = kind
        /\ saved.round = round /\ saved.turn \in saved.alive
        /\ saved.clock[SideOf[saved.turn]].open /\ Owned(turn)
    BY SavedWaits
  <1>2. saved' = saved /\ ~Stopping'
    BY DEF Commit, Stopping
  <1>3. View'.clock = a.clock
    <2>1. View'.clock \in [Sides -> P!Clock]
      BY NextViewIsATurn DEF P!Turns, P!Sides, Sides
    <2>2. \A s \in Sides : /\ View'.clock[s].seq = a.clock[s].seq
                           /\ View'.clock[s].open = a.clock[s].open
                           /\ View'.clock[s].strikes = a.clock[s].strikes
      BY ViewedRows
    <2> QED BY <2>1, <2>2, SameRows
  <1>4. View'.alive = saved.alive /\ View'.plans = saved.plans
    BY <1>1 DEF View, Alive
  <1>5. /\ a.kind = kind' /\ a.round = round' /\ a.outcome = outcome'
        /\ View'.alive \subseteq a.alive /\ View'.plans \subseteq a.plans
        /\ a.clock = View'.clock
    BY <1>1, <1>3, <1>4 DEF Ongoing
  <1>6. InStep(a)'
    BY <1>5 DEF InStep
  <1>7. Bases(saved') = Bases(saved)
    BY <1>2
  <1>8. /\ saved'.turn \in saved'.alive /\ C!Owned(kind', saved'.turn)
        /\ saved'.clock[SideOf[saved'.turn]].open
    BY <1>1, <1>2 DEF Owned
  <1>9. \E b \in Bases(saved') : InStep(b)'
    BY <1>6, <1>7
  <1>10. saved' \in P!Turns /\ saved'.outcome = "ongoing"
    BY <1>1, <1>2
  <1> HIDE DEF Stopping
  <1> QED BY <1>2, <1>8, <1>9, <1>10 DEF Saved, Owned

LEMMA SubmitLiveSound ==
  ASSUME Inv, Commit, NEW u \in Units, NEW plan \in PlayerPlans, SubmitLive(u, plan)
  PROVE  Sound
  <1>1. /\ Stopping /\ Ongoing /\ hp[u] > 0 /\ turn = u /\ plan # <<>>
        /\ clock' = [clock EXCEPT ![SideOf[u]].open = FALSE]
        /\ run' = Executes(ResumesAfter(u), u, plan, "Live", TRUE)
        /\ UNCHANGED <<kind, first, round, turn, outcome, hp, budget, initiative, plans, taken>>
    BY DEF SubmitLive, GateAnswers, Ready, CanAct, Stopping, Ongoing, board
  <1>2. plan \in Seq(Entries) /\ SideOf[u] \in Sides
    BY TurnPlans, TurnUnits DEF Sides
  <1> DEFINE r == ResumesAfter(u)
  <1>3. /\ r \in RunRow /\ r.order = initiative /\ r.at \in Nat \ {0}
        /\ \A i \in DOMAIN initiative : initiative[i] \in taken <=> i < r.at
    BY <1>1, Resumption
  <1>4. /\ run' \in RunRow /\ run'.pc = "exec" /\ run'.order = initiative /\ run'.at = r.at
        /\ run'.unit = u /\ run'.rest = plan /\ run'.origin = "Live" /\ run'.sure = TRUE
    <2>1. run' = Executes(r, u, plan, "Live", TRUE)
      BY <1>1
    <2>2. "Live" \in Origins /\ TRUE \in BOOLEAN
      BY DEF Origins
    <2>3. u \in Units /\ r \in RunRow
      BY <1>3
    <2> HIDE DEF r
    <2>4. LET e == Executes(r, u, plan, "Live", TRUE) IN
          /\ e \in RunRow /\ e.pc = "exec" /\ e.order = r.order /\ e.at = r.at
          /\ e.unit = u /\ e.rest = plan /\ e.origin = "Live" /\ e.sure = TRUE
      BY ONLY <1>2, <2>2, <2>3, ExecutesIs
    <2> QED BY <1>3, <2>1, <2>4
  <1> HIDE DEF r
  <1>5. clock \in [Sides -> ClockRow]
    BY DEF Inv, TypeOK, ClockRow
  <1>6. /\ clock' \in [Sides -> ClockRow]
        /\ \A s \in Sides : /\ clock'[s].seq = clock[s].seq /\ clock'[s].strikes = clock[s].strikes
                            /\ clock'[s].windows = clock[s].windows
                            /\ s = SideOf[u] => clock'[s].open = FALSE
                            /\ s # SideOf[u] => clock'[s].open = clock[s].open
    BY <1>1, <1>2, <1>5 DEF ClockRow
  <1>7. TypeOK'
    BY <1>1, <1>4, <1>6, Types DEF Inv, TypeOK, RunRow, ClockRow
  <1>8. OnBoard' /\ GoesOn' /\ Queued'
    BY <1>1, <1>6, BoardKept, GoesOnKept, QueueKept DEF Inv
  <1>9. Windows'
    BY <1>1, <1>4, <1>6 DEF Inv, Windows, Stopping
  <1>10. Points'
    BY <1>1, <1>4 DEF Inv, Points, Stopping, Ongoing, Idle
  <1>11. Waiting' /\ NewRound'
    BY <1>4 DEF Waiting, NewRound, Stopping
  <1>12. Chained'
    BY <1>1, <1>3, <1>4, ChainBegins
  <1>13. Acting'
    <2>1. /\ hp[u] > 0 /\ Owned(u) /\ plans[u] = NoPlan /\ Latest(u)
          /\ budget[u].ap + clock[SideOf[u]].windows * MinCost <= ApTurn + MinCost
      BY <1>1 DEF Inv, Waiting
    <2>2. Latest(u)'
      BY <1>1, <2>1 DEF Latest
    <2>3. clock'[SideOf[u]].windows = clock[SideOf[u]].windows
      BY <1>2, <1>6
    <2> QED BY <1>1, <1>4, <2>1, <2>2, <2>3 DEF Acting, Owned, C!Owned
  <1>14. Saved' /\ saved' = saved
    <2>1. /\ saved = View /\ saved \in P!Turns /\ saved.turn = u /\ saved.outcome = "ongoing"
          /\ saved.kind = kind /\ saved.round = round /\ saved.turn \in saved.alive
          /\ saved.clock[SideOf[saved.turn]].open /\ Owned(u)
      BY <1>1, SavedWaits
    <2> DEFINE a == Answered(saved)
    <2>2. /\ a.kind = saved.kind /\ a.round = saved.round /\ a.outcome = saved.outcome
          /\ a.alive = saved.alive /\ a.plans = saved.plans /\ a.clock \in [Sides -> P!Clock]
          /\ \A s \in Sides : /\ a.clock[s].seq = saved.clock[s].seq
                              /\ a.clock[s].strikes = saved.clock[s].strikes
                              /\ s = SideOf[u] => a.clock[s].open = FALSE
                              /\ s # SideOf[u] => a.clock[s].open = saved.clock[s].open
      BY <2>1, AnsweredIs, ZenonT(40)
    <2>3. a \in Bases(saved)
      BY <1>1, <2>1 DEF Bases
    <2> HIDE DEF a
    <2>4. \A s \in Sides : /\ clock'[s].seq = a.clock[s].seq /\ clock'[s].open = a.clock[s].open
                           /\ clock'[s].strikes = a.clock[s].strikes
      <3> SUFFICES ASSUME NEW s \in Sides
                   PROVE  /\ clock'[s].seq = a.clock[s].seq /\ clock'[s].open = a.clock[s].open
                          /\ clock'[s].strikes = a.clock[s].strikes
        OBVIOUS
      <3>1. /\ saved.clock[s].seq = clock[s].seq /\ saved.clock[s].open = clock[s].open
            /\ saved.clock[s].strikes = clock[s].strikes
        BY <2>1, ViewedRows
      <3>2. CASE s = SideOf[u]
        BY <1>6, <2>2, <3>1, <3>2
      <3>3. CASE s # SideOf[u]
        BY <1>6, <2>2, <3>1, <3>3
      <3> QED BY <3>2, <3>3
    <2>5. UNCHANGED <<kind, round, outcome, hp, plans>> /\ turn \in Units /\ run'.pc # "stopped"
      BY <1>1, <1>4
    <2> QED BY <1>1, <1>7, <2>2, <2>3, <2>4, <2>5, CallBegins
  <1> QED BY <1>7, <1>8, <1>9, <1>10, <1>11, <1>12, <1>13, <1>14 DEF Sound, Inv

LEMMA ExpireSound ==
  ASSUME Inv, Commit, NEW u \in Units, Expire(u)
  PROVE  Sound
  <1> DEFINE t == SideOf[u]
             closed == [clock EXCEPT ![t].open = FALSE]
             struck == [closed EXCEPT ![t].strikes = @ + 1]
  <1>1. /\ Stopping /\ turn = u
        /\ UNCHANGED <<kind, first, round, hp, initiative, taken>>
    BY DEF Expire, Ready, Stopping
  <1>2. /\ saved = View /\ saved \in P!Turns /\ Ongoing
        /\ saved.turn = u /\ saved.outcome = "ongoing" /\ saved.kind = kind
        /\ saved.round = round /\ saved.clock[SideOf[u]].open /\ Owned(u)
    BY <1>1, SavedWaits
  <1>3. t \in Sides /\ clock \in [Sides -> ClockRow] /\ clock[t].strikes < Forfeit
    BY <1>2, TurnUnits, ZenonT(40) DEF Sides, Inv, TypeOK, ClockRow, GoesOn
  <1>4. /\ closed \in [Sides -> ClockRow]
        /\ \A s \in Sides : /\ closed[s].seq = clock[s].seq /\ closed[s].strikes = clock[s].strikes
                            /\ closed[s].windows = clock[s].windows
                            /\ s = t => closed[s].open = FALSE
                            /\ s # t => closed[s].open = clock[s].open
    BY <1>3 DEF ClockRow
  <1>5. /\ struck \in [Sides -> ClockRow]
        /\ \A s \in Sides : /\ struck[s].seq = clock[s].seq
                            /\ struck[s].windows = clock[s].windows
                            /\ s = t => /\ struck[s].strikes = clock[s].strikes + 1
                                        /\ struck[s].open = FALSE
                            /\ s # t => /\ struck[s].strikes = clock[s].strikes
                                        /\ struck[s].open = clock[s].open
    <2> HIDE DEF closed
    <2>1. clock[t].strikes + 1 \in 0 .. Forfeit
      BY <1>3, TurnTuning DEF ClockRow
    <2>2. closed[t].strikes + 1 \in 0 .. Forfeit
      BY <1>3, <1>4, <2>1
    <2> QED BY <1>3, <1>4, <2>2 DEF ClockRow
  <1>6. \A s \in Sides : /\ saved.clock[s].seq = clock[s].seq
                         /\ saved.clock[s].open = clock[s].open
                         /\ saved.clock[s].strikes = clock[s].strikes
    BY <1>2, ViewedRows
  <1>7. \A s \in Sides : s # t => clock[s].open = FALSE
    BY <1>1, <1>3 DEF Inv, Windows, ClockRow
  <1>8. OnBoard' /\ View'.alive = saved.alive
    BY <1>1, <1>2, BoardKept DEF Inv, View, Alive
  <1>9. Expire(u) => IF kind = "wild" THEN Finish("fled", closed) /\ UNCHANGED budget
                     ELSE /\ budget' = [budget EXCEPT ![u] = Idle]
                          /\ IF struck[t].strikes >= Forfeit
                             THEN Finish(C!WinFor(C!Other(t)), struck)
                             ELSE /\ clock' = struck /\ run' = ResumesAfter(u)
                                  /\ UNCHANGED <<turn, outcome, plans>>
    BY DEF Expire
  <1> HIDE DEF closed, struck
  <1>10. /\ hp' \in [Units -> 0..MaxHP] /\ initiative' \in Seq(Units) /\ taken' \subseteq Units
         /\ budget' \in [Units -> BudgetRow]
    <2>1. budget \in [Units -> BudgetRow] /\ Idle \in BudgetRow
      BY TurnTuning DEF Inv, TypeOK, BudgetRow, Idle
    <2> QED BY <1>1, <1>9, <2>1, ZenonT(40) DEF Inv, TypeOK
  <1>11. CASE kind = "wild"
    <2>1. Finish("fled", closed) /\ "fled" \in Outcomes
      BY <1>9, <1>11 DEF Outcomes
    <2>2. Inv' /\ saved' = View'
      BY <1>1, <1>4, <1>8, <1>10, <2>1, FinishInv
    <2>3. \A s \in Sides : View'.clock[s] = [saved.clock[s] EXCEPT !.open = FALSE]
      <3> SUFFICES ASSUME NEW s \in Sides
                   PROVE  View'.clock[s] = [saved.clock[s] EXCEPT !.open = FALSE]
        OBVIOUS
      <3>1. saved.clock[s] \in P!Clock /\ View'.clock[s] \in P!Clock
        BY <1>2, <2>2, ClockRows, ClockRowsNext DEF Inv
      <3>2. /\ clock'[s].open = FALSE /\ clock'[s].seq = closed[s].seq
            /\ clock'[s].strikes = closed[s].strikes
        BY <1>4, <2>1, ShutClock DEF Finish
      <3>3. /\ View'.clock[s].open = FALSE /\ View'.clock[s].seq = saved.clock[s].seq
            /\ View'.clock[s].strikes = saved.clock[s].strikes
        BY <1>4, <1>6, <3>2, ViewedRows
      <3> QED BY <3>1, <3>3, RowShut
    <2>4. View' = P!Ended(saved, "fled", View'.alive)
      BY <1>1, <1>2, <2>1, <2>3, LooksEnded DEF Finish
    <2>5. saved' \in P!AfterExpire(saved, u, saved.clock[SideOf[u]].seq)
      BY <1>2, <1>8, <1>11, <2>2, <2>4 DEF P!AfterExpire
    <2> QED BY <1>2, <2>2, <2>5 DEF Sound, P!Next
  <1>12. CASE kind # "wild" /\ struck[t].strikes >= Forfeit
    <2> DEFINE o == C!WinFor(C!Other(t))
               p == Struck(saved)
    <2>1. Finish(o, struck) /\ o \in Outcomes
      BY <1>9, <1>12 DEF Outcomes, C!WinFor
    <2>2. Inv' /\ saved' = View'
      <3> HIDE DEF o
      <3> QED BY <1>1, <1>5, <1>8, <1>10, <2>1, FinishInv
    <2>3. saved.clock[t].strikes + 1 = Forfeit
      BY <1>3, <1>5, <1>6, <1>12, TurnTuning DEF ClockRow
    <2>4. /\ p \in P!Turns /\ p.kind = saved.kind /\ p.round = saved.round
          /\ p.clock \in [Sides -> P!Clock]
          /\ \A s \in Sides :
              /\ p.clock[s].seq = saved.clock[s].seq
              /\ s = t => p.clock[s].strikes = saved.clock[s].strikes + 1
              /\ s # t => p.clock[s].strikes = saved.clock[s].strikes
      <3>1. saved.turn \in Units /\ SideOf[saved.turn] = t
        BY <1>2
      <3>2. saved.clock[SideOf[saved.turn]].strikes + 1 <= Forfeit
        BY <2>3, <3>1, TurnTuning
      <3>3. saved \in P!Turns
        BY <1>2
      <3>4. LET x == Struck(saved) IN
          /\ x \in P!Turns
          /\ x.kind = saved.kind /\ x.round = saved.round /\ x.outcome = saved.outcome
          /\ x.alive = saved.alive /\ x.plans = saved.plans
          /\ x.clock \in [Sides -> P!Clock]
          /\ \A s \in Sides :
               /\ x.clock[s].seq = saved.clock[s].seq
               /\ s = SideOf[saved.turn] => /\ x.clock[s].strikes = saved.clock[s].strikes + 1
                                            /\ x.clock[s].open = FALSE
               /\ s # SideOf[saved.turn] => /\ x.clock[s].strikes = saved.clock[s].strikes
                                            /\ x.clock[s].open = saved.clock[s].open
        BY ONLY <3>1, <3>2, <3>3, StruckIs, Zenon
      <3> QED BY <3>1, <3>4
    <2> HIDE DEF p
    <2>5. \A s \in Sides : View'.clock[s] = [p.clock[s] EXCEPT !.open = FALSE]
      <3> SUFFICES ASSUME NEW s \in Sides
                   PROVE  View'.clock[s] = [p.clock[s] EXCEPT !.open = FALSE]
        OBVIOUS
      <3>1. p.clock[s] \in P!Clock /\ View'.clock[s] \in P!Clock
        BY <2>2, <2>4, ClockRowsNext DEF Inv
      <3>2. /\ clock'[s].open = FALSE /\ clock'[s].seq = struck[s].seq
            /\ clock'[s].strikes = struck[s].strikes
        BY <1>5, <2>1, ShutClock DEF Finish
      <3>3. /\ View'.clock[s].open = FALSE /\ View'.clock[s].seq = p.clock[s].seq
            /\ View'.clock[s].strikes = p.clock[s].strikes
        BY <1>5, <1>6, <2>4, <3>2, ViewedRows
      <3> QED BY <3>1, <3>3, RowShut
    <2>6. View' = P!Ended(p, o, View'.alive)
      <3>1. turn' = "none" /\ outcome' = o /\ \A v \in Units : plans'[v] = NoPlan
        BY <2>1 DEF Finish
      <3>2. p.kind = kind' /\ p.round = round'
        BY <1>1, <1>2, <2>4
      <3> HIDE DEF o
      <3> QED BY <2>4, <2>5, <3>1, <3>2, LooksEnded
    <2>7. saved' \in P!AfterExpire(saved, u, saved.clock[SideOf[u]].seq)
      <3>1. p.clock[t].strikes >= Forfeit
        BY <1>3, <2>3, <2>4, TurnTuning
      <3>2. o = P!WinFor(P!Other(t))
        BY DEF C!WinFor, C!Other, P!WinFor, P!Other
      <3>3. p = [saved EXCEPT !.clock[t].open = FALSE, !.clock[t].strikes = @ + 1]
        BY <1>2 DEF p, Struck
      <3>4. saved' = P!Ended(p, P!WinFor(P!Other(t)), saved.alive)
        BY <1>8, <2>2, <2>6, <3>2
      <3> HIDE DEF o
      <3> QED BY <1>2, <1>12, <3>1, <3>3, <3>4 DEF P!AfterExpire
    <2> QED BY <1>2, <2>2, <2>7 DEF Sound, P!Next
  <1>13. CASE kind # "wild" /\ ~(struck[t].strikes >= Forfeit)
    <2>1. /\ clock' = struck /\ run' = ResumesAfter(u) /\ budget' = [budget EXCEPT ![u] = Idle]
          /\ UNCHANGED <<turn, outcome, plans>>
      BY <1>9, <1>13
    <2>2. /\ run' \in RunRow /\ run'.pc = "next" /\ run'.order = initiative /\ run'.at \in Nat \ {0}
          /\ \A i \in DOMAIN initiative : initiative[i] \in taken <=> i < run'.at
      BY <1>1, <2>1, Resumption
    <2>3. TypeOK'
      BY <1>1, <1>5, <1>10, <2>1, <2>2, Types DEF Inv, TypeOK, RunRow, ClockRow, BudgetRow
    <2>4. OnBoard' /\ Queued'
      BY <1>1, <2>1, BoardKept, QueueKept DEF Inv
    <2>5. GoesOn'
      <3>1. \A s \in Sides : clock'[s].strikes < Forfeit
        BY <1>2, <1>3, <1>5, <1>13, <2>1, TurnTuning DEF Inv, GoesOn, ClockRow
      <3> QED BY <1>1, <1>2, <2>1, <3>1 DEF Inv, GoesOn, Ongoing
    <2>6. Windows'
      BY <1>5, <1>7, <2>1, <2>2 DEF Windows, Stopping
    <2>7. Points'
      <3>1. \A v \in Units : v # u /\ hp[v] > 0 => budget[v] = Idle
        BY <1>1, <1>2 DEF Inv, Points, Stopping
      <3>2. \A v \in Units : hp[v] > 0 => budget'[v] = Idle
        BY <2>1, <3>1 DEF Inv, TypeOK
      <3>3. Idle' = Idle
        BY DEF Idle
      <3> QED BY <1>1, <3>2, <3>3 DEF Points
    <2>8. Waiting' /\ NewRound' /\ Acting'
      BY <2>2 DEF Waiting, NewRound, Acting, Stopping
    <2>9. Chained'
      BY <1>1, <1>2, <2>2, ChainBegins
    <2>10. Saved' /\ saved' = saved
      <3> DEFINE a == Struck(saved)
      <3>1. saved.clock[t].strikes + 1 < Forfeit
        BY <1>3, <1>5, <1>6, <1>13, TurnTuning DEF ClockRow
      <3>2. saved.clock[SideOf[saved.turn]].strikes + 1 <= Forfeit
        BY <1>2, <1>3, <1>6, <3>1, TurnTuning DEF ClockRow
      <3>3. /\ a.kind = saved.kind /\ a.round = saved.round /\ a.outcome = saved.outcome
            /\ a.alive = saved.alive /\ a.plans = saved.plans
            /\ a.clock \in [Sides -> P!Clock]
            /\ \A s \in Sides :
                 /\ a.clock[s].seq = saved.clock[s].seq
                 /\ s = t => /\ a.clock[s].strikes = saved.clock[s].strikes + 1
                             /\ a.clock[s].open = FALSE
                 /\ s # t => /\ a.clock[s].strikes = saved.clock[s].strikes
                             /\ a.clock[s].open = saved.clock[s].open
        <4>1. saved.turn \in Units /\ SideOf[saved.turn] = t /\ saved \in P!Turns
          BY <1>2
        <4>2. LET x == Struck(saved) IN
          /\ x \in P!Turns
          /\ x.kind = saved.kind /\ x.round = saved.round /\ x.outcome = saved.outcome
          /\ x.alive = saved.alive /\ x.plans = saved.plans
          /\ x.clock \in [Sides -> P!Clock]
          /\ \A s \in Sides :
               /\ x.clock[s].seq = saved.clock[s].seq
               /\ s = SideOf[saved.turn] => /\ x.clock[s].strikes = saved.clock[s].strikes + 1
                                            /\ x.clock[s].open = FALSE
               /\ s # SideOf[saved.turn] => /\ x.clock[s].strikes = saved.clock[s].strikes
                                            /\ x.clock[s].open = saved.clock[s].open
          BY ONLY <3>2, <4>1, StruckIs, Zenon
        <4> QED BY <4>1, <4>2
      <3>4. a \in Bases(saved)
        <4>1. saved.kind = "pvp"
          BY <1>2, <1>13, TurnUnits DEF Inv, TypeOK
        <4> QED BY <1>2, <3>1, <4>1 DEF Bases
      <3> HIDE DEF a
      <3>5. \A s \in Sides : /\ clock'[s].seq = a.clock[s].seq /\ clock'[s].open = a.clock[s].open
                             /\ clock'[s].strikes = a.clock[s].strikes
        <4> SUFFICES ASSUME NEW s \in Sides
                     PROVE  /\ clock'[s].seq = a.clock[s].seq /\ clock'[s].open = a.clock[s].open
                            /\ clock'[s].strikes = a.clock[s].strikes
          OBVIOUS
        <4>1. CASE s = t
          <5>1. clock'[s].seq = clock[s].seq /\ clock'[s].open = FALSE
                /\ clock'[s].strikes = clock[s].strikes + 1
            BY <1>5, <2>1, <4>1
          <5>2. a.clock[s].seq = clock[s].seq /\ a.clock[s].open = FALSE
                /\ a.clock[s].strikes = clock[s].strikes + 1
            BY <1>6, <3>3, <4>1
          <5> QED BY <5>1, <5>2
        <4>2. CASE s # t
          BY <1>5, <1>6, <2>1, <3>3, <4>2
        <4> QED BY <4>1, <4>2
      <3>6. UNCHANGED <<kind, round, outcome, hp, plans>> /\ turn \in Units /\ run'.pc # "stopped"
        BY <1>1, <2>1, <2>2
      <3> QED BY <1>1, <2>3, <3>3, <3>4, <3>5, <3>6, CallBegins
    <2> QED BY <2>3, <2>4, <2>5, <2>6, <2>7, <2>8, <2>9, <2>10 DEF Sound, Inv
  <1> QED BY <1>11, <1>12, <1>13

LEMMA ConcludeSound ==
  ASSUME Inv, Commit, NEW o, o \in IF kind = "wild" THEN {"fled"} ELSE {"sideA", "sideB"},
         Conclude(o)
  PROVE  Sound
  <1>1. /\ Stopping /\ Ongoing /\ Finish(o, clock) /\ o \in Outcomes
        /\ UNCHANGED <<kind, first, round, hp, budget, initiative, taken>>
    BY DEF Conclude, Ready, Stopping, Ongoing, board, Outcomes
  <1>2. clock \in [Sides -> ClockRow]
    BY DEF Inv, TypeOK, ClockRow
  <1>3. /\ hp' \in [Units -> 0..MaxHP] /\ initiative' \in Seq(Units) /\ taken' \subseteq Units
        /\ budget' \in [Units -> BudgetRow]
    BY <1>1 DEF Inv, TypeOK, BudgetRow
  <1>4. OnBoard' /\ View'.alive = View.alive
    BY <1>1, BoardKept DEF Inv, View, Alive
  <1>5. Inv' /\ saved' = View'
    BY <1>1, <1>2, <1>3, <1>4, FinishInv
  <1>6. saved = View /\ saved \in P!Turns
    BY <1>1, ViewIsATurn DEF Inv, Saved
  <1>7. \A s \in Sides : View'.clock[s] = [saved.clock[s] EXCEPT !.open = FALSE]
    <2> SUFFICES ASSUME NEW s \in Sides
                 PROVE  View'.clock[s] = [saved.clock[s] EXCEPT !.open = FALSE]
      OBVIOUS
    <2>1. saved.clock[s] \in P!Clock /\ View'.clock[s] \in P!Clock
      BY <1>5, <1>6, ClockRows, ClockRowsNext DEF Inv
    <2>2. /\ clock'[s].open = FALSE /\ clock'[s].seq = clock[s].seq
          /\ clock'[s].strikes = clock[s].strikes
      BY <1>1, <1>2, ShutClock DEF Finish
    <2>3. /\ View'.clock[s].open = FALSE /\ View'.clock[s].seq = saved.clock[s].seq
          /\ View'.clock[s].strikes = saved.clock[s].strikes
      BY <1>6, <2>2, ViewedRows
    <2> QED BY <2>1, <2>3, RowShut
  <1>8. View' = P!Ended(saved, o, View'.alive)
    <2>1. turn' = "none" /\ outcome' = o /\ \A v \in Units : plans'[v] = NoPlan
      BY <1>1 DEF Finish
    <2>2. saved.kind = kind' /\ saved.round = round'
      BY <1>1, <1>6 DEF View
    <2> QED BY <1>6, <1>7, <2>1, <2>2, LooksEnded
  <1>9. saved' \in P!AfterConclude(saved, o)
    BY <1>1, <1>4, <1>5, <1>6, <1>8 DEF P!AfterConclude, View, Ongoing
  <1> QED BY <1>1, <1>5, <1>9 DEF Sound, P!Next, Outcomes

-----------------------------------------------------------------------------
(* The steps of a running call.                                             *)

LEMMA RunningIsOngoing ==
  ASSUME Inv, ~Stopping
  PROVE  /\ Ongoing /\ \A s \in Sides : clock[s].open = FALSE
         /\ \A s \in Sides : \E u \in Units : SideOf[u] = s /\ hp[u] > 0
  <1>1. Ongoing /\ \A s \in Sides : \E u \in Units : SideOf[u] = s /\ hp[u] > 0
    BY DEF Inv, GoesOn
  <1>2. \A s \in Sides : clock[s].open \in BOOLEAN
    BY DEF Inv, TypeOK
  <1> QED BY <1>1, <1>2 DEF Inv, Windows

(* A step after which the call still runs.                                  *)
LEMMA RunningSound ==
  ASSUME Inv, ~Stopping, run'.pc # "stopped", Commit, TypeOK',
         UNCHANGED <<kind, round, outcome>>,
         \A u \in Units : hp'[u] > 0 => hp[u] > 0,
         \A u \in Units : plans'[u] # NoPlan => plans[u] # NoPlan,
         \A s \in Sides : /\ clock'[s].seq = clock[s].seq /\ clock'[s].open = clock[s].open
                          /\ clock'[s].strikes = clock[s].strikes,
         OnBoard', GoesOn', Queued', Points', Chained', Acting'
  PROVE  Sound
  <1>1. ~Stopping'
    BY DEF Stopping
  <1>2. Windows'
    BY <1>1, RunningIsOngoing DEF Windows
  <1>3. Waiting' /\ NewRound'
    BY <1>1 DEF Waiting, NewRound
  <1>4. Saved' /\ saved' = saved
    BY ClocksLookAlike, StaysInStep
  <1> QED BY <1>2, <1>3, <1>4 DEF Sound, Inv

(* The same, when nobody falls.                                             *)
LEMMA StandingSound ==
  ASSUME Inv, ~Stopping, run'.pc # "stopped", Commit, TypeOK',
         UNCHANGED <<kind, round, outcome, hp, initiative>>,
         \A u \in Units : plans'[u] # NoPlan => plans[u] # NoPlan,
         \A s \in Sides : /\ clock'[s].seq = clock[s].seq /\ clock'[s].open = clock[s].open
                          /\ clock'[s].strikes = clock[s].strikes,
         Points', Chained', Acting'
  PROVE  Sound
  <1>1. OnBoard' /\ GoesOn' /\ Queued'
    BY RunningIsOngoing, BoardKept, GoesOnKept, QueueKept DEF Inv
  <1> QED BY <1>1, RunningSound

(* A call stops because u's owner has to be asked.                          *)
LEMMA AskSound ==
  ASSUME Inv, ~Stopping, Commit, NEW u \in Units, NEW bd \in BudgetRow,
         NEW clk \in [Sides -> ClockRow], EnterWaiting(u, bd, clk),
         UNCHANGED <<kind, first, round, outcome, hp, initiative>>,
         clk[SideOf[u]].windows < MaxWindows,
         \A s \in Sides : /\ clk[s].seq = clock[s].seq /\ clk[s].open = clock[s].open
                          /\ clk[s].strikes = clock[s].strikes,
         hp[u] > 0, Owned(u), taken' \subseteq Units, Latest(u)',
         \A v \in Units : hp[v] > 0 /\ v # u => budget[v] = Idle,
         plans' \in [Units -> Seq(Entries)], plans'[u] = NoPlan,
         \A v \in Units : plans'[v] # NoPlan => plans[v] # NoPlan,
         bd.ap + clk[SideOf[u]].windows * MinCost <= ApTurn
  PROVE  Sound
  <1> DEFINE t == SideOf[u]
  <1>1. t \in Sides /\ ~clk[t].open /\ clk[t].windows \in 0..MaxWindows /\ clk[t].seq \in Nat
    <2>1. t \in Sides
      BY TurnUnits DEF Sides
    <2>2. clk[t] \in ClockRow /\ clk[t].open = FALSE
      BY <2>1, RunningIsOngoing
    <2>3. ~clk[t].open
      BY ONLY <2>2
    <2> QED BY <2>1, <2>2, <2>3, TurnTuning DEF ClockRow
  <1>2. /\ turn' = u /\ run' = Stopped /\ budget' = [budget EXCEPT ![u] = bd]
        /\ clock' = [clk EXCEPT ![t].seq = (@ + 1) % SeqWrap, ![t].open = TRUE,
                                ![t].windows = @ + 1]
    BY <1>1 DEF EnterWaiting
  <1>3. (clk[t].seq + 1) % SeqWrap \in 0..(SeqWrap - 1) /\ clk[t].windows + 1 \in 0..MaxWindows
    <2>1. SeqWrap \in Nat \ {0} /\ MaxWindows \in Nat /\ clk[t].windows < MaxWindows
      BY TurnTuning
    <2> QED BY ONLY <1>1, <2>1
  <1>4. /\ clock' \in [Sides -> ClockRow]
        /\ clock'[t].seq = (clock[t].seq + 1) % SeqWrap /\ clock'[t].open = TRUE
        /\ clock'[t].windows = clk[t].windows + 1
        /\ \A s \in Sides : clock'[s].strikes = clock[s].strikes
        /\ \A s \in Sides \ {t} : clock'[s].seq = clock[s].seq /\ clock'[s].open = clock[s].open
    <2> DEFINE seq == (clk[t].seq + 1) % SeqWrap
               windows == clk[t].windows + 1
    <2>1. clock' = [clk EXCEPT ![t].seq = seq, ![t].open = TRUE, ![t].windows = windows]
      BY <1>2
    <2>2. clk[t].seq = clock[t].seq
      BY <1>1
    <2> HIDE DEF seq, windows, t
    <2>3. seq \in 0..(SeqWrap - 1) /\ windows \in 0..MaxWindows
      BY <1>3 DEF seq, windows
    <2>4. /\ clock' \in [Sides -> ClockRow] /\ clock'[t].seq = seq /\ clock'[t].open = TRUE
          /\ clock'[t].windows = windows
          /\ \A s \in Sides : clock'[s].strikes = clk[s].strikes
          /\ \A s \in Sides \ {t} : clock'[s] = clk[s]
      BY <1>1, <2>1, <2>3, SMTT(30) DEF ClockRow
    <2> QED BY <2>2, <2>4 DEF seq, windows
  <1>5. TypeOK'
    BY <1>2, <1>4, StoppedIsTyped, Types DEF Inv, TypeOK, ClockRow, BudgetRow, RunRow
  <1>6. Stopping' /\ Ongoing' /\ Ongoing /\ ~Stopping
    BY <1>2, StoppedIsTyped, RunningIsOngoing DEF Stopping, Ongoing
  <1>7. OnBoard' /\ GoesOn' /\ Queued'
    BY <1>4, <1>6, BoardKept, GoesOnKept, QueueKept DEF Inv
  <1>8. Windows'
    <2>1. \A s \in Sides \ {t} : clock'[s].open = FALSE
      BY <1>4, RunningIsOngoing
    <2> QED BY <1>2, <1>4, <1>6, <2>1 DEF Windows
  <1>9. Points'
    <2>1. \A v \in Units : hp[v] > 0 /\ v # u => budget'[v] = Idle
      BY <1>2 DEF Inv, TypeOK
    <2>2. Idle' = Idle
      BY DEF Idle
    <2> QED BY <1>2, <1>6, <2>1, <2>2 DEF Points
  <1>10. Waiting'
    <2>1. budget'[u] = bd
      BY <1>2 DEF Inv, TypeOK
    <2>2. MinCost \in Nat /\ clk[t].windows \in Nat /\ ApTurn \in Nat /\ bd.ap \in Nat
      BY <1>1, TurnTuning, SMTT(30) DEF BudgetRow
    <2>3. /\ (clk[t].windows + 1) * MinCost = clk[t].windows * MinCost + MinCost
          /\ clk[t].windows * MinCost \in Nat
      BY ONLY <2>2
    <2>4. bd.ap + clock'[t].windows * MinCost <= ApTurn + MinCost
      <3> DEFINE due == clk[t].windows * MinCost
      <3>1. bd.ap + due <= ApTurn /\ due \in Nat
        BY <2>3
      <3>2. clock'[t].windows * MinCost = due + MinCost
        BY <1>4, <2>3
      <3> HIDE DEF due
      <3> QED BY ONLY <2>2, <3>1, <3>2
    <2>5. clock'[t].windows > 0 /\ Owned(u)'
      BY <1>1, <1>4 DEF Owned, C!Owned
    <2> QED BY <1>2, <2>1, <2>4, <2>5 DEF Waiting, Owned
  <1>11. NewRound' /\ Chained' /\ Acting'
    BY <1>2, <1>6, StoppedIsTyped DEF NewRound, Chained, Acting
  <1>12. saved' = View' /\ Saved'
    BY <1>2, <1>6, StoppedIsTyped DEF Commit, Saved
  <1>13. P!Next
    <2>1. ASSUME NEW s \in Sides
          PROVE  View'.clock[s] = IF s = SideOf[turn']
                                  THEN [View.clock[s] EXCEPT !.seq = (@ + 1) % SeqWrap,
                                                             !.open = TRUE]
                                  ELSE View.clock[s]
      <3>1. View.clock[s] \in P!Clock /\ View'.clock[s] \in P!Clock
        BY <1>5, ClockRows, ClockRowsNext DEF Inv
      <3> DEFINE n == (View.clock[s].seq + 1) % SeqWrap
      <3>2. CASE s = t
        <4>1. /\ View'.clock[s].seq = n /\ View'.clock[s].open = TRUE
              /\ View'.clock[s].strikes = View.clock[s].strikes
          BY <1>4, <3>2, ViewedRows
        <4> HIDE DEF n
        <4>2. View'.clock[s] = [View.clock[s] EXCEPT !.seq = n, !.open = TRUE]
          BY <3>1, <4>1, RowOpened
        <4> QED BY <1>2, <3>2, <4>2 DEF n
      <3>3. CASE s # t
        <4>1. /\ View'.clock[s].seq = View.clock[s].seq /\ View'.clock[s].open = View.clock[s].open
              /\ View'.clock[s].strikes = View.clock[s].strikes
          BY <1>4, <3>3, ViewedRows
        <4>2. View'.clock[s] = View.clock[s]
          BY ONLY <3>1, <4>1 DEF P!Clock
        <4> QED BY <1>2, <3>3, <4>2
      <3> QED BY <3>2, <3>3
    <2>2. turn' \in Units /\ hp'[turn'] > 0 /\ Owned(turn')
      BY <1>2
    <2>3. \A v \in Units : plans'[v] # NoPlan => plans[v] # NoPlan /\ hp'[v] > 0 /\ v # turn'
      BY <1>2 DEF Inv, Queued
    <2>4. \A s \in Sides : \E v \in Units : SideOf[v] = s /\ hp'[v] > 0
      BY RunningIsOngoing
    <2> QED BY <1>5, <1>12, <2>1, <2>2, <2>3, <2>4, AskingIsPromised DEF Inv
  <1> QED BY <1>5, <1>7, <1>8, <1>9, <1>10, <1>11, <1>12, <1>13 DEF Sound, Inv

(* The chain comes to a unit that stands: it is the latest to take a turn.  *)
LEMMA TurnBegins ==
  ASSUME Inv, ~Stopping, run.at \in DOMAIN run.order, NEW u \in Units, u = Upcoming,
         hp[u] > 0, UNCHANGED initiative, taken' = taken \cup {u}
  PROVE  /\ u \notin taken /\ Latest(u)'
         /\ \A i, j \in DOMAIN initiative :
              i < j /\ initiative[j] \in taken' => initiative[i] \in taken'
  <1> DEFINE at == run.at
  <1>1. /\ run.order \in Seq(Units) /\ initiative \in Seq(Units) /\ at \in Nat
        /\ u = run.order[at]
    BY DEF Inv, TypeOK, Upcoming
  <1>2. /\ \A i, j \in DOMAIN initiative : initiative[i] = initiative[j] => i = j
        /\ \A v \in Units : hp[v] > 0 <=> \E i \in DOMAIN initiative : initiative[i] = v
        /\ \A i, j \in DOMAIN run.order : run.order[i] = run.order[j] => i = j
        /\ \A p, q \in DOMAIN run.order, i, j \in DOMAIN initiative :
             p < q /\ run.order[p] = initiative[i] /\ run.order[q] = initiative[j] => i < j
        /\ \A v \in Units : hp[v] > 0 => v \in taken \cup Due
        /\ taken \cap Due = {}
        /\ \A i, j \in DOMAIN initiative :
             i < j /\ initiative[j] \in taken => initiative[i] \in taken
    BY DEF Inv, OnBoard, Chained
  <1>3. u \in Due
    BY <1>1 DEF Due
  <1>4. DOMAIN initiative = 1 .. Len(initiative) /\ DOMAIN run.order = 1 .. Len(run.order)
    BY <1>1
  <1> HIDE DEF at
  <1>5. ASSUME NEW i \in DOMAIN initiative, NEW j \in DOMAIN initiative, i < j,
               initiative[j] = u, initiative[i] \notin taken
        PROVE  FALSE
    <2>1. initiative[i] \in Units
      BY <1>1
    <2>2. hp[initiative[i]] > 0
      BY <1>2, <2>1
    <2>3. initiative[i] \in Due
      BY <1>2, <1>5, <2>1, <2>2
    <2>4. PICK p \in DOMAIN run.order : p >= at /\ run.order[p] = initiative[i]
      BY <2>3 DEF Due, at
    <2>5. p # at
      BY <1>1, <1>2, <1>4, <1>5, <2>4
    <2>6. at < p
      BY <1>1, <1>4, <2>4, <2>5
    <2>7. j < i
      BY <1>1, <1>2, <1>5, <2>4, <2>6 DEF at
    <2> QED BY <1>4, <1>5, <2>7
  <1>6. taken' = taken \cup {u} /\ u \notin taken
    BY <1>2, <1>3
  <1>7. \A i, j \in DOMAIN initiative :
          i < j /\ initiative[j] \in taken' => initiative[i] \in taken'
    BY <1>2, <1>5, <1>6
  <1>8. ASSUME NEW i \in DOMAIN initiative, NEW j \in DOMAIN initiative, initiative[j] = u
        PROVE  initiative[i] \in taken' <=> i <= j
    <2>1. CASE i < j
      BY <1>4, <1>5, <1>6, <1>8, <2>1
    <2>2. CASE i = j
      BY <1>4, <1>6, <1>8, <2>2
    <2>3. CASE j < i
      BY <1>2, <1>4, <1>6, <1>8, <2>3
    <2> QED BY <1>4, <2>1, <2>2, <2>3
  <1>9. Latest(u)'
    BY <1>6, <1>8 DEF Latest
  <1> QED BY <1>6, <1>7, <1>9

LEMMA ChainMoves ==
  ASSUME Inv, ~Stopping, run.at \in DOMAIN run.order, UNCHANGED <<hp, initiative>>,
         run'.order = run.order, run'.at = run.at + 1,
         taken' = IF hp[Upcoming] > 0 THEN taken \cup {Upcoming} ELSE taken
  PROVE  Chained'
  <1>1. /\ run.order \in Seq(Units) /\ run.at \in Nat /\ Upcoming = run.order[run.at]
        /\ Upcoming \in Units
    BY DEF Inv, TypeOK, Upcoming
  <1>2. DOMAIN run.order = 1 .. Len(run.order)
    BY <1>1
  <1>3. Due = {run.order[i] : i \in {j \in DOMAIN run.order : j >= run.at}}
    BY DEF Due
  <1>4. Due' = {run.order[i] : i \in {j \in DOMAIN run.order : j >= run.at + 1}}
    BY DEF Due
  <1>5. Chained
    BY DEF Inv
  <1>6. Due' = Due \ {Upcoming}
    <2>1. \A i, j \in DOMAIN run.order : run.order[i] = run.order[j] => i = j
      BY <1>5 DEF Chained
    <2>2. ASSUME NEW i \in DOMAIN run.order
          PROVE  i >= run.at + 1 <=> i >= run.at /\ run.order[i] # Upcoming
      <3>1. i \in Nat
        BY <1>2
      <3>2. run.order[i] = Upcoming <=> i = run.at
        BY <1>1, <2>1
      <3> QED BY <1>1, <3>1, <3>2
    <2> QED BY <1>3, <1>4, <2>2
  <1>7. \A i, j \in DOMAIN initiative :
          i < j /\ initiative[j] \in taken' => initiative[i] \in taken'
    <2>1. CASE hp[Upcoming] > 0
      BY <1>1, <2>1, TurnBegins
    <2>2. CASE ~(hp[Upcoming] > 0)
      BY <1>5, <2>2 DEF Chained
    <2> QED BY <2>1, <2>2
  <1>8. \A u \in Units : hp'[u] > 0 => u \in taken' \cup Due'
    BY <1>5, <1>6 DEF Chained
  <1>9. taken' \cap Due' = {}
    BY <1>5, <1>6 DEF Chained
  <1>10. /\ \A i, j \in DOMAIN run'.order : run'.order[i] = run'.order[j] => i = j
         /\ \A p, q \in DOMAIN run'.order, i, j \in DOMAIN initiative' :
              p < q /\ run'.order[p] = initiative'[i] /\ run'.order[q] = initiative'[j] => i < j
    BY <1>5 DEF Chained
  <1> QED BY <1>7, <1>8, <1>9, <1>10 DEF Chained

LEMMA ChainStays ==
  ASSUME Inv, ~Stopping, UNCHANGED <<hp, initiative, taken>>,
         run'.order = run.order, run'.at = run.at
  PROVE  Chained'
  <1>1. Due' = Due
    BY DEF Due
  <1> QED BY <1>1 DEF Inv, Chained

LEMMA SkipFallenSound ==
  ASSUME Inv, Commit, SkipFallen
  PROVE  Sound
  <1>1. /\ run.pc = "next" /\ run.at <= Len(run.order) /\ hp[Upcoming] = 0 /\ run' = Moved
        /\ UNCHANGED <<kind, first, round, turn, outcome, hp, budget, initiative, plans, clock, taken>>
    BY DEF SkipFallen, board
  <1>2. run \in RunRow /\ run.order \in Seq(Units) /\ run.at \in Nat \ {0}
    BY DEF Inv, TypeOK, RunRow
  <1>3. ~Stopping /\ run.at \in DOMAIN run.order
    BY <1>1, <1>2 DEF Stopping
  <1>4. run' \in RunRow /\ run'.pc = "next" /\ run'.order = run.order /\ run'.at = run.at + 1
    BY <1>1, <1>2, MovedIs
  <1>5. TypeOK'
    BY <1>1, <1>4 DEF Inv, TypeOK, RunRow
  <1>6. Points'
    BY <1>1, <1>4 DEF Inv, Points, Stopping, Ongoing, Idle
  <1>7. Chained'
    BY <1>1, <1>3, <1>4, ChainMoves
  <1>8. Acting'
    BY <1>4 DEF Acting
  <1> QED BY <1>1, <1>3, <1>4, <1>5, <1>6, <1>7, <1>8, StandingSound

LEMMA WindowsResetIs ==
  ASSUME TypeOK, NEW u \in Units
  PROVE  LET clk == WindowsReset(u) IN
         /\ clk \in [Sides -> ClockRow]
         /\ \A s \in Sides : /\ clk[s].seq = clock[s].seq /\ clk[s].open = clock[s].open
                             /\ clk[s].strikes = clock[s].strikes
         /\ Owned(u) => clk[SideOf[u]].windows = 0
  <1>1. clock \in [Sides -> ClockRow] /\ SideOf[u] \in Sides /\ 0 \in 0..MaxWindows
    BY TurnUnits, TurnTuning DEF TypeOK, ClockRow, Sides
  <1> DEFINE t == SideOf[u]
             clk == [clock EXCEPT ![t].windows = 0]
  <1>2. /\ clk \in [Sides -> ClockRow]
        /\ \A s \in Sides : /\ clk[s].seq = clock[s].seq /\ clk[s].open = clock[s].open
                            /\ clk[s].strikes = clock[s].strikes
        /\ clk[t].windows = 0
    <2> HIDE DEF t
    <2> QED BY <1>1 DEF ClockRow, t
  <1>3. WindowsReset(u) = IF Owned(u) THEN clk ELSE clock
    BY DEF WindowsReset
  <1> HIDE DEF clk
  <1> QED BY <1>1, <1>2, <1>3

(* Between two turns nobody who stands has points.                          *)
LEMMA BetweenTurns ==
  ASSUME Inv, run.pc = "next"
  PROVE  ~Stopping /\ \A u \in Units : hp[u] > 0 => budget[u] = Idle
  <1>1. ~Stopping
    BY DEF Stopping
  <1> QED BY <1>1, RunningIsOngoing DEF Inv, Points

LEMMA Budgets == Idle \in BudgetRow /\ Fresh \in BudgetRow /\ Fresh.ap = ApTurn
  BY TurnTuning DEF Idle, Fresh, BudgetRow

(* A turn that begins with a plan: queued by a player or made by the AI.    *)
LEMMA TakesSound ==
  ASSUME Inv, Commit, run.pc = "next", run.at \in DOMAIN run.order,
         NEW u \in Units, u = Upcoming, hp[u] > 0,
         NEW plan \in Seq(Entries), NEW origin \in {"PreQueued", "Ai"},
         run' = Executes(Moved, u, plan, origin, FALSE),
         budget' = [budget EXCEPT ![u] = Fresh], clock' = WindowsReset(u),
         taken' = taken \cup {u}, plans' = [plans EXCEPT ![u] = NoPlan],
         UNCHANGED <<kind, first, round, turn, outcome, hp, initiative>>
  PROVE  Sound
  <1>1. run \in RunRow /\ ~Stopping
    BY BetweenTurns DEF Inv, TypeOK, RunRow
  <1>2. /\ run' \in RunRow /\ run'.pc = "exec" /\ run'.order = run.order /\ run'.at = run.at + 1
        /\ run'.unit = u /\ run'.origin = origin /\ run'.sure = FALSE
    <2> DEFINE m == Moved
               no == FALSE
    <2>1. m \in RunRow /\ m.order = run.order /\ m.at = run.at + 1
      BY <1>1, MovedIs
    <2>2. origin \in Origins /\ no \in BOOLEAN
      BY DEF Origins
    <2>3. run' = Executes(m, u, plan, origin, no)
      OBVIOUS
    <2> HIDE DEF m, no
    <2>4. u \in Units /\ plan \in Seq(Entries)
      OBVIOUS
    <2>5. LET e == Executes(m, u, plan, origin, no) IN
          /\ e \in RunRow /\ e.pc = "exec" /\ e.order = m.order /\ e.at = m.at
          /\ e.unit = u /\ e.origin = origin /\ e.sure = no
      BY ONLY <2>1, <2>2, <2>4, ExecutesIs
    <2> QED BY <2>1, <2>3, <2>5 DEF no
  <1>3. /\ clock' \in [Sides -> ClockRow]
        /\ \A s \in Sides : /\ clock'[s].seq = clock[s].seq /\ clock'[s].open = clock[s].open
                            /\ clock'[s].strikes = clock[s].strikes
        /\ Owned(u) => clock'[SideOf[u]].windows = 0
    BY WindowsResetIs DEF Inv
  <1>4. budget' \in [Units -> BudgetRow] /\ plans' \in [Units -> Seq(Entries)] /\ taken' \subseteq Units
    <2>1. /\ budget \in [Units -> BudgetRow] /\ plans \in [Units -> Seq(Entries)]
          /\ taken \subseteq Units
      BY DEF Inv, TypeOK, BudgetRow
    <2>2. NoPlan \in Seq(Entries)
      BY DEF NoPlan
    <2> QED BY <2>1, <2>2, Budgets
  <1>5. TypeOK'
    BY <1>2, <1>3, <1>4, Types DEF Inv, TypeOK, RunRow, ClockRow, BudgetRow
  <1>6. Latest(u)'
    BY <1>1, TurnBegins
  <1>7. Points'
    <2>1. \A v \in Units : hp[v] > 0 /\ v # u => budget'[v] = Idle
      BY BetweenTurns DEF Inv, TypeOK
    <2>2. Idle' = Idle
      BY DEF Idle
    <2> QED BY <1>2, <2>1, <2>2 DEF Points
  <1>8. Chained'
    BY <1>1, <1>2, ChainMoves
  <1>9. Acting'
    <2>1. plans'[u] = NoPlan /\ budget'[u].ap = ApTurn /\ NoPlan' = NoPlan
      BY Budgets DEF Inv, TypeOK, NoPlan
    <2>2. Owned(u)' <=> Owned(u)
      BY DEF Owned, C!Owned
    <2>3. Owned(u) => clock'[SideOf[u]].windows * MinCost = 0
      BY <1>3, TurnTuning
    <2>4. Owned(u) => budget'[u].ap + clock'[SideOf[u]].windows * MinCost <= ApTurn
      BY <2>1, <2>3, TurnTuning
    <2>5. run'.origin # "Live" /\ ~run'.sure
      BY <1>2
    <2>6. hp'[u] > 0 /\ run'.unit = u
      BY <1>2
    <2>7. ApTurn + 0 = ApTurn
      BY TurnTuning
    <2> QED BY <1>6, <2>1, <2>2, <2>4, <2>5, <2>6, <2>7 DEF Acting, Owned, C!Owned
  <1>10. \A v \in Units : plans'[v] # NoPlan => plans[v] # NoPlan
    BY DEF Inv, TypeOK
  <1> QED BY <1>1, <1>2, <1>3, <1>5, <1>7, <1>8, <1>9, <1>10, StandingSound

LEMMA StartTurnSound ==
  ASSUME Inv, Commit, StartTurn
  PROVE  Sound
  <1>1. run.pc = "next" /\ run.at <= Len(run.order) /\ ~Stopping
    BY BetweenTurns DEF StartTurn
  <1>2. run.order \in Seq(Units) /\ run.at \in Nat \ {0}
    BY DEF Inv, TypeOK
  <1>3. run.at \in DOMAIN run.order
    BY <1>1, <1>2
  <1>4. PICK u \in Units : u = Upcoming
    BY <1>2, <1>3 DEF Upcoming
  <1>5. /\ hp[u] > 0 /\ taken' = taken \cup {u} /\ plans' = [plans EXCEPT ![u] = NoPlan]
        /\ UNCHANGED <<kind, first, round, outcome, hp, initiative>>
    BY <1>4 DEF StartTurn
  <1>6. \/ /\ Owned(u) /\ plans[u] # NoPlan
           /\ run' = Executes(Moved, u, plans[u], "PreQueued", FALSE)
           /\ budget' = [budget EXCEPT ![u] = Fresh] /\ clock' = WindowsReset(u)
           /\ UNCHANGED turn
        \/ \E plan \in AiPlans :
             /\ run' = Executes(Moved, u, plan, "Ai", FALSE)
             /\ budget' = [budget EXCEPT ![u] = Fresh] /\ clock' = WindowsReset(u)
             /\ UNCHANGED turn
        \/ Owned(u) /\ plans[u] = NoPlan /\ EnterWaiting(u, Fresh, WindowsReset(u))
    BY <1>4 DEF StartTurn
  <1>7. CASE /\ run' = Executes(Moved, u, plans[u], "PreQueued", FALSE)
             /\ budget' = [budget EXCEPT ![u] = Fresh] /\ clock' = WindowsReset(u)
             /\ UNCHANGED turn
    <2>1. plans[u] \in Seq(Entries)
      BY DEF Inv, TypeOK
    <2> QED BY <1>1, <1>3, <1>4, <1>5, <1>7, <2>1, TakesSound
  <1>8. CASE \E plan \in AiPlans :
               /\ run' = Executes(Moved, u, plan, "Ai", FALSE)
               /\ budget' = [budget EXCEPT ![u] = Fresh] /\ clock' = WindowsReset(u)
               /\ UNCHANGED turn
    <2>1. PICK plan \in Seq(Entries) :
               /\ run' = Executes(Moved, u, plan, "Ai", FALSE)
               /\ budget' = [budget EXCEPT ![u] = Fresh] /\ clock' = WindowsReset(u)
               /\ UNCHANGED turn
      BY <1>8, TurnPlans
    <2> QED BY <1>1, <1>3, <1>4, <1>5, <2>1, TakesSound
  <1>9. CASE Owned(u) /\ plans[u] = NoPlan /\ EnterWaiting(u, Fresh, WindowsReset(u))
    <2> DEFINE clk == WindowsReset(u)
    <2>1. /\ clk \in [Sides -> ClockRow]
          /\ \A s \in Sides : /\ clk[s].seq = clock[s].seq /\ clk[s].open = clock[s].open
                              /\ clk[s].strikes = clock[s].strikes
          /\ clk[SideOf[u]].windows = 0
      BY <1>9, WindowsResetIs DEF Inv
    <2> HIDE DEF clk
    <2>2. /\ EnterWaiting(u, Fresh, clk) /\ Owned(u) /\ Fresh \in BudgetRow
          /\ clk[SideOf[u]].windows < MaxWindows
      BY <1>9, <2>1, Budgets, TurnTuning DEF clk
    <2>3. Fresh.ap + clk[SideOf[u]].windows * MinCost <= ApTurn
      BY <2>1, Budgets, TurnTuning
    <2>4. Latest(u)' /\ \A v \in Units : hp[v] > 0 /\ v # u => budget[v] = Idle
      BY <1>1, <1>3, <1>4, <1>5, TurnBegins, BetweenTurns
    <2>5. /\ plans' \in [Units -> Seq(Entries)] /\ plans'[u] = NoPlan /\ taken' \subseteq Units
          /\ \A v \in Units : plans'[v] # NoPlan => plans[v] # NoPlan
      BY <1>5, SMTT(30) DEF Inv, TypeOK, NoPlan
    <2> QED BY <1>1, <1>5, <2>1, <2>2, <2>3, <2>4, <2>5, AskSound
  <1> QED BY <1>6, <1>7, <1>8, <1>9

LEMMA BlockedTurnSound ==
  ASSUME Inv, Commit, BlockedTurn
  PROVE  Sound
  <1>1. run.pc = "next" /\ run.at <= Len(run.order) /\ ~Stopping
    BY BetweenTurns DEF BlockedTurn
  <1>2. run.order \in Seq(Units) /\ run.at \in Nat \ {0} /\ run \in RunRow
    BY DEF Inv, TypeOK, RunRow
  <1>3. run.at \in DOMAIN run.order
    BY <1>1, <1>2
  <1>4. PICK u \in Units : u = Upcoming
    BY <1>2, <1>3 DEF Upcoming
  <1>5. /\ hp[u] > 0 /\ taken' = taken \cup {u} /\ plans' = [plans EXCEPT ![u] = NoPlan]
        /\ clock' = WindowsReset(u) /\ budget' = [budget EXCEPT ![u] = Idle] /\ run' = Moved
        /\ UNCHANGED <<kind, first, round, turn, outcome, hp, initiative>>
    BY <1>4 DEF BlockedTurn
  <1>6. run' \in RunRow /\ run'.pc = "next" /\ run'.order = run.order /\ run'.at = run.at + 1
    BY <1>1, <1>2, <1>5, MovedIs
  <1>7. /\ clock' \in [Sides -> ClockRow]
        /\ \A s \in Sides : /\ clock'[s].seq = clock[s].seq /\ clock'[s].open = clock[s].open
                            /\ clock'[s].strikes = clock[s].strikes
    BY <1>5, WindowsResetIs DEF Inv
  <1>8. /\ budget' \in [Units -> BudgetRow] /\ plans' \in [Units -> Seq(Entries)]
        /\ taken' \subseteq Units /\ \A v \in Units : plans'[v] # NoPlan => plans[v] # NoPlan
    <2>1. /\ budget \in [Units -> BudgetRow] /\ plans \in [Units -> Seq(Entries)]
          /\ taken \subseteq Units
      BY DEF Inv, TypeOK, BudgetRow
    <2>2. NoPlan \in Seq(Entries)
      BY DEF NoPlan
    <2> QED BY <1>5, <2>1, <2>2, Budgets
  <1>9. TypeOK'
    BY <1>5, <1>6, <1>7, <1>8, Types DEF Inv, TypeOK, RunRow, ClockRow, BudgetRow
  <1>10. Points'
    <2>1. \A v \in Units : hp[v] > 0 => budget'[v] = Idle
      BY <1>1, <1>5, BetweenTurns DEF Inv, TypeOK
    <2>2. Idle' = Idle
      BY DEF Idle
    <2> QED BY <1>5, <2>1, <2>2 DEF Points
  <1>11. Chained' /\ Acting'
    BY <1>1, <1>3, <1>4, <1>5, <1>6, ChainMoves DEF Acting
  <1> QED BY <1>1, <1>5, <1>6, <1>7, <1>8, <1>9, <1>10, <1>11, StandingSound

(* The turn of whoever acts ends, and the chain goes on.                    *)
LEMMA TurnEndsSound ==
  ASSUME Inv, Commit, run.pc = "exec", EndTurn(run.unit),
         UNCHANGED <<kind, first, round, outcome, hp, initiative, plans, clock, taken>>
  PROVE  Sound
  <1>1. run \in RunRow /\ ~Stopping
    BY DEF Inv, TypeOK, RunRow, Stopping
  <1>2. run' \in RunRow /\ run'.pc = "next" /\ run'.order = run.order /\ run'.at = run.at
    BY <1>1, NextUnitIs DEF EndTurn
  <1>3. budget' = [budget EXCEPT ![run.unit] = Idle] /\ UNCHANGED turn
    BY DEF EndTurn
  <1>4. budget' \in [Units -> BudgetRow]
    BY <1>3, Budgets DEF Inv, TypeOK, BudgetRow
  <1>5. TypeOK'
    BY <1>2, <1>3, <1>4, Types DEF Inv, TypeOK, RunRow, BudgetRow
  <1>6. Points'
    <2>1. \A v \in Units : hp[v] > 0 /\ v # run.unit => budget[v] = Idle
      BY <1>1, RunningIsOngoing DEF Inv, Points
    <2>2. \A v \in Units : hp[v] > 0 => budget'[v] = Idle
      BY <1>3, <2>1 DEF Inv, TypeOK
    <2>3. Idle' = Idle
      BY DEF Idle
    <2> QED BY <2>2, <2>3 DEF Points
  <1>7. Chained' /\ Acting'
    BY <1>1, <1>2, ChainStays DEF Acting
  <1> QED BY <1>1, <1>2, <1>5, <1>6, <1>7, StandingSound

(* A unit with points left has paid for so few windows that one is left.    *)
LEMMA WindowIsLeft ==
  ASSUME Inv, run.pc = "exec", Owned(run.unit), budget[run.unit].ap >= MinCost, ~run.sure
  PROVE  clock[SideOf[run.unit]].windows < MaxWindows /\ ~clock[SideOf[run.unit]].open
  <1> DEFINE w == clock[SideOf[run.unit]].windows
             ap == budget[run.unit].ap
  <1>1. run.unit \in Units /\ ~Stopping
    BY DEF Inv, Acting, Stopping
  <1>2. SideOf[run.unit] \in Sides
    BY <1>1, TurnUnits DEF Sides
  <1>3. clock[SideOf[run.unit]].open = FALSE
    BY <1>1, <1>2, RunningIsOngoing
  <1>4. w \in Nat /\ ap \in Nat /\ MinCost \in Nat \ {0} /\ MaxWindows \in Nat /\ ApTurn \in Nat
    <2>1. clock \in [Sides -> ClockRow] /\ budget \in [Units -> BudgetRow]
      BY DEF Inv, TypeOK, ClockRow, BudgetRow
    <2> QED BY <1>1, <1>2, <2>1, TurnTuning DEF ClockRow, BudgetRow
  <1>5. ap + w * MinCost <= ApTurn
    <2>1. ap + w * MinCost <= ApTurn + 0
      BY DEF Inv, Acting
    <2> QED BY <1>4, <2>1
  <1>6. ApTurn <= MaxWindows * MinCost
    BY TurnTuning
  <1>7. ap >= MinCost
    OBVIOUS
  <1> HIDE DEF w, ap
  <1>8. w < MaxWindows
    <2> SUFFICES ASSUME w >= MaxWindows PROVE FALSE
      BY <1>4
    <2> DEFINE d == w - MaxWindows
    <2>1. d \in Nat /\ w = MaxWindows + d
      BY <1>4
    <2> HIDE DEF d
    <2>2. (MaxWindows + d) * MinCost = MaxWindows * MinCost + d * MinCost
      BY ONLY <1>4, <2>1
    <2>3. d * MinCost \in Nat /\ MaxWindows * MinCost \in Nat
      BY ONLY <1>4, <2>1
    <2> DEFINE x == d * MinCost
               y == MaxWindows * MinCost
    <2>4. x \in Nat /\ y \in Nat /\ w * MinCost = y + x /\ ApTurn <= y
      BY <1>6, <2>1, <2>2, <2>3
    <2>5. ap + (y + x) <= ApTurn
      BY <1>5, <2>4
    <2> HIDE DEF x, y
    <2> QED BY ONLY <1>4, <1>7, <2>4, <2>5
  <1> QED BY <1>3, <1>8 DEF w

(* Whoever acts is asked again, with the points that are left.              *)
LEMMA AsksAgainSound ==
  ASSUME Inv, Commit, run.pc = "exec", Owned(run.unit), budget[run.unit].ap >= MinCost, ~run.sure,
         EnterWaiting(run.unit, budget[run.unit], clock),
         UNCHANGED <<kind, first, round, outcome, hp, initiative, plans, taken>>
  PROVE  Sound
  <1>1. PICK u \in Units : u = run.unit
    BY DEF Inv, Acting
  <1>2. ~Stopping /\ Ongoing
    BY RunningIsOngoing DEF Stopping
  <1>3. hp[u] > 0 /\ plans[u] = NoPlan /\ Latest(u)
    BY <1>1 DEF Inv, Acting
  <1>4. Latest(u)'
    BY <1>3 DEF Latest
  <1>5. clock[SideOf[u]].windows < MaxWindows
    BY <1>1, WindowIsLeft
  <1>6. /\ clock \in [Sides -> ClockRow] /\ budget[u] \in BudgetRow
        /\ plans \in [Units -> Seq(Entries)] /\ taken \subseteq Units
    BY DEF Inv, TypeOK, ClockRow, BudgetRow
  <1>7. \A v \in Units : hp[v] > 0 /\ v # u => budget[v] = Idle
    BY <1>1, <1>2 DEF Inv, Points
  <1>8. budget[u].ap + clock[SideOf[u]].windows * MinCost <= ApTurn
    <2>1. budget[u].ap + clock[SideOf[u]].windows * MinCost <= ApTurn + 0
      BY <1>1 DEF Inv, Acting
    <2>2. ApTurn + 0 = ApTurn
      BY TurnTuning
    <2> QED BY <2>1, <2>2
  <1>9. plans'[u] = NoPlan' /\ NoPlan' = NoPlan
    BY <1>3 DEF NoPlan
  <1>10. EnterWaiting(u, budget[u], clock) /\ Owned(u)
    BY <1>1
  <1> QED BY <1>2, <1>3, <1>4, <1>5, <1>6, <1>7, <1>8, <1>9, <1>10, AskSound

LEMMA HaltSound ==
  ASSUME Inv, Commit, Halt
  PROVE  Sound
  <1>1. /\ run.pc = "exec" /\ ~run.sure
        /\ UNCHANGED <<kind, first, round, outcome, hp, initiative, plans, taken>>
    BY DEF Halt
  <1>2. CASE Owned(run.unit) /\ budget[run.unit].ap >= MinCost
    BY <1>1, <1>2, AsksAgainSound DEF Halt, Actor
  <1>3. CASE ~(Owned(run.unit) /\ budget[run.unit].ap >= MinCost)
    BY <1>1, <1>3, TurnEndsSound DEF Halt, Actor
  <1> QED BY <1>2, <1>3

LEMMA ExecuteEndTurnSound ==
  ASSUME Inv, Commit, ExecuteEndTurn
  PROVE  Sound
  BY TurnEndsSound DEF ExecuteEndTurn, Actor

LEMMA DrainedSound ==
  ASSUME Inv, Commit, Drained
  PROVE  Sound
  <1>1. /\ run.pc = "exec" /\ run.rest = <<>>
        /\ UNCHANGED <<kind, first, round, outcome, hp, initiative, plans, taken>>
    BY DEF Drained
  <1>2. ~run.sure /\ (run.origin = "Live" => Owned(run.unit))
    BY <1>1 DEF Inv, Acting
  <1>3. CASE run.origin = "Live" /\ budget[run.unit].ap >= MinCost
    BY <1>1, <1>2, <1>3, AsksAgainSound DEF Drained, Actor
  <1>4. CASE ~(run.origin = "Live" /\ budget[run.unit].ap >= MinCost)
    BY <1>1, <1>4, TurnEndsSound DEF Drained, Actor
  <1> QED BY <1>3, <1>4

(* What an entry costs is paid from what there was.                         *)
LEMMA SpentIs ==
  ASSUME NEW bd \in BudgetRow, NEW e \in Entries, NEW tax \in {0, Tax}, Affordable(bd, e, tax)
  PROVE  LET b == Spent(bd, e, tax) IN
         b \in BudgetRow /\ (e # "end" => b.ap + MinCost <= bd.ap)
  <1>1. /\ bd.ap \in 0..ApTurn /\ bd.strides \in 0..MaxStrides /\ bd.attacks \in Nat
        /\ ApTurn \in Nat /\ MaxStrides \in Nat /\ MinCost \in Nat /\ Exert \in Nat /\ tax \in Nat
        /\ Cost[e] \in Nat
    BY TurnTuning DEF BudgetRow
  <1>2. e # "end" => Cost[e] >= MinCost
    BY TurnTuning
  <1>3. CostOf(bd, e, tax) \in Nat /\ CostOf(bd, e, tax) >= Cost[e]
    BY <1>1 DEF CostOf
  <1>4. CostOf(bd, e, tax) <= bd.ap
    BY DEF Affordable
  <1>5. bd.strides + Strides(e) \in 0..MaxStrides
    <2>1. Strides(e) \in {0, 1, 2}
      BY DEF Strides
    <2>2. Strides(e) > 0 => bd.strides + Strides(e) <= MaxStrides
      BY DEF Affordable
    <2> QED BY <1>1, <2>1, <2>2
  <1>6. bd.attacks + (IF IsAttack(e) THEN 1 ELSE 0) \in Nat
    BY <1>1
  <1> DEFINE c == CostOf(bd, e, tax)
             strides == bd.strides + Strides(e)
             attacks == bd.attacks + (IF IsAttack(e) THEN 1 ELSE 0)
  <1>7. Spent(bd, e, tax) = [ap |-> bd.ap - c, strides |-> strides, attacks |-> attacks]
    BY DEF Spent
  <1>8. bd.ap - c \in 0..ApTurn /\ (e # "end" => (bd.ap - c) + MinCost <= bd.ap)
    BY <1>1, <1>2, <1>3, <1>4
  <1> HIDE DEF c, strides, attacks
  <1> QED BY <1>5, <1>6, <1>7, <1>8 DEF BudgetRow, strides, attacks

LEMMA ExecuteFleeSound ==
  ASSUME Inv, Commit, ExecuteFlee
  PROVE  Sound
  <1>1. /\ run.pc = "exec" /\ kind = "wild" /\ Affordable(budget[run.unit], "flee", 0)
        /\ budget' = [budget EXCEPT ![run.unit] = Spent(@, "flee", 0)]
        /\ Finish("fled", clock) /\ UNCHANGED <<kind, first, round, hp, initiative, taken>>
    BY DEF ExecuteFlee, Actor
  <1>2. ~Stopping /\ run.unit \in Units
    BY <1>1 DEF Stopping, Inv, Acting
  <1>3. budget \in [Units -> BudgetRow]
    BY DEF Inv, TypeOK, BudgetRow
  <1>4. Spent(budget[run.unit], "flee", 0) \in BudgetRow
    <2>1. "flee" \in Entries
      BY DEF Entries
    <2> QED BY <1>1, <1>2, <1>3, <2>1, SpentIs
  <1>5. budget' \in [Units -> BudgetRow]
    BY <1>1, <1>2, <1>3, <1>4
  <1>6. "fled" \in Outcomes
    BY <1>1 DEF Outcomes
  <1>7. /\ OnBoard' /\ hp' \in [Units -> 0..MaxHP] /\ initiative' \in Seq(Units)
        /\ taken' \subseteq Units
    BY <1>1, BoardKept DEF Inv, TypeOK
  <1> QED BY <1>1, <1>2, <1>5, <1>6, <1>7, FinishSound

LEMMA DecidedIs ==
  ASSUME NEW h
  PROVE  /\ Decided(h) \subseteq Outcomes
         /\ Decided(h) = {} => \A s \in Sides : \E u \in Units : SideOf[u] = s /\ h[u] > 0
  <1> DEFINE Stands(s) == \E u \in Units : SideOf[u] = s /\ h[u] > 0
  <1>1. Decided(h) = IF Stands("A") /\ Stands("B") THEN {}
                     ELSE IF Stands("A") THEN {"sideA"}
                     ELSE IF Stands("B") \/ kind = "wild" THEN {"sideB"}
                     ELSE {"sideA", "sideB"}
    BY DEF Decided
  <1> HIDE DEF Stands
  <1>2. Decided(h) \subseteq {"sideA", "sideB"}
    BY <1>1
  <1>3. Decided(h) = {} => Stands("A") /\ Stands("B")
    BY <1>1
  <1> QED BY <1>2, <1>3 DEF Stands, Sides, Outcomes

(* An entry raises nobody.                                                  *)
LEMMA EffectsAre ==
  ASSUME TypeOK, NEW e, NEW h \in Effects(e)
  PROVE  h \in [Units -> 0..MaxHP] /\ \A u \in Units : h[u] > 0 => hp[u] > 0
  <1>1. hp \in [Units -> 0..MaxHP] /\ MaxHP \in Nat
    BY TurnTuning DEF TypeOK
  <1>2. CASE h = hp
    BY <1>1, <1>2
  <1>3. CASE \E hit \in SUBSET Alive : h = Wounded(hit)
    BY <1>1, <1>3 DEF Wounded
  <1>4. CASE \E v \in {w \in Alive : hp[w] < MaxHP} : h = [hp EXCEPT ![v] = @ + 1]
    BY <1>1, <1>4 DEF Alive
  <1>5. CASE \E v \in Alive : h = [hp EXCEPT ![v] = 0]
    BY <1>1, <1>5 DEF Alive
  <1> QED BY <1>2, <1>3, <1>4, <1>5 DEF Effects

LEMMA BoardSwept ==
  ASSUME Inv, NEW h \in [Units -> Nat], \A u \in Units : h[u] > 0 => hp[u] > 0,
         hp' = h, initiative' = Standing(h)
  PROVE  OnBoard' /\ initiative' \in Seq(Units)
  BY SweepKeepsOrder DEF Inv, OnBoard

(* The fallen leave the order, and who has had a turn stays in front.       *)
LEMMA ChainSwept ==
  ASSUME Inv, ~Stopping, NEW h \in [Units -> Nat], \A u \in Units : h[u] > 0 => hp[u] > 0,
         hp' = h, initiative' = Standing(h), UNCHANGED taken,
         run'.order = run.order, run'.at = run.at
  PROVE  /\ Chained'
         /\ \A u \in Units : hp'[u] > 0 /\ Latest(u) => Latest(u)'
  <1> DEFINE o == Standing(h)
  <1>1. /\ o \in Seq(Units)
        /\ \A u \in Units : h[u] > 0 <=> \E i \in DOMAIN o : o[i] = u
        /\ \A i, j \in DOMAIN o, p, q \in DOMAIN initiative :
             initiative[p] = o[i] /\ initiative[q] = o[j] => (i < j <=> p < q)
    BY SweepKeepsOrder DEF Inv
  <1>2. initiative' = o
    OBVIOUS
  <1> HIDE DEF o
  <1>3. initiative \in Seq(Units)
    BY DEF Inv, TypeOK
  <1>4. /\ DOMAIN o = 1 .. Len(o) /\ DOMAIN initiative = 1 .. Len(initiative)
        /\ \A i \in DOMAIN o : i \in Nat /\ o[i] \in Units
        /\ \A i \in DOMAIN initiative : i \in Nat
    BY <1>1, <1>3
  <1>5. \A i \in DOMAIN o : \E p \in DOMAIN initiative : initiative[p] = o[i]
    <2> SUFFICES ASSUME NEW i \in DOMAIN o PROVE \E p \in DOMAIN initiative : initiative[p] = o[i]
      OBVIOUS
    <2>1. o[i] \in Units /\ h[o[i]] > 0
      BY <1>1, <1>4
    <2> QED BY <2>1 DEF Inv, OnBoard
  <1>6. Chained /\ Due' = Due
    BY DEF Inv, Due
  <1>7. ASSUME NEW p \in DOMAIN run.order, NEW q \in DOMAIN run.order,
               NEW i \in DOMAIN o, NEW j \in DOMAIN o,
               p < q, run.order[p] = o[i], run.order[q] = o[j]
        PROVE  i < j
    <2>1. PICK k \in DOMAIN initiative : initiative[k] = o[i]
      BY <1>5
    <2>2. PICK l \in DOMAIN initiative : initiative[l] = o[j]
      BY <1>5
    <2>3. k < l
      BY <1>6, <1>7, <2>1, <2>2 DEF Chained
    <2> QED BY <1>1, <2>1, <2>2, <2>3
  <1>8. ASSUME NEW i \in DOMAIN o, NEW j \in DOMAIN o, i < j, o[j] \in taken
        PROVE  o[i] \in taken
    <2>1. PICK k \in DOMAIN initiative : initiative[k] = o[i]
      BY <1>5
    <2>2. PICK l \in DOMAIN initiative : initiative[l] = o[j]
      BY <1>5
    <2>3. k < l
      BY <1>1, <1>8, <2>1, <2>2
    <2> QED BY <1>6, <1>8, <2>1, <2>2, <2>3 DEF Chained
  <1>9. Chained'
    <2>1. \A u \in Units : hp'[u] > 0 => u \in taken \cup Due
      BY <1>6 DEF Chained
    <2>2. taken \cap Due = {}
      BY <1>6 DEF Chained
    <2>3. \A p, q \in DOMAIN run.order : run.order[p] = run.order[q] => p = q
      BY <1>6 DEF Chained
    <2> QED BY <1>2, <1>6, <1>7, <1>8, <2>1, <2>2, <2>3 DEF Chained
  <1>10. ASSUME NEW u \in Units, hp'[u] > 0, Latest(u)
         PROVE  Latest(u)'
    <2>1. u \in taken' /\ taken' = taken
      BY <1>10 DEF Latest
    <2>2. ASSUME NEW i \in DOMAIN o, NEW j \in DOMAIN o, o[j] = u
          PROVE  o[i] \in taken <=> i <= j
      <3>1. PICK k \in DOMAIN initiative : initiative[k] = o[i]
        BY <1>5
      <3>2. PICK l \in DOMAIN initiative : initiative[l] = o[j]
        BY <1>5
      <3>3. o[i] \in taken <=> k <= l
        BY <1>10, <2>2, <3>1, <3>2 DEF Latest
      <3>4. j < i <=> l < k
        BY <1>1, <3>1, <3>2
      <3> QED BY <1>4, <3>3, <3>4
    <2> QED BY <1>2, <2>1, <2>2 DEF Latest
  <1> QED BY <1>9, <1>10

LEMMA ExecuteSound ==
  ASSUME Inv, Commit, Execute
  PROVE  Sound
  <1> DEFINE e == Head(run.rest)
  <1>1. /\ run.pc = "exec" /\ run.rest # <<>> /\ e # "end"
        /\ UNCHANGED <<kind, first, round, taken>>
    BY DEF Execute, MayExecute
  <1>2. ~Stopping
    BY <1>1 DEF Stopping
  <1>3. PICK u \in Units : u = run.unit
    BY <1>1 DEF Inv, Acting
  <1>4. run \in RunRow /\ run.rest \in Seq(Entries) /\ e \in Entries /\ Tail(run.rest) \in Seq(Entries)
    BY <1>1 DEF Inv, TypeOK, RunRow
  <1>5. PICK tax \in {0, Tax} :
          /\ Affordable(budget[u], e, tax)
          /\ budget' = [budget EXCEPT ![u] = Spent(@, e, tax)]
    BY <1>3 DEF Execute, Actor
  <1>6. PICK h \in Effects(e) :
          /\ hp' = h /\ initiative' = Standing(h)
          /\ IF Decided(h) # {}
             THEN \E o \in Decided(h) : Finish(o, clock)
             ELSE /\ plans' = PlansOf(h)
                  /\ run' = IF h[u] = 0 THEN NextUnit
                            ELSE [run EXCEPT !.rest = Tail(@), !.sure = FALSE]
                  /\ UNCHANGED <<turn, outcome, clock>>
    BY <1>3 DEF Execute, Actor
  <1> HIDE DEF e
  <1>7. budget[u] \in BudgetRow /\ budget \in [Units -> BudgetRow]
    BY DEF Inv, TypeOK, BudgetRow
  <1>8. /\ budget' \in [Units -> BudgetRow] /\ budget'[u].ap + MinCost <= budget[u].ap
        /\ \A v \in Units : v # u => budget'[v] = budget[v]
    <2> DEFINE b == Spent(budget[u], e, tax)
    <2>1. b \in BudgetRow /\ b.ap + MinCost <= budget[u].ap
      BY <1>1, <1>4, <1>5, <1>7, SpentIs
    <2>2. budget' = [budget EXCEPT ![u] = b]
      BY <1>5
    <2> HIDE DEF b
    <2> QED BY <1>7, <2>1, <2>2
  <1>9. /\ hp' \in [Units -> 0..MaxHP] /\ h \in [Units -> Nat]
        /\ \A v \in Units : h[v] > 0 => hp[v] > 0
    <2>1. h \in [Units -> 0..MaxHP] /\ \A v \in Units : h[v] > 0 => hp[v] > 0
      BY EffectsAre DEF Inv
    <2> QED BY <1>6, <2>1, TurnTuning
  <1>10. OnBoard' /\ initiative' \in Seq(Units)
    BY <1>6, <1>9, BoardSwept
  <1>11. CASE Decided(h) # {}
    <2>1. PICK o \in Outcomes : Finish(o, clock)
      BY <1>6, <1>11, DecidedIs
    <2>2. taken' \subseteq Units
      BY <1>1 DEF Inv, TypeOK
    <2> QED BY <1>1, <1>2, <1>6, <1>8, <1>9, <1>10, <2>1, <2>2, FinishSound
  <1>12. CASE Decided(h) = {}
    <2>1. /\ plans' = PlansOf(h) /\ UNCHANGED <<turn, outcome, clock>>
          /\ run' = IF h[u] = 0 THEN NextUnit ELSE [run EXCEPT !.rest = Tail(@), !.sure = FALSE]
      BY <1>6, <1>12
    <2>2. \/ h[u] = 0 /\ run'.pc = "next"
          \/ h[u] > 0 /\ run'.pc = "exec" /\ run'.unit = u /\ run'.origin = run.origin /\ ~run'.sure
      <3>1. CASE h[u] = 0
        BY <1>4, <2>1, <3>1, NextUnitIs
      <3>2. CASE h[u] # 0
        <4>1. run' = [run EXCEPT !.rest = Tail(run.rest), !.sure = FALSE]
          BY <2>1, <3>2
        <4>2. h[u] > 0
          BY <1>9, <3>2
        <4> QED BY <1>1, <1>3, <1>4, <4>1, <4>2 DEF RunRow
      <3> QED BY <3>1, <3>2
    <2>3. run' \in RunRow /\ run'.order = run.order /\ run'.at = run.at
      <3>1. CASE h[u] = 0
        BY <1>4, <2>1, <3>1, NextUnitIs
      <3>2. CASE h[u] # 0
        <4> DEFINE rest == Tail(run.rest)
        <4>1. run' = [run EXCEPT !.rest = rest, !.sure = FALSE] /\ rest \in Seq(Entries)
          BY <1>4, <2>1, <3>2
        <4> HIDE DEF rest
        <4> QED BY <1>4, <4>1 DEF RunRow
      <3> QED BY <3>1, <3>2
    <2>4. plans' \in [Units -> Seq(Entries)]
      <3>1. plans \in [Units -> Seq(Entries)] /\ NoPlan \in Seq(Entries)
        BY DEF Inv, TypeOK, NoPlan
      <3> QED BY <2>1, <3>1 DEF PlansOf
    <2>5. TypeOK'
      BY <1>1, <1>8, <1>9, <1>10, <2>1, <2>3, <2>4, Types DEF Inv, TypeOK, RunRow, BudgetRow
    <2>6. /\ \A v \in Units : plans'[v] # NoPlan => plans[v] # NoPlan /\ h[v] > 0
          /\ plans[u] = NoPlan => plans'[u] = NoPlan
      BY <2>1 DEF PlansOf
    <2>7. GoesOn' /\ Queued'
      <3>1. \A s \in Sides : \E v \in Units : SideOf[v] = s /\ hp'[v] > 0
        BY <1>6, <1>12, DecidedIs
      <3>2. Ongoing' /\ \A s \in Sides : clock'[s].strikes < Forfeit
        BY <1>2, <2>1, RunningIsOngoing DEF Inv, GoesOn, Ongoing
      <3>3. GoesOn'
        BY <3>1, <3>2 DEF GoesOn
      <3>4. \A v \in Units : plans'[v] # NoPlan => hp'[v] > 0 /\ Owned(v)
        BY <1>6, <2>6 DEF Inv, Queued
      <3>5. \A v \in Units : Owned(v)' <=> Owned(v)
        BY <1>1 DEF Owned, C!Owned
      <3> QED BY <3>3, <3>4, <3>5 DEF Queued, NoPlan
    <2>8. Points'
      <3>1. \A v \in Units : v # u /\ hp[v] > 0 => budget[v] = Idle
        BY <1>2, <1>3, RunningIsOngoing DEF Inv, Points
      <3>2. \A v \in Units : v # u /\ hp'[v] > 0 => budget'[v] = Idle
        BY <1>6, <1>8, <1>9, <3>1
      <3>3. Idle' = Idle
        BY DEF Idle
      <3>4. hp'[u] > 0 => run'.pc = "exec" /\ run'.unit = u
        BY <1>6, <2>2
      <3> QED BY <3>2, <3>3, <3>4 DEF Points
    <2>9. Chained' /\ (hp'[u] > 0 /\ Latest(u) => Latest(u)')
      BY <1>1, <1>2, <1>6, <1>9, <2>3, ChainSwept
    <2>10. Acting'
      <3> SUFFICES ASSUME run'.pc = "exec" PROVE Acting'
        BY DEF Acting
      <3>1. h[u] > 0 /\ run'.unit = u /\ run'.origin = run.origin /\ ~run'.sure
        BY <2>2
      <3>2. plans[u] = NoPlan /\ Latest(u) /\ (run.origin = "Live" => Owned(u))
        BY <1>1, <1>3 DEF Inv, Acting
      <3> DEFINE w == clock[SideOf[u]].windows
                 paid == w * MinCost
      <3>3. Owned(u) => budget[u].ap + paid <= ApTurn + IF run.sure THEN MinCost ELSE 0
        BY <1>1, <1>3 DEF Inv, Acting
      <3>4. paid \in Nat /\ ApTurn \in Nat /\ MinCost \in Nat
        <4>1. clock \in [Sides -> ClockRow] /\ SideOf[u] \in Sides
          BY TurnUnits DEF Inv, TypeOK, ClockRow, Sides
        <4>2. w \in Nat /\ MinCost \in Nat /\ ApTurn \in Nat
          BY <4>1, TurnTuning DEF ClockRow
        <4> HIDE DEF w
        <4> QED BY <4>2
      <3>5. clock'[SideOf[u]].windows * MinCost = paid
        BY <2>1
      <3> HIDE DEF paid
      <3>6. budget[u].ap \in Nat /\ budget'[u].ap \in Nat
        BY <1>7, <1>8, TurnTuning DEF BudgetRow
      <3>7. Owned(u) => budget'[u].ap + paid <= ApTurn + 0
        BY <1>8, <3>3, <3>4, <3>6
      <3>8. (Owned(u)' <=> Owned(u)) /\ NoPlan' = NoPlan
        BY <1>1 DEF Owned, C!Owned, NoPlan
      <3>9. Latest(u)' /\ hp'[u] > 0 /\ plans'[u] = NoPlan
        BY <1>6, <2>6, <2>9, <3>1, <3>2
      <3>10. Owned(u)' => budget'[u].ap + clock'[SideOf[u]].windows * MinCost <= ApTurn + 0
        BY <3>5, <3>7, <3>8
      <3> QED BY <3>1, <3>2, <3>8, <3>9, <3>10 DEF Acting, Owned, C!Owned
    <2>11. run'.pc # "stopped" /\ \A v \in Units : hp'[v] > 0 => hp[v] > 0
      BY <1>6, <1>9, <2>2
    <2> QED BY <1>1, <1>2, <1>10, <2>1, <2>5, <2>6, <2>7, <2>8, <2>9, <2>10, <2>11, RunningSound
  <1> QED BY <1>11, <1>12

LEMMA EndRoundSound ==
  ASSUME Inv, Commit, EndRound
  PROVE  Sound
  <1>1. run.pc = "next" /\ UNCHANGED <<kind, first, budget>> /\ ~Stopping /\ Ongoing
    BY BetweenTurns, RunningIsOngoing DEF EndRound
  <1>2. PICK hurt \in SUBSET Alive :
          LET Loss(u) == Surge(round) + (IF u \in hurt THEN 1 ELSE 0)
              h == [u \in Units |-> IF hp[u] > Loss(u) THEN hp[u] - Loss(u) ELSE 0]
          IN /\ hp' = h
             /\ IF Decided(h) # {}
                THEN /\ \E o \in Decided(h) : Finish(o, clock)
                     /\ initiative' = Standing(h)
                     /\ UNCHANGED <<round, taken>>
                ELSE IF kind = "wild" /\ round >= RoundCap
                THEN /\ Finish("fled", clock)
                     /\ initiative' = Standing(h)
                     /\ UNCHANGED <<round, taken>>
                ELSE /\ round' = round + 1 /\ turn' = "advancing"
                     /\ initiative' = OrderIn(round + 1, {u \in Units : h[u] > 0})
                     /\ plans' = PlansOf(h) /\ taken' = {}
                     /\ run' = Stopped
                     /\ UNCHANGED <<outcome, clock>>
    BY DEF EndRound
  <1> DEFINE Loss(u) == Surge(round) + (IF u \in hurt THEN 1 ELSE 0)
             h == [u \in Units |-> IF hp[u] > Loss(u) THEN hp[u] - Loss(u) ELSE 0]
  <1>3. /\ round \in Nat \ {0} /\ SurgeStart \in Nat \ {0} /\ Surge(round) \in Nat
        /\ MaxHP \in Nat /\ hp \in [Units -> 0..MaxHP] /\ taken \subseteq Units
    <2>1. round \in Nat \ {0} /\ SurgeStart \in Nat \ {0} /\ MaxHP \in Nat
      BY TurnTuning DEF Inv, TypeOK
    <2>2. Surge(round) \in Nat
      BY <2>1 DEF Surge
    <2> QED BY <2>1, <2>2 DEF Inv, TypeOK
  <1>4. /\ h \in [Units -> 0..MaxHP] /\ h \in [Units -> Nat]
        /\ \A u \in Units : h[u] > 0 => hp[u] > Surge(round)
        /\ \A u \in Units : h[u] > 0 => hp[u] > 0
    BY <1>3
  <1>5. budget' \in [Units -> BudgetRow] /\ clock \in [Sides -> ClockRow]
    BY <1>1 DEF Inv, TypeOK, BudgetRow, ClockRow
  <1>6. /\ hp' = h
        /\ \/ /\ \E o \in Outcomes : Finish(o, clock)
              /\ initiative' = Standing(h) /\ UNCHANGED <<round, taken>>
           \/ /\ Decided(h) = {} /\ ~(kind = "wild" /\ round >= RoundCap)
              /\ round' = round + 1 /\ turn' = "advancing"
              /\ initiative' = OrderIn(round + 1, {u \in Units : h[u] > 0})
              /\ plans' = PlansOf(h) /\ taken' = {} /\ run' = Stopped
              /\ UNCHANGED <<outcome, clock>>
    <2>1. kind = "wild" => "fled" \in Outcomes
      BY DEF Outcomes
    <2>2. Decided(h) \subseteq Outcomes
      BY DecidedIs
    <2> QED BY <1>2, <2>1, <2>2
  <1> HIDE DEF h
  <1>7. CASE /\ \E o \in Outcomes : Finish(o, clock)
             /\ initiative' = Standing(h) /\ UNCHANGED <<round, taken>>
    <2>1. PICK o \in Outcomes : Finish(o, clock)
      BY <1>7
    <2>2. OnBoard' /\ initiative' \in Seq(Units)
      BY <1>4, <1>6, <1>7, BoardSwept
    <2> QED BY <1>1, <1>3, <1>4, <1>5, <1>6, <1>7, <2>1, <2>2, FinishSound
  <1>8. CASE /\ Decided(h) = {} /\ ~(kind = "wild" /\ round >= RoundCap)
             /\ round' = round + 1 /\ turn' = "advancing"
             /\ initiative' = OrderIn(round + 1, {u \in Units : h[u] > 0})
             /\ plans' = PlansOf(h) /\ taken' = {} /\ run' = Stopped
             /\ UNCHANGED <<outcome, clock>>
    <2> DEFINE S == {u \in Units : h[u] > 0}
    <2>1. \A s \in Sides : \E u \in Units : SideOf[u] = s /\ h[u] > 0
      BY <1>8, DecidedIs
    <2>2. initiative' \in Seq(Units) /\ OnBoard'
      <3>1. S \in SUBSET Units /\ IsFiniteSet(S)
        BY TurnUnits, FS_Subset
      <3>2. initiative' \in SetToSeqs(S)
        BY <1>8, <3>1, OrderExists
      <3>3. \A u \in Units : u \in S <=> h[u] > 0
        OBVIOUS
      <3> HIDE DEF S
      <3>4. /\ initiative' \in Seq(S)
            /\ \A i, j \in DOMAIN initiative' : initiative'[i] = initiative'[j] => i = j
            /\ \A x : x \in S <=> \E i \in DOMAIN initiative' : initiative'[i] = x
        BY <3>1, <3>2, Enumerates
      <3>5. initiative' \in Seq(Units)
        BY <3>1, <3>4
      <3> QED BY <1>6, <3>3, <3>4, <3>5 DEF OnBoard
    <2>3. round < LastRound[kind]
      <3>1. CASE kind = "wild"
        <4>1. LastRound[kind] = RoundCap /\ RoundCap \in Nat
          BY <3>1, TurnTuning DEF LastRound
        <4> QED BY <1>3, <1>8, <3>1, <4>1
      <3>2. CASE kind # "wild"
        <4>1. kind = "pvp" /\ LastRound[kind] = SurgeStart + MaxHP - 1
          BY <3>2, TurnUnits DEF Inv, TypeOK, LastRound
        <4>2. PICK u \in Units : h[u] > 0
          BY <2>1 DEF Sides
        <4>3. Surge(round) < MaxHP
          BY <1>3, <1>4, <4>2
        <4>4. round >= SurgeStart => round + 1 - SurgeStart < MaxHP
          BY <4>1, <4>3 DEF Surge
        <4>5. MaxHP > 0
          BY <1>3, <4>3
        <4> QED BY <1>3, <4>1, <4>4, <4>5
      <3> QED BY <3>1, <3>2
    <2>4. LastRound[kind] \in Nat
      <3>1. RoundCap \in Nat /\ SurgeStart + MaxHP - 1 \in Nat
        BY TurnTuning
      <3>2. kind \in {"wild", "pvp"}
        BY TurnUnits DEF Inv, TypeOK
      <3> QED BY <3>1, <3>2 DEF LastRound
    <2>5. round' \in 1..LastRound[kind']
      BY <1>1, <1>3, <1>8, <2>3, <2>4
    <2>6. plans' \in [Units -> Seq(Entries)]
      <3>1. plans \in [Units -> Seq(Entries)] /\ NoPlan \in Seq(Entries)
        BY DEF Inv, TypeOK, NoPlan
      <3> QED BY <1>8, <3>1 DEF PlansOf
    <2>7. TypeOK'
      BY <1>1, <1>4, <1>5, <1>6, <1>8, <2>2, <2>5, <2>6, StoppedIsTyped, Types
      DEF Inv, TypeOK, ClockRow, BudgetRow, RunRow
    <2>8. Stopping' /\ Ongoing' /\ turn' \notin Units
      BY <1>1, <1>8, StoppedIsTyped, TurnUnits DEF Stopping, Ongoing
    <2>9. \A u \in Units : plans'[u] # NoPlan => plans[u] # NoPlan /\ hp'[u] > 0
      BY <1>6, <1>8 DEF PlansOf
    <2>10. GoesOn' /\ Queued'
      <3>1. \A s \in Sides : clock'[s].strikes < Forfeit
        BY <1>1, <1>8 DEF Inv, GoesOn
      <3>2. GoesOn'
        BY <1>6, <2>1, <2>8, <3>1 DEF GoesOn
      <3>3. \A u \in Units : plans'[u] # NoPlan => hp'[u] > 0 /\ Owned(u)
        BY <2>9 DEF Inv, Queued
      <3>4. \A u \in Units : Owned(u)' <=> Owned(u)
        BY <1>1 DEF Owned, C!Owned
      <3> QED BY <3>2, <3>3, <3>4 DEF Queued, NoPlan
    <2>11. Windows'
      <3>1. \A s \in Sides : clock'[s].open = FALSE
        BY <1>1, <1>8, RunningIsOngoing
      <3> QED BY <2>8, <3>1 DEF Windows
    <2>12. Points'
      <3>1. \A u \in Units : hp'[u] > 0 => budget'[u] = Idle
        BY <1>1, <1>4, <1>6, BetweenTurns
      <3>2. Idle' = Idle
        BY DEF Idle
      <3> QED BY <3>1, <3>2 DEF Points
    <2>13. Waiting' /\ NewRound' /\ Chained' /\ Acting'
      <3>1. run'.pc = "stopped"
        BY <1>8, StoppedIsTyped
      <3> QED BY <1>8, <2>8, <3>1 DEF Waiting, NewRound, Chained, Acting
    <2>14. saved' = View' /\ Saved'
      BY <1>8, <2>8, StoppedIsTyped DEF Commit, Saved
    <2>15. P!Next
      <3>1. \A s \in Sides : /\ clock'[s].seq = clock[s].seq /\ clock'[s].open = clock[s].open
                             /\ clock'[s].strikes = clock[s].strikes
        BY <1>8
      <3>2. View'.clock = View.clock
        BY <3>1, ClocksLookAlike
      <3>3. \A s \in Sides : \E u \in Units : SideOf[u] = s /\ hp'[u] > 0
        BY <1>6, <2>1
      <3>4. \A u \in Units : hp'[u] > 0 => hp[u] > 0
        BY <1>4, <1>6
      <3> QED BY <1>1, <1>8, <2>3, <2>9, <2>14, <3>2, <3>3, <3>4, RoundEndIsPromised DEF Inv
    <2> QED BY <2>2, <2>7, <2>10, <2>11, <2>12, <2>13, <2>14, <2>15 DEF Sound, Inv
  <1> QED BY <1>6, <1>7, <1>8

-----------------------------------------------------------------------------
(* The machine.                                                             *)

LEMMA InitInv == Init => Inv /\ P!Init
  <1> SUFFICES ASSUME Init PROVE Inv /\ P!Init
    OBVIOUS
  <1>1. /\ kind \in Kinds /\ first \in Sides
        /\ round = 1 /\ turn = "none" /\ outcome = "ongoing"
        /\ hp = [u \in Units |-> MaxHP] /\ budget = [u \in Units |-> Idle]
        /\ initiative = OrderIn(1, Units) /\ plans = [u \in Units |-> NoPlan]
        /\ clock = [s \in Sides |-> [seq |-> 0, open |-> FALSE, strikes |-> 0, windows |-> 0]]
        /\ run = Stopped /\ taken = {} /\ saved = View
    BY DEF Init, Sides
  <1>2. /\ clock \in [Sides -> ClockRow]
        /\ \A s \in Sides : clock[s].open = FALSE /\ clock[s].seq = 0 /\ clock[s].strikes = 0
    <2> DEFINE no == FALSE
    <2>1. clock = [s \in Sides |-> [seq |-> 0, open |-> no, strikes |-> 0, windows |-> 0]]
          /\ no \in BOOLEAN
      BY <1>1
    <2> HIDE DEF no
    <2>2. /\ clock \in [Sides -> ClockRow]
          /\ \A s \in Sides : clock[s].open = no /\ clock[s].seq = 0 /\ clock[s].strikes = 0
      BY <2>1, TurnTuning DEF ClockRow
    <2> QED BY <2>2 DEF no
  <1>3. initiative \in Seq(Units) /\ OnBoard
    <2>1. IsFiniteSet(Units) /\ initiative \in SetToSeqs(Units)
      BY <1>1, OrderExists, TurnUnits
    <2>2. /\ initiative \in Seq(Units)
          /\ \A i, j \in DOMAIN initiative : initiative[i] = initiative[j] => i = j
          /\ \A x : x \in Units <=> \E i \in DOMAIN initiative : initiative[i] = x
      BY <2>1, Enumerates
    <2>3. \A u \in Units : hp[u] > 0
      BY <1>1, TurnTuning
    <2> QED BY <2>2, <2>3 DEF OnBoard
  <1>4. round \in 1..LastRound[kind]
    BY <1>1, TurnTuning, TurnUnits, SMTT(30) DEF LastRound
  <1>5. plans \in [Units -> Seq(Entries)] /\ \A u \in Units : plans[u] = NoPlan
    BY <1>1 DEF NoPlan
  <1>6. TypeOK
    BY <1>1, <1>2, <1>3, <1>4, <1>5, StoppedIsTyped, Budgets, TurnTuning, Types
  <1>7. Stopping /\ Ongoing /\ turn \notin Units
    BY <1>1, StoppedIsTyped, TurnUnits DEF Stopping, Ongoing
  <1>8. \A s \in Sides : \E u \in Units : SideOf[u] = s /\ hp[u] > 0
    BY <1>1, TurnUnits, TurnTuning DEF Sides
  <1>9. GoesOn
    BY <1>2, <1>7, <1>8, TurnTuning DEF GoesOn
  <1>10. Queued /\ Windows /\ Points /\ Waiting /\ NewRound
    BY <1>1, <1>2, <1>5, <1>7 DEF Queued, Windows, Points, Waiting, NewRound
  <1>11. Chained /\ Acting /\ Saved
    BY <1>1, <1>7 DEF Chained, Acting, Saved, Stopping
  <1>12. saved = P!New(kind, Units)
    <2>1. Alive = Units
      BY <1>1, TurnTuning DEF Alive
    <2>2. View.clock = [s \in P!Sides |-> [seq |-> 0, open |-> FALSE, strikes |-> 0]]
      BY <1>1 DEF View, P!Sides, Sides
    <2> QED BY <1>1, <1>5, <2>1, <2>2 DEF View, P!New
  <1> QED BY <1>1, <1>3, <1>6, <1>9, <1>10, <1>11, <1>12 DEF Inv, P!Init

LEMMA NextSound == Inv /\ [Next]_vars => Sound
  <1> SUFFICES ASSUME Inv, [Next]_vars PROVE Sound
    OBVIOUS
  <1>1. CASE UNCHANGED vars
    <2>1. /\ kind' = kind /\ first' = first /\ round' = round /\ turn' = turn
          /\ outcome' = outcome /\ hp' = hp /\ budget' = budget /\ initiative' = initiative
          /\ plans' = plans /\ clock' = clock /\ run' = run /\ taken' = taken /\ saved' = saved
      BY <1>1 DEF vars, board
    <2>2. TypeOK' /\ OnBoard' /\ GoesOn' /\ Queued' /\ Windows' /\ Points'
      BY <2>1 DEF Inv, TypeOK, OnBoard, GoesOn, Ongoing, Queued, Windows, Points, Stopping,
                  Owned, C!Owned
    <2>3. Waiting' /\ NewRound' /\ Chained' /\ Acting'
      BY <2>1 DEF Inv, Waiting, NewRound, Chained, Acting, Stopping, Ongoing, Latest, Due,
                  Owned, C!Owned
    <2>4. Saved'
      BY <2>1, ZenonT(40) DEF Inv, Saved, Stopping, View, Alive, Bases, InStep, Owned, C!Owned
    <2> QED BY <2>1, <2>2, <2>3, <2>4 DEF Sound, Inv
  <1>2. CASE Next
    <2>1. Commit /\ (Inputs \/ Steps)
      BY <1>2 DEF Next
    <2>2. CASE Start \/ Advance
      BY <2>1, <2>2, StartSound
    <2>3. CASE \E u \in Units, plan \in PlayerPlans : SubmitQueued(u, plan) \/ SubmitLive(u, plan)
      BY <2>1, <2>3, SubmitQueuedSound, SubmitLiveSound
    <2>4. CASE \E u \in Units : CancelQueue(u) \/ Expire(u)
      BY <2>1, <2>4, CancelQueueSound, ExpireSound
    <2>5. CASE \E o \in IF kind = "wild" THEN {"fled"} ELSE {"sideA", "sideB"} : Conclude(o)
      BY <2>1, <2>5, ConcludeSound
    <2>6. CASE SkipFallen
      BY <2>1, <2>6, SkipFallenSound
    <2>7. CASE StartTurn
      BY <2>1, <2>7, StartTurnSound
    <2>8. CASE BlockedTurn
      BY <2>1, <2>8, BlockedTurnSound
    <2>9. CASE Halt
      BY <2>1, <2>9, HaltSound
    <2>10. CASE ExecuteEndTurn
      BY <2>1, <2>10, ExecuteEndTurnSound
    <2>11. CASE ExecuteFlee
      BY <2>1, <2>11, ExecuteFleeSound
    <2>12. CASE Execute
      BY <2>1, <2>12, ExecuteSound
    <2>13. CASE Drained
      BY <2>1, <2>13, DrainedSound
    <2>14. CASE EndRound
      BY <2>1, <2>14, EndRoundSound
    <2> QED BY <2>1, <2>2, <2>3, <2>4, <2>5, <2>6, <2>7, <2>8, <2>9, <2>10, <2>11, <2>12, <2>13,
               <2>14 DEF Inputs, Steps
  <1> QED BY <1>1, <1>2

(* What the turns of a battle rest on, between any two of the steps a call *)
(* takes (Inv).                                                            *)
THEOREM TurnsRunInOrder == Spec => []Inv
  <1>1. Init => Inv
    BY InitInv
  <1>2. Inv /\ [Next]_vars => Inv'
    BY NextSound DEF Sound
  <1> QED BY <1>1, <1>2, PTL DEF Spec

LEMMA InvIsEnough == Inv => TurnsWellFormed
  <1> SUFFICES ASSUME Inv PROVE TurnsWellFormed
    OBVIOUS
  <1>1. TypeOK
    BY DEF Inv
  <1>2. OneTurnEach
    <2> SUFFICES ASSUME run.pc = "next"
                 PROVE  LET due == {run.order[i] : i \in {j \in DOMAIN run.order : j >= run.at}}
                        IN Alive \subseteq taken \cup due /\ taken \cap due = {}
      BY DEF OneTurnEach
    <2> QED BY DEF Inv, Chained, Stopping, Due, Alive
  <1>3. PlansHaveActors
    <2>1. ASSUME NEW u \in Units, run.pc = "stopped", plans[u] # NoPlan
          PROVE  hp[u] > 0 /\ Owned(u) /\ turn # u
      BY <2>1 DEF Inv, Queued, Waiting, Stopping
    <2> QED BY <2>1 DEF PlansHaveActors
  <1>4. PointsOnlyInTurn
    <2> SUFFICES ASSUME Stopping
                 PROVE  /\ \A u \in Alive : budget[u] # Idle => turn \in {u, "none"}
                        /\ \A s \in Sides : clock[s].open <=> (turn \in Units /\ SideOf[turn] = s)
      BY DEF PointsOnlyInTurn, Stopping
    <2>1. \A u \in Alive : budget[u] # Idle => turn \in {u, "none"}
      BY DEF Inv, Points, GoesOn, Stopping, Alive
    <2> QED BY <2>1 DEF Inv, Windows
  <1>5. WindowsSuffice
    BY WindowIsLeft DEF WindowsSuffice
  <1>6. OngoingIsContested
    <2>1. Ongoing => \A s \in Sides : \E u \in Units : SideOf[u] = s /\ hp[u] > 0
      BY DEF Inv, GoesOn
    <2> QED BY <2>1 DEF OngoingIsContested, Ongoing, Alive
  <1> QED BY <1>1, <1>2, <1>3, <1>4, <1>5, <1>6 DEF TurnsWellFormed

(* Turns, plans, points, windows and the outcome agree in every chain of    *)
(* turns: nobody is skipped or goes twice in a round whoever falls, no plan *)
(* or point outlives its turn, and the window cap never stops a player.     *)
THEOREM TurnsAgree == Spec => []TurnsWellFormed
  <1>1. Spec => []Inv
    BY TurnsRunInOrder
  <1> QED BY <1>1, InvIsEnough, PTL

(* A whole call, however many turns it runs, is one step of the contract    *)
(* the rest of the server relies on.                                        *)
THEOREM CallsKeepTheContract == Spec => ImplementsTurnContract
  <1>1. Init => P!Init
    BY InitInv
  <1>2. Inv /\ [Next]_vars => [P!Next]_saved
    BY NextSound DEF Sound
  <1>3. Spec => []Inv
    BY TurnsRunInOrder
  <1> QED BY <1>1, <1>2, <1>3, PTL DEF Spec, ImplementsTurnContract, P!Spec

-----------------------------------------------------------------------------
(* Challenges: the inductive invariant.                                     *)

(* Ids are handed out in order.  It makes the older of two challenges the   *)
(* one with the smaller id, and a new one younger than all.                 *)
IdsInv == \A c \in challenges : c.id < nextId

RequestsInv == IdsInv /\ OneEachWay /\ ChallengesDoNotCross /\ ReapersMatchChallenges

(* The game is for the connected.  A challenger is in it, hence connected   *)
(* when its challenge turns into a battle.                                  *)
JoinedAreConnected == player \subseteq online

FightsInv == ChallengersPresent /\ BattlersConnected /\ OneBattleEach

ChallengesInv == ChallengesTyped /\ RequestsInv /\ JoinedAreConnected /\ FightsInv

-----------------------------------------------------------------------------
(* What a step does to the tables of challenges.                            *)

LEMMA RequestSteps ==
  ASSUME ChallengesTyped, ChallengesNext
  PROVE  \/ \E me, target \in Players : ChallengePvp(me, target)
         \/ \E gone \in SUBSET challenges : DeleteChallenges(gone)
         \/ \E r \in reapers : BattleChallengeReaper(r)
         \/ UNCHANGED requests
  <1>1. ASSUME NEW me \in Players, NEW c \in challenges,
               AcceptChallenge(me, c) \/ DeclineChallenge(me, c) \/ CancelChallenge(me, c)
        PROVE  \E gone \in SUBSET challenges : DeleteChallenges(gone)
    <2>1. {c} \in SUBSET challenges
      OBVIOUS
    <2> QED BY <1>1, <2>1 DEF AcceptChallenge, DeclineChallenge, CancelChallenge
  <1>2. ASSUME NEW p \in Players, OnDisconnect(p) \/ AccountDeletionReaper(p)
        PROVE  \E gone \in SUBSET challenges : DeleteChallenges(gone)
    <2>1. /\ OutgoingOf(p) \in SUBSET challenges
          /\ OutgoingOf(p) \cup IncomingOf(p) \in SUBSET challenges
      BY DEF OutgoingOf, IncomingOf
    <2> QED BY <1>2, <2>1 DEF OnDisconnect, AccountDeletionReaper
  <1>3. ASSUME Battling \/ ConfigureIssuers \/ Tick PROVE UNCHANGED requests
    BY <1>3 DEF Battling, StartWildTactical, EndBattle, ConfigureIssuers, Tick, requests
  <1>4. ASSUME NEW p \in Players,
               OnConnect(p) \/ JoinGame(p) \/ DeleteAccount(p) \/ CancelAccountDeletion(p)
        PROVE  UNCHANGED requests
    BY <1>4 DEF OnConnect, JoinGame, DeleteAccount, CancelAccountDeletion
  <1> QED BY <1>1, <1>2, <1>3, <1>4 DEF ChallengesNext, Pvp, Identity

LEMMA NoNewChallenge ==
  ASSUME ChallengesTyped,
         \/ \E gone \in SUBSET challenges : DeleteChallenges(gone)
         \/ \E r \in reapers : BattleChallengeReaper(r)
         \/ UNCHANGED requests
  PROVE  challenges' \subseteq challenges /\ nextId' = nextId
  BY DEF DeleteChallenges, BattleChallengeReaper, requests

(* The new row, as ChallengePvp inserts it.                                 *)
Sent(me, target) == [id |-> nextId, challenger |-> me, target |-> target, createdAt |-> now]

LEMMA SentType ==
  ASSUME ChallengesTyped, NEW me \in Players, NEW target \in Players, ChallengePvp(me, target)
  PROVE  /\ Sent(me, target) \in Challenge
         /\ now + ChallengeTTL \in 0..MaxNow
         /\ nextId' = nextId + 1 /\ nextId \in 1..MaxChallenges
         /\ challenges' = challenges \cup {Sent(me, target)}
  BY ChallengeBounds DEF ChallengesTyped, ChallengePvp, Challenge, Sent

-----------------------------------------------------------------------------
LEMMA TypeStep == ChallengesTyped /\ IdsInv /\ [ChallengesNext]_challengesVars => ChallengesTyped'
  <1> SUFFICES ASSUME ChallengesTyped, IdsInv, [ChallengesNext]_challengesVars PROVE ChallengesTyped'
    OBVIOUS
  <1>1. CASE UNCHANGED challengesVars
    BY <1>1 DEF challengesVars, identities, requests, ChallengesTyped
  <1>2. CASE ChallengesNext
    <2> DEFINE RequestsOK == /\ challenges \subseteq Challenge
                             /\ \A c, d \in challenges : c.id = d.id => c = d
                             /\ reapers \subseteq [challengeId : 1..MaxChallenges, at : 0..MaxNow]
                             /\ nextId \in 1..MaxChallenges + 1
               OthersOK ==
                 /\ now \in 0..MaxNow /\ enforced \in BOOLEAN
                 /\ online \subseteq Players /\ player \subseteq Players
                 /\ status \in [Players -> {"None", "Active", "PendingDeletion", "Terminal"}]
                 /\ battles \subseteq Battle
    <2>1. RequestsOK'
      <3>1. ASSUME NEW me \in Players, NEW target \in Players, ChallengePvp(me, target)
            PROVE  RequestsOK'
        <4>1. challenges' \subseteq Challenge /\ nextId' \in 1..MaxChallenges + 1
          BY <3>1, SentType, ChallengeBounds DEF ChallengesTyped
        <4>2. \A c, d \in challenges' : c.id = d.id => c = d
          BY <3>1, SentType DEF ChallengesTyped, IdsInv, Challenge, Sent
        <4>3. reapers' \subseteq [challengeId : 1..MaxChallenges, at : 0..MaxNow]
          BY <3>1, SentType DEF ChallengesTyped, ChallengePvp
        <4> QED BY <4>1, <4>2, <4>3
      <3>2. CASE UNCHANGED requests
        BY <3>2 DEF ChallengesTyped, requests
      <3>3. CASE \E gone \in SUBSET challenges : DeleteChallenges(gone)
        BY <3>3 DEF ChallengesTyped, DeleteChallenges
      <3>4. CASE \E r \in reapers : BattleChallengeReaper(r)
        BY <3>4 DEF ChallengesTyped, BattleChallengeReaper
      <3> QED BY <1>2, <3>1, <3>2, <3>3, <3>4, RequestSteps
    <2>2. OthersOK'
      <3> USE DEF ChallengesTyped
      <3>1. CASE Pvp
        <4>1. ASSUME NEW me \in Players, NEW c \in challenges, AcceptChallenge(me, c)
              PROVE  OthersOK'
          <5>1. [player |-> c.challenger, opponent |-> me] \in Battle
            BY DEF Battle, Challenge
          <5> QED BY <4>1, <5>1 DEF AcceptChallenge, identities
        <4>2. ASSUME UNCHANGED <<now, identities, battles>> PROVE OthersOK'
          BY <4>2 DEF identities
        <4> QED BY <3>1, <4>1, <4>2 DEF Pvp, ChallengePvp, DeclineChallenge, CancelChallenge,
                                        BattleChallengeReaper
      <3>2. CASE Battling
        BY <3>2 DEF Battling, StartWildTactical, EndBattle, identities, Battle
      <3>3. ASSUME NEW p \in Players, OnConnect(p) \/ JoinGame(p) \/ DeleteAccount(p)
                                        \/ CancelAccountDeletion(p)
            PROVE  OthersOK'
        BY <3>3 DEF OnConnect, JoinGame, DeleteAccount, CancelAccountDeletion
      <3>4. ASSUME NEW p \in Players, OnDisconnect(p) \/ AccountDeletionReaper(p)
            PROVE  OthersOK'
        BY <3>4 DEF OnDisconnect, AccountDeletionReaper, Resolved
      <3>5. CASE ConfigureIssuers
        BY <3>5 DEF ConfigureIssuers
      <3>6. CASE Tick
        BY <3>6, ChallengeBounds DEF Tick, identities
      <3> QED BY <1>2, <3>1, <3>2, <3>3, <3>4, <3>5, <3>6 DEF ChallengesNext, Identity
    <2> QED BY <2>1, <2>2 DEF ChallengesTyped
  <1> QED BY <1>1, <1>2
-----------------------------------------------------------------------------
(* Challenges among themselves.  Only sending one can break anything: the   *)
(* other steps remove challenges.                                           *)

LEMMA OrderStep ==
  ChallengesTyped /\ IdsInv /\ OneEachWay /\ ChallengesDoNotCross /\ [ChallengesNext]_challengesVars
    => IdsInv' /\ OneEachWay' /\ ChallengesDoNotCross'
  <1> SUFFICES ASSUME ChallengesTyped, IdsInv, OneEachWay, ChallengesDoNotCross, [ChallengesNext]_challengesVars
               PROVE  IdsInv' /\ OneEachWay' /\ ChallengesDoNotCross'
    OBVIOUS
  <1>1. ASSUME NEW me \in Players, NEW target \in Players, ChallengePvp(me, target)
        PROVE  IdsInv' /\ OneEachWay' /\ ChallengesDoNotCross'
    <2> DEFINE new == Sent(me, target)
    <2>1. /\ new.challenger = me /\ new.target = target /\ new.id = nextId
          /\ challenges' = challenges \cup {new} /\ nextId' = nextId + 1 /\ nextId \in Nat
      <3>1. new.challenger = me /\ new.target = target /\ new.id = nextId
        BY DEF Sent
      <3>2. challenges' = challenges \cup {new} /\ nextId' = nextId + 1 /\ nextId \in Nat
        BY <1>1, SentType
      <3> QED BY <3>1, <3>2
    <2>2. /\ me # target
          /\ \A c \in challenges : /\ c.challenger # me /\ c.target # me
                                   /\ c.target # target
      BY <1>1 DEF ChallengePvp, MayChallenge, OutgoingOf, IncomingOf
    <2>3. \A c \in challenges : c.id \in Nat /\ c.id < nextId
      BY DEF ChallengesTyped, IdsInv, Challenge
    <2> HIDE DEF new
    <2>4. IdsInv'
      BY <2>1, <2>3 DEF IdsInv
    <2>5. OneEachWay'
      BY <2>1, <2>2 DEF OneEachWay
    <2>6. ChallengesDoNotCross'
      BY <2>1, <2>2, <2>3 DEF ChallengesDoNotCross
    <2> QED BY <2>4, <2>5, <2>6
  <1>2. ASSUME challenges' \subseteq challenges, nextId' = nextId
        PROVE  IdsInv' /\ OneEachWay' /\ ChallengesDoNotCross'
    BY <1>2 DEF IdsInv, OneEachWay, ChallengesDoNotCross
  <1>3. CASE UNCHANGED challengesVars
    BY <1>2, <1>3 DEF challengesVars, requests
  <1> QED BY <1>1, <1>2, <1>3, RequestSteps, NoNewChallenge

LEMMA ReapersStep ==
  ChallengesTyped /\ IdsInv /\ ReapersMatchChallenges /\ [ChallengesNext]_challengesVars => ReapersMatchChallenges'
  <1> SUFFICES ASSUME ChallengesTyped, IdsInv, ReapersMatchChallenges, [ChallengesNext]_challengesVars
               PROVE  ReapersMatchChallenges'
    OBVIOUS
  <1> DEFINE Row(c) == [challengeId |-> c.id, at |-> c.createdAt + ChallengeTTL]
  <1>1. ASSUME NEW me \in Players, NEW target \in Players, ChallengePvp(me, target)
        PROVE  ReapersMatchChallenges'
    <2>1. reapers' = reapers \cup {Row(Sent(me, target))}
      BY <1>1 DEF ChallengePvp, Sent
    <2> QED BY <1>1, <2>1, SentType DEF ReapersMatchChallenges
  <1>2. ASSUME NEW gone \in SUBSET challenges, DeleteChallenges(gone)
        PROVE  ReapersMatchChallenges'
    <2>1. \A c \in challenges : (c \in gone) <=> (\E d \in gone : d.id = c.id)
      BY DEF ChallengesTyped
    <2>2. \A c \in challenges : Row(c) \in reapers' <=> c \notin gone
      BY <1>2, <2>1 DEF DeleteChallenges, ReapersMatchChallenges
    <2>3. \A r \in reapers' : \E c \in challenges : r = Row(c)
      BY <1>2 DEF DeleteChallenges, ReapersMatchChallenges
    <2>4. challenges' = challenges \ gone
      BY <1>2 DEF DeleteChallenges
    <2> QED BY <2>2, <2>3, <2>4 DEF ReapersMatchChallenges
  <1>3. ASSUME NEW r \in reapers, BattleChallengeReaper(r) PROVE ReapersMatchChallenges'
    <2>1. PICK c \in challenges : r = Row(c)
      BY DEF ReapersMatchChallenges
    <2>2. IsChallengeStale(c)
      BY <1>3, <2>1 DEF BattleChallengeReaper, IsChallengeStale
    <2>3. \A d \in challenges : d.id = r.challengeId <=> d = c
      BY <2>1 DEF ChallengesTyped
    <2>4. challenges' = challenges \ {c}
      BY <1>3, <2>2, <2>3 DEF BattleChallengeReaper
    <2>5. \A d \in challenges : Row(d) = Row(c) => d = c
      BY DEF ChallengesTyped
    <2>6. reapers' = reapers \ {Row(c)}
      BY <1>3, <2>1 DEF BattleChallengeReaper
    <2> QED BY <2>4, <2>5, <2>6 DEF ReapersMatchChallenges
  <1>4. CASE UNCHANGED requests
    BY <1>4 DEF requests, ReapersMatchChallenges
  <1> QED BY <1>1, <1>2, <1>3, <1>4, RequestSteps DEF challengesVars

-----------------------------------------------------------------------------
(* Presence, battles and challengers.                                       *)

LEMMA JoinedStep == ChallengesTyped /\ JoinedAreConnected /\ [ChallengesNext]_challengesVars => JoinedAreConnected'
  <1> SUFFICES ASSUME ChallengesTyped, JoinedAreConnected, [ChallengesNext]_challengesVars PROVE JoinedAreConnected'
    OBVIOUS
  <1> USE DEF JoinedAreConnected
  <1>1. ASSUME NEW p \in Players, OnConnect(p) \/ JoinGame(p) \/ OnDisconnect(p)
        PROVE  JoinedAreConnected'
    BY <1>1 DEF OnConnect, JoinGame, OnDisconnect
  <1>2. ASSUME UNCHANGED <<online, player>> PROVE JoinedAreConnected'
    BY <1>2
  <1>3. Pvp \/ Battling \/ Tick \/ ConfigureIssuers => UNCHANGED <<online, player>>
    BY DEF Pvp, ChallengePvp, AcceptChallenge, DeclineChallenge, CancelChallenge,
           BattleChallengeReaper, Battling, StartWildTactical, EndBattle, Tick, ConfigureIssuers,
           identities
  <1>4. \A p \in Players :
          DeleteAccount(p) \/ CancelAccountDeletion(p) \/ AccountDeletionReaper(p)
            => UNCHANGED <<online, player>>
    BY DEF DeleteAccount, CancelAccountDeletion, AccountDeletionReaper
  <1>5. UNCHANGED challengesVars => UNCHANGED <<online, player>>
    BY DEF challengesVars, identities
  <1> QED BY <1>1, <1>2, <1>3, <1>4, <1>5 DEF ChallengesNext, Identity

LEMMA ChallengersStep ==
  ChallengesTyped /\ ChallengersPresent /\ [ChallengesNext]_challengesVars => ChallengersPresent'
  <1> SUFFICES ASSUME ChallengesTyped, ChallengersPresent, [ChallengesNext]_challengesVars PROVE ChallengersPresent'
    OBVIOUS
  <1> USE DEF ChallengersPresent
  <1>1. ASSUME NEW me \in Players, NEW target \in Players, ChallengePvp(me, target)
        PROVE  ChallengersPresent'
    BY <1>1, SentType DEF ChallengePvp, IsPendingDeletion, identities, Sent
  <1>2. ASSUME NEW p \in Players, OnDisconnect(p) PROVE ChallengersPresent'
    BY <1>2 DEF OnDisconnect, DeleteChallenges, OutgoingOf
  <1>3. ASSUME NEW p \in Players, AccountDeletionReaper(p) PROVE ChallengersPresent'
    BY <1>3 DEF AccountDeletionReaper, DeleteChallenges, OutgoingOf, ChallengesTyped
  <1>4. ASSUME NEW p \in Players,
               OnConnect(p) \/ JoinGame(p) \/ DeleteAccount(p) \/ CancelAccountDeletion(p)
        PROVE  ChallengersPresent'
    BY <1>4 DEF OnConnect, JoinGame, DeleteAccount, CancelAccountDeletion, requests, ChallengesTyped
  <1>5. ASSUME challenges' \subseteq challenges, UNCHANGED <<player, status>>
        PROVE  ChallengersPresent'
    BY <1>5
  <1>6. ASSUME NEW me \in Players, NEW c \in challenges,
               AcceptChallenge(me, c) \/ DeclineChallenge(me, c) \/ CancelChallenge(me, c)
        PROVE  challenges' \subseteq challenges /\ UNCHANGED <<player, status>>
    BY <1>6 DEF AcceptChallenge, DeclineChallenge, CancelChallenge, DeleteChallenges, identities
  <1>7. \/ \E r \in reapers : BattleChallengeReaper(r)
        \/ Battling \/ Tick \/ ConfigureIssuers \/ UNCHANGED challengesVars
        => challenges' \subseteq challenges /\ UNCHANGED <<player, status>>
    BY DEF BattleChallengeReaper, Battling, StartWildTactical, EndBattle, Tick, ConfigureIssuers,
           challengesVars, identities, requests
  <1> QED BY <1>1, <1>2, <1>3, <1>4, <1>5, <1>6, <1>7 DEF ChallengesNext, Pvp, Identity

(* What a step does to the battles: it opens one, of a player in the game   *)
(* or of a challenger and the caller, ends some, or leaves them alone.      *)
LEMMA BattleSteps ==
  ASSUME ChallengesTyped, [ChallengesNext]_challengesVars
  PROVE  \/ \E p \in Players : StartWildTactical(p)
         \/ \E me \in Players, c \in challenges : AcceptChallenge(me, c)
         \/ \E p \in Players : OnDisconnect(p) \/ AccountDeletionReaper(p)
         \/ battles' \subseteq battles /\ UNCHANGED <<online, status>>
         \/ UNCHANGED battles /\ \E p \in Players :
              OnConnect(p) \/ DeleteAccount(p) \/ CancelAccountDeletion(p)
  BY DEF ChallengesNext, Pvp, ChallengePvp, DeclineChallenge, CancelChallenge, BattleChallengeReaper,
         Battling, EndBattle, Identity, OnConnect, JoinGame, DeleteAccount, CancelAccountDeletion,
         ConfigureIssuers, Tick, challengesVars, identities

LEMMA BattlersStep ==
  ChallengesTyped /\ JoinedAreConnected /\ ChallengersPresent /\ BattlersConnected /\ [ChallengesNext]_challengesVars
    => BattlersConnected'
  <1> SUFFICES ASSUME ChallengesTyped, JoinedAreConnected, ChallengersPresent, BattlersConnected,
                      [ChallengesNext]_challengesVars
               PROVE  BattlersConnected'
    OBVIOUS
  <1> USE DEF BattlersConnected
  <1>1. ASSUME NEW p \in Players, StartWildTactical(p) PROVE BattlersConnected'
    BY <1>1 DEF StartWildTactical, IsPendingDeletion, JoinedAreConnected, identities
  <1>2. ASSUME NEW me \in Players, NEW c \in challenges, AcceptChallenge(me, c)
        PROVE  BattlersConnected'
    <2>1. c.challenger \in online /\ me \in online
      BY <1>2 DEF AcceptChallenge, ChallengersPresent, JoinedAreConnected
    <2>2. status[c.challenger] # "Terminal" /\ status[me] # "Terminal"
      BY <1>2 DEF AcceptChallenge, IsPendingDeletion
    <2> QED BY <1>2, <2>1, <2>2 DEF AcceptChallenge, identities
  <1>3. ASSUME NEW p \in Players, OnDisconnect(p) \/ AccountDeletionReaper(p)
        PROVE  BattlersConnected'
    <2>1. \A b \in battles' : b \in battles /\ p \notin {b.player, b.opponent}
      BY <1>3 DEF OnDisconnect, AccountDeletionReaper, Resolved, BattlesOf
    <2>2. \A q \in online : q # p => q \in online' /\ status'[q] = status[q]
      BY <1>3 DEF OnDisconnect, AccountDeletionReaper, ChallengesTyped
    <2> QED BY <2>1, <2>2
  <1>4. CASE battles' \subseteq battles /\ UNCHANGED <<online, status>>
    BY <1>4
  <1>5. ASSUME NEW p \in Players, UNCHANGED battles,
               OnConnect(p) \/ DeleteAccount(p) \/ CancelAccountDeletion(p)
        PROVE  BattlersConnected'
    <2>1. online \subseteq online' /\ \A q \in Players : status[q] # "Terminal" =>
            status'[q] # "Terminal"
      BY <1>5 DEF OnConnect, DeleteAccount, CancelAccountDeletion, ChallengesTyped
    <2>2. \A b \in battles : {b.player, b.opponent} \ {Wild} \subseteq Players
      BY DEF ChallengesTyped, Battle
    <2> QED BY <1>5, <2>1, <2>2
  <1> QED BY <1>1, <1>2, <1>3, <1>4, <1>5, BattleSteps

LEMMA OneBattleStep == ChallengesTyped /\ OneBattleEach /\ [ChallengesNext]_challengesVars => OneBattleEach'
  <1> SUFFICES ASSUME ChallengesTyped, OneBattleEach, [ChallengesNext]_challengesVars PROVE OneBattleEach'
    OBVIOUS
  <1>1. ASSUME NEW new \in Battle, battles' = battles \cup {new},
               \A b \in battles : {new.player, new.opponent} \cap {b.player, b.opponent}
                                   \cap Players = {}
        PROVE  OneBattleEach'
    BY <1>1 DEF OneBattleEach
  <1>2. ASSUME NEW p \in Players, StartWildTactical(p) PROVE OneBattleEach'
    <2> DEFINE new == [player |-> p, opponent |-> Wild]
    <2>1. new \in Battle
      BY DEF Battle
    <2>2. \A b \in battles : p \notin {b.player, b.opponent}
      BY <1>2 DEF StartWildTactical, InOngoingBattle, BattlesOf
    <2>3. \A b \in battles : {new.player, new.opponent} \cap {b.player, b.opponent}
                             \cap Players = {}
      BY <2>2, ChallengePlayers
    <2> QED BY <1>1, <1>2, <2>1, <2>3 DEF StartWildTactical
  <1>3. ASSUME NEW me \in Players, NEW c \in challenges, AcceptChallenge(me, c)
        PROVE  OneBattleEach'
    <2> DEFINE new == [player |-> c.challenger, opponent |-> me]
    <2>1. new \in Battle
      BY DEF Battle, ChallengesTyped, Challenge
    <2>2. \A b \in battles : me \notin {b.player, b.opponent}
                             /\ c.challenger \notin {b.player, b.opponent}
      BY <1>3 DEF AcceptChallenge, StillMayFight, MayFight, InOngoingBattle, BattlesOf
    <2>3. \A b \in battles : {new.player, new.opponent} \cap {b.player, b.opponent}
                             \cap Players = {}
      BY <2>2
    <2> QED BY <1>1, <1>3, <2>1, <2>3 DEF AcceptChallenge
  <1>4. CASE battles' \subseteq battles
    BY <1>4 DEF OneBattleEach
  <1>5. ASSUME NEW p \in Players, OnDisconnect(p) \/ AccountDeletionReaper(p)
        PROVE  battles' \subseteq battles
    BY <1>5 DEF OnDisconnect, AccountDeletionReaper, Resolved
  <1> QED BY <1>2, <1>3, <1>4, <1>5, BattleSteps

-----------------------------------------------------------------------------
LEMMA ChallengesInvInit == ChallengesInit => ChallengesInv
  BY ChallengeBounds DEF ChallengesInit, ChallengesInv, ChallengesTyped, RequestsInv, IdsInv, OneEachWay,
     ChallengesDoNotCross, ReapersMatchChallenges, JoinedAreConnected, FightsInv,
     ChallengersPresent, BattlersConnected, OneBattleEach

(* ChallengesInv holds in every reachable state.                                      *)
THEOREM ChallengesInvariance == ChallengesSpec => []ChallengesInv
  <1>1. ChallengesInv /\ [ChallengesNext]_challengesVars => ChallengesInv'
    BY TypeStep, OrderStep, ReapersStep, JoinedStep, ChallengersStep, BattlersStep,
       OneBattleStep DEF ChallengesInv, RequestsInv, FightsInv
  <1> QED BY ChallengesInvInit, <1>1, PTL DEF ChallengesSpec

(* ChallengesTyped: the tables hold what their columns may hold, and ids are unique. *)
THEOREM ChallengesTypes == ChallengesSpec => []ChallengesTyped
  BY ChallengesInvariance, PTL DEF ChallengesInv

(* One challenge out and one in per player.                                 *)
THEOREM OneChallengeEachWay == ChallengesSpec => []OneEachWay
  BY ChallengesInvariance, PTL DEF ChallengesInv, RequestsInv

(* Of the challenges a player is in, the one it sent is the older.          *)
THEOREM NobodyWaitsInACircle == ChallengesSpec => []ChallengesDoNotCross
  BY ChallengesInvariance, PTL DEF ChallengesInv, RequestsInv

(* Every challenge has its one expiry row, and every row its challenge.     *)
THEOREM ChallengeScheduleMatches == ChallengesSpec => []ReapersMatchChallenges
  BY ChallengesInvariance, PTL DEF ChallengesInv, RequestsInv

(* Challengers are in the game.                                             *)
THEOREM ChallengersAreThere == ChallengesSpec => []ChallengersPresent
  BY ChallengesInvariance, PTL DEF ChallengesInv, FightsInv

(* Nobody fights without a connection or after erasure.                     *)
THEOREM BattlersAreThere == ChallengesSpec => []BattlersConnected
  BY ChallengesInvariance, PTL DEF ChallengesInv, FightsInv

(* Nobody fights two battles.                                               *)
THEOREM OneBattleAtATime == ChallengesSpec => []OneBattleEach
  BY ChallengesInvariance, PTL DEF ChallengesInv, FightsInv

(* Once ranked play needs accounts, no battle of two players opens without. *)
THEOREM RankedPlayersHaveAccounts == ChallengesSpec => RankedNeedsAccounts
  <1> DEFINE Ranked == \A b \in battles' \ battles :
        enforced /\ b.opponent # Wild => IsAccountHolder(b.player) /\ IsAccountHolder(b.opponent)
  <1>1. ChallengesTyped /\ [ChallengesNext]_challengesVars => Ranked
    <2> SUFFICES ASSUME ChallengesTyped, [ChallengesNext]_challengesVars, NEW b \in battles' \ battles,
                        enforced, b.opponent # Wild
                 PROVE  IsAccountHolder(b.player) /\ IsAccountHolder(b.opponent)
      OBVIOUS
    <2>1. ASSUME NEW p \in Players, StartWildTactical(p) PROVE FALSE
      BY <2>1 DEF StartWildTactical
    <2>2. ASSUME NEW me \in Players, NEW c \in challenges, AcceptChallenge(me, c)
          PROVE  IsAccountHolder(b.player) /\ IsAccountHolder(b.opponent)
      BY <2>2 DEF AcceptChallenge, StillMayFight, RankedAccountGate
    <2>3. ASSUME NEW p \in Players, OnDisconnect(p) \/ AccountDeletionReaper(p) PROVE FALSE
      BY <2>3 DEF OnDisconnect, AccountDeletionReaper, Resolved
    <2> QED BY <2>1, <2>2, <2>3, BattleSteps
  <1> QED BY <1>1, ChallengesTypes, PTL DEF ChallengesSpec, RankedNeedsAccounts

(* The challenges of all players stay orderly together.                     *)
THEOREM ChallengesStayOrderly == ChallengesSpec => []ChallengesWellFormed
  BY ChallengesInvariance, PTL DEF ChallengesInv, RequestsInv, FightsInv, ChallengesWellFormed

(* Whoever fights is there and fights nobody else.                          *)
THEOREM FightersAreAvailable == ChallengesSpec => []FightersAvailable
  BY ChallengesInvariance, PTL DEF ChallengesInv, FightsInv, FightersAvailable
=============================================================================
