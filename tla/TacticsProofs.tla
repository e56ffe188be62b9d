---------------------------- MODULE TacticsProofs ----------------------------
(***************************************************************************)
(* Proofs about Tactics, for any players, units, battle ids and bounds:    *)
(* the rows of a battle stay whole and one schedule row drives it, it is   *)
(* settled once and as it was played, locks stand until they are fielded,  *)
(* and nobody is struck before a window's own time.                        *)
(*                                                                         *)
(* Everything but the sweep happens within the rows of one battle.  So the *)
(* invariant is one about a battle's rows, and each handler is shown to    *)
(* make whole rows of whole rows.                                          *)
(***************************************************************************)
EXTENDS Tactics, FiniteSetTheorems, WellFoundedInduction, TLAPS

Over == Decisive \cup {"fled"}
Anchors == {"none", "ongoing"} \cup Over
DeadlineArgs == [unit : Units \cup {Deploy}, seq : 0..SeqWrap]

Rows ==
  [anchor : Anchors, phase : {"none", "deploying", "active", "finished"},
   kind : Kinds, side : [Sides -> Players \cup {Wild}], staged : [Sides -> SUBSET Units],
   turns : Turns, kept : BOOLEAN, drifted : BOOLEAN, due : BOOLEAN,
   deadlines : {EmptyBag} \cup {Row(args) : args \in DeadlineArgs},
   advances : {EmptyBag} \cup {Row(round) : round \in Nat},
   gcs : 0..1, summary : Anchors, settled : 0..1, rated : 0..1]

(* A battle somebody is waited for in, or whose next round is due.         *)
InPlay(b) ==
  /\ b.outcome = "ongoing" /\ \A s \in Sides : b.clock[s].strikes < Forfeit
  /\ \/ b.turn = "advancing"
     \/ b.turn \in Units /\ b.clock[SideOf[b.turn]].open

(* The phase, the anchor, the composed battle and the records agree.       *)
PhaseAgrees(r) ==
  /\ r.phase = "none" <=> r.anchor = "none"
  /\ r.phase \in {"deploying", "active"} <=> r.anchor = "ongoing"
  /\ r.phase = "none" => ~r.kept
  /\ r.phase \in {"deploying", "active"} => r.kept
  /\ r.phase = "deploying" => r.turns = New(r.kind, {}) /\ r.summary = "none"
  /\ r.phase = "active" => r.turns.kind = r.kind /\ InPlay(r.turns) /\ r.summary = "ongoing"

LocksAgree(r) ==
  \A s \in Sides : /\ r.staged[s] \subseteq UnitsOf(s)
                   /\ r.staged[s] # {} => r.phase = "deploying" /\ r.kind = "pvp"

RecordsAgree(r) ==
  /\ r.settled = IF r.summary \in Over THEN 1 ELSE 0
  /\ r.rated = IF r.kind = "pvp" /\ r.summary \in Decisive THEN 1 ELSE 0
  /\ r.anchor \in Over => r.summary = r.anchor
  /\ r.anchor = "none" => r.summary # "ongoing"

RowOK(r) == r \in Rows /\ PhaseAgrees(r) /\ LocksAgree(r) /\ RecordsAgree(r)

(* OneDriver, of one battle.                                                *)
Driven(r) ==
  CASE r.phase = "deploying" ->
         r.deadlines = Row(DeployRow) /\ r.advances = EmptyBag /\ r.gcs = 0
    [] r.phase = "active" /\ r.turns.turn = "advancing" ->
         r.deadlines = EmptyBag /\ r.advances = Row(r.turns.round) /\ r.gcs = 0
    [] r.phase = "active" /\ r.turns.turn # "advancing" ->
         /\ r.turns.turn \in Units /\ r.advances = EmptyBag /\ r.gcs = 0
         /\ r.deadlines = Row([unit |-> r.turns.turn,
                               seq |-> r.turns.clock[SideOf[r.turns.turn]].seq])
    [] OTHER ->
         /\ r.deadlines = EmptyBag /\ r.advances = EmptyBag
         /\ r.gcs = IF r.kept THEN 1 ELSE 0

RowInv(r) == RowOK(r) /\ Driven(r)

Inv == battle \in [Ids -> Rows] /\ \A id \in Ids : RowInv(battle[id])
-----------------------------------------------------------------------------
(* Bags of at most one row.                                                 *)

LEMMA OneRow ==
  ASSUME NEW x
  PROVE  /\ BagToSet(EmptyBag) = {} /\ BagToSet(Row(x)) = {x}
         /\ EmptyBag (+) Row(x) = Row(x)
         /\ Row(x) (-) Row(x) = EmptyBag /\ EmptyBag (-) Row(x) = EmptyBag
  BY DEF BagToSet, EmptyBag, Row, SetToBag, (+), (-)

LEMMA RowsDiffer ==
  ASSUME NEW x, NEW y
  PROVE  Row(x) # EmptyBag /\ (Row(x) = Row(y) => x = y)
  <1>1. DOMAIN Row(x) = {x} /\ DOMAIN Row(y) = {y} /\ DOMAIN EmptyBag = {}
    BY DEF EmptyBag, Row, SetToBag
  <1> QED BY <1>1

LEMMA NextIdUnused == Unused # {} => NextId \in Unused
  <1> SUFFICES ASSUME Unused # {} PROVE NextId \in Unused
    OBVIOUS
  <1>1. Unused \subseteq Nat
    BY TacticsConstants DEF Unused
  <1>2. \E id \in Unused : \A i \in Unused : <<i, id>> \notin OpToRel(<, Nat)
    BY <1>1, NatLessThanWellFounded, WFMin
  <1>3. \E id \in Unused : \A i \in Unused : id <= i
    <2>1. PICK id \in Unused : \A i \in Unused : <<i, id>> \notin OpToRel(<, Nat)
      BY <1>2
    <2>2. \A i \in Unused : ~(i < id)
      BY <1>1, <2>1 DEF OpToRel
    <2> QED BY <1>1, <2>2
  <1> QED BY <1>3 DEF NextId

-----------------------------------------------------------------------------
(* What a call of the turn machine returns.                                 *)

LEMMA SeqMoves ==
  ASSUME NEW seq \in 0..(SeqWrap - 1)
  PROVE  /\ (seq + 1) % SeqWrap \in 0..(SeqWrap - 1)
         /\ (seq + 1) % SeqWrap # seq
  <1>1. SeqWrap \in Nat /\ SeqWrap > 1
    BY TacticsConstants, ContractBounds
  <1>2. CASE seq + 1 < SeqWrap
    BY <1>1, <1>2
  <1>3. CASE seq + 1 = SeqWrap
    BY <1>1, <1>3
  <1> QED BY <1>1, <1>2, <1>3

LEMMA NewIsTurns ==
  ASSUME NEW kind \in Kinds, NEW units \in SUBSET Units
  PROVE  /\ New(kind, units) \in Turns
         /\ \A s \in Sides : New(kind, units).clock[s].strikes = 0
  <1>1. [s \in Sides |-> [seq |-> 0, open |-> FALSE, strikes |-> 0]] \in [Sides -> Clock]
    BY ContractBounds DEF Clock
  <1> QED BY <1>1 DEF New, Turns

LEMMA SidesOfUnits ==
  /\ \A u \in Units : SideOf[u] \in Sides
  /\ "advancing" \notin Units /\ "none" \notin Units
  /\ \A s \in Sides : Other(s) \in Sides /\ Other(s) # s
  BY ContractSides DEF Sides, Other
(* A battle whose turns can be run on.                                      *)
Runs(b) ==
  b \in Turns /\ b.outcome = "ongoing" /\ \A s \in Sides : b.clock[s].strikes < Forfeit

(* What every result has in common: only windows close and units fall, and  *)
(* nobody is struck.                                                        *)
Follows(b, next) ==
  /\ next \in Turns /\ next.kind = b.kind /\ next.alive \subseteq b.alive
  /\ \A s \in Sides : next.clock[s].strikes = b.clock[s].strikes

LEMMA EndedFollows ==
  ASSUME NEW b \in Turns, NEW o \in Over, NEW alive \in SUBSET b.alive
  PROVE  /\ Follows(b, Ended(b, o, alive)) /\ Ended(b, o, alive).outcome = o
         /\ \A s \in Sides : ~Ended(b, o, alive).clock[s].open
  <1> DEFINE next == Ended(b, o, alive)
  <1>1. /\ ShutAll(b.clock) \in [Sides -> Clock]
        /\ \A s \in Sides : /\ ~ShutAll(b.clock)[s].open
                            /\ ShutAll(b.clock)[s].strikes = b.clock[s].strikes
    BY DEF ShutAll, Turns, Clock
  <1>2. /\ next.clock = ShutAll(b.clock) /\ next.outcome = o /\ next.kind = b.kind
        /\ next.alive = alive
    BY DEF Ended, Turns
  <1>3. next \in Turns
    BY <1>1 DEF Ended, Turns, Over, Decisive
  <1> QED BY <1>1, <1>2, <1>3 DEF Follows

LEMMA WaitFollows ==
  ASSUME NEW b, Runs(b), NEW next \in Waits(b)
  PROVE  /\ Follows(b, next) /\ InPlay(next) /\ next.turn \in Units
         /\ next.clock[SideOf[next.turn]].seq # b.clock[SideOf[next.turn]].seq
         /\ \A s \in Sides : s # SideOf[next.turn] => next.clock[s] = b.clock[s]
  <1>1. PICK unit \in b.alive, alive \in SUBSET b.alive, plans \in SUBSET b.plans :
          next = [b EXCEPT !.turn = unit, !.alive = alive, !.plans = plans,
                           !.clock[SideOf[unit]].seq = (@ + 1) % SeqWrap,
                           !.clock[SideOf[unit]].open = TRUE]
    BY DEF Waits
  <1> DEFINE side == SideOf[unit]
             old == b.clock[side]
             new == [old EXCEPT !.seq = (old.seq + 1) % SeqWrap, !.open = TRUE]
  <1>2. unit \in Units /\ side \in Sides /\ b.alive \subseteq Units /\ b.plans \subseteq Units
    BY SidesOfUnits DEF Runs, Turns
  <1>3. /\ b.clock \in [Sides -> Clock] /\ old \in Clock
        /\ old.seq \in 0..(SeqWrap - 1) /\ old.strikes \in 0..Forfeit
    BY <1>2 DEF Runs, Turns, Clock
  <1>4. /\ new \in Clock /\ new.seq = (old.seq + 1) % SeqWrap
        /\ new.open = TRUE /\ new.strikes = old.strikes
    BY <1>3, SeqMoves DEF Clock
  <1>5. new.seq # old.seq
    BY <1>3, <1>4, SeqMoves
  <1>6. next = [b EXCEPT !.turn = unit, !.alive = alive, !.plans = plans,
                         !.clock = [b.clock EXCEPT ![side] = new]]
    BY <1>1, <1>2, <1>3 DEF Runs, Turns, Clock
  <1> HIDE DEF new
  <1>7. /\ next.turn = unit /\ next.alive = alive /\ next.kind = b.kind
        /\ next.outcome = b.outcome /\ next.clock = [b.clock EXCEPT ![side] = new]
        /\ next \in Turns
    BY <1>2, <1>3, <1>4, <1>6 DEF Runs, Turns
  <1>8. next.clock[side] = new /\ \A s \in Sides : s # side => next.clock[s] = b.clock[s]
    BY <1>2, <1>3, <1>7
  <1>9. \A s \in Sides : next.clock[s].strikes = b.clock[s].strikes
    BY <1>4, <1>8
  <1> QED BY <1>2, <1>4, <1>5, <1>7, <1>8, <1>9 DEF Follows, InPlay, Runs

LEMMA AdvanceFollows ==
  ASSUME NEW b, Runs(b), NEW next \in Advances(b)
  PROVE  /\ Follows(b, next) /\ InPlay(next) /\ next.turn = "advancing"
         /\ next.round = b.round + 1 /\ next.clock = b.clock
  <1>1. PICK alive \in SUBSET b.alive, plans \in SUBSET b.plans :
          next = [b EXCEPT !.turn = "advancing", !.round = @ + 1,
                           !.alive = alive, !.plans = plans]
    BY DEF Advances
  <1>2. /\ next.turn = "advancing" /\ next.round = b.round + 1 /\ next.alive = alive
        /\ next.clock = b.clock /\ next.kind = b.kind /\ next.outcome = b.outcome
    BY <1>1 DEF Runs, Turns
  <1>3. alive \in SUBSET Units /\ plans \in SUBSET Units /\ b.round + 1 \in Nat \ {0}
    BY DEF Runs, Turns
  <1>4. next \in Turns
    BY <1>1, <1>3 DEF Runs, Turns
  <1> QED BY <1>2, <1>4 DEF Runs, Follows, InPlay

LEMMA DecideFollows ==
  ASSUME NEW b, Runs(b), NEW next \in Decides(b)
  PROVE  /\ Follows(b, next) /\ next.outcome \in Over
         /\ \A s \in Sides : ~next.clock[s].open
  <1>1. PICK o \in Over, alive \in SUBSET b.alive : next = Ended(b, o, alive)
    BY DEF Decides, Over, Decisive
  <1> QED BY <1>1, EndedFollows DEF Runs

LEMMA ChainNeverRefuses == ASSUME NEW b PROVE Chain(b) # {}
  <1>1. Ended(b, "sideA", b.alive) \in Decides(b)
    BY DEF Decides
  <1> QED BY <1>1 DEF Chain
-----------------------------------------------------------------------------
(* The two funnels: finish and store.                                       *)

Bare(r) == r.deadlines = EmptyBag /\ r.advances = EmptyBag

(* An ongoing battle's rows, its schedule rows aside.                       *)
Held(r) ==
  /\ r \in Rows /\ r.phase \in {"deploying", "active"} /\ r.kept /\ r.gcs = 0
  /\ r.settled = 0 /\ r.rated = 0

Ends(old, r) == RowInv(r) /\ r.phase = "finished" /\ r.turns = New(old.kind, {})

LEMMA NewNeedsNoUnits ==
  ASSUME NEW kind \in Kinds
  PROVE  New(kind, {}) \in Turns /\ \A s \in Sides : New(kind, {}).clock[s].strikes = 0
  BY NewIsTurns

LEMMA FinishedRow ==
  ASSUME NEW r, Held(r), r.anchor \in Over, NEW close,
         r.anchor \in Decisive => close = "Settled"
  PROVE  Ends(r, Finished(r, close))
  <1> DEFINE q == Finished(r, close)
  <1>1. r \in Rows /\ r.kind \in Kinds /\ r.anchor \in Over
    BY DEF Held, Rows
  <1>2. Unlocked \in [Sides -> SUBSET Units] /\ \A s \in Sides : Unlocked[s] = {}
    BY DEF Unlocked
  <1>3. /\ q.anchor = r.anchor /\ q.phase = "finished" /\ q.kind = r.kind
        /\ q.staged = Unlocked /\ q.turns = New(r.kind, {}) /\ q.kept = r.kept
        /\ q.deadlines = EmptyBag /\ q.advances = EmptyBag
        /\ q.gcs = r.gcs + 1 /\ q.summary = r.anchor /\ q.settled = r.settled + 1
        /\ q.rated = IF close = "Settled" /\ r.kind = "pvp" /\ r.anchor \in Decisive
                     THEN r.rated + 1 ELSE r.rated
    BY DEF Finished, Held, Rows
  <1>4. q.gcs = 1 /\ q.settled = 1
        /\ q.rated = IF r.kind = "pvp" /\ r.anchor \in Decisive THEN 1 ELSE 0
    BY <1>3 DEF Held
  <1>5. q \in Rows
    <2>1. r.gcs + 1 \in 0..1 /\ r.settled + 1 \in 0..1 /\ r.rated + 1 \in 0..1
      BY DEF Held
    <2>2. New(r.kind, {}) \in Turns
      BY <1>1, NewNeedsNoUnits
    <2> QED BY <1>1, <1>2, <2>1, <2>2, ZenonT(40) DEF Finished, Held, Rows
  <1>6. PhaseAgrees(q) /\ LocksAgree(q) /\ RecordsAgree(q) /\ Driven(q)
    BY <1>2, <1>3, <1>4 DEF PhaseAgrees, LocksAgree, RecordsAgree, Driven, Held, Over, Decisive
  <1> QED BY <1>3, <1>5, <1>6 DEF Ends, RowInv, RowOK

LEMMA ClosedRow ==
  ASSUME NEW r, Held(r), r.anchor = "ongoing", NEW close
  PROVE  Ends(r, Closed(r, close))
  <1> DEFINE q == [r EXCEPT !.anchor = "fled"]
  <1>1. Held(q) /\ q.anchor = "fled" /\ q.kind = r.kind
    BY DEF Held, Rows, Anchors, Over
  <1>2. Ends(q, Finished(q, close))
    BY <1>1, FinishedRow DEF Over, Decisive
  <1> QED BY <1>1, <1>2 DEF Closed, Ends

(* A battle whose stored state a call of the turn machine will replace.     *)
Called(r) ==
  /\ Held(r) /\ r.phase = "active" /\ r.anchor = "ongoing" /\ r.summary \in {"none", "ongoing"}
  /\ \A s \in Sides : r.staged[s] = {}

LEMMA StoredEnd ==
  ASSUME NEW r, Called(r), NEW next \in Turns, next.outcome # "ongoing"
  PROVE  Ends(r, Stored(r, next))
  <1> DEFINE q == [r EXCEPT !.turns = next, !.anchor = next.outcome]
  <1>1. next.outcome \in Over
    BY DEF Turns, Over, Decisive
  <1>2. Held(q) /\ q.anchor = next.outcome /\ q.kind = r.kind
    BY <1>1 DEF Called, Held, Rows, Anchors
  <1>3. Ends(q, Finished(q, "Settled"))
    BY <1>1, <1>2, FinishedRow
  <1> QED BY <1>2, <1>3 DEF Stored, Ends

Goes(next, r) == RowInv(r) /\ r.phase = "active" /\ r.turns = next

LEMMA StoredOpens ==
  ASSUME NEW r, Called(r), Bare(r), NEW next \in Turns, next.kind = r.kind, InPlay(next),
         next.turn \in Units,
         next.clock[SideOf[next.turn]].seq # r.turns.clock[SideOf[next.turn]].seq
  PROVE  Goes(next, Stored(r, next))
  <1> DEFINE u == next.turn
             args == [unit |-> u, seq |-> next.clock[SideOf[u]].seq]
             q == [r EXCEPT !.turns = next, !.summary = "ongoing", !.due = FALSE,
                            !.deadlines = Row(args)]
  <1>1. u # "advancing" /\ next.outcome = "ongoing"
    BY SidesOfUnits DEF InPlay
  <1>2. r.deadlines (+) Row(args) = Row(args)
    BY OneRow DEF Bare
  <1>3. Opened(r.turns, next) /\ ~Crossed(r.turns, next)
    BY <1>1 DEF Opened, Crossed
  <1>4. Stored(r, next) = q
    <2>1. Stored(r, next) =
            [r EXCEPT !.turns = next, !.summary = "ongoing", !.due = FALSE,
                      !.deadlines = r.deadlines (+) Row(args), !.advances = r.advances]
      BY <1>1, <1>3 DEF Stored
    <2> HIDE DEF args
    <2>2. r \in Rows
      BY DEF Called, Held
    <2> QED BY <1>2, <2>1, <2>2 DEF Rows
  <1>5. args \in DeadlineArgs
    <2>1. next.clock[SideOf[u]] \in Clock
      BY SidesOfUnits DEF Turns
    <2> QED BY <2>1, ContractBounds DEF DeadlineArgs, Clock
  <1> HIDE DEF args
  <1>6. q \in Rows /\ q.phase = "active" /\ q.turns = next /\ q.summary = "ongoing"
        /\ q.deadlines = Row(args) /\ q.advances = EmptyBag /\ q.gcs = 0 /\ q.kept
        /\ q.kind = r.kind /\ q.anchor = "ongoing" /\ q.settled = 0 /\ q.rated = 0
        /\ q.staged = r.staged
    BY <1>5 DEF Called, Held, Rows, Anchors, Bare
  <1> HIDE DEF q
  <1>7. PhaseAgrees(q) /\ LocksAgree(q) /\ RecordsAgree(q)
    BY <1>6 DEF PhaseAgrees, LocksAgree, RecordsAgree, Called, Over, Decisive
  <1>8. Driven(q)
    BY <1>1, <1>6 DEF Driven, args
  <1> QED BY <1>4, <1>6, <1>7, <1>8 DEF Goes, RowInv, RowOK

LEMMA StoredCrosses ==
  ASSUME NEW r, Called(r), Bare(r), NEW next \in Turns, next.kind = r.kind, InPlay(next),
         next.turn = "advancing", next.round # r.turns.round
  PROVE  Goes(next, Stored(r, next))
  <1> DEFINE q == [r EXCEPT !.turns = next, !.summary = "ongoing",
                            !.advances = Row(next.round)]
  <1>1. next.turn \notin Units /\ next.outcome = "ongoing" /\ next.round \in Nat
    BY SidesOfUnits DEF InPlay, Turns
  <1>2. r.advances (+) Row(next.round) = Row(next.round)
    BY OneRow DEF Bare
  <1>3. ~Opened(r.turns, next) /\ Crossed(r.turns, next)
    BY <1>1 DEF Opened, Crossed
  <1>4. Stored(r, next) = q
    <2>1. Stored(r, next) =
            [r EXCEPT !.turns = next, !.summary = "ongoing", !.due = r.due,
                      !.deadlines = r.deadlines, !.advances = r.advances (+) Row(next.round)]
      BY <1>1, <1>3 DEF Stored
    <2>2. r \in Rows
      BY DEF Called, Held
    <2> QED BY <1>2, <2>1, <2>2 DEF Rows
  <1>6. q \in Rows /\ q.phase = "active" /\ q.turns = next /\ q.summary = "ongoing"
        /\ q.advances = Row(next.round) /\ q.deadlines = EmptyBag /\ q.gcs = 0 /\ q.kept
        /\ q.kind = r.kind /\ q.anchor = "ongoing" /\ q.settled = 0 /\ q.rated = 0
        /\ q.staged = r.staged
    BY <1>1 DEF Called, Held, Rows, Anchors, Bare
  <1> HIDE DEF q
  <1>7. PhaseAgrees(q) /\ LocksAgree(q) /\ RecordsAgree(q)
    BY <1>6 DEF PhaseAgrees, LocksAgree, RecordsAgree, Called, Over, Decisive
  <1>8. Driven(q)
    BY <1>6 DEF Driven
  <1> QED BY <1>4, <1>6, <1>7, <1>8 DEF Goes, RowInv, RowOK
(* A plan made or withdrawn leaves the window, and what drives it, alone.   *)
LEMMA StoredStays ==
  ASSUME NEW r, RowInv(r), r.phase = "active",
         NEW plans \in SUBSET Units
  PROVE  Goes([r.turns EXCEPT !.plans = plans], Stored(r, [r.turns EXCEPT !.plans = plans]))
  <1> DEFINE next == [r.turns EXCEPT !.plans = plans]
             q == [r EXCEPT !.turns = next]
  <1>1. r \in Rows /\ r.turns \in Turns /\ r.summary = "ongoing" /\ InPlay(r.turns)
        /\ r.turns.kind = r.kind
    BY DEF RowInv, RowOK, PhaseAgrees, Rows
  <1>2. next \in Turns /\ next.turn = r.turns.turn /\ next.round = r.turns.round
        /\ next.clock = r.turns.clock /\ next.outcome = r.turns.outcome
        /\ next.kind = r.turns.kind
    BY <1>1 DEF Turns
  <1> HIDE DEF next
  <1>3. ~Opened(r.turns, next) /\ ~Crossed(r.turns, next)
    BY <1>2 DEF Opened, Crossed
  <1>4. Stored(r, next) = q
    <2>1. Stored(r, next) =
            [r EXCEPT !.turns = next, !.summary = "ongoing", !.due = r.due,
                      !.deadlines = r.deadlines, !.advances = r.advances]
      BY <1>1, <1>2, <1>3 DEF Stored, InPlay
    <2> QED BY <1>1, <2>1 DEF Rows
  <1>5. InPlay(next)
    BY <1>1, <1>2 DEF InPlay
  <1>6. q \in Rows /\ q.phase = r.phase /\ q.turns = next /\ q.summary = r.summary
        /\ q.advances = r.advances /\ q.deadlines = r.deadlines /\ q.gcs = r.gcs
        /\ q.kept = r.kept /\ q.kind = r.kind /\ q.anchor = r.anchor
        /\ q.settled = r.settled /\ q.rated = r.rated /\ q.staged = r.staged
    BY <1>1, <1>2 DEF Rows
  <1> HIDE DEF q
  <1>7. PhaseAgrees(q) /\ LocksAgree(q) /\ RecordsAgree(q)
    BY <1>1, <1>2, <1>5, <1>6 DEF RowInv, RowOK, PhaseAgrees, LocksAgree, RecordsAgree
  <1>8. Driven(q)
    <2>1. /\ q.turns.turn = r.turns.turn /\ q.turns.round = r.turns.round
          /\ q.turns.clock = r.turns.clock
      BY <1>2, <1>6
    <2>2. Driven(r)
      BY DEF RowInv
    <2> QED BY <1>6, <2>1, <2>2 DEF Driven
  <1> QED BY <1>4, <1>6, <1>7, <1>8 DEF next, Goes, RowInv, RowOK

(* The battle a chain of turns starts from: the stored one, with its window *)
(* closed or a strike counted.                                              *)
Resumes(r, b) ==
  /\ Runs(b) /\ b.kind = r.kind /\ b.round = r.turns.round
  /\ \A s \in Sides : b.clock[s].seq = r.turns.clock[s].seq

LEMMA ChainStored ==
  ASSUME NEW r, Called(r), Bare(r), NEW b, Resumes(r, b), NEW next \in Chain(b)
  PROVE  /\ Follows(b, next)
         /\ Goes(next, Stored(r, next)) \/ Ends(r, Stored(r, next))
  <1>1. CASE next \in Waits(b)
    <2>1. /\ Follows(b, next) /\ InPlay(next) /\ next.turn \in Units
          /\ next.clock[SideOf[next.turn]].seq # b.clock[SideOf[next.turn]].seq
      BY <1>1, WaitFollows DEF Resumes
    <2>2. next.clock[SideOf[next.turn]].seq # r.turns.clock[SideOf[next.turn]].seq
      BY <2>1, SidesOfUnits DEF Resumes
    <2> QED BY <2>1, <2>2, StoredOpens DEF Follows, Resumes
  <1>2. CASE next \in Advances(b)
    <2>1. /\ Follows(b, next) /\ InPlay(next) /\ next.turn = "advancing"
          /\ next.round = b.round + 1
      BY <1>2, AdvanceFollows DEF Resumes
    <2>2. next.round # r.turns.round
      BY <2>1 DEF Resumes, Runs, Turns
    <2> QED BY <2>1, <2>2, StoredCrosses DEF Follows, Resumes
  <1>3. CASE next \in Decides(b)
    <2>1. Follows(b, next) /\ next.outcome \in Over
      BY <1>3, DecideFollows DEF Resumes
    <2>2. next.outcome # "ongoing"
      BY <2>1 DEF Over, Decisive
    <2> QED BY <2>1, <2>2, StoredEnd DEF Follows
  <1> QED BY <1>1, <1>2, <1>3 DEF Chain

-----------------------------------------------------------------------------
(* What a step may make of one battle's rows: whole rows, no strike before  *)
(* its time, and locks that stand until the deployment is over.             *)

RowStep(old, r) == RowInv(r) /\ StrikeIsDue(old, r) /\ LockStands(old, r)

(* The locks are gone with the deployment.                                  *)
LEMMA LocksAreGone ==
  ASSUME NEW r, RowInv(r), r.phase # "deploying", NEW s \in Sides
  PROVE  r.staged[s] = {}
  BY DEF RowInv, RowOK, LocksAgree

(* Two ways to be such a step: the battle ends, or goes on unstruck.        *)
LEMMA EndsIsStep ==
  ASSUME NEW old, RowInv(old), NEW r, Ends(old, r)
  PROVE  RowStep(old, r)
  <1>1. old.kind \in Kinds /\ \A s \in Sides : old.turns.clock[s].strikes \in Nat
    BY DEF RowInv, RowOK, Rows, Turns, Clock
  <1>2. \A s \in Sides : r.turns.clock[s].strikes = 0
    BY <1>1, NewNeedsNoUnits DEF Ends
  <1>3. RowInv(r) /\ r.phase = "finished" /\ \A s \in Sides : r.staged[s] = {}
    BY LocksAreGone DEF Ends
  <1> QED BY <1>1, <1>2, <1>3 DEF RowStep, StrikeIsDue, LockStands

LEMMA GoesIsStep ==
  ASSUME NEW old, RowInv(old), old.phase = "active", NEW r, NEW next, Goes(next, r),
         \A s \in Sides : next.clock[s].strikes = old.turns.clock[s].strikes
  PROVE  RowStep(old, r)
  <1>1. \A s \in Sides : old.turns.clock[s].strikes \in Nat
    BY DEF RowInv, RowOK, Rows, Turns, Clock
  <1> QED BY <1>1 DEF RowStep, Goes, StrikeIsDue, LockStands

LEMMA SameIsStep ==
  ASSUME NEW old, RowInv(old), NEW r, RowInv(r), r.turns = old.turns, r.phase = old.phase,
         \A s \in Sides : old.staged[s] # {} => r.staged[s] = old.staged[s]
  PROVE  RowStep(old, r)
  <1>1. \A s \in Sides : old.turns.clock[s].strikes \in Nat
    BY DEF RowInv, RowOK, Rows, Turns, Clock
  <1> QED BY <1>1 DEF RowStep, StrikeIsDue, LockStands

LEMMA SweptIsStep ==
  ASSUME NEW old, RowInv(old), old.anchor \in Over
  PROVE  RowStep(old, Swept(old))
  <1> DEFINE r == Swept(old)
  <1>1. old \in Rows /\ old.kind \in Kinds /\ old.summary = old.anchor
    BY DEF RowInv, RowOK, RecordsAgree, Rows
  <1>2. New(old.kind, {}) \in Turns /\ Unlocked \in [Sides -> SUBSET Units]
    BY <1>1, NewNeedsNoUnits DEF Unlocked
  <1>3. /\ r.anchor = "none" /\ r.phase = "none" /\ ~r.kept /\ r.staged = Unlocked
        /\ r.turns = New(old.kind, {}) /\ r.deadlines = EmptyBag /\ r.advances = EmptyBag
        /\ r.gcs = 0 /\ r.summary = old.summary /\ r.settled = old.settled
        /\ r.rated = old.rated /\ r.kind = old.kind
    BY <1>1 DEF Swept, Rows, Over, Decisive
  <1>4. r \in Rows
    <2>1. r = [old EXCEPT !.anchor = "none", !.phase = "none", !.kept = FALSE,
                          !.staged = Unlocked, !.turns = New(old.kind, {}),
                          !.drifted = FALSE, !.deadlines = EmptyBag,
                          !.advances = EmptyBag, !.gcs = 0, !.summary = old.summary]
      BY <1>1 DEF Swept, Over, Decisive
    <2>2. "none" \in Anchors /\ old.summary \in Anchors /\ 0 \in 0..1
      BY <1>1 DEF Rows, Anchors
    <2> HIDE DEF r
    <2>3. r.kept \in BOOLEAN /\ r.drifted \in BOOLEAN
      BY <1>1, <2>1 DEF Rows
    <2> QED BY <1>1, <1>2, <2>1, <2>2, <2>3 DEF Rows
  <1>5. PhaseAgrees(r) /\ LocksAgree(r) /\ Driven(r)
    BY <1>3 DEF PhaseAgrees, LocksAgree, Driven, Unlocked
  <1>6. RecordsAgree(r)
    BY <1>1, <1>3 DEF RowInv, RowOK, RecordsAgree, Over, Decisive
  <1>7. \A s \in Sides : r.turns.clock[s].strikes = 0 /\ old.turns.clock[s].strikes \in Nat
    BY <1>1, <1>3, NewNeedsNoUnits DEF Rows, Turns, Clock
  <1>8. \A s \in Sides : r.staged[s] = {}
    BY <1>3 DEF Unlocked
  <1> QED BY <1>3, <1>4, <1>5, <1>6, <1>7, <1>8
          DEF RowStep, RowInv, RowOK, StrikeIsDue, LockStands

(* So it is enough to look at the battle a handler works on.                *)
Steps == \A id \in Ids : RowStep(battle[id], battle'[id])

LEMMA BecomesSteps ==
  ASSUME Inv, NEW id \in Ids, NEW r, Becomes(id, r), RowStep(battle[id], r)
  PROVE  battle' \in [Ids -> Rows] /\ Steps
  <1> DEFINE changed == [battle EXCEPT ![id] = r]
  <1>1. /\ changed \in [Ids -> Rows] /\ changed[id] = r
        /\ \A i \in Ids : i # id => changed[i] = battle[i]
    BY DEF Inv, RowStep, RowInv, RowOK
  <1>2. \A i \in Ids : RowStep(battle[i], changed[i])
    BY <1>1, SameIsStep DEF Inv
  <1>3. \A i \in Ids : SweptBy(id, r, i) =>
          RowStep(battle[i], Swept(changed[i])) /\ Swept(changed[i]) \in Rows
    BY <1>1, SweptIsStep DEF SweptBy, Inv, Over, RowStep, RowInv, RowOK
  <1>4. battle' = changed \/
          battle' = [i \in Ids |-> IF SweptBy(id, r, i) THEN Swept(changed[i]) ELSE changed[i]]
    BY DEF Becomes
  <1> HIDE DEF changed
  <1>5. CASE battle' = changed
    BY <1>1, <1>2, <1>5 DEF Steps
  <1>6. CASE battle' = [i \in Ids |-> IF SweptBy(id, r, i) THEN Swept(changed[i])
                                     ELSE changed[i]]
    <2>1. \A i \in Ids : battle'[i] = IF SweptBy(id, r, i) THEN Swept(changed[i])
                                      ELSE changed[i]
      BY <1>6
    <2>2. battle' \in [Ids -> Rows]
      BY <1>1, <1>3, <1>6
    <2> QED BY <1>2, <1>3, <2>1, <2>2 DEF Steps
  <1> QED BY <1>4, <1>5, <1>6
-----------------------------------------------------------------------------
(* Deployments.                                                             *)

Deploying(r) ==
  /\ Held(r) /\ r.phase = "deploying" /\ r.anchor = "ongoing" /\ r.summary = "none"
  /\ r.advances = EmptyBag /\ r.deadlines \in {EmptyBag, Row(DeployRow)}

LEMMA DeployingRow ==
  ASSUME NEW r, RowInv(r), r.phase = "deploying"
  PROVE  Deploying(r) /\ r.deadlines = Row(DeployRow) /\ r.turns = New(r.kind, {})
  BY DEF RowInv, RowOK, PhaseAgrees, RecordsAgree, Driven, Deploying, Held, Over, Decisive

LEMMA MaterializedRow ==
  ASSUME NEW r, Deploying(r), NEW field \in SUBSET Units, NEW next \in Materialized(r, field)
  PROVE  /\ RowInv(next) /\ next.phase \in {"active", "finished"}
         /\ \A s \in Sides : next.turns.clock[s].strikes = 0
         /\ next.turns.alive \subseteq field
  <1> DEFINE b == New(r.kind, field)
             q == [r EXCEPT !.phase = "active", !.staged = Unlocked, !.turns = b,
                            !.deadlines = EmptyBag]
  <1>1. r \in Rows /\ r.kind \in Kinds /\ Unlocked \in [Sides -> SUBSET Units]
    BY DEF Deploying, Held, Rows, Unlocked
  <1>2. /\ b \in Turns /\ b.kind = r.kind /\ b.alive = field /\ b.outcome = "ongoing"
        /\ \A s \in Sides : b.clock[s].strikes = 0
    BY <1>1, NewIsTurns DEF New
  <1> HIDE DEF b
  <1>3. r.deadlines (-) Row(DeployRow) = EmptyBag
    BY OneRow DEF Deploying
  <1>4. PICK after \in AfterStart(b) : next = Stored(q, after)
    BY <1>3 DEF Materialized, b
  <1>5. q \in Rows /\ q.phase = "active" /\ q.turns = b /\ q.deadlines = EmptyBag
        /\ q.advances = r.advances /\ q.gcs = r.gcs /\ q.kept = r.kept /\ q.kind = r.kind
        /\ q.anchor = r.anchor /\ q.settled = r.settled /\ q.rated = r.rated
        /\ q.staged = Unlocked /\ q.summary = r.summary
    BY <1>1, <1>2 DEF Rows
  <1> HIDE DEF q
  <1>6. Called(q) /\ Bare(q)
    BY <1>5 DEF Called, Bare, Deploying, Held, Unlocked
  <1>7. Resumes(q, b)
    BY <1>2, <1>5, ContractBounds DEF Resumes, Runs
  <1>8. after \in Chain(b)
    BY DEF AfterStart
  <1>9. Follows(b, after) /\ (Goes(after, next) \/ Ends(q, next))
    BY <1>4, <1>6, <1>7, <1>8, ChainStored
  <1>10. CASE Goes(after, next)
    BY <1>2, <1>9, <1>10 DEF Goes, Follows
  <1>11. CASE Ends(q, next)
    <2>1. next.turns = New(r.kind, {}) /\ next.turns.alive = {}
      BY <1>5, <1>11 DEF Ends, New
    <2> QED BY <1>1, <1>11, <2>1, NewNeedsNoUnits DEF Ends
  <1> QED BY <1>9, <1>10, <1>11

LEMMA DeploymentStep ==
  ASSUME NEW old, RowInv(old), NEW r, Deploying(r), NEW field \in SUBSET Units,
         \A s \in Sides : old.phase = "deploying" /\ old.staged[s] # {}
                            => field \cap UnitsOf(s) \subseteq old.staged[s],
         NEW next \in Materialized(r, field)
  PROVE  RowStep(old, next)
  <1>1. \A s \in Sides : old.turns.clock[s].strikes \in Nat
    BY DEF RowInv, RowOK, Rows, Turns, Clock
  <1>2. /\ RowInv(next) /\ next.turns.alive \subseteq field
        /\ \A s \in Sides : next.turns.clock[s].strikes = 0
    BY MaterializedRow
  <1>3. next.phase # "deploying" /\ \A s \in Sides : next.staged[s] = {}
    BY MaterializedRow, LocksAreGone
  <1>4. LockStands(old, next)
    BY <1>2, <1>3 DEF LockStands
  <1> QED BY <1>1, <1>2, <1>4 DEF RowStep, StrikeIsDue

LEMMA PicksAreUnits ==
  ASSUME NEW s \in Sides
  PROVE  /\ UnitsOf(s) \subseteq Units
         /\ UnitsOf(s) \cap UnitsOf(Other(s)) = {}
         /\ \A picks \in PicksOf(s) : picks \subseteq UnitsOf(s) /\ picks # {}
  <1>1. Cardinality({}) = 0 /\ Format # 0
    BY FS_EmptySet, TacticsConstants
  <1> QED BY <1>1 DEF UnitsOf, PicksOf, Other, Sides

LEMMA NoBattleRow == NoBattle \in Rows /\ RowInv(NoBattle)
  <1> DEFINE r == NoBattle
  <1>1. /\ New("wild", {}) \in Turns /\ Unlocked \in [Sides -> SUBSET Units]
        /\ Nobody \in [Sides -> Players \cup {Wild}] /\ "wild" \in Kinds
    BY NewNeedsNoUnits, TacticsConstants DEF Unlocked, Nobody
  <1>2. r \in Rows
    BY <1>1 DEF NoBattle, Rows, Anchors
  <1>3. PhaseAgrees(r) /\ LocksAgree(r) /\ RecordsAgree(r) /\ Driven(r)
    BY DEF NoBattle, PhaseAgrees, LocksAgree, RecordsAgree, Driven, Over, Decisive, Unlocked
  <1> QED BY <1>2, <1>3 DEF RowInv, RowOK

(* A fresh battle.                                                          *)
LEMMA BegunRow ==
  ASSUME NEW kind \in Kinds, NEW side \in [Sides -> Players \cup {Wild}]
  PROVE  /\ Deploying(Begun(kind, side))
         /\ RowInv([Begun(kind, side) EXCEPT !.deadlines = Row(DeployRow)])
  <1> DEFINE r == Begun(kind, side)
             q == [r EXCEPT !.deadlines = Row(DeployRow)]
  <1>1. New(kind, {}) \in Turns /\ Unlocked \in [Sides -> SUBSET Units]
    BY NewNeedsNoUnits DEF Unlocked
  <1>2. /\ r.anchor = "ongoing" /\ r.phase = "deploying" /\ r.kind = kind
        /\ r.turns = New(kind, {}) /\ r.kept /\ r.staged = Unlocked /\ r.gcs = 0
        /\ r.deadlines = EmptyBag /\ r.advances = EmptyBag /\ r.summary = "none"
        /\ r.settled = 0 /\ r.rated = 0
    BY DEF Begun, NoBattle
  <1>3. DeployRow \in DeadlineArgs
    BY ContractBounds DEF DeployRow, DeadlineArgs
  <1>4. r \in Rows
    <2>1. NoBattle \in Rows
      BY NoBattleRow
    <2> QED BY <1>1, <2>1 DEF Begun, Rows, Anchors
  <1> HIDE DEF r
  <1>5. q \in Rows /\ q.phase = "deploying" /\ q.anchor = "ongoing" /\ q.kept /\ q.gcs = 0
        /\ q.turns = New(kind, {}) /\ q.kind = kind /\ q.summary = "none"
        /\ q.staged = Unlocked /\ q.settled = 0 /\ q.rated = 0
        /\ q.deadlines = Row(DeployRow) /\ q.advances = EmptyBag
    BY <1>2, <1>3, <1>4 DEF Rows
  <1>6. Deploying(r)
    BY <1>2, <1>4 DEF Deploying, Held
  <1> HIDE DEF q
  <1>7. PhaseAgrees(q) /\ LocksAgree(q) /\ RecordsAgree(q) /\ Driven(q)
    BY <1>5 DEF PhaseAgrees, LocksAgree, RecordsAgree, Driven, Over, Decisive, Unlocked
  <1> QED BY <1>5, <1>6, <1>7 DEF q, r, RowInv, RowOK

-----------------------------------------------------------------------------
(* The players' calls.                                                      *)

LEMMA LiveRow ==
  ASSUME NEW r, RowInv(r), r.phase = "active"
  PROVE  /\ Called(r) /\ r \in Rows /\ r.turns \in Turns /\ InPlay(r.turns)
         /\ r.turns.kind = r.kind /\ Runs(r.turns) /\ r.anchor = "ongoing"
  <1>1. r \in Rows /\ r.turns \in Turns /\ r.anchor \in Anchors
    BY DEF RowInv, RowOK, Rows
  <1>2. r.anchor = "ongoing" /\ r.kept /\ InPlay(r.turns) /\ r.summary = "ongoing"
        /\ r.turns.kind = r.kind /\ \A s \in Sides : r.staged[s] = {}
    BY DEF RowInv, RowOK, PhaseAgrees, LocksAgree
  <1>3. r.gcs = 0
    BY DEF RowInv, Driven
  <1>4. r.settled = 0 /\ r.rated = 0
    BY <1>2 DEF RowInv, RowOK, RecordsAgree, Over, Decisive
  <1> QED BY <1>1, <1>2, <1>3, <1>4 DEF Called, Held, Runs, InPlay

LEMMA UnscheduledRow ==
  ASSUME NEW r, r \in Rows, NEW q, q = [r EXCEPT !.deadlines = EmptyBag] \/
                                   q = [r EXCEPT !.advances = EmptyBag]
  PROVE  /\ q \in Rows /\ q.turns = r.turns /\ q.kind = r.kind /\ q.phase = r.phase
         /\ q.anchor = r.anchor /\ q.due = r.due /\ q.drifted = r.drifted
         /\ q.staged = r.staged /\ q.summary = r.summary
         /\ (Held(r) => Held(q)) /\ (Called(r) => Called(q))
  <1>1. q \in Rows /\ q.turns = r.turns /\ q.kind = r.kind /\ q.phase = r.phase
        /\ q.anchor = r.anchor /\ q.due = r.due /\ q.drifted = r.drifted
        /\ q.staged = r.staged /\ q.summary = r.summary
        /\ q.gcs = r.gcs /\ q.kept = r.kept /\ q.settled = r.settled /\ q.rated = r.rated
    BY DEF Rows
  <1> QED BY <1>1 DEF Held, Called

LEMMA SubmitStep ==
  ASSUME NEW r, RowInv(r), r.phase = "active", NEW u \in Units,
         r.turns.turn = u => r.turns.clock[SideOf[u]].seq < MaxSeq,
         NEW next \in AfterSubmit(r.turns, u)
  PROVE  RowStep(r, Stored(IF next.clock[SideOf[u]] # r.turns.clock[SideOf[u]]
                           THEN [r EXCEPT !.deadlines = EmptyBag] ELSE r, next))
  <1> DEFINE s == SideOf[u]
             b == [r.turns EXCEPT !.clock[s].open = FALSE]
             shut == [r EXCEPT !.deadlines = EmptyBag]
  <1>1. /\ Called(r) /\ r \in Rows /\ r.turns \in Turns /\ InPlay(r.turns)
        /\ r.turns.kind = r.kind /\ Runs(r.turns)
    BY LiveRow
  <1>2. u # "advancing" /\ s \in Sides
    BY SidesOfUnits
  <1>3. CASE r.turns.turn = u
    <2>1. next \in Chain(b)
      BY <1>3 DEF AfterSubmit
    <2>2. /\ b \in Turns /\ b.kind = r.turns.kind /\ b.round = r.turns.round
          /\ b.outcome = r.turns.outcome
          /\ b.clock = [r.turns.clock EXCEPT ![s].open = FALSE]
      <3>1. [r.turns.clock EXCEPT ![s].open = FALSE] \in [Sides -> Clock]
        BY <1>1, <1>2 DEF Turns, Clock
      <3>2. b = [r.turns EXCEPT !.clock = [r.turns.clock EXCEPT ![s].open = FALSE]]
        BY <1>1, <1>2 DEF Turns
      <3> QED BY <1>1, <3>1, <3>2 DEF Turns
    <2> HIDE DEF b
    <2>3. /\ ~b.clock[s].open /\ r.turns.clock[s].open
          /\ \A t \in Sides : /\ b.clock[t].seq = r.turns.clock[t].seq
                              /\ b.clock[t].strikes = r.turns.clock[t].strikes
      BY <1>1, <1>2, <1>3, <2>2 DEF InPlay, Turns, Clock
    <2>4. Resumes(r, b)
      BY <1>1, <2>2, <2>3 DEF Resumes, Runs
    <2>5. Resumes(shut, b)
      BY <1>1, <2>4, UnscheduledRow DEF Resumes
    <2>6. Called(shut) /\ Bare(shut) /\ shut.kind = r.kind
      <3>1. r.advances = EmptyBag
        BY <1>2, <1>3 DEF RowInv, Driven
      <3>2. Called(shut) /\ shut.advances = r.advances /\ shut.deadlines = EmptyBag
            /\ shut.kind = r.kind
        BY <1>1, UnscheduledRow DEF Rows
      <3> QED BY <3>1, <3>2 DEF Bare
    <2>7. next.clock[s] # r.turns.clock[s]
      <3>1. CASE next \in Waits(b)
        <4>1. /\ next.clock[SideOf[next.turn]].seq # b.clock[SideOf[next.turn]].seq
              /\ s # SideOf[next.turn] => next.clock[s] = b.clock[s]
          BY <1>2, <2>4, <3>1, WaitFollows DEF Resumes
        <4> QED BY <1>2, <2>3, <4>1
      <3>2. CASE next \in Advances(b)
        BY <1>2, <2>3, <2>4, <3>2, AdvanceFollows DEF Resumes
      <3>3. CASE next \in Decides(b)
        BY <1>2, <2>3, <2>4, <3>3, DecideFollows DEF Resumes
      <3> QED BY <2>1, <3>1, <3>2, <3>3 DEF Chain
    <2> HIDE DEF shut
    <2>8. Follows(b, next) /\ (Goes(next, Stored(shut, next)) \/ Ends(shut, Stored(shut, next)))
      BY <2>1, <2>5, <2>6, ChainStored
    <2>9. RowStep(r, Stored(shut, next))
      <3>1. CASE Goes(next, Stored(shut, next))
        <4>1. \A t \in Sides : next.clock[t].strikes = r.turns.clock[t].strikes
          BY <2>3, <2>8 DEF Follows
        <4> QED BY <3>1, <4>1, GoesIsStep
      <3>2. CASE Ends(shut, Stored(shut, next))
        BY <2>6, <3>2, EndsIsStep DEF Ends
      <3> QED BY <2>8, <3>1, <3>2
    <2> QED BY <2>7, <2>9 DEF shut
  <1>4. CASE r.turns.turn # u
    <2>1. next = [r.turns EXCEPT !.plans = r.turns.plans \cup {u}]
      BY <1>4 DEF AfterSubmit
    <2>2. r.turns.plans \cup {u} \in SUBSET Units
      BY <1>1 DEF Turns
    <2>3. next.clock = r.turns.clock
      BY <1>1, <2>1 DEF Turns
    <2>4. Goes(next, Stored(r, next))
      BY <2>1, <2>2, StoredStays
    <2>5. RowStep(r, Stored(r, next))
      BY <2>3, <2>4, GoesIsStep
    <2> QED BY <2>3, <2>5
  <1> QED BY <1>3, <1>4

LEMMA CancelStep ==
  ASSUME NEW r, RowInv(r), r.phase = "active", NEW u \in Units,
         NEW next \in AfterCancel(r.turns, u)
  PROVE  RowStep(r, Stored(r, next))
  <1>1. r.turns \in Turns
    BY LiveRow
  <1>2. next = [r.turns EXCEPT !.plans = r.turns.plans \ {u}]
    BY DEF AfterCancel
  <1>3. r.turns.plans \ {u} \in SUBSET Units
    BY <1>1 DEF Turns
  <1>4. next.clock = r.turns.clock
    BY <1>1, <1>2 DEF Turns
  <1> QED BY <1>2, <1>3, <1>4, StoredStays, GoesIsStep

(* A forfeit, or a disconnect.                                              *)
LEMMA ConcludeStep ==
  ASSUME NEW r, RowInv(r), r.phase = "active", NEW o \in Over,
         NEW next \in AfterConclude(r.turns, o)
  PROVE  RowStep(r, Stored(r, next))
  <1>1. Called(r) /\ r.turns \in Turns
    BY LiveRow
  <1>2. next = Ended(r.turns, o, r.turns.alive)
    BY DEF AfterConclude
  <1>3. next \in Turns /\ next.outcome = o
    BY <1>1, <1>2, EndedFollows DEF Follows
  <1>4. Ends(r, Stored(r, next))
    BY <1>1, <1>3, StoredEnd DEF Over, Decisive
  <1> QED BY <1>4, EndsIsStep

LEMMA OngoingIsHeld ==
  ASSUME NEW r, RowInv(r), r.anchor = "ongoing"
  PROVE  Held(r) /\ r.phase \in {"deploying", "active"}
  BY LiveRow, DeployingRow DEF RowInv, RowOK, PhaseAgrees, Called, Deploying

LEMMA CloseStep ==
  ASSUME NEW r, RowInv(r), r.anchor = "ongoing", NEW close
  PROVE  RowStep(r, Closed(r, close))
  BY OngoingIsHeld, ClosedRow, EndsIsStep

-----------------------------------------------------------------------------
(* The schedule rows.                                                       *)

LEMMA ExpiryStep ==
  ASSUME NEW old, RowInv(old), old.phase = "active", old.due, NEW u, NEW seq,
         NEW r, Called(r), Bare(r), r.turns = old.turns, r.kind = old.kind,
         NEW next \in AfterExpire(old.turns, u, seq)
  PROVE  RowStep(old, Stored(r, next))
  <1> DEFINE b == old.turns
             s == SideOf[u]
             p == [b EXCEPT !.clock[s].open = FALSE, !.clock[s].strikes = @ + 1]
  <1>1. b \in Turns /\ Runs(b) /\ b.kind = old.kind
    BY LiveRow
  <1>2. u \in Units /\ b.turn = u /\ s \in Sides
    BY SidesOfUnits DEF AfterExpire
  <1>3. CASE b.kind = "wild"
    <2>1. next = Ended(b, "fled", b.alive)
      BY <1>2, <1>3 DEF AfterExpire
    <2>2. next \in Turns /\ next.outcome = "fled"
      <3>1. "fled" \in Over /\ b.alive \in SUBSET b.alive
        BY DEF Over
      <3> QED BY <1>1, <2>1, <3>1, EndedFollows DEF Follows
    <2>3. Ends(r, Stored(r, next))
      BY <2>2, StoredEnd
    <2> QED BY <2>3, EndsIsStep DEF Ends
  <1>4. CASE b.kind # "wild"
    <2> DEFINE struck == [b.clock[s] EXCEPT !.open = FALSE, !.strikes = b.clock[s].strikes + 1]
    <2>1. b.clock \in [Sides -> Clock] /\ b.clock[s].strikes + 1 \in 0..Forfeit
      BY <1>1, <1>2, ContractBounds DEF Runs, Turns, Clock
    <2>2. struck \in Clock /\ struck.seq = b.clock[s].seq
          /\ struck.strikes = b.clock[s].strikes + 1
      BY <1>2, <2>1 DEF Clock
    <2>3. p = [b EXCEPT !.clock = [b.clock EXCEPT ![s] = struck]]
      BY <1>1, <1>2, <2>1 DEF Turns, Clock
    <2> HIDE DEF struck
    <2>4. /\ p \in Turns /\ p.kind = b.kind /\ p.round = b.round /\ p.outcome = b.outcome
          /\ p.alive = b.alive /\ p.clock[s] = struck
          /\ \A t \in Sides : t # s => p.clock[t] = b.clock[t]
      <3> DEFINE clock == [b.clock EXCEPT ![s] = struck]
      <3>1. /\ clock \in [Sides -> Clock] /\ clock[s] = struck
            /\ \A t \in Sides : t # s => clock[t] = b.clock[t]
        BY <1>2, <2>1, <2>2
      <3> HIDE DEF clock, p
      <3>2. p = [b EXCEPT !.clock = clock]
        BY <2>3 DEF clock
      <3> QED BY <1>1, <3>1, <3>2 DEF Turns
    <2>5. next \in IF p.clock[s].strikes >= Forfeit
                   THEN {Ended(p, WinFor(Other(s)), b.alive)} ELSE Chain(p)
      BY <1>2, <1>4 DEF AfterExpire
    <2> HIDE DEF p
    <2>6. Follows(p, next) /\ (Goes(next, Stored(r, next)) \/ Ends(r, Stored(r, next)))
      <3>1. CASE p.clock[s].strikes >= Forfeit
        <4>1. WinFor(Other(s)) \in Over
          BY DEF WinFor, Over, Decisive
        <4>2. next = Ended(p, WinFor(Other(s)), p.alive)
          BY <2>4, <2>5, <3>1
        <4>3. Follows(p, next) /\ next.outcome \in Over
          BY <2>4, <4>1, <4>2, EndedFollows
        <4> QED BY <4>3, StoredEnd DEF Follows, Over, Decisive
      <3>2. CASE ~(p.clock[s].strikes >= Forfeit)
        <4>1. Runs(p)
          BY <1>1, <1>2, <2>1, <2>2, <2>4, <3>2, ContractBounds DEF Runs
        <4>2. Resumes(r, p)
          BY <1>1, <2>2, <2>4, <4>1 DEF Resumes
        <4> QED BY <2>5, <3>2, <4>2, ChainStored
      <3> QED BY <3>1, <3>2
    <2>7. CASE Ends(r, Stored(r, next))
      BY <2>7, EndsIsStep DEF Ends
    <2>8. CASE Goes(next, Stored(r, next))
      <3>1. \A t \in Sides : t # s => next.clock[t].strikes = b.clock[t].strikes
        BY <2>4, <2>6 DEF Follows
      <3>2. \A t \in Sides : b.clock[t].strikes \in Nat
        BY <2>1 DEF Clock
      <3>3. StrikeIsDue(old, Stored(r, next))
        BY <1>2, <2>8, <3>1, <3>2 DEF StrikeIsDue, Goes
      <3> QED BY <2>8, <3>3 DEF RowStep, Goes, LockStands
    <2> QED BY <2>6, <2>7, <2>8
  <1> QED BY <1>3, <1>4

LEMMA ExpiryIsOfTheWindow ==
  ASSUME NEW b, NEW u, NEW seq
  PROVE  /\ AfterExpire(b, u, seq) # {} => b.turn = u /\ b.clock[SideOf[u]].seq = seq
         /\ b.turn = u /\ u \in Units /\ b.clock[SideOf[u]].open
              /\ b.clock[SideOf[u]].seq = seq
            => AfterExpire(b, u, seq) # {}
  BY ChainNeverRefuses DEF AfterExpire

LEMMA AdvanceStep ==
  ASSUME NEW old, RowInv(old), old.phase = "active", NEW round,
         NEW r, Called(r), Bare(r), r.turns = old.turns, r.kind = old.kind,
         NEW next \in AfterAdvance(old.turns, round)
  PROVE  RowStep(old, Stored(r, next))
  <1>1. Runs(old.turns) /\ old.turns.kind = old.kind
    BY LiveRow
  <1>2. Resumes(r, old.turns) /\ next \in Chain(old.turns)
    BY <1>1 DEF Resumes, AfterAdvance
  <1>3. /\ Follows(old.turns, next)
        /\ Goes(next, Stored(r, next)) \/ Ends(r, Stored(r, next))
    BY <1>2, ChainStored
  <1>4. CASE Ends(r, Stored(r, next))
    BY <1>4, EndsIsStep DEF Ends
  <1>5. CASE Goes(next, Stored(r, next))
    BY <1>3, <1>5, GoesIsStep DEF Follows
  <1> QED BY <1>3, <1>4, <1>5

(* The end of a deployment, with its row consumed.                          *)
LEMMA DeployExpiredStep ==
  ASSUME NEW old, RowInv(old), old.phase = "deploying", NEW r, Deploying(r),
         r.staged = old.staged, r.kind = old.kind, NEW next \in DeployExpired(r)
  PROVE  RowStep(old, next)
  <1>1. CASE \E close : next = Closed(r, close)
    <2>1. Ends(r, next)
      BY <1>1, ClosedRow DEF Deploying
    <2>2. r.kind = old.kind /\ RowInv(next) /\ next.phase = "finished"
      BY <2>1 DEF Ends
    <2> QED BY <2>1, <2>2, EndsIsStep DEF Ends
  <1>2. CASE \E field \in FieldsAfterExpiry(r) : next \in Materialized(r, field)
    <2>1. PICK a \in IF r.staged["A"] # {} THEN {r.staged["A"]} ELSE PicksOf("A"),
               b \in IF r.staged["B"] # {} THEN {r.staged["B"]} ELSE PicksOf("B") :
            next \in Materialized(r, a \cup b)
      <3>1. PICK field \in FieldsAfterExpiry(r) : next \in Materialized(r, field)
        BY <1>2
      <3>2. \E a \in IF r.staged["A"] # {} THEN {r.staged["A"]} ELSE PicksOf("A"),
               b \in IF r.staged["B"] # {} THEN {r.staged["B"]} ELSE PicksOf("B") :
              field = a \cup b
        BY DEF FieldsAfterExpiry
      <3> QED BY <3>1, <3>2
    <2>2. \A s \in Sides : old.staged[s] \subseteq UnitsOf(s)
      BY DEF RowInv, RowOK, LocksAgree
    <2>3. a \subseteq UnitsOf("A") /\ b \subseteq UnitsOf("B")
      BY <2>1, <2>2, PicksAreUnits DEF Sides
    <2>4. UnitsOf("A") \cap UnitsOf("B") = {}
      BY DEF UnitsOf
    <2>5. \A s \in Sides : old.staged[s] # {}
                             => (a \cup b) \cap UnitsOf(s) \subseteq old.staged[s]
      BY <2>1, <2>3, <2>4 DEF Sides
    <2>6. a \cup b \in SUBSET Units
      BY <2>3 DEF UnitsOf
    <2> QED BY <2>1, <2>5, <2>6, DeploymentStep
  <1>3. \/ next \in UNION {Materialized(r, field) : field \in FieldsAfterExpiry(r)}
        \/ \E close : next = Closed(r, close)
    BY DEF DeployExpired
  <1> QED BY <1>1, <1>2, <1>3

(* The call of a row that is gone: it changes nothing, but for a battle      *)
(* that cannot be composed any more, which it closes.                       *)
LEMMA LateDeadlineIsVoid ==
  ASSUME NEW old, RowInv(old), NEW args \in DeadlineArgs,
         args.unit = Deploy => args = DeployRow,
         args \notin BagToSet(old.deadlines), old.phase = "active" => ~old.drifted,
         NEW r \in AfterDeadline(old, args)
  PROVE  r = old
  <1>1. \A x : BagToSet(Row(x)) = {x}
    BY OneRow
  <1>2. CASE old.phase = "deploying"
    <2>1. old.deadlines = Row(DeployRow)
      BY <1>2, DeployingRow
    <2>2. args.unit # Deploy
      BY <1>1, <2>1
    <2> QED BY <1>2, <2>2 DEF AfterDeadline
  <1>3. CASE old.phase = "active" /\ args.unit # Deploy
    <2>1. AfterExpire(old.turns, args.unit, args.seq) = {}
      <3>1. SUFFICES ASSUME AfterExpire(old.turns, args.unit, args.seq) # {} PROVE FALSE
        OBVIOUS
      <3>2. /\ old.turns.turn = args.unit /\ args.unit \in Units
            /\ old.turns.clock[SideOf[args.unit]].seq = args.seq
        BY <1>3, <3>1, ExpiryIsOfTheWindow DEF DeadlineArgs
      <3>3. old.deadlines = Row([unit |-> args.unit, seq |-> args.seq])
        BY <1>3, <3>2, SidesOfUnits DEF RowInv, Driven
      <3>4. args = [unit |-> args.unit, seq |-> args.seq]
        BY DEF DeadlineArgs
      <3> QED BY <1>1, <3>3, <3>4
    <2> QED BY <1>3, <2>1 DEF AfterDeadline
  <1>4. CASE old.phase \notin {"deploying", "active"} \/ (old.phase = "active" /\ args.unit = Deploy)
    BY <1>4 DEF AfterDeadline
  <1> QED BY <1>2, <1>3, <1>4

LEMMA LateDeadlineStep ==
  ASSUME NEW old, RowInv(old), NEW args \in DeadlineArgs,
         args.unit = Deploy => args = DeployRow,
         args \notin BagToSet(old.deadlines), NEW r \in AfterDeadline(old, args)
  PROVE  RowStep(old, r)
  <1>1. CASE r = old
    BY <1>1, SameIsStep
  <1>2. CASE old.phase = "active" => ~old.drifted
    BY <1>1, <1>2, LateDeadlineIsVoid
  <1>3. CASE old.phase = "active" /\ old.drifted /\ args.unit # Deploy
    <2>1. old.anchor = "ongoing"
      BY <1>3, LiveRow
    <2> QED BY <1>3, <2>1, CloseStep DEF AfterDeadline
  <1>4. CASE old.phase = "active" /\ args.unit = Deploy
    BY <1>1, <1>4 DEF AfterDeadline
  <1> QED BY <1>2, <1>3, <1>4

(* A battle whose one deadline row is consumed.                             *)
LEMMA FiredRow ==
  ASSUME NEW old, RowInv(old), NEW args \in BagToSet(old.deadlines),
         NEW fired, fired = [old EXCEPT !.deadlines = EmptyBag]
  PROVE  /\ old.deadlines = Row(args) /\ [old EXCEPT !.deadlines = @ (-) Row(args)] = fired
         /\ fired.deadlines = EmptyBag /\ fired.advances = old.advances
         /\ [fired EXCEPT !.deadlines = @ (+) Row(args)] = old
         /\ [fired EXCEPT !.deadlines = EmptyBag] = fired
  <1>1. BagToSet(EmptyBag) = {} /\ \A x : BagToSet(Row(x)) = {x}
    BY OneRow
  <1>2. old \in Rows
    BY DEF RowInv, RowOK
  <1>3. old.deadlines = Row(args)
    <2>1. old.deadlines \in {EmptyBag} \cup {Row(x) : x \in DeadlineArgs}
      BY <1>2 DEF Rows
    <2> QED BY <1>1, <2>1
  <1>4. Row(args) (-) Row(args) = EmptyBag /\ EmptyBag (+) Row(args) = Row(args)
    BY OneRow
  <1>5. fired.deadlines = EmptyBag /\ fired.advances = old.advances
    BY <1>2 DEF Rows
  <1>6. /\ [fired EXCEPT !.deadlines = Row(args)] = old
        /\ [fired EXCEPT !.deadlines = EmptyBag] = fired
    <2>1. [fired EXCEPT !.deadlines = Row(args)] = [old EXCEPT !.deadlines = Row(args)]
      BY <1>2 DEF Rows
    <2>2. [old EXCEPT !.deadlines = Row(args)] = old
      BY <1>2, <1>3 DEF Rows
    <2>3. [fired EXCEPT !.deadlines = EmptyBag] = fired
      BY <1>2 DEF Rows
    <2> QED BY <2>1, <2>2, <2>3
  <1>7. [old EXCEPT !.deadlines = @ (-) Row(args)] = fired
    BY <1>3, <1>4
  <1>8. [fired EXCEPT !.deadlines = @ (+) Row(args)] = old
    BY <1>4, <1>5, <1>6
  <1> QED BY <1>3, <1>5, <1>6, <1>7, <1>8

(* The deadline row of a window that is open.                               *)
LEMMA FiredWindow ==
  ASSUME NEW old, RowInv(old), old.phase = "active", NEW args \in BagToSet(old.deadlines)
  PROVE  /\ args.unit = old.turns.turn /\ args.unit \in Units /\ args.unit # Deploy
         /\ args.seq = old.turns.clock[SideOf[args.unit]].seq /\ old.advances = EmptyBag
         /\ AfterExpire(old.turns, args.unit, args.seq) # {}
  <1>1. old.deadlines = Row(args)
    BY FiredRow
  <1>2. /\ old.turns.turn \in Units /\ old.advances = EmptyBag
        /\ old.deadlines = Row([unit |-> old.turns.turn,
                                seq |-> old.turns.clock[SideOf[old.turns.turn]].seq])
    BY <1>1, RowsDiffer DEF RowInv, Driven
  <1>3. args = [unit |-> old.turns.turn,
                seq |-> old.turns.clock[SideOf[old.turns.turn]].seq]
    BY <1>1, <1>2, RowsDiffer
  <1>4. args.unit = old.turns.turn /\ args.seq = old.turns.clock[SideOf[args.unit]].seq
        /\ args.unit # Deploy
    BY <1>2, <1>3, TacticsConstants
  <1>5. old.turns.clock[SideOf[args.unit]].open
    BY <1>2, <1>4, LiveRow, SidesOfUnits DEF InPlay
  <1>6. args.unit \in Units
    BY <1>2, <1>4
  <1>7. old.turns.turn = args.unit /\ old.turns.clock[SideOf[args.unit]].seq = args.seq
    BY <1>4
  <1>8. old.turns.turn = args.unit /\ args.unit \in Units
        /\ old.turns.clock[SideOf[args.unit]].open
        /\ old.turns.clock[SideOf[args.unit]].seq = args.seq
          => AfterExpire(old.turns, args.unit, args.seq) # {}
    BY ONLY ExpiryIsOfTheWindow
  <1>9. AfterExpire(old.turns, args.unit, args.seq) # {}
    BY ONLY <1>5, <1>6, <1>7, <1>8
  <1> QED BY <1>2, <1>4, <1>6, <1>9

(* A row fired before its time is armed again, and nothing else happens.    *)
LEMMA EarlyDeadlineIsVoid ==
  ASSUME NEW old, RowInv(old), Timed(old), ~old.due, NEW args \in BagToSet(old.deadlines),
         NEW r \in AfterDeadline([old EXCEPT !.deadlines = @ (-) Row(args)], args)
  PROVE  r = old
  <1> DEFINE fired == [old EXCEPT !.deadlines = EmptyBag]
  <1>1. /\ old.deadlines = Row(args) /\ [fired EXCEPT !.deadlines = @ (+) Row(args)] = old
        /\ r \in AfterDeadline(fired, args)
    <2>1. /\ old.deadlines = Row(args) /\ [old EXCEPT !.deadlines = @ (-) Row(args)] = fired
          /\ [fired EXCEPT !.deadlines = @ (+) Row(args)] = old
      BY FiredRow
    <2> QED BY <2>1
  <1>2. /\ fired.turns = old.turns /\ fired.kind = old.kind /\ fired.phase = old.phase
        /\ fired.due = old.due /\ fired.drifted = old.drifted
    BY UnscheduledRow DEF RowInv, RowOK
  <1> HIDE DEF fired
  <1>3. CASE old.phase = "deploying"
    <2>1. old.deadlines = Row(DeployRow)
      BY <1>3, DeployingRow
    <2>2. args = DeployRow /\ args.unit = Deploy
      <3>1. args = DeployRow
        BY <1>1, <2>1, RowsDiffer
      <3> QED BY <3>1 DEF DeployRow
    <2>3. r \in Premature(fired, DeployRow)
      BY <1>1, <1>2, <1>3, <2>2 DEF AfterDeadline, Timed
    <2> QED BY <1>1, <2>2, <2>3 DEF Premature
  <1>4. CASE old.phase = "active"
    <2>1. args.unit # Deploy /\ AfterExpire(old.turns, args.unit, args.seq) # {}
      BY <1>4, FiredWindow
    <2>2. r \in Premature(fired, args)
      BY <1>1, <1>2, <1>4, <2>1 DEF AfterDeadline, Timed
    <2> QED BY <1>1, <2>2 DEF Premature
  <1> QED BY <1>3, <1>4 DEF Timed

LEMMA FiredDeadlineStep ==
  ASSUME NEW old, RowInv(old), NEW args \in BagToSet(old.deadlines),
         NEW r \in AfterDeadline([old EXCEPT !.deadlines = @ (-) Row(args)], args)
  PROVE  RowStep(old, r)
  <1> DEFINE fired == [old EXCEPT !.deadlines = EmptyBag]
  <1>1. old \in Rows
    BY DEF RowInv, RowOK
  <1>2. /\ old.deadlines = Row(args) /\ r \in AfterDeadline(fired, args)
        /\ fired.deadlines = EmptyBag /\ fired.advances = old.advances
        /\ [fired EXCEPT !.deadlines = EmptyBag] = fired
    BY FiredRow
  <1>3. /\ fired.turns = old.turns /\ fired.kind = old.kind /\ fired.phase = old.phase
        /\ fired.anchor = old.anchor /\ fired.due = old.due /\ fired.drifted = old.drifted
        /\ fired.staged = old.staged /\ (Held(old) => Held(fired))
        /\ (Called(old) => Called(fired)) /\ fired.summary = old.summary
    BY <1>1, UnscheduledRow
  <1> HIDE DEF fired
  <1>4. CASE Timed(old) /\ ~old.due
    BY <1>4, EarlyDeadlineIsVoid, SameIsStep
  <1>5. CASE old.phase = "deploying" /\ (old.due \/ ~Timed(old))
    <2>1. Deploying(old) /\ old.deadlines = Row(DeployRow)
      BY <1>5, DeployingRow
    <2>2. args = DeployRow /\ args.unit = Deploy
      <3>1. args = DeployRow
        BY <1>2, <2>1, RowsDiffer
      <3> QED BY <3>1 DEF DeployRow
    <2>3. Deploying(fired) /\ old.kind \in {"wild", "pvp"}
      BY <1>1, <1>2, <1>3, <2>1, TacticsConstants DEF Deploying, Rows
    <2>4. CASE old.kind = "wild"
      <3>1. r = Closed(fired, "Deploying")
        BY <1>2, <1>3, <1>5, <2>2, <2>4 DEF AfterDeadline
      <3>2. Ends(fired, r)
        BY <2>3, <3>1, ClosedRow DEF Deploying
      <3> QED BY <1>3, <3>2, EndsIsStep DEF Ends
    <2>5. CASE old.kind = "pvp"
      <3>1. r \in DeployExpired(fired)
        BY <1>2, <1>3, <1>5, <2>2, <2>5 DEF AfterDeadline, Timed
      <3> QED BY <1>3, <1>5, <2>3, <3>1, DeployExpiredStep
    <2> QED BY <2>3, <2>4, <2>5
  <1>6. CASE old.phase = "active" /\ (old.due \/ ~Timed(old))
    <2>1. /\ args.unit # Deploy /\ old.advances = EmptyBag
          /\ AfterExpire(fired.turns, args.unit, args.seq) # {}
      BY <1>3, <1>6, FiredWindow
    <2>2. Called(fired) /\ Bare(fired)
      BY <1>2, <1>3, <1>6, <2>1, LiveRow DEF Bare
    <2>3. CASE old.drifted
      <3>1. r = Closed(fired, "Fallback")
        BY <1>2, <1>3, <1>6, <2>1, <2>3 DEF AfterDeadline
      <3>2. Ends(fired, r)
        BY <2>2, <3>1, ClosedRow DEF Called
      <3> QED BY <1>3, <3>2, EndsIsStep DEF Ends
    <2>4. CASE ~old.drifted
      <3>1. old.due
        BY <1>6, <2>4 DEF Timed
      <3>2. PICK next \in AfterExpire(fired.turns, args.unit, args.seq) :
              r = Stored(fired, next)
        BY <1>2, <1>3, <1>6, <2>1, <2>4, <3>1 DEF AfterDeadline
      <3> QED BY <1>3, <1>6, <2>2, <3>1, <3>2, ExpiryStep
    <2> QED BY <2>3, <2>4
  <1>7. CASE old.phase \notin {"deploying", "active"}
    <2>1. old.deadlines = EmptyBag
      BY <1>7 DEF RowInv, Driven
    <2> QED BY <2>1, OneRow
  <1> QED BY <1>4, <1>5, <1>6, <1>7

LEMMA LateAdvanceStep ==
  ASSUME NEW old, RowInv(old), NEW round \in Nat, round \notin BagToSet(old.advances),
         NEW r \in AfterAdvanceCall(old, round)
  PROVE  RowStep(old, r)
  <1>1. CASE old.phase # "active"
    BY <1>1, SameIsStep DEF AfterAdvanceCall
  <1>2. CASE old.phase = "active" /\ old.drifted
    BY <1>2, LiveRow, CloseStep DEF AfterAdvanceCall
  <1>3. CASE old.phase = "active" /\ ~old.drifted
    <2>1. AfterAdvance(old.turns, round) = {}
      <3>1. SUFFICES ASSUME old.turns.turn = "advancing", old.turns.round = round PROVE FALSE
        BY DEF AfterAdvance
      <3>2. old.advances = Row(round)
        BY <1>3, <3>1 DEF RowInv, Driven
      <3> QED BY <3>2, OneRow
    <2> QED BY <1>3, <2>1, SameIsStep DEF AfterAdvanceCall
  <1> QED BY <1>1, <1>2, <1>3

LEMMA FiredAdvanceStep ==
  ASSUME NEW old, RowInv(old), NEW round \in BagToSet(old.advances),
         NEW r \in AfterAdvanceCall([old EXCEPT !.advances = @ (-) Row(round)], round)
  PROVE  RowStep(old, r)
  <1> DEFINE fired == [old EXCEPT !.advances = EmptyBag]
  <1>1. BagToSet(EmptyBag) = {} /\ Row(round) (-) Row(round) = EmptyBag
    BY OneRow
  <1>2. old \in Rows
    BY DEF RowInv, RowOK
  <1>3. old.advances # EmptyBag
    BY <1>1
  <1>4. /\ old.phase = "active" /\ old.turns.turn = "advancing" /\ old.deadlines = EmptyBag
        /\ old.advances = Row(old.turns.round)
    BY <1>3 DEF RowInv, Driven
  <1>5. round = old.turns.round
    BY <1>4, OneRow
  <1>6. r \in AfterAdvanceCall(fired, round)
    BY <1>1, <1>4, <1>5
  <1>7. Called(old) /\ InPlay(old.turns) /\ old.anchor = "ongoing"
    BY <1>4, LiveRow
  <1>8. /\ fired.turns = old.turns /\ fired.kind = old.kind /\ fired.phase = old.phase
        /\ fired.drifted = old.drifted /\ fired.anchor = old.anchor /\ Called(fired)
    BY <1>2, <1>7, UnscheduledRow
  <1>9. Bare(fired)
    BY <1>2, <1>4 DEF Bare, Rows
  <1> HIDE DEF fired
  <1>10. CASE old.drifted
    <2>1. r = Closed(fired, "Fallback")
      BY <1>4, <1>6, <1>8, <1>10 DEF AfterAdvanceCall
    <2>2. Ends(fired, r)
      BY <1>7, <1>8, <2>1, ClosedRow DEF Called
    <2> QED BY <1>8, <2>2, EndsIsStep DEF Ends
  <1>11. CASE ~old.drifted
    <2>1. AfterAdvance(fired.turns, round) # {}
      BY <1>4, <1>5, <1>7, <1>8, ChainNeverRefuses DEF AfterAdvance, InPlay
    <2>2. PICK next \in AfterAdvance(fired.turns, round) : r = Stored(fired, next)
      BY <1>4, <1>6, <1>8, <1>11, <2>1 DEF AfterAdvanceCall
    <2> QED BY <1>4, <1>8, <1>9, <2>2, AdvanceStep
  <1> QED BY <1>10, <1>11

(* battle_gc finds a finished battle: an ongoing one has no collection.     *)
LEMMA CollectedStep ==
  ASSUME NEW old, RowInv(old), old.gcs > 0
  PROVE  /\ old.anchor \in Over
         /\ RowStep(old, [[old EXCEPT !.gcs = @ - 1] EXCEPT
                            !.kept = FALSE, !.turns = New(old.kind, {}), !.staged = Unlocked,
                            !.drifted = FALSE, !.deadlines = EmptyBag,
                            !.advances = EmptyBag, !.gcs = 0])
  <1> DEFINE r == [old EXCEPT !.kept = FALSE, !.turns = New(old.kind, {}),
                              !.staged = Unlocked, !.drifted = FALSE,
                              !.deadlines = EmptyBag, !.advances = EmptyBag, !.gcs = 0]
  <1>1. old \in Rows /\ old.kind \in Kinds /\ old.gcs = 1
    BY DEF RowInv, RowOK, Rows
  <1>2. old.phase = "finished" /\ old.anchor \in Over
    BY <1>1 DEF RowInv, RowOK, PhaseAgrees, Driven, Rows, Anchors
  <1>3. New(old.kind, {}) \in Turns /\ Unlocked \in [Sides -> SUBSET Units]
        /\ \A s \in Sides : New(old.kind, {}).clock[s].strikes = 0
    BY <1>1, NewNeedsNoUnits DEF Unlocked
  <1>4. [[old EXCEPT !.gcs = @ - 1] EXCEPT
           !.kept = FALSE, !.turns = New(old.kind, {}), !.staged = Unlocked,
           !.drifted = FALSE, !.deadlines = EmptyBag, !.advances = EmptyBag, !.gcs = 0] = r
    BY <1>1 DEF Rows
  <1>5. /\ r.kept = FALSE /\ r.turns = New(old.kind, {}) /\ r.staged = Unlocked
        /\ r.drifted = FALSE /\ r.deadlines = EmptyBag /\ r.advances = EmptyBag /\ r.gcs = 0
        /\ r.phase = old.phase /\ r.anchor = old.anchor /\ r.summary = old.summary
        /\ r.settled = old.settled /\ r.rated = old.rated /\ r.kind = old.kind
    BY <1>1 DEF Rows
  <1>6. r \in Rows
    <2>1. FALSE \in BOOLEAN /\ 0 \in 0..1
      OBVIOUS
    <2> QED BY <1>1, <1>3, <2>1 DEF Rows
  <1> HIDE DEF r
  <1>7. PhaseAgrees(r) /\ LocksAgree(r) /\ RecordsAgree(r) /\ Driven(r)
    BY <1>2, <1>5 DEF RowInv, RowOK, PhaseAgrees, LocksAgree, RecordsAgree, Driven, Unlocked
  <1>8. \A s \in Sides : old.turns.clock[s].strikes \in Nat
    BY <1>1 DEF Rows, Turns, Clock
  <1> QED BY <1>2, <1>3, <1>4, <1>5, <1>6, <1>7, <1>8
          DEF RowStep, RowInv, RowOK, StrikeIsDue, LockStands

-----------------------------------------------------------------------------
(* The actions.                                                             *)

LEMMA StartSteps ==
  ASSUME Inv, NEW p \in Players, NEW q \in Players,
         StartWildTactical(p) \/ StartPvpTactical(p, q)
  PROVE  battle' \in [Ids -> Rows] /\ Steps
  <1> DEFINE wild == Begun("wild", [A |-> p, B |-> Wild])
             pvp == Begun("pvp", [A |-> p, B |-> q])
  <1>1. /\ NextId \in Ids /\ battle[NextId] = NoBattle
        /\ RowInv(NoBattle) /\ NoBattle.phase = "none"
    <2>1. Unused # {}
      BY DEF StartWildTactical, StartPvpTactical
    <2> QED BY <2>1, NextIdUnused, NoBattleRow DEF Unused, NoBattle
  <1>2. "wild" \in Kinds /\ "pvp" \in Kinds
    BY TacticsConstants
  <1>3. /\ [A |-> p, B |-> Wild] \in [Sides -> Players \cup {Wild}]
        /\ [A |-> p, B |-> q] \in [Sides -> Players \cup {Wild}]
    BY DEF Sides
  <1>4. /\ Deploying(wild) /\ RowInv([wild EXCEPT !.deadlines = Row(DeployRow)])
        /\ RowInv([pvp EXCEPT !.deadlines = Row(DeployRow)])
    BY <1>2, <1>3, BegunRow
  <1>5. \A s \in Sides : NoBattle.turns.clock[s].strikes = 0
    BY <1>2, NewNeedsNoUnits DEF NoBattle
  <1>6. ASSUME NEW kind \in {"wild", "pvp"}, NEW side \in [Sides -> Players \cup {Wild}],
               Becomes(NextId, [Begun(kind, side) EXCEPT !.deadlines = Row(DeployRow)])
        PROVE  battle' \in [Ids -> Rows] /\ Steps
    <2> DEFINE r == [Begun(kind, side) EXCEPT !.deadlines = Row(DeployRow)]
    <2>1. r.turns = New(kind, {}) /\ r.phase = "deploying"
      BY DEF Begun, NoBattle
    <2>2. \A s \in Sides : r.turns.clock[s].strikes = 0
      BY <1>2, <2>1, NewNeedsNoUnits
    <2>3. RowInv(r)
      BY <1>2, BegunRow
    <2> HIDE DEF r
    <2>4. RowStep(NoBattle, r)
      BY <1>1, <1>5, <2>2, <2>3 DEF RowStep, StrikeIsDue, LockStands
    <2> QED BY <1>1, <1>6, <2>4, BecomesSteps DEF r
  <1>7. CASE \E picks \in SUBSET UnitsOf("A") \ {{}} :
               \E next \in Materialized(wild, picks \cup UnitsOf("B")) : Becomes(NextId, next)
    <2>1. PICK picks \in SUBSET UnitsOf("A") :
            \E next \in Materialized(wild, picks \cup UnitsOf("B")) : Becomes(NextId, next)
      BY <1>7
    <2>2. picks \cup UnitsOf("B") \in SUBSET Units
      BY DEF UnitsOf
    <2>3. \A next \in Materialized(wild, picks \cup UnitsOf("B")) : RowStep(NoBattle, next)
      BY <1>1, <1>4, <2>2, DeploymentStep
    <2> QED BY <1>1, <2>1, <2>3, BecomesSteps
  <1>8. CASE Becomes(NextId, [wild EXCEPT !.deadlines = Row(DeployRow)])
    BY <1>3, <1>6, <1>8
  <1>9. CASE StartPvpTactical(p, q)
    BY <1>3, <1>6, <1>9 DEF StartPvpTactical
  <1> QED BY <1>7, <1>8, <1>9 DEF StartWildTactical

LEMMA DeploySteps ==
  ASSUME Inv, NEW id \in Ids, NEW picks \in SUBSET Units,
         DeployWild(id, picks) \/ \E s \in Sides : StagePvp(id, s, picks)
  PROVE  battle' \in [Ids -> Rows] /\ Steps
  <1> DEFINE r == battle[id]
  <1>1. RowInv(r) /\ r.phase = "deploying" /\ r \in Rows
    BY DEF Inv, DeployWild, StagePvp, RowInv, RowOK
  <1>2. /\ Deploying(r) /\ r.deadlines = Row(DeployRow) /\ r.turns = New(r.kind, {})
        /\ r.staged \in [Sides -> SUBSET Units]
    BY <1>1, DeployingRow DEF Rows
  <1>3. \A s \in Sides : /\ r.staged[s] \subseteq UnitsOf(s)
                         /\ r.staged[s] # {} => r.kind = "pvp"
    BY <1>1 DEF RowInv, RowOK, LocksAgree
  <1> HIDE DEF r
  <1>4. CASE DeployWild(id, picks)
    <2>1. PICK next \in Materialized(r, picks \cup UnitsOf("B")) : Becomes(id, next)
      BY <1>4 DEF DeployWild, r
    <2>2. picks \cup UnitsOf("B") \in SUBSET Units /\ r.kind = "wild"
      BY <1>4 DEF DeployWild, UnitsOf, r
    <2>3. RowStep(r, next)
      BY <1>1, <1>2, <1>3, <2>2, DeploymentStep
    <2> QED BY <2>1, <2>3, BecomesSteps DEF r
  <1>5. ASSUME NEW s \in Sides, StagePvp(id, s, picks)
        PROVE  battle' \in [Ids -> Rows] /\ Steps
    <2> DEFINE locked == [r EXCEPT !.staged[s] = picks]
               t == Other(s)
    <2>1. /\ r.kind = "pvp" /\ r.staged[s] = {} /\ picks \in PicksOf(s) /\ t \in Sides /\ t # s
          /\ picks \subseteq UnitsOf(s) /\ UnitsOf(s) \cap UnitsOf(t) = {}
      BY <1>5, PicksAreUnits, SidesOfUnits DEF StagePvp, r
    <2>2. locked = [r EXCEPT !.staged = [r.staged EXCEPT ![s] = picks]]
      BY <1>1 DEF Rows
    <2>3. [r.staged EXCEPT ![s] = picks] \in [Sides -> SUBSET Units]
      BY <1>2
    <2> HIDE DEF locked
    <2>4. /\ locked \in Rows /\ locked.phase = r.phase /\ locked.anchor = r.anchor
          /\ locked.kept = r.kept /\ locked.gcs = r.gcs /\ locked.settled = r.settled
          /\ locked.rated = r.rated /\ locked.summary = r.summary
          /\ locked.advances = r.advances /\ locked.deadlines = r.deadlines
          /\ locked.turns = r.turns /\ locked.kind = r.kind
      BY <1>1, <2>2, <2>3 DEF Rows
    <2>5. locked.staged[s] = picks /\ locked.staged[t] = r.staged[t]
      BY <1>1, <1>2, <2>1, <2>2 DEF Rows
    <2>6. \A x \in Sides : x = s \/ x = t
      BY <2>1 DEF Sides
    <2>7. CASE Becomes(id, locked)
      <3>1. PhaseAgrees(locked) /\ RecordsAgree(locked) /\ Driven(locked)
        BY <1>1, <2>4 DEF RowInv, RowOK, PhaseAgrees, RecordsAgree, Driven
      <3>2. LocksAgree(locked)
        BY <1>1, <1>3, <2>1, <2>4, <2>5, <2>6 DEF LocksAgree
      <3>3. RowStep(r, locked)
        <4>1. \A x \in Sides : r.staged[x] # {} => locked.staged[x] = r.staged[x]
          BY <2>1, <2>5, <2>6
        <4>2. RowInv(locked)
          BY <2>4, <3>1, <3>2 DEF RowInv, RowOK
        <4> QED BY <1>1, <2>4, <4>1, <4>2, SameIsStep
      <3> QED BY <2>7, <3>3, BecomesSteps DEF r
    <2>8. CASE \E next \in Materialized(locked, picks \cup r.staged[t]) : Becomes(id, next)
      <3>1. PICK next \in Materialized(locked, picks \cup r.staged[t]) : Becomes(id, next)
        BY <2>8
      <3>2. Deploying(locked)
        BY <1>2, <2>4 DEF Deploying, Held
      <3>3. picks \cup r.staged[t] \in SUBSET Units
        BY <1>2, <2>1
      <3>4. \A x \in Sides : r.staged[x] # {}
                               => (picks \cup r.staged[t]) \cap UnitsOf(x) \subseteq r.staged[x]
        BY <2>1, <2>6
      <3>5. RowStep(r, next)
        BY <1>1, <3>2, <3>3, <3>4, DeploymentStep
      <3> QED BY <3>1, <3>5, BecomesSteps DEF r
    <2> QED BY <1>5, <2>7, <2>8 DEF StagePvp, r, locked
  <1> QED BY <1>4, <1>5

LEMMA CallSteps ==
  ASSUME Inv, NEW id \in Ids,
         \/ \E u \in Units : SubmitQueue(id, u) \/ CancelQueue(id, u)
         \/ \E s \in Sides : Forfeit_(id, s)
  PROVE  battle' \in [Ids -> Rows] /\ Steps
  <1> DEFINE r == battle[id]
  <1>1. RowInv(r) /\ r.phase = "active"
    BY DEF Inv, SubmitQueue, CancelQueue, Forfeit_, Loads
  <1>2. ASSUME NEW u \in Units, SubmitQueue(id, u) PROVE battle' \in [Ids -> Rows] /\ Steps
    <2>1. PICK next \in AfterSubmit(r.turns, u) :
            Becomes(id, Stored(IF next.clock[SideOf[u]] # r.turns.clock[SideOf[u]]
                               THEN [r EXCEPT !.deadlines = EmptyBag] ELSE r, next))
      BY <1>2 DEF SubmitQueue
    <2>2. r.turns.turn = u => r.turns.clock[SideOf[u]].seq < MaxSeq
      BY <1>2 DEF SubmitQueue
    <2> HIDE DEF r
    <2>3. RowStep(r, Stored(IF next.clock[SideOf[u]] # r.turns.clock[SideOf[u]]
                            THEN [r EXCEPT !.deadlines = EmptyBag] ELSE r, next))
      BY <1>1, <2>2, SubmitStep
    <2> QED BY <2>1, <2>3, BecomesSteps DEF r
  <1>3. ASSUME NEW u \in Units, CancelQueue(id, u) PROVE battle' \in [Ids -> Rows] /\ Steps
    BY <1>1, <1>3, CancelStep, BecomesSteps DEF CancelQueue
  <1>4. ASSUME NEW s \in Sides, Forfeit_(id, s) PROVE battle' \in [Ids -> Rows] /\ Steps
    <2>1. WinFor(Other(s)) \in Over
      BY DEF WinFor, Over, Decisive
    <2> QED BY <1>1, <1>4, <2>1, ConcludeStep, BecomesSteps DEF Forfeit_
  <1> QED BY <1>2, <1>3, <1>4

LEMMA DisconnectSteps ==
  ASSUME Inv, NEW p \in Players, Disconnect(p)
  PROVE  battle' \in [Ids -> Rows] /\ Steps
  <1>1. PICK id \in Ids, s \in Sides :
          LET r == battle[id]
          IN /\ r.anchor = "ongoing" /\ r.side[s] = p
             /\ IF r.phase = "deploying" THEN Becomes(id, Closed(r, "Deploying"))
                ELSE IF ~Loads(r) THEN Becomes(id, Closed(r, "Fallback"))
                ELSE \E next \in AfterConclude(r.turns, IF r.kind = "pvp" THEN WinFor(Other(s))
                                                        ELSE "fled") :
                       Becomes(id, Stored(r, next))
    BY DEF Disconnect
  <1> DEFINE r == battle[id]
             o == IF r.kind = "pvp" THEN WinFor(Other(s)) ELSE "fled"
  <1>2. RowInv(r) /\ r.anchor = "ongoing"
    BY <1>1 DEF Inv
  <1>3. CASE \E close : Becomes(id, Closed(r, close))
    BY <1>2, <1>3, CloseStep, BecomesSteps
  <1>4. CASE Loads(r) /\ \E next \in AfterConclude(r.turns, o) : Becomes(id, Stored(r, next))
    <2>1. o \in Over /\ r.phase = "active"
      BY <1>4 DEF WinFor, Over, Decisive, Loads
    <2> HIDE DEF o
    <2> QED BY <1>2, <1>4, <2>1, ConcludeStep, BecomesSteps
  <1> QED BY <1>1, <1>3, <1>4

LEMMA ScheduleSteps ==
  ASSUME Inv, NEW id \in Ids,
         FireDeadline(id) \/ FireAdvance(id) \/ LateDeadline(id) \/ LateAdvance(id) \/ BattleGc(id)
  PROVE  battle' \in [Ids -> Rows] /\ Steps
  <1> DEFINE old == battle[id]
  <1>1. RowInv(old)
    BY DEF Inv
  <1>2. CASE FireDeadline(id)
    BY <1>1, <1>2, FiredDeadlineStep, BecomesSteps DEF FireDeadline
  <1>3. CASE FireAdvance(id)
    BY <1>1, <1>3, FiredAdvanceStep, BecomesSteps DEF FireAdvance
  <1>4. CASE LateDeadline(id)
    <2>1. PICK args \in {DeployRow} \cup [unit : Units, seq : 1..MaxSeq] :
            /\ args \notin BagToSet(old.deadlines)
            /\ \E r \in AfterDeadline(old, args) : Becomes(id, r)
      BY <1>4 DEF LateDeadline
    <2>2. args \in DeadlineArgs /\ (args.unit = Deploy => args = DeployRow)
      BY TacticsConstants, ContractBounds DEF DeadlineArgs, DeployRow
    <2> QED BY <1>1, <2>1, <2>2, LateDeadlineStep, BecomesSteps
  <1>5. CASE LateAdvance(id)
    <2>1. PICK round \in 2..old.turns.round :
            /\ round \notin BagToSet(old.advances)
            /\ \E r \in AfterAdvanceCall(old, round) : Becomes(id, r)
      BY <1>5 DEF LateAdvance
    <2>2. round \in Nat
      BY <1>1 DEF RowInv, RowOK, Rows, Turns
    <2> QED BY <1>1, <2>1, <2>2, LateAdvanceStep, BecomesSteps
  <1>6. CASE BattleGc(id)
    <2>1. old.gcs > 0
      BY <1>6 DEF BattleGc
    <2>2. old.anchor # "ongoing"
      BY <1>1, <2>1, CollectedStep DEF Over, Decisive
    <2> QED BY <1>1, <1>6, <2>1, <2>2, CollectedStep, BecomesSteps DEF BattleGc
  <1> QED BY <1>2, <1>3, <1>4, <1>5, <1>6

LEMMA EnvironmentSteps ==
  ASSUME Inv, Publish \/ \E id \in Ids : TimeIsUp(id)
  PROVE  battle' \in [Ids -> Rows] /\ Steps
  <1>1. ASSUME NEW r, RowInv(r), NEW q, NEW x \in BOOLEAN,
               q = [r EXCEPT !.due = x] \/ q = [r EXCEPT !.drifted = x]
        PROVE  q \in Rows /\ RowStep(r, q)
    <2>1. r \in Rows
      BY <1>1 DEF RowInv, RowOK
    <2>2. /\ q \in Rows /\ q.phase = r.phase /\ q.anchor = r.anchor /\ q.kept = r.kept
          /\ q.gcs = r.gcs /\ q.settled = r.settled /\ q.rated = r.rated
          /\ q.summary = r.summary /\ q.advances = r.advances /\ q.deadlines = r.deadlines
          /\ q.turns = r.turns /\ q.kind = r.kind /\ q.staged = r.staged
      BY <1>1, <2>1 DEF Rows
    <2>3. PhaseAgrees(q) /\ LocksAgree(q) /\ RecordsAgree(q) /\ Driven(q)
      BY <1>1, <2>2 DEF RowInv, RowOK, PhaseAgrees, LocksAgree, RecordsAgree, Driven
    <2> QED BY <1>1, <2>2, <2>3, SameIsStep DEF RowInv, RowOK
  <1>2. ASSUME NEW id \in Ids, TimeIsUp(id) PROVE battle' \in [Ids -> Rows] /\ Steps
    <2> DEFINE q == [battle[id] EXCEPT !.due = TRUE]
    <2>1. battle' = [battle EXCEPT ![id] = q]
      BY <1>2 DEF TimeIsUp
    <2>2. q \in Rows /\ RowStep(battle[id], q)
      BY <1>1 DEF Inv
    <2> HIDE DEF q
    <2> QED BY <2>1, <2>2, SameIsStep DEF Inv, Steps
  <1>3. CASE Publish
    <2> DEFINE drifted(id) == battle[id].drifted \/ battle[id].anchor = "ongoing"
    <2>1. battle' = [id \in Ids |-> [battle[id] EXCEPT !.drifted = drifted(id)]]
      BY <1>3 DEF Publish
    <2>2. \A id \in Ids : drifted(id) \in BOOLEAN
      OBVIOUS
    <2> HIDE DEF drifted
    <2>3. \A id \in Ids : /\ [battle[id] EXCEPT !.drifted = drifted(id)] \in Rows
                          /\ RowStep(battle[id], [battle[id] EXCEPT !.drifted = drifted(id)])
      BY <1>1, <2>2 DEF Inv
    <2> QED BY <2>1, <2>3 DEF Steps
  <1> QED BY <1>2, <1>3

LEMMA NextSteps == Inv /\ [Next]_battle => Inv' /\ (UNCHANGED battle \/ Steps)
  <1> SUFFICES ASSUME Inv, [Next]_battle PROVE Inv' /\ (UNCHANGED battle \/ Steps)
    OBVIOUS
  <1>1. CASE UNCHANGED battle
    BY <1>1 DEF Inv
  <1>2. CASE Next
    <2>1. battle' \in [Ids -> Rows] /\ Steps
      <3>1. CASE \/ \E p \in Walkers : StartWildTactical(p)
                 \/ \E p, q \in Players : StartPvpTactical(p, q)
        BY <3>1, StartSteps, TacticsConstants
      <3>2. CASE \E p \in Players : Disconnect(p)
        BY <3>2, DisconnectSteps
      <3>3. CASE \E id \in Ids, picks \in SUBSET Units :
                   DeployWild(id, picks) \/ \E s \in Sides : StagePvp(id, s, picks)
        BY <3>3, DeploySteps
      <3>4. CASE \/ \E id \in Ids, u \in Units : SubmitQueue(id, u) \/ CancelQueue(id, u)
                 \/ \E id \in Ids, s \in Sides : Forfeit_(id, s)
        BY <3>4, CallSteps
      <3>5. CASE \E id \in Ids : FireDeadline(id) \/ FireAdvance(id) \/ LateDeadline(id)
                                   \/ LateAdvance(id) \/ BattleGc(id)
        BY <3>5, ScheduleSteps
      <3>6. CASE Publish \/ \E id \in Ids : TimeIsUp(id)
        BY <3>6, EnvironmentSteps
      <3> QED BY <1>2, <3>1, <3>2, <3>3, <3>4, <3>5, <3>6 DEF Next
    <2> QED BY <2>1 DEF Inv, Steps, RowStep
  <1> QED BY <1>1, <1>2

-----------------------------------------------------------------------------
(* The theorems.                                                            *)

LEMMA InvImpliesProperties == Inv => RowsWellFormed /\ SettledAsPlayed
  <1> SUFFICES ASSUME Inv, NEW id \in Ids
               PROVE  /\ TypeOK!(id) /\ OneDriver!(id)
                      /\ SettledOnce!(id) /\ RecordIsTrue!(id)
    BY DEF RowsWellFormed, TypeOK, OneDriver, SettledAsPlayed, SettledOnce, RecordIsTrue
  <1> DEFINE r == battle[id]
  <1>1. RowInv(r)
    BY DEF Inv
  <1> HIDE DEF r
  <1>2. r \in Rows
    BY <1>1 DEF RowInv, RowOK
  <1>3. /\ BagToSet(r.deadlines) \subseteq DeadlineArgs
        /\ BagToSet(r.advances) \subseteq Nat
    <2>1. /\ \A x : BagToSet(Row(x)) = {x}
          /\ BagToSet(EmptyBag) = {}
      BY OneRow
    <2> QED BY <1>2, <2>1 DEF Rows
  <1>4. TypeOK!(id)
    BY <1>2, <1>3 DEF r, Rows, Anchors, Over, DeadlineArgs
  <1>5. OneDriver!(id)
    BY <1>1 DEF r, RowInv, Driven
  <1>6. SettledOnce!(id) /\ RecordIsTrue!(id)
    BY <1>1 DEF r, RowInv, RowOK, RecordsAgree, Over
  <1> QED BY <1>4, <1>5, <1>6

(* Whatever the players, the clock and a new version do, in any order: the *)
(* rows of every battle agree with each other (Inv).                        *)
THEOREM BattleRowsAgree == Spec => []Inv
  <1>1. Init => Inv
    BY NoBattleRow DEF Init, Inv
  <1>2. Inv /\ [Next]_battle => Inv'
    BY NextSteps
  <1> QED BY <1>1, <1>2, PTL DEF Spec

(* An ongoing battle always has the one schedule row that carries it on,   *)
(* and a finished one nothing but its collection: no reducer loses a row,  *)
(* arms a second one, or finds a stale one.                                 *)
THEOREM EveryBattleHasItsDriver == Spec => []RowsWellFormed
  BY BattleRowsAgree, InvImpliesProperties, PTL

(* A battle is settled once, rated exactly if it was a ranked fight to a   *)
(* win, and recorded with the outcome its anchor had, though a flight, a   *)
(* forfeit, a disconnect, a deadline and the last blow may all end it.      *)
THEOREM BattlesAreSettledOnce == Spec => []SettledAsPlayed
  BY BattleRowsAgree, InvImpliesProperties, PTL

(* A lock stays as it was made until the deployment ends, the battle that  *)
(* starts then fields nothing of that side but what it locked, and no lock *)
(* outlives the deployment, however it ends.                                *)
THEOREM LocksAreKept == Spec => LockedIsFielded
  <1>1. Inv /\ [Next]_battle => [\A id \in Ids : LockStands(battle[id], battle'[id])]_battle
    BY NextSteps DEF Steps, RowStep
  <1> QED BY <1>1, BattleRowsAgree, PTL DEF Spec, LockedIsFielded

(* Where the time counts, late and early calls of a deadline are void.      *)
LEMMA UntimelyCallsAreVoid ==
  ASSUME Inv, NEW id \in Ids, Timed(battle[id]),
         Untimely(id)
  PROVE  battle'[id] = battle[id]
  <1> DEFINE old == battle[id]
  <1>1. RowInv(old) /\ battle \in [Ids -> Rows]
    BY DEF Inv
  <1>2. ASSUME Becomes(id, old) PROVE battle'[id] = old
    BY <1>1, <1>2 DEF Becomes
  <1>3. CASE LateDeadline(id)
    <2>1. PICK args \in {DeployRow} \cup [unit : Units, seq : 1..MaxSeq] :
            /\ args \notin BagToSet(old.deadlines)
            /\ \E r \in AfterDeadline(old, args) : Becomes(id, r)
      BY <1>3 DEF LateDeadline
    <2>2. args \in DeadlineArgs /\ (args.unit = Deploy => args = DeployRow)
      BY TacticsConstants, ContractBounds DEF DeadlineArgs, DeployRow
    <2>3. old.phase = "active" => ~old.drifted
      BY DEF Timed
    <2>4. \A r \in AfterDeadline(old, args) : r = old
      BY <1>1, <2>1, <2>2, <2>3, LateDeadlineIsVoid
    <2> QED BY <1>2, <2>1, <2>4
  <1>4. CASE FireDeadline(id) /\ ~old.due
    <2>1. PICK args \in BagToSet(old.deadlines) :
            \E r \in AfterDeadline([old EXCEPT !.deadlines = @ (-) Row(args)], args) :
              Becomes(id, r)
      BY <1>4 DEF FireDeadline
    <2>2. \A r \in AfterDeadline([old EXCEPT !.deadlines = @ (-) Row(args)], args) : r = old
      BY <1>1, <1>4, EarlyDeadlineIsVoid
    <2> QED BY <1>2, <2>1, <2>2
  <1> QED BY <1>3, <1>4 DEF Untimely

(* Only the open window's own deadline, when its time is over, counts a    *)
(* strike, and it counts it against the side the window is of; and the     *)
(* call of a deadline that is gone or not yet over does nothing where the  *)
(* time counts: it ends no wild battle, forfeits no other, fills no field.  *)
THEOREM StrikesAreEarned == Spec => StrikesAreDue
  <1>1. Inv /\ [Next]_battle =>
          [\A id \in Ids :
             /\ StrikeIsDue(battle[id], battle'[id])
             /\ Timed(battle[id]) /\ Untimely(id) => battle'[id] = battle[id]]_battle
    BY NextSteps, UntimelyCallsAreVoid DEF Steps, RowStep
  <1> QED BY <1>1, BattleRowsAgree, PTL DEF Spec, StrikesAreDue
=============================================================================
