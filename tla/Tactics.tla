------------------------------- MODULE Tactics -------------------------------
(***************************************************************************)
(* The server around the turn machine: the rows of a tactical battle from  *)
(* its start to their sweep, and the three kinds of schedule rows that     *)
(* drive it (deadlines of deployments and windows, the continuation at a   *)
(* round's end, the collection a day after).                               *)
(*                                                                         *)
(* Each action is one reducer.  What a call of the turn machine makes of   *)
(* a battle is any result TurnContract allows.  A schedule row is consumed *)
(* when it is fired; besides, calls of rows fired or deleted earlier may   *)
(* arrive (Late...), and rows may be fired ahead of their time, since the  *)
(* reducers provide for both.                                              *)
(***************************************************************************)
EXTENDS TurnContract, Bags

CONSTANTS
  Players,
  Walkers,     \* the players who meet wild monsters
  Ids,         \* battle ids
  Format,      \* how many monsters a PvP side fields
  MaxSeq       \* bound: a live turn is taken only below this window_seq

Wild == "wild"        \* WILD_IDENTITY
Deploy == "deploy"    \* DEPLOY_WINDOW_UNIT

ASSUME TacticsConstants ==
  /\ IsFiniteSet(Players) /\ Wild \notin Players /\ Walkers \subseteq Players
  /\ Ids \subseteq Nat /\ IsFiniteSet(Ids)
  /\ {Format, MaxSeq} \subseteq Nat \ {0} /\ MaxSeq < SeqWrap
  /\ Deploy \notin Units /\ Kinds = {"wild", "pvp"}

\* One record per battle id.  deadlines and advances are bags of the stored
\* rows' arguments; settled and rated count (history).
VARIABLE battle

Nobody == [s \in Sides |-> Wild]
Unlocked == [s \in Sides |-> {}]
NoBattle ==
  [anchor |-> "none",          \* battle.state.outcome; "none" without a row
   phase |-> "none",           \* battle_tactical.phase; "none" without a row
   kind |-> "wild", side |-> Nobody,
   staged |-> Unlocked,        \* battle_deploy: the locked picks, {} while unlocked
   turns |-> New("wild", {}),  \* what load() composes
   kept |-> FALSE,             \* the rows load() needs are still stored
   drifted |-> FALSE,          \* the content it was written under is gone
   due |-> FALSE,              \* the time of its open window or deployment is over
   deadlines |-> EmptyBag, advances |-> EmptyBag, gcs |-> 0,
   summary |-> "none",         \* battle_summary.outcome
   settled |-> 0, rated |-> 0]

Init == battle = [id \in Ids |-> NoBattle]

UnitsOf(s) == {u \in Units : SideOf[u] = s}
Decisive == {"sideA", "sideB"}
Row(x) == SetToBag({x})
Unused == {id \in Ids : battle[id] = NoBattle}
NextId == CHOOSE id \in Unused : \A i \in Unused : id <= i

InOngoingBattle(p) ==
  \E id \in Ids : battle[id].anchor = "ongoing"
                  /\ \E s \in Sides : battle[id].side[s] = p

-----------------------------------------------------------------------------
(* The two funnels every handler goes through.                             *)

(* finish: the end of a battle whose anchor holds the outcome.  Its units  *)
(* and clocks stay until they are collected, but nothing reads them as a   *)
(* battle again.                                                            *)
Finished_MachineOutcome(r, close) ==
  IF r.phase = "finished" THEN r
  ELSE [r EXCEPT
          !.phase = "finished", !.staged = Unlocked, !.due = FALSE,
          !.deadlines = EmptyBag, !.advances = EmptyBag,
          !.turns = New(r.kind, {}),
          !.gcs = @ + 1, !.summary = r.turns.outcome, !.settled = @ + 1]

Finished(r, close) ==
  IF r.phase = "finished" THEN r
  ELSE [r EXCEPT
          !.phase = "finished", !.staged = Unlocked, !.due = FALSE,
          !.deadlines = EmptyBag, !.advances = EmptyBag,
          !.turns = New(r.kind, {}),
          !.gcs = @ + 1, !.summary = r.anchor, !.settled = @ + 1,
          !.rated = IF close = "Settled" /\ r.kind = "pvp" /\ r.anchor \in Decisive
                    THEN @ + 1 ELSE @]

(* close_without_hp and fallback_close.                                     *)
Closed(r, close) ==
  Finished([r EXCEPT !.anchor = IF @ = "ongoing" THEN "fled" ELSE @], close)

Opened(prev, next) ==
  /\ next.turn \in Units
  /\ next.clock[SideOf[next.turn]].seq # prev.clock[SideOf[next.turn]].seq

(* An advance is armed when the step itself reached the round's end.        *)
Crossed_Always(prev, next) == next.turn = "advancing"
Crossed(prev, next) ==
  next.turn = "advancing" /\ (prev.turn # "advancing" \/ next.round # prev.round)

(* store: the battle after one call of the turn machine.                    *)
Stored(r, next) ==
  IF next.outcome # "ongoing"
  THEN Finished([r EXCEPT !.turns = next, !.anchor = next.outcome], "Settled")
  ELSE LET prev == r.turns
           u == next.turn
       IN [r EXCEPT
             !.turns = next,
             !.summary = "ongoing",
             !.due = IF Opened(prev, next) THEN FALSE ELSE @,
             !.deadlines = IF Opened(prev, next)
                           THEN @ (+) Row([unit |-> u, seq |-> next.clock[SideOf[u]].seq])
                           ELSE @,
             !.advances = IF Crossed(prev, next) THEN @ (+) Row(next.round) ELSE @]

(* materialize: the field is set up and the battle started.  Content that  *)
(* went away may make it refuse.                                            *)
DeployRow == [unit |-> Deploy, seq |-> 0]
Materialized(r, field) ==
  LET b == New(r.kind, field)
      deployed == [r EXCEPT !.phase = "active", !.staged = Unlocked, !.turns = b,
                            !.deadlines = @ (-) Row(DeployRow)]
  IN {Stored(deployed, next) : next \in AfterStart(b)}

(* sweep_prior_terminals and sweep_swept_anchor: the settlement of one     *)
(* battle takes its players' earlier battles with it.                      *)
Swept(old) ==
  [old EXCEPT !.anchor = "none", !.phase = "none", !.kept = FALSE, !.staged = Unlocked,
              !.turns = New(old.kind, {}), !.drifted = FALSE,
              !.deadlines = EmptyBag, !.advances = EmptyBag, !.gcs = 0,
              !.summary = IF @ = "ongoing" THEN old.anchor ELSE @]

SweptBy(id, r, i) ==
  /\ i # id /\ battle[i].anchor \in Decisive \cup {"fled"}
  /\ \/ battle[i].side["A"] = r.side["A"]
     \/ r.kind = "pvp" /\ battle[i].side["B"] = r.side["B"]

Becomes(id, r) ==
  LET changed == [battle EXCEPT ![id] = r]
  IN battle' = IF r.settled = battle[id].settled THEN changed
               ELSE [i \in Ids |-> IF SweptBy(id, r, i) THEN Swept(changed[i]) ELSE changed[i]]

-----------------------------------------------------------------------------
(* Starts and deployment.                                                  *)

Begun(kind, side) ==
  [NoBattle EXCEPT !.anchor = "ongoing", !.phase = "deploying", !.kind = kind,
                   !.side = side, !.turns = New(kind, {}), !.kept = TRUE]

\* A lone wild is met at once; a pack leaves time to deploy.
StartWildTactical(p) ==
  /\ Unused # {} /\ ~InOngoingBattle(p)
  /\ LET r == Begun("wild", [A |-> p, B |-> Wild])
     IN \/ \E picks \in SUBSET UnitsOf("A") \ {{}} :
             \E next \in Materialized(r, picks \cup UnitsOf("B")) : Becomes(NextId, next)
        \/ Becomes(NextId, [r EXCEPT !.deadlines = Row(DeployRow)])

StartPvpTactical(p, q) ==
  /\ Unused # {} /\ p # q /\ ~InOngoingBattle(p) /\ ~InOngoingBattle(q)
  /\ Becomes(NextId, [Begun("pvp", [A |-> p, B |-> q]) EXCEPT !.deadlines = Row(DeployRow)])

\* deploy_units in a wild battle.
DeployWild(id, picks) ==
  /\ battle[id].anchor = "ongoing" /\ battle[id].phase = "deploying"
  /\ battle[id].kind = "wild" /\ picks # {} /\ picks \subseteq UnitsOf("A")
  /\ \E next \in Materialized(battle[id], picks \cup UnitsOf("B")) : Becomes(id, next)

PicksOf(s) == {picks \in SUBSET UnitsOf(s) : Cardinality(picks) = Format}

\* stage_pvp: the second lock reveals both.  A refused reveal undoes the lock.
StagePvp(id, s, picks) ==
  LET r == battle[id]
      locked == [r EXCEPT !.staged[s] = picks]
  IN /\ r.anchor = "ongoing" /\ r.phase = "deploying" /\ r.kind = "pvp"
     /\ r.staged[s] = {} /\ picks \in PicksOf(s)
     /\ IF r.staged[Other(s)] = {}
        THEN Becomes(id, locked)
        ELSE \E next \in Materialized(locked, picks \cup r.staged[Other(s)]) : Becomes(id, next)

-----------------------------------------------------------------------------
(* The players' calls.                                                     *)

\* The guards of a call: a live battle that load() can compose.
Loads(r) == r.anchor = "ongoing" /\ r.phase = "active" /\ ~r.drifted

SubmitQueue(id, u) ==
  LET r == battle[id]
      s == SideOf[u]
  IN /\ Loads(r) /\ (r.turns.turn = u => r.turns.clock[s].seq < MaxSeq)
     /\ \E next \in AfterSubmit(r.turns, u) :
          Becomes(id, Stored(IF next.clock[s] # r.turns.clock[s]
                             THEN [r EXCEPT !.deadlines = EmptyBag] ELSE r, next))

CancelQueue(id, u) ==
  /\ Loads(battle[id])
  /\ \E next \in AfterCancel(battle[id].turns, u) : Becomes(id, Stored(battle[id], next))

Forfeit_(id, s) ==
  /\ Loads(battle[id]) /\ battle[id].kind = "pvp"
  /\ \E next \in AfterConclude(battle[id].turns, WinFor(Other(s))) :
       Becomes(id, Stored(battle[id], next))

(* resolve_tactical_on_disconnect; the player has one battle at most.       *)
Disconnect(p) ==
  \E id \in Ids, s \in Sides :
    LET r == battle[id]
    IN /\ r.anchor = "ongoing" /\ r.side[s] = p
       /\ IF r.phase = "deploying" THEN Becomes(id, Closed(r, "Deploying"))
          ELSE IF ~Loads(r) THEN Becomes(id, Closed(r, "Fallback"))
          ELSE \E next \in AfterConclude(r.turns, IF r.kind = "pvp" THEN WinFor(Other(s))
                                                  ELSE "fled") :
                 Becomes(id, Stored(r, next))

-----------------------------------------------------------------------------
(* The scheduled reducers, as what a call with these arguments makes of a  *)
(* battle (the row that fired is no longer in it).                         *)

(* expire_pvp_deploy: a locked side fields its picks, the other is filled  *)
(* from what it has standing, and with nothing to field the battle is off. *)
(* Who has fainted is left open.                                            *)
FieldsAfterExpiry_Refilled(r) ==
  {a \cup b : a \in PicksOf("A"), b \in PicksOf("B")}

FieldsAfterExpiry(r) ==
  LET PicksFor(s) == IF r.staged[s] # {} THEN {r.staged[s]} ELSE PicksOf(s)
  IN {a \cup b : a \in PicksFor("A"), b \in PicksFor("B")}

DeployExpired(r) ==
  (UNION {Materialized(r, field) : field \in FieldsAfterExpiry(r)})
    \cup {Closed(r, "Deploying") : s \in {x \in Sides : r.staged[x] = {}}}
    \cup (IF r.drifted THEN {Closed(r, "Fallback")} ELSE {})

(* What a fire before its time does: the row is armed again.               *)
Premature_NotRearmed(r, args) == {r}
Premature_TakenAsDue(r, args) ==
  {Stored([r EXCEPT !.deadlines = EmptyBag], next) :
     next \in AfterExpire(r.turns, args.unit, args.seq)}
Premature(r, args) == {[r EXCEPT !.deadlines = @ (+) Row(args)]}

(* tactical_deadline_fire.                                                  *)
AfterDeadline(r, args) ==
  CASE r.phase \notin {"deploying", "active"} -> {r}
    [] r.phase = "deploying" /\ args.unit # Deploy -> {r}
    [] r.phase = "deploying" /\ args.unit = Deploy /\ r.kind = "wild" ->
         {Closed(r, "Deploying")}
    [] r.phase = "deploying" /\ args.unit = Deploy /\ r.kind = "pvp" ->
         IF r.due THEN DeployExpired(r)
         ELSE Premature(r, DeployRow)
    [] r.phase = "active" /\ args.unit = Deploy -> {r}
    [] r.phase = "active" /\ args.unit # Deploy /\ r.drifted -> {Closed(r, "Fallback")}
    [] r.phase = "active" /\ args.unit # Deploy /\ ~r.drifted ->
         LET after == AfterExpire(r.turns, args.unit, args.seq)
         IN IF after = {} THEN {r}
            ELSE IF ~r.due THEN Premature(r, args)
            ELSE {Stored([r EXCEPT !.deadlines = EmptyBag], next) : next \in after}

(* tactical_advance.                                                        *)
AfterAdvanceCall(r, round) ==
  IF r.phase # "active" THEN {r}
  ELSE IF r.drifted THEN {Closed(r, "Fallback")}
  ELSE LET after == AfterAdvance(r.turns, round)
       IN IF after = {} THEN {r} ELSE {Stored(r, next) : next \in after}

FireDeadline(id) ==
  \E args \in BagToSet(battle[id].deadlines) :
    \E r \in AfterDeadline([battle[id] EXCEPT !.deadlines = @ (-) Row(args)], args) :
      Becomes(id, r)

FireAdvance(id) ==
  \E round \in BagToSet(battle[id].advances) :
    \E r \in AfterAdvanceCall([battle[id] EXCEPT !.advances = @ (-) Row(round)], round) :
      Becomes(id, r)

\* The call of a row that is gone: the deployment or a window of the past.
LateDeadline(id) ==
  \E args \in {DeployRow} \cup [unit : Units, seq : 1..MaxSeq] :
    /\ battle[id].phase # "none" /\ args \notin BagToSet(battle[id].deadlines)
    /\ args.unit # Deploy => args.seq <= battle[id].turns.clock[SideOf[args.unit]].seq
    /\ \E r \in AfterDeadline(battle[id], args) : Becomes(id, r)

LateAdvance(id) ==
  \E round \in 2..battle[id].turns.round :
    /\ round \notin BagToSet(battle[id].advances)
    /\ battle[id].phase # "none"
    /\ \E r \in AfterAdvanceCall(battle[id], round) : Becomes(id, r)

(* battle_gc: the rows go, the battle's record stays.                       *)
BattleGc(id) ==
  LET r == battle[id]
      rest == [r EXCEPT !.gcs = @ - 1]
  IN /\ r.gcs > 0
     /\ IF r.phase # "finished" /\ r.anchor = "ongoing"
        THEN Becomes(id, rest)
        ELSE Becomes(id, [rest EXCEPT !.kept = FALSE, !.turns = New(r.kind, {}),
                                      !.staged = Unlocked, !.drifted = FALSE,
                                      !.deadlines = EmptyBag, !.advances = EmptyBag,
                                      !.gcs = 0])

-----------------------------------------------------------------------------
(* The environment.                                                        *)

TimeIsUp(id) ==
  /\ battle[id].anchor = "ongoing" /\ ~battle[id].due
  /\ battle[id].deadlines # EmptyBag
  /\ battle' = [battle EXCEPT ![id].due = TRUE]

\* A new version of the module is published with other content.
Publish ==
  /\ \E id \in Ids : battle[id].anchor = "ongoing"
  /\ battle' = [id \in Ids |->
       [battle[id] EXCEPT !.drifted = @ \/ battle[id].anchor = "ongoing"]]

Next ==
  \/ \E p \in Walkers : StartWildTactical(p)
  \/ \E p \in Players : Disconnect(p)
  \/ \E p, q \in Players : StartPvpTactical(p, q)
  \/ \E id \in Ids, picks \in SUBSET Units :
       DeployWild(id, picks) \/ \E s \in Sides : StagePvp(id, s, picks)
  \/ \E id \in Ids, u \in Units : SubmitQueue(id, u) \/ CancelQueue(id, u)
  \/ \E id \in Ids, s \in Sides : Forfeit_(id, s)
  \/ \E id \in Ids : FireDeadline(id) \/ FireAdvance(id) \/ LateDeadline(id)
                     \/ LateAdvance(id) \/ BattleGc(id) \/ TimeIsUp(id)
  \/ Publish

Spec == Init /\ [][Next]_battle

(* Time passes and the scheduler fires what it holds.                      *)
Clockwork == \E id \in Ids : TimeIsUp(id) \/ FireDeadline(id) \/ FireAdvance(id) \/ BattleGc(id)
FairSpec == Spec /\ WF_battle(Clockwork)

-----------------------------------------------------------------------------
(* Properties.                                                             *)

Ongoing == {id \in Ids : battle[id].anchor = "ongoing"}

TypeOK ==
  \A id \in Ids :
    LET r == battle[id] IN
    /\ r.anchor \in {"none", "ongoing", "fled"} \cup Decisive
    /\ r.phase \in {"none", "deploying", "active", "finished"}
    /\ r.kind \in Kinds /\ r.side \in [Sides -> Players \cup {Wild}]
    /\ r.staged \in [Sides -> SUBSET Units] /\ r.turns \in Turns
    /\ {r.kept, r.drifted, r.due} \subseteq BOOLEAN
    /\ BagToSet(r.deadlines) \subseteq [unit : Units \cup {Deploy}, seq : 0..SeqWrap]
    /\ BagToSet(r.advances) \subseteq Nat
    /\ r.gcs \in 0..1 /\ {r.settled, r.rated} \subseteq 0..1
    /\ r.summary \in {"none", "ongoing", "fled"} \cup Decisive

(* An ongoing battle has exactly the schedule row that will carry it on:   *)
(* the deployment's, the open window's, or the next round's.  A finished   *)
(* one has only its collection left.                                       *)
OneDriver ==
  \A id \in Ids :
    LET r == battle[id]
        turn == r.turns.turn
    IN CASE r.phase = "deploying" ->
              r.deadlines = Row(DeployRow) /\ r.advances = EmptyBag /\ r.gcs = 0
         [] r.phase = "active" /\ turn = "advancing" ->
              r.deadlines = EmptyBag /\ r.advances = Row(r.turns.round) /\ r.gcs = 0
         [] r.phase = "active" /\ turn # "advancing" ->
              /\ turn \in Units /\ r.advances = EmptyBag /\ r.gcs = 0
              /\ r.deadlines = Row([unit |-> turn, seq |-> r.turns.clock[SideOf[turn]].seq])
         [] OTHER ->
              /\ r.deadlines = EmptyBag /\ r.advances = EmptyBag
              /\ r.gcs = IF r.kept THEN 1 ELSE 0

(* The rows of a battle are whole, and one schedule row drives it.         *)
RowsWellFormed == TypeOK /\ OneDriver

(* Every battle is settled once, when its anchor is decided, and a ladder  *)
(* rating is applied exactly for a PvP battle that was fought to a win.    *)
SettledOnce ==
  \A id \in Ids :
    LET r == battle[id] IN
    /\ r.settled = IF r.summary \in Decisive \cup {"fled"} THEN 1 ELSE 0
    /\ r.rated = IF r.kind = "pvp" /\ r.summary \in Decisive THEN 1 ELSE 0

(* The outcome on record agrees with the battle's, and outlives it.        *)
RecordIsTrue ==
  \A id \in Ids :
    LET r == battle[id] IN
    /\ r.anchor \in Decisive \cup {"fled"} => r.summary = r.anchor
    /\ r.anchor = "none" => r.summary # "ongoing"

(* A battle is settled once and recorded as it was played, although a      *)
(* flight, a forfeit, a disconnect and the last blow may all end it.       *)
SettledAsPlayed == SettledOnce /\ RecordIsTrue

(* A lock is final: while the deployment lasts it stays as it was made,    *)
(* when the battle starts nothing else of that side is on the field, and   *)
(* it goes with the deployment, however that ends: by the other's lock, by *)
(* its deadline, or by a disconnect.                                       *)
LockStands(old, new) ==
  \A s \in Sides : old.phase = "deploying" /\ old.staged[s] # {} =>
    /\ new.staged[s] = IF new.phase = "deploying" THEN old.staged[s] ELSE {}
    /\ new.phase = "active" => new.turns.alive \cap UnitsOf(s) \subseteq old.staged[s]

LockedIsFielded == [][\A id \in Ids : LockStands(battle[id], battle'[id])]_battle

\* Where only the time of a window may count.  Two endings are not timed: a
\* wild deployment is closed by whichever call of its row comes, and a battle
\* whose content is gone by any deadline's.
Timed(r) == \/ r.phase = "deploying" /\ r.kind = "pvp"
            \/ r.phase = "active" /\ ~r.drifted

(* The clock hits nobody early.  A strike needs the open window's own time *)
(* to be over and is its owner's.  And where the time counts, the call of  *)
(* a deadline that is gone or not yet over leaves the battle as it is:     *)
(* it does not end a wild battle, forfeit a PvP battle by the last strike, *)
(* or fill a deployment.                                                   *)
StrikeIsDue(old, new) ==
  \A s \in Sides : new.turns.clock[s].strikes > old.turns.clock[s].strikes =>
    old.due /\ old.turns.turn \in Units /\ SideOf[old.turns.turn] = s

Untimely(id) == LateDeadline(id) \/ (FireDeadline(id) /\ ~battle[id].due)

StrikesAreDue ==
  [][\A id \in Ids : /\ StrikeIsDue(battle[id], battle'[id])
                     /\ Timed(battle[id]) /\ Untimely(id) => battle'[id] = battle[id]]_battle

(* Every battle ends, and what it left behind is collected.                *)
BattlesEnd ==
  /\ \A id \in Ids : battle[id].anchor = "ongoing" ~> battle[id].anchor # "ongoing"
  /\ \A id \in Ids : battle[id].kept ~> ~battle[id].kept
=============================================================================
