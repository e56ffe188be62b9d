---------------------------- MODULE QuestsProofs ----------------------------
(***************************************************************************)
(* Proofs about Quests, for any players, places and contents whose gifts   *)
(* can be told apart: conversations and saves stay whole, nothing is paid  *)
(* twice, a completion looks like nothing else, and an NPC waits for whom  *)
(* it talks to.                                                            *)
(***************************************************************************)
EXTENDS Quests, WellFoundedInduction, TLAPS

(* What effects name.                                                       *)
Names == {e[2] : e \in UNION {Range(s.then) : s \in UNION {Scripts(c) : c \in Range(Builds)}}}

(* A `player_quest` row, and the state a script works on.                   *)
Row == [quest : Names, step : Nat]
State == [flags : SUBSET Names, done : SUBSET Names, active : SUBSET Names]

(* What TypeOK leaves open of the rows.                                     *)
SavedTypes ==
  /\ \A p \in DOMAIN conv : DOMAIN conv[p] = {"npc", "node"}
  /\ \A p \in DOMAIN told : told[p] \in [flags : SUBSET Names, done : SUBSET Names]
  /\ quests \in [Identities -> Seq(Row)]

(* Only content that passes the gate runs.                                  *)
ContentIsValid == build \in DOMAIN Builds /\ ValidNpcContent(Builds[build])

(* A flag that shuts every script that grants x.                            *)
Shuts(f, x) ==
  f \in GatesOf(x) /\ GiversOf(x) # {} /\ \A s \in GiversOf(x) : <<"NotFlag", f>> \in s.if

(* What was paid is on record: the quest is done, or the gift is shut.      *)
PaymentsAreRecorded ==
  \A p \in Identities : \A x \in Prizes : ~Reopened(x) /\ paid[p][x] # 0 =>
    /\ paid[p][x] = 1 /\ p \in DOMAIN told
    /\ IF GiversOf(x) = {} THEN x \in told[p].done ELSE \E f \in told[p].flags : Shuts(f, x)

(* The inductive invariant.                                                 *)
Inv == QuestsWellFormed /\ SavedTypes /\ ContentIsValid /\ PaymentsAreRecorded

-----------------------------------------------------------------------------
(* Recursion along the steps of a function: it has a result, and whatever   *)
(* each step keeps the result has.                                          *)
Runs(f, n, x, step) == f[0] = x /\ \A i \in 1..n : f[i] = step[i][f[i - 1]]

LEMMA Iterates ==
  ASSUME NEW n \in Nat, NEW U, NEW step \in [1..n -> [U -> U]], NEW x \in U
  PROVE  \E f \in [0..n -> U] : Runs(f, n, x, step)
  <1> DEFINE Bad == {k \in 0..n : \A f \in [0..k -> U] : ~Runs(f, k, x, step)}
  <1>1. SUFFICES ASSUME Bad # {} PROVE FALSE
    <2>1. n \in 0..n
      OBVIOUS
    <2> QED BY <2>1
  <1>2. PICK k \in Bad : \A l \in Bad : <<l, k>> \notin OpToRel(<, Nat)
    <2>1. Bad \subseteq Nat
      OBVIOUS
    <2> HIDE DEF Bad
    <2> QED BY <1>1, <2>1, NatLessThanWellFounded, WFMin
  <1>3. k \in 0..n /\ \A l \in 0..n : l < k => \E f \in [0..l -> U] : Runs(f, l, x, step)
    <2>1. \A l \in Bad : l \in Nat /\ k \in Nat
      OBVIOUS
    <2>2. \A l \in Bad : ~(l < k)
      <3> HIDE DEF Bad
      <3> QED BY <1>2, <2>1 DEF OpToRel
    <2> QED BY <2>2
  <1>4. CASE k = 0
    <2>1. [i \in 0..0 |-> x] \in [0..0 -> U] /\ Runs([i \in 0..0 |-> x], 0, x, step)
      BY DEF Runs
    <2> QED BY <1>4, <1>2, <2>1
  <1>5. CASE k # 0
    <2>1. k \in 1..n /\ k - 1 \in 0..n /\ k - 1 < k
      BY <1>3, <1>5
    <2>2. PICK f \in [0..(k - 1) -> U] : Runs(f, k - 1, x, step)
      BY <2>1, <1>3
    <2>3. f[k - 1] \in U
      BY <2>1
    <2>4. step[k][f[k - 1]] \in U
      BY <2>1, <2>3
    <2> DEFINE g == [i \in 0..k |-> IF i = k THEN step[k][f[k - 1]] ELSE f[i]]
    <2>5. g \in [0..k -> U]
      BY <2>1, <2>4
    <2>6. Runs(g, k, x, step)
      BY <2>1, <2>2 DEF Runs
    <2> QED BY <1>2, <2>5, <2>6
  <1> QED BY <1>4, <1>5

LEMMA StageByStage ==
  ASSUME NEW n \in Nat, NEW S, NEW f, f[0] \in S[0],
         \A i \in 1..n : f[i - 1] \in S[i - 1] => f[i] \in S[i]
  PROVE  f[n] \in S[n]
  <1> DEFINE Bad == {i \in 0..n : f[i] \notin S[i]}
  <1>1. SUFFICES ASSUME Bad # {} PROVE FALSE
    <2>1. n \in 0..n
      OBVIOUS
    <2> QED BY <2>1
  <1>2. PICK k \in Bad : \A l \in Bad : <<l, k>> \notin OpToRel(<, Nat)
    <2>1. Bad \subseteq Nat
      OBVIOUS
    <2> HIDE DEF Bad
    <2> QED BY <1>1, <2>1, NatLessThanWellFounded, WFMin
  <1>3. k \in Nat /\ \A l \in Bad : ~(l < k)
    <2>1. Bad \subseteq Nat
      OBVIOUS
    <2> HIDE DEF Bad
    <2> QED BY <1>2, <2>1 DEF OpToRel
  <1>4. k \in 1..n /\ k - 1 \in 0..n
    <2>1. k \in 0..n /\ k # 0
      BY <1>2
    <2> QED BY <2>1
  <1>5. f[k - 1] \in S[k - 1]
    BY <1>3, <1>4
  <1> QED BY <1>2, <1>4, <1>5

-----------------------------------------------------------------------------
(* What the effects of a script do to a dialogue's state.                   *)
Script(effects) == effects \in Seq(Range(effects)) /\ \A e \in Range(effects) : e[2] \in Names

Sets(effects, i, f) == \E j \in 1..i : effects[j][1] = "SetFlag" /\ effects[j][2] = f
Spares(effects, f) == \A e \in Range(effects) : ~(e[1] = "ClearFlag" /\ e[2] = f)

LEMMA EffectsApply ==
  ASSUME NEW effects, Script(effects), NEW s \in State
  PROVE  LET t == ApplyEffects(effects, s)
         IN /\ t \in State /\ t.done = s.done
            /\ \A f \in Names : Spares(effects, f) /\ (f \in s.flags \/ Sets(effects, Len(effects), f))
                                  => f \in t.flags
  <1> DEFINE n == Len(effects)
             Apply(t, e) ==
               CASE e[1] = "SetFlag" -> [t EXCEPT !.flags = @ \cup {e[2]}]
                 [] e[1] = "ClearFlag" -> [t EXCEPT !.flags = @ \ {e[2]}]
                 [] e[1] = "StartQuest" /\ e[2] \notin t.done -> [t EXCEPT !.active = @ \cup {e[2]}]
                 [] OTHER -> t
             Walks(g) == g = [i \in 0..n |-> IF i = 0 THEN s ELSE Apply(g[i - 1], effects[i])]
             Sound(t, i) == /\ t \in State /\ t.done = s.done
                            /\ \A f \in Names : Spares(effects, f) /\ (f \in s.flags \/ Sets(effects, i, f))
                                                  => f \in t.flags
             step == [i \in 1..n |-> [t \in State |-> Apply(t, effects[i])]]
             S == [i \in 0..n |-> {t \in State : Sound(t, i)}]
  <1>1. n \in Nat /\ DOMAIN effects = 1..n /\ \A i \in 1..n : effects[i] \in Range(effects)
    BY DEF Script, Range
  <1>2. ASSUME NEW i \in 1..n, NEW t \in State
        PROVE  Apply(t, effects[i]) \in State /\ Apply(t, effects[i]).done = t.done
    <2>1. effects[i][2] \in Names
      BY <1>1 DEF Script
    <2> QED BY <2>1 DEF State
  <1>3. step \in [1..n -> [State -> State]]
    BY <1>2
  <1>4. PICK g \in [0..n -> State] : Runs(g, n, s, step)
    <2> HIDE DEF step, n
    <2> QED BY <1>1, <1>3, Iterates
  <1>5. Walks(g)
    <2>1. \A i \in 0..n : g[i] = IF i = 0 THEN s ELSE Apply(g[i - 1], effects[i])
      <3> SUFFICES ASSUME NEW i \in 0..n PROVE g[i] = IF i = 0 THEN s ELSE Apply(g[i - 1], effects[i])
        OBVIOUS
      <3>1. CASE i = 0
        BY <1>4, <3>1 DEF Runs
      <3>2. CASE i # 0
        <4>1. i \in 1..n /\ i - 1 \in 0..n
          BY <1>1, <3>2
        <4>2. g[i] = step[i][g[i - 1]] /\ g[i - 1] \in State
          <5> HIDE DEF step
          <5> QED BY <1>4, <4>1 DEF Runs
        <4> HIDE DEF Apply
        <4> QED BY <3>2, <4>1, <4>2
      <3> QED BY <3>1, <3>2
    <2> HIDE DEF Apply
    <2> QED BY <1>4, <2>1
  <1> DEFINE after == CHOOSE h : Walks(h)
  <1>6. Walks(after)
    <2> HIDE DEF Walks
    <2> QED BY <1>5
  <1>7. ApplyEffects(effects, s) = after[n]
    BY DEF ApplyEffects
  <1>8. \A i \in 0..n : after[i] = IF i = 0 THEN s ELSE Apply(after[i - 1], effects[i])
    <2> HIDE DEF after, Apply
    <2> QED BY <1>6
  <1> HIDE DEF after
  <1>9. after[0] \in S[0]
    <2>1. \A f : ~Sets(effects, 0, f)
      BY DEF Sets
    <2> HIDE DEF Apply
    <2> QED BY <1>1, <1>8, <2>1
  <1>10. ASSUME NEW i \in 1..n, after[i - 1] \in S[i - 1]
         PROVE  after[i] \in S[i]
    <2> DEFINE t == after[i - 1]
               e == effects[i]
    <2>1. i - 1 \in 0..n /\ i \in 0..n /\ i # 0
      BY <1>1
    <2>2. Sound(t, i - 1)
      BY <1>10, <2>1
    <2>3. after[i] = Apply(t, e)
      <3> HIDE DEF Apply
      <3> QED BY <1>8, <2>1
    <2> HIDE DEF t
    <2>4. after[i] \in State /\ after[i].done = s.done
      <3> HIDE DEF Apply
      <3> QED BY <1>2, <2>2, <2>3
    <2>5. ASSUME NEW f \in Names, Spares(effects, f), f \in s.flags \/ Sets(effects, i, f)
          PROVE  f \in after[i].flags
      <3>1. ~(e[1] = "ClearFlag" /\ e[2] = f)
        BY <1>1, <2>5 DEF Spares
      <3>2. (f \in s.flags \/ Sets(effects, i - 1, f)) \/ (e[1] = "SetFlag" /\ e[2] = f)
        <4>1. \A j \in 1..i : j \in 1..(i - 1) \/ j = i
          BY <2>1
        <4> QED BY <2>5, <4>1 DEF Sets
      <3>3. f \in t.flags \/ (e[1] = "SetFlag" /\ e[2] = f)
        BY <2>2, <2>5, <3>2
      <3>4. t \in State
        BY <2>2
      <3> HIDE DEF e
      <3> QED BY <2>3, <3>1, <3>3, <3>4 DEF State
    <2> HIDE DEF Apply
    <2> QED BY <2>1, <2>4, <2>5
  <1>11. after[n] \in S[n]
    <2> HIDE DEF S, n
    <2> QED BY ONLY <1>1, <1>9, <1>10, StageByStage
  <1> HIDE DEF Apply
  <1> QED BY <1>1, <1>7, <1>11

-----------------------------------------------------------------------------
(* Rows of quests: one for each quest, none for one that is done.           *)
Distinct(rows) == \A i, j \in DOMAIN rows : i # j => rows[i].quest # rows[j].quest
QuestsIn(rows) == {r.quest : r \in Range(rows)}

LEMMA Appended ==
  ASSUME NEW rows \in Seq(Row), NEW r \in Row
  PROVE  /\ Append(rows, r) \in Seq(Row) /\ Range(rows) \subseteq Range(Append(rows, r))
         /\ QuestsIn(Append(rows, r)) = QuestsIn(rows) \cup {r.quest}
         /\ Distinct(rows) /\ r.quest \notin QuestsIn(rows) => Distinct(Append(rows, r))
  <1> DEFINE n == Len(rows)
             new == Append(rows, r)
  <1>1. /\ n \in Nat /\ DOMAIN rows = 1..n /\ DOMAIN new = 1..(n + 1) /\ new \in Seq(Row)
        /\ \A i \in 1..n : new[i] = rows[i]
        /\ new[n + 1] = r
    OBVIOUS
  <1>2. \A i \in 1..(n + 1) : i \in 1..n \/ i = n + 1
    BY <1>1
  <1>3. 1..n \subseteq 1..(n + 1) /\ n + 1 \in 1..(n + 1) /\ n + 1 \notin 1..n
    BY <1>1
  <1> HIDE DEF n, new
  <1>4. Range(new) = Range(rows) \cup {r}
    BY <1>1, <1>2, <1>3 DEF Range
  <1>5. QuestsIn(new) = QuestsIn(rows) \cup {r.quest}
    BY <1>4 DEF QuestsIn
  <1>6. ASSUME Distinct(rows), r.quest \notin QuestsIn(rows)
        PROVE  Distinct(new)
    <2>1. \A i \in 1..n : rows[i].quest # r.quest
      BY <1>1, <1>6 DEF QuestsIn, Range
    <2> QED BY <1>1, <1>2, <1>6, <2>1 DEF Distinct
  <1> QED BY <1>1, <1>4, <1>5, <1>6 DEF new

(* Starting quests keeps the rows there are and adds none that is done.     *)
LEMMA QuestsStart ==
  ASSUME NEW effects, Script(effects), NEW s, NEW rows \in Seq(Row),
         Distinct(rows), QuestsIn(rows) \cap s.done = {}
  PROVE  LET new == Started(effects, s, rows)
         IN /\ new \in Seq(Row) /\ Distinct(new) /\ QuestsIn(new) \cap s.done = {}
            /\ Range(rows) \subseteq Range(new)
  <1> DEFINE n == Len(effects)
             Start(rs, e) ==
               IF e[1] = "StartQuest" /\ e[2] \notin s.done /\ (\A r \in Range(rs) : r.quest # e[2])
               THEN Append(rs, [quest |-> e[2], step |-> 1])
               ELSE rs
             Walks(g) == g = [i \in 0..n |-> IF i = 0 THEN rows ELSE Start(g[i - 1], effects[i])]
             U == {rs \in Seq(Row) : /\ Distinct(rs) /\ QuestsIn(rs) \cap s.done = {}
                                     /\ Range(rows) \subseteq Range(rs)}
             step == [i \in 1..n |-> [rs \in U |-> Start(rs, effects[i])]]
  <1>1. n \in Nat /\ \A i \in 1..n : effects[i] \in Range(effects)
    BY DEF Script, Range
  <1>2. ASSUME NEW i \in 1..n, NEW rs \in U
        PROVE  Start(rs, effects[i]) \in U
    <2> DEFINE q == effects[i][2]
               r == [quest |-> q, step |-> 1]
    <2>1. q \in Names /\ r \in Row /\ r.quest = q
      BY <1>1 DEF Script, Row
    <2>2. CASE q \notin s.done /\ \A x \in Range(rs) : x.quest # q
      <3> HIDE DEF r, q
      <3>1. q \notin QuestsIn(rs)
        BY <2>2 DEF QuestsIn
      <3>2. /\ Append(rs, r) \in Seq(Row) /\ Range(rs) \subseteq Range(Append(rs, r))
            /\ QuestsIn(Append(rs, r)) = QuestsIn(rs) \cup {q}
            /\ Distinct(Append(rs, r))
        BY <2>1, <3>1, Appended
      <3>3. Append(rs, r) \in U
        BY <2>2, <3>2
      <3> QED BY <3>3 DEF r, q
    <2> QED BY <2>2
  <1>3. rows \in U /\ step \in [1..n -> [U -> U]]
    <2> HIDE DEF Start
    <2>1. rows \in U
      OBVIOUS
    <2> HIDE DEF U
    <2> QED BY <1>2, <2>1
  <1>4. PICK g \in [0..n -> U] : Runs(g, n, rows, step)
    <2> HIDE DEF step, n, U
    <2> QED BY <1>1, <1>3, Iterates
  <1>5. Walks(g)
    <2> HIDE DEF U
    <2>1. \A i \in 0..n : g[i] = IF i = 0 THEN rows ELSE Start(g[i - 1], effects[i])
      <3> SUFFICES ASSUME NEW i \in 0..n
                   PROVE  g[i] = IF i = 0 THEN rows ELSE Start(g[i - 1], effects[i])
        OBVIOUS
      <3>1. CASE i = 0
        BY <1>4, <3>1 DEF Runs
      <3>2. CASE i # 0
        <4>1. i \in 1..n /\ i - 1 \in 0..n
          BY <1>1, <3>2
        <4>2. g[i] = step[i][g[i - 1]] /\ g[i - 1] \in U
          <5> HIDE DEF step
          <5> QED BY <1>4, <4>1 DEF Runs
        <4> HIDE DEF Start
        <4> QED BY <3>2, <4>1, <4>2
      <3> QED BY <3>1, <3>2
    <2> HIDE DEF Start
    <2> QED BY <1>4, <2>1
  <1> DEFINE after == CHOOSE h : Walks(h)
  <1>6. Walks(after)
    <2> HIDE DEF Walks
    <2> QED BY <1>5
  <1>7. Started(effects, s, rows) = after[n]
    BY DEF Started
  <1>8. \A i \in 0..n : after[i] = IF i = 0 THEN rows ELSE Start(after[i - 1], effects[i])
    <2> HIDE DEF after, Start
    <2> QED BY <1>6
  <1> HIDE DEF after
  <1> DEFINE S == [i \in 0..n |-> U]
  <1>9. after[0] \in S[0] /\ \A i \in 1..n : after[i - 1] \in S[i - 1] => after[i] \in S[i]
    <2> HIDE DEF Start, U
    <2>1. \A i \in 1..n : i # 0 /\ i - 1 \in 0..n /\ i \in 0..n
      BY <1>1
    <2> QED BY <1>1, <1>2, <1>3, <1>8, <2>1
  <1>10. after[n] \in S[n]
    <2> HIDE DEF S, n
    <2> QED BY ONLY <1>1, <1>9, StageByStage
  <1> HIDE DEF Start
  <1> QED BY <1>1, <1>7, <1>10

(* A trigger leaves each quest a row or wins it, and what is won is done.   *)
LEMMA TriggerApplies ==
  ASSUME NEW rows \in Seq(Row), Distinct(rows), NEW s \in State, NEW n
  PROVE  LET h == ApplyQuestTrigger(rows, s, n)
         IN /\ h.rows \in Seq(Row) /\ Distinct(h.rows)
            /\ QuestsIn(h.rows) \cup h.won = QuestsIn(rows) /\ QuestsIn(h.rows) \cap h.won = {}
            /\ h.state \in State /\ h.state.done = s.done \cup h.won /\ h.state.flags = s.flags
            /\ h.won \subseteq IdsOf(Builds[build].quests)
  <1> DEFINE N == Len(rows)
             Step(acc, r, hit) ==
               IF hit = {} THEN [acc EXCEPT !.rows = Append(@, r)]
               ELSE IF \E q \in hit : r.step < Len(q.steps)
                    THEN [acc EXCEPT !.rows = Append(@, [r EXCEPT !.step = @ + 1])]
                    ELSE [rows |-> acc.rows, won |-> acc.won \cup {r.quest},
                          state |-> [acc.state EXCEPT !.active = @ \ {r.quest}, !.done = @ \cup {r.quest}]]
             Advance(acc, r) == Step(acc, r, ProcessTrigger(r, acc.state, n))
             x == [rows |-> <<>>, state |-> s, won |-> {}]
             Walks(g) == g = [i \in 0..N |-> IF i = 0 THEN x ELSE Advance(g[i - 1], rows[i])]
             U == [rows : Seq(Row), state : State, won : SUBSET Names]
             Front(i) == {rows[k].quest : k \in 1..i}
             Sound(y, i) ==
               /\ Distinct(y.rows)
               /\ QuestsIn(y.rows) \cup y.won = Front(i) /\ QuestsIn(y.rows) \cap y.won = {}
               /\ y.state.done = s.done \cup y.won /\ y.state.flags = s.flags
               /\ y.won \subseteq IdsOf(Builds[build].quests)
             step == [i \in 1..N |-> [y \in U |-> Advance(y, rows[i])]]
             S == [i \in 0..N |-> {y \in U : Sound(y, i)}]
  <1>1. N \in Nat /\ DOMAIN rows = 1..N /\ \A i \in 1..N : rows[i] \in Row
    OBVIOUS
  <1>2. ASSUME NEW i \in 1..N, NEW y \in U
        PROVE  /\ Advance(y, rows[i]) \in U
               /\ Sound(y, i - 1) => Sound(Advance(y, rows[i]), i)
    <2> DEFINE r == rows[i]
               hit == ProcessTrigger(r, y.state, n)
    <2>1. r \in Row /\ r.quest \in Names /\ r.step \in Nat
      BY <1>1 DEF Row
    <2>2. y.rows \in Seq(Row) /\ y.state \in State /\ y.won \in SUBSET Names
      OBVIOUS
    <2>3. Front(i) = Front(i - 1) \cup {r.quest}
      <3>1. \A k \in 1..i : k \in 1..(i - 1) \/ k = i
        BY <1>1
      <3>2. i \in 1..i /\ 1..(i - 1) \subseteq 1..i
        BY <1>1
      <3> HIDE DEF r
      <3> QED BY <3>1, <3>2 DEF r
    <2>4. r.quest \notin Front(i - 1)
      <3>1. \A k \in 1..(i - 1) : k \in 1..N /\ k # i
        BY <1>1
      <3> QED BY <1>1, <3>1 DEF Distinct
    <2>5. ASSUME NEW t \in Row, t.quest = r.quest, Advance(y, r) = [y EXCEPT !.rows = Append(@, t)]
          PROVE  /\ Advance(y, r) \in U
                 /\ Sound(y, i - 1) => Sound(Advance(y, r), i)
      <3> DEFINE new == Append(y.rows, t)
                 z == Advance(y, r)
      <3>1. /\ new \in Seq(Row) /\ QuestsIn(new) = QuestsIn(y.rows) \cup {r.quest}
            /\ Distinct(y.rows) /\ r.quest \notin QuestsIn(y.rows) => Distinct(new)
        BY <2>2, <2>5, Appended
      <3> HIDE DEF new, r, Front
      <3>2. z \in U /\ z.rows = new /\ z.won = y.won /\ z.state = y.state
        <4> HIDE DEF Advance
        <4> QED BY <2>5, <3>1 DEF new
      <3> HIDE DEF Advance
      <3>3. ASSUME Sound(y, i - 1) PROVE Sound(z, i)
        <4>1. r.quest \notin QuestsIn(y.rows) /\ r.quest \notin y.won
          BY <2>4, <3>3
        <4> HIDE DEF z
        <4> QED BY <2>3, <3>1, <3>2, <3>3, <4>1
      <3> QED BY <3>2, <3>3
    <2>6. CASE hit = {}
      <3>1. Advance(y, r) = [y EXCEPT !.rows = Append(@, r)]
        BY <2>6
      <3> HIDE DEF Advance, Sound, U, hit, r
      <3> QED BY <2>1, <2>5, <3>1 DEF r
    <2>7. CASE hit # {} /\ \E q \in hit : r.step < Len(q.steps)
      <3> DEFINE t == [r EXCEPT !.step = @ + 1]
      <3>1. Advance(y, r) = [y EXCEPT !.rows = Append(@, t)]
        BY <2>7
      <3>2. t \in Row /\ t.quest = r.quest
        BY <2>1 DEF Row
      <3> HIDE DEF Advance, Sound, U, hit, r, t
      <3> QED BY <2>5, <3>1, <3>2 DEF r
    <2>8. CASE hit # {} /\ ~\E q \in hit : r.step < Len(q.steps)
      <3> DEFINE z == Advance(y, r)
                 u == [y.state EXCEPT !.active = @ \ {r.quest}, !.done = @ \cup {r.quest}]
      <3>1. z = [rows |-> y.rows, won |-> y.won \cup {r.quest}, state |-> u]
        BY <2>8
      <3>2. u \in State /\ u.done = y.state.done \cup {r.quest} /\ u.flags = y.state.flags
        BY <2>1, <2>2 DEF State
      <3>3. r.quest \in IdsOf(Builds[build].quests)
        BY <2>8 DEF ProcessTrigger, IdsOf
      <3> HIDE DEF Advance, hit, r, z, u, Front
      <3>4. z \in U
        BY <2>1, <2>2, <3>1, <3>2
      <3>5. ASSUME Sound(y, i - 1) PROVE Sound(z, i)
        <4>1. r.quest \notin QuestsIn(y.rows) /\ r.quest \notin y.won
          BY <2>4, <3>5
        <4> QED BY <2>3, <3>1, <3>2, <3>3, <3>5, <4>1
      <3> HIDE DEF Sound, U
      <3> QED BY <3>4, <3>5 DEF r, z
    <2> HIDE DEF Advance, Sound, U, hit
    <2> QED BY <2>6, <2>7, <2>8
  <1>3. x \in U /\ step \in [1..N -> [U -> U]]
    <2>1. x \in U
      OBVIOUS
    <2> HIDE DEF Advance, U, Sound
    <2> QED BY <1>2, <2>1
  <1>4. PICK g \in [0..N -> U] : Runs(g, N, x, step)
    <2> HIDE DEF step, N, U, x
    <2> QED BY <1>1, <1>3, Iterates
  <1>5. Walks(g)
    <2> HIDE DEF U, x
    <2>1. \A i \in 0..N : g[i] = IF i = 0 THEN x ELSE Advance(g[i - 1], rows[i])
      <3> SUFFICES ASSUME NEW i \in 0..N
                   PROVE  g[i] = IF i = 0 THEN x ELSE Advance(g[i - 1], rows[i])
        OBVIOUS
      <3>1. CASE i = 0
        BY <1>4, <3>1 DEF Runs
      <3>2. CASE i # 0
        <4>1. i \in 1..N /\ i - 1 \in 0..N
          BY <1>1, <3>2
        <4>2. g[i] = step[i][g[i - 1]] /\ g[i - 1] \in U
          <5> HIDE DEF step
          <5> QED BY <1>4, <4>1 DEF Runs
        <4> HIDE DEF Advance
        <4> QED BY <3>2, <4>1, <4>2
      <3> QED BY <3>1, <3>2
    <2> HIDE DEF Advance
    <2> QED BY <1>4, <2>1
  <1> DEFINE after == CHOOSE h : Walks(h)
  <1>6. Walks(after)
    <2> HIDE DEF Walks
    <2> QED BY <1>5
  <1>7. ApplyQuestTrigger(rows, s, n) = after[N]
    BY DEF ApplyQuestTrigger
  <1>8. \A i \in 0..N : after[i] = IF i = 0 THEN x ELSE Advance(after[i - 1], rows[i])
    <2> HIDE DEF after, Advance, x
    <2> QED BY <1>6
  <1> HIDE DEF after
  <1>9. after[0] \in S[0]
    <2>1. Front(0) = {} /\ QuestsIn(<<>>) = {} /\ Distinct(<<>>)
      BY DEF QuestsIn, Range, Distinct
    <2>2. Sound(x, 0)
      <3> HIDE DEF Front
      <3> QED BY <2>1
    <2>3. after[0] = x /\ 0 \in 0..N
      <3> HIDE DEF Advance, x
      <3> QED BY <1>1, <1>8
    <2> HIDE DEF x, U, Sound
    <2> QED BY <1>3, <2>2, <2>3
  <1>10. \A i \in 1..N : after[i - 1] \in S[i - 1] => after[i] \in S[i]
    <2>1. \A i \in 1..N : i # 0 /\ i - 1 \in 0..N /\ i \in 0..N
      BY <1>1
    <2> HIDE DEF Advance, U, Sound, x
    <2> QED BY <1>2, <1>8, <2>1
  <1>11. after[N] \in S[N]
    <2> HIDE DEF S, N
    <2> QED BY ONLY <1>1, <1>9, <1>10, StageByStage
  <1>12. Front(N) = QuestsIn(rows)
    BY <1>1 DEF QuestsIn, Range
  <1>13. after[N] \in U /\ Sound(after[N], N)
    <2> HIDE DEF Advance, U, Sound
    <2> QED BY <1>1, <1>11
  <1> HIDE DEF Advance, Front
  <1> QED BY <1>7, <1>12, <1>13

-----------------------------------------------------------------------------
(* What a talk and an answer have in common: a script of the running        *)
(* content runs for p, whose rows become those given and who wins quests.   *)
Ran(p, x, rows, won) ==
  LET loaded == LoadPlayerDialogueState(p)
  IN /\ x \in Scripts(Builds[build]) /\ Permits(x, loaded)
     /\ rows \in Seq(Row) /\ Distinct(rows) /\ QuestsIn(quests[p]) \subseteq QuestsIn(rows) \cup won
     /\ won \subseteq Names /\ won \subseteq IdsOf(Builds[build].quests)
     /\ won \cap loaded.done = {} /\ QuestsIn(rows) \cap (loaded.done \cup won) = {}
     /\ told' = With(told, p, [flags |-> ApplyEffects(x.then, loaded).flags,
                               done |-> loaded.done \cup won])
     /\ quests' = [quests EXCEPT ![p] = rows]
     /\ Pay(p, GrantsOf(x.then) \cup won)

LEMMA LoadedTyped ==
  ASSUME SavedTypes, NEW p \in Identities
  PROVE  LET loaded == LoadPlayerDialogueState(p)
         IN /\ loaded \in State
            /\ p \in DOMAIN told => loaded.flags = told[p].flags /\ loaded.done = told[p].done
            /\ p \notin DOMAIN told => loaded.flags = {} /\ loaded.done = {}
  <1>1. quests[p] \in Seq(Row)
    BY DEF SavedTypes
  <1>2. \A r \in Range(quests[p]) : r.quest \in Names
    <2>1. \A i \in DOMAIN quests[p] : quests[p][i] \in Row
      BY <1>1
    <2> QED BY <2>1 DEF Range, Row
  <1>3. {r.quest : r \in Range(quests[p])} \in SUBSET Names
    BY <1>2
  <1>4. CASE p \in DOMAIN told
    <2>1. told[p].flags \in SUBSET Names /\ told[p].done \in SUBSET Names
      BY <1>4 DEF SavedTypes
    <2> QED BY <1>3, <1>4, <2>1 DEF LoadPlayerDialogueState, State
  <1>5. CASE p \notin DOMAIN told
    BY <1>3, <1>5 DEF LoadPlayerDialogueState, State
  <1> QED BY <1>4, <1>5

LEMMA RunningScripts ==
  ASSUME ContentIsValid, NEW t \in Builds[build].trees, NEW i \in DOMAIN t.nodes
  PROVE  LET node == t.nodes[i]
         IN /\ [if |-> node.if, then |-> node.then] \in Scripts(Builds[build])
            /\ \A h \in Range(node.choices) :
                 [if |-> h.if, then |-> h.then] \in Scripts(Builds[build])
  <1>1. t.nodes[i] \in Nodes(Builds[build])
    BY DEF Nodes, Range
  <1> QED BY <1>1 DEF Scripts

LEMMA ScriptsTyped ==
  ASSUME ContentIsValid, NEW x \in Scripts(Builds[build])
  PROVE  Script(x.then) /\ \A e \in Range(x.then) : e[2] \in Names
  <1>1. Builds[build] \in Range(Builds)
    BY DEF ContentIsValid, Range
  <1>2. x.then \in Seq(Range(x.then))
    BY <1>1, QuestContent
  <1>3. \A e \in Range(x.then) : e[2] \in Names
    BY <1>1 DEF Names
  <1> QED BY <1>2, <1>3 DEF Script

(* Whoever runs a script is left with a whole save.                         *)
LEMMA RanKeepsSaves ==
  ASSUME Inv, NEW p \in Identities, NEW x, NEW rows, NEW won, Ran(p, x, rows, won),
         UNCHANGED account, p \in Holders => account[p] # "Terminal"
  PROVE  /\ SavesAreWhole' /\ DOMAIN told' = DOMAIN told \cup {p}
         /\ \A q \in DOMAIN told' : told'[q] \in [flags : SUBSET Names, done : SUBSET Names]
         /\ quests' \in [Identities -> Seq(Row)]
  <1> DEFINE loaded == LoadPlayerDialogueState(p)
             F == ApplyEffects(x.then, loaded).flags
             D == loaded.done \cup won
  <1>1. SavedTypes /\ SavesAreWhole /\ ContentIsValid
    BY DEF Inv, QuestsWellFormed
  <1>2. loaded \in State /\ Script(x.then)
    BY <1>1, LoadedTyped, ScriptsTyped DEF Ran
  <1>3. F \in SUBSET Names /\ D \in SUBSET Names
    <2>1. ApplyEffects(x.then, loaded) \in State
      BY <1>2, EffectsApply
    <2> QED BY <1>2, <2>1 DEF Ran, State
  <1>4. told' = With(told, p, [flags |-> F, done |-> D]) /\ rows \in Seq(Row) /\ Distinct(rows)
        /\ quests' = [quests EXCEPT ![p] = rows] /\ QuestsIn(rows) \cap D = {}
    BY DEF Ran
  <1> HIDE DEF F, D
  <1>5. /\ DOMAIN told' = DOMAIN told \cup {p} /\ told'[p] = [flags |-> F, done |-> D]
        /\ \A q \in DOMAIN told : q # p => told'[q] = told[q]
    BY <1>4 DEF With
  <1>6. \A q \in DOMAIN told' : told'[q] \in [flags : SUBSET Names, done : SUBSET Names]
    BY <1>1, <1>3, <1>5 DEF SavedTypes
  <1>7. /\ quests' \in [Identities -> Seq(Row)] /\ quests'[p] = rows
        /\ \A q \in Identities : q # p => quests'[q] = quests[q]
    BY <1>1, <1>4 DEF SavedTypes
  <1>8. \A r \in Range(rows) : r.quest \notin told'[p].done
    BY <1>4, <1>5 DEF QuestsIn
  <1>9. SavesAreWhole'
    <2>1. ASSUME NEW q \in Identities
          PROVE  /\ \A i, j \in DOMAIN quests'[q] : i # j => quests'[q][i].quest # quests'[q][j].quest
                 /\ quests'[q] # <<>> => q \in DOMAIN told'
                 /\ \A r \in Range(quests'[q]) : r.quest \notin told'[q].done
      <3>1. CASE q = p
        BY <1>4, <1>5, <1>7, <1>8, <3>1 DEF Distinct
      <3>2. CASE q # p
        <4>1. quests'[q] = quests[q] /\ (quests[q] # <<>> => q \in DOMAIN told)
          BY <1>1, <1>7, <3>2 DEF SavesAreWhole
        <4>2. CASE q \in DOMAIN told
          BY <1>1, <1>5, <3>2, <4>1, <4>2 DEF SavesAreWhole
        <4>3. CASE q \notin DOMAIN told
          BY <4>1, <4>3 DEF Range
        <4> QED BY <4>2, <4>3
      <3> QED BY <3>1, <3>2
    <2>2. \A q \in Holders : account'[q] = "Terminal" => ~HasQuestOrDialogueState(q)'
      <3>1. \A q \in Holders : account[q] = "Terminal" => q # p /\ q \in Identities
        BY DEF Identities
      <3> QED BY <1>1, <1>5, <1>7, <3>1 DEF SavesAreWhole, HasQuestOrDialogueState
    <2> QED BY <2>1, <2>2 DEF SavesAreWhole
  <1> QED BY <1>5, <1>6, <1>7, <1>9

(* A prize is one gift or one reward.                                       *)
LEMMA RanPaysOnce ==
  ASSUME Inv, NEW p \in Identities, NEW x, NEW rows, NEW won, Ran(p, x, rows, won)
  PROVE  PaymentsAreRecorded' /\ paid' \in [Identities -> [Prizes -> 0 .. 2]]
  <1> DEFINE loaded == LoadPlayerDialogueState(p)
             F == ApplyEffects(x.then, loaded).flags
             D == loaded.done \cup won
             prizes == GrantsOf(x.then) \cup won
  <1>1. SavedTypes /\ ContentIsValid /\ PaymentsAreRecorded /\ paid \in [Identities -> [Prizes -> 0 .. 2]]
    BY DEF Inv, QuestsWellFormed, TypeOK
  <1>2. loaded \in State /\ Script(x.then) /\ x \in Scripts(Builds[build])
    BY <1>1, LoadedTyped, ScriptsTyped DEF Ran
  <1>3. /\ told' = With(told, p, [flags |-> F, done |-> D])
        /\ won \cap loaded.done = {} /\ won \subseteq IdsOf(Builds[build].quests)
        /\ Permits(x, loaded) /\ Pay(p, prizes)
    BY DEF Ran
  <1>4. /\ p \in DOMAIN told => loaded.flags = told[p].flags /\ loaded.done = told[p].done
        /\ p \notin DOMAIN told => loaded.flags = {} /\ loaded.done = {}
    BY <1>1, LoadedTyped
  <1>5. Builds[build] \in Range(Builds) /\ ValidNpcContent(Builds[build])
    BY <1>1 DEF ContentIsValid, Range
  <1>6. \A y \in Prizes : y \in GrantsOf(x.then) => x \in GiversOf(y)
    BY <1>2, <1>5 DEF GiversOf
  <1>7. \A y \in Prizes : y \in won => GiversOf(y) = {}
    BY <1>3, <1>5, QuestPrizes
  <1>8. \A f \in Names : Spares(x.then, f) /\ (f \in loaded.flags \/ Sets(x.then, Len(x.then), f)) => f \in F
    BY <1>2, EffectsApply
  <1>9. \A y : ~Reopened(y) => \A f \in GatesOf(y) : Spares(x.then, f)
    BY <1>2, <1>5 DEF Reopened, Spares
  <1>10. \A e \in Range(x.then) : e[2] \in Names
    BY <1>1, <1>2, ScriptsTyped
  <1>11. /\ DOMAIN told' = DOMAIN told \cup {p} /\ told'[p] = [flags |-> F, done |-> D]
         /\ \A q \in DOMAIN told : q # p => told'[q] = told[q]
    BY <1>3 DEF With
  <1> DEFINE due == [y \in Prizes |-> IF y \in prizes THEN 1 ELSE 0]
  <1>12. paid' = [paid EXCEPT ![p] = Sum(paid[p], due)]
    BY <1>3 DEF Pay
  <1>13. \A y \in Prizes : due[y] = IF y \in prizes THEN 1 ELSE 0
    OBVIOUS
  <1>14. due \in [Prizes -> 0 .. 1]
    OBVIOUS
  <1> HIDE DEF due, prizes, F, D
  <1>15. /\ Sum(paid[p], due) \in [Prizes -> 0 .. 2]
         /\ \A y \in Prizes : Sum(paid[p], due)[y]
              = IF paid[p][y] + due[y] > 2 THEN 2 ELSE paid[p][y] + due[y]
    <2>1. paid[p] \in [Prizes -> 0 .. 2]
      BY <1>1
    <2>2. \A y \in Prizes : paid[p][y] \in 0 .. 2 /\ due[y] \in 0 .. 1
      BY <1>14, <2>1
    <2> QED BY <2>2 DEF Sum
  <1>16. /\ paid' \in [Identities -> [Prizes -> 0 .. 2]] /\ paid'[p] = Sum(paid[p], due)
         /\ \A q \in Identities : q # p => paid'[q] = paid[q]
    BY <1>1, <1>12, <1>15
  <1>17. ASSUME NEW y \in Prizes, ~Reopened(y), y \in GrantsOf(x.then)
         PROVE  paid[p][y] = 0 /\ y \notin won /\ GiversOf(y) # {} /\ \E f \in F : Shuts(f, y)
    <2>1. x \in GiversOf(y)
      BY <1>6, <1>17
    <2>2. \A f \in loaded.flags : ~Shuts(f, y)
      <3> SUFFICES ASSUME NEW f \in loaded.flags, Shuts(f, y) PROVE FALSE
        OBVIOUS
      <3>1. <<"NotFlag", f>> \in x.if
        BY <2>1 DEF Shuts
      <3>2. EvaluateCondition(<<"NotFlag", f>>, loaded)
        BY <1>3, <3>1 DEF Permits
      <3> QED BY <3>2 DEF EvaluateCondition
    <2>3. paid[p][y] = 0
      BY <1>1, <1>4, <1>17, <2>1, <2>2 DEF PaymentsAreRecorded
    <2>4. PICK gate \in GatesOf(y) : \A s \in GiversOf(y) :
            <<"NotFlag", gate>> \in s.if /\ <<"SetFlag", gate>> \in Range(s.then)
      BY <2>1, QuestPrizes
    <2>5. Shuts(gate, y) /\ <<"SetFlag", gate>> \in Range(x.then)
      BY <2>1, <2>4 DEF Shuts
    <2>6. gate \in Names /\ Sets(x.then, Len(x.then), gate)
      <3>1. gate \in Names
        BY <1>10, <2>5
      <3>2. PICK j \in DOMAIN x.then : x.then[j] = <<"SetFlag", gate>>
        BY <2>5 DEF Range
      <3>3. j \in 1 .. Len(x.then)
        BY <1>2, <3>2 DEF Script
      <3> QED BY <3>1, <3>2, <3>3 DEF Sets
    <2>7. gate \in F
      BY <1>8, <1>9, <1>17, <2>4, <2>6
    <2> QED BY <1>7, <2>1, <2>3, <2>5, <2>7
  <1>18. ASSUME NEW y \in Prizes, ~Reopened(y), y \in won
         PROVE  paid[p][y] = 0 /\ GiversOf(y) = {} /\ y \in D
    BY <1>1, <1>3, <1>4, <1>7, <1>18 DEF PaymentsAreRecorded, D
  <1>19. ASSUME NEW y \in Prizes, ~Reopened(y), paid[p][y] # 0
         PROVE  /\ paid[p][y] = 1
                /\ IF GiversOf(y) = {} THEN y \in D ELSE \E f \in F : Shuts(f, y)
    <2>1. /\ paid[p][y] = 1 /\ p \in DOMAIN told
          /\ IF GiversOf(y) = {} THEN y \in told[p].done ELSE \E f \in told[p].flags : Shuts(f, y)
      BY <1>1, <1>19 DEF PaymentsAreRecorded
    <2>2. CASE GiversOf(y) = {}
      BY <1>4, <2>1, <2>2 DEF D
    <2>3. CASE GiversOf(y) # {}
      <3>1. PICK f \in loaded.flags : Shuts(f, y)
        BY <1>4, <2>1, <2>3
      <3>2. f \in Names /\ f \in GatesOf(y)
        BY <1>2, <3>1 DEF State, Shuts
      <3> QED BY <1>8, <1>9, <1>19, <2>1, <2>3, <3>1, <3>2
    <2> QED BY <2>2, <2>3
  <1>20. ASSUME NEW y \in Prizes, ~Reopened(y), paid'[p][y] # 0
         PROVE  /\ paid'[p][y] = 1
                /\ IF GiversOf(y) = {} THEN y \in told'[p].done ELSE \E f \in told'[p].flags : Shuts(f, y)
    <2>1. paid[p][y] \in 0 .. 2
      BY <1>1
    <2>2. CASE y \in GrantsOf(x.then) \/ y \in won
      BY <1>11, <1>13, <1>15, <1>16, <1>17, <1>18, <1>20, <2>2 DEF prizes
    <2>3. CASE y \notin GrantsOf(x.then) /\ y \notin won
      <3>1. paid'[p][y] = paid[p][y]
        BY <1>13, <1>15, <1>16, <2>1, <2>3 DEF prizes
      <3> QED BY <1>11, <1>19, <1>20, <3>1
    <2> QED BY <2>2, <2>3
  <1>21. PaymentsAreRecorded'
    <2> SUFFICES ASSUME NEW q \in Identities, NEW y \in Prizes, ~Reopened(y), paid'[q][y] # 0
                 PROVE  /\ paid'[q][y] = 1 /\ q \in DOMAIN told'
                        /\ IF GiversOf(y) = {} THEN y \in told'[q].done
                                               ELSE \E f \in told'[q].flags : Shuts(f, y)
      BY DEF PaymentsAreRecorded
    <2>1. CASE q = p
      BY <1>11, <1>20, <2>1
    <2>2. CASE q # p
      BY <1>1, <1>11, <1>16, <2>2 DEF PaymentsAreRecorded
    <2> QED BY <2>1, <2>2
  <1> QED BY <1>16, <1>21

-----------------------------------------------------------------------------
(* The two reducers that run scripts.                                       *)
LEMMA SavedRows ==
  ASSUME Inv, NEW p \in Identities
  PROVE  LET loaded == LoadPlayerDialogueState(p)
         IN /\ quests[p] \in Seq(Row) /\ Distinct(quests[p])
            /\ QuestsIn(quests[p]) \cap loaded.done = {}
  <1>1. SavedTypes /\ SavesAreWhole
    BY DEF Inv, QuestsWellFormed
  <1>2. quests[p] \in Seq(Row) /\ Distinct(quests[p])
    BY <1>1 DEF SavedTypes, SavesAreWhole, Distinct
  <1>3. \A r \in Range(quests[p]) : p \in DOMAIN told => r.quest \notin told[p].done
    BY <1>1 DEF SavesAreWhole
  <1> QED BY <1>1, <1>2, <1>3, LoadedTyped DEF QuestsIn

(* Talk and AdvanceDialogue once the node, or the choice, is found.         *)
Entered(p, n, node) ==
  LET loaded == LoadPlayerDialogueState(p)
      s == ApplyEffects(node.then, loaded)
      heard == ApplyQuestTrigger(Started(node.then, s, quests[p]), s, n)
  IN /\ Permits(node, loaded)
     /\ conv' = With(conv, p, [npc |-> n, node |-> node.id])
     /\ quests' = [quests EXCEPT ![p] = heard.rows]
     /\ WritePlayerDialogueState(p, heard.state)
     /\ Pay(p, GrantsOf(node.then) \cup heard.won)

LEMMA TalkRuns ==
  ASSUME Inv, NEW p \in Identities, NEW n, Talk(p, n)
  PROVE  /\ \E x, rows, won : Ran(p, x, rows, won)
         /\ \E node : conv' = With(conv, p, [npc |-> n, node |-> node])
  <1> PICK t \in TreesOf(n) : \E i \in DOMAIN t.nodes : Entered(p, n, t.nodes[i])
    BY DEF Talk, Entered
  <1>1. PICK i \in DOMAIN t.nodes : Entered(p, n, t.nodes[i])
    OBVIOUS
  <1> DEFINE loaded == LoadPlayerDialogueState(p)
             node == t.nodes[i]
             x == [if |-> node.if, then |-> node.then]
             s == ApplyEffects(x.then, loaded)
             started == Started(x.then, s, quests[p])
             heard == ApplyQuestTrigger(started, s, n)
  <1>2. SavedTypes /\ ContentIsValid
    BY DEF Inv
  <1>3. x \in Scripts(Builds[build]) /\ Permits(x, loaded)
    <2>1. t \in Builds[build].trees
      BY DEF TreesOf
    <2> QED BY <1>1, <1>2, <2>1, RunningScripts DEF Permits, Entered
  <1>4. Script(x.then) /\ loaded \in State
    BY <1>2, <1>3, ScriptsTyped, LoadedTyped
  <1>5. /\ quests' = [quests EXCEPT ![p] = heard.rows]
        /\ WritePlayerDialogueState(p, heard.state)
        /\ Pay(p, GrantsOf(x.then) \cup heard.won)
    BY <1>1 DEF Entered
  <1> HIDE DEF loaded, x
  <1>6. s \in State /\ s.done = loaded.done
    BY <1>4, EffectsApply
  <1>7. /\ quests[p] \in Seq(Row) /\ Distinct(quests[p]) /\ QuestsIn(quests[p]) \cap s.done = {}
    BY <1>6, SavedRows DEF loaded
  <1> HIDE DEF s
  <1>8. /\ started \in Seq(Row) /\ Distinct(started) /\ QuestsIn(started) \cap s.done = {}
        /\ Range(quests[p]) \subseteq Range(started)
    BY <1>4, <1>7, QuestsStart
  <1> HIDE DEF started
  <1>9. /\ heard.rows \in Seq(Row) /\ Distinct(heard.rows)
        /\ QuestsIn(heard.rows) \cup heard.won = QuestsIn(started)
        /\ QuestsIn(heard.rows) \cap heard.won = {}
        /\ heard.state.done = s.done \cup heard.won /\ heard.state.flags = s.flags
        /\ heard.won \subseteq IdsOf(Builds[build].quests)
    BY <1>6, <1>8, TriggerApplies
  <1> HIDE DEF heard
  <1>10. QuestsIn(quests[p]) \subseteq QuestsIn(started)
    BY <1>8 DEF QuestsIn
  <1>11. QuestsIn(started) \subseteq Names
    <2>1. \A j \in DOMAIN started : started[j] \in Row
      BY <1>8
    <2> QED BY <2>1 DEF QuestsIn, Range, Row
  <1>12. told' = With(told, p, [flags |-> ApplyEffects(x.then, loaded).flags,
                                done |-> loaded.done \cup heard.won])
    <2>1. told' = With(told, p, [flags |-> heard.state.flags, done |-> heard.state.done])
      BY <1>5 DEF WritePlayerDialogueState
    <2> QED BY <1>6, <1>9, <2>1 DEF s
  <1>13. Ran(p, x, heard.rows, heard.won)
    <2>1. /\ heard.won \subseteq Names /\ heard.won \cap loaded.done = {}
          /\ QuestsIn(heard.rows) \cap (loaded.done \cup heard.won) = {}
          /\ QuestsIn(quests[p]) \subseteq QuestsIn(heard.rows) \cup heard.won
      BY <1>6, <1>8, <1>9, <1>10, <1>11
    <2> QED BY <1>3, <1>5, <1>9, <1>12, <2>1 DEF Ran, loaded
  <1> QED BY <1>1, <1>13 DEF Entered

Chosen(p, h) ==
  LET loaded == LoadPlayerDialogueState(p)
      s == ApplyEffects(h.then, loaded)
  IN /\ Permits(h, loaded)
     /\ WritePlayerDialogueState(p, s)
     /\ quests' = [quests EXCEPT ![p] = Started(h.then, s, quests[p])]
     /\ Pay(p, GrantsOf(h.then))
     /\ conv' = IF h.next = End THEN Without(conv, p) ELSE [conv EXCEPT ![p].node = h.next]

LEMMA AdvanceRuns ==
  ASSUME Inv, NEW p \in Identities, AdvanceDialogue(p)
  PROVE  /\ \E x, rows : Ran(p, x, rows, {})
         /\ \/ conv' = Without(conv, p)
            \/ \E node : conv' = [conv EXCEPT ![p].node = node]
  <1> PICK t \in TreesOf(conv[p].npc) : \E node \in Range(t.nodes) :
        \E h \in Range(node.choices) : Chosen(p, h)
    BY DEF AdvanceDialogue, Chosen
  <1> PICK node \in Range(t.nodes) : \E h \in Range(node.choices) : Chosen(p, h)
    OBVIOUS
  <1>1. PICK h \in Range(node.choices) : Chosen(p, h)
    OBVIOUS
  <1> DEFINE loaded == LoadPlayerDialogueState(p)
             x == [if |-> h.if, then |-> h.then]
             s == ApplyEffects(x.then, loaded)
             started == Started(x.then, s, quests[p])
  <1>2. SavedTypes /\ ContentIsValid
    BY DEF Inv
  <1>3. x \in Scripts(Builds[build]) /\ Permits(x, loaded)
    <2>1. t \in Builds[build].trees
      BY DEF TreesOf
    <2>2. PICK i \in DOMAIN t.nodes : node = t.nodes[i]
      BY DEF Range
    <2> QED BY <1>1, <1>2, <2>1, <2>2, RunningScripts DEF Permits, Chosen
  <1>4. Script(x.then) /\ loaded \in State
    BY <1>2, <1>3, ScriptsTyped, LoadedTyped
  <1>5. /\ quests' = [quests EXCEPT ![p] = started]
        /\ WritePlayerDialogueState(p, s)
        /\ Pay(p, GrantsOf(x.then) \cup {})
    BY <1>1 DEF Chosen
  <1> HIDE DEF loaded, x
  <1>6. s \in State /\ s.done = loaded.done
    BY <1>4, EffectsApply
  <1>7. /\ quests[p] \in Seq(Row) /\ Distinct(quests[p]) /\ QuestsIn(quests[p]) \cap s.done = {}
    BY <1>6, SavedRows DEF loaded
  <1> HIDE DEF s
  <1>8. /\ started \in Seq(Row) /\ Distinct(started) /\ QuestsIn(started) \cap s.done = {}
        /\ Range(quests[p]) \subseteq Range(started)
    BY <1>4, <1>7, QuestsStart
  <1> HIDE DEF started
  <1>9. QuestsIn(quests[p]) \subseteq QuestsIn(started)
    BY <1>8 DEF QuestsIn
  <1>10. told' = With(told, p, [flags |-> ApplyEffects(x.then, loaded).flags,
                                done |-> loaded.done \cup {}])
    BY <1>5, <1>6 DEF WritePlayerDialogueState, s
  <1>11. Ran(p, x, started, {})
    <2>1. /\ {} \cap loaded.done = {} /\ QuestsIn(started) \cap (loaded.done \cup {}) = {}
          /\ QuestsIn(quests[p]) \subseteq QuestsIn(started) \cup {}
      BY <1>6, <1>8, <1>9
    <2> QED BY <1>3, <1>5, <1>8, <1>10, <2>1 DEF Ran, loaded
  <1> QED BY <1>1, <1>11 DEF Chosen

-----------------------------------------------------------------------------
(* Inv, action by action.                                                   *)
ConvTypes == \A p \in DOMAIN conv : DOMAIN conv[p] = {"npc", "node"}

LEMMA InvParts ==
  /\ Inv => /\ TypeOK /\ ConversationsAreGrounded /\ SavesAreWhole /\ SavedTypes
            /\ ConvTypes /\ ContentIsValid /\ PaymentsAreRecorded
  /\ /\ TypeOK /\ ConversationsAreGrounded /\ SavesAreWhole /\ ConvTypes
     /\ \A p \in DOMAIN told : told[p] \in [flags : SUBSET Names, done : SUBSET Names]
     /\ quests \in [Identities -> Seq(Row)]
     /\ ContentIsValid /\ PaymentsAreRecorded
     => Inv
  BY DEF Inv, QuestsWellFormed, SavedTypes, ConvTypes

(* Where nobody talks, progress changes by an erasure or a claim only.      *)
LEMMA ProgressKept ==
  ASSUME Inv, UNCHANGED progress,
         \A p \in Holders : account'[p] = "Terminal" => account[p] = "Terminal",
         TypeOK', ConversationsAreGrounded', ConvTypes', ContentIsValid'
  PROVE  Inv'
  <1>1. SavesAreWhole'
    BY InvParts DEF SavesAreWhole, HasQuestOrDialogueState, progress
  <1>2. PaymentsAreRecorded'
    BY InvParts DEF PaymentsAreRecorded, progress
  <1>3. /\ \A p \in DOMAIN told' : told'[p] \in [flags : SUBSET Names, done : SUBSET Names]
        /\ quests' \in [Identities -> Seq(Row)]
    BY DEF Inv, SavedTypes, progress
  <1> QED BY <1>1, <1>2, <1>3, InvParts DEF Inv, QuestsWellFormed, SavedTypes, ConvTypes

LEMMA InitInv == Init => Inv
  <1> SUFFICES ASSUME Init PROVE Inv
    OBVIOUS
  <1>1. TypeOK
    <2>1. paid \in [Identities -> [Prizes -> 0 .. 2]] /\ at \in [Identities -> Places \cup {Nowhere}]
      BY DEF Init
    <2>2. DOMAIN npc = IdsOf(Builds[synced].npcs) /\ {build, synced} \subseteq DOMAIN Builds
      BY DEF Init
    <2>3. DOMAIN conv = {} /\ DOMAIN told = {}
      BY DEF Init
    <2>4. account \in [Holders -> {"None", "Active", "PendingDeletion", "Terminal"}]
      BY DEF Init
    <2> QED BY <2>1, <2>2, <2>3, <2>4 DEF TypeOK, Init
  <1>2. \A p \in Identities : quests[p] = <<>>
    BY DEF Init
  <1>3. SavesAreWhole
    <2>1. \A p \in Holders : account[p] # "Terminal"
      BY DEF Init
    <2> QED BY <1>2, <2>1 DEF SavesAreWhole, Range
  <1>4. PaymentsAreRecorded
    BY DEF Init, PaymentsAreRecorded
  <1>5. DOMAIN conv = {} /\ DOMAIN told = {} /\ ContentIsValid /\ quests \in [Identities -> Seq(Row)]
    BY DEF Init, ContentIsValid
  <1> QED BY <1>1, <1>3, <1>4, <1>5 DEF Inv, QuestsWellFormed, SavedTypes, ConversationsAreGrounded

LEMMA PublishStep ==
  ASSUME Inv, NEW v \in DOMAIN Builds, Publish(v)
  PROVE  Inv'
  <1>1. TypeOK' /\ ConversationsAreGrounded' /\ ConvTypes' /\ ContentIsValid'
    BY InvParts DEF Publish, TypeOK, ConversationsAreGrounded, ConvTypes, ContentIsValid, people, progress
  <1> QED BY <1>1, InvParts, ProgressKept DEF Publish, people

LEMMA SyncStep ==
  ASSUME Inv, SyncContent
  PROVE  Inv'
  <1>1. /\ DOMAIN conv' = {p \in DOMAIN conv : conv[p].npc \in DOMAIN npc'}
        /\ \A p \in DOMAIN conv' : conv'[p] = conv[p]
    BY DEF SyncContent, Anchored, Restrict
  <1>2. DOMAIN npc' = IdsOf(Builds[build].npcs)
    BY DEF SyncContent, PlanNpcSync
  <1>3. TypeOK'
    BY <1>1, <1>2, InvParts DEF SyncContent, TypeOK, people, progress
  <1>4. ConversationsAreGrounded' /\ ConvTypes' /\ ContentIsValid'
    BY <1>1, InvParts DEF SyncContent, ConversationsAreGrounded, ConvTypes, ContentIsValid, people,
                          progress
  <1> QED BY <1>3, <1>4, InvParts, ProgressKept DEF SyncContent, people

LEMMA TickStep ==
  ASSUME Inv, NEW zone, NEW due, MovementTick(zone, due)
  PROVE  Inv'
  <1>1. DOMAIN npc' = DOMAIN npc
    BY DEF MovementTick
  <1>2. TypeOK' /\ ConversationsAreGrounded' /\ ConvTypes' /\ ContentIsValid'
    BY <1>1, InvParts DEF MovementTick, TypeOK, ConversationsAreGrounded, ConvTypes, ContentIsValid,
                          people, progress
  <1> QED BY <1>2, InvParts, ProgressKept DEF MovementTick, people

(* A conversation that ends leaves the others.                              *)
LEMMA Ended ==
  ASSUME NEW f, NEW p
  PROVE  /\ DOMAIN Without(f, p) = DOMAIN f \ {p}
         /\ \A q \in DOMAIN Without(f, p) : Without(f, p)[q] = f[q]
  BY DEF Without, Restrict

LEMMA PlayStep ==
  ASSUME Inv, NEW p \in Identities,
         \/ JoinGame(p) \/ Walk(p) \/ StartBattle(p) \/ FinishBattle(p) \/ TradeAway(p)
         \/ OnDisconnect(p) \/ DismissDialogue(p)
  PROVE  Inv'
  <1> USE DEF people, world, progress
  <1>1. UNCHANGED <<world, progress, account>>
    BY DEF JoinGame, Walk, StartBattle, FinishBattle, TradeAway, OnDisconnect, DismissDialogue
  <1>2. OnDisconnect(p) \/ DismissDialogue(p) =>
          /\ DOMAIN conv' = DOMAIN conv \ {p}
          /\ \A q \in DOMAIN conv' : conv'[q] = conv[q]
    <2>1. OnDisconnect(p) \/ DismissDialogue(p) => conv' = Without(conv, p)
      BY DEF OnDisconnect, DismissDialogue
    <2>2. /\ DOMAIN Without(conv, p) = DOMAIN conv \ {p}
          /\ \A q \in DOMAIN Without(conv, p) : Without(conv, p)[q] = conv[q]
      BY Ended
    <2> QED BY ONLY <2>1, <2>2
  <1>3. TypeOK'
    <2>1. CASE JoinGame(p)
      BY <2>1, InvParts, QuestPlaces DEF JoinGame, TypeOK
    <2>2. CASE Walk(p)
      BY <2>2, InvParts DEF Walk, TypeOK
    <2>3. CASE StartBattle(p) \/ FinishBattle(p) \/ TradeAway(p)
      BY <2>3, InvParts DEF StartBattle, FinishBattle, TradeAway, TypeOK
    <2>4. CASE OnDisconnect(p)
      <3>1. at' \in [Identities -> Places \cup {Nowhere}]
        BY <2>4, InvParts DEF OnDisconnect, TypeOK
      <3>2. DOMAIN conv' \in SUBSET Identities
        BY <1>2, <2>4, InvParts DEF TypeOK
      <3>3. fighting' \subseteq fighting /\ player' \subseteq player /\ UNCHANGED <<claimed, trainers>>
        BY <2>4 DEF OnDisconnect
      <3> QED BY <1>1, <3>1, <3>2, <3>3, InvParts DEF TypeOK
    <2>5. CASE DismissDialogue(p)
      <3>1. DOMAIN conv' \in SUBSET Identities
        BY <1>2, <2>5, InvParts DEF TypeOK
      <3> QED BY <2>5, <3>1, InvParts DEF DismissDialogue, TypeOK
    <2> QED BY <2>1, <2>2, <2>3, <2>4, <2>5
  <1>4. /\ \A q \in DOMAIN conv' : q \in DOMAIN conv /\ conv'[q] = conv[q]
        /\ \A q \in DOMAIN conv' : q \in player => q \in player'
    <2>1. CASE OnDisconnect(p)
      <3>1. player' = player \ {p}
        BY <2>1 DEF OnDisconnect
      <3> QED BY <1>2, <2>1, <3>1
    <2>2. CASE DismissDialogue(p)
      <3>1. player' = player
        BY <2>2 DEF DismissDialogue
      <3> QED BY <1>2, <2>2, <3>1
    <2>3. CASE conv' = conv /\ player \subseteq player'
      BY <2>3
    <2>4. OnDisconnect(p) \/ DismissDialogue(p) \/ (conv' = conv /\ player \subseteq player')
      BY DEF JoinGame, Walk, StartBattle, FinishBattle, TradeAway
    <2> QED BY <2>1, <2>2, <2>3, <2>4
  <1>5. ConversationsAreGrounded' /\ ConvTypes' /\ ContentIsValid'
    BY <1>1, <1>4, InvParts DEF ConversationsAreGrounded, ConvTypes, ContentIsValid
  <1> QED BY <1>1, <1>3, <1>5, ProgressKept

LEMMA AccountStep ==
  ASSUME Inv, NEW p \in Holders, OnConnect(p) \/ DeleteAccount(p) \/ CancelAccountDeletion(p)
  PROVE  Inv'
  <1> USE DEF people, world, progress
  <1>1. UNCHANGED <<world, player, at, trainers, fighting, conv, progress>>
    BY DEF OnConnect, DeleteAccount, CancelAccountDeletion
  <1>2. \E a \in {"Active", "PendingDeletion"} : account' = [account EXCEPT ![p] = a]
    BY DEF OnConnect, DeleteAccount, CancelAccountDeletion
  <1>3. /\ account' \in [Holders -> {"None", "Active", "PendingDeletion", "Terminal"}]
        /\ \A q \in Holders : account'[q] = "Terminal" => account[q] = "Terminal"
    BY <1>2, InvParts DEF TypeOK
  <1>4. claimed' \subseteq claimed
    BY DEF OnConnect, DeleteAccount, CancelAccountDeletion
  <1>5. TypeOK'
    BY <1>1, <1>3, <1>4, InvParts DEF TypeOK
  <1>6. ConversationsAreGrounded' /\ ConvTypes' /\ ContentIsValid'
    BY <1>1, InvParts DEF ConversationsAreGrounded, ConvTypes, ContentIsValid
  <1> QED BY <1>1, <1>3, <1>5, <1>6, ProgressKept

(* An erasure takes all there is of a save, the record of payments too.     *)
LEMMA ReaperStep ==
  ASSUME Inv, NEW p \in Holders, AccountDeletionReaper(p)
  PROVE  Inv'
  <1>1. /\ DOMAIN told' = DOMAIN told \ {p} /\ \A q \in DOMAIN told' : told'[q] = told[q]
        /\ DOMAIN conv' = DOMAIN conv \ {p} /\ \A q \in DOMAIN conv' : conv'[q] = conv[q]
    <2>1. told' = Without(told, p) /\ conv' = Without(conv, p)
      BY DEF AccountDeletionReaper, Unspoken
    <2>2. /\ DOMAIN Without(conv, p) = DOMAIN conv \ {p}
          /\ \A q \in DOMAIN Without(conv, p) : Without(conv, p)[q] = conv[q]
      BY Ended
    <2>3. /\ DOMAIN Without(told, p) = DOMAIN told \ {p}
          /\ \A q \in DOMAIN Without(told, p) : Without(told, p)[q] = told[q]
      BY Ended
    <2> QED BY ONLY <2>1, <2>2, <2>3
  <1>2. p \in Identities /\ UNCHANGED <<world, player, claimed>>
    BY DEF AccountDeletionReaper, Identities
  <1>3. /\ quests' \in [Identities -> Seq(Row)] /\ quests'[p] = <<>>
        /\ \A q \in Identities : q # p => quests'[q] = quests[q]
    BY <1>2, InvParts DEF AccountDeletionReaper, SavedTypes
  <1>4. /\ paid' \in [Identities -> [Prizes -> 0 .. 2]] /\ paid'[p] = Nothing
        /\ \A q \in Identities : q # p => paid'[q] = paid[q]
    <2>1. Nothing \in [Prizes -> 0 .. 2]
      BY DEF Nothing
    <2> QED BY <1>2, <2>1, InvParts DEF AccountDeletionReaper, TypeOK
  <1>5. /\ account' \in [Holders -> {"None", "Active", "PendingDeletion", "Terminal"}]
        /\ \A q \in Holders : account'[q] = "Terminal" => account[q] = "Terminal" \/ q = p
    BY InvParts DEF AccountDeletionReaper, TypeOK
  <1>6. TypeOK'
    <2>1. at' \in [Identities -> Places \cup {Nowhere}]
      BY <1>2, InvParts DEF AccountDeletionReaper, TypeOK
    <2>2. fighting' \subseteq fighting /\ trainers' \subseteq trainers
      BY DEF AccountDeletionReaper
    <2>3. /\ {build', synced'} \subseteq DOMAIN Builds /\ DOMAIN npc' = IdsOf(Builds[synced'].npcs)
          /\ player' \subseteq Identities /\ claimed' \subseteq Identities
      BY <1>2, InvParts DEF TypeOK, world
    <2>4. /\ fighting' \subseteq Identities /\ trainers' \subseteq Identities
          /\ DOMAIN told' \subseteq Identities /\ DOMAIN conv' \subseteq Identities
      BY <1>1, <2>2, InvParts DEF TypeOK
    <2> QED BY <1>4, <1>5, <2>1, <2>3, <2>4 DEF TypeOK
  <1>7. SavesAreWhole'
    <2>1. ASSUME NEW q \in Identities
          PROVE  /\ \A i, j \in DOMAIN quests'[q] : i # j => quests'[q][i].quest # quests'[q][j].quest
                 /\ quests'[q] # <<>> => q \in DOMAIN told'
                 /\ \A r \in Range(quests'[q]) : r.quest \notin told'[q].done
      <3>1. CASE q = p
        BY <1>3, <3>1 DEF Range
      <3>2. CASE q # p
        <4>1. /\ \A i, j \in DOMAIN quests[q] : i # j => quests[q][i].quest # quests[q][j].quest
              /\ quests[q] # <<>> => q \in DOMAIN told
              /\ \A r \in Range(quests[q]) : r.quest \notin told[q].done
          BY InvParts DEF SavesAreWhole
        <4>2. CASE q \in DOMAIN told
          BY <1>1, <1>3, <3>2, <4>1, <4>2
        <4>3. CASE q \notin DOMAIN told
          BY <1>3, <3>2, <4>1, <4>3 DEF Range
        <4> QED BY <4>2, <4>3
      <3> QED BY <3>1, <3>2
    <2>2. \A q \in Holders : account'[q] = "Terminal" => ~HasQuestOrDialogueState(q)'
      <3>1. \A q \in Holders : q \in Identities
        BY DEF Identities
      <3> QED BY <1>1, <1>3, <1>5, <3>1, InvParts DEF SavesAreWhole, HasQuestOrDialogueState
    <2> QED BY <2>1, <2>2 DEF SavesAreWhole
  <1>8. PaymentsAreRecorded'
    <2>1. \A x \in Prizes : paid'[p][x] = 0
      BY <1>4 DEF Nothing
    <2> QED BY <1>1, <1>4, <2>1, InvParts DEF PaymentsAreRecorded
  <1>9. ConversationsAreGrounded' /\ ConvTypes' /\ ContentIsValid'
    BY <1>1, <1>2, InvParts DEF ConversationsAreGrounded, ConvTypes, ContentIsValid, world
  <1>10. \A q \in DOMAIN told' : told'[q] \in [flags : SUBSET Names, done : SUBSET Names]
    BY <1>1, InvParts DEF SavedTypes
  <1> QED BY <1>3, <1>6, <1>7, <1>8, <1>9, <1>10 DEF Inv, QuestsWellFormed, SavedTypes, ConvTypes

(* A claim moves a save to somebody who has none.                           *)
LEMMA ClaimStep ==
  ASSUME Inv, NEW p \in Holders, NEW g \in Guests, CompleteGuestClaim(p, g)
  PROVE  Inv'
  <1>1. p \in Identities /\ g \in Identities /\ p # g /\ g \notin Holders
    BY QuestIdentities DEF Identities
  <1>2. quests[p] = <<>> /\ p \notin DOMAIN told /\ g \notin player
    BY DEF CompleteGuestClaim, HasQuestOrDialogueState
  <1>3. UNCHANGED <<world, player, at, account, fighting, conv>> /\ account[p] = "Active"
    BY DEF CompleteGuestClaim
  <1>4. /\ DOMAIN told' = IF g \in DOMAIN told THEN (DOMAIN told \ {g}) \cup {p} ELSE DOMAIN told
        /\ g \in DOMAIN told => told'[p] = told[g]
        /\ \A q \in DOMAIN told : q # g => told'[q] = told[q]
    <2>1. told' = IF g \in DOMAIN told THEN With(Without(told, g), p, told[g]) ELSE told
      BY DEF CompleteGuestClaim
    <2>2. /\ DOMAIN Without(told, g) = DOMAIN told \ {g}
          /\ \A q \in DOMAIN Without(told, g) : Without(told, g)[q] = told[q]
      BY Ended
    <2>3. CASE g \in DOMAIN told
      BY <1>2, <2>1, <2>2, <2>3 DEF With
    <2>4. CASE g \notin DOMAIN told
      BY <2>1, <2>4
    <2> QED BY <2>3, <2>4
  <1>5. /\ quests' \in [Identities -> Seq(Row)] /\ quests'[p] = quests[g] /\ quests'[g] = <<>>
        /\ \A q \in Identities : q # p /\ q # g => quests'[q] = quests[q]
    BY <1>1, InvParts DEF CompleteGuestClaim, SavedTypes
  <1>6. /\ paid' \in [Identities -> [Prizes -> 0 .. 2]] /\ paid'[p] = Sum(paid[p], paid[g])
        /\ paid'[g] = Nothing
        /\ \A q \in Identities : q # p /\ q # g => paid'[q] = paid[q]
    <2>1. Nothing \in [Prizes -> 0 .. 2]
      BY DEF Nothing
    <2>2. paid \in [Identities -> [Prizes -> 0 .. 2]]
      BY InvParts DEF TypeOK
    <2>3. \A x \in Prizes : paid[p][x] \in 0 .. 2 /\ paid[g][x] \in 0 .. 2
      BY <1>1, <2>2
    <2>4. Sum(paid[p], paid[g]) \in [Prizes -> 0 .. 2]
      BY <2>3 DEF Sum
    <2>5. paid' = [paid EXCEPT ![p] = Sum(paid[p], paid[g]), ![g] = Nothing]
      BY DEF CompleteGuestClaim
    <2> QED BY <1>1, <2>1, <2>2, <2>4, <2>5
  <1>7. TypeOK'
    <2>1. claimed' \subseteq Identities /\ trainers' \subseteq Identities
      BY <1>1, InvParts DEF CompleteGuestClaim, TypeOK
    <2>2. DOMAIN told' \subseteq Identities
      BY <1>1, <1>4, InvParts DEF TypeOK
    <2> QED BY <1>3, <1>6, <2>1, <2>2, InvParts DEF TypeOK, world
  <1>8. SavesAreWhole'
    <2>1. ASSUME NEW q \in Identities
          PROVE  /\ \A i, j \in DOMAIN quests'[q] : i # j => quests'[q][i].quest # quests'[q][j].quest
                 /\ quests'[q] # <<>> => q \in DOMAIN told'
                 /\ \A r \in Range(quests'[q]) : r.quest \notin told'[q].done
      <3>1. \A s \in Identities :
              /\ \A i, j \in DOMAIN quests[s] : i # j => quests[s][i].quest # quests[s][j].quest
              /\ quests[s] # <<>> => s \in DOMAIN told
              /\ \A r \in Range(quests[s]) : r.quest \notin told[s].done
        BY InvParts DEF SavesAreWhole
      <3>2. CASE q = p
        <4>1. CASE g \in DOMAIN told
          BY <1>1, <1>4, <1>5, <3>1, <3>2, <4>1
        <4>2. CASE g \notin DOMAIN told
          <5>1. quests'[q] = <<>>
            BY <1>1, <1>5, <3>1, <3>2, <4>2
          <5> QED BY <5>1 DEF Range
        <4> QED BY <4>1, <4>2
      <3>3. CASE q = g
        BY <1>5, <3>3 DEF Range
      <3>4. CASE q # p /\ q # g
        <4>1. CASE q \in DOMAIN told
          BY <1>4, <1>5, <3>1, <3>4, <4>1
        <4>2. CASE q \notin DOMAIN told
          <5>1. quests'[q] = <<>>
            BY <1>5, <3>1, <3>4, <4>2
          <5> QED BY <5>1 DEF Range
        <4> QED BY <4>1, <4>2
      <3> QED BY <3>2, <3>3, <3>4
    <2>2. \A q \in Holders : account'[q] = "Terminal" => ~HasQuestOrDialogueState(q)'
      <3>1. \A q \in Holders : q \in Identities /\ q # g
        BY <1>1 DEF Identities
      <3>2. \A q \in Holders : account[q] = "Terminal" => q # p /\ quests[q] = <<>> /\ q \notin DOMAIN told
        BY <1>3, InvParts DEF SavesAreWhole, HasQuestOrDialogueState
      <3> QED BY <1>3, <1>4, <1>5, <3>1, <3>2 DEF HasQuestOrDialogueState
    <2> QED BY <2>1, <2>2 DEF SavesAreWhole
  <1>9. PaymentsAreRecorded'
    <2>1. \A x \in Prizes : ~Reopened(x) => paid[p][x] = 0
      BY <1>1, <1>2, InvParts DEF PaymentsAreRecorded
    <2>2. \A x \in Prizes : ~Reopened(x) => paid'[p][x] = paid[g][x] /\ paid'[g][x] = 0
      <3>1. \A x \in Prizes : paid[g][x] \in 0 .. 2
        BY <1>1, InvParts DEF TypeOK
      <3> QED BY <1>6, <2>1, <3>1 DEF Sum, Nothing
    <2> SUFFICES ASSUME NEW q \in Identities, NEW x \in Prizes, ~Reopened(x), paid'[q][x] # 0
                 PROVE  /\ paid'[q][x] = 1 /\ q \in DOMAIN told'
                        /\ IF GiversOf(x) = {} THEN x \in told'[q].done
                                               ELSE \E f \in told'[q].flags : Shuts(f, x)
      BY DEF PaymentsAreRecorded
    <2>3. CASE q = p
      <3>1. /\ paid[g][x] = 1 /\ g \in DOMAIN told
            /\ IF GiversOf(x) = {} THEN x \in told[g].done ELSE \E f \in told[g].flags : Shuts(f, x)
        BY <1>1, <2>2, <2>3, InvParts DEF PaymentsAreRecorded
      <3> QED BY <1>4, <2>2, <2>3, <3>1
    <2>4. CASE q = g
      BY <2>2, <2>4
    <2>5. CASE q # p /\ q # g
      <3>1. /\ paid[q][x] = 1 /\ q \in DOMAIN told
            /\ IF GiversOf(x) = {} THEN x \in told[q].done ELSE \E f \in told[q].flags : Shuts(f, x)
        BY <1>6, <2>5, InvParts DEF PaymentsAreRecorded
      <3> QED BY <1>4, <1>6, <2>5, <3>1
    <2> QED BY <2>3, <2>4, <2>5
  <1>10. ConversationsAreGrounded' /\ ConvTypes' /\ ContentIsValid'
    <2>1. g \notin DOMAIN conv
      BY <1>2, InvParts DEF ConversationsAreGrounded
    <2> QED BY <1>3, <1>4, <2>1, InvParts DEF ConversationsAreGrounded, ConvTypes, ContentIsValid, world
  <1>11. \A q \in DOMAIN told' : told'[q] \in [flags : SUBSET Names, done : SUBSET Names]
    <2>1. \A q \in DOMAIN told : told[q] \in [flags : SUBSET Names, done : SUBSET Names]
      BY InvParts DEF SavedTypes
    <2> QED BY <1>2, <1>4, <2>1
  <1> QED BY <1>5, <1>7, <1>8, <1>9, <1>10, <1>11 DEF Inv, QuestsWellFormed, SavedTypes, ConvTypes

(* A script that runs.                                                      *)
LEMMA RanStep ==
  ASSUME Inv, NEW p \in Identities, NEW x, NEW rows, NEW won, Ran(p, x, rows, won),
         MayTalk(p), UNCHANGED <<world, people>>,
         DOMAIN conv' \subseteq DOMAIN conv \cup {p}, ConvTypes',
         \A q \in DOMAIN conv' : conv'[q].npc \in DOMAIN npc
  PROVE  Inv'
  <1>1. p \in player /\ (p \in Holders => account[p] # "Terminal") /\ account' = account
    BY DEF MayTalk, IsPendingDeletion, people
  <1>2. /\ SavesAreWhole' /\ DOMAIN told' = DOMAIN told \cup {p}
        /\ \A q \in DOMAIN told' : told'[q] \in [flags : SUBSET Names, done : SUBSET Names]
        /\ quests' \in [Identities -> Seq(Row)]
    BY <1>1, RanKeepsSaves
  <1>3. PaymentsAreRecorded' /\ paid' \in [Identities -> [Prizes -> 0 .. 2]]
    BY RanPaysOnce
  <1>4. TypeOK'
    <2>1. DOMAIN conv' \subseteq Identities /\ DOMAIN told' \subseteq Identities
      BY <1>2, InvParts DEF TypeOK
    <2> QED BY <1>3, <2>1, InvParts DEF TypeOK, world, people
  <1>5. ConversationsAreGrounded' /\ ContentIsValid'
    BY <1>1, <1>2, InvParts DEF ConversationsAreGrounded, ContentIsValid, world, people
  <1> QED BY <1>2, <1>3, <1>4, <1>5 DEF Inv, QuestsWellFormed, SavedTypes, ConvTypes

LEMMA TalkConv ==
  ASSUME Inv, NEW p \in Identities, NEW n, Talk(p, n)
  PROVE  /\ DOMAIN conv' = DOMAIN conv \cup {p} /\ conv'[p].npc = n /\ ConvTypes'
         /\ \A q \in DOMAIN conv : q # p => conv'[q] = conv[q]
  <1>1. PICK node : conv' = With(conv, p, [npc |-> n, node |-> node])
    BY TalkRuns
  <1>2. /\ DOMAIN conv' = DOMAIN conv \cup {p} /\ conv'[p] = [npc |-> n, node |-> node]
        /\ \A q \in DOMAIN conv : q # p => conv'[q] = conv[q]
    BY <1>1 DEF With
  <1>3. conv'[p].npc = n /\ DOMAIN conv'[p] = {"npc", "node"}
    BY <1>2
  <1> QED BY <1>2, <1>3, InvParts DEF ConvTypes

LEMMA AdvanceConv ==
  ASSUME Inv, NEW p \in Identities, AdvanceDialogue(p)
  PROVE  /\ DOMAIN conv' \subseteq DOMAIN conv /\ ConvTypes'
         /\ \A q \in DOMAIN conv' : conv'[q].npc = conv[q].npc
  <1>1. CASE conv' = Without(conv, p)
    <2>1. /\ DOMAIN conv' = DOMAIN conv \ {p}
          /\ \A q \in DOMAIN conv' : conv'[q] = conv[q]
      BY <1>1, Ended
    <2> QED BY <2>1, InvParts DEF ConvTypes
  <1>2. ASSUME NEW node, conv' = [conv EXCEPT ![p].node = node]
        PROVE  /\ DOMAIN conv' \subseteq DOMAIN conv /\ ConvTypes'
               /\ \A q \in DOMAIN conv' : conv'[q].npc = conv[q].npc
    <2>1. DOMAIN conv' = DOMAIN conv /\ \A q \in DOMAIN conv : q # p => conv'[q] = conv[q]
      BY <1>2
    <2>2. p \in DOMAIN conv /\ DOMAIN conv[p] = {"npc", "node"}
      BY InvParts DEF AdvanceDialogue, ConvTypes
    <2>3. conv'[p] = [conv[p] EXCEPT !.node = node]
      BY <1>2, <2>2
    <2>4. conv'[p].npc = conv[p].npc /\ DOMAIN conv'[p] = {"npc", "node"}
      BY <2>2, <2>3
    <2> QED BY <2>1, <2>4, InvParts DEF ConvTypes
  <1> QED BY <1>1, <1>2, AdvanceRuns

LEMMA TalkStep ==
  ASSUME Inv, NEW p \in Identities, NEW n, Talk(p, n)
  PROVE  Inv'
  <1>1. MayTalk(p) /\ n \in DOMAIN npc /\ UNCHANGED <<world, people>>
    BY DEF Talk, Reaches
  <1>2. \A q \in DOMAIN conv' : conv'[q].npc \in DOMAIN npc
    BY <1>1, TalkConv, InvParts DEF ConversationsAreGrounded
  <1>3. PICK x, rows, won : Ran(p, x, rows, won)
    BY TalkRuns
  <1>4. DOMAIN conv' \subseteq DOMAIN conv \cup {p} /\ ConvTypes'
    BY TalkConv
  <1> QED BY <1>1, <1>2, <1>3, <1>4, RanStep

LEMMA AdvanceStep ==
  ASSUME Inv, NEW p \in Identities, AdvanceDialogue(p)
  PROVE  Inv'
  <1>1. MayTalk(p) /\ UNCHANGED <<world, people>>
    BY DEF AdvanceDialogue
  <1>2. DOMAIN conv' \subseteq DOMAIN conv \cup {p} /\ ConvTypes'
    BY AdvanceConv
  <1>3. \A q \in DOMAIN conv' : conv'[q].npc \in DOMAIN npc
    BY AdvanceConv, InvParts DEF ConversationsAreGrounded
  <1>4. PICK x, rows : Ran(p, x, rows, {})
    BY AdvanceRuns
  <1> QED BY <1>1, <1>2, <1>3, <1>4, RanStep

LEMMA InvStep == Inv /\ [Next]_vars => Inv'
  <1> SUFFICES ASSUME Inv, [Next]_vars PROVE Inv'
    OBVIOUS
  <1>1. CASE UNCHANGED vars
    <2>1. UNCHANGED <<build, synced, npc, player, at, account, claimed, trainers, fighting, conv,
                      told, quests, paid>>
      BY <1>1 DEF vars, world, people, progress
    <2>2. TypeOK' /\ ConversationsAreGrounded' /\ ConvTypes' /\ ContentIsValid'
      BY <2>1, InvParts DEF TypeOK, ConversationsAreGrounded, ConvTypes, ContentIsValid
    <2> QED BY <2>1, <2>2, ProgressKept DEF progress
  <1>2. CASE \E v \in DOMAIN Builds : Publish(v)
    BY <1>2, PublishStep
  <1>3. CASE SyncContent
    BY <1>3, SyncStep
  <1>4. CASE \E zone \in {q[1] : q \in Places} : \E due \in SUBSET DOMAIN npc : MovementTick(zone, due)
    BY <1>4, TickStep
  <1>5. ASSUME NEW p \in Identities,
               \/ \E n \in DOMAIN npc : Talk(p, n)
               \/ AdvanceDialogue(p) \/ DismissDialogue(p)
               \/ JoinGame(p) \/ Walk(p) \/ StartBattle(p) \/ FinishBattle(p) \/ TradeAway(p)
               \/ OnDisconnect(p)
        PROVE  Inv'
    BY <1>5, TalkStep, AdvanceStep, PlayStep
  <1>6. ASSUME NEW p \in Holders,
               \/ OnConnect(p) \/ DeleteAccount(p) \/ CancelAccountDeletion(p)
               \/ AccountDeletionReaper(p)
               \/ \E g \in Guests : CompleteGuestClaim(p, g)
        PROVE  Inv'
    BY <1>6, AccountStep, ReaperStep, ClaimStep
  <1> QED BY <1>1, <1>2, <1>3, <1>4, <1>5, <1>6 DEF Next

(* What is proved of every step below rests on Inv.                         *)
THEOREM Invariance == Spec => []Inv
  BY InitInv, InvStep, PTL DEF Spec

(* QuestsWellFormed: whatever players, publishers, claims and erasures do   *)
(* in between, a conversation is with an NPC that exists by somebody in the *)
(* game, a quest is active once or done, and its rows have a dialogue state *)
(* beside them.                                                             *)
THEOREM QuestsStayWhole == Spec => []QuestsWellFormed
  BY Invariance, PTL DEF Inv

(* PaidOnce: a save gets each gift and each reward once, over any talks,    *)
(* answers, claims and publications of valid content.                       *)
THEOREM PaymentsAreMadeOnce == Spec => []PaidOnce
  <1>1. Inv => PaidOnce
    BY InvParts DEF PaymentsAreRecorded, PaidOnce
  <1> QED BY <1>1, Invariance, PTL

-----------------------------------------------------------------------------
(* Who runs a script changes no other player's quests.                      *)
LEMMA OthersQuests ==
  ASSUME Inv, NEW p \in Identities, NEW x, NEW rows, NEW won, Ran(p, x, rows, won)
  PROVE  /\ \A q \in Identities : q # p => quests'[q] = quests[q]
         /\ quests'[p] = rows /\ QuestsIn(quests[p]) \subseteq QuestsIn(rows) \cup won
         /\ p \in DOMAIN told' /\ won \subseteq told'[p].done
  BY InvParts DEF Ran, SavedTypes, With

LEMMA KeptComplete ==
  ASSUME NEW q, quests'[q] = quests[q]
  PROVE  Completes(q)
  BY DEF Completes

LEMMA RanCompletes ==
  ASSUME Inv, NEW p \in Identities, NEW x, NEW rows, NEW won, Ran(p, x, rows, won),
         won # {} => p \in DOMAIN conv', NEW q \in Identities
  PROVE  Completes(q)
  <1>1. CASE q = p
    <2> SUFFICES ASSUME NEW r \in Range(quests[p]), \A u \in Range(quests'[p]) : u.quest # r.quest
                 PROVE  p \in DOMAIN conv' /\ p \in DOMAIN told' /\ r.quest \in told'[p].done
      BY <1>1 DEF Completes
    <2>1. r.quest \in QuestsIn(quests[p]) /\ r.quest \notin QuestsIn(quests'[p])
      BY DEF QuestsIn
    <2>2. r.quest \in won
      BY <2>1, OthersQuests
    <2> QED BY <2>2, OthersQuests
  <1>2. CASE q # p
    BY <1>2, OthersQuests, KeptComplete
  <1> QED BY <1>1, <1>2

(* CompletionsAreSeen: a quest row that leaves does so beside a conversation *)
(* exactly when its quest is done, so that the browser takes no erasure and *)
(* no claim for a completion.                                               *)
THEOREM CompletionsStandOut == Spec => CompletionsAreSeen
  <1>1. ASSUME Inv, [Next]_vars, NEW q \in Identities
        PROVE  Completes(q)
    <2>1. CASE UNCHANGED quests
      BY <2>1, KeptComplete
    <2>2. ASSUME NEW p \in Identities, NEW n, Talk(p, n)
          PROVE  Completes(q)
      <3>1. PICK x, rows, won : Ran(p, x, rows, won)
        BY <1>1, <2>2, TalkRuns
      <3>2. p \in DOMAIN conv'
        BY <1>1, <2>2, TalkConv
      <3> QED BY <1>1, <3>1, <3>2, RanCompletes
    <2>3. ASSUME NEW p \in Identities, AdvanceDialogue(p)
          PROVE  Completes(q)
      <3>1. PICK x, rows : Ran(p, x, rows, {})
        BY <1>1, <2>3, AdvanceRuns
      <3> QED BY <1>1, <3>1, RanCompletes
    <2>4. ASSUME NEW p \in Holders, AccountDeletionReaper(p)
          PROVE  Completes(q)
      <3>1. conv' = Without(conv, p) /\ told' = Without(told, p)
        BY <2>4 DEF AccountDeletionReaper, Unspoken
      <3>2. p \notin DOMAIN conv' /\ p \notin DOMAIN told'
        <4>1. DOMAIN Without(conv, p) = DOMAIN conv \ {p}
          BY Ended
        <4>2. DOMAIN Without(told, p) = DOMAIN told \ {p}
          BY Ended
        <4> QED BY <3>1, <4>1, <4>2
      <3>3. q # p => quests'[q] = quests[q]
        BY <1>1, <2>4, InvParts DEF AccountDeletionReaper, SavedTypes
      <3>4. CASE q = p
        BY <3>2, <3>4 DEF Completes
      <3> QED BY <3>3, <3>4, KeptComplete
    <2>5. ASSUME NEW p \in Holders, NEW g \in Guests, CompleteGuestClaim(p, g)
          PROVE  Completes(q)
      <3>1. p \in Identities /\ g \in Identities /\ p # g
        BY QuestIdentities DEF Identities
      <3>2. q # p /\ q # g => quests'[q] = quests[q]
        BY <1>1, <2>5, <3>1, InvParts DEF CompleteGuestClaim, SavedTypes
      <3>3. CASE q = p
        BY <2>5, <3>3 DEF CompleteGuestClaim, HasQuestOrDialogueState, Completes, Range
      <3>4. CASE q = g
        <4>1. g \notin DOMAIN conv'
          BY <1>1, <2>5, InvParts DEF CompleteGuestClaim, ConversationsAreGrounded
        <4>2. DOMAIN Without(told, g) = DOMAIN told \ {g}
          BY Ended
        <4>3. g \notin DOMAIN told'
          BY <2>5, <3>1, <4>2 DEF CompleteGuestClaim, With
        <4> QED BY <3>4, <4>1, <4>3 DEF Completes
      <3> QED BY <3>2, <3>3, <3>4, KeptComplete
    <2>6. ASSUME NEW p \in Identities,
                 \/ DismissDialogue(p) \/ JoinGame(p) \/ Walk(p) \/ StartBattle(p)
                 \/ FinishBattle(p) \/ TradeAway(p) \/ OnDisconnect(p)
          PROVE  UNCHANGED quests
      BY <2>6 DEF DismissDialogue, JoinGame, Walk, StartBattle, FinishBattle, TradeAway,
                  OnDisconnect, progress
    <2>7. ASSUME NEW p \in Holders, OnConnect(p) \/ DeleteAccount(p) \/ CancelAccountDeletion(p)
          PROVE  UNCHANGED quests
      BY <2>7 DEF OnConnect, DeleteAccount, CancelAccountDeletion, progress
    <2>8. ASSUME \/ UNCHANGED vars
                 \/ \E v \in DOMAIN Builds : Publish(v)
                 \/ SyncContent
                 \/ \E zone \in {s[1] : s \in Places} : \E due \in SUBSET DOMAIN npc :
                      MovementTick(zone, due)
          PROVE  UNCHANGED quests
      BY <2>8 DEF vars, Publish, SyncContent, MovementTick, progress
    <2>9. (\E p \in Identities : \E n \in DOMAIN npc : Talk(p, n)) => Completes(q)
      BY <2>2
    <2> QED BY <1>1, <2>1, <2>3, <2>4, <2>5, <2>6, <2>7, <2>8, <2>9 DEF Next
  <1>2. Inv /\ [Next]_vars => [\A p \in Identities : Completes(p)]_vars
    BY <1>1
  <1> QED BY <1>2, Invariance, PTL DEF Spec, CompletionsAreSeen

-----------------------------------------------------------------------------
(* A talker who stays is waited for when the conversation stays with the    *)
(* same NPC and that NPC stays where it is.                                 *)
LEMMA NpcStands ==
  ASSUME NEW p, p \in DOMAIN conv' => conv'[p].npc = conv[p].npc,
         conv[p].npc \in DOMAIN npc => /\ conv[p].npc \in DOMAIN npc'
                                       /\ npc'[conv[p].npc].place = npc[conv[p].npc].place
  PROVE  IsWaitedFor(p)
  BY DEF IsWaitedFor, Near, Reaches, ZoneOf

(* Whom the tick finds in a live conversation takes no step.                *)
LEMMA TalkersHoldNpcs ==
  ASSUME Inv, NEW zone, NEW due, MovementTick(zone, due), NEW p \in Identities
  PROVE  IsWaitedFor(p)
  <1> SUFFICES ASSUME Near(p) PROVE IsWaitedFor(p)
    BY DEF IsWaitedFor
  <1> DEFINE n == conv[p].npc
  <1>1. p \in DOMAIN conv /\ n \in DOMAIN npc /\ ConversationIsLive(p, ZoneOf(n))
    BY DEF Near, Reaches, ConversationIsLive
  <1>2. n \notin due
    <2>1. SUFFICES ASSUME ZoneOf(n) = zone PROVE n \in Conversing(zone)
      BY DEF MovementTick
    <2> QED BY <1>1, <2>1 DEF Conversing
  <1>3. conv' = conv /\ n \in DOMAIN npc' /\ npc'[n] = npc[n]
    BY <1>1, <1>2 DEF MovementTick
  <1> QED BY <1>3, NpcStands

(* NpcsWaitForTalkers: an NPC does not walk away from a player who talks to *)
(* it and stays, until the next content arrives.                            *)
THEOREM NpcsWait == Spec => NpcsWaitForTalkers
  <1>1. ASSUME Inv, [Next]_vars, NEW q \in Identities
        PROVE  IsWaitedFor(q)
    <2>1. CASE UNCHANGED <<npc, conv>>
      BY <2>1, NpcStands
    <2>2. CASE SyncContent
      BY <2>2 DEF SyncContent, IsWaitedFor
    <2>3. ASSUME NEW zone, NEW due, MovementTick(zone, due)
          PROVE  IsWaitedFor(q)
      BY <1>1, <2>3, TalkersHoldNpcs
    <2>4. ASSUME NEW p \in Identities, NEW n, Talk(p, n)
          PROVE  IsWaitedFor(q)
      <3>1. UNCHANGED npc
        BY <2>4 DEF Talk, world
      <3>2. CASE q = p
        <4>1. conv'[p].npc = n /\ Reaches(p, n) /\ at' = at
          BY <1>1, <2>4, TalkConv DEF Talk, people
        <4> QED BY <3>1, <3>2, <4>1 DEF IsWaitedFor, Near, Reaches, ZoneOf
      <3>3. CASE q # p
        <4>1. q \in DOMAIN conv => conv'[q] = conv[q]
          BY <1>1, <2>4, <3>3, TalkConv
        <4> QED BY <3>1, <4>1, NpcStands DEF IsWaitedFor, Near
      <3> QED BY <3>2, <3>3
    <2>5. ASSUME NEW p \in Identities, AdvanceDialogue(p)
          PROVE  IsWaitedFor(q)
      <3>1. UNCHANGED npc
        BY <2>5 DEF AdvanceDialogue, world
      <3> QED BY <1>1, <2>5, <3>1, AdvanceConv, NpcStands
    <2>6. ASSUME NEW p \in Identities, UNCHANGED npc, conv' = Without(conv, p)
          PROVE  IsWaitedFor(q)
      <3>1. \A s \in DOMAIN Without(conv, p) : Without(conv, p)[s] = conv[s]
        BY Ended
      <3> QED BY <2>6, <3>1, NpcStands
    <2>7. ASSUME NEW p \in Identities,
                 \/ JoinGame(p) \/ Walk(p) \/ StartBattle(p) \/ FinishBattle(p) \/ TradeAway(p)
          PROVE  UNCHANGED <<npc, conv>>
      BY <2>7 DEF JoinGame, Walk, StartBattle, FinishBattle, TradeAway, world
    <2>8. ASSUME NEW p \in Identities, DismissDialogue(p) \/ OnDisconnect(p)
          PROVE  UNCHANGED npc /\ conv' = Without(conv, p)
      BY <2>8 DEF DismissDialogue, OnDisconnect, world
    <2>9. ASSUME NEW p \in Holders, AccountDeletionReaper(p)
          PROVE  p \in Identities /\ UNCHANGED npc /\ conv' = Without(conv, p)
      BY <2>9 DEF AccountDeletionReaper, Unspoken, world, Identities
    <2>10. ASSUME NEW p \in Holders,
                  \/ OnConnect(p) \/ DeleteAccount(p) \/ CancelAccountDeletion(p)
                  \/ \E g \in Guests : CompleteGuestClaim(p, g)
           PROVE  UNCHANGED <<npc, conv>>
      BY <2>10 DEF OnConnect, DeleteAccount, CancelAccountDeletion, CompleteGuestClaim, world
    <2>11. ASSUME UNCHANGED vars \/ \E v \in DOMAIN Builds : Publish(v)
           PROVE  UNCHANGED <<npc, conv>>
      BY <2>11 DEF vars, Publish, world
    <2>12. (\E p \in Identities : \E n \in DOMAIN npc : Talk(p, n)) => IsWaitedFor(q)
      BY <2>4
    <2>13. (\E zone \in {s[1] : s \in Places} : \E due \in SUBSET DOMAIN npc :
              MovementTick(zone, due)) => IsWaitedFor(q)
      BY <2>3
    <2> QED BY <1>1, <2>1, <2>2, <2>5, <2>6, <2>7, <2>8, <2>9, <2>10, <2>11, <2>12, <2>13 DEF Next
  <1>2. Inv /\ [Next]_vars => [\A p \in Identities : IsWaitedFor(p)]_vars
    BY <1>1
  <1> QED BY <1>2, Invariance, PTL DEF Spec, NpcsWaitForTalkers

=============================================================================
